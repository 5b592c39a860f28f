SPECIFICATION TimelySpec
CONSTANTS
  Person = {p1, p2}
  None = None
  ReminderLead = 4
  NudgeLead = 3
  DeadlineLead = 1
  ConfirmGrace = 1
  StoredChannels = {"none"}
  Horizon = 6
  MaxCycles = 1
  MaxWait = 1
SYMMETRY Symmetry
PROPERTIES ResponsibleHadAChance NudgeReachesTheSilent
