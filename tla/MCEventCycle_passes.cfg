SPECIFICATION TimelySpec
CONSTANTS
  Person = {p1}
  None = None
  ReminderLead = 4
  NudgeLead = 3
  DeadlineLead = 1
  ConfirmGrace = 1
  StoredChannels = {"none", "broken", "valid"}
  Horizon = 6
  MaxCycles = 1
  MaxWait = 1
INVARIANTS RemindedAtMostTwice DeadManSwitch
PROPERTIES PassesAreDisjoint FlipIsToldOrPaged SilenceHadItsChance AnsweredIsLeftAlone
