SPECIFICATION PortalSpec
CONSTANTS
  Event = {e1, e2}
  FirstEvents = {e1}
  Person = {p1}
  User = {}
  Group = {}
  None = None
  Length = 0
  Slack = 1
  MaxMints = 1
  Horizon = 2
  MaxOpen = 1
  MaxProposals = 1
  MaxRotations = 1
SYMMETRY Symmetry
VIEW Anonymous
INVARIANTS NoDanglingProposal
PROPERTIES AcceptedIsDone OnlyTheOperatorRevives
