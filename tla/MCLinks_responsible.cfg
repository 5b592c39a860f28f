SPECIFICATION Spec
CONSTANTS
  Event = {e1}
  FirstEvents = {e1}
  Person = {p1}
  User = {u1}
  Group = {}
  None = None
  Length = 0
  Slack = 1
  MaxMints = 2
  Horizon = 1
VIEW Unanswered
PROPERTIES OnlyTheResponsibleAnswer
