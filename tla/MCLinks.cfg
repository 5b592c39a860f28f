SPECIFICATION Spec
CONSTANTS
  Event = {e1}
  FirstEvents = {e1}
  Person = {p1, p2}
  User = {u1}
  Group = {}
  None = None
  Length = 0
  Slack = 1
  MaxMints = 2
  Horizon = 2
SYMMETRY Symmetry
VIEW Unanswered
INVARIANTS MailedKeepsWorking
PROPERTIES WithdrawnNeverActs StrangerNeverActs
