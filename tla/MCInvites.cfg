SPECIFICATION InvitesSpec
CONSTANTS
  Target = {g1, g2, g3}
  GuestId = {g1, g2, g3}
  Audience = {}
  Name = {n1, n2, n3}
  Address = {a1, a2}
  None = None
  MaxAttempts = 1
  Retention = 1
  MaxRows = 3
  MaxTxns = 2
  MaxGuests = 2
  Slack = 1
  MaxInvites = 1
SYMMETRY Symmetry
INVARIANTS MissingIsShown ListIsSound
PROPERTIES DeletedOnlySettled OneNoticePerAddress AddressStays
CHECK_DEADLOCK FALSE
