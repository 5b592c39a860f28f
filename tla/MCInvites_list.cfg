SPECIFICATION InvitesSpec
CONSTANTS
  Target = {g1, g2, g3, b}
  GuestId = {g1, g2, g3}
  Audience = {b}
  Name = {n1, n2, n3}
  Address = {a1, a2}
  None = None
  MaxAttempts = 1
  Retention = 1
  MaxRows = 3
  MaxTxns = 1
  MaxGuests = 2
  Slack = 0
  MaxInvites = 2
SYMMETRY Symmetry
INVARIANTS InvitesTypeOK ListIsSound KnownGuestMayAnswer
PROPERTIES AddressStays ClosedListStays
CHECK_DEADLOCK FALSE
