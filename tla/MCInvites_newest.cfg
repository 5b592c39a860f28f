SPECIFICATION InvitesSpec
CONSTANTS
  Target = {g1}
  GuestId = {g1}
  Audience = {}
  Name = {n1}
  Address = {a1}
  None = None
  MaxAttempts = 1
  Retention = 1
  MaxRows = 4
  MaxTxns = 2
  MaxGuests = 2
  Slack = 1
  MaxInvites = 1
SYMMETRY Symmetry

INVARIANT NoticeIsNewest
CHECK_DEADLOCK FALSE
