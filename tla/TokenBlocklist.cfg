\* Three requests at a time: two seeders and a logout, or a check, while Redis
\* loses data twice.
CONSTANTS
  Tokens = {t1}
  Handlers = {h1, h2, h3}
  MaxLosses = 2
SPECIFICATION BlocklistSpec
SYMMETRY Symmetry
INVARIANTS BlocklistTypeOK ReadyIsComplete LogoutIsSeen
CHECK_DEADLOCK FALSE
