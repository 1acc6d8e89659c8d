\* Two requests at a time over two accounts and three addresses, with the seed
\* script beside them.
CONSTANTS
  Users = {u1, u2}
  Addresses = {a1, a2, a3}
  Admin = a1
  Handlers = {h1, h2}
  None = None
  Null = Null
SPECIFICATION FairSpec
INVARIANTS TypeOK NobodyIsStranded OneOwner
PROPERTY EveryRequestEnds
CHECK_DEADLOCK FALSE
