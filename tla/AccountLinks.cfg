\* Two requests over three links: racing redemptions, newer links, the purge.
CONSTANTS
  Links = {l1, l2, l3}
  Handlers = {h1, h2}
  Lifetime <- ShortResets
  MaxTime = 3
SPECIFICATION Spec
SYMMETRY Symmetry
INVARIANTS TypeOK UsedOnceWhileValid SupersededLinksFail
CHECK_DEADLOCK FALSE
