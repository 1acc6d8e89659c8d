\* The second function has a shorter ttl than the first.
CONSTANTS
  one = one
  both = both
  first = first
  second = second
  Keys = {one, both}
  Tags = {first, second}
  Callers = {c1}
  Invalidators = {i1}
  TagsOf <- TagsOfTwo
  Life <- TwoLives
  MaxInvalidations = 1
SPECIFICATION Spec
INVARIANT InvalidatedStaysGone
CHECK_DEADLOCK FALSE
