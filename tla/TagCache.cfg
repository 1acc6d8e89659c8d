\* Two functions that share a tag and have the same ttl; two calls, two
\* invalidations at a time.
CONSTANTS
  one = one
  both = both
  first = first
  second = second
  Keys = {one, both}
  Tags = {first, second}
  Callers = {c1, c2}
  Invalidators = {i1, i2}
  TagsOf <- TagsOfTwo
  Life <- SameLives
  MaxInvalidations = 2
SPECIFICATION Spec
SYMMETRY Symmetry
INVARIANTS TypeOK InvalidatedStaysGone
CHECK_DEADLOCK FALSE
