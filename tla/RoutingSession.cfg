\* Three writes, in one session or in several.
CONSTANT Writes = {w1, w2, w3}
SPECIFICATION SessionSpec
SYMMETRY Symmetry
INVARIANTS SessionTypeOK ReadYourWrites FailoverDropsNothing
CHECK_DEADLOCK FALSE
