\* Two families on two instances: refreshes, endings and a failure at once.
CONSTANTS
  Families = {f1, f2}
  Instances = {i1, i2}
  Reqs = {r1, r2}
  MaxTokens = 3
  MaxEndings = 1
  MaxFaults = 1
SPECIFICATION Spec
SYMMETRY SessionSymmetry
INVARIANTS NoBranches HonestFamilySurvives OnlyOverlapsSurvive
\* The bounded system may stop: rows run out.
CHECK_DEADLOCK FALSE
