\* One purchase at either store, two notifications and two requests at once.
CONSTANTS
  Purchases = {p}
  Hooks = {h1, h2}
  Clients = {c1, c2}
  MaxTime = 2
  MaxNotes = 3
  MaxRepeats = 1
  MaxFaults = 1
SPECIFICATION Spec
SYMMETRY Alike
INVARIANTS TypeOK CreditsFollowPeriods InStep
\* The bounded system may stop: time and notifications run out.
CHECK_DEADLOCK FALSE
