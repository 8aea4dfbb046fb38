\* A second attempt succeeds after the first failed.
CONSTANTS
  o1 = o1  o2 = o2  p1 = p1  p2 = p2  h1 = h1  h2 = h2  s1 = s1  s2 = s2
  Orders = {o1}
  Payments = {p1, p2}
  OrderOf <- BothForFirst
  Hooks = {h1}
  Clients = {}
  Sweeps = {s1}
  TakeLimit = 1
  MaxFaults = 0
SPECIFICATION Spec
INVARIANT AckedCaptureIsPaid
\* The bounded system may stop: payments and faults run out.
CHECK_DEADLOCK FALSE
