\* Two orders of either gateway, two attempts at one of them, all paths at once.
CONSTANTS
  o1 = o1  o2 = o2  p1 = p1  p2 = p2  h1 = h1  h2 = h2  s1 = s1  s2 = s2
  Orders = {o1, o2}
  Payments = {p1, p2}
  OrderOf <- BothForFirst
  Hooks = {h1, h2}
  Clients = {"c1"}
  Sweeps = {s1, s2}
  TakeLimit = 1
  MaxFaults = 1
SPECIFICATION Spec
SYMMETRY Alike
CONSTRAINT SecondStaysFresh
INVARIANTS ExactlyOnce PaidOnlyIfHeld AnsweredIsSettled
PROPERTIES SettledAtMostOnce
\* The bounded system may stop: payments and faults run out.
CHECK_DEADLOCK FALSE
