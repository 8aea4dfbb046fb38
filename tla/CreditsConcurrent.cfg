\* Two requests and two instances at once.
CONSTANTS
  Users = {1}
  Txs = {11, 12}
  Workers = {21, 22}
  Amounts = {1, 2}
  ExpiryDays = {0, 1}
  Cost = 1
  BatchSize = 1
  MaxTime = 1
  MaxGrants = 2
  MaxSpends = 2
  MaxFaults = 1
SPECIFICATION HSpec
INVARIANTS OverdraftBounded ClosedStaysClosed
PROPERTY CronMovesNoBalance
\* The bounded system may stop: time and requests run out.
CHECK_DEADLOCK FALSE
