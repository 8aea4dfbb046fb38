\* Two users in pages of one, one request and one instance at a time, one failure.
CONSTANTS
  Users = {1, 2}
  Txs = {11}
  Workers = {21}
  Amounts = {2}
  ExpiryDays = {0, 1}
  Cost = 1
  BatchSize = 1
  MaxTime = 2
  MaxGrants = 2
  MaxSpends = 2
  MaxFaults = 1
SPECIFICATION HFairSpec
INVARIANTS TypeOK ExpiredAtMostOnce BalanceNeverShort
PROPERTY LapsedBundlesClose
\* The bounded system may stop: time and requests run out.
CHECK_DEADLOCK FALSE
