\* Two requests at once, each way to register, change and end; and, with one account that
\* may end, a purchase, two messages or an export.
CONSTANTS
  phone = phone  phone2 = phone2  mail = mail
  Accounts = {u1, u2}
  Tokens = {t1}
  Guards = {g1, g2}
  MaxFailures = 1
  Values = {phone, phone2, mail}
  KindOf <- Kinds
  Rows = {i1, i2}
  Reqs = {r1, r2}
  Nobody = Nobody
  Events = {e1}
  Deliveries = {d1, d2}
  MaxLosses = 1
  Senders = {d1, d2}
  Exports = {x1}
  Askers = {d1, d2}
  Workers = {d1, d2}
  MaxFaults = 1
  PageSize = 1
  Budgets <- Few
SPECIFICATION Spec
SYMMETRY Alike
INVARIANTS OneAccountPerValue EndedLeavesNothing ClaimsReachHandler ShutStaysOut PurchasedOnce
           MessagesReadable ChatsEndWithAccount TranscriptsComplete ExportRowsTrue
PROPERTIES OwnersKeepTheirs
\* The bounded system may stop: requests run out.
CHECK_DEADLOCK FALSE
