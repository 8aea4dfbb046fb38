\* Two currencies, three gateways, two requests of every kind at once.
CONSTANTS
  Currencies = {inr, usd}
  Editors = {e1, e2}
  Amounts = {1, 2}
  MaxTime = 1
  MaxEdits = 2
  Gateways = {razorpay, cashfree, easebuzz}
  Operators = {o1, o2}
  MaxReroutes = 2
  Budgets <- FewCalls
SPECIFICATION Spec
SYMMETRY Alike
\* Prices in a second currency are added.
CONSTRAINT OneAtFirst
INVARIANTS TypeOK PointInTimeAnswers PricesCoherent PrioritiesContiguous StaysPayable ChargedOnRecord
\* The bounded system may stop: requests and time run out.
CHECK_DEADLOCK FALSE
