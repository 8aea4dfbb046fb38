------------------------------ MODULE Catalogue ------------------------------
(***************************************************************************)
(* What is sold and how it is paid: the prices of a plan, the payment      *)
(* routes of the country, and the web order that reads price and routes    *)
(* one after the other while they change.                                  *)
(***************************************************************************)
EXTENDS PlanPrices, PaymentRoutes

CONSTANT Budgets     \* bound: edits, reroutes and orders of a behaviour, <<0, 2, 1>>

VARIABLES
    order,      \* one createOrder request
    orders      \* requests so far

vars == <<now, priceVars, routeVars, order, orders>>

NoOrder == [pc |-> "idle"]

Init ==
    /\ PricesInit /\ RoutesInit
    /\ order = NoOrder
    /\ orders = 0

\* createOrder: loadPlanPrice takes whatever price of plan and country it finds first.  A
\* discount that is set may be in its window or not.
LoadPrice ==
    /\ order.pc \in {"idle", "placed", "refused"}
    /\ \E c \in Currencies :
          /\ price[c] # NoPrice
          /\ \E amount \in {price[c].base} \cup ({price[c].promo} \ {0}) :
                order' = [pc |-> "priced", currency |-> c, base |-> price[c].base,
                          amount |-> amount]
    /\ orders' = orders + 1
    /\ UNCHANGED <<now, priceVars, routeVars>>

\* Mutant of SelectGateway: the price is read again for the gateway.
SelectAndReprice ==
    /\ order.pc = "priced"
    /\ price[order.currency] # NoPrice
    /\ \E g \in Enabled(routes) :
          order' = [pc |-> "placed", currency |-> order.currency, base |-> order.base,
                    amount |-> price[order.currency].base, gateway |-> g]
    /\ UNCHANGED <<now, priceVars, routeVars, orders>>

\* selectGateway: the enabled route of the lowest step; without one, no order.
SelectGateway ==
    /\ order.pc = "priced"
    /\ \/ /\ Enabled(routes) = {}
          /\ order' = [order EXCEPT !.pc = "refused"]
       \/ \E g \in Enabled(routes) :
             /\ \A h \in Enabled(routes) : routes[g].priority <= routes[h].priority
             /\ order' = [pc |-> "placed", currency |-> order.currency, base |-> order.base,
                          amount |-> order.amount, gateway |-> g]
    /\ UNCHANGED <<now, priceVars, routeVars, orders>>

\* The gateway or the database fails: the request leaves nothing behind.
OrderFails ==
    /\ order.pc = "priced"
    /\ order' = NoOrder
    /\ UNCHANGED <<now, priceVars, routeVars, orders>>

Next ==
    /\ \/ PricesNext /\ UNCHANGED <<routeVars, order, orders>>
       \/ RoutesNext /\ UNCHANGED <<now, priceVars, order, orders>>
       \/ LoadPrice \/ SelectGateway \/ OrderFails
    /\ \E b \in Budgets :
          /\ Cardinality({k \in Currencies \X (1 .. MaxEdits) : k[2] <= edits'[k[1]]}) <= b[1]
          /\ reroutes' <= b[2] /\ orders' <= b[3]

Spec == Init /\ [][Next]_vars

-----------------------------------------------------------------------------
\* Types of the variables.
TypeOK ==
    /\ PricesTypeOK /\ RoutesTypeOK
    /\ order.pc \in {"idle", "priced", "placed", "refused"}
    /\ orders \in Nat

\* Whatever an order was charged was once a price of the plan in the order's currency, by
\* its history, and never more than its base price, however prices changed while the
\* order was made.
ChargedOnRecord ==
    order.pc = "placed" =>
        /\ order.amount <= order.base
        /\ \E i \in DOMAIN record[order.currency] :
              LET entry == record[order.currency][i]
              IN entry.base = order.base /\ order.amount \in {entry.base, entry.promo}
=============================================================================
