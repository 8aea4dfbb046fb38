---------------------------- MODULE PaymentRoutes ----------------------------
(***************************************************************************)
(* The gateways that may take payments of one country, in order of         *)
(* preference, and the administrators who change them.                     *)
(*                                                                         *)
(* A request reads and checks outside of any transaction, then writes what *)
(* it decided in one.  What a transaction has written is locked, and seen  *)
(* by nobody else, until it commits.  The amounts a route accepts are left *)
(* out.                                                                    *)
(***************************************************************************)
EXTENDS Naturals, FiniteSets, Sequences

CONSTANTS
    Gateways,      \* PaymentGateway
    Operators,     \* requests of administrators at once
    MaxReroutes    \* bound: requests

ASSUME RoutesAssumption == IsFiniteSet(Gateways) /\ MaxReroutes \in Nat

VARIABLES
    routes,      \* PaymentGatewayRoute of the country, by gateway (a unique index)
    reroute,     \* the requests
    reroutes,    \* requests so far; they also number the rows
    crossed,     \* history: two requests that move priorities were under way at once
    cleared      \* history: the last enabled route was deleted, or two were disabled at once

routeVars == <<routes, reroute, reroutes, crossed, cleared>>

NoRoute == [id |-> 0, priority |-> 0, enabled |-> FALSE]
NoOne   == [pc |-> "idle"]

Routed(r)  == {g \in Gateways : r[g] # NoRoute}
Enabled(r) == {g \in Gateways : r[g].enabled}
Count      == Cardinality(Routed(routes))

\* The steps from a given one on, however high.
From(step) == {k \in Nat : step <= k}

\* Steps 1 .. N, each taken once.
Contiguous(r) ==
    /\ \A g \in Routed(r) : r[g].priority \in 1 .. Cardinality(Routed(r))
    /\ \A g, h \in Routed(r) : r[g].priority = r[h].priority => g = h

RoutesInit ==
    /\ routes \in [Gateways -> {NoRoute} \cup [id : {1}, priority : 1 .. Cardinality(Gateways),
                                               enabled : BOOLEAN]]
    /\ Contiguous(routes)
    /\ Routed(routes) # {} => Enabled(routes) # {}
    /\ reroute = [o \in Operators |-> NoOne]
    /\ reroutes = 0
    /\ crossed = FALSE
    /\ cleared = FALSE

\* Requests that move priorities, and requests that may leave a gateway fewer.
Moves(q)    == q.op \in {"create", "move", "reorder", "delete"}
Disables(q) == q.op = "delete" \/ (q.op \in {"switch", "move"} /\ q.sets = "disable")

MayBegin(o) == reroute[o] = NoOne /\ reroutes < MaxReroutes

\* A request has read what it needs and is on its way.
Begin(o, q) ==
    /\ reroutes' = reroutes + 1
    /\ reroute' = [reroute EXCEPT ![o] = [pc |-> "checked", q |-> q]]
    /\ LET others == {reroute[p].q : p \in {p \in Operators : reroute[p] # NoOne}}
       IN /\ crossed' = (crossed \/ (Moves(q) /\ \E r \in others : Moves(r)))
          /\ cleared' = (cleared \/ (Disables(q) /\ \E r \in others : Disables(r)))
    /\ UNCHANGED routes

-----------------------------------------------------------------------------
\* createRoute: a step up to N + 1; the first route is not created disabled.
CreateRoute(o, g, step, on) ==
    /\ MayBegin(o)
    /\ routes[g] = NoRoute
    /\ Count = 0 => on
    /\ step \in 1 .. Count + 1
    /\ Begin(o, [op |-> "create", g |-> g, id |-> reroutes + 2, to |-> step,
                 shifts |-> step <= Count, enabled |-> on])

\* Mutant of MayDisable: all routes are counted.
MayDisableIfTwo(g) == routes[g].enabled => Count > 1

\* The rule on the only gateway, as toggleRoute and updateRoute check it.
MayDisable(g) == routes[g].enabled => Cardinality(Enabled(routes)) > 1

\* toggleRoute, and updateRoute when it is not to move the route.
SwitchRoute(o, g, sets) ==
    /\ MayBegin(o)
    /\ routes[g] # NoRoute
    /\ sets = "disable" => MayDisable(g)
    /\ Begin(o, [op |-> "switch", g |-> g, id |-> routes[g].id, sets |-> sets])

\* updateRoute to another step.
MoveRoute(o, g, step, sets) ==
    /\ MayBegin(o)
    /\ routes[g] # NoRoute
    /\ sets = "disable" => MayDisable(g)
    /\ step \in 1 .. Count /\ step # routes[g].priority
    /\ Begin(o, [op |-> "move", g |-> g, id |-> routes[g].id, from |-> routes[g].priority,
                 to |-> step, sets |-> sets])

\* reorderRoutes names every route once.
ReorderRoutes(o) ==
    /\ MayBegin(o)
    /\ Count > 1
    /\ \E steps \in [Routed(routes) -> 1 .. Count] :
          /\ \A g, h \in Routed(routes) : steps[g] = steps[h] => g = h
          /\ Begin(o, [op |-> "reorder", steps |-> steps,
                       ids |-> [g \in Routed(routes) |-> routes[g].id]])

\* deleteRoute counts the routes, not the enabled ones.
DeleteRoute(o, g) ==
    /\ MayBegin(o)
    /\ routes[g] # NoRoute
    /\ Count > 1
    /\ Begin(o, [op |-> "delete", g |-> g, id |-> routes[g].id, from |-> routes[g].priority])

-----------------------------------------------------------------------------
\* Mutant of Up: the rows make room in the wrong direction.
UpMixedUp(r, steps) ==
    [g \in Gateways |-> IF r[g] # NoRoute /\ r[g].priority \in steps
                        THEN [r[g] EXCEPT !.priority = @ - 1] ELSE r[g]]

\* The committed rows at these steps make room.
Up(r, steps) ==
    [g \in Gateways |-> IF r[g] # NoRoute /\ r[g].priority \in steps
                        THEN [r[g] EXCEPT !.priority = @ + 1] ELSE r[g]]

\* They move up to fill a gap.
Down(r, steps) ==
    [g \in Gateways |-> IF r[g] # NoRoute /\ r[g].priority \in steps
                        THEN [r[g] EXCEPT !.priority = @ - 1] ELSE r[g]]

\* Mutant of Remaining: the routes after the deleted one keep their step.
RemainingUnmoved(r, q) == [r EXCEPT ![q.g] = NoRoute]

\* A deleted route leaves no gap.
Remaining(r, q) == Down([r EXCEPT ![q.g] = NoRoute], From(q.from + 1))

Switched(r, q) == q.sets = "enable" \/ (q.sets = "keep" /\ r[q.g].enabled)

\* What a transaction makes of the committed rows r.
Written(r, q) ==
    CASE q.op = "create" ->
            [Up(r, IF q.shifts THEN From(q.to) ELSE {}) EXCEPT
                ![q.g] = [id |-> q.id, priority |-> q.to, enabled |-> q.enabled]]
      [] q.op = "switch" -> [r EXCEPT ![q.g].enabled = Switched(r, q)]
      [] q.op = "move" ->
            [IF q.to < q.from THEN Up(r, q.to .. q.from - 1)
                              ELSE Down(r, q.from + 1 .. q.to)
             EXCEPT ![q.g].priority = q.to, ![q.g].enabled = Switched(r, q)]
      [] q.op = "reorder" -> [g \in Gateways |-> IF g \in DOMAIN q.steps
                                THEN [r[g] EXCEPT !.priority = q.steps[g]] ELSE r[g]]
      [] q.op = "delete"  -> Remaining(r, q)

\* The rows it is to write are there, and one it inserts is not.
Found(r, q) ==
    CASE q.op = "create"  -> r[q.g] = NoRoute
      [] q.op = "reorder" -> \A g \in DOMAIN q.ids : r[g].id = q.ids[g]
      [] OTHER            -> r[q.g].id = q.id

\* verifyUniquePriorities, which a reorder and a switch do without.
Verified(q, after) ==
    q.op \in {"create", "move", "delete"} =>
        \A g, h \in Routed(after) : after[g].priority = after[h].priority => g = h

Locked == UNION {DOMAIN reroute[o].writes : o \in {p \in Operators : reroute[p].pc = "written"}}

\* The transaction's statements.  They wait for the rows that others have written; what
\* is not found or not unique ends the request.
WriteRoutes(o) ==
    /\ reroute[o].pc = "checked"
    /\ LET q       == reroute[o].q
           after   == Written(routes, q)
           touched == {g \in Gateways : after[g] # routes[g]}
       IN /\ touched \cap Locked = {}
          /\ reroute' = [reroute EXCEPT ![o] =
                IF Found(routes, q) /\ Verified(q, after)
                THEN [pc |-> "written", q |-> q, writes |-> [g \in touched |-> after[g]]]
                ELSE NoOne]
    /\ UNCHANGED <<routes, reroutes, crossed, cleared>>

CommitRoutes(o) ==
    /\ reroute[o].pc = "written"
    /\ LET writes == reroute[o].writes
       IN routes' = [g \in Gateways |-> IF g \in DOMAIN writes THEN writes[g] ELSE routes[g]]
    /\ reroute' = [reroute EXCEPT ![o] = NoOne]
    /\ cleared' = (cleared \/ (reroute[o].q.op = "delete" /\ Enabled(routes') = {}))
    /\ UNCHANGED <<reroutes, crossed>>

RoutesNext ==
    \E o \in Operators :
        \/ \E g \in Gateways :
              \/ \E step \in 1 .. Cardinality(Gateways), on \in BOOLEAN : CreateRoute(o, g, step, on)
              \/ \E sets \in {"enable", "disable"} : SwitchRoute(o, g, sets)
              \/ \E step \in 1 .. Cardinality(Gateways), sets \in {"enable", "disable", "keep"} :
                    MoveRoute(o, g, step, sets)
              \/ DeleteRoute(o, g)
        \/ ReorderRoutes(o) \/ WriteRoutes(o) \/ CommitRoutes(o)

RoutesSpec == RoutesInit /\ [][RoutesNext]_routeVars

-----------------------------------------------------------------------------
Route    == [id : Nat \ {0}, priority : Nat \ {0}, enabled : BOOLEAN]
Ops      == {"create", "switch", "move", "reorder", "delete"}

\* Types of the variables.
RoutesTypeOK ==
    /\ routes \in [Gateways -> Route \cup {NoRoute}]
    /\ \A o \in Operators :
          \/ reroute[o] = NoOne
          \/ /\ reroute[o].pc \in {"checked", "written"} /\ reroute[o].q.op \in Ops
             /\ reroute[o].pc = "written" => \A g \in DOMAIN reroute[o].writes :
                                                reroute[o].writes[g] \in Route \cup {NoRoute}
    /\ reroutes \in Nat /\ crossed \in BOOLEAN /\ cleared \in BOOLEAN

\* Unless two requests that move priorities overlapped, the routes of a country are
\* numbered 1 .. N without gap or repetition, whatever is switched on and off meanwhile
\* (docs/architecture/payments.md).
PrioritiesContiguous == crossed \/ Contiguous(routes)

\* A country that has routes can be paid from, unless the one enabled route was deleted
\* or two requests that leave a gateway fewer overlapped.
StaysPayable == cleared \/ Routed(routes) = {} \/ Enabled(routes) # {}
=============================================================================
