--------------------------- MODULE PaymentsAbstract ---------------------------
(***************************************************************************)
(* What the web checkout promises: every order is settled at most once,    *)
(* either paid and then credited exactly once, or closed without credit.   *)
(***************************************************************************)
EXTENDS Naturals

CONSTANT Orders

VARIABLES
    outcome,  \* per order: none, open, paid or closed
    credits   \* per order: how many times its plan's credits were granted

Init ==
    /\ outcome = [o \in Orders |-> "none"]
    /\ credits = [o \in Orders |-> 0]

Open(o) ==
    /\ outcome[o] = "none"
    /\ outcome' = [outcome EXCEPT ![o] = "open"]
    /\ UNCHANGED credits

Pay(o) ==
    /\ outcome[o] = "open"
    /\ outcome' = [outcome EXCEPT ![o] = "paid"]
    /\ credits' = [credits EXCEPT ![o] = 1]

Close(o) ==
    /\ outcome[o] = "open"
    /\ outcome' = [outcome EXCEPT ![o] = "closed"]
    /\ UNCHANGED credits

Next == \E o \in Orders : Open(o) \/ Pay(o) \/ Close(o)

Spec == Init /\ [][Next]_<<outcome, credits>>

=============================================================================
