--------------------------- MODULE StorePurchases ---------------------------
(***************************************************************************)
(* Credits bought once in an app store, as RevenueCat reports them: an     *)
(* event is delivered until it is answered, perhaps twice at once, and     *)
(* leaves one transaction row and at most one grant of credits, for an     *)
(* account that may end meanwhile.                                         *)
(***************************************************************************)
EXTENDS AccessTokens

CONSTANTS
    Events,        \* purchases: gateway and gatewayTransactionId
    Deliveries,    \* deliveries handled at once
    MaxLosses      \* bound: failed handlers, and answers that are lost

ASSUME PurchasesAssumption == MaxLosses \in Nat

VARIABLES
    mapped,        \* a plan has the product's store id (getPlanByProductId)
    inbox,         \* events the store delivers
    delivery,      \* the handlers
    transactions,  \* Transaction, by event (a unique index)
    granted,       \* PURCHASE rows of the credit ledger, by event
    answered,      \* history: events answered 200
    losses

purchaseVars == <<mapped, inbox, delivery, transactions, granted, answered, losses>>

Unattributed == "unattributed"
NoDelivery   == [event |-> "none"]
NoPurchase   == [status |-> "none", user |-> Unattributed]

PurchasesInit ==
    /\ mapped = FALSE
    /\ inbox = {}
    /\ delivery = [d \in Deliveries |-> NoDelivery]
    /\ transactions = [e \in Events |-> NoPurchase]
    /\ granted = [e \in Events |-> 0]
    /\ answered = {}
    /\ losses = 0

Loss == losses < MaxLosses /\ losses' = losses + 1

\* The answer ends the delivery, unless it does not reach RevenueCat.
Answer(e) ==
    /\ answered' = answered \cup {e}
    /\ \/ inbox' = inbox \ {e} /\ UNCHANGED losses
       \/ Loss /\ UNCHANGED inbox

Purchase(e) ==
    /\ transactions[e] = NoPurchase /\ e \notin inbox /\ e \notin answered
    /\ inbox' = inbox \cup {e}
    /\ UNCHANGED <<mapped, delivery, transactions, granted, answered, losses>>

\* updatePlan gives a plan the product's id or takes it away.
MapProduct ==
    /\ mapped' = ~mapped
    /\ UNCHANGED <<inbox, delivery, transactions, granted, answered, losses>>

\* resolveUserId: a live account of those the event's aliases name, in whatever order.
Resolve(aliases) ==
    LET live == {u \in aliases : user[u] = "active"}
    IN IF live = {} THEN {Unattributed} ELSE live

\* handle: an event that has a row is answered; otherwise the buyer and the plan are
\* looked up.
StartPurchase(d, e) ==
    /\ delivery[d] = NoDelivery
    /\ e \in inbox
    /\ \/ /\ transactions[e] # NoPurchase
          /\ Answer(e)
          /\ UNCHANGED delivery
       \/ /\ transactions[e] = NoPurchase
          /\ \E aliases \in SUBSET Accounts : \E u \in Resolve(aliases) :
                delivery' = [delivery EXCEPT ![d] = [event |-> e, user |-> u, plan |-> mapped]]
          /\ UNCHANGED <<inbox, answered, losses>>
    /\ UNCHANGED <<mapped, transactions, granted>>

\* The foreign key of the row on the account.
BuyerExists(d) ==
    delivery[d].user # Unattributed => user[delivery[d].user] # "gone"

\* Mutant of IsDuplicate: the unique index is not there.
NeverDuplicate(e) == FALSE

\* The unique index refuses a second row (P2002).
IsDuplicate(e) == transactions[e] # NoPurchase

\* The row and the credits in one transaction; without a plan or a buyer there is only
\* the row.  One that is there already was written by another delivery.
CommitPurchase(d) ==
    /\ delivery[d] # NoDelivery
    /\ BuyerExists(d)
    /\ LET e    == delivery[d].event
           u    == delivery[d].user
           plan == delivery[d].plan
       IN /\ IF IsDuplicate(e) THEN UNCHANGED <<transactions, granted>>
             ELSE /\ transactions' = [transactions EXCEPT ![e] =
                        [status |-> IF plan THEN "COMPLETED" ELSE "PENDING", user |-> u]]
                  /\ granted' = [granted EXCEPT ![e] =
                        IF plan /\ u # Unattributed THEN @ + 1 ELSE @]
          /\ Answer(e)
    /\ delivery' = [delivery EXCEPT ![d] = NoDelivery]
    /\ UNCHANGED mapped

\* An error, that of the foreign key included, is not answered 200: the event comes again.
FailPurchase(d) ==
    /\ delivery[d] # NoDelivery
    /\ \/ Loss
       \/ ~BuyerExists(d) /\ UNCHANGED losses
    /\ delivery' = [delivery EXCEPT ![d] = NoDelivery]
    /\ UNCHANGED <<mapped, inbox, transactions, granted, answered>>

PurchasesNext ==
    \/ \E e \in Events : Purchase(e)
    \/ MapProduct
    \/ \E d \in Deliveries : \/ \E e \in Events : StartPurchase(d, e)
                             \/ CommitPurchase(d) \/ FailPurchase(d)

\* What deleteAccount does to the purchases of the accounts that leave: the rows lose
\* their owner, and the ledger goes with the account.
Detach(leaving) ==
    /\ transactions' = [e \in Events |->
            IF transactions[e].user \in leaving THEN [transactions[e] EXCEPT !.user = Unattributed]
            ELSE transactions[e]]
    /\ granted' = [e \in Events |-> IF transactions[e].user \in leaving THEN 0 ELSE granted[e]]
    /\ UNCHANGED <<mapped, inbox, delivery, answered, losses>>

-----------------------------------------------------------------------------
\* Types of the variables.
PurchasesTypeOK ==
    /\ mapped \in BOOLEAN
    /\ inbox \subseteq Events /\ answered \subseteq Events /\ losses \in Nat
    /\ delivery \in [Deliveries -> {NoDelivery} \cup [event : Events, plan : BOOLEAN,
                                                      user : Accounts \cup {Unattributed}]]
    /\ transactions \in [Events -> {NoPurchase} \cup [status : {"PENDING", "COMPLETED"},
                                                      user : Accounts \cup {Unattributed}]]
    /\ granted \in [Events -> Nat]

\* What was answered is recorded, whichever delivery did the work; and a purchase is
\* credited once if its row names a plan and a buyer, and not at all otherwise, however
\* often and concurrently it was delivered and whenever the buyer's account ends.
PurchasedOnce ==
    \A e \in Events :
        /\ e \in answered => transactions[e] # NoPurchase
        /\ granted[e] = IF transactions[e].status = "COMPLETED"
                           /\ transactions[e].user # Unattributed
                        THEN 1 ELSE 0
=============================================================================
