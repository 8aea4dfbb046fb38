------------------------------ MODULE Payments ------------------------------
(***************************************************************************)
(* The web checkout: PaymentOrder and Transaction rows, and the three      *)
(* paths that settle an order concurrently: the client's verify request,   *)
(* the gateway's webhooks and the reconciliation sweep.                    *)
(*                                                                         *)
(* A database statement, a database transaction and a call to the gateway  *)
(* are a step each; what a process read is kept until it acts on it.  A    *)
(* conditional update takes the row's lock, so a transaction that starts   *)
(* with one is a single step: it commits whole or leaves nothing.          *)
(* The gateway is modelled by what the adapters in payments/gateways ask   *)
(* of it.                                                                  *)
(***************************************************************************)
EXTENDS Naturals, FiniteSets

CONSTANTS
    Orders, Payments,    \* payment orders; payment attempts at the gateway
    OrderOf,             \* the order an attempt pays
    Hooks, Clients,      \* concurrent webhook deliveries and verify requests
    Sweeps,              \* runs of the reconciliation that may overlap
    TakeLimit,           \* orders one sweep takes (50)
    MaxFaults            \* bound: failed requests, lost answers, dead instances

ASSUME PaymentsAssumption == /\ OrderOf \in [Payments -> Orders]
                             /\ TakeLimit \in Nat \ {0}
                             /\ MaxFaults \in Nat

VARIABLES
    status, link,  \* PaymentOrder.status ("NONE": no row yet) and .transactionId
    razorpay,      \* the orders routed to RAZORPAY; the others are CASHFREE's
    age,           \* of an order: 0 fresh, 1 over 15 minutes old, 2 over 30
    txns,          \* Transaction rows: the gateway's payment id and the order
    credits,       \* per order: PURCHASE rows granted for it
    pay, lapsed,   \* at the gateway: state of each attempt; orders it closed
    events,        \* webhook events the gateway has not seen acknowledged
    hook, client, sweep,  \* the handlers at work and what they have read
    told,          \* answers of the verify endpoint: the order reported PAID, and
                   \* the payment id it was about
    faults

db   == <<status, link, txns, credits>>
bank == <<razorpay, pay, lapsed>>
vars == <<db, age, bank, events, hook, client, sweep, told, faults>>

Idle == [pc |-> "idle"]
NoTx == <<"none", 0>>
\* gatewayTransactionId: the payment's id, or what stands in for it when the
\* gateway does not name it.  Unique over both gateways, as the ids are theirs.
PayId(p) == <<"pay", p>>
RcnId(o) == <<"rcn", o>>
OwnId(o) == <<"order", o>>
TxIds == {PayId(p) : p \in Payments} \cup {RcnId(o) : o \in Orders} \cup {OwnId(o) : o \in Orders}

Statuses    == {"NONE", "PENDING", "PAID", "FAILED", "EXPIRED"}
Attempts(o) == {p \in Payments : OrderOf[p] = o}
Captured(p) == pay[p] = "captured"
Held(p)     == pay[p] \in {"authorized", "captured"}

Events   == [kind : {"failed", "authorized", "captured"}, payment : Payments]
Captures == {e \in Events : e.kind # "failed"}
SweepStates ==
    {Idle}
    \cup [pc : {"loop"}, todo : SUBSET Orders, old : SUBSET Orders]
    \cup [pc : {"close"}, todo : SUBSET Orders, old : SUBSET Orders, order : Orders]
    \cup [pc : {"fulfil"}, todo : SUBSET Orders, old : SUBSET Orders, order : Orders, id : TxIds]

Init ==
    /\ status = [o \in Orders |-> "NONE"]
    /\ link = [o \in Orders |-> NoTx]
    /\ razorpay = {}
    /\ age = [o \in Orders |-> 0]
    /\ txns = {}
    /\ credits = [o \in Orders |-> 0]
    /\ pay = [p \in Payments |-> "none"]
    /\ lapsed = {}
    /\ events = {}
    /\ hook = [h \in Hooks |-> Idle]
    /\ client = [c \in Clients |-> Idle]
    /\ sweep = [s \in Sweeps |-> Idle]
    /\ told = {}
    /\ faults = 0

Fault == faults < MaxFaults /\ faults' = faults + 1

-----------------------------------------------------------------------------
(* Orders and the gateway.                                                 *)

\* The routing table picks the gateway.  The gateway's order is made first, the row
\* next, and only then does the client learn what to pay: a crash in between leaves
\* an order nobody can pay.
CreateOrder(o) ==
    /\ status[o] = "NONE"
    /\ status' = [status EXCEPT ![o] = "PENDING"]
    /\ razorpay' \in {razorpay, razorpay \cup {o}}
    /\ UNCHANGED <<link, txns, credits, age, pay, lapsed, events, hook, client, sweep, told, faults>>

Age(o) ==
    /\ status[o] # "NONE"
    /\ age[o] < 2
    /\ age' = [age EXCEPT ![o] = @ + 1]
    /\ UNCHANGED <<db, bank, events, hook, client, sweep, told, faults>>

\* An attempt moves on at the gateway, which emits an event for it.  The user
\* may try again after a failed attempt, not after a held one.  Only Razorpay
\* authorizes before it captures.
Attempt(p, result) ==
    /\ status[OrderOf[p]] # "NONE"
    /\ OrderOf[p] \notin lapsed
    /\ \/ pay[p] = "none" /\ \A q \in Attempts(OrderOf[p]) : ~Held(q)
       \/ pay[p] = "authorized" /\ result = "captured"
    /\ result = "authorized" => OrderOf[p] \in razorpay
    /\ pay' = [pay EXCEPT ![p] = result]
    /\ events' = events \cup {[kind |-> result, payment |-> p]}
    /\ UNCHANGED <<db, age, razorpay, lapsed, hook, client, sweep, told, faults>>

\* Cashfree reports an unpaid order EXPIRED or TERMINATED.
Lapse(o) ==
    /\ status[o] # "NONE"
    /\ o \notin razorpay \cup lapsed
    /\ \A p \in Attempts(o) : ~Captured(p)
    /\ lapsed' = lapsed \cup {o}
    /\ UNCHANGED <<db, age, razorpay, pay, events, hook, client, sweep, told, faults>>

\* Mutant of FetchOrderStatus: any attempt counts as a capture.
FetchAnyAttempt(o) ==
    {"PENDING"} \cup IF \E p \in Attempts(o) : pay[p] # "none" THEN {"CAPTURED"} ELSE {}

\* Mutant of FetchOrderStatus: what is not captured has failed.
FetchCapturedOrFailed(o) ==
    {"PENDING"} \cup IF \E p \in Attempts(o) : Captured(p) THEN {"CAPTURED"}
                     ELSE IF \E p \in Attempts(o) : pay[p] # "none" THEN {"FAILED"} ELSE {}

\* fetchOrderStatus; a failed call is reported as PENDING.  A Razorpay order
\* with a failed attempt is FAILED unless it is paid.
FetchOrderStatus(o) ==
    {"PENDING"} \cup
    IF \E p \in Attempts(o) : Captured(p) THEN {"CAPTURED"}
    ELSE IF o \in razorpay
         THEN IF \E p \in Attempts(o) : pay[p] = "failed" THEN {"FAILED"} ELSE {}
         ELSE IF o \in lapsed THEN {"CANCELLED", "FAILED"} ELSE {}

\* fetchCapturedPaymentId; the fallback when the call fails or finds nothing.
FetchPaymentId(o, fallback) ==
    {fallback} \cup {PayId(p) : p \in {q \in Attempts(o) : Held(q)}}

-----------------------------------------------------------------------------
(* Fulfilment, shared by the three paths.                                  *)

Recorded(id) == \E row \in txns : row.id = id

\* Mutant of Commits: the update is not conditional on PENDING.
CommitsAnyStatus(o, id) ==
    /\ ~Recorded(id)
    /\ status' = [status EXCEPT ![o] = "PAID"]
    /\ txns' = txns \cup {[id |-> id, order |-> o]}
    /\ link' = [link EXCEPT ![o] = id]
    /\ credits' = [credits EXCEPT ![o] = @ + 1]

\* The transaction commits: PENDING to PAID, the Transaction row, the link, the
\* credits.
Commits(o, id) ==
    /\ status[o] = "PENDING"
    /\ ~Recorded(id)
    /\ status' = [status EXCEPT ![o] = "PAID"]
    /\ txns' = txns \cup {[id |-> id, order |-> o]}
    /\ link' = [link EXCEPT ![o] = id]
    /\ credits' = [credits EXCEPT ![o] = @ + 1]

\* Mutant of Skips: every error of the transaction is swallowed.
SkipsOnAnyError(o, id) ==
    /\ id \in TxIds
    /\ UNCHANGED db

\* P2025 (not PENDING) or P2002 (id recorded) rolls it back and is swallowed.
Skips(o, id) ==
    /\ status[o] # "PENDING" \/ Recorded(id)
    /\ UNCHANGED db

Fulfil(o, id) == Commits(o, id) \/ Skips(o, id)

\* A conditional update to FAILED or EXPIRED touches PENDING orders only.
Close(o, to) ==
    /\ status' = IF status[o] = "PENDING" THEN [status EXCEPT ![o] = to] ELSE status
    /\ UNCHANGED <<link, txns, credits>>

-----------------------------------------------------------------------------
(* verifyPayment.                                                          *)

\* It reads the order; a PAID one is answered at once.  A Razorpay client brings a
\* gateway order, a payment and the gateway's signature over the two.  That says
\* that the gateway holds the payment, of this order or of another: the order
\* that was signed is not compared with this one's gatewayOrderId.
VerifyReads(c, o) ==
    /\ client[c] = Idle
    /\ status[o] # "NONE"
    /\ \/ /\ status[o] = "PAID"
          /\ told' = told \cup {[order |-> o, id |-> link[o]]}
          /\ UNCHANGED client
       \/ /\ status[o] # "PAID"
          /\ o \in razorpay
          /\ \E p \in Payments :
                /\ OrderOf[p] \in razorpay
                /\ Held(p)
                /\ client' = [client EXCEPT ![c] =
                                [pc |-> "fulfil", order |-> o, id |-> PayId(p)]]
          /\ UNCHANGED told
       \/ /\ status[o] # "PAID"
          /\ o \notin razorpay
          /\ client' = [client EXCEPT ![c] = [pc |-> "poll", order |-> o]]
          /\ UNCHANGED told
    /\ UNCHANGED <<db, age, bank, events, hook, sweep, faults>>

\* Cashfree: ask the gateway; anything but CAPTURED is answered 401.
VerifyPolls(c) ==
    /\ client[c].pc = "poll"
    /\ LET o == client[c].order IN
       \/ /\ "CAPTURED" \in FetchOrderStatus(o)
          /\ \E id \in FetchPaymentId(o, OwnId(o)) :
                client' = [client EXCEPT ![c] = [pc |-> "fulfil", order |-> o, id |-> id]]
       \/ client' = [client EXCEPT ![c] = Idle]
    /\ UNCHANGED <<db, age, bank, events, hook, sweep, told, faults>>

\* Whether the fulfilment commits or is skipped, the answer is PAID.
VerifyFulfils(c) ==
    /\ client[c].pc = "fulfil"
    /\ Fulfil(client[c].order, client[c].id)
    /\ told' = told \cup {[order |-> client[c].order, id |-> client[c].id]}
    /\ client' = [client EXCEPT ![c] = Idle]
    /\ UNCHANGED <<age, bank, events, hook, sweep, faults>>

VerifyFails(c) ==
    /\ client[c] # Idle
    /\ Fault
    /\ client' = [client EXCEPT ![c] = Idle]
    /\ UNCHANGED <<db, age, bank, events, hook, sweep, told>>

-----------------------------------------------------------------------------
(* Webhook handlers.  An event that is answered 200 is not sent again.     *)

\* The answer reaches the gateway, or is lost and the event will be redelivered.
Answer(e) ==
    \/ events' = events \ {e} /\ UNCHANGED faults
    \/ events' = events /\ Fault

\* A failure event closes a PENDING order; an error doing so is swallowed.
HandleFailed(e) ==
    /\ e \in events
    /\ e.kind = "failed"
    /\ \/ Close(OrderOf[e.payment], "FAILED") /\ Answer(e)
       \/ UNCHANGED db /\ Fault /\ events' = events \ {e}
    /\ UNCHANGED <<age, bank, hook, client, sweep, told>>

\* A capture event starts with the duplicate pre-check on the payment's id.
HandleCapture(h, e) ==
    /\ hook[h] = Idle
    /\ e \in events
    /\ e.kind # "failed"
    /\ \/ Recorded(PayId(e.payment)) /\ Answer(e) /\ UNCHANGED hook
       \/ /\ ~Recorded(PayId(e.payment))
          /\ hook' = [hook EXCEPT ![h] = [pc |-> "order", event |-> e]]
          /\ UNCHANGED <<events, faults>>
    /\ UNCHANGED <<db, age, bank, client, sweep, told>>

\* Then it looks up the order, and stops if that one is PAID.
HookReadsOrder(h) ==
    /\ hook[h].pc = "order"
    /\ LET e == hook[h].event IN
       IF status[OrderOf[e.payment]] = "PAID"
       THEN Answer(e) /\ hook' = [hook EXCEPT ![h] = Idle]
       ELSE hook' = [hook EXCEPT ![h].pc = "fulfil"] /\ UNCHANGED <<events, faults>>
    /\ UNCHANGED <<db, age, bank, client, sweep, told>>

HookFulfils(h) ==
    /\ hook[h].pc = "fulfil"
    /\ Fulfil(OrderOf[hook[h].event.payment], PayId(hook[h].event.payment))
    /\ Answer(hook[h].event)
    /\ hook' = [hook EXCEPT ![h] = Idle]
    /\ UNCHANGED <<age, bank, client, sweep, told>>

\* The handler throws or its instance stops: the gateway will retry.
HookFails(h) ==
    /\ hook[h] # Idle
    /\ Fault
    /\ hook' = [hook EXCEPT ![h] = Idle]
    /\ UNCHANGED <<db, age, bank, events, client, sweep, told>>

-----------------------------------------------------------------------------
(* reconcileStaleOrders.  Each invocation is independent, so a run that    *)
(* takes longer than the scheduler's interval overlaps with the next one.  *)

Stale == {o \in Orders : status[o] = "PENDING" /\ age[o] >= 1}

\* Mutant of SweepStarts: no order is ever old enough to expire.
SweepNeverExpires(s) ==
    /\ sweep[s] = Idle
    /\ \E batch \in SUBSET Stale :
          /\ Cardinality(batch) \in 1 .. TakeLimit
          /\ sweep' = [sweep EXCEPT ![s] = [pc |-> "loop", todo |-> batch, old |-> {}]]
    /\ UNCHANGED <<db, age, bank, events, hook, client, told, faults>>

\* findMany with "take": some TakeLimit of the stale orders, in no set order.
\* Which of them are over 30 minutes old is decided by the time of the start.
SweepStarts(s) ==
    /\ sweep[s] = Idle
    /\ \E batch \in SUBSET Stale :
          /\ batch # {}
          /\ Cardinality(batch) <= TakeLimit
          /\ batch = Stale \/ Cardinality(batch) = TakeLimit
          /\ sweep' = [sweep EXCEPT ![s] = [pc |-> "loop", todo |-> batch,
                                           old |-> {o \in batch : age[o] = 2}]]
    /\ UNCHANGED <<db, age, bank, events, hook, client, told, faults>>

Rest(todo, old)  == IF todo = {} THEN Idle ELSE [pc |-> "loop", todo |-> todo, old |-> old]
SweepDone(s, o)  == sweep' = [sweep EXCEPT ![s] = Rest(@.todo \ {o}, @.old)]

\* Over 30 minutes: closed without asking the gateway.
SweepExpires(s, o) ==
    /\ sweep[s].pc = "loop"
    /\ o \in sweep[s].todo \cap sweep[s].old
    /\ Close(o, "EXPIRED")
    /\ SweepDone(s, o)
    /\ UNCHANGED <<age, bank, events, hook, client, told, faults>>

\* Between 15 and 30 minutes: ask the gateway, then settle on what it said.
SweepPolls(s, o) ==
    /\ sweep[s].pc = "loop"
    /\ o \in sweep[s].todo \ sweep[s].old
    /\ \E answer \in FetchOrderStatus(o) :
       \/ /\ answer = "CAPTURED"
          /\ \E id \in IF o \in razorpay THEN FetchPaymentId(o, RcnId(o)) ELSE {RcnId(o)} :
                sweep' = [sweep EXCEPT ![s] = [pc |-> "fulfil", todo |-> @.todo, old |-> @.old,
                                               order |-> o, id |-> id]]
       \/ /\ answer \in {"FAILED", "CANCELLED"}
          /\ sweep' = [sweep EXCEPT ![s] = [pc |-> "close", todo |-> @.todo, old |-> @.old,
                                            order |-> o]]
       \/ /\ answer = "PENDING"
          /\ SweepDone(s, o)
    /\ UNCHANGED <<db, age, bank, events, hook, client, told, faults>>

SweepFulfils(s) ==
    /\ sweep[s].pc = "fulfil"
    /\ Fulfil(sweep[s].order, sweep[s].id)
    /\ SweepDone(s, sweep[s].order)
    /\ UNCHANGED <<age, bank, events, hook, client, told, faults>>

SweepCloses(s) ==
    /\ sweep[s].pc = "close"
    /\ Close(sweep[s].order, "FAILED")
    /\ SweepDone(s, sweep[s].order)
    /\ UNCHANGED <<age, bank, events, hook, client, told, faults>>

\* An error at one order is logged and the loop goes on; or the instance stops.
SweepFails(s) ==
    /\ sweep[s] # Idle
    /\ Fault
    /\ \/ sweep' = [sweep EXCEPT ![s] = Idle]
       \/ \E o \in sweep[s].todo : SweepDone(s, o)
    /\ UNCHANGED <<db, age, bank, events, hook, client, told>>

-----------------------------------------------------------------------------
Gateway ==
    \/ \E p \in Payments : \E result \in {"failed", "authorized", "captured"} : Attempt(p, result)
    \/ \E o \in Orders : Lapse(o)
Verify(c) ==
    \/ \E o \in Orders : VerifyReads(c, o)
    \/ VerifyPolls(c) \/ VerifyFulfils(c) \/ VerifyFails(c)
Webhook ==
    \/ \E e \in events : HandleFailed(e) \/ (\E h \in Hooks : HandleCapture(h, e))
    \/ \E h \in Hooks : HookReadsOrder(h) \/ HookFulfils(h) \/ HookFails(h)
SweepLoop(s) ==
    /\ sweep[s] # Idle
    /\ \/ \E o \in sweep[s].todo : SweepExpires(s, o) \/ SweepPolls(s, o)
       \/ SweepFulfils(s) \/ SweepCloses(s)

Next ==
    \/ \E o \in Orders : CreateOrder(o) \/ Age(o)
    \/ Gateway
    \/ \E c \in Clients : Verify(c)
    \/ Webhook
    \/ \E s \in Sweeps : SweepStarts(s) \/ SweepLoop(s) \/ SweepFails(s)

Spec == Init /\ [][Next]_vars

\* Time passes, the scheduler keeps calling the sweep, the gateway redelivers
\* until it sees an answer, and a handler that runs finishes.  Nobody has to pay
\* or to verify.
Fairness ==
    /\ \A o \in Orders : WF_vars(Age(o))
    /\ \A s \in Sweeps : WF_vars(SweepStarts(s)) /\ WF_vars(SweepLoop(s))
    /\ WF_vars(Webhook)

FairSpec == Spec /\ Fairness

-----------------------------------------------------------------------------
\* Types of every variable.
TypeOK ==
    /\ status \in [Orders -> Statuses]
    /\ link \in [Orders -> TxIds \cup {NoTx}]
    /\ razorpay \subseteq Orders
    /\ age \in [Orders -> 0 .. 2]
    /\ txns \subseteq [id : TxIds, order : Orders]
    /\ credits \in [Orders -> Nat]
    /\ pay \in [Payments -> {"none", "failed", "authorized", "captured"}]
    /\ lapsed \subseteq Orders
    /\ events \subseteq Events
    /\ hook \in [Hooks -> {Idle} \cup [pc : {"order", "fulfil"}, event : Captures]]
    /\ client \in [Clients -> {Idle} \cup [pc : {"poll"}, order : Orders]
                                    \cup [pc : {"fulfil"}, order : Orders, id : TxIds]]
    /\ sweep \in [Sweeps -> SweepStates]
    /\ told \subseteq [order : Orders, id : TxIds \cup {NoTx}]
    /\ faults \in Nat

\* Credits, the PAID status, the link and the Transaction row stand and fall
\* together, once per order, whichever paths raced and under whichever payment
\* id each of them knew the payment (fulfil, fulfilFromReconciliation).
ExactlyOnce ==
    \A o \in Orders :
        /\ credits[o] = IF status[o] = "PAID" THEN 1 ELSE 0
        /\ {row.id : row \in {r \in txns : r.order = o}} =
               IF status[o] = "PAID" THEN {link[o]} ELSE {}

\* The payment behind the id that an order is linked to.
StandsFor(id, o, p) == \/ id = PayId(p)
                       \/ id \in {RcnId(o), OwnId(o)} /\ OrderOf[p] = o

\* No credits without money: a PAID order is linked to a payment that the gateway
\* holds, and no payment id serves two orders, whatever a client, a webhook or
\* the sweep had read before it settled the order.  The payment is one for this
\* order, except that a Razorpay order may be settled by a signed payment for
\* another one (verifyPayment in payments.service.ts).
PaidOnlyIfHeld ==
    \A o \in Orders : status[o] = "PAID" =>
        /\ \E p \in Payments :
              /\ Held(p)
              /\ StandsFor(link[o], o, p)
              /\ OrderOf[p] = o \/ {o, OrderOf[p]} \subseteq razorpay
        /\ \A x \in Orders \ {o} : status[x] = "PAID" => link[x] # link[o]

\* What the sweep and the webhooks close or settle stays so: a late failure event
\* or an expiry decided on a stale read never overwrites PAID, and a late capture
\* never revives a closed order (the state machine of architecture/payments.md).
SettledStays ==
    [][\A o \in Orders : status[o] \in {"PAID", "FAILED", "EXPIRED"} => status'[o] = status[o]]_vars

\* What an outsider sees of it implements the abstract specification.
Outcome(s) == CASE s = "NONE" -> "none" [] s = "PENDING" -> "open"
                [] s = "PAID" -> "paid" [] OTHER -> "closed"
Abstract == INSTANCE PaymentsAbstract WITH outcome <- [o \in Orders |-> Outcome(status[o])]
SettledAtMostOnce == Abstract!Spec

\* No order stays PENDING for ever: what no webhook or client settles, the sweep
\* does, although it takes only TakeLimit orders at a time in no set order.
OrdersSettle == \A o \in Orders : status[o] = "PENDING" ~> status[o] # "PENDING"

\* A captured payment is credited, unless the order is over 30 minutes old by
\* then, the gateway reported it closed, or one of its attempts failed: requests
\* that throw, lost answers and swallowed duplicates lose no other payment.
CaptureCredits ==
    \A p \in Payments :
        Captured(p) ~> \/ status[OrderOf[p]] \in {"PAID", "EXPIRED"}
                       \/ \E q \in Attempts(OrderOf[p]) : pay[q] = "failed"
                       \/ OrderOf[p] \in lapsed

ServesAnother(id, o) == \E row \in txns : row.id = id /\ row.order # o

\* Nobody is told that an order is done while it is still open: an order that the
\* verify endpoint reported PAID, or whose capture event was acknowledged, is not
\* PENDING, so skipping on P2025 or P2002 never leaves a payment without a path
\* that ends its order (fulfil in payments.service.ts), unless the payment has
\* been recorded for another order.
AnsweredIsSettled ==
    /\ \A t \in told : status[t.order] # "PENDING" \/ ServesAnother(t.id, t.order)
    /\ \A p \in Payments :
          Captured(p) /\ [kind |-> "captured", payment |-> p] \notin events
              => status[OrderOf[p]] # "PENDING" \/ ServesAnother(PayId(p), OrderOf[p])

\* architecture/payments.md:307: a fulfilment that finds the order not PENDING
\* may skip, because another thread has made it PAID; so a capture event that is
\* acknowledged leaves a PAID order.
AckedCaptureIsPaid ==
    \A p \in Payments :
        /\ Captured(p)
        /\ [kind |-> "captured", payment |-> p] \notin events
        => status[OrderOf[p]] = "PAID"

=============================================================================
