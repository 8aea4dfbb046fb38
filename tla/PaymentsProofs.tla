---------------------------- MODULE PaymentsProofs ----------------------------
(***************************************************************************)
(* The checkout settles every order at most once, for any orders, payments,*)
(* handlers, sweep size and number of faults.                              *)
(***************************************************************************)
EXTENDS Payments, TLAPS

-----------------------------------------------------------------------------
(* The identifiers.                                                        *)

\* A payment order is linked to a real id or to none.
LEMMA IdsAreIds ==
    /\ \A p \in Payments : PayId(p) \in TxIds
    /\ \A o \in Orders : RcnId(o) \in TxIds /\ OwnId(o) \in TxIds
  BY DEF TxIds

\* What the gateway names, or the fallback that stands in for it, is an id.
LEMMA FetchedIdsAreIds ==
    ASSUME NEW o \in Orders, NEW fallback \in TxIds
    PROVE  FetchPaymentId(o, fallback) \subseteq TxIds
  BY IdsAreIds DEF FetchPaymentId, Attempts

-----------------------------------------------------------------------------
(* Type correctness.                                                       *)

\* The initial state is well typed.
LEMMA InitTypeOK == Init => TypeOK
  BY PaymentsAssumption DEF Init, TypeOK, Statuses, SweepStates, Idle, NoTx

\* Fulfilling an order keeps the order tables well typed.
LEMMA FulfilTypeOK ==
    ASSUME TypeOK, NEW o \in Orders, NEW id \in TxIds, Fulfil(o, id)
    PROVE  /\ status' \in [Orders -> Statuses]
           /\ link' \in [Orders -> TxIds \cup {NoTx}]
           /\ txns' \subseteq [id : TxIds, order : Orders]
           /\ credits' \in [Orders -> Nat]
  <1>1. CASE Commits(o, id)
    <2>1. status' \in [Orders -> Statuses]
      BY <1>1 DEF TypeOK, Commits, Statuses
    <2>2. link' \in [Orders -> TxIds \cup {NoTx}]
      BY <1>1 DEF TypeOK, Commits
    <2>3. txns' \subseteq [id : TxIds, order : Orders]
      BY <1>1 DEF TypeOK, Commits
    <2>4. credits' \in [Orders -> Nat]
      BY <1>1 DEF TypeOK, Commits
    <2>5. QED  BY <2>1, <2>2, <2>3, <2>4
  <1>2. CASE Skips(o, id)
    BY <1>2 DEF TypeOK, Skips, db
  <1>3. QED  BY <1>1, <1>2 DEF Fulfil

\* Closing an order keeps the order tables well typed.
LEMMA CloseTypeOK ==
    ASSUME TypeOK, NEW o \in Orders, NEW to \in Statuses, Close(o, to)
    PROVE  /\ status' \in [Orders -> Statuses]
           /\ link' \in [Orders -> TxIds \cup {NoTx}]
           /\ txns' \subseteq [id : TxIds, order : Orders]
           /\ credits' \in [Orders -> Nat]
  BY DEF TypeOK, Close

\* A handler in the middle of its work is in one of its record states.
LEMMA HandlersAtWork ==
    ASSUME TypeOK
    PROVE  /\ \A h \in Hooks : hook[h].pc \in {"order", "fulfil"} =>
                 /\ hook[h] \in [pc : {"order", "fulfil"}, event : Captures]
                 /\ hook[h].event \in Captures
                 /\ hook[h].event.payment \in Payments
                 /\ OrderOf[hook[h].event.payment] \in Orders
           /\ \A c \in Clients :
                 /\ client[c].pc \in {"poll", "fulfil"} => client[c].order \in Orders
                 /\ client[c].pc = "fulfil" => client[c].id \in TxIds
           /\ \A s \in Sweeps :
                 /\ sweep[s] # Idle => sweep[s].todo \subseteq Orders /\ sweep[s].old \subseteq Orders
                 /\ sweep[s].pc \in {"close", "fulfil"} => sweep[s] # Idle /\ sweep[s].order \in Orders
                 /\ sweep[s].pc = "fulfil" => sweep[s].id \in TxIds
                 /\ sweep[s].pc = "loop" => sweep[s] # Idle
  <1>1. ASSUME NEW h \in Hooks, hook[h].pc \in {"order", "fulfil"}
        PROVE  /\ hook[h] \in [pc : {"order", "fulfil"}, event : Captures]
               /\ hook[h].event \in Captures
               /\ hook[h].event.payment \in Payments
               /\ OrderOf[hook[h].event.payment] \in Orders
    <2>1. hook[h] \in [pc : {"order", "fulfil"}, event : Captures]
      BY <1>1 DEF TypeOK, Idle
    <2>2. QED  BY <2>1, PaymentsAssumption DEF Captures, Events
  <1>2. ASSUME NEW c \in Clients
        PROVE  /\ client[c].pc \in {"poll", "fulfil"} => client[c].order \in Orders
               /\ client[c].pc = "fulfil" => client[c].id \in TxIds
    BY DEF TypeOK, Idle
  <1>3. ASSUME NEW s \in Sweeps
        PROVE  /\ sweep[s] # Idle => sweep[s].todo \subseteq Orders /\ sweep[s].old \subseteq Orders
               /\ sweep[s].pc \in {"close", "fulfil"} => sweep[s] # Idle /\ sweep[s].order \in Orders
               /\ sweep[s].pc = "fulfil" => sweep[s].id \in TxIds
               /\ sweep[s].pc = "loop" => sweep[s] # Idle
    <2>1. sweep[s] \in SweepStates
      BY DEF TypeOK
    <2>2. QED  BY <2>1 DEF Idle, SweepStates
  <1>4. QED  BY <1>1, <1>2, <1>3

\* When a run is done with an order its state is well typed.
LEMMA SweepDoneTypeOK ==
    ASSUME TypeOK, NEW s \in Sweeps, sweep[s] # Idle, NEW o, SweepDone(s, o)
    PROVE  sweep' \in [Sweeps -> SweepStates]
  <1>1. Rest(sweep[s].todo \ {o}, sweep[s].old) \in SweepStates
    BY HandlersAtWork DEF Rest, SweepStates
  <1>2. QED  BY <1>1 DEF SweepDone, TypeOK

\* An answered event is gone or stays; no other appears.
LEMMA AnswerTypeOK ==
    ASSUME TypeOK, NEW e, Answer(e)
    PROVE  events' \subseteq Events /\ faults' \in Nat
  BY DEF TypeOK, Answer, Fault

\* Every step keeps every variable well typed.
LEMMA NextTypeOK == TypeOK /\ [Next]_vars => TypeOK'
  <1> SUFFICES ASSUME TypeOK, [Next]_vars PROVE TypeOK'  OBVIOUS
  <1> USE DEF db, bank
  <1>1. ASSUME NEW o \in Orders, CreateOrder(o) PROVE TypeOK'
    BY <1>1 DEF CreateOrder, TypeOK, Statuses
  <1>2. ASSUME NEW o \in Orders, Age(o) PROVE TypeOK'
    BY <1>2 DEF Age, TypeOK
  <1>3. ASSUME NEW p \in Payments, NEW result \in {"failed", "authorized", "captured"},
               Attempt(p, result)
        PROVE  TypeOK'
    BY <1>3 DEF Attempt, TypeOK, Events
  <1>4. ASSUME NEW o \in Orders, Lapse(o) PROVE TypeOK'
    BY <1>4 DEF Lapse, TypeOK
  <1>5. ASSUME NEW c \in Clients, NEW o \in Orders, VerifyReads(c, o) PROVE TypeOK'
    BY <1>5, IdsAreIds DEF VerifyReads, TypeOK
  <1>6. ASSUME NEW c \in Clients, VerifyPolls(c) PROVE TypeOK'
    <2>1. client[c].order \in Orders
      BY <1>6, HandlersAtWork DEF VerifyPolls
    <2>2. FetchPaymentId(client[c].order, OwnId(client[c].order)) \subseteq TxIds
      BY <2>1, IdsAreIds, FetchedIdsAreIds
    <2>3. QED  BY <1>6, <2>1, <2>2 DEF VerifyPolls, TypeOK
  <1>7. ASSUME NEW c \in Clients, VerifyFulfils(c) PROVE TypeOK'
    <2>1. client[c].order \in Orders /\ client[c].id \in TxIds
      BY <1>7, HandlersAtWork DEF VerifyFulfils
    <2>2. Fulfil(client[c].order, client[c].id)
      BY <1>7 DEF VerifyFulfils
    <2>3. QED  BY <1>7, <2>1, <2>2, FulfilTypeOK DEF VerifyFulfils, TypeOK
  <1>8. ASSUME NEW c \in Clients, VerifyFails(c) PROVE TypeOK'
    BY <1>8 DEF VerifyFails, TypeOK, Fault
  <1>9. ASSUME NEW e \in events, HandleFailed(e) PROVE TypeOK'
    <2>1. OrderOf[e.payment] \in Orders
      BY PaymentsAssumption DEF TypeOK, Events
    <2>2. CASE Close(OrderOf[e.payment], "FAILED") /\ Answer(e)
      BY <1>9, <2>1, <2>2, CloseTypeOK, AnswerTypeOK DEF HandleFailed, TypeOK, Statuses
    <2>3. CASE UNCHANGED db /\ Fault /\ events' = events \ {e}
      BY <1>9, <2>3 DEF HandleFailed, TypeOK, Fault
    <2>4. QED  BY <1>9, <2>2, <2>3 DEF HandleFailed
  <1>10. ASSUME NEW h \in Hooks, NEW e \in events, HandleCapture(h, e) PROVE TypeOK'
    <2>1. hook' \in [Hooks -> {Idle} \cup [pc : {"order", "fulfil"}, event : Captures]]
      BY <1>10 DEF HandleCapture, TypeOK, Captures
    <2>2. events' \subseteq Events /\ faults' \in Nat
      BY <1>10, AnswerTypeOK DEF HandleCapture, TypeOK
    <2>3. QED  BY <1>10, <2>1, <2>2 DEF HandleCapture, TypeOK
  <1>11. ASSUME NEW h \in Hooks, HookReadsOrder(h) PROVE TypeOK'
    <2>1. hook[h] \in [pc : {"order", "fulfil"}, event : Captures]
      BY <1>11, HandlersAtWork DEF HookReadsOrder
    <2>2. hook' \in [Hooks -> {Idle} \cup [pc : {"order", "fulfil"}, event : Captures]]
      BY <1>11, <2>1 DEF HookReadsOrder, TypeOK
    <2>3. events' \subseteq Events /\ faults' \in Nat
      BY <1>11, AnswerTypeOK DEF HookReadsOrder, TypeOK
    <2>4. QED  BY <1>11, <2>2, <2>3 DEF HookReadsOrder, TypeOK
  <1>12. ASSUME NEW h \in Hooks, HookFulfils(h) PROVE TypeOK'
    <2>1. /\ OrderOf[hook[h].event.payment] \in Orders
          /\ PayId(hook[h].event.payment) \in TxIds
      BY <1>12, HandlersAtWork, IdsAreIds DEF HookFulfils
    <2>2. /\ Fulfil(OrderOf[hook[h].event.payment], PayId(hook[h].event.payment))
          /\ Answer(hook[h].event)
      BY <1>12 DEF HookFulfils
    <2>3. QED  BY <1>12, <2>1, <2>2, FulfilTypeOK, AnswerTypeOK DEF HookFulfils, TypeOK
  <1>13. ASSUME NEW h \in Hooks, HookFails(h) PROVE TypeOK'
    BY <1>13 DEF HookFails, TypeOK, Fault
  <1>14. ASSUME NEW s \in Sweeps, SweepStarts(s) PROVE TypeOK'
    <2>1. Stale \subseteq Orders
      BY DEF Stale
    <2>2. PICK batch \in SUBSET Stale :
             sweep' = [sweep EXCEPT ![s] = [pc |-> "loop", todo |-> batch,
                                            old |-> {o \in batch : age[o] = 2}]]
      BY <1>14 DEF SweepStarts
    <2>3. [pc |-> "loop", todo |-> batch, old |-> {o \in batch : age[o] = 2}] \in SweepStates
      BY <2>1 DEF SweepStates
    <2>4. sweep' \in [Sweeps -> SweepStates]
      BY <2>2, <2>3 DEF TypeOK
    <2>5. QED  BY <1>14, <2>4 DEF SweepStarts, TypeOK
  <1>15. ASSUME NEW s \in Sweeps, NEW o \in sweep[s].todo, SweepExpires(s, o) PROVE TypeOK'
    <2>1. sweep[s] # Idle /\ o \in Orders
      BY <1>15, HandlersAtWork DEF SweepExpires
    <2>2. SweepDone(s, o) /\ Close(o, "EXPIRED") /\ "EXPIRED" \in Statuses
      BY <1>15 DEF SweepExpires, Statuses
    <2>3. QED  BY <1>15, <2>1, <2>2, CloseTypeOK, SweepDoneTypeOK DEF SweepExpires, TypeOK
  <1>16. ASSUME NEW s \in Sweeps, NEW o \in sweep[s].todo, SweepPolls(s, o) PROVE TypeOK'
    <2>1. /\ sweep[s] # Idle /\ o \in Orders
          /\ sweep[s].todo \subseteq Orders /\ sweep[s].old \subseteq Orders
      BY <1>16, HandlersAtWork DEF SweepPolls
    <2>2. FetchPaymentId(o, RcnId(o)) \subseteq TxIds /\ RcnId(o) \in TxIds
      BY <2>1, IdsAreIds, FetchedIdsAreIds
    <2>3. SweepDone(s, o) => sweep' \in [Sweeps -> SweepStates]
      BY <2>1, SweepDoneTypeOK
    <2>4. ASSUME NEW id \in TxIds
          PROVE  [pc |-> "fulfil", todo |-> sweep[s].todo, old |-> sweep[s].old,
                  order |-> o, id |-> id] \in SweepStates
      BY <2>1 DEF SweepStates
    <2>5. [pc |-> "close", todo |-> sweep[s].todo, old |-> sweep[s].old, order |-> o]
             \in SweepStates
      BY <2>1 DEF SweepStates
    <2>6. sweep' \in [Sweeps -> SweepStates]
      BY <1>16, <2>2, <2>3, <2>4, <2>5 DEF SweepPolls, TypeOK
    <2>7. QED  BY <1>16, <2>6 DEF SweepPolls, TypeOK
  <1>17. ASSUME NEW s \in Sweeps, SweepFulfils(s) PROVE TypeOK'
    <2>1. sweep[s] # Idle /\ sweep[s].order \in Orders /\ sweep[s].id \in TxIds
      BY <1>17, HandlersAtWork DEF SweepFulfils
    <2>2. SweepDone(s, sweep[s].order) /\ Fulfil(sweep[s].order, sweep[s].id)
      BY <1>17 DEF SweepFulfils
    <2>3. QED  BY <1>17, <2>1, <2>2, FulfilTypeOK, SweepDoneTypeOK DEF SweepFulfils, TypeOK
  <1>18. ASSUME NEW s \in Sweeps, SweepCloses(s) PROVE TypeOK'
    <2>1. sweep[s] # Idle /\ sweep[s].order \in Orders
      BY <1>18, HandlersAtWork DEF SweepCloses
    <2>2. SweepDone(s, sweep[s].order) /\ Close(sweep[s].order, "FAILED") /\ "FAILED" \in Statuses
      BY <1>18 DEF SweepCloses, Statuses
    <2>3. QED  BY <1>18, <2>1, <2>2, CloseTypeOK, SweepDoneTypeOK DEF SweepCloses, TypeOK
  <1>19. ASSUME NEW s \in Sweeps, SweepFails(s) PROVE TypeOK'
    <2>1. Idle \in SweepStates
      BY DEF SweepStates
    <2>2. sweep' \in [Sweeps -> SweepStates]
      BY <1>19, <2>1, SweepDoneTypeOK DEF SweepFails, TypeOK
    <2>3. QED  BY <1>19, <2>2 DEF SweepFails, TypeOK, Fault
  <1>20. CASE UNCHANGED vars
    BY <1>20 DEF vars, TypeOK
  <1>21. QED
    BY <1>1, <1>2, <1>3, <1>4, <1>5, <1>6, <1>7, <1>8, <1>9, <1>10, <1>11, <1>12, <1>13,
       <1>14, <1>15, <1>16, <1>17, <1>18, <1>19, <1>20
       DEF Next, Gateway, Verify, Webhook, SweepLoop

\* Type correctness of the checkout.
THEOREM TypeCorrect == Spec => []TypeOK
  BY InitTypeOK, NextTypeOK, PTL DEF Spec

-----------------------------------------------------------------------------
(* Exactly once: the order tables move by creation, fulfilment, closing or *)
(* not at all, and each of the four keeps them in step.                    *)

\* A new order has no link, row or credits yet.
Creates(o) ==
    /\ status[o] = "NONE"
    /\ status' = [status EXCEPT ![o] = "PENDING"]
    /\ UNCHANGED <<link, txns, credits>>

\* Every step moves the order tables in one of four ways.
LEMMA TablesMove ==
    ASSUME TypeOK, [Next]_vars
    PROVE  \/ \E o \in Orders : Creates(o)
           \/ \E o \in Orders, id \in TxIds : Commits(o, id)
           \/ \E o \in Orders, to \in {"FAILED", "EXPIRED"} : Close(o, to)
           \/ UNCHANGED db
  <1>1. ASSUME NEW o \in Orders, NEW id \in TxIds, Fulfil(o, id)
        PROVE  (\E x \in Orders, y \in TxIds : Commits(x, y)) \/ UNCHANGED db
    BY <1>1 DEF Fulfil, Skips
  <1>2. ASSUME NEW o \in Orders, CreateOrder(o) PROVE Creates(o)
    BY <1>2 DEF CreateOrder, Creates
  <1>3. ASSUME NEW c \in Clients, VerifyFulfils(c)
        PROVE  (\E x \in Orders, y \in TxIds : Commits(x, y)) \/ UNCHANGED db
    BY <1>1, <1>3, HandlersAtWork DEF VerifyFulfils
  <1>4. ASSUME NEW e \in events, HandleFailed(e)
        PROVE  (\E o \in Orders : Close(o, "FAILED")) \/ UNCHANGED db
    <2>1. OrderOf[e.payment] \in Orders
      BY PaymentsAssumption DEF TypeOK, Events
    <2>2. QED  BY <1>4, <2>1 DEF HandleFailed
  <1>5. ASSUME NEW h \in Hooks, HookFulfils(h)
        PROVE  (\E x \in Orders, y \in TxIds : Commits(x, y)) \/ UNCHANGED db
    BY <1>1, <1>5, HandlersAtWork, IdsAreIds DEF HookFulfils
  <1>6. ASSUME NEW s \in Sweeps, NEW o \in sweep[s].todo, SweepExpires(s, o)
        PROVE  \E x \in Orders : Close(x, "EXPIRED")
    BY <1>6, HandlersAtWork DEF SweepExpires
  <1>7. ASSUME NEW s \in Sweeps, SweepFulfils(s)
        PROVE  (\E x \in Orders, y \in TxIds : Commits(x, y)) \/ UNCHANGED db
    BY <1>1, <1>7, HandlersAtWork DEF SweepFulfils
  <1>8. ASSUME NEW s \in Sweeps, SweepCloses(s) PROVE \E x \in Orders : Close(x, "FAILED")
    BY <1>8, HandlersAtWork DEF SweepCloses
  <1>9. CASE UNCHANGED vars  BY <1>9 DEF vars
  <1>10. QED
    BY <1>2, <1>3, <1>4, <1>5, <1>6, <1>7, <1>8, <1>9
       DEF Next, Gateway, Verify, Webhook, SweepLoop, Age, Attempt, Lapse, VerifyReads,
           VerifyPolls, VerifyFails, HandleCapture, HookReadsOrder, HookFails, SweepStarts,
           SweepPolls, SweepFails

RowIds(o) == {row.id : row \in {r \in txns : r.order = o}}

\* The part of ExactlyOnce that speaks of one order.
InStep(o) ==
    /\ credits[o] = IF status[o] = "PAID" THEN 1 ELSE 0
    /\ RowIds(o) = IF status[o] = "PAID" THEN {link[o]} ELSE {}

\* ExactlyOnce is InStep of every order.
LEMMA ExactlyOnceByOrder == ExactlyOnce <=> \A o \in Orders : InStep(o)
  BY DEF ExactlyOnce, InStep, RowIds

\* ExactlyOnce is inductive, given the types.
LEMMA ExactlyOnceStep == TypeOK /\ ExactlyOnce /\ [Next]_vars => ExactlyOnce'
  <1> SUFFICES ASSUME TypeOK, ExactlyOnce, [Next]_vars, NEW o \in Orders PROVE InStep(o)'
    BY DEF ExactlyOnce, InStep, RowIds
  <1>0. InStep(o)  BY ExactlyOnceByOrder
  <1>1. ASSUME NEW x \in Orders, Creates(x) PROVE InStep(o)'
    BY <1>0, <1>1 DEF TypeOK, Creates, InStep, RowIds
  <1>2. ASSUME NEW x \in Orders, NEW id \in TxIds, Commits(x, id) PROVE InStep(o)'
    <2>1. CASE x = o
      <3>1. status[o] = "PENDING" /\ status'[o] = "PAID" /\ link'[o] = id
        BY <1>2, <2>1 DEF Commits, TypeOK
      <3>2. credits'[o] = 1
        BY <1>0, <1>2, <2>1, <3>1 DEF Commits, TypeOK, InStep
      <3>3. RowIds(o) = {}
        BY <1>0, <3>1 DEF InStep
      <3>4. RowIds(o)' = RowIds(o) \cup {id}
        <4> DEFINE new == [id |-> id, order |-> o]
        <4>1. new.id = id /\ new.order = o /\ txns' = txns \cup {new}
          BY <1>2, <2>1 DEF Commits
        <4> HIDE DEF new
        <4>2. {r \in txns' : r.order = o} = {r \in txns : r.order = o} \cup {new}
          BY <4>1
        <4>3. QED  BY <4>1, <4>2 DEF RowIds
      <3>5. QED  BY <3>1, <3>2, <3>3, <3>4 DEF InStep
    <2>2. CASE x # o
      <3>1. status'[o] = status[o] /\ link'[o] = link[o] /\ credits'[o] = credits[o]
        BY <1>2, <2>2 DEF Commits, TypeOK
      <3>2. RowIds(o)' = RowIds(o)
        BY <1>2, <2>2 DEF Commits, RowIds
      <3>3. QED  BY <1>0, <3>1, <3>2 DEF InStep
    <2>3. QED  BY <2>1, <2>2
  <1>3. ASSUME NEW x \in Orders, NEW to \in {"FAILED", "EXPIRED"}, Close(x, to) PROVE InStep(o)'
    BY <1>0, <1>3 DEF TypeOK, Close, InStep, RowIds
  <1>4. CASE UNCHANGED db
    BY <1>0, <1>4 DEF db, InStep, RowIds
  <1>5. QED  BY <1>1, <1>2, <1>3, <1>4, TablesMove

\* Whichever paths race, an order is credited once if PAID and never otherwise.
THEOREM CreditedExactlyOnce == Spec => []ExactlyOnce
  <1>1. Init => ExactlyOnce
    BY DEF Init, ExactlyOnce
  <1>2. QED  BY <1>1, ExactlyOnceStep, TypeCorrect, PTL DEF Spec

\* What is settled stays settled: no step moves an order out of PAID, FAILED or
\* EXPIRED.
THEOREM SettledForGood == Spec => SettledStays
  <1>1. TypeOK /\ [Next]_vars =>
          [\A o \in Orders : status[o] \in {"PAID", "FAILED", "EXPIRED"} => status'[o] = status[o]]_vars
    <2> SUFFICES ASSUME TypeOK, [Next]_vars, NEW o \in Orders,
                        status[o] \in {"PAID", "FAILED", "EXPIRED"}
                 PROVE  status'[o] = status[o]
      OBVIOUS
    <2>1. QED  BY TablesMove DEF TypeOK, Creates, Commits, Close, db
  <1>2. QED  BY <1>1, TypeCorrect, PTL DEF Spec, SettledStays

-----------------------------------------------------------------------------
(* The checkout implements the abstract specification.                     *)

\* The initial state is an initial state of the abstract specification.
LEMMA InitRefines == Init => Abstract!Init
  BY DEF Init, Abstract!Init, Outcome

\* A new order opens, a fulfilment pays, a closing closes; the rest stutters.
LEMMA StepRefines ==
    TypeOK /\ ExactlyOnce /\ [Next]_vars
        => [Abstract!Next]_<<[o \in Orders |-> Outcome(status[o])], credits>>
  <1> DEFINE out == [o \in Orders |-> Outcome(status[o])]
  <1> SUFFICES ASSUME TypeOK, ExactlyOnce, [Next]_vars
               PROVE  Abstract!Next \/ (out' = out /\ credits' = credits)
    BY DEF Abstract!Next
  <1>1. ASSUME NEW x \in Orders, Creates(x) PROVE Abstract!Open(x)
    BY <1>1 DEF Creates, TypeOK, Abstract!Open, Outcome
  <1>2. ASSUME NEW x \in Orders, NEW id \in TxIds, Commits(x, id) PROVE Abstract!Pay(x)
    <2>1. credits[x] = 0
      BY <1>2 DEF Commits, ExactlyOnce
    <2>2. credits' = [credits EXCEPT ![x] = 1]
      BY <1>2, <2>1 DEF Commits, TypeOK
    <2>3. out[x] = "open" /\ out' = [out EXCEPT ![x] = "paid"]
      BY <1>2 DEF Commits, TypeOK, Outcome
    <2>4. QED  BY <2>2, <2>3 DEF Abstract!Pay
  <1>3. ASSUME NEW x \in Orders, NEW to \in {"FAILED", "EXPIRED"}, Close(x, to)
        PROVE  Abstract!Close(x) \/ (out' = out /\ credits' = credits)
    <2>1. CASE status[x] = "PENDING"
      <3>1. out[x] = "open" /\ out' = [out EXCEPT ![x] = "closed"]
        BY <1>3, <2>1 DEF Close, TypeOK, Outcome
      <3>2. QED  BY <1>3, <3>1 DEF Close, Abstract!Close
    <2>2. CASE status[x] # "PENDING"
      BY <1>3, <2>2 DEF Close
    <2>3. QED  BY <2>1, <2>2
  <1>4. CASE UNCHANGED db
    BY <1>4 DEF db
  <1>5. QED  BY <1>1, <1>2, <1>3, <1>4, TablesMove DEF Abstract!Next

\* The three settling paths together implement "settled at most once".
THEOREM Refinement == Spec => SettledAtMostOnce
  <1>1. QED
    BY InitRefines, StepRefines, TypeCorrect, CreditedExactlyOnce, PTL
       DEF Spec, SettledAtMostOnce, Abstract!Spec

-----------------------------------------------------------------------------
(* No credits without money.  PaidOnlyIfHeld is not inductive: it needs to *)
(* know that what an event, a handler or the sweep carries is evidence of  *)
(* a payment the gateway holds.                                            *)

HeldPayments == {p \in Payments : Held(p)}

\* An id under which an order may be settled: it stands for a held payment of the
\* order, or of another order when both are Razorpay's.
Serves(p, o)  == OrderOf[p] = o \/ {o, OrderOf[p]} \subseteq razorpay
Proves(id, o) == \E p \in HeldPayments : StandsFor(id, o, p) /\ Serves(p, o)

EventsProve == \A e \in events : e.kind # "failed" => e.payment \in HeldPayments
HooksProve  == \A h \in Hooks : hook[h].pc \in {"order", "fulfil"} => hook[h].event.payment \in HeldPayments
ClientsProve == \A c \in Clients : client[c].pc = "fulfil" => Proves(client[c].id, client[c].order)
SweepsProve == \A s \in Sweeps : sweep[s].pc = "fulfil" => Proves(sweep[s].id, sweep[s].order)
LinksProve  == \A o \in Orders : status[o] = "PAID" => Proves(link[o], o)

Evidence == EventsProve /\ HooksProve /\ ClientsProve /\ SweepsProve /\ LinksProve

\* The gateway never lets go of a payment.
LEMMA HeldStays ==
    ASSUME TypeOK, [Next]_vars
    PROVE  HeldPayments \subseteq HeldPayments'
  <1>1. ASSUME NEW p \in Payments, Held(p) PROVE Held(p)'
    <2>1. ASSUME NEW q \in Payments, NEW result \in {"failed", "authorized", "captured"},
                 Attempt(q, result)
          PROVE  Held(p)'
      BY <1>1, <2>1 DEF Attempt, Held, TypeOK
    <2>2. CASE UNCHANGED pay
      BY <1>1, <2>2 DEF Held
    <2>3. QED
      BY <2>1, <2>2
         DEF Next, Gateway, Verify, Webhook, SweepLoop, CreateOrder, Age, Lapse, VerifyReads,
             VerifyPolls, VerifyFulfils, VerifyFails, HandleFailed, HandleCapture,
             HookReadsOrder, HookFulfils, HookFails, SweepStarts, SweepExpires, SweepPolls,
             SweepFulfils, SweepCloses, SweepFails, vars, bank
  <1>2. QED
    BY <1>1 DEF HeldPayments

\* Nor is an order routed anew.
LEMMA RoutingStays ==
    ASSUME [Next]_vars
    PROVE  razorpay \subseteq razorpay'
  BY DEF Next, Gateway, Verify, Webhook, SweepLoop, CreateOrder, Age, Attempt, Lapse, VerifyReads,
         VerifyPolls, VerifyFulfils, VerifyFails, HandleFailed, HandleCapture,
         HookReadsOrder, HookFulfils, HookFails, SweepStarts, SweepExpires, SweepPolls,
         SweepFulfils, SweepCloses, SweepFails, vars, bank

\* So an id that settles an order goes on doing so.
LEMMA ProofStays ==
    ASSUME TypeOK, [Next]_vars, NEW id, NEW o, Proves(id, o)
    PROVE  Proves(id, o)'
  BY HeldStays, RoutingStays DEF Proves, StandsFor, Serves, PayId, RcnId, OwnId

\* A held payment settles its own order under its id.
LEMMA PaymentProves ==
    ASSUME NEW p \in HeldPayments
    PROVE  Proves(PayId(p), OrderOf[p])
  BY DEF Proves, StandsFor, Serves

\* A gateway that reports CAPTURED holds a payment of the order, whatever id it
\* then names.
LEMMA FetchedProves ==
    ASSUME NEW o, "CAPTURED" \in FetchOrderStatus(o),
           NEW fallback \in {RcnId(o), OwnId(o)}, NEW id \in FetchPaymentId(o, fallback)
    PROVE  Proves(id, o)
  <1>1. PICK p \in Attempts(o) : Captured(p)
    BY DEF FetchOrderStatus
  <1>2. p \in HeldPayments /\ OrderOf[p] = o
    BY <1>1 DEF Attempts, Captured, Held, HeldPayments
  <1>3. CASE id = fallback
    BY <1>2, <1>3 DEF Proves, StandsFor, Serves
  <1>4. CASE \E q \in Attempts(o) : Held(q) /\ id = PayId(q)
    <2>1. PICK q \in Attempts(o) : Held(q) /\ id = PayId(q)
      BY <1>4
    <2>2. q \in HeldPayments /\ OrderOf[q] = o
      BY <2>1 DEF Attempts, HeldPayments
    <2>3. QED  BY <2>1, <2>2, PaymentProves
  <1>5. QED  BY <1>3, <1>4 DEF FetchPaymentId

\* Every capture event is about a payment the gateway holds.
LEMMA EventsProveStep == TypeOK /\ Evidence /\ [Next]_vars => EventsProve'
  <1> SUFFICES ASSUME TypeOK, Evidence, [Next]_vars PROVE EventsProve'  OBVIOUS
  <1>1. ASSUME NEW p \in Payments, NEW result \in {"failed", "authorized", "captured"},
               Attempt(p, result)
        PROVE  EventsProve'
    <2>1. result # "failed" => p \in HeldPayments'
      BY <1>1 DEF Attempt, Held, HeldPayments, TypeOK
    <2>2. \A e \in events : e.payment \in Payments
      BY DEF TypeOK, Events
    <2>3. QED  BY <1>1, <2>1, <2>2, HeldStays DEF Attempt, Evidence, EventsProve
  <1>2. CASE events' \subseteq events
    <2>1. \A e \in events : e.payment \in Payments
      BY DEF TypeOK, Events
    <2>2. QED  BY <1>2, <2>1, HeldStays DEF Evidence, EventsProve
  <1>3. QED
    BY <1>1, <1>2
       DEF Next, Gateway, Verify, Webhook, SweepLoop, CreateOrder, Age, Lapse, VerifyReads,
           VerifyPolls, VerifyFulfils, VerifyFails, HandleFailed, HandleCapture,
           HookReadsOrder, HookFulfils, HookFails, SweepStarts, SweepExpires, SweepPolls,
           SweepFulfils, SweepCloses, SweepFails, vars, Answer

\* So is every event a webhook handler works on.
LEMMA HooksProveStep == TypeOK /\ Evidence /\ [Next]_vars => HooksProve'
  <1> SUFFICES ASSUME TypeOK, Evidence, [Next]_vars, NEW g \in Hooks,
                      hook'[g].pc \in {"order", "fulfil"}
               PROVE  hook'[g].event.payment \in HeldPayments'
    BY DEF HooksProve
  <1>0. ASSUME hook'[g].event = hook[g].event, hook[g].pc \in {"order", "fulfil"}
        PROVE  hook'[g].event.payment \in HeldPayments'
    BY <1>0, HandlersAtWork, HeldStays DEF Evidence, HooksProve
  <1>1. ASSUME NEW h \in Hooks, NEW e \in events, HandleCapture(h, e)
        PROVE  hook'[g].event.payment \in HeldPayments'
    <2>1. e.payment \in HeldPayments' /\ e \in Events
      BY <1>1, HeldStays DEF HandleCapture, TypeOK, Evidence, EventsProve, Events
    <2>2. CASE g = h /\ hook' # hook
      BY <1>1, <2>1, <2>2 DEF HandleCapture, TypeOK
    <2>3. CASE g # h \/ hook' = hook
      BY <1>0, <1>1, <2>3 DEF HandleCapture, TypeOK
    <2>4. QED  BY <2>2, <2>3
  <1>2. ASSUME NEW h \in Hooks, HookReadsOrder(h) PROVE hook'[g].event.payment \in HeldPayments'
    <2>1. hook[h] \in [pc : {"order", "fulfil"}, event : Captures]
      BY <1>2, HandlersAtWork DEF HookReadsOrder
    <2>2. CASE g = h
      BY <1>0, <1>2, <2>1, <2>2 DEF HookReadsOrder, TypeOK, Idle
    <2>3. CASE g # h
      BY <1>0, <1>2, <2>3 DEF HookReadsOrder, TypeOK
    <2>4. QED  BY <2>2, <2>3
  <1>3. ASSUME NEW h \in Hooks, HookFulfils(h) \/ HookFails(h)
        PROVE  hook'[g].event.payment \in HeldPayments'
    BY <1>0, <1>3 DEF HookFulfils, HookFails, TypeOK, Idle
  <1>4. CASE UNCHANGED hook
    BY <1>0, <1>4
  <1>5. QED
    BY <1>1, <1>2, <1>3, <1>4
       DEF Next, Gateway, Verify, Webhook, SweepLoop, CreateOrder, Age, Attempt, Lapse,
           VerifyReads, VerifyPolls, VerifyFulfils, VerifyFails, HandleFailed, SweepStarts,
           SweepExpires, SweepPolls, SweepFulfils, SweepCloses, SweepFails, vars

\* A verify request that will fulfil carries such an id.
LEMMA ClientsProveStep == TypeOK /\ Evidence /\ [Next]_vars => ClientsProve'
  <1> SUFFICES ASSUME TypeOK, Evidence, [Next]_vars, NEW d \in Clients,
                      client'[d].pc = "fulfil"
               PROVE  Proves(client[d].id, client[d].order)'
    BY DEF ClientsProve
  <1>1. ASSUME NEW o, NEW id, Proves(id, o), client'[d].id = id, client'[d].order = o
        PROVE  Proves(client[d].id, client[d].order)'
    <2>1. Proves(id, o)'
      BY <1>1, ProofStays
    <2>2. QED  BY <1>1, <2>1 DEF Proves, StandsFor, Serves, PayId, RcnId, OwnId
  <1>0. ASSUME client'[d] = client[d] PROVE Proves(client[d].id, client[d].order)'
    BY <1>0, <1>1 DEF Evidence, ClientsProve
  <1>2. ASSUME NEW c \in Clients, NEW o \in Orders, VerifyReads(c, o)
        PROVE  Proves(client[d].id, client[d].order)'
    <2>1. CASE d = c /\ client' # client
      <3>1. o \in razorpay
        BY <1>2, <2>1 DEF VerifyReads, TypeOK
      <3>2. PICK p \in Payments :
               /\ OrderOf[p] \in razorpay
               /\ Held(p)
               /\ client'[d] = [pc |-> "fulfil", order |-> o, id |-> PayId(p)]
        BY <1>2, <2>1 DEF VerifyReads, TypeOK
      <3>3. Proves(PayId(p), o)
        BY <3>1, <3>2 DEF Proves, HeldPayments, StandsFor, Serves
      <3>4. QED  BY <1>1, <3>2, <3>3
    <2>2. CASE d # c \/ client' = client
      BY <1>0, <1>2, <2>2 DEF VerifyReads, TypeOK
    <2>3. QED  BY <2>1, <2>2
  <1>3. ASSUME NEW c \in Clients, VerifyPolls(c) PROVE Proves(client[d].id, client[d].order)'
    <2>1. CASE d = c
      <3>1. "CAPTURED" \in FetchOrderStatus(client[c].order) /\ client[c].order \in Orders
        BY <1>3, <2>1, HandlersAtWork DEF VerifyPolls, TypeOK, Idle
      <3>2. PICK id \in FetchPaymentId(client[c].order, OwnId(client[c].order)) :
               client'[d] = [pc |-> "fulfil", order |-> client[c].order, id |-> id]
        BY <1>3, <2>1 DEF VerifyPolls, TypeOK, Idle
      <3>3. Proves(id, client[c].order)
        BY <3>1, FetchedProves
      <3>4. QED  BY <1>1, <3>1, <3>2, <3>3
    <2>2. CASE d # c
      BY <1>0, <1>3, <2>2 DEF VerifyPolls, TypeOK
    <2>3. QED  BY <2>1, <2>2
  <1>4. ASSUME NEW c \in Clients, VerifyFulfils(c) \/ VerifyFails(c)
        PROVE  Proves(client[d].id, client[d].order)'
    BY <1>0, <1>4 DEF VerifyFulfils, VerifyFails, TypeOK, Idle
  <1>5. CASE UNCHANGED client
    BY <1>0, <1>5
  <1>6. QED
    BY <1>2, <1>3, <1>4, <1>5
       DEF Next, Gateway, Verify, Webhook, SweepLoop, CreateOrder, Age, Attempt, Lapse,
           HandleFailed, HandleCapture, HookReadsOrder, HookFulfils, HookFails, SweepStarts,
           SweepExpires, SweepPolls, SweepFulfils, SweepCloses, SweepFails, vars

\* So does a run of the sweep.
LEMMA SweepsProveStep == TypeOK /\ Evidence /\ [Next]_vars => SweepsProve'
  <1> SUFFICES ASSUME TypeOK, Evidence, [Next]_vars, NEW x \in Sweeps,
                      sweep'[x].pc = "fulfil"
               PROVE  Proves(sweep[x].id, sweep[x].order)'
    BY DEF SweepsProve
  <1>0. ASSUME NEW o, NEW id, Proves(id, o), sweep'[x].id = id, sweep'[x].order = o
        PROVE  Proves(sweep[x].id, sweep[x].order)'
    <2>1. Proves(id, o)'
      BY <1>0, ProofStays
    <2>2. QED  BY <1>0, <2>1 DEF Proves, StandsFor, Serves, PayId, RcnId, OwnId
  <1>1. ASSUME sweep'[x] = sweep[x] PROVE Proves(sweep[x].id, sweep[x].order)'
    BY <1>0, <1>1 DEF Evidence, SweepsProve
  <1>2. ASSUME NEW s \in Sweeps, NEW o, SweepDone(s, o)
        PROVE  Proves(sweep[x].id, sweep[x].order)'
    BY <1>1, <1>2 DEF SweepDone, Rest, Idle, TypeOK
  <1>3. ASSUME NEW s \in Sweeps, NEW o \in sweep[s].todo, SweepPolls(s, o)
        PROVE  Proves(sweep[x].id, sweep[x].order)'
    <2>1. CASE SweepDone(s, o)
      BY <1>2, <2>1
    <2>2. CASE ~SweepDone(s, o) /\ x = s
      <3>1. "CAPTURED" \in FetchOrderStatus(o) /\ sweep'[x].order = o
        BY <1>3, <2>2 DEF SweepPolls, TypeOK
      <3>2. sweep'[x].id \in FetchPaymentId(o, RcnId(o))
        BY <1>3, <2>2 DEF SweepPolls, TypeOK, FetchPaymentId
      <3>3. PICK id \in FetchPaymentId(o, RcnId(o)) : sweep'[x].id = id
        BY <3>2
      <3>4. Proves(id, o)
        BY <3>1, FetchedProves
      <3>5. QED  BY <1>0, <3>1, <3>3, <3>4
    <2>3. CASE ~SweepDone(s, o) /\ x # s
      BY <1>1, <1>3, <2>3 DEF SweepPolls, TypeOK
    <2>4. QED  BY <2>1, <2>2, <2>3
  <1>4. CASE UNCHANGED sweep
    BY <1>1, <1>4
  <1>5. ASSUME NEW s \in Sweeps, SweepStarts(s) PROVE Proves(sweep[x].id, sweep[x].order)'
    BY <1>1, <1>5 DEF SweepStarts, TypeOK
  <1>6. ASSUME NEW s \in Sweeps, SweepFails(s) PROVE Proves(sweep[x].id, sweep[x].order)'
    <2>1. CASE sweep' = [sweep EXCEPT ![s] = Idle]
      BY <1>1, <2>1 DEF TypeOK, Idle
    <2>2. QED  BY <1>2, <1>6, <2>1 DEF SweepFails
  <1>7. QED
    BY <1>2, <1>3, <1>4, <1>5, <1>6
       DEF Next, Gateway, Verify, Webhook, SweepLoop, CreateOrder, Age, Attempt, Lapse,
           VerifyReads, VerifyPolls, VerifyFulfils, VerifyFails, HandleFailed, HandleCapture,
           HookReadsOrder, HookFulfils, HookFails, SweepExpires, SweepFulfils, SweepCloses, vars

\* An order becomes PAID only under such an id, and stays linked to it.
LEMMA LinksProveStep == TypeOK /\ Evidence /\ [Next]_vars => LinksProve'
  <1> SUFFICES ASSUME TypeOK, Evidence, [Next]_vars, NEW x \in Orders, status'[x] = "PAID"
               PROVE  Proves(link[x], x)'
    BY DEF LinksProve
  <1>0. ASSUME NEW id, Proves(id, x), link'[x] = id PROVE Proves(link[x], x)'
    <2>1. Proves(id, x)'
      BY <1>0, ProofStays
    <2>2. QED  BY <1>0, <2>1 DEF Proves, StandsFor, Serves, PayId, RcnId, OwnId
  <1>1. ASSUME status[x] = "PAID", link'[x] = link[x] PROVE Proves(link[x], x)'
    BY <1>0, <1>1 DEF Evidence, LinksProve
  <1>2. CASE UNCHANGED <<status, link>>
    BY <1>1, <1>2
  <1>3. ASSUME NEW o \in Orders, NEW id, Proves(id, o), Fulfil(o, id)
        PROVE  Proves(link[x], x)'
    <2>1. CASE Commits(o, id) /\ x = o
      BY <1>0, <1>3, <2>1 DEF Commits, TypeOK
    <2>2. CASE Commits(o, id) /\ x # o
      BY <1>1, <2>2 DEF Commits, TypeOK
    <2>3. CASE Skips(o, id)
      BY <1>2, <2>3 DEF Skips, db
    <2>4. QED  BY <1>3, <2>1, <2>2, <2>3 DEF Fulfil
  <1>4. ASSUME NEW o, NEW to \in {"FAILED", "EXPIRED"}, Close(o, to) PROVE Proves(link[x], x)'
    BY <1>1, <1>4 DEF Close, TypeOK
  <1>5. ASSUME NEW h \in Hooks, HookFulfils(h) PROVE Proves(link[x], x)'
    <2>1. hook[h].event.payment \in HeldPayments /\ OrderOf[hook[h].event.payment] \in Orders
      BY <1>5, HandlersAtWork DEF HookFulfils, Evidence, HooksProve
    <2>2. Proves(PayId(hook[h].event.payment), OrderOf[hook[h].event.payment])
      BY <2>1, PaymentProves
    <2>3. QED  BY <1>3, <1>5, <2>1, <2>2 DEF HookFulfils
  <1>6. ASSUME NEW c \in Clients, VerifyFulfils(c) PROVE Proves(link[x], x)'
    BY <1>3, <1>6, HandlersAtWork DEF VerifyFulfils, Evidence, ClientsProve
  <1>7. ASSUME NEW s \in Sweeps, SweepFulfils(s) PROVE Proves(link[x], x)'
    BY <1>3, <1>7, HandlersAtWork DEF SweepFulfils, Evidence, SweepsProve
  <1>8. ASSUME NEW o \in Orders, CreateOrder(o) PROVE Proves(link[x], x)'
    BY <1>1, <1>8 DEF CreateOrder, TypeOK
  <1>9. QED
    BY <1>2, <1>4, <1>5, <1>6, <1>7, <1>8
       DEF Next, Gateway, Verify, Webhook, SweepLoop, Age, Attempt, Lapse, VerifyReads,
           VerifyPolls, VerifyFails, HandleFailed, HandleCapture, HookReadsOrder,
           HookFails, SweepStarts, SweepExpires, SweepPolls, SweepCloses, SweepFails,
           vars, db

\* Evidence is inductive, given the types.
LEMMA EvidenceStep == TypeOK /\ Evidence /\ [Next]_vars => Evidence'
  BY EventsProveStep, HooksProveStep, ClientsProveStep, SweepsProveStep, LinksProveStep DEF Evidence

\* Each Transaction row is of the order that is linked to it, and an id has one row.
RowsApart ==
    /\ \A row \in txns : row.order \in Orders /\ status[row.order] = "PAID" /\ link[row.order] = row.id
    /\ \A row \in txns, other \in txns : row.id = other.id => row = other

\* RowsApart is inductive: a recorded id is not recorded again.
LEMMA RowsApartStep == TypeOK /\ RowsApart /\ [Next]_vars => RowsApart'
  <1> SUFFICES ASSUME TypeOK, RowsApart, [Next]_vars PROVE RowsApart'  OBVIOUS
  <1>1. ASSUME NEW x \in Orders, Creates(x) PROVE RowsApart'
    BY <1>1 DEF Creates, RowsApart, TypeOK
  <1>2. ASSUME NEW x \in Orders, NEW id \in TxIds, Commits(x, id) PROVE RowsApart'
    <2> DEFINE new == [id |-> id, order |-> x]
    <2>1. new.id = id /\ new.order = x /\ txns' = txns \cup {new}
      BY <1>2 DEF Commits
    <2>2. \A row \in txns : row.id # id /\ row.order # x
      BY <1>2 DEF Commits, Recorded, RowsApart
    <2>3. status'[x] = "PAID" /\ link'[x] = id
      BY <1>2 DEF Commits, TypeOK
    <2>4. \A o \in Orders : o # x => status'[o] = status[o] /\ link'[o] = link[o]
      BY <1>2 DEF Commits, TypeOK
    <2> HIDE DEF new
    <2>5. QED  BY <2>1, <2>2, <2>3, <2>4 DEF RowsApart
  <1>3. ASSUME NEW x \in Orders, NEW to \in {"FAILED", "EXPIRED"}, Close(x, to) PROVE RowsApart'
    <2>1. txns' = txns /\ link' = link
      BY <1>3 DEF Close
    <2>2. \A o \in Orders : status[o] = "PAID" => status'[o] = "PAID"
      BY <1>3 DEF Close, TypeOK
    <2>3. QED  BY <2>1, <2>2 DEF RowsApart
  <1>4. CASE UNCHANGED db
    BY <1>4 DEF db, RowsApart
  <1>5. QED  BY <1>1, <1>2, <1>3, <1>4, TablesMove

\* Every PAID order is linked to a payment that the gateway holds and that no other order
\* is linked to: one of its own or, at Razorpay, one of another order whose signature a
\* client brought for it (verifyPayment in payments.service.ts).
THEOREM NoCreditsWithoutMoney == Spec => []PaidOnlyIfHeld
  <1>1. Init => Evidence /\ RowsApart
    BY DEF Init, Evidence, EventsProve, HooksProve, ClientsProve, SweepsProve,
           LinksProve, RowsApart, Idle
  <1>2. ExactlyOnce /\ Evidence /\ RowsApart => PaidOnlyIfHeld
    <2> SUFFICES ASSUME ExactlyOnce, Evidence, RowsApart, NEW o \in Orders, status[o] = "PAID"
                 PROVE  /\ Proves(link[o], o)
                        /\ \A x \in Orders \ {o} : status[x] = "PAID" => link[x] # link[o]
      BY DEF PaidOnlyIfHeld, Proves, HeldPayments, Serves
    <2>1. ASSUME NEW x \in Orders, status[x] = "PAID"
          PROVE  \E row \in txns : row.order = x /\ row.id = link[x]
      <3>1. link[x] \in RowIds(x)
        BY <2>1, ExactlyOnceByOrder DEF InStep
      <3>2. QED  BY <3>1 DEF RowIds
    <2>2. QED  BY <2>1 DEF Evidence, LinksProve, RowsApart
  <1>3. QED
    BY <1>1, <1>2, EvidenceStep, RowsApartStep, CreditedExactlyOnce, TypeCorrect, PTL DEF Spec

-----------------------------------------------------------------------------
(* No answer for an open order: a fulfilment commits, or is skipped because *)
(* the order is not PENDING or the id is recorded, for this order, which is *)
(* then PAID, or for another.                                              *)

Settled(o) == status[o] \in {"PAID", "FAILED", "EXPIRED"}

\* What an answer about an order and a payment id says.
Answered(o, id) == Settled(o) \/ ServesAnother(id, o)

\* Nobody pays for an order that has no row, nor asks to verify it.
OrdersExist ==
    /\ \A p \in Payments : pay[p] # "none" => status[OrderOf[p]] # "NONE"
    /\ \A c \in Clients : client[c].pc \in {"poll", "fulfil"} => status[client[c].order] # "NONE"

Acknowledged(p) == Captured(p) /\ [kind |-> "captured", payment |-> p] \notin events

Closing ==
    /\ OrdersExist
    /\ \A t \in told : Answered(t.order, t.id)
    /\ \A p \in Payments : Acknowledged(p) => Answered(OrderOf[p], PayId(p))

\* An order that exists goes on existing, and a settled one stays settled.
LEMMA OrdersLast ==
    ASSUME TypeOK, [Next]_vars, NEW o \in Orders
    PROVE  /\ status[o] # "NONE" => status'[o] # "NONE"
           /\ Settled(o) => Settled(o)'
  BY TablesMove DEF TypeOK, Settled, Creates, Commits, Close, db

\* No Transaction row is removed, so an answer stays right.
LEMMA AnswerStays ==
    ASSUME TypeOK, [Next]_vars, NEW o \in Orders, NEW id, Answered(o, id)
    PROVE  Answered(o, id)'
  <1>1. txns \subseteq txns'
    BY TablesMove DEF Creates, Commits, Close, db
  <1>2. QED  BY <1>1, OrdersLast DEF Answered, ServesAnother

\* A recorded id has settled the order, or serves another.
LEMMA RecordedAnswers ==
    ASSUME ExactlyOnce, NEW o \in Orders, NEW id, Recorded(id)
    PROVE  status[o] = "PAID" \/ ServesAnother(id, o)
  <1>1. PICK row \in txns : row.id = id
    BY DEF Recorded
  <1>2. CASE row.order = o
    <2>1. row.id \in RowIds(o)
      BY <1>2 DEF RowIds
    <2>2. QED  BY <2>1, ExactlyOnceByOrder DEF InStep
  <1>3. QED  BY <1>1, <1>2 DEF ServesAnother

\* A fulfilment leaves the order settled, unless the id serves another.
LEMMA FulfilAnswers ==
    ASSUME TypeOK, ExactlyOnce, NEW o \in Orders, NEW id, status[o] # "NONE", Fulfil(o, id)
    PROVE  Answered(o, id)'
  <1>1. CASE Commits(o, id)
    BY <1>1 DEF Commits, Answered, Settled, TypeOK
  <1>2. CASE Skips(o, id) /\ status[o] # "PENDING"
    BY <1>2 DEF Skips, db, Answered, Settled, TypeOK, Statuses
  <1>3. CASE Skips(o, id) /\ Recorded(id)
    BY <1>3, RecordedAnswers DEF Skips, db, Answered, Settled, ServesAnother
  <1>4. QED  BY <1>1, <1>2, <1>3 DEF Fulfil, Skips

\* Attempts are made at orders that have a row, and such orders are verified.
LEMMA OrdersExistStep == TypeOK /\ OrdersExist /\ [Next]_vars => OrdersExist'
  <1> SUFFICES ASSUME TypeOK, OrdersExist, [Next]_vars PROVE OrdersExist'  OBVIOUS
  <1>1. ASSUME NEW p \in Payments, pay'[p] # "none" PROVE status'[OrderOf[p]] # "NONE"
    <2>0. OrderOf[p] \in Orders
      BY PaymentsAssumption
    <2>1. ASSUME NEW q \in Payments, NEW result \in {"failed", "authorized", "captured"},
                 Attempt(q, result)
          PROVE  status[OrderOf[p]] # "NONE"
      BY <1>1, <2>1 DEF Attempt, TypeOK, OrdersExist
    <2>2. CASE UNCHANGED pay
      BY <1>1, <2>0, <2>2, OrdersLast DEF OrdersExist
    <2>3. QED
      BY <2>0, <2>1, <2>2, OrdersLast
         DEF Next, Gateway, Verify, Webhook, SweepLoop, CreateOrder, Age, Lapse, VerifyReads,
             VerifyPolls, VerifyFulfils, VerifyFails, HandleFailed, HandleCapture,
             HookReadsOrder, HookFulfils, HookFails, SweepStarts, SweepExpires, SweepPolls,
             SweepFulfils, SweepCloses, SweepFails, vars, bank
  <1>2. ASSUME NEW d \in Clients, client'[d].pc \in {"poll", "fulfil"}
        PROVE  status'[client'[d].order] # "NONE"
    <2>1. ASSUME client'[d].order = client[d].order, client[d].pc \in {"poll", "fulfil"}
          PROVE  status'[client'[d].order] # "NONE"
      BY <2>1, HandlersAtWork, OrdersLast DEF OrdersExist
    <2>2. ASSUME NEW c \in Clients, NEW o \in Orders, VerifyReads(c, o)
          PROVE  status'[client'[d].order] # "NONE"
      <3>1. CASE d = c /\ client' # client
        BY <2>2, <3>1 DEF VerifyReads, TypeOK, db
      <3>2. CASE d # c \/ client' = client
        BY <1>2, <2>1, <2>2, <3>2 DEF VerifyReads, TypeOK
      <3>3. QED  BY <3>1, <3>2
    <2>3. ASSUME NEW c \in Clients, VerifyPolls(c) PROVE status'[client'[d].order] # "NONE"
      BY <1>2, <2>1, <2>3 DEF VerifyPolls, TypeOK, Idle
    <2>4. ASSUME NEW c \in Clients, VerifyFulfils(c) \/ VerifyFails(c)
          PROVE  status'[client'[d].order] # "NONE"
      BY <1>2, <2>1, <2>4 DEF VerifyFulfils, VerifyFails, TypeOK, Idle
    <2>5. CASE UNCHANGED client
      BY <1>2, <2>1, <2>5
    <2>6. QED
      BY <2>2, <2>3, <2>4, <2>5
         DEF Next, Gateway, Verify, Webhook, SweepLoop, CreateOrder, Age, Attempt, Lapse,
             HandleFailed, HandleCapture, HookReadsOrder, HookFulfils, HookFails, SweepStarts,
             SweepExpires, SweepPolls, SweepFulfils, SweepCloses, SweepFails, vars
  <1>3. QED  BY <1>1, <1>2 DEF OrdersExist

\* The verify endpoint answers PAID for settled orders, or for a payment of another.
LEMMA ToldStep ==
    ASSUME TypeOK, ExactlyOnce, Closing, [Next]_vars, NEW t \in told'
    PROVE  Answered(t.order, t.id)'
  <1>0. CASE t \in told
    <2>1. t.order \in Orders
      BY <1>0 DEF TypeOK
    <2>2. Answered(t.order, t.id)
      BY <1>0 DEF Closing
    <2>3. QED  BY <2>1, <2>2, AnswerStays
  <1>1. ASSUME NEW c \in Clients, NEW x \in Orders, VerifyReads(c, x), t \notin told
        PROVE  Answered(t.order, t.id)'
    BY <1>1 DEF VerifyReads, Answered, Settled, db
  <1>2. ASSUME NEW c \in Clients, VerifyFulfils(c), t \notin told PROVE Answered(t.order, t.id)'
    <2>1. t.order = client[c].order /\ t.id = client[c].id /\ client[c].pc = "fulfil"
      BY <1>2 DEF VerifyFulfils
    <2>2. t.order \in Orders /\ status[t.order] # "NONE" /\ Fulfil(t.order, t.id)
      BY <1>2, <2>1, HandlersAtWork DEF VerifyFulfils, Closing, OrdersExist
    <2>3. QED  BY <2>2, FulfilAnswers
  <1>3. QED
    BY <1>0, <1>1, <1>2
       DEF Next, Gateway, Verify, Webhook, SweepLoop, CreateOrder, Age, Attempt, Lapse,
           VerifyPolls, VerifyFails, HandleFailed, HandleCapture, HookReadsOrder, HookFulfils,
           HookFails, SweepStarts, SweepExpires, SweepPolls, SweepFulfils, SweepCloses,
           SweepFails, vars

\* So do the webhook handlers when they acknowledge a capture.
LEMMA AcknowledgedStep ==
    ASSUME TypeOK, ExactlyOnce, Closing, [Next]_vars,
           NEW p \in Payments, Acknowledged(p)'
    PROVE  Answered(OrderOf[p], PayId(p))'
  <1> DEFINE event == [kind |-> "captured", payment |-> p]
             o == OrderOf[p]
  <1>a. o \in Orders
    BY PaymentsAssumption
  <1>b. CASE Answered(o, PayId(p))
    BY <1>a, <1>b, AnswerStays DEF PayId
  <1>c. CASE Acknowledged(p)
    BY <1>b, <1>c DEF Closing
  <1>d. event \notin events' /\ Captured(p)'
    BY DEF Acknowledged
  <1>1. ASSUME NEW q \in Payments, NEW result \in {"failed", "authorized", "captured"},
               Attempt(q, result)
        PROVE  Acknowledged(p)
    BY <1>1, <1>d DEF Attempt, Acknowledged, Captured, TypeOK
  <1>2. CASE UNCHANGED <<pay, events>>
    BY <1>2, <1>c, <1>d DEF Acknowledged, Captured
  <1>3. ASSUME NEW e \in events, HandleFailed(e) PROVE Acknowledged(p)
    BY <1>3, <1>d DEF HandleFailed, Answer, Acknowledged, Captured, bank
  <1>4. ASSUME UNCHANGED pay, NEW e, Answer(e), e # event PROVE Acknowledged(p)
    BY <1>4, <1>d DEF Answer, Acknowledged, Captured
  <1>5. ASSUME NEW h \in Hooks, NEW e \in events, HandleCapture(h, e)
        PROVE  Answered(o, PayId(p))'
    <2>1. CASE e = event /\ Recorded(PayId(p))
      <3>1. Answered(o, PayId(p))
        BY <1>a, <2>1, RecordedAnswers DEF Answered, Settled
      <3>2. QED  BY <1>b, <3>1
    <2>2. CASE e # event \/ ~Recorded(PayId(p))
      BY <1>5, <1>c, <1>2, <1>4, <2>2 DEF HandleCapture, bank
    <2>3. QED  BY <2>1, <2>2
  <1>6. ASSUME NEW h \in Hooks, HookReadsOrder(h) PROVE Answered(o, PayId(p))'
    <2>1. CASE hook[h].event = event /\ status[o] = "PAID"
      BY <2>1, <1>b DEF Answered, Settled
    <2>2. CASE hook[h].event # event \/ status[o] # "PAID"
      BY <1>6, <1>c, <1>2, <1>4, <2>2 DEF HookReadsOrder, bank
    <2>3. QED  BY <2>1, <2>2
  <1>7. ASSUME NEW h \in Hooks, HookFulfils(h) PROVE Answered(o, PayId(p))'
    <2>1. CASE hook[h].event = event
      <3>1. Fulfil(o, PayId(p))
        BY <1>7, <2>1 DEF HookFulfils
      <3>2. pay[p] # "none"
        BY <1>7, <1>d DEF HookFulfils, Captured, bank
      <3>3. status[o] # "NONE"
        BY <3>2 DEF Closing, OrdersExist
      <3>4. QED  BY <1>a, <3>1, <3>3, FulfilAnswers DEF PayId
    <2>2. CASE hook[h].event # event
      BY <1>7, <1>c, <1>4, <2>2 DEF HookFulfils, bank
    <2>3. QED  BY <2>1, <2>2
  <1>8. QED
    BY <1>c, <1>1, <1>2, <1>3, <1>5, <1>6, <1>7
       DEF Next, Gateway, Verify, Webhook, SweepLoop, CreateOrder, Age, Lapse, VerifyReads,
           VerifyPolls, VerifyFulfils, VerifyFails, HookFails, SweepStarts, SweepExpires,
           SweepPolls, SweepFulfils, SweepCloses, SweepFails, vars, bank

\* Nobody, neither the client nor the gateway, is told that a PENDING order is
\* done, unless the payment has been recorded for another order.
THEOREM NoAnswerWhileOpen == Spec => []AnsweredIsSettled
  <1>1. Init => Closing
    BY DEF Init, Closing, OrdersExist, Acknowledged, Captured, Idle
  <1>2. TypeOK /\ ExactlyOnce /\ Closing /\ [Next]_vars => Closing'
    <2> SUFFICES ASSUME TypeOK, ExactlyOnce, Closing, [Next]_vars PROVE Closing'
      OBVIOUS
    <2>1. OrdersExist'
      BY OrdersExistStep DEF Closing
    <2>2. QED  BY <2>1, ToldStep, AcknowledgedStep DEF Closing
  <1>3. Closing => AnsweredIsSettled
    BY DEF Closing, Answered, Acknowledged, Settled, AnsweredIsSettled
  <1>4. QED
    BY <1>1, <1>2, <1>3, CreditedExactlyOnce, TypeCorrect, PTL DEF Spec

=============================================================================
