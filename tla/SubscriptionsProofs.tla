------------------------ MODULE SubscriptionsProofs ------------------------
(***************************************************************************)
(* What the steps of Subscriptions preserve, for any purchases at either   *)
(* store, any number of notifications and requests at once and any bounds. *)
(***************************************************************************)
EXTENDS Subscriptions, FiniteSetTheorems, SequenceTheorems, WellFoundedInduction, TLAPS

-----------------------------------------------------------------------------
(* Numbers, rows and requests.                                             *)

LEMMA HasLeast ==
    ASSUME NEW T, T \subseteq Nat, T # {}
    PROVE  \E x \in T : \A y \in T : x <= y
<1>1. PICK R : IsWellFoundedOn(R, Nat) /\ \A x, y \in Nat : y < x => <<y, x>> \in R
  <2>1. \A x, y \in Nat : y < x => <<y, x>> \in OpToRel(<, Nat)
    BY DEF OpToRel
  <2> QED
    BY <2>1, NatLessThanWellFounded
<1>2. PICK x \in T : \A y \in T : ~(<<y, x>> \in R)
  BY <1>1, WFMin, Zenon
<1>3. \A y \in T : ~(y < x)
  BY <1>1, <1>2
<1> QED
  BY <1>3

\* The newest of some rows.
LEMMA HasNewest ==
    ASSUME NEW L \in Nat, NEW T, T \subseteq 1 .. L, T # {}
    PROVE  \E i \in T : \A j \in T : j <= i
<1> DEFINE D == {d \in Nat : L - d \in T}
<1>1. D \subseteq Nat /\ D # {}
  <2>1. PICK i \in T : TRUE
    OBVIOUS
  <2>2. L - i \in Nat /\ L - (L - i) = i
    BY <2>1
  <2> QED
    BY <2>1, <2>2
<1>2. PICK d \in D : \A e \in D : d <= e
  <2> HIDE DEF D
  <2> QED
    BY <1>1, HasLeast
<1>3. ASSUME NEW j \in T PROVE j <= L - d
  <2>1. L - j \in D
    <3>1. j \in 1 .. L
      OBVIOUS
    <3>2. L - j \in Nat /\ L - (L - j) = j
      BY <3>1
    <3> QED
      BY <3>2
  <2>2. d <= L - j /\ d \in Nat /\ j \in 1 .. L
    BY <1>2, <2>1
  <2> QED
    BY <2>2
<1> QED
  BY <1>2, <1>3

Rows      == [p : Purchases, status : Statuses, end : Times, renews : BOOLEAN]
Handling  == [note : Notes, end : Times, row : Nat]
Claiming  == [p : Purchases, end : Times]
Expiring  == [rows : SUBSET Nat]
States    == {"none", "active", "cancelled", "failing", "refunded", "ended"}
Stores    == [state : States, period : Times]

LEMMA Bounds == MaxTime \in Nat /\ MaxNotes \in Nat /\ MaxRepeats \in Nat /\ MaxFaults \in Nat
BY SubscriptionsAssumption

LEMMA IdleApart ==
    /\ Idle \notin Handling /\ Idle \notin Claiming /\ Idle \notin Expiring
BY DEF Idle, Handling, Claiming, Expiring

Typed ==
    /\ apple \subseteq Purchases
    /\ now \in Times
    /\ store \in [Purchases -> Stores]
    /\ terms \in [Purchases -> SUBSET Times] /\ sent \in [Purchases -> Nat]
    /\ notes \subseteq Notes
    /\ rows \in Seq(Rows)
    /\ log \in [EventIds -> Nat] /\ grants \in [Purchases -> Nat]
    /\ hook \in [Hooks -> {Idle} \cup Handling]
    /\ client \in [Clients -> {Idle} \cup Claiming]
    /\ job \in {Idle} \cup Expiring
    /\ repeats \in Nat /\ faults \in Nat
    /\ last \in [Purchases -> Nat] /\ excused \subseteq Purchases /\ unmetered \subseteq Purchases

\* Rows named by what is at work are there.
RowsThere ==
    /\ \A h \in Hooks : hook[h] # Idle => hook[h].row \in DOMAIN rows
    /\ job # Idle => job.rows \subseteq DOMAIN rows

LEMMA TypesSplit == TypeOK <=> Typed /\ RowsThere
<1>1. TypeOK => Typed
  BY DEF TypeOK, Typed, Rows, Handling, Claiming, Expiring, States, Stores
<1>2. TypeOK => RowsThere
  BY IdleApart DEF TypeOK, RowsThere
<1>3. Typed /\ RowsThere => TypeOK
  BY IdleApart DEF TypeOK, Typed, RowsThere, Rows, Handling, Claiming, Expiring, States, Stores
<1> QED
  BY <1>1, <1>2, <1>3

LEMMA HookFields ==
    ASSUME Typed, NEW h \in Hooks, hook[h] # Idle
    PROVE  /\ hook[h] \in Handling
           /\ hook[h].note \in Notes /\ hook[h].end \in Times /\ hook[h].row \in Nat
<1>1. hook[h] \in Handling
  BY DEF Typed
<1> QED
  BY <1>1 DEF Handling

LEMMA ClientFields ==
    ASSUME Typed, NEW c \in Clients, client[c] # Idle
    PROVE  /\ client[c] \in Claiming
           /\ client[c].p \in Purchases /\ client[c].end \in Times
<1>1. client[c] \in Claiming
  BY DEF Typed
<1> QED
  BY <1>1 DEF Claiming

LEMMA NoteFields ==
    ASSUME NEW n \in Notes
    PROVE  /\ n.p \in Purchases /\ n.number \in Numbers /\ n.event \in StoreEvents
           /\ n.period \in Times
BY DEF Notes

LEMMA RowFields ==
    ASSUME Typed
    PROVE  /\ Len(rows) \in Nat /\ DOMAIN rows = 1 .. Len(rows)
           /\ \A i \in DOMAIN rows :
                 /\ rows[i] \in Rows
                 /\ rows[i].p \in Purchases /\ rows[i].status \in Statuses
                 /\ rows[i].end \in Times
<1>1. rows \in Seq(Rows)
  BY DEF Typed
<1>2. ASSUME NEW i \in DOMAIN rows PROVE rows[i] \in Rows
  BY <1>1, ElementOfSeq, LenProperties
<1> QED
  BY <1>1, <1>2, LenProperties DEF Rows

\* The keys of two events are the same if they are of one period or message.
LEMMA Keys ==
    ASSUME NEW n \in Notes
    PROVE  /\ Key(n) = IF n.p \in apple THEN <<n.p, <<"transaction", n.period>>>>
                                        ELSE <<n.p, <<"message", n.number>>>>
           /\ Key(n) \in EventIds
<1>1. Key(n) = IF n.p \in apple THEN <<n.p, <<"transaction", n.period>>>>
                                ELSE <<n.p, <<"message", n.number>>>>
  BY DEF Key, EventId
<1> QED
  BY <1>1, NoteFields DEF EventIds

LEMMA EventTypes ==
    ASSUME NEW p, NEW event \in StoreEvents
    PROVE  /\ EventType(p, event) \in {"INITIAL_PURCHASE", "RENEWAL", "BILLING_RECOVERY",
                 "CANCELLATION", "GRACE_PERIOD_ENTERED", "REVOCATION", "EXPIRY"}
           /\ EventType(p, event) = "INITIAL_PURCHASE" <=> event = "bought"
           /\ EventType(p, event) \in {"RENEWAL", "BILLING_RECOVERY"}
                 <=> event \in {"renewed", "deferred", "recovered", "restarted"}
           /\ EventType(p, event) = "CANCELLATION" <=> event = "cancelled"
           /\ EventType(p, event) = "GRACE_PERIOD_ENTERED" <=> event = "failed"
           /\ EventType(p, event) = "REVOCATION" <=> event = "refunded"
           /\ EventType(p, event) = "EXPIRY" <=> event \in {"ended", "other"}
BY DEF EventType, StoreEvents

LEMMA UpdatedRow ==
    ASSUME NEW row \in Rows, NEW end \in Times,
           NEW type \in {"RENEWAL", "BILLING_RECOVERY", "CANCELLATION",
                         "GRACE_PERIOD_ENTERED", "REVOCATION", "EXPIRY"}
    PROVE  Updated(row, type, end) \in Rows
<1>1. CASE type \in {"RENEWAL", "BILLING_RECOVERY"}
  BY <1>1 DEF Updated, Rows, Statuses
<1>2. CASE type = "CANCELLATION"
  BY <1>2 DEF Updated, Rows, Statuses
<1>3. CASE type = "GRACE_PERIOD_ENTERED"
  BY <1>3 DEF Updated, Rows, Statuses
<1>4. CASE type = "REVOCATION"
  BY <1>4 DEF Updated, Rows, Statuses
<1>5. CASE type = "EXPIRY"
  BY <1>5 DEF Updated, Rows, Statuses
<1> QED
  BY <1>1, <1>2, <1>3, <1>4, <1>5

LEMMA NewestRow ==
    ASSUME Typed, NEW p, RowsOf(p) # {}
    PROVE  Newest(p) \in DOMAIN rows /\ rows[Newest(p)].p = p /\ Newest(p) \in RowsOf(p)
<1>1. \E i \in RowsOf(p) : \A j \in RowsOf(p) : j <= i
  BY RowFields, HasNewest DEF RowsOf
<1>2. Newest(p) \in RowsOf(p)
  BY <1>1 DEF Newest
<1> QED
  BY <1>2 DEF RowsOf

-----------------------------------------------------------------------------
(* What the stores do.                                                     *)

\* The state of a purchase at its store before an event, and after it.
Before(event) ==
    CASE event = "bought"    -> {"none"}
      [] event = "recovered" -> {"failing"}
      [] event = "restarted" -> {"cancelled"}
      [] event = "ended"     -> {"cancelled", "failing"}
      [] OTHER               -> {"active"}

After(event) ==
    CASE event = "cancelled" -> "cancelled"
      [] event = "failed"    -> "failing"
      [] event = "refunded"  -> "refunded"
      [] event = "ended"     -> "ended"
      [] OTHER               -> "active"

\* The events that begin a period.
Charging == {"bought", "renewed", "recovered", "deferred"}

\* The store moves p with an event, about a period, and sends the next notification.
Moved(p, n) ==
    /\ n \in Notes /\ n.p = p /\ n.number = sent[p] + 1 /\ sent[p] < MaxNotes
    /\ store[p].state \in Before(n.event)
    /\ store' = [store EXCEPT ![p] = [state |-> After(n.event), period |-> n.period]]
    /\ sent' = [sent EXCEPT ![p] = @ + 1]
    /\ notes' = notes \cup {n}
    /\ IF n.event \in Charging
       THEN /\ n.period = IF n.event = "deferred" THEN store[p].period + 1 ELSE now + 1
            /\ n.event = "renewed" => store[p].period <= now
            /\ terms' = [terms EXCEPT ![p] = @ \cup {n.period}]
       ELSE /\ n.period = store[p].period
            /\ n.event = "failed" => store[p].period <= now
            /\ terms' = terms

LEMMA StoreMoves ==
    ASSUME Typed, NEW p \in Purchases, Store(p)
    PROVE  \E n : Moved(p, n)
<1>1. store[p] \in Stores /\ sent[p] \in Nat /\ now \in Nat /\ MaxTime \in Nat /\ MaxNotes \in Nat
  BY Bounds DEF Typed, Times
<1>2. store[p].state \in States /\ store[p].period \in Times
  BY <1>1 DEF Stores
<1>3. CASE Charge(p)
  <2> DEFINE event == CASE store[p].state = "none" -> "bought" [] store[p].state = "active" -> "renewed"
                        [] OTHER -> "recovered"
             n == [p |-> p, number |-> sent[p] + 1, event |-> event, period |-> now + 1]
  <2>1. /\ now < MaxTime /\ sent[p] < MaxNotes
        /\ store[p].state \in {"none", "active", "failing"}
        /\ store[p].state = "active" => store[p].period <= now
        /\ store' = [store EXCEPT ![p] = [state |-> "active", period |-> now + 1]]
        /\ terms' = [terms EXCEPT ![p] = @ \cup {now + 1}]
        /\ sent' = [sent EXCEPT ![p] = @ + 1]
        /\ notes' = notes \cup {n}
    BY <1>3 DEF Charge, Notify
  <2>2. now + 1 \in Times /\ sent[p] + 1 \in Numbers
    BY <1>1, <2>1 DEF Times, Numbers
  <2>3. event \in Charging /\ event # "deferred" /\ event \in StoreEvents /\ store[p].state \in Before(event)
        /\ After(event) = "active" /\ (event = "renewed" => store[p].state = "active")
    BY <2>1 DEF Charging, StoreEvents, Before, After
  <2> HIDE DEF event
  <2>4. n \in Notes /\ n.p = p /\ n.number = sent[p] + 1 /\ n.event = event /\ n.period = now + 1
    BY <2>2, <2>3 DEF Notes
  <2> QED
    BY <2>1, <2>3, <2>4 DEF Moved
<1>4. CASE Change(p)
  <2>1. PICK step \in StoreSteps :
           /\ store[p].state = step[1]
           /\ step[2] \in {"failed", "ended"} => store[p].period <= now
           /\ store' = [store EXCEPT ![p].state = step[3]]
           /\ Notify(p, step[2], store[p].period)
           /\ UNCHANGED terms
    BY <1>4 DEF Change
  <2> DEFINE n == [p |-> p, number |-> sent[p] + 1, event |-> step[2], period |-> store[p].period]
  <2>2. /\ sent[p] < MaxNotes
        /\ sent' = [sent EXCEPT ![p] = @ + 1]
        /\ notes' = notes \cup {n}
    BY <2>1 DEF Notify
  <2>3. /\ step[2] \in StoreEvents /\ step[2] \notin Charging
        /\ step[1] \in Before(step[2]) /\ After(step[2]) = step[3]
    BY DEF StoreSteps, StoreEvents, Charging, Before, After
  <2>4. store' = [store EXCEPT ![p] = [state |-> step[3], period |-> store[p].period]]
    <3>1. [store[p] EXCEPT !.state = step[3]] = [state |-> step[3], period |-> store[p].period]
      BY <1>1 DEF Stores
    <3>2. store' = [store EXCEPT ![p] = [store[p] EXCEPT !.state = step[3]]]
      BY <2>1
    <3> QED
      BY <3>1, <3>2
  <2>5. sent[p] + 1 \in Numbers
    BY <1>1, <2>2 DEF Numbers
  <2>6. n \in Notes /\ n.p = p /\ n.number = sent[p] + 1 /\ n.event = step[2] /\ n.period = store[p].period
    BY <1>2, <2>3, <2>5 DEF Notes
  <2> QED
    BY <2>1, <2>2, <2>3, <2>4, <2>6 DEF Moved
<1>5. CASE Defer(p)
  <2> DEFINE end == store[p].period + 1
             n == [p |-> p, number |-> sent[p] + 1, event |-> "deferred", period |-> end]
  <2>1. /\ end <= MaxTime /\ sent[p] < MaxNotes /\ store[p].state = "active"
        /\ store' = [store EXCEPT ![p].period = end]
        /\ terms' = [terms EXCEPT ![p] = @ \cup {end}]
        /\ sent' = [sent EXCEPT ![p] = @ + 1]
        /\ notes' = notes \cup {n}
    BY <1>5 DEF Defer, Notify
  <2>2. end \in Times /\ sent[p] + 1 \in Numbers
    BY <1>1, <1>2, <2>1 DEF Times, Numbers
  <2>3. store' = [store EXCEPT ![p] = [state |-> "active", period |-> end]]
    <3>1. [store[p] EXCEPT !.period = end] = [state |-> store[p].state, period |-> end]
      BY <1>1 DEF Stores
    <3>2. store' = [store EXCEPT ![p] = [store[p] EXCEPT !.period = end]]
      BY <2>1
    <3> QED
      BY <2>1, <3>1, <3>2
  <2> HIDE DEF end
  <2>4. /\ "deferred" \in Charging /\ "deferred" \in StoreEvents
        /\ Before("deferred") = {"active"} /\ After("deferred") = "active"
    BY DEF Charging, StoreEvents, Before, After
  <2>5. n \in Notes /\ n.p = p /\ n.number = sent[p] + 1 /\ n.event = "deferred" /\ n.period = end
    BY <2>2, <2>4 DEF Notes
  <2>6. end = store[p].period + 1
    BY DEF end
  <2> QED
    BY <2>1, <2>3, <2>4, <2>5, <2>6 DEF Moved
<1> QED
  BY <1>3, <1>4, <1>5 DEF Store

LEMMA StoreTyped ==
    ASSUME Typed, RowsThere, NEW p \in Purchases, Store(p)
    PROVE  Typed' /\ RowsThere'
<1>1. PICK n : Moved(p, n)
  BY StoreMoves
<1>2. UNCHANGED <<apple, now, tables, hook, client, job, repeats, faults, history>>
  BY DEF Store
<1>3. store' \in [Purchases -> Stores]
  <2>1. After(n.event) \in States /\ n.period \in Times
    BY <1>1, NoteFields DEF Moved, After, States
  <2> QED
    BY <1>1, <2>1 DEF Moved, Typed, Stores
<1>4. terms' \in [Purchases -> SUBSET Times] /\ sent' \in [Purchases -> Nat] /\ notes' \subseteq Notes
  <2>1. n.period \in Times
    BY <1>1, NoteFields DEF Moved
  <2>2. terms' \in [Purchases -> SUBSET Times]
    <3>1. CASE n.event \in Charging
      <4>1. terms' = [terms EXCEPT ![p] = @ \cup {n.period}] /\ n.period \in Times
        BY <1>1, <2>1, <3>1 DEF Moved
      <4>2. terms \in [Purchases -> SUBSET Times] /\ terms[p] \cup {n.period} \in SUBSET Times
        BY <4>1 DEF Typed
      <4> QED
        BY <4>1, <4>2
    <3>2. CASE n.event \notin Charging
      BY <1>1, <3>2 DEF Moved, Typed
    <3> QED
      BY <3>1, <3>2
  <2>3. sent' \in [Purchases -> Nat] /\ notes' \subseteq Notes
    BY <1>1 DEF Moved, Typed
  <2> QED
    BY <2>2, <2>3
<1> QED
  BY <1>2, <1>3, <1>4 DEF Typed, RowsThere, tables, history

-----------------------------------------------------------------------------
(* Types.                                                                  *)

\* One row more, and rows in the place of others, name the same rows.
LEMMA RowsGrow ==
    ASSUME Typed, NEW row \in Rows, rows' = Append(rows, row)
    PROVE  /\ rows' \in Seq(Rows)
           /\ Len(rows') = Len(rows) + 1
           /\ DOMAIN rows' = DOMAIN rows \cup {Len(rows) + 1}
           /\ \A i \in DOMAIN rows : rows'[i] = rows[i]
           /\ rows'[Len(rows) + 1] = row
           /\ Len(rows) + 1 \notin DOMAIN rows
<1>1. rows \in Seq(Rows)
  BY DEF Typed
<1>2. Len(rows) \in Nat /\ DOMAIN rows = 1 .. Len(rows)
  BY RowFields
<1>3. rows' \in Seq(Rows) /\ Len(rows') = Len(rows) + 1
      /\ (\A i \in 1 .. Len(rows) : rows'[i] = rows[i]) /\ rows'[Len(rows) + 1] = row
  BY <1>1, <1>2, AppendProperties
<1>4. DOMAIN rows' = 1 .. Len(rows')
  BY <1>3, LenProperties
<1> QED
  BY <1>2, <1>3, <1>4

LEMMA VerifyTyped ==
    ASSUME Typed, RowsThere, NEW c \in Clients, NEW p \in Purchases, VerifyPurchase(c, p)
    PROVE  Typed' /\ RowsThere'
<1>1. PICK end \in Shown(p) : client' = [client EXCEPT ![c] = [p |-> p, end |-> end]]
  BY DEF VerifyPurchase
<1>2. end \in Times
  <2>1. terms[p] \subseteq Times /\ store[p].period \in Times
    BY DEF Typed, Stores
  <2> QED
    BY <2>1 DEF Shown
<1>3. client' \in [Clients -> {Idle} \cup Claiming]
  BY <1>1, <1>2 DEF Typed, Claiming
<1>4. excused' \subseteq Purchases /\ unmetered' \subseteq Purchases
  BY DEF VerifyPurchase, Typed
<1>5. UNCHANGED <<stores, notes, tables, hook, job, repeats, faults, last>>
  BY DEF VerifyPurchase
<1> QED
  BY <1>3, <1>4, <1>5 DEF Typed, RowsThere, stores, tables

\* A count that goes up at k.
LEMMA CountedUp ==
    ASSUME NEW S, NEW f \in [S -> Nat], NEW k \in S
    PROVE  LET g == [f EXCEPT ![k] = @ + 1]
           IN g \in [S -> Nat] /\ g[k] = f[k] + 1 /\ \A x \in S \ {k} : g[x] = f[x]
<1>1. f[k] \in Nat /\ f[k] + 1 \in Nat
  OBVIOUS
<1> QED
  BY <1>1

\* What handleInitialPurchase commits.
LEMMA InitialCommits ==
    ASSUME Typed, NEW c \in Clients, HandleInitialPurchase(c)
    PROVE  LET p   == client[c].p
               k   == <<p, <<"transaction", client[c].end>>>>
               row == [p |-> p, status |-> "ACTIVE", end |-> client[c].end, renews |-> TRUE]
           IN /\ client[c] # Idle /\ p \in Purchases /\ k \in EventIds
              /\ row \in Rows /\ row.p = p /\ row.status = "ACTIVE" /\ row.end = client[c].end
              /\ rows' = Append(rows, row)
              /\ log' = IF p \in apple THEN [log EXCEPT ![k] = @ + 1] ELSE log
              /\ grants' = [grants EXCEPT ![p] = @ + 1]
              /\ client' = [client EXCEPT ![c] = Idle]
<1>1. client[c] # Idle /\ client[c].p \in Purchases /\ client[c].end \in Times
  BY ClientFields DEF HandleInitialPurchase
<1>2. <<client[c].p, <<"transaction", client[c].end>>>> \in EventIds
  BY <1>1 DEF EventIds
<1>3. [p |-> client[c].p, status |-> "ACTIVE", end |-> client[c].end, renews |-> TRUE] \in Rows
  BY <1>1 DEF Rows, Statuses
<1> QED
  BY <1>1, <1>2, <1>3 DEF HandleInitialPurchase

LEMMA InitialTyped ==
    ASSUME Typed, RowsThere, NEW c \in Clients, HandleInitialPurchase(c)
    PROVE  Typed' /\ RowsThere'
<1>1. rows' \in Seq(Rows) /\ DOMAIN rows \subseteq DOMAIN rows'
  BY InitialCommits, RowsGrow
<1>2. log' \in [EventIds -> Nat] /\ grants' \in [Purchases -> Nat]
  <2> DEFINE k == <<client[c].p, <<"transaction", client[c].end>>>>
  <2>1. /\ k \in EventIds /\ client[c].p \in Purchases
        /\ log' = IF client[c].p \in apple THEN [log EXCEPT ![k] = @ + 1] ELSE log
        /\ grants' = [grants EXCEPT ![client[c].p] = @ + 1]
    BY InitialCommits
  <2>2. log \in [EventIds -> Nat] /\ grants \in [Purchases -> Nat]
    BY DEF Typed
  <2> HIDE DEF k
  <2>3. [log EXCEPT ![k] = @ + 1] \in [EventIds -> Nat]
        /\ [grants EXCEPT ![client[c].p] = @ + 1] \in [Purchases -> Nat]
    BY <2>1, <2>2, CountedUp
  <2> QED
    BY <2>1, <2>2, <2>3
<1>4. client' \in [Clients -> {Idle} \cup Claiming]
  BY InitialCommits DEF Typed
<1>5. UNCHANGED <<stores, notes, hook, job, repeats, faults, history>>
  BY DEF HandleInitialPurchase
<1> QED
  BY <1>1, <1>2, <1>4, <1>5 DEF Typed, RowsThere, stores, history

LEMMA Delivered ==
    ASSUME Typed, NEW n \in notes, Deliver(n)
    PROVE  /\ n \in Notes /\ n.p \in Purchases /\ n.number \in Nat /\ n.number >= 1
           /\ notes' = notes \/ notes' = notes \ {n}
           /\ repeats' \in Nat /\ notes' \subseteq Notes
           /\ last' \in [Purchases -> Nat]
           /\ last'[n.p] = IF n.number > last[n.p] THEN n.number ELSE last[n.p]
           /\ \A p \in Purchases \ {n.p} : last'[p] = last[p]
<1>1. n \in Notes
  BY DEF Typed
<1>2. n.p \in Purchases /\ n.number \in Nat /\ n.number >= 1
  BY <1>1, NoteFields, Bounds DEF Numbers
<1>3. notes' = notes \/ notes' = notes \ {n}
  BY DEF Deliver
<1>4. repeats' \in Nat
  BY DEF Deliver, Typed
<1>5. last' = [last EXCEPT ![n.p] = IF n.number > @ THEN n.number ELSE @] /\ last \in [Purchases -> Nat]
  BY DEF Deliver, Typed
<1> QED
  BY <1>1, <1>2, <1>3, <1>4, <1>5 DEF Typed

LEMMA JobOf ==
    ASSUME Typed, NEW n \in Notes, RowsOf(n.p) # {}
    PROVE  /\ Job(n) \in Handling /\ Job(n) # Idle
           /\ Job(n).note = n /\ Job(n).row = Newest(n.p)
           /\ Job(n).end = IF n.p \in apple THEN n.period ELSE store[n.p].period
<1>1. Newest(n.p) \in DOMAIN rows /\ DOMAIN rows \subseteq Nat
  BY NewestRow, RowFields
<1>2. n.p \in Purchases /\ n.period \in Times /\ store[n.p].period \in Times
  BY NoteFields DEF Typed, Stores
<1>3. Job(n) \in Handling
  BY <1>1, <1>2 DEF Job, Handling
<1> QED
  BY <1>3, IdleApart DEF Job

LEMMA ReadsTyped ==
    ASSUME Typed, RowsThere, NEW h \in Hooks, NEW n \in notes, HookReads(h, n)
    PROVE  Typed' /\ RowsThere'
<1>1. Deliver(n) /\ RowsOf(n.p) # {} /\ hook' = [hook EXCEPT ![h] = Job(n)]
  BY DEF HookReads, Applies
<1>2. /\ n \in Notes /\ n.p \in Purchases /\ repeats' \in Nat /\ notes' \subseteq Notes
      /\ last' \in [Purchases -> Nat]
  BY <1>1, Delivered
<1>3. Job(n) \in Handling /\ Job(n).row \in DOMAIN rows
  BY <1>1, <1>2, JobOf, NewestRow
<1>4. hook' \in [Hooks -> {Idle} \cup Handling]
  BY <1>1, <1>3 DEF Typed
<1>5. \A g \in Hooks : hook'[g] # Idle => hook'[g].row \in DOMAIN rows
  BY <1>1, <1>3 DEF Typed, RowsThere
<1>6. excused' \subseteq Purchases /\ unmetered' \subseteq Purchases
  BY <1>2 DEF HookReads, Typed
<1>7. UNCHANGED <<stores, tables, client, job, faults>>
  BY DEF HookReads
<1> QED
  BY <1>2, <1>4, <1>5, <1>6, <1>7 DEF Typed, RowsThere, stores, tables

LEMMA DropsTyped ==
    ASSUME Typed, RowsThere, NEW n \in notes, HookDrops(n)
    PROVE  Typed' /\ RowsThere'
<1>1. Deliver(n)
  BY DEF HookDrops
<1>2. /\ n \in Notes /\ n.p \in Purchases /\ repeats' \in Nat /\ notes' \subseteq Notes
      /\ last' \in [Purchases -> Nat]
  BY <1>1, Delivered
<1>3. excused' \subseteq Purchases
  BY <1>2 DEF HookDrops, Typed
<1>4. UNCHANGED <<stores, tables, hook, client, job, faults, unmetered>>
  BY DEF HookDrops
<1> QED
  BY <1>2, <1>3, <1>4 DEF Typed, RowsThere, stores, tables

\* What a handler commits, for a note that is not about the initial purchase.
LEMMA HookWrites ==
    ASSUME Typed, RowsThere, NEW h \in Hooks, HookCommits(h), hook[h].note.event # "bought"
    PROVE  LET n    == hook[h].note
               type == EventType(n.p, n.event)
               i    == hook[h].row
           IN /\ hook[h] # Idle /\ n \in Notes /\ i \in DOMAIN rows
              /\ Updated(rows[i], type, hook[h].end) \in Rows
              /\ rows' \in Seq(Rows) /\ DOMAIN rows' = DOMAIN rows
              /\ \A j \in DOMAIN rows : j # i => rows'[j] = rows[j]
              /\ rows'[i] = Updated(rows[i], type, hook[h].end)
              /\ log' = IF type = "EXPIRY" THEN log ELSE [log EXCEPT ![Key(n)] = @ + 1]
              /\ grants' = IF type \in {"RENEWAL", "BILLING_RECOVERY"}
                           THEN [grants EXCEPT ![n.p] = @ + 1] ELSE grants
              /\ hook' = [hook EXCEPT ![h] = Idle]
<1> DEFINE n    == hook[h].note
           type == EventType(n.p, n.event)
           i    == hook[h].row
           new  == Updated(rows[i], type, hook[h].end)
<1>1. hook[h] # Idle /\ n \in Notes /\ hook[h].end \in Times /\ i \in DOMAIN rows
  BY HookFields DEF HookCommits, RowsThere
<1>2. type \in {"RENEWAL", "BILLING_RECOVERY", "CANCELLATION",
                "GRACE_PERIOD_ENTERED", "REVOCATION", "EXPIRY"}
  BY <1>1, EventTypes, NoteFields
<1>3. rows[i] \in Rows
  BY <1>1, RowFields
<1>4. new \in Rows
  BY <1>1, <1>2, <1>3, UpdatedRow
<1>5. rows' = [rows EXCEPT ![i] = new]
  BY DEF HookCommits
<1>6. /\ log' = IF type = "EXPIRY" THEN log ELSE [log EXCEPT ![Key(n)] = @ + 1]
      /\ grants' = IF type \in {"RENEWAL", "BILLING_RECOVERY"}
                   THEN [grants EXCEPT ![n.p] = @ + 1] ELSE grants
      /\ hook' = [hook EXCEPT ![h] = Idle]
  BY DEF HookCommits
<1> HIDE DEF n, type, i, new
<1>7. rows \in Seq(Rows) /\ DOMAIN rows = 1 .. Len(rows)
  BY RowFields DEF Typed
<1>8. rows' \in Seq(Rows) /\ DOMAIN rows' = DOMAIN rows
  <2>1. [rows EXCEPT ![i] = new] \in Seq(Rows) /\ Len([rows EXCEPT ![i] = new]) = Len(rows)
    BY <1>1, <1>4, <1>7, ExceptSeq
  <2> QED
    BY <1>5, <2>1
<1>9. rows'[i] = new /\ \A j \in DOMAIN rows : j # i => rows'[j] = rows[j]
  BY <1>1, <1>5
<1> QED
  BY <1>1, <1>4, <1>6, <1>8, <1>9 DEF n, type, i, new

LEMMA CommitsTyped ==
    ASSUME Typed, RowsThere, NEW h \in Hooks, HookCommits(h), hook[h].note.event # "bought"
    PROVE  Typed' /\ RowsThere'
<1>1. hook[h] # Idle /\ hook[h].note \in Notes /\ rows' \in Seq(Rows) /\ DOMAIN rows' = DOMAIN rows
  BY HookWrites
<1>2. Key(hook[h].note) \in EventIds /\ hook[h].note.p \in Purchases
  BY <1>1, Keys, NoteFields
<1>3. log \in [EventIds -> Nat] /\ grants \in [Purchases -> Nat]
  BY DEF Typed
<1>4. [log EXCEPT ![Key(hook[h].note)] = @ + 1] \in [EventIds -> Nat]
      /\ [grants EXCEPT ![hook[h].note.p] = @ + 1] \in [Purchases -> Nat]
  BY <1>2, <1>3, CountedUp
<1>5. log' \in [EventIds -> Nat] /\ grants' \in [Purchases -> Nat]
  BY <1>3, <1>4 DEF HookCommits
<1>6. hook' = [hook EXCEPT ![h] = Idle] /\ UNCHANGED <<stores, notes, client, job, repeats, faults, history>>
  BY DEF HookCommits
<1>7. hook' \in [Hooks -> {Idle} \cup Handling]
      /\ \A g \in Hooks : hook'[g] # Idle => hook'[g].row \in DOMAIN rows
  BY <1>6 DEF Typed, RowsThere
<1> QED
  BY <1>1, <1>5, <1>6, <1>7 DEF Typed, RowsThere, stores, history

LEMMA FailsTyped ==
    ASSUME Typed, RowsThere, NEW h \in Hooks, HookFails(h)
    PROVE  Typed' /\ RowsThere'
<1>1. hook' = [hook EXCEPT ![h] = Idle] /\ excused' = excused \cup {hook[h].note.p}
      /\ hook[h] # Idle /\ faults' \in Nat
  BY DEF HookFails, Fault, Typed
<1>2. hook[h].note.p \in Purchases
  BY <1>1, HookFields, NoteFields
<1>3. hook' \in [Hooks -> {Idle} \cup Handling]
      /\ \A g \in Hooks : hook'[g] # Idle => hook'[g].row \in DOMAIN rows
  BY <1>1 DEF Typed, RowsThere
<1>4. UNCHANGED <<stores, notes, tables, client, job, repeats, last, unmetered>>
  BY DEF HookFails
<1> QED
  BY <1>1, <1>2, <1>3, <1>4 DEF Typed, RowsThere, stores, tables

\* What the job commits.
LEMMA JobWrites ==
    ASSUME Typed, RowsThere, JobCommits
    PROVE  /\ rows' \in Seq(Rows) /\ DOMAIN rows' = DOMAIN rows
           /\ job # Idle /\ job.rows \subseteq DOMAIN rows
           /\ \A i \in DOMAIN rows :
                 /\ rows'[i].p = rows[i].p /\ rows'[i].end = rows[i].end
                 /\ rows'[i].status = IF i \in job.rows THEN "EXPIRED" ELSE rows[i].status
<1>1. Len(rows) \in Nat /\ DOMAIN rows = 1 .. Len(rows)
  BY RowFields
<1>2. rows' = [i \in 1 .. Len(rows) |-> IF i \in job.rows THEN [rows[i] EXCEPT !.status = "EXPIRED"]
                                        ELSE rows[i]]
  BY <1>1 DEF JobCommits
<1>3. ASSUME NEW i \in DOMAIN rows
      PROVE  /\ rows'[i] \in Rows /\ rows'[i].p = rows[i].p /\ rows'[i].end = rows[i].end
             /\ rows'[i].status = IF i \in job.rows THEN "EXPIRED" ELSE rows[i].status
  <2>1. rows[i] \in Rows
    BY RowFields
  <2>2. CASE i \in job.rows
    <3>1. rows'[i] = [rows[i] EXCEPT !.status = "EXPIRED"]
      BY <1>1, <1>2, <2>2
    <3> QED
      BY <2>1, <2>2, <3>1 DEF Rows, Statuses
  <2>3. CASE i \notin job.rows
    BY <1>1, <1>2, <2>1, <2>3
  <2> QED
    BY <2>2, <2>3
<1>4. rows' \in Seq(Rows)
  BY <1>1, <1>2, <1>3, IsASeq
<1> QED
  BY <1>1, <1>2, <1>3, <1>4 DEF JobCommits, RowsThere

LEMMA JobTyped ==
    ASSUME Typed, RowsThere, JobReads \/ JobCommits \/ JobFails
    PROVE  Typed' /\ RowsThere'
<1>1. CASE JobReads
  <2> DEFINE due == {i \in DOMAIN rows : Lapsed(i)}
  <2>1. job' = [rows |-> due] /\ UNCHANGED <<stores, notes, tables, hook, client, repeats, faults, history>>
    BY <1>1 DEF JobReads
  <2>2. due \subseteq DOMAIN rows /\ due \in SUBSET Nat
    BY RowFields
  <2> HIDE DEF due
  <2>3. job' \in Expiring /\ job'.rows \subseteq DOMAIN rows
    BY <2>1, <2>2 DEF Expiring
  <2> QED
    BY <2>1, <2>3 DEF Typed, RowsThere, stores, tables, history
<1>2. CASE JobCommits
  <2>1. rows' \in Seq(Rows) /\ DOMAIN rows' = DOMAIN rows /\ job.rows \subseteq DOMAIN rows
    BY <1>2, JobWrites
  <2>2. /\ excused' = excused \cup {rows[i].p : i \in {j \in job.rows : ~Lapsed(j)}}
        /\ job' = Idle
        /\ UNCHANGED <<stores, notes, log, grants, hook, client, repeats, faults, last, unmetered>>
    BY <1>2 DEF JobCommits
  <2>3. excused' \subseteq Purchases
    BY <2>1, <2>2, RowFields DEF Typed
  <2> QED
    BY <2>1, <2>2, <2>3 DEF Typed, RowsThere, stores
<1>3. CASE JobFails
  BY <1>3 DEF JobFails, Fault, Typed, RowsThere, stores, tables, history
<1> QED
  BY <1>1, <1>2, <1>3

LEMMA TickTyped ==
    ASSUME Typed, RowsThere, Tick
    PROVE  Typed' /\ RowsThere'
<1>1. now' \in Times
  BY Bounds DEF Tick, Typed, Times
<1> QED
  BY <1>1 DEF Tick, Typed, RowsThere, tables, history

\* Nothing is to be done for an initial purchase that is notified.
NoneBought == \A h \in Hooks : hook[h] # Idle => hook[h].note.event # "bought"

Basics == Typed /\ RowsThere /\ NoneBought

LEMMA BasicsStart == Init => Basics
<1> SUFFICES ASSUME Init PROVE Basics
  OBVIOUS
<1>1. rows \in Seq(Rows)
  BY EmptySeq DEF Init
<1>2. 0 \in Times
  BY Bounds DEF Times
<1>3. Typed
  BY <1>1, <1>2 DEF Init, Typed, Stores, States
<1>4. RowsThere /\ NoneBought
  BY DEF Init, RowsThere, NoneBought
<1> QED
  BY <1>3, <1>4 DEF Basics

LEMMA BasicsStep ==
    ASSUME Basics, [Next]_vars
    PROVE  Basics'
<1> USE DEF Basics
<1>1. ASSUME UNCHANGED hook \/ \E h \in Hooks : hook' = [hook EXCEPT ![h] = Idle]
      PROVE  NoneBought'
  BY <1>1 DEF NoneBought, Typed
<1>2. ASSUME NEW p \in Purchases, Store(p) PROVE Basics'
  BY <1>1, <1>2, StoreTyped DEF Store
<1>3. CASE Tick
  BY <1>1, <1>3, TickTyped DEF Tick
<1>4. ASSUME NEW c \in Clients, NEW p \in Purchases, VerifyPurchase(c, p) PROVE Basics'
  BY <1>1, <1>4, VerifyTyped DEF VerifyPurchase
<1>5. ASSUME NEW c \in Clients, HandleInitialPurchase(c) PROVE Basics'
  BY <1>1, <1>5, InitialTyped DEF HandleInitialPurchase
<1>6. ASSUME NEW n \in notes, HookDrops(n) PROVE Basics'
  BY <1>1, <1>6, DropsTyped DEF HookDrops
<1>7. ASSUME NEW n \in notes, NEW h \in Hooks, HookReads(h, n) PROVE Basics'
  <2>1. hook' = [hook EXCEPT ![h] = Job(n)] /\ n \in Notes /\ RowsOf(n.p) # {}
        /\ EventType(n.p, n.event) # "INITIAL_PURCHASE"
    BY <1>7 DEF HookReads, Applies, Typed
  <2>2. Job(n).note = n /\ n.event # "bought"
    BY <2>1, JobOf, EventTypes, NoteFields
  <2>3. NoneBought'
    BY <2>1, <2>2 DEF NoneBought, Typed
  <2> QED
    BY <1>7, <2>3, ReadsTyped
<1>8. ASSUME NEW h \in Hooks, HookCommits(h) PROVE Basics'
  <2>1. hook[h].note.event # "bought"
    BY <1>8 DEF HookCommits, NoneBought
  <2> QED
    BY <1>1, <1>8, <2>1, CommitsTyped DEF HookCommits
<1>9. ASSUME NEW h \in Hooks, HookFails(h) PROVE Basics'
  BY <1>1, <1>9, FailsTyped DEF HookFails
<1>10. CASE JobReads \/ JobCommits \/ JobFails
  BY <1>1, <1>10, JobTyped DEF JobReads, JobCommits, JobFails
<1>11. CASE UNCHANGED vars
  BY <1>11 DEF vars, stores, tables, history, Typed, RowsThere, NoneBought
<1> QED
  BY <1>2, <1>3, <1>4, <1>5, <1>6, <1>7, <1>8, <1>9, <1>10, <1>11 DEF Next

\* The notes that give a row a new end.
Extending == {"renewed", "deferred", "recovered", "restarted"}

\* What a handler commits, by the note.
LEMMA HookEffect ==
    ASSUME Basics, NEW h \in Hooks, HookCommits(h)
    PROVE  LET n == hook[h].note
               i == hook[h].row
           IN /\ hook[h] # Idle /\ n \in Notes /\ n.event # "bought" /\ i \in DOMAIN rows
              /\ DOMAIN rows' = DOMAIN rows
              /\ \A j \in DOMAIN rows : j # i => rows'[j] = rows[j]
              /\ rows'[i].p = rows[i].p
              /\ rows'[i].end = IF n.event \in Extending THEN hook[h].end ELSE rows[i].end
              /\ n.event \in Extending => rows'[i].status = "ACTIVE"
              /\ n.event = "cancelled" => rows'[i].status = rows[i].status
              /\ n.event = "failed" => rows'[i].status = "GRACE_PERIOD"
              /\ n.event = "refunded" => rows'[i].status = "REVOKED"
              /\ n.event \in {"ended", "other"} => rows'[i].status = "EXPIRED"
              /\ log' = IF n.event \in {"ended", "other"} THEN log ELSE [log EXCEPT ![Key(n)] = @ + 1]
              /\ grants' = IF n.event \in Extending THEN [grants EXCEPT ![n.p] = @ + 1] ELSE grants
              /\ hook' = [hook EXCEPT ![h] = Idle]
<1>1. PICK n : n = hook[h].note
  OBVIOUS
<1>2. PICK i : i = hook[h].row
  OBVIOUS
<1>3. PICK type : type = EventType(n.p, n.event)
  OBVIOUS
<1>4. hook[h] # Idle /\ n \in Notes /\ n.event # "bought" /\ hook[h].end \in Times /\ i \in DOMAIN rows
  BY <1>1, <1>2, HookFields DEF HookCommits, Basics, NoneBought, RowsThere
<1>5. /\ DOMAIN rows' = DOMAIN rows
      /\ \A j \in DOMAIN rows : j # i => rows'[j] = rows[j]
      /\ rows'[i] = Updated(rows[i], type, hook[h].end)
      /\ log' = IF type = "EXPIRY" THEN log ELSE [log EXCEPT ![Key(n)] = @ + 1]
      /\ grants' = IF type \in {"RENEWAL", "BILLING_RECOVERY"}
                   THEN [grants EXCEPT ![n.p] = @ + 1] ELSE grants
      /\ hook' = [hook EXCEPT ![h] = Idle]
  BY <1>1, <1>2, <1>3, <1>4, HookWrites DEF Basics
<1>6. n.event \in StoreEvents /\ rows[i] \in Rows
  BY <1>4, NoteFields, RowFields DEF Basics
<1>7. /\ type \in {"RENEWAL", "BILLING_RECOVERY", "CANCELLATION",
                   "GRACE_PERIOD_ENTERED", "REVOCATION", "EXPIRY"}
      /\ type \in {"RENEWAL", "BILLING_RECOVERY"} <=> n.event \in Extending
      /\ type = "CANCELLATION" <=> n.event = "cancelled"
      /\ type = "GRACE_PERIOD_ENTERED" <=> n.event = "failed"
      /\ type = "REVOCATION" <=> n.event = "refunded"
      /\ type = "EXPIRY" <=> n.event \in {"ended", "other"}
  BY <1>3, <1>4, <1>6, EventTypes DEF Extending
<1>8. /\ rows'[i].p = rows[i].p
      /\ rows'[i].end = IF n.event \in Extending THEN hook[h].end ELSE rows[i].end
      /\ n.event \in Extending => rows'[i].status = "ACTIVE"
      /\ n.event = "cancelled" => rows'[i].status = rows[i].status
      /\ n.event = "failed" => rows'[i].status = "GRACE_PERIOD"
      /\ n.event = "refunded" => rows'[i].status = "REVOKED"
      /\ n.event \in {"ended", "other"} => rows'[i].status = "EXPIRED"
  <2>1. CASE type \in {"RENEWAL", "BILLING_RECOVERY"}
    <3>1. rows'[i] = [rows[i] EXCEPT !.status = "ACTIVE", !.end = hook[h].end]
      BY <1>5, <2>1 DEF Updated
    <3> QED
      BY <1>6, <1>7, <2>1, <3>1 DEF Rows, Extending
  <2>2. CASE type = "CANCELLATION"
    <3>1. rows'[i] = [rows[i] EXCEPT !.renews = FALSE]
      BY <1>5, <2>2 DEF Updated
    <3> QED
      BY <1>6, <1>7, <2>2, <3>1 DEF Rows, Extending
  <2>3. CASE type = "GRACE_PERIOD_ENTERED"
    <3>1. rows'[i] = [rows[i] EXCEPT !.status = "GRACE_PERIOD"]
      BY <1>5, <2>3 DEF Updated
    <3> QED
      BY <1>6, <1>7, <2>3, <3>1 DEF Rows, Extending
  <2>4. CASE type = "REVOCATION"
    <3>1. rows'[i] = [rows[i] EXCEPT !.status = "REVOKED"]
      BY <1>5, <2>4 DEF Updated
    <3> QED
      BY <1>6, <1>7, <2>4, <3>1 DEF Rows, Extending
  <2>5. CASE type = "EXPIRY"
    <3>1. rows'[i] = [rows[i] EXCEPT !.status = "EXPIRED"]
      BY <1>5, <2>5 DEF Updated
    <3> QED
      BY <1>6, <1>7, <2>5, <3>1 DEF Rows, Extending
  <2> QED
    BY <1>7, <2>1, <2>2, <2>3, <2>4, <2>5
<1> QED
  BY <1>1, <1>2, <1>4, <1>5, <1>7, <1>8

-----------------------------------------------------------------------------
(* What the stores have charged and told.                                  *)

AtWork == {h \in Hooks : hook[h] # Idle}

\* Notifications to be delivered or being handled.
Known == notes \cup {hook[h].note : h \in AtWork}

\* A note of a further period.
Charges(n) == n.event \in {"renewed", "recovered", "deferred"}

StoreSound(p) ==
    /\ sent[p] = 0 <=> store[p].state = "none"
    /\ sent[p] = 0 => terms[p] = {} /\ store[p].period = 0
    /\ sent[p] = 1 => store[p].state = "active"
    /\ sent[p] > 0 => store[p].period \in terms[p]
    /\ \A k \in terms[p] : 0 < k /\ k <= store[p].period
    /\ store[p].state = "failing" => store[p].period <= now

NoteSound(n) ==
    /\ n.number <= sent[n.p]
    /\ n.period \in terms[n.p]
    /\ n.event = "bought" <=> n.number = 1
    /\ n.number = 2 => "active" \in Before(n.event)
    /\ Charges(n) => \E k \in terms[n.p] : k < n.period
    /\ n.number = sent[n.p] => store[n.p].state = After(n.event)

\* Notes of a purchase tell one story, and a period is begun once.
Linked(n, m) ==
    n.p = m.p =>
       /\ n.number = m.number => n = m
       /\ n.number + 1 = m.number => After(n.event) \in Before(m.event)
       /\ Charges(n) /\ Charges(m) /\ n.period = m.period => n = m

StoresSound ==
    /\ \A p \in Purchases : StoreSound(p)
    /\ \A n \in Known : NoteSound(n)
    /\ \A n, m \in Known : Linked(n, m)

LEMMA KnownNotes ==
    ASSUME Typed
    PROVE  Known \subseteq Notes
BY HookFields DEF Known, AtWork, Typed

LEMMA BeforeAfter ==
    ASSUME NEW event \in StoreEvents
    PROVE  /\ After(event) # "none"
           /\ "none" \in Before(event) <=> event = "bought"
           /\ event = "bought" => Before(event) = {"none"} /\ After(event) = "active"
           /\ event \in {"renewed", "deferred"} => Before(event) = {"active"}
           /\ event = "recovered" => Before(event) = {"failing"}
           /\ After(event) = "failing" <=> event = "failed"
           /\ event \in Charging => After(event) = "active"
BY DEF Before, After, Charging, StoreEvents

LEMMA ChargedOnce ==
    ASSUME Typed, StoresSound, NEW p \in Purchases, NEW n, Moved(p, n), now' = now
    PROVE  /\ StoreSound(p)'
           /\ NoteSound(n)'
           /\ n.event \in Charging => \A k \in terms[p] : k < n.period
<1>1. /\ n \in Notes /\ n.p = p /\ n.number = sent[p] + 1 /\ store[p].state \in Before(n.event)
      /\ store'[p] = [state |-> After(n.event), period |-> n.period]
      /\ sent'[p] = sent[p] + 1
  BY DEF Moved, Typed
<1>2. StoreSound(p) /\ sent[p] \in Nat /\ now \in Nat /\ n.period \in Nat /\ store[p].period \in Nat
      /\ terms[p] \subseteq Nat /\ n.event \in StoreEvents
  BY <1>1, Bounds, NoteFields DEF StoresSound, Typed, Times, Stores
<1>3. store'[p].state = After(n.event) /\ store'[p].period = n.period
  BY <1>1
<1>4. n.event = "bought" <=> sent[p] = 0
  BY <1>1, <1>2, BeforeAfter DEF StoreSound
<1>5. CASE n.event \in Charging
  <2>1. /\ n.period = IF n.event = "deferred" THEN store[p].period + 1 ELSE now + 1
        /\ terms'[p] = terms[p] \cup {n.period}
        /\ (n.event = "renewed" => store[p].period <= now)
    BY <1>5 DEF Moved, Typed
  <2>2. n.event = "recovered" => store[p].period <= now
    BY <1>1, <1>2, BeforeAfter DEF StoreSound
  <2>3. \A k \in terms[p] : k < n.period
    BY <1>2, <1>4, <1>5, <2>1, <2>2 DEF StoreSound, Charging
  <2>4. After(n.event) = "active"
    BY <1>2, <1>5, BeforeAfter
  <2>5. StoreSound(p)'
    BY <1>1, <1>2, <1>3, <2>1, <2>3, <2>4 DEF StoreSound
  <2>6. Charges(n) => store[p].period \in terms[p]
    BY <1>2, <1>4 DEF StoreSound, Charges
  <2>7. sent[p] = 1 => "active" \in Before(n.event)
    BY <1>1, <1>2 DEF StoreSound
  <2>8. NoteSound(n)'
    BY <1>1, <1>2, <1>3, <1>4, <2>1, <2>3, <2>6, <2>7 DEF NoteSound, Charges
  <2> QED
    BY <2>3, <2>5, <2>8
<1>6. CASE n.event \notin Charging
  <2>1. n.period = store[p].period /\ terms'[p] = terms[p] /\ (n.event = "failed" => store[p].period <= now)
    BY <1>6 DEF Moved
  <2>2. sent[p] > 0 /\ store[p].period \in terms[p]
    BY <1>2, <1>4, <1>6 DEF StoreSound, Charging
  <2>3. sent[p] = 1 => "active" \in Before(n.event)
    BY <1>1, <1>2 DEF StoreSound
  <2>4. NoteSound(n)'
    BY <1>1, <1>2, <1>3, <1>4, <1>6, <2>1, <2>2, <2>3 DEF NoteSound, Charges, Charging
  <2>5. StoreSound(p)'
    <3>1. n.event = "failed" <=> After(n.event) = "failing"
      BY <1>2, BeforeAfter
    <3>2. After(n.event) # "none"
      BY <1>2, BeforeAfter
    <3> QED
      BY <1>1, <1>2, <1>3, <2>1, <2>2, <3>1, <3>2 DEF StoreSound
  <2> QED
    BY <1>6, <2>4, <2>5
<1> QED
  BY <1>5, <1>6

LEMMA StoresStep ==
    ASSUME Typed, StoresSound, NEW p \in Purchases, Store(p)
    PROVE  StoresSound'
<1>1. PICK n : Moved(p, n)
  BY StoreMoves
<1>2. UNCHANGED <<now, hook>>
  BY DEF Store
<1>3. /\ StoreSound(p)' /\ NoteSound(n)'
      /\ n.event \in Charging => \A k \in terms[p] : k < n.period
  BY <1>1, <1>2, ChargedOnce
<1>4. Known' = Known \cup {n} /\ Known \subseteq Notes
  BY <1>1, <1>2, KnownNotes DEF Known, AtWork, Moved
<1>5. \A q \in Purchases : q # p => store'[q] = store[q] /\ terms'[q] = terms[q] /\ sent'[q] = sent[q]
  BY <1>1 DEF Moved, Typed
<1>6. /\ n \in Notes /\ n.p = p /\ sent[p] \in Nat /\ sent'[p] = sent[p] + 1 /\ n.number = sent[p] + 1
      /\ terms[p] \subseteq terms'[p] /\ store[p].state \in Before(n.event)
  BY <1>1 DEF Moved, Typed
<1>7. ASSUME NEW q \in Purchases PROVE StoreSound(q)'
  <2>1. CASE q = p
    BY <1>3, <2>1
  <2>2. CASE q # p
    BY <1>2, <1>5, <2>2 DEF StoresSound, StoreSound
  <2> QED
    BY <2>1, <2>2
<1>8. ASSUME NEW m \in Known
      PROVE  /\ NoteSound(m)' /\ NoteSound(m)
             /\ m.p \in Purchases /\ m.number \in Nat /\ m.period \in Nat
             /\ m.p = p => m.number <= sent[p]
  <2>1. NoteSound(m) /\ m.p \in Purchases /\ m.number \in Nat /\ m.period \in Nat
    BY <1>4, NoteFields, Bounds DEF StoresSound, Numbers, Times
  <2>2. m.p = p => m.number <= sent[p]
    BY <2>1 DEF NoteSound
  <2>3. CASE m.p = p
    BY <1>6, <2>1, <2>2, <2>3 DEF NoteSound
  <2>4. CASE m.p # p
    BY <1>5, <2>1, <2>4 DEF NoteSound
  <2> QED
    BY <2>1, <2>2, <2>3, <2>4
<1>9. ASSUME NEW m \in Known PROVE Linked(m, n) /\ Linked(n, m)
  <2>1. CASE m.p = p
    <3>1. m.number <= sent[p] /\ m.number \in Nat /\ NoteSound(m)
      BY <1>8, <2>1
    <3>2. m.number + 1 = n.number => store[p].state = After(m.event)
      BY <1>6, <2>1, <3>1 DEF NoteSound
    <3>3. Charges(n) => m.period < n.period
      <4>1. m.period \in terms[p]
        BY <2>1, <3>1 DEF NoteSound
      <4> QED
        BY <1>3, <4>1 DEF Charges, Charging
    <3>4. m.period \in Nat /\ n.period \in Nat
      BY <1>6, <1>8, NoteFields, Bounds DEF Times
    <3> QED
      BY <1>6, <2>1, <3>1, <3>2, <3>3, <3>4 DEF Linked
  <2>2. CASE m.p # p
    BY <1>6, <2>2 DEF Linked
  <2> QED
    BY <2>1, <2>2
<1>10. Linked(n, n)
  BY <1>6 DEF Linked
<1> QED
  BY <1>3, <1>4, <1>7, <1>8, <1>9, <1>10 DEF StoresSound, Linked, Charges

\* Nothing but a store's step adds to what is known.
LEMMA KnownStays ==
    ASSUME Typed, [Next]_vars, ~(\E p \in Purchases : Store(p))
    PROVE  UNCHANGED <<apple, store, terms, sent>> /\ Known' \subseteq Known
<1>1. ASSUME notes' \subseteq notes, UNCHANGED hook \/ \E h \in Hooks : hook' = [hook EXCEPT ![h] = Idle]
      PROVE  Known' \subseteq Known
  BY <1>1 DEF Known, AtWork, Typed
<1>2. CASE Tick
  BY <1>1, <1>2 DEF Tick
<1>3. ASSUME NEW c \in Clients, NEW p \in Purchases, VerifyPurchase(c, p)
      PROVE  UNCHANGED <<apple, store, terms, sent>> /\ Known' \subseteq Known
  BY <1>1, <1>3 DEF VerifyPurchase, stores
<1>4. ASSUME NEW c \in Clients, HandleInitialPurchase(c)
      PROVE  UNCHANGED <<apple, store, terms, sent>> /\ Known' \subseteq Known
  BY <1>1, <1>4 DEF HandleInitialPurchase, stores
<1>5. ASSUME NEW n \in notes, HookDrops(n)
      PROVE  UNCHANGED <<apple, store, terms, sent>> /\ Known' \subseteq Known
  <2>1. notes' \subseteq notes
    BY <1>5 DEF HookDrops, Deliver
  <2> QED
    BY <1>1, <1>5, <2>1 DEF HookDrops, stores
<1>6. ASSUME NEW n \in notes, NEW h \in Hooks, HookReads(h, n)
      PROVE  UNCHANGED <<apple, store, terms, sent>> /\ Known' \subseteq Known
  <2>1. notes' \subseteq notes /\ hook' = [hook EXCEPT ![h] = Job(n)] /\ RowsOf(n.p) # {} /\ n \in Notes
        /\ UNCHANGED stores
    BY <1>6 DEF HookReads, Deliver, Applies, Typed
  <2>2. Job(n).note = n
    BY <2>1, JobOf
  <2> QED
    BY <2>1, <2>2 DEF Known, AtWork, Typed, stores
<1>7. ASSUME NEW h \in Hooks, HookCommits(h) \/ HookFails(h)
      PROVE  UNCHANGED <<apple, store, terms, sent>> /\ Known' \subseteq Known
  BY <1>1, <1>7 DEF HookCommits, HookFails, stores
<1>8. CASE JobReads \/ JobCommits \/ JobFails
  BY <1>1, <1>8 DEF JobReads, JobCommits, JobFails, stores
<1>9. CASE UNCHANGED vars
  BY <1>1, <1>9 DEF vars, stores
<1> QED
  BY <1>2, <1>3, <1>4, <1>5, <1>6, <1>7, <1>8, <1>9 DEF Next, Tick

LEMMA StoresSoundStep ==
    ASSUME Typed, StoresSound, [Next]_vars
    PROVE  StoresSound'
<1>1. CASE \E p \in Purchases : Store(p)
  BY <1>1, StoresStep
<1>2. CASE ~(\E p \in Purchases : Store(p))
  <2>1. UNCHANGED <<apple, store, terms, sent>> /\ Known' \subseteq Known
    BY <1>2, KnownStays
  <2>2. now' = now \/ now' = now + 1
    BY <1>2 DEF Next, Tick, VerifyPurchase, HandleInitialPurchase, HookDrops, HookReads, HookCommits,
                HookFails, JobReads, JobCommits, JobFails, vars, stores
  <2>3. ASSUME NEW p \in Purchases PROVE StoreSound(p)'
    <3>1. StoreSound(p) /\ now \in Nat /\ store[p].period \in Nat
      BY Bounds DEF StoresSound, Typed, Times, Stores
    <3> QED
      BY <2>1, <2>2, <3>1 DEF StoreSound
  <2>4. ASSUME NEW n \in Known PROVE NoteSound(n)'
    BY <2>1, <2>4 DEF StoresSound, NoteSound
  <2>5. \A n, m \in Known : Linked(n, m)
    BY DEF StoresSound
  <2> QED
    BY <2>1, <2>3, <2>4, <2>5 DEF StoresSound, Linked
<1> QED
  BY <1>1, <1>2

-----------------------------------------------------------------------------
(* What has been recorded.                                                 *)

Recorded ==
    /\ \A p \in Purchases : last[p] <= sent[p]
    /\ \A h \in Hooks : hook[h] # Idle =>
          /\ hook[h].note.number <= last[hook[h].note.p]
          /\ rows[hook[h].row].p = hook[h].note.p
    /\ \A c \in Clients : client[c] # Idle => client[c].end \in terms[client[c].p]
    /\ \A i \in DOMAIN rows : terms[rows[i].p] # {}

Base == Basics /\ StoresSound /\ Recorded

\* Rows are never taken away or moved to another purchase.
RowsKept ==
    DOMAIN rows \subseteq DOMAIN rows' /\ \A i \in DOMAIN rows : rows'[i].p = rows[i].p

LEMMA RowsStay ==
    ASSUME Basics, [Next]_vars
    PROVE  RowsKept
<1> USE DEF Basics, RowsKept
<1>1. ASSUME NEW c \in Clients, HandleInitialPurchase(c) PROVE RowsKept
  BY <1>1, InitialCommits, RowsGrow
<1>2. ASSUME NEW h \in Hooks, HookCommits(h) PROVE RowsKept
  BY <1>2, HookEffect
<1>3. CASE JobCommits
  BY <1>3, JobWrites
<1>4. CASE UNCHANGED rows
  BY <1>4
<1> QED
  BY <1>1, <1>2, <1>3, <1>4 DEF Next, Store, Tick, VerifyPurchase, HookDrops, HookReads, HookFails,
                               JobReads, JobFails, vars, tables

LEMMA TermsStay ==
    ASSUME Typed, [Next]_vars, NEW p \in Purchases
    PROVE  terms[p] \subseteq terms'[p] /\ sent[p] <= sent'[p]
<1>0. sent[p] \in Nat
  BY DEF Typed
<1>1. ASSUME NEW q \in Purchases, Store(q) PROVE terms[p] \subseteq terms'[p] /\ sent[p] <= sent'[p]
  <2>1. PICK n : Moved(q, n)
    BY <1>1, StoreMoves
  <2>2. terms' = terms \/ terms' = [terms EXCEPT ![q] = @ \cup {n.period}]
    BY <2>1 DEF Moved
  <2>3. sent' = [sent EXCEPT ![q] = @ + 1]
    BY <2>1 DEF Moved
  <2>4. terms[p] \subseteq terms'[p]
    BY <2>2 DEF Typed
  <2>5. sent[p] <= sent'[p]
    BY <1>0, <2>3 DEF Typed
  <2> QED
    BY <2>4, <2>5
<1>2. CASE ~(\E q \in Purchases : Store(q))
  BY <1>0, <1>2, KnownStays
<1> QED
  BY <1>1, <1>2

\* A client shows a period that the purchase has had.
LEMMA ShownHad ==
    ASSUME Typed, StoresSound, NEW p \in Purchases
    PROVE  Shown(p) \subseteq terms[p]
<1>1. StoreSound(p) /\ sent[p] \in Nat
  BY DEF StoresSound, Typed
<1> QED
  BY <1>1 DEF Shown, StoreSound

\* A delivery keeps the highest number within what was sent.
LEMMA LastRises ==
    ASSUME Typed, StoresSound, Recorded, NEW n \in notes, Deliver(n), UNCHANGED sent
    PROVE  /\ \A p \in Purchases : last[p] <= last'[p] /\ last'[p] <= sent'[p]
           /\ n.number <= last'[n.p]
<1>1. NoteSound(n)
  BY DEF StoresSound, Known
<1>2. n.number <= sent[n.p]
  BY <1>1 DEF NoteSound
<1>3. \A p \in Purchases : last[p] \in Nat /\ sent[p] \in Nat /\ last[p] <= sent[p]
  BY DEF Typed, Recorded
<1>4. /\ n.p \in Purchases /\ n.number \in Nat
      /\ last'[n.p] = IF n.number > last[n.p] THEN n.number ELSE last[n.p]
      /\ \A p \in Purchases \ {n.p} : last'[p] = last[p]
  BY Delivered
<1> QED
  BY <1>2, <1>3, <1>4

LEMMA RecordedStep ==
    ASSUME Base, [Next]_vars
    PROVE  Recorded'
<1> USE DEF Base, Basics
<1>1. Typed' /\ RowsKept
  BY BasicsStep, RowsStay
<1>2. \A p \in Purchases : terms[p] \subseteq terms'[p] /\ sent[p] <= sent'[p]
  BY TermsStay
<1>3. \A p \in Purchases : last[p] \in Nat /\ last'[p] \in Nat /\ sent[p] \in Nat /\ sent'[p] \in Nat
  BY <1>1 DEF Typed
<1>4. ASSUME NEW h \in Hooks, hook[h] # Idle
      PROVE  /\ hook[h].note \in Notes /\ hook[h].note.p \in Purchases /\ hook[h].note.number \in Nat
             /\ hook[h].note.number <= last[hook[h].note.p]
             /\ rows'[hook[h].row].p = hook[h].note.p
  <2>1. hook[h].note \in Notes /\ hook[h].row \in DOMAIN rows
    BY <1>4, HookFields DEF RowsThere
  <2> QED
    BY <1>1, <1>4, <2>1, NoteFields, Bounds DEF RowsKept, Recorded, Numbers
<1>5. ASSUME NEW c \in Clients, client[c] # Idle
      PROVE  client[c].p \in Purchases /\ client[c].end \in terms'[client[c].p]
  BY <1>2, <1>5, ClientFields DEF Recorded
<1>6. \A i \in DOMAIN rows : terms'[rows[i].p] # {}
  BY <1>2, RowFields DEF Recorded
<1>7. ASSUME \A p \in Purchases : last[p] <= last'[p]
      PROVE  \A h \in Hooks : hook[h] # Idle =>
                /\ hook[h].note.number <= last'[hook[h].note.p]
                /\ rows'[hook[h].row].p = hook[h].note.p
  <2> SUFFICES ASSUME NEW h \in Hooks, hook[h] # Idle
               PROVE  /\ hook[h].note.number <= last'[hook[h].note.p]
                      /\ rows'[hook[h].row].p = hook[h].note.p
    OBVIOUS
  <2> QED
    BY <1>3, <1>4, <1>7
<1>8. ASSUME UNCHANGED last
      PROVE  (\A p \in Purchases : last'[p] <= sent'[p]) /\ \A p \in Purchases : last[p] <= last'[p]
  BY <1>2, <1>3, <1>8 DEF Recorded
<1>9. ASSUME DOMAIN rows' = DOMAIN rows
      PROVE  \A i \in DOMAIN rows' : terms'[rows'[i].p] # {}
  BY <1>1, <1>6, <1>9 DEF RowsKept
<1>10. ASSUME UNCHANGED last, UNCHANGED client, DOMAIN rows' = DOMAIN rows,
              UNCHANGED hook \/ \E h \in Hooks : hook' = [hook EXCEPT ![h] = Idle]
       PROVE  Recorded'
  <2>1. \A h \in Hooks : hook'[h] # Idle => hook'[h] = hook[h]
    BY <1>10 DEF Typed
  <2> QED
    BY <1>5, <1>7, <1>8, <1>9, <1>10, <2>1 DEF Recorded
<1>11. ASSUME NEW c \in Clients, NEW p \in Purchases, VerifyPurchase(c, p) PROVE Recorded'
  <2>1. PICK end \in Shown(p) : client' = [client EXCEPT ![c] = [p |-> p, end |-> end]]
    BY <1>11 DEF VerifyPurchase
  <2>2. end \in terms'[p]
    BY <1>2, ShownHad
  <2>3. \A d \in Clients : client'[d] # Idle => client'[d].end \in terms'[client'[d].p]
    BY <1>5, <2>1, <2>2 DEF Typed
  <2>4. UNCHANGED <<last, rows, hook>>
    BY <1>11 DEF VerifyPurchase, tables
  <2> QED
    BY <1>7, <1>8, <1>9, <2>3, <2>4 DEF Recorded
<1>12. ASSUME NEW c \in Clients, HandleInitialPurchase(c) PROVE Recorded'
  <2>1. PICK row \in Rows : rows' = Append(rows, row) /\ row.p = client[c].p
    BY <1>12, InitialCommits
  <2>2. client[c] # Idle /\ client' = [client EXCEPT ![c] = Idle] /\ UNCHANGED <<last, hook>>
    BY <1>12 DEF HandleInitialPurchase, history
  <2>3. \A i \in DOMAIN rows' : terms'[rows'[i].p] # {}
    BY <1>5, <1>6, <2>1, <2>2, RowsGrow
  <2>4. \A d \in Clients : client'[d] # Idle => client'[d].end \in terms'[client'[d].p]
    BY <1>5, <2>2 DEF Typed
  <2> QED
    BY <1>7, <1>8, <2>2, <2>3, <2>4 DEF Recorded
<1>13. ASSUME NEW n \in notes, HookDrops(n) PROVE Recorded'
  <2>1. Deliver(n) /\ UNCHANGED <<sent, rows, hook, client>>
    BY <1>13 DEF HookDrops, stores, tables
  <2>2. \A p \in Purchases : last[p] <= last'[p] /\ last'[p] <= sent'[p]
    BY <2>1, LastRises
  <2> QED
    BY <1>5, <1>7, <1>9, <2>1, <2>2 DEF Recorded
<1>14. ASSUME NEW n \in notes, NEW h \in Hooks, HookReads(h, n) PROVE Recorded'
  <2>1. Deliver(n) /\ RowsOf(n.p) # {} /\ hook' = [hook EXCEPT ![h] = Job(n)] /\ n \in Notes
        /\ UNCHANGED <<sent, rows, client>>
    BY <1>14 DEF HookReads, Applies, stores, tables, Typed
  <2>2. (\A p \in Purchases : last[p] <= last'[p] /\ last'[p] <= sent'[p]) /\ n.number <= last'[n.p]
    BY <2>1, LastRises
  <2>3. Job(n).note = n /\ rows[Job(n).row].p = n.p
    BY <2>1, JobOf, NewestRow
  <2>4. \A g \in Hooks : hook'[g] # Idle =>
           /\ hook'[g].note.number <= last'[hook'[g].note.p]
           /\ rows'[hook'[g].row].p = hook'[g].note.p
    BY <1>7, <2>1, <2>2, <2>3 DEF Typed
  <2> QED
    BY <1>5, <1>9, <2>1, <2>2, <2>4 DEF Recorded
<1>15. ASSUME NEW h \in Hooks, HookCommits(h) PROVE Recorded'
  <2>1. DOMAIN rows' = DOMAIN rows
    BY <1>15, HookEffect
  <2> QED
    BY <1>10, <1>15, <2>1 DEF HookCommits, history
<1>16. ASSUME NEW h \in Hooks, HookFails(h) PROVE Recorded'
  BY <1>10, <1>16 DEF HookFails, tables
<1>17. CASE JobReads \/ JobCommits \/ JobFails
  <2>1. DOMAIN rows' = DOMAIN rows
    BY <1>17, JobWrites DEF JobReads, JobFails, tables
  <2> QED
    BY <1>10, <1>17, <2>1 DEF JobReads, JobCommits, JobFails, tables, history
<1>18. CASE Tick \/ UNCHANGED vars \/ \E p \in Purchases : Store(p)
  BY <1>10, <1>18 DEF Tick, vars, Store, tables, history
<1> QED
  BY <1>11, <1>12, <1>13, <1>14, <1>15, <1>16, <1>17, <1>18 DEF Next

LEMMA BaseStart == Init => Base
<1> SUFFICES ASSUME Init PROVE Base
  OBVIOUS
<1>1. Known = {} /\ DOMAIN rows = {}
  BY DEF Init, Known, AtWork
<1>2. StoresSound
  BY <1>1 DEF Init, StoresSound, StoreSound
<1>3. Recorded
  BY <1>1 DEF Init, Recorded
<1> QED
  BY <1>2, <1>3, BasicsStart DEF Base

LEMMA BaseStep == Base /\ [Next]_vars => Base'
BY BasicsStep, StoresSoundStep, RecordedStep DEF Base, Basics

-----------------------------------------------------------------------------
(* Credits and periods.                                                    *)

\* The periods of p that no notification can bring credits for any more.
Spent(p) ==
    {k \in terms[p] : IF p \in apple THEN log[<<p, <<"transaction", k>>>>] # 0
                     ELSE \A n \in Known : n.p = p /\ Charges(n) /\ n.period = k => log[Key(n)] # 0}

\* Purchases whose checks held everything apart: one request claims what has no row, and
\* what is handled has not been recorded.
Metered(p) ==
    /\ \A c \in Clients : client[c] # Idle /\ client[c].p = p =>
          /\ RowsOf(p) = {}
          /\ \A d \in Clients : client[d] # Idle /\ client[d].p = p => d = c
    /\ RowsOf(p) = {} => /\ grants[p] = 0 /\ AtWorkOn(p) = {}
                         /\ \A k \in EventIds : k[1] = p => log[k] = 0
    /\ \A h \in AtWorkOn(p) :
          /\ hook[h].note.event \notin {"ended", "other"} => log[Key(hook[h].note)] = 0
          /\ p \notin apple => hook[h].note.event # "restarted"
          /\ \A g \in AtWorkOn(p) : Key(hook[g].note) = Key(hook[h].note) => g = h
    /\ grants[p] <= Cardinality(Spent(p))

Credited == \A p \in Purchases \ unmetered : Metered(p)

\* An event is of its purchase.
LEMMA KeyOf ==
    ASSUME NEW n \in Notes
    PROVE  Key(n)[1] = n.p
BY Keys

LEMMA LogGrows ==
    ASSUME Base, [Next]_vars, NEW k \in EventIds
    PROVE  log[k] # 0 => log'[k] # 0
<1> USE DEF Base, Basics
<1>1. log \in [EventIds -> Nat]
  BY DEF Typed
<1>2. ASSUME NEW c \in Clients, HandleInitialPurchase(c) PROVE log[k] # 0 => log'[k] # 0
  <2>1. PICK x : x = <<client[c].p, <<"transaction", client[c].end>>>>
    OBVIOUS
  <2>2. log' = log \/ log' = [log EXCEPT ![x] = @ + 1]
    BY <1>2, <2>1, InitialCommits
  <2>3. x \in EventIds
    BY <1>2, <2>1, InitialCommits
  <2> QED
    BY <1>1, <2>2, <2>3, CountedUp
<1>3. ASSUME NEW h \in Hooks, HookCommits(h) PROVE log[k] # 0 => log'[k] # 0
  <2>1. hook[h].note \in Notes
        /\ (log' = log \/ log' = [log EXCEPT ![Key(hook[h].note)] = @ + 1])
    BY <1>3, HookEffect
  <2>2. Key(hook[h].note) \in EventIds
    BY <2>1, Keys
  <2> QED
    BY <1>1, <2>1, <2>2, CountedUp
<1>4. CASE UNCHANGED log
  BY <1>4
<1> QED
  BY <1>2, <1>3, <1>4 DEF Next, Store, Tick, VerifyPurchase, HookDrops, HookReads, HookFails,
                          JobReads, JobCommits, JobFails, vars, tables

LEMMA AppleStays ==
    ASSUME [Next]_vars
    PROVE  apple' = apple
BY DEF Next, Store, Tick, VerifyPurchase, HandleInitialPurchase, HookDrops, HookReads,
       HookCommits, HookFails, JobReads, JobCommits, JobFails, vars, stores

LEMMA SpentGrows ==
    ASSUME Base, [Next]_vars, NEW p \in Purchases
    PROVE  /\ Spent(p) \subseteq Spent(p)'
           /\ IsFiniteSet(Spent(p)) /\ IsFiniteSet(Spent(p)')
<1> USE DEF Base, Basics
<1>1. terms[p] \subseteq terms'[p] /\ apple' = apple /\ Typed'
  BY TermsStay, AppleStays, BasicsStep
<1>2. \A n \in Notes : Key(n)' = Key(n)
  BY <1>1 DEF Key, EventId
<1>3. Known \subseteq Notes
  BY KnownNotes
<1>4. ASSUME NEW k \in Spent(p) PROVE k \in Spent(p)'
  <2>1. k \in terms[p] /\ k \in Times /\ k \in Nat /\ k \in terms'[p]
    BY <1>1, Bounds DEF Spent, Typed, Times
  <2>2. CASE p \in apple
    <3>1. <<p, <<"transaction", k>>>> \in EventIds
      BY <2>1 DEF EventIds
    <3>2. log[<<p, <<"transaction", k>>>>] # 0
      BY <2>2 DEF Spent
    <3> QED
      BY <1>1, <2>1, <2>2, <3>1, <3>2, LogGrows DEF Spent
  <2>3. CASE p \notin apple
    <3>1. ASSUME NEW n \in Known, n.p = p, Charges(n), n.period = k
          PROVE  log'[Key(n)'] # 0
      <4>1. log[Key(n)] # 0
        BY <2>3, <3>1 DEF Spent
      <4>2. n \in Notes /\ Key(n) \in EventIds /\ Key(n)' = Key(n)
        BY <1>2, <1>3, Keys
      <4> QED
        BY <4>1, <4>2, LogGrows
    <3>2. ASSUME NEW n \in Known', n \notin Known, n.p = p, Charges(n) PROVE n.period # k
      <4>1. PICK q \in Purchases : Store(q)
        BY <3>2, KnownStays
      <4>2. PICK m : Moved(q, m)
        BY <4>1, StoreMoves
      <4>3. Known' = Known \cup {m}
        BY <4>1, <4>2 DEF Store, Moved, Known, AtWork
      <4>4. n = m /\ q = p
        BY <3>2, <4>2, <4>3 DEF Moved
      <4>5. n.event \in Charging
        BY <3>2 DEF Charges, Charging
      <4>6. now' = now
        BY <4>1 DEF Store
      <4>7. \A j \in terms[p] : j < n.period
        BY <4>2, <4>4, <4>5, <4>6, ChargedOnce
      <4> QED
        BY <2>1, <4>7
    <3>3. \A n \in Known' : n.p = p /\ Charges(n)' /\ n.period = k => log'[Key(n)'] # 0
      BY <3>1, <3>2 DEF Charges
    <3> QED
      BY <1>1, <2>1, <2>3, <3>3 DEF Spent
  <2> QED
    BY <2>2, <2>3
<1>5. IsFiniteSet(Times)
  BY Bounds, FS_Interval DEF Times
<1>6. Spent(p) \subseteq Times /\ Spent(p)' \subseteq Times
  BY <1>1 DEF Spent, Typed
<1> QED
  BY <1>4, <1>5, <1>6, FS_Subset

LEMMA HandledOf ==
    ASSUME Base, NEW p, NEW h \in AtWorkOn(p)
    PROVE  /\ h \in Hooks /\ hook[h] # Idle /\ hook[h].note.p = p
           /\ hook[h].note \in Notes /\ hook[h].note \in Known /\ NoteSound(hook[h].note)
           /\ Key(hook[h].note) \in EventIds /\ Key(hook[h].note)[1] = p
<1>1. h \in Hooks /\ hook[h] # Idle /\ hook[h].note.p = p
  BY DEF AtWorkOn
<1>2. hook[h].note \in Notes /\ hook[h].note \in Known
  BY <1>1, HookFields DEF Known, AtWork, Base, Basics
<1> QED
  BY <1>1, <1>2, Keys, KeyOf DEF Base, StoresSound

\* Rows of p are the same rows.
SameRows(p) == RowsOf(p)' = RowsOf(p)

LEMMA RowsOfStay ==
    ASSUME Base, [Next]_vars, DOMAIN rows' = DOMAIN rows, NEW p
    PROVE  SameRows(p)
BY RowsStay DEF Base, RowsKept, RowsOf, SameRows

\* A step that does not write for p.
LEMMA MeteredElsewhere ==
    ASSUME Base, [Next]_vars, NEW p \in Purchases, Metered(p), SameRows(p),
           grants'[p] <= grants[p],
           \A k \in EventIds : k[1] = p => log'[k] = log[k],
           \A c \in Clients : client'[c] # Idle /\ client'[c].p = p => client'[c] = client[c],
           \A h \in Hooks : hook'[h] # Idle /\ hook'[h].note.p = p => hook'[h] = hook[h]
    PROVE  Metered(p)'
<1>1. Typed /\ Typed' /\ apple' = apple
  BY AppleStays, BaseStep DEF Base, Basics
<1>2. AtWorkOn(p)' \subseteq AtWorkOn(p) /\ \A h \in AtWorkOn(p)' : hook'[h] = hook[h]
  BY DEF AtWorkOn
<1>3. RowsOf(p)' = RowsOf(p)
  BY DEF SameRows
<1>4. grants[p] \in Nat /\ grants'[p] \in Nat
  BY <1>1 DEF Typed
<1>5. ASSUME NEW c \in Clients, client'[c] # Idle, client'[c].p = p
      PROVE  /\ RowsOf(p)' = {}
             /\ \A d \in Clients : client'[d] # Idle /\ client'[d].p = p => d = c
  BY <1>3, <1>5 DEF Metered
<1>6. RowsOf(p)' = {} => /\ grants'[p] = 0 /\ AtWorkOn(p)' = {}
                         /\ \A k \in EventIds : k[1] = p => log'[k] = 0
  BY <1>2, <1>3, <1>4 DEF Metered
<1>7. ASSUME NEW h \in AtWorkOn(p)'
      PROVE  /\ hook'[h].note.event \notin {"ended", "other"} => log'[Key(hook[h].note)'] = 0
             /\ p \notin apple' => hook'[h].note.event # "restarted"
             /\ \A g \in AtWorkOn(p)' : Key(hook[g].note)' = Key(hook[h].note)' => g = h
  <2>1. h \in AtWorkOn(p) /\ hook'[h] = hook[h]
    BY <1>2
  <2>2. Key(hook[h].note) \in EventIds /\ Key(hook[h].note)[1] = p
    BY <2>1, HandledOf
  <2>3. \A g \in AtWorkOn(p)' : Key(hook[g].note)' = Key(hook[g].note) /\ g \in AtWorkOn(p)
    BY <1>1, <1>2 DEF Key, EventId
  <2> QED
    BY <1>1, <2>1, <2>2, <2>3 DEF Metered
<1>8. grants'[p] <= Cardinality(Spent(p)')
  <2>1. Cardinality(Spent(p)) <= Cardinality(Spent(p)')
    BY SpentGrows, FS_Subset
  <2>2. Cardinality(Spent(p)) \in Nat /\ Cardinality(Spent(p)') \in Nat
    BY SpentGrows, FS_CardinalityType
  <2> QED
    BY <1>4, <2>1, <2>2 DEF Metered
<1> QED
  BY <1>5, <1>6, <1>7, <1>8 DEF Metered

\* A purchase that is claimed is credited for a period that nothing else is about.
LEMMA MeteredInitial ==
    ASSUME Base, NEW c \in Clients, HandleInitialPurchase(c),
           NEW p \in Purchases, Metered(p)
    PROVE  Metered(p)'
<1>0. [Next]_vars
  BY DEF Next
<1>1. Typed /\ Typed' /\ apple' = apple
  BY <1>0, AppleStays, BaseStep DEF Base, Basics
<1>2. PICK q \in Purchases, end \in Times : q = client[c].p /\ end = client[c].end /\ client[c] # Idle
  BY <1>1, ClientFields DEF HandleInitialPurchase
<1>3. PICK key \in EventIds : key = <<q, <<"transaction", end>>>> /\ key[1] = q
  <2>1. <<q, <<"transaction", end>>>> \in EventIds
    BY DEF EventIds
  <2> QED
    BY <2>1
<1>4. PICK row \in Rows : row.p = q /\ rows' = Append(rows, row)
  BY <1>1, <1>2, InitialCommits
<1>5. /\ log' = IF q \in apple THEN [log EXCEPT ![key] = @ + 1] ELSE log
      /\ grants' = [grants EXCEPT ![q] = @ + 1]
      /\ client' = [client EXCEPT ![c] = Idle]
      /\ hook' = hook /\ notes' = notes /\ terms' = terms
  BY <1>2, <1>3 DEF HandleInitialPurchase, stores
<1>6. /\ DOMAIN rows' = DOMAIN rows \cup {Len(rows) + 1} /\ rows'[Len(rows) + 1] = row
      /\ \A i \in DOMAIN rows : rows'[i] = rows[i]
  BY <1>1, <1>4, RowsGrow
<1>7. CASE q # p
  <2>1. SameRows(p)
    BY <1>4, <1>6, <1>7 DEF SameRows, RowsOf
  <2>2. grants'[p] <= grants[p]
    BY <1>1, <1>5, <1>7 DEF Typed
  <2>3. \A k \in EventIds : k[1] = p => log'[k] = log[k]
    BY <1>1, <1>3, <1>5, <1>7 DEF Typed
  <2>4. \A d \in Clients : client'[d] # Idle /\ client'[d].p = p => client'[d] = client[d]
    BY <1>1, <1>5 DEF Typed
  <2> QED
    BY <1>0, <1>5, <2>1, <2>2, <2>3, <2>4, MeteredElsewhere
<1>8. CASE q = p
  <2>1. RowsOf(p) = {} /\ \A d \in Clients : client[d] # Idle /\ client[d].p = p => d = c
    BY <1>2, <1>8 DEF Metered
  <2>2. grants[p] = 0 /\ AtWorkOn(p) = {}
    BY <2>1 DEF Metered
  <2>3. RowsOf(p)' # {}
    BY <1>4, <1>6, <1>8 DEF RowsOf
  <2>4. \A d \in Clients : ~(client'[d] # Idle /\ client'[d].p = p)
    BY <1>1, <1>5, <2>1 DEF Typed
  <2>5. AtWorkOn(p)' = {}
    BY <1>5, <2>2 DEF AtWorkOn
  <2>6. grants'[p] = 1
    BY <1>1, <1>5, <1>8, <2>2 DEF Typed
  <2>7. end \in terms[p]
    BY <1>2, <1>8 DEF Base, Recorded
  <2>8. \E k : k \in Spent(p)'
    <3>1. CASE p \in apple
      <4>1. log'[key] # 0
        BY <1>1, <1>3, <1>5, <1>8, <3>1 DEF Typed
      <4> QED
        BY <1>1, <1>3, <1>5, <1>8, <2>7, <3>1, <4>1 DEF Spent
    <3>2. CASE p \notin apple
      <4>1. PICK k \in terms[p] : \A j \in terms[p] : k <= j
        <5>1. terms[p] \subseteq Nat
          BY <1>1, Bounds DEF Typed, Times
        <5> QED
          BY <2>7, <5>1, HasLeast
      <4>2. ASSUME NEW n \in Known, n.p = p, Charges(n) PROVE n.period # k
        <5>1. PICK j \in terms[p] : j < n.period
          BY <4>2 DEF Base, StoresSound, NoteSound
        <5>2. k <= j /\ j \in Nat /\ k \in Nat
          BY <1>1, <4>1, Bounds DEF Typed, Times
        <5> QED
          BY <5>1, <5>2
      <4>3. Known' = Known
        BY <1>5 DEF Known, AtWork
      <4>4. \A n \in Known' : n.p = p /\ Charges(n)' => n.period # k
        BY <4>2, <4>3 DEF Charges
      <4>5. k \in terms'[p] /\ p \notin apple'
        BY <1>1, <1>5, <3>2, <4>1
      <4> QED
        BY <4>4, <4>5 DEF Spent
    <3> QED
      BY <3>1, <3>2
  <2>9. 1 <= Cardinality(Spent(p)')
    <3>1. Spent(p)' # {} /\ IsFiniteSet(Spent(p)')
      BY <1>0, <2>8, SpentGrows
    <3>2. Cardinality(Spent(p)') # 0 /\ Cardinality(Spent(p)') \in Nat
      BY <3>1, FS_EmptySet, FS_CardinalityType
    <3> QED
      BY <3>2
  <2> QED
    BY <2>3, <2>4, <2>5, <2>6, <2>9 DEF Metered
<1> QED
  BY <1>7, <1>8

\* A note that is read has not been recorded, and nobody else is at work on it.
LEMMA MeteredReads ==
    ASSUME Base, NEW n \in notes, NEW h \in Hooks, HookReads(h, n),
           NEW p \in Purchases, p \notin unmetered', Metered(p)
    PROVE  Metered(p)'
<1>0. [Next]_vars
  BY DEF Next
<1>1. Typed /\ apple' = apple /\ DOMAIN rows' = DOMAIN rows /\ n \in Notes
  BY <1>0, AppleStays DEF Base, Basics, Typed, HookReads, tables
<1>2. /\ hook[h] = Idle /\ Applies(n) /\ RowsOf(n.p) # {} /\ hook' = [hook EXCEPT ![h] = Job(n)]
      /\ UNCHANGED <<rows, log, grants, client>>
  BY DEF HookReads, Applies, tables
<1>3. Job(n).note = n
  BY <1>1, <1>2, JobOf
<1>4. SameRows(p)
  BY <1>0, <1>1, RowsOfStay
<1>5. grants[p] \in Nat
  BY <1>1 DEF Typed
<1>6. CASE n.p # p
  <2>1. \A g \in Hooks : hook'[g] # Idle /\ hook'[g].note.p = p => hook'[g] = hook[g]
    BY <1>1, <1>2, <1>3, <1>6 DEF Typed
  <2> QED
    BY <1>0, <1>2, <1>4, <1>5, <2>1, MeteredElsewhere
<1>7. CASE n.p = p
  <2>1. RowsOf(p) # {} /\ RowsOf(p)' = RowsOf(p)
    BY <1>2, <1>4, <1>7 DEF SameRows
  <2>2. \A c \in Clients : ~(client'[c] # Idle /\ client'[c].p = p)
    BY <1>2, <2>1 DEF Metered
  <2>3. AtWorkOn(p)' \subseteq AtWorkOn(p) \cup {h}
        /\ \A g \in AtWorkOn(p)' : g # h => hook'[g] = hook[g] /\ g \in AtWorkOn(p)
    BY <1>1, <1>2 DEF AtWorkOn, Typed
  <2>4. hook'[h].note = n
    BY <1>1, <1>2, <1>3 DEF Typed
  <2>5. n.event \notin {"ended", "other"} => log[Key(n)] = 0
    BY <1>1, <1>2, EventTypes, NoteFields DEF Applies
  <2>6. ~(n.event = "restarted" /\ n.p \notin apple)
        /\ ~(\E g \in Hooks : hook[g] # Idle /\ Key(hook[g].note) = Key(n))
    BY <1>1, <1>7 DEF HookReads
  <2>7. \A m : Key(m)' = Key(m)
    BY <1>1 DEF Key, EventId
  <2>8. ASSUME NEW g \in AtWorkOn(p)', g # h
        PROVE  /\ g \in AtWorkOn(p) /\ hook'[g].note = hook[g].note
               /\ Key(hook[g].note) # Key(n)
    BY <2>3, <2>6, <2>8 DEF AtWorkOn
  <2>9. ASSUME NEW g \in AtWorkOn(p)'
        PROVE  /\ hook'[g].note.event \notin {"ended", "other"} => log'[Key(hook[g].note)'] = 0
               /\ p \notin apple' => hook'[g].note.event # "restarted"
    <3>1. CASE g = h
      <4>1. Key(hook[g].note)' = Key(n)
        BY <1>1, <2>4, <3>1 DEF Key, EventId
      <4> QED
        BY <1>1, <1>2, <1>7, <2>4, <2>5, <2>6, <3>1, <4>1
    <3>2. CASE g # h
      <4>1. Key(hook[g].note)' = Key(hook[g].note)
        BY <1>1, <2>8, <3>2 DEF Key, EventId
      <4> QED
        BY <1>1, <1>2, <2>8, <3>2, <4>1 DEF Metered
    <3> QED
      BY <3>1, <3>2
  <2>10. ASSUME NEW g \in AtWorkOn(p)', NEW f \in AtWorkOn(p)', Key(hook[g].note)' = Key(hook[f].note)'
         PROVE  g = f
    <3>1. Key(hook[h].note)' = Key(n)
      BY <1>1, <2>4 DEF Key, EventId
    <3>2. \A e \in AtWorkOn(p)' : e # h => Key(hook[e].note)' = Key(hook[e].note)
      BY <1>1, <2>8 DEF Key, EventId
    <3>3. CASE g = h \/ f = h
      BY <2>8, <2>10, <3>1, <3>2, <3>3
    <3>4. CASE g # h /\ f # h
      BY <2>8, <2>10, <3>2, <3>4 DEF Metered
    <3> QED
      BY <3>3, <3>4
  <2>11. grants'[p] <= Cardinality(Spent(p)')
    <3>1. Cardinality(Spent(p)) <= Cardinality(Spent(p)')
      BY <1>0, SpentGrows, FS_Subset
    <3>2. Cardinality(Spent(p)) \in Nat /\ Cardinality(Spent(p)') \in Nat
      BY <1>0, SpentGrows, FS_CardinalityType
    <3> QED
      BY <1>2, <1>5, <3>1, <3>2 DEF Metered
  <2> QED
    BY <2>1, <2>2, <2>9, <2>10, <2>11 DEF Metered
<1> QED
  BY <1>6, <1>7

\* What is recorded brings credits for its own period, once.
LEMMA MeteredCommits ==
    ASSUME Base, NEW h \in Hooks, HookCommits(h), NEW p \in Purchases, Metered(p)
    PROVE  Metered(p)'
<1>0. [Next]_vars
  BY DEF Next
<1>1. Typed /\ Typed' /\ apple' = apple /\ terms' = terms /\ notes' = notes /\ client' = client
  BY <1>0, AppleStays, BaseStep DEF Base, Basics, HookCommits, stores
<1>2. PICK n \in Notes : n = hook[h].note /\ n \in Known /\ hook[h] # Idle
  BY <1>1, HookEffect DEF Base, Known, AtWork
<1>3. /\ DOMAIN rows' = DOMAIN rows
      /\ log' = IF n.event \in {"ended", "other"} THEN log ELSE [log EXCEPT ![Key(n)] = @ + 1]
      /\ grants' = IF n.event \in Extending THEN [grants EXCEPT ![n.p] = @ + 1] ELSE grants
      /\ hook' = [hook EXCEPT ![h] = Idle]
  BY <1>2, HookEffect DEF Base
<1>4. SameRows(p)
  BY <1>0, <1>3, RowsOfStay
<1>5. Key(n) \in EventIds /\ Key(n)[1] = n.p /\ n.p \in Purchases
  BY Keys, KeyOf, NoteFields
<1>6. grants \in [Purchases -> Nat] /\ log \in [EventIds -> Nat] /\ grants[p] \in Nat
  BY <1>1 DEF Typed
<1>7. \A g \in Hooks : hook'[g] # Idle => hook'[g] = hook[g] /\ g # h
  BY <1>1, <1>3 DEF Typed
<1>8. CASE n.p # p
  <2>1. grants'[p] <= grants[p]
    BY <1>3, <1>5, <1>6, <1>8
  <2>2. \A k \in EventIds : k[1] = p => log'[k] = log[k]
    BY <1>3, <1>5, <1>6, <1>8
  <2> QED
    BY <1>0, <1>1, <1>4, <1>7, <2>1, <2>2, MeteredElsewhere
<1>9. CASE n.p = p
  <2>1. h \in AtWorkOn(p)
    BY <1>2, <1>9 DEF AtWorkOn
  <2>2. RowsOf(p) # {} /\ RowsOf(p)' = RowsOf(p)
    BY <1>4, <2>1 DEF SameRows, Metered
  <2>3. \A c \in Clients : ~(client'[c] # Idle /\ client'[c].p = p)
    BY <1>1, <2>2 DEF Metered
  <2>4. ASSUME NEW g \in AtWorkOn(p)'
        PROVE  /\ g \in AtWorkOn(p) /\ hook'[g] = hook[g] /\ Key(hook[g].note)' = Key(hook[g].note)
               /\ Key(hook[g].note) \in EventIds /\ Key(hook[g].note) # Key(n)
    <3>1. g \in AtWorkOn(p) /\ hook'[g] = hook[g] /\ g # h
      BY <1>7 DEF AtWorkOn
    <3>2. Key(hook[g].note)' = Key(hook[g].note)
      BY <1>1, <3>1 DEF Key, EventId
    <3> QED
      BY <1>2, <2>1, <3>1, <3>2, HandledOf DEF Metered
  <2>5. ASSUME NEW g \in AtWorkOn(p)'
        PROVE  /\ hook'[g].note.event \notin {"ended", "other"} => log'[Key(hook[g].note)'] = 0
               /\ p \notin apple' => hook'[g].note.event # "restarted"
               /\ \A f \in AtWorkOn(p)' : Key(hook[f].note)' = Key(hook[g].note)' => f = g
    <3>1. log'[Key(hook[g].note)] = log[Key(hook[g].note)]
      BY <1>3, <1>5, <1>6, <2>4
    <3> QED
      BY <1>1, <2>4, <3>1 DEF Metered
  <2>6. Cardinality(Spent(p)) \in Nat /\ Cardinality(Spent(p)') \in Nat
        /\ Cardinality(Spent(p)) <= Cardinality(Spent(p)')
    BY <1>0, SpentGrows, FS_Subset, FS_CardinalityType
  <2>7. CASE n.event \notin Extending
    <3>1. grants'[p] = grants[p]
      BY <1>3, <2>7
    <3> QED
      BY <1>6, <2>2, <2>3, <2>5, <2>6, <3>1 DEF Metered
  <2>8. CASE n.event \in Extending
    <3>1. grants'[p] = grants[p] + 1
      BY <1>3, <1>6, <1>9, <2>8
    <3>2. log[Key(n)] = 0 /\ log'[Key(n)] # 0
      <4>1. n.event \notin {"ended", "other"}
        BY <2>8 DEF Extending
      <4>2. log[Key(n)] = 0
        BY <1>2, <2>1, <4>1 DEF Metered
      <4> QED
        BY <1>3, <1>5, <1>6, <4>1, <4>2
    <3>3. n.period \in terms[p]
      BY <1>2, <1>9 DEF Base, StoresSound, NoteSound
    <3>4. n.period \notin Spent(p) /\ n.period \in Spent(p)'
      <4>1. CASE p \in apple
        <5>1. Key(n) = <<p, <<"transaction", n.period>>>>
          BY <1>9, <4>1, Keys
        <5> QED
          BY <1>1, <3>2, <3>3, <4>1, <5>1 DEF Spent
      <4>2. CASE p \notin apple
        <5>1. Charges(n)
          BY <1>2, <2>1, <2>8, <4>2 DEF Metered, Extending, Charges
        <5>2. n.period \notin Spent(p)
          BY <1>2, <1>9, <3>2, <4>2, <5>1 DEF Spent
        <5>3. ASSUME NEW m \in Known', m.p = p, Charges(m), m.period = n.period
              PROVE  log'[Key(m)'] # 0
          <6>1. m \in Known
            BY <1>1, <1>7 DEF Known, AtWork
          <6>2. m = n
            BY <1>2, <1>9, <5>1, <5>3, <6>1 DEF Base, StoresSound, Linked
          <6>3. Key(n)' = Key(n)
            BY <1>1 DEF Key, EventId
          <6> QED
            BY <3>2, <6>2, <6>3
        <5>4. \A m \in Known' : m.p = p /\ Charges(m)' /\ m.period = n.period => log'[Key(m)'] # 0
          BY <5>3 DEF Charges
        <5>5. n.period \in terms'[p] /\ p \notin apple'
          BY <1>1, <3>3, <4>2
        <5> QED
          BY <5>2, <5>4, <5>5 DEF Spent
      <4> QED
        BY <4>1, <4>2
    <3>5. Cardinality(Spent(p)) + 1 <= Cardinality(Spent(p)')
      <4>1. PICK S : S = Spent(p) /\ IsFiniteSet(S)
        BY <1>0, SpentGrows
      <4>2. PICK T : T = Spent(p)' /\ IsFiniteSet(T) /\ S \subseteq T
        BY <1>0, <4>1, SpentGrows
      <4>3. Cardinality(S \cup {n.period}) = Cardinality(S) + 1 /\ S \cup {n.period} \subseteq T
        BY <3>4, <4>1, <4>2, FS_AddElement
      <4>4. Cardinality(S \cup {n.period}) <= Cardinality(T)
        BY <4>2, <4>3, FS_Subset
      <4> QED
        BY <4>1, <4>2, <4>3, <4>4
    <3> QED
      BY <1>6, <2>2, <2>3, <2>5, <2>6, <3>1, <3>5 DEF Metered
  <2> QED
    BY <2>7, <2>8
<1> QED
  BY <1>8, <1>9

\* A request finds no row; for p it is the only one, or p is not metered any more.
LEMMA MeteredVerify ==
    ASSUME Base, NEW c \in Clients, NEW q \in Purchases, VerifyPurchase(c, q),
           NEW p \in Purchases, p \notin unmetered', Metered(p)
    PROVE  Metered(p)'
<1>0. [Next]_vars
  BY DEF Next
<1>1. Typed /\ UNCHANGED <<rows, log, grants, hook>> /\ grants[p] \in Nat
  BY DEF Base, Basics, Typed, VerifyPurchase, tables
<1>2. SameRows(p)
  BY <1>0, <1>1, RowsOfStay
<1>3. PICK end \in Times : client' = [client EXCEPT ![c] = [p |-> q, end |-> end]]
  <2>1. Shown(q) \subseteq Times
    BY <1>1, ShownHad DEF Base, Typed
  <2> QED
    BY <2>1 DEF VerifyPurchase
<1>4. client' [c].p = q /\ \A d \in Clients : d # c => client'[d] = client[d]
  BY <1>1, <1>3 DEF Typed
<1>5. CASE q # p
  <2>1. \A d \in Clients : client'[d] # Idle /\ client'[d].p = p => client'[d] = client[d]
    BY <1>4, <1>5
  <2> QED
    BY <1>0, <1>1, <1>2, <2>1, MeteredElsewhere
<1>6. CASE q = p
  <2>1. RowsOf(p) = {} /\ RowsOf(p)' = {} /\ \A d \in Clients : ~(client[d] # Idle /\ client[d].p = p)
    BY <1>2, <1>6 DEF VerifyPurchase, SameRows
  <2>2. grants'[p] = 0 /\ AtWorkOn(p)' = {} /\ \A k \in EventIds : k[1] = p => log'[k] = 0
    BY <1>1, <2>1 DEF Metered, AtWorkOn
  <2>3. \A d \in Clients : client'[d] # Idle /\ client'[d].p = p => d = c
    BY <1>4, <2>1
  <2>4. Cardinality(Spent(p)') \in Nat
    BY <1>0, SpentGrows, FS_CardinalityType
  <2> QED
    BY <2>1, <2>2, <2>3, <2>4 DEF Metered
<1> QED
  BY <1>5, <1>6

LEMMA CreditedStart == Init => Credited
<1> SUFFICES ASSUME Init, NEW p \in Purchases PROVE Metered(p)
  BY DEF Credited
<1>1. /\ terms[p] = {} /\ grants[p] = 0 /\ AtWorkOn(p) = {} /\ RowsOf(p) = {}
      /\ \A k \in EventIds : log[k] = 0
      /\ \A c \in Clients : client[c] = Idle
  BY DEF Init, AtWorkOn, RowsOf
<1>2. Spent(p) = {}
  BY <1>1 DEF Spent
<1>3. Cardinality(Spent(p)) = 0
  BY <1>2, FS_EmptySet
<1> QED
  BY <1>1, <1>3 DEF Metered

LEMMA CreditedStep == Base /\ Credited /\ [Next]_vars => Credited'
<1> SUFFICES ASSUME Base, Credited, [Next]_vars, NEW p \in Purchases, p \notin unmetered'
             PROVE  Metered(p)'
  BY DEF Credited
<1>1. unmetered \subseteq unmetered'
  BY DEF Next, Store, Tick, VerifyPurchase, HandleInitialPurchase, HookDrops, HookReads,
         HookCommits, HookFails, JobReads, JobCommits, JobFails, vars, history
<1>2. Metered(p)
  BY <1>1 DEF Credited
<1>3. Typed /\ grants[p] \in Nat
  BY DEF Base, Basics, Typed
<1>4. ASSUME DOMAIN rows' = DOMAIN rows, UNCHANGED <<log, grants, client>>,
             UNCHANGED hook \/ \E h \in Hooks : hook' = [hook EXCEPT ![h] = Idle]
      PROVE  Metered(p)'
  <2>1. SameRows(p)
    BY <1>4, RowsOfStay
  <2>2. \A h \in Hooks : hook'[h] # Idle /\ hook'[h].note.p = p => hook'[h] = hook[h]
    BY <1>3, <1>4 DEF Typed
  <2> QED
    BY <1>2, <1>3, <1>4, <2>1, <2>2, MeteredElsewhere
<1>5. CASE Tick \/ UNCHANGED vars \/ \E q \in Purchases : Store(q)
  BY <1>4, <1>5 DEF Tick, vars, Store, tables
<1>6. CASE \E c \in Clients, q \in Purchases : VerifyPurchase(c, q)
  BY <1>2, <1>6, MeteredVerify
<1>7. CASE \E c \in Clients : HandleInitialPurchase(c)
  BY <1>2, <1>7, MeteredInitial
<1>8. CASE \E n \in notes : HookDrops(n)
  BY <1>4, <1>8 DEF HookDrops, tables
<1>9. CASE \E n \in notes, h \in Hooks : HookReads(h, n)
  BY <1>2, <1>9, MeteredReads
<1>10. CASE \E h \in Hooks : HookCommits(h)
  BY <1>2, <1>10, MeteredCommits
<1>11. CASE \E h \in Hooks : HookFails(h)
  BY <1>4, <1>11 DEF HookFails, tables
<1>12. CASE JobReads \/ JobFails
  BY <1>4, <1>12 DEF JobReads, JobFails, tables
<1>13. CASE JobCommits
  <2>1. DOMAIN rows' = DOMAIN rows
    BY <1>13, JobWrites DEF Base, Basics
  <2> QED
    BY <1>4, <1>13, <2>1 DEF JobCommits
<1> QED
  BY <1>5, <1>6, <1>7, <1>8, <1>9, <1>10, <1>11, <1>12, <1>13 DEF Next

\* What everything above rests on holds in every state.
LEMMA BaseHolds == Spec => []Base
<1>1. Init => Base
  BY BaseStart
<1>2. Base /\ [Next]_vars => Base'
  BY BaseStep
<1> QED
  BY <1>1, <1>2, PTL DEF Spec

\* Every variable keeps its type: what is handled and what the job is to expire are rows
\* that are there (handleAppleNotification, handleGoogleNotification, expireSubscriptions).
THEOREM TypeCorrect == Spec => []TypeOK
<1>1. Base => TypeOK
  BY TypesSplit DEF Base, Basics
<1> QED
  BY <1>1, BaseHolds, PTL

\* However notifications are lost, repeated and reordered, a customer gets no more credits
\* than for the periods that the store charged or deferred to, but where two requests or two notifications of
\* one id passed the check at once, or Google's restart brought credits of its own
\* (isEventAlreadyProcessed, handleInitialPurchase, handleRenewal, handleBillingRecovery).
THEOREM CreditsFollowTerms == Spec => []CreditsFollowPeriods
<1>1. Init => Credited
  BY CreditedStart
<1>2. Base /\ Credited /\ [Next]_vars => Credited'
  BY CreditedStep
<1>3. Base /\ Credited => CreditsFollowPeriods
  <2> SUFFICES ASSUME Base, Credited, NEW p \in Purchases \ unmetered
               PROVE  grants[p] <= Cardinality(terms[p])
    BY DEF CreditsFollowPeriods
  <2>1. grants[p] \in Nat /\ terms[p] \subseteq Times /\ IsFiniteSet(Times)
    <3>1. IsFiniteSet(Times)
      BY Bounds, FS_Interval DEF Times
    <3> QED
      BY <3>1 DEF Base, Basics, Typed
  <2>2. Spent(p) \subseteq terms[p] /\ IsFiniteSet(terms[p])
    BY <2>1, FS_Subset DEF Spent
  <2>3. /\ Cardinality(Spent(p)) <= Cardinality(terms[p])
        /\ Cardinality(Spent(p)) \in Nat /\ Cardinality(terms[p]) \in Nat
    BY <2>2, FS_Subset, FS_CardinalityType
  <2>4. grants[p] <= Cardinality(Spent(p))
    BY DEF Credited, Metered
  <2> QED
    BY <2>1, <2>3, <2>4
<1> QED
  BY <1>1, <1>2, <1>3, BaseHolds, PTL DEF Spec

-----------------------------------------------------------------------------
(* Google's purchases whose notifications arrive in order.                 *)

\* The status of a row for a state at the store.
Agrees(state) ==
    CASE state = "failing"  -> {"GRACE_PERIOD"}
      [] state = "refunded" -> {"REVOKED"}
      [] state = "ended"    -> {"EXPIRED"}
      [] OTHER              -> {"ACTIVE"}

\* The statuses that agree with the store, as it was before the next notification of p.
Right(p) ==
    {s \in Statuses :
        \/ last[p] = sent[p] /\ s \in Agrees(store[p].state)
        \/ \E n \in notes : /\ n.p = p /\ n.number = last[p] + 1
                            /\ \E state \in Before(n.event) : s \in Agrees(state)}

\* A charge for a further period is still to be notified.
Due(p) == \E n \in notes : n.p = p /\ last[p] < n.number /\ Charges(n)

Fits(p, row) == row.status \in Right(p) \/ (row.status = "EXPIRED" /\ row.end <= now)
Ends(p, end) == end = store[p].period \/ Due(p)

\* What was sent after the highest notification that was delivered can still come.
Covered(p) ==
    \A k \in Nat : last[p] < k /\ k <= sent[p] => \E n \in notes : n.p = p /\ n.number = k

\* One request, one row, one handler at a time.
Apart(p) ==
    /\ \A c \in Clients : client[c] # Idle /\ client[c].p = p =>
          /\ RowsOf(p) = {}
          /\ \A d \in Clients : client[d] # Idle /\ client[d].p = p => d = c
    /\ RowsOf(p) = {} => last[p] <= 1 /\ AtWorkOn(p) = {}
    /\ \A i, j \in RowsOf(p) : i = j
    /\ \A g, h \in AtWorkOn(p) : g = h

\* Nothing is recorded or handled before its turn.
InOrder(p) ==
    /\ \A k \in Numbers : log[<<p, <<"message", k>>>>] # 0 => k <= last[p]
    /\ \A h \in AtWorkOn(p) : hook[h].note.number = last[p] /\ hook[h].note.event # "other"

\* What is to be written, or is written, is what the store has, or will be.
Applied(p) ==
    /\ \A c \in Clients : client[c] # Idle /\ client[c].p = p => Ends(p, client[c].end)
    /\ \A h \in AtWorkOn(p) :
          /\ hook[h].note.event = "cancelled" => Fits(p, rows[hook[h].row])
          /\ hook[h].note.event \in Extending => Ends(p, hook[h].end)
          /\ hook[h].note.event \notin Extending => Ends(p, rows[hook[h].row].end)
    /\ AtWorkOn(p) = {} => \A i \in RowsOf(p) : Fits(p, rows[i]) /\ Ends(p, rows[i].end)

Followed(p) == Covered(p) /\ Apart(p) /\ InOrder(p) /\ Applied(p)

AllFollowed == \A p \in Purchases \ (apple \cup excused) : Followed(p)

\* Nothing at the store of p moves.
LEMMA NothingMoved ==
    ASSUME NEW p, last'[p] = last[p], sent'[p] = sent[p], store'[p] = store[p],
           \A n : n.p = p => (n \in notes' <=> n \in notes)
    PROVE  /\ Right(p)' = Right(p)
           /\ Due(p) => Due(p)'
           /\ Covered(p) => Covered(p)'
<1>1. Right(p)' = Right(p)
  BY DEF Right
<1>2. Due(p) => Due(p)'
  BY DEF Due, Charges
<1>3. Covered(p) => Covered(p)'
  BY DEF Covered
<1> QED
  BY <1>1, <1>2, <1>3

\* Nothing is bought of a purchase that the store has not sent anything about.
LEMMA NothingBought ==
    ASSUME Base, NEW p \in Purchases, sent[p] = 0
    PROVE  /\ RowsOf(p) = {} /\ AtWorkOn(p) = {}
           /\ \A c \in Clients : ~(client[c] # Idle /\ client[c].p = p)
<1>1. terms[p] = {}
  BY DEF Base, StoresSound, StoreSound
<1>2. RowsOf(p) = {}
  BY <1>1 DEF Base, Recorded, RowsOf
<1>3. AtWorkOn(p) = {}
  BY <1>2 DEF Base, Basics, Recorded, RowsThere, RowsOf, AtWorkOn
<1>4. \A c \in Clients : ~(client[c] # Idle /\ client[c].p = p)
  BY <1>1 DEF Base, Recorded
<1> QED
  BY <1>2, <1>3, <1>4

LEMMA HandledRow ==
    ASSUME Base, NEW p, NEW h \in AtWorkOn(p)
    PROVE  hook[h].row \in RowsOf(p)
BY DEF Base, Basics, Recorded, RowsThere, RowsOf, AtWorkOn

\* A step that writes nothing for p but what fits.
LEMMA FollowedOn ==
    ASSUME Base, [Next]_vars, NEW p \in Purchases, Followed(p), SameRows(p),
           \A i \in RowsOf(p) : rows'[i].end = rows[i].end /\ (Fits(p, rows[i]) => Fits(p, rows[i])'),
           \A k \in EventIds : k[1] = p => log'[k] = log[k],
           \A c \in Clients : client'[c] # Idle /\ client'[c].p = p => client'[c] = client[c],
           \A h \in Hooks : (hook[h] # Idle /\ hook[h].note.p = p) \/ (hook'[h] # Idle /\ hook'[h].note.p = p)
                               => hook'[h] = hook[h],
           last[p] <= last'[p], RowsOf(p) = {} => last'[p] <= 1,
           AtWorkOn(p) = {} \/ last'[p] = last[p],
           Covered(p)', Due(p) => Due(p)',
           store'[p].period = store[p].period \/ Due(p)' \/ sent[p] = 0
    PROVE  Followed(p)'
<1>1. Typed /\ Typed' /\ apple' = apple /\ last[p] \in Nat /\ last'[p] \in Nat
  BY AppleStays, BaseStep DEF Base, Basics, Typed
<1>2. AtWorkOn(p)' = AtWorkOn(p) /\ \A h \in AtWorkOn(p) : hook'[h] = hook[h]
  BY DEF AtWorkOn
<1>3. RowsOf(p)' = RowsOf(p)
  BY DEF SameRows
<1>4. Apart(p)'
  BY <1>2, <1>3 DEF Apart, Followed
<1>5. InOrder(p)'
  <2>1. ASSUME NEW k \in Numbers, log'[<<p, <<"message", k>>>>] # 0 PROVE k <= last'[p]
    <3>1. <<p, <<"message", k>>>> \in EventIds /\ <<p, <<"message", k>>>>[1] = p
      BY DEF EventIds
    <3>2. log[<<p, <<"message", k>>>>] # 0
      BY <2>1, <3>1
    <3>3. k \in Nat /\ k <= last[p]
      BY <3>2, Bounds DEF Numbers, Followed, InOrder
    <3> QED
      BY <1>1, <3>3
  <2>2. \A h \in AtWorkOn(p)' : hook'[h].note.number = last'[p] /\ hook'[h].note.event # "other"
    BY <1>2 DEF Followed, InOrder
  <2> QED
    BY <2>1, <2>2 DEF InOrder
<1>6. ASSUME NEW end, Ends(p, end) PROVE (end = store'[p].period \/ Due(p)') \/ sent[p] = 0
  BY <1>6 DEF Ends
<1>7. Applied(p)'
  <2>1. CASE sent[p] = 0
    BY <1>2, <1>3, <2>1, NothingBought DEF Applied
  <2>2. CASE sent[p] # 0
    <3>1. ASSUME NEW c \in Clients, client'[c] # Idle, client'[c].p = p
          PROVE  client'[c].end = store'[p].period \/ Due(p)'
      BY <1>6, <2>2, <3>1 DEF Followed, Applied
    <3>2. ASSUME NEW i \in RowsOf(p), Ends(p, rows[i].end)
          PROVE  rows'[i].end = store'[p].period \/ Due(p)'
      BY <1>6, <2>2, <3>2
    <3>3. ASSUME NEW h \in AtWorkOn(p)'
          PROVE  /\ hook'[h].note.event = "cancelled" => Fits(p, rows[hook[h].row])'
                 /\ hook'[h].note.event \in Extending =>
                       hook'[h].end = store'[p].period \/ Due(p)'
                 /\ hook'[h].note.event \notin Extending =>
                       rows'[hook'[h].row].end = store'[p].period \/ Due(p)'
      <4>1. h \in AtWorkOn(p) /\ hook'[h] = hook[h] /\ hook[h].row \in RowsOf(p)
        BY <1>2, HandledRow
      <4>2. PICK i \in RowsOf(p) : i = hook[h].row /\ i = hook'[h].row
        BY <4>1
      <4>3. hook[h].note.event = "cancelled" => Fits(p, rows[i])
        BY <4>1, <4>2 DEF Followed, Applied
      <4>4. hook[h].note.event = "cancelled" => Fits(p, rows[i])'
        BY <4>3
      <4>5. hook'[h].note.event = "cancelled" => Fits(p, rows[hook[h].row])'
        BY <4>1, <4>2, <4>4 DEF Fits
      <4>6. hook[h].note.event \in Extending => Ends(p, hook[h].end)
        BY <4>1 DEF Followed, Applied
      <4>7. hook[h].note.event \notin Extending => Ends(p, rows[i].end)
        BY <4>1, <4>2 DEF Followed, Applied
      <4> QED
        BY <1>6, <2>2, <3>2, <4>1, <4>2, <4>5, <4>6, <4>7
    <3>4. AtWorkOn(p)' = {} => \A i \in RowsOf(p)' :
                                  /\ Fits(p, rows[i])'
                                  /\ rows'[i].end = store'[p].period \/ Due(p)'
      BY <1>2, <1>3, <3>2 DEF Followed, Applied
    <3> QED
      BY <3>1, <3>3, <3>4 DEF Applied, Ends
  <2> QED
    BY <2>1, <2>2
<1> QED
  BY <1>4, <1>5, <1>7 DEF Followed

LEMMA AgreesStatus == \A state : Agrees(state) \subseteq Statuses
BY DEF Agrees, Statuses

\* A row that agrees with the last notification delivered is right.
LEMMA Landed ==
    ASSUME Base, NEW p \in Purchases, NEW n \in Known, n.p = p,
           UNCHANGED <<store, sent>>, notes' \subseteq notes,
           last'[p] = n.number, Covered(p)'
    PROVE  Agrees(After(n.event)) \subseteq Right(p)'
<1>1. n \in Notes /\ NoteSound(n) /\ n.number \in Nat /\ sent[p] \in Nat /\ n.number <= sent[p]
  <2>1. n \in Notes /\ NoteSound(n) /\ sent[p] \in Nat
    BY KnownNotes DEF Base, Basics, StoresSound, Typed
  <2> QED
    BY <2>1, NoteFields, Bounds DEF Numbers, NoteSound
<1> SUFFICES ASSUME NEW s \in Agrees(After(n.event)) PROVE s \in Right(p)'
  OBVIOUS
<1>2. s \in Statuses
  BY AgreesStatus
<1>3. CASE n.number = sent[p]
  <2>1. store[p].state = After(n.event)
    BY <1>1, <1>3 DEF NoteSound
  <2> QED
    BY <1>2, <1>3, <2>1 DEF Right
<1>4. CASE n.number # sent[p]
  <2>1. PICK m \in notes' : m.p = p /\ m.number = n.number + 1
    BY <1>1, <1>4 DEF Covered
  <2>2. After(n.event) \in Before(m.event)
    BY <2>1 DEF Base, StoresSound, Linked, Known
  <2> QED
    BY <1>2, <2>1, <2>2 DEF Right
<1> QED
  BY <1>3, <1>4

\* A notification that is delivered in order is the last one again, or the next.
LEMMA Received ==
    ASSUME Base, NEW p \in Purchases, Followed(p), NEW n \in notes, n.p = p,
           Deliver(n), ~Reordered(n), UNCHANGED <<store, sent>>
    PROVE  /\ AtWorkOn(p) = {} /\ last'[p] = n.number /\ last[p] <= last'[p]
           /\ Covered(p)'
           /\ Agrees(After(n.event)) \subseteq Right(p)'
           /\ \/ /\ last'[p] = last[p]
                 /\ Right(p)' = Right(p) /\ (Due(p) => Due(p)')
              \/ /\ last'[p] = last[p] + 1
                 /\ \A s \in Right(p) : \E state \in Before(n.event) : s \in Agrees(state)
                 /\ ~Charges(n) /\ Due(p) => Due(p)'
<1>1. /\ n \in Notes /\ n.number \in Nat /\ notes' \subseteq notes /\ notes \ {n} \subseteq notes'
      /\ last'[p] = IF n.number > last[p] THEN n.number ELSE last[p]
  BY Delivered DEF Base, Basics, Deliver
<1>2. /\ last[p] \in Nat /\ sent[p] \in Nat /\ AtWorkOn(p) = {}
      /\ n.number = last[p] \/ n.number = last[p] + 1
  BY <1>1 DEF Base, Basics, Typed, Reordered
<1>3. last'[p] = n.number /\ last[p] <= last'[p] /\ n.number <= sent[p]
  BY <1>1, <1>2 DEF Base, StoresSound, Known, NoteSound
<1>4. \A m \in notes : m.p = p /\ m.number = n.number => m = n
  BY DEF Base, StoresSound, Linked, Known
<1>5. \A m \in notes : m.p = p /\ m.number # n.number => m \in notes'
  BY <1>1
<1>6. Covered(p)'
  <2> SUFFICES ASSUME NEW k \in Nat, last'[p] < k, k <= sent'[p]
               PROVE  \E m \in notes' : m.p = p /\ m.number = k
    BY DEF Covered
  <2>1. PICK m \in notes : m.p = p /\ m.number = k
    BY <1>2, <1>3 DEF Followed, Covered
  <2> QED
    BY <1>3, <1>5, <2>1
<1>7. Agrees(After(n.event)) \subseteq Right(p)'
  BY <1>1, <1>3, <1>6, Landed DEF Known
<1>8. CASE n.number = last[p]
  <2>1. \A m \in notes : m.p = p /\ m.number # last[p] => m \in notes'
    BY <1>5, <1>8
  <2>2. \A m \in notes : m.p = p /\ (m.number = last[p] + 1 \/ last[p] < m.number) => m \in notes'
    BY <1>2, <2>1, NoteFields, Bounds DEF Numbers, Base, Basics, Typed
  <2>3. last'[p] = last[p] /\ sent'[p] = sent[p] /\ store'[p] = store[p]
    BY <1>3, <1>8
  <2>4. Right(p)' = Right(p)
    BY <1>1, <2>2, <2>3 DEF Right
  <2>5. Due(p) => Due(p)'
    BY <2>2, <2>3 DEF Due, Charges
  <2> QED
    BY <1>2, <1>3, <1>6, <1>7, <1>8, <2>4, <2>5
<1>9. CASE n.number = last[p] + 1
  <2>1. last[p] # sent[p]
    BY <1>2, <1>3, <1>9
  <2>2. \A s \in Right(p) : \E state \in Before(n.event) : s \in Agrees(state)
    BY <1>4, <1>9, <2>1 DEF Right
  <2>3. ASSUME ~Charges(n), Due(p) PROVE Due(p)'
    <3>1. PICK m \in notes : m.p = p /\ last[p] < m.number /\ Charges(m)
      BY <2>3 DEF Due
    <3>2. m.number # n.number /\ m.number \in Nat
      BY <1>4, <2>3, <3>1, NoteFields, Bounds DEF Numbers, Base, Basics, Typed
    <3>3. m \in notes' /\ last'[p] < m.number
      BY <1>2, <1>3, <1>5, <1>9, <3>1, <3>2
    <3> QED
      BY <3>1, <3>3 DEF Due, Charges
  <2> QED
    BY <1>2, <1>3, <1>6, <1>7, <1>9, <2>2, <2>3
<1> QED
  BY <1>2, <1>8, <1>9

LEMMA TimeRises ==
    ASSUME Typed, [Next]_vars
    PROVE  now <= now'
<1>1. now \in Nat
  BY Bounds DEF Typed, Times
<1>2. now' = now \/ now' = now + 1
  BY DEF Next, Store, Tick, VerifyPurchase, HandleInitialPurchase, HookDrops, HookReads, HookCommits,
         HookFails, JobReads, JobCommits, JobFails, vars, stores
<1> QED
  BY <1>1, <1>2

\* A row that is not written fits as long as it is right.
LEMMA FitsStays ==
    ASSUME Base, [Next]_vars, NEW p, NEW i \in DOMAIN rows, rows'[i] = rows[i],
           rows[i].status \in Right(p) => rows[i].status \in Right(p)'
    PROVE  Fits(p, rows[i]) => Fits(p, rows[i])'
<1>1. now <= now' /\ now \in Nat /\ now' \in Nat /\ rows[i].end \in Nat
  <2>1. Typed /\ Typed' /\ now <= now'
    BY TimeRises, BaseStep DEF Base, Basics
  <2>2. now \in Times /\ now' \in Times /\ rows[i].end \in Times
    BY <2>1, RowFields DEF Typed
  <2> QED
    BY <2>1, <2>2, Bounds DEF Times
<1> QED
  BY <1>1 DEF Fits

\* A step that is not about p.
LEMMA FollowedElsewhere ==
    ASSUME Base, [Next]_vars, NEW p \in Purchases, Followed(p), SameRows(p),
           \A i \in RowsOf(p) : rows'[i] = rows[i],
           \A k \in EventIds : k[1] = p => log'[k] = log[k],
           \A c \in Clients : client'[c] # Idle /\ client'[c].p = p => client'[c] = client[c],
           \A h \in Hooks : (hook[h] # Idle /\ hook[h].note.p = p) \/ (hook'[h] # Idle /\ hook'[h].note.p = p)
                               => hook'[h] = hook[h],
           last'[p] = last[p], sent'[p] = sent[p], store'[p] = store[p],
           \A n : n.p = p => (n \in notes' <=> n \in notes)
    PROVE  Followed(p)'
<1>1. Right(p)' = Right(p) /\ (Due(p) => Due(p)') /\ Covered(p)'
  BY NothingMoved DEF Followed
<1>2. \A i \in RowsOf(p) : rows'[i].end = rows[i].end /\ (Fits(p, rows[i]) => Fits(p, rows[i])')
  <2> SUFFICES ASSUME NEW i \in RowsOf(p)
               PROVE  rows'[i].end = rows[i].end /\ (Fits(p, rows[i]) => Fits(p, rows[i])')
    OBVIOUS
  <2>1. i \in DOMAIN rows /\ rows'[i] = rows[i]
    BY DEF RowsOf
  <2> QED
    BY <1>1, <2>1, FitsStays
<1>3. last[p] \in Nat /\ (RowsOf(p) = {} => last[p] <= 1)
  BY DEF Base, Basics, Typed, Followed, Apart
<1> QED
  BY <1>1, <1>2, <1>3, FollowedOn

\* The store's step is told by the next notification of all.
LEMMA FollowedStore ==
    ASSUME Base, NEW q \in Purchases, Store(q), NEW p \in Purchases, Followed(p)
    PROVE  Followed(p)'
<1>0. [Next]_vars
  BY DEF Next
<1>1. Typed /\ UNCHANGED <<rows, log, client, hook, last, now>>
  BY DEF Base, Basics, Store, tables, history
<1>2. SameRows(p)
  BY <1>0, <1>1, RowsOfStay
<1>3. PICK m : Moved(q, m)
  BY <1>1, StoreMoves
<1>4. /\ m.p = q /\ m.number = sent[q] + 1 /\ store[q].state \in Before(m.event)
      /\ sent' = [sent EXCEPT ![q] = @ + 1] /\ notes' = notes \cup {m}
      /\ store' = [store EXCEPT ![q] = [state |-> After(m.event), period |-> m.period]]
      /\ m.event \notin Charging => m.period = store[q].period
  BY <1>3 DEF Moved
<1>5. CASE q # p
  <2>1. sent'[p] = sent[p] /\ store'[p] = store[p]
    BY <1>1, <1>4, <1>5 DEF Typed
  <2>2. \A n : n.p = p => (n \in notes' <=> n \in notes)
    BY <1>4, <1>5
  <2> QED
    BY <1>0, <1>1, <1>2, <2>1, <2>2, FollowedElsewhere
<1>6. CASE q = p
  <2>1. /\ sent[p] \in Nat /\ last[p] \in Nat /\ last[p] <= sent[p]
        /\ sent'[p] = sent[p] + 1 /\ store'[p].period = m.period
    BY <1>1, <1>4, <1>6 DEF Typed, Base, Recorded
  <2>2. Covered(p)'
    <3> SUFFICES ASSUME NEW k \in Nat, last[p] < k, k <= sent[p] + 1
                 PROVE  \E n \in notes' : n.p = p /\ n.number = k
      BY <1>1, <2>1 DEF Covered
    <3>1. CASE k = sent[p] + 1
      BY <1>4, <1>6, <3>1
    <3>2. CASE k <= sent[p]
      BY <1>4, <3>2 DEF Followed, Covered
    <3> QED
      BY <2>1, <3>1, <3>2
  <2>3. \A s \in Right(p) : s \in Right(p)'
    <3> SUFFICES ASSUME NEW s \in Right(p) PROVE s \in Right(p)'
      OBVIOUS
    <3>1. CASE last[p] = sent[p] /\ s \in Agrees(store[p].state)
      <4>1. m \in notes' /\ m.p = p /\ m.number = last'[p] + 1 /\ s \in Statuses
        BY <1>1, <1>4, <1>6, <3>1 DEF Right
      <4>2. \E state \in Before(m.event) : s \in Agrees(state)
        BY <1>4, <1>6, <3>1
      <4> QED
        BY <4>1, <4>2 DEF Right
    <3>2. CASE ~(last[p] = sent[p] /\ s \in Agrees(store[p].state))
      BY <1>1, <1>4, <3>2 DEF Right
    <3> QED
      BY <3>1, <3>2
  <2>4. Due(p) => Due(p)'
    BY <1>1, <1>4 DEF Due, Charges
  <2>5. store'[p].period = store[p].period \/ Due(p)' \/ sent[p] = 0
    <3>1. CASE m.event \notin Charging
      BY <1>4, <1>6, <2>1, <3>1
    <3>2. CASE m.event = "bought"
      <4>1. store[p].state = "none"
        BY <1>4, <1>6, <3>2 DEF Before
      <4> QED
        BY <4>1 DEF Base, StoresSound, StoreSound
    <3>3. CASE m.event \in {"renewed", "recovered", "deferred"}
      <4>1. last[p] < m.number
        BY <1>4, <1>6, <2>1
      <4> QED
        BY <1>1, <1>4, <1>6, <3>3, <4>1 DEF Due, Charges
    <3> QED
      BY <3>1, <3>2, <3>3 DEF Charging
  <2>6. \A i \in RowsOf(p) : rows'[i].end = rows[i].end /\ (Fits(p, rows[i]) => Fits(p, rows[i])')
    <3> SUFFICES ASSUME NEW i \in RowsOf(p)
                 PROVE  rows'[i].end = rows[i].end /\ (Fits(p, rows[i]) => Fits(p, rows[i])')
      OBVIOUS
    <3>1. i \in DOMAIN rows /\ rows'[i] = rows[i]
      BY <1>1 DEF RowsOf
    <3> QED
      BY <1>0, <2>3, <3>1, FitsStays
  <2>7. last[p] <= last'[p] /\ last'[p] = last[p] /\ (RowsOf(p) = {} => last'[p] <= 1)
    BY <1>1, <2>1 DEF Followed, Apart
  <2> QED
    BY <1>0, <1>1, <1>2, <2>2, <2>4, <2>5, <2>6, <2>7, FollowedOn
<1> QED
  BY <1>5, <1>6

\* The client is told the period that the store is in.
LEMMA FollowedVerify ==
    ASSUME Base, NEW c \in Clients, NEW q \in Purchases, VerifyPurchase(c, q),
           NEW p \in Purchases \ apple, p \notin excused', Followed(p)
    PROVE  Followed(p)'
<1>0. [Next]_vars
  BY DEF Next
<1>1. Typed /\ UNCHANGED <<rows, log, hook, last, sent, store, notes>>
  BY DEF Base, Basics, VerifyPurchase, stores, tables
<1>2. SameRows(p)
  BY <1>0, <1>1, RowsOfStay
<1>3. PICK end \in Shown(q) : client' = [client EXCEPT ![c] = [p |-> q, end |-> end]]
  BY DEF VerifyPurchase
<1>4. client'[c].p = q /\ client'[c].end = end /\ \A d \in Clients : d # c => client'[d] = client[d]
  BY <1>1, <1>3 DEF Typed
<1>5. CASE q # p
  <2>1. \A d \in Clients : client'[d] # Idle /\ client'[d].p = p => client'[d] = client[d]
    BY <1>4, <1>5
  <2> QED
    BY <1>0, <1>1, <1>2, <2>1, FollowedElsewhere
<1>6. CASE q = p
  <2>1. RowsOf(p) = {} /\ RowsOf(p)' = {} /\ \A d \in Clients : ~(client[d] # Idle /\ client[d].p = p)
    BY <1>2, <1>6 DEF VerifyPurchase, SameRows
  <2>2. AtWorkOn(p) = {} /\ AtWorkOn(p)' = {} /\ last'[p] <= 1
    BY <1>1, <2>1 DEF Followed, Apart, AtWorkOn
  <2>3. \A d \in Clients : client'[d] # Idle /\ client'[d].p = p => d = c
    BY <1>4, <2>1
  <2>4. end = store[p].period
    BY <1>6 DEF Shown
  <2>5. Covered(p)'
    BY <1>1, NothingMoved DEF Followed
  <2>6. Apart(p)'
    BY <2>1, <2>2, <2>3 DEF Apart
  <2>7. InOrder(p)'
    BY <1>1, <2>2 DEF Followed, InOrder
  <2>8. \A d \in Clients : client'[d] # Idle /\ client'[d].p = p => client'[d].end = store'[p].period
    BY <1>1, <1>4, <2>3, <2>4
  <2>9. Applied(p)'
    BY <2>1, <2>2, <2>8 DEF Applied, Ends
  <2> QED
    BY <2>5, <2>6, <2>7, <2>9 DEF Followed
<1> QED
  BY <1>5, <1>6

\* The row of a purchase is written before anything but the purchase is notified.
LEMMA FollowedInitial ==
    ASSUME Base, NEW c \in Clients, HandleInitialPurchase(c),
           NEW p \in Purchases \ apple, Followed(p)
    PROVE  Followed(p)'
<1>0. [Next]_vars
  BY DEF Next
<1>1. Typed /\ UNCHANGED <<hook, last, sent, store, notes>>
  BY DEF Base, Basics, HandleInitialPurchase, stores, history
<1>2. PICK q \in Purchases, end \in Times : q = client[c].p /\ end = client[c].end /\ client[c] # Idle
  BY <1>1, ClientFields DEF HandleInitialPurchase
<1>3. PICK key \in EventIds : key = <<q, <<"transaction", end>>>> /\ key[1] = q
  <2>1. <<q, <<"transaction", end>>>> \in EventIds
    BY DEF EventIds
  <2> QED
    BY <2>1
<1>4. PICK row \in Rows : /\ row.p = q /\ row.status = "ACTIVE" /\ row.end = end
                          /\ rows' = Append(rows, row)
  BY <1>1, <1>2, InitialCommits
<1>5. /\ log' = IF q \in apple THEN [log EXCEPT ![key] = @ + 1] ELSE log
      /\ client' = [client EXCEPT ![c] = Idle]
  BY <1>2, <1>3 DEF HandleInitialPurchase
<1>6. /\ DOMAIN rows' = DOMAIN rows \cup {Len(rows) + 1} /\ rows'[Len(rows) + 1] = row
      /\ \A i \in DOMAIN rows : rows'[i] = rows[i]
  BY <1>1, <1>4, RowsGrow
<1>7. CASE q # p
  <2>1. SameRows(p) /\ \A i \in RowsOf(p) : rows'[i] = rows[i]
    BY <1>4, <1>6, <1>7 DEF SameRows, RowsOf
  <2>2. \A k \in EventIds : k[1] = p => log'[k] = log[k]
    BY <1>1, <1>3, <1>5, <1>7 DEF Typed
  <2>3. \A d \in Clients : client'[d] # Idle /\ client'[d].p = p => client'[d] = client[d]
    BY <1>1, <1>5 DEF Typed
  <2> QED
    BY <1>0, <1>1, <2>1, <2>2, <2>3, FollowedElsewhere
<1>8. CASE q = p
  <2>1. RowsOf(p) = {} /\ \A d \in Clients : client[d] # Idle /\ client[d].p = p => d = c
    BY <1>2, <1>8 DEF Followed, Apart
  <2>2. AtWorkOn(p) = {} /\ AtWorkOn(p)' = {} /\ last[p] <= 1 /\ last[p] \in Nat /\ sent[p] \in Nat
        /\ last[p] <= sent[p]
    BY <1>1, <2>1 DEF Followed, Apart, AtWorkOn, Typed, Base, Recorded
  <2>3. \A d \in Clients : ~(client'[d] # Idle /\ client'[d].p = p)
    BY <1>1, <1>5, <2>1 DEF Typed
  <2>4. RowsOf(p)' = {Len(rows) + 1}
    BY <1>4, <1>6, <1>8, <2>1 DEF RowsOf
  <2>5. Covered(p)' /\ Right(p)' = Right(p) /\ (Due(p) => Due(p)')
    BY <1>1, NothingMoved DEF Followed
  <2>6. Ends(p, end)
    BY <1>2, <1>8 DEF Followed, Applied
  <2>7. "ACTIVE" \in Right(p)
    <3>1. sent[p] # 0
      BY <1>2, <1>8, NothingBought
    <3>2. "ACTIVE" \in Agrees("active") /\ "ACTIVE" \in Agrees("none") /\ "ACTIVE" \in Statuses
      BY DEF Agrees, Statuses
    <3>3. CASE last[p] = sent[p]
      <4>1. sent[p] = 1
        BY <2>2, <3>1, <3>3
      <4>2. store[p].state = "active"
        BY <4>1 DEF Base, StoresSound, StoreSound
      <4> QED
        BY <3>2, <3>3, <4>2 DEF Right
    <3>4. CASE last[p] # sent[p]
      <4>1. PICK n \in notes : n.p = p /\ n.number = last[p] + 1
        BY <2>2, <3>4 DEF Followed, Covered
      <4>2. NoteSound(n)
        BY DEF Base, StoresSound, Known
      <4>3. CASE last[p] = 0
        <5>1. n.event = "bought"
          BY <4>1, <4>2, <4>3 DEF NoteSound
        <5>2. "none" \in Before(n.event)
          BY <5>1 DEF Before
        <5> QED
          BY <3>2, <4>1, <5>2 DEF Right
      <4>4. CASE last[p] = 1
        <5>1. "active" \in Before(n.event)
          BY <4>1, <4>2, <4>4 DEF NoteSound
        <5> QED
          BY <3>2, <4>1, <5>1 DEF Right
      <4> QED
        BY <2>2, <4>3, <4>4
    <3> QED
      BY <3>3, <3>4
  <2>8. Apart(p)'
    BY <1>1, <2>2, <2>3, <2>4 DEF Apart
  <2>9. InOrder(p)'
    BY <1>1, <1>5, <1>8, <2>2 DEF Followed, InOrder
  <2>10. end = store'[p].period \/ Due(p)'
    BY <1>1, <2>5, <2>6 DEF Ends
  <2>11. Applied(p)'
    BY <1>4, <1>6, <2>2, <2>3, <2>4, <2>5, <2>7, <2>10 DEF Applied, Fits, Ends
  <2> QED
    BY <2>5, <2>8, <2>9, <2>11 DEF Followed
<1> QED
  BY <1>7, <1>8

\* A notification that is dropped in its turn has nothing to say.
LEMMA FollowedDrops ==
    ASSUME Base, NEW n \in notes, HookDrops(n),
           NEW p \in Purchases \ apple, p \notin excused', Followed(p)
    PROVE  Followed(p)'
<1>0. [Next]_vars
  BY DEF Next
<1>1. /\ Typed /\ n \in Notes /\ Deliver(n) /\ ~Applies(n)
      /\ UNCHANGED <<rows, log, hook, client, sent, store>>
  BY DEF Base, Basics, Typed, HookDrops, stores, tables
<1>2. SameRows(p)
  BY <1>0, <1>1, RowsOfStay
<1>3. CASE n.p # p
  <2>1. last'[p] = last[p] /\ (notes' = notes \/ notes' = notes \ {n})
    BY <1>1, <1>3, Delivered
  <2>2. \A m : m.p = p => (m \in notes' <=> m \in notes)
    BY <1>3, <2>1
  <2> QED
    BY <1>0, <1>1, <1>2, <2>1, <2>2, FollowedElsewhere
<1>4. CASE n.p = p
  <2>1. ~Reordered(n) /\ (RowsOf(p) = {} => n.event = "bought")
    BY <1>4 DEF HookDrops
  <2>2. /\ AtWorkOn(p) = {} /\ last'[p] = n.number /\ last[p] <= last'[p]
        /\ Covered(p)'
        /\ Agrees(After(n.event)) \subseteq Right(p)'
        /\ \/ /\ last'[p] = last[p]
              /\ Right(p)' = Right(p) /\ (Due(p) => Due(p)')
           \/ /\ last'[p] = last[p] + 1
              /\ \A s \in Right(p) : \E state \in Before(n.event) : s \in Agrees(state)
              /\ ~Charges(n) /\ Due(p) => Due(p)'
    BY <1>1, <1>4, <2>1, Received
  <2>3. n.number \in Numbers /\ n.event \in StoreEvents /\ last[p] \in Nat
        /\ (n.event = "bought" <=> n.number = 1)
    BY <1>1, NoteFields DEF Base, StoresSound, NoteSound, Known, Typed
  <2>4. RowsOf(p) = {} => last'[p] <= 1
    BY <2>1, <2>2, <2>3
  <2>5. CASE last'[p] = last[p]
    <3>1. /\ Due(p) => Due(p)'
          /\ \A i \in RowsOf(p) : rows[i].status \in Right(p) => rows[i].status \in Right(p)'
      BY <2>2, <2>3, <2>5
    <3>2. \A i \in RowsOf(p) : rows'[i].end = rows[i].end /\ (Fits(p, rows[i]) => Fits(p, rows[i])')
      BY <1>0, <1>1, <3>1, FitsStays DEF RowsOf
    <3> QED
      BY <1>0, <1>1, <1>2, <2>2, <2>4, <3>1, <3>2, FollowedOn
  <2>6. CASE last'[p] = last[p] + 1
    <3>1. \A s \in Right(p) : \E state \in Before(n.event) : s \in Agrees(state)
      BY <2>2, <2>3, <2>6
    <3>2. n.event = "bought" \/ (n.event \in {"ended", "other"} /\ RowsOf(p) # {} /\ ~Open(Newest(p)))
      <4>1. log[Key(n)] # 0 => n.number <= last[p]
        <5>1. Key(n) = <<p, <<"message", n.number>>>>
          BY <1>1, <1>4, Keys
        <5> QED
          BY <2>3, <5>1 DEF Followed, InOrder
      <4>2. log[Key(n)] = 0
        BY <2>2, <2>3, <2>6, <4>1
      <4>3. RowsOf(p) # {} => \/ EventType(p, n.event) = "INITIAL_PURCHASE"
                              \/ EventType(p, n.event) = "EXPIRY" /\ ~Open(Newest(p))
        BY <1>1, <1>4, <4>2 DEF Applies
      <4>4. /\ EventType(p, n.event) = "INITIAL_PURCHASE" => n.event = "bought"
            /\ EventType(p, n.event) = "EXPIRY" => n.event \in {"ended", "other"}
        BY <2>3, EventTypes
      <4> QED
        BY <2>1, <4>3, <4>4
    <3>3. Due(p) => Due(p)'
      BY <2>2, <2>3, <2>6, <3>2 DEF Charges
    <3>4. ASSUME NEW i \in RowsOf(p), rows[i].status \in Right(p) PROVE rows[i].status \in Right(p)'
      <4>1. PICK state \in Before(n.event) : rows[i].status \in Agrees(state)
        BY <3>1, <3>4
      <4>2. CASE n.event = "bought"
        <5>1. state = "none" /\ After(n.event) = "active"
          BY <4>1, <4>2 DEF Before, After
        <5>2. Agrees(state) = Agrees(After(n.event))
          BY <5>1 DEF Agrees
        <5> QED
          BY <2>2, <4>1, <5>2
      <4>3. CASE n.event \in {"ended", "other"} /\ RowsOf(p) # {} /\ ~Open(Newest(p))
        <5>1. Newest(p) \in RowsOf(p)
          BY <1>1, <4>3, NewestRow
        <5>2. i = Newest(p)
          BY <5>1 DEF Followed, Apart
        <5>3. rows[i].status \notin {"ACTIVE", "GRACE_PERIOD"}
          BY <4>3, <5>2 DEF Open
        <5>4. state \in {"active", "cancelled", "failing"}
          BY <4>1, <4>3 DEF Before
        <5> QED
          BY <4>1, <5>3, <5>4 DEF Agrees
      <4> QED
        BY <3>2, <4>2, <4>3
    <3>5. \A i \in RowsOf(p) : rows'[i].end = rows[i].end /\ (Fits(p, rows[i]) => Fits(p, rows[i])')
      BY <1>0, <1>1, <3>4, FitsStays DEF RowsOf
    <3> QED
      BY <1>0, <1>1, <1>2, <2>2, <2>4, <3>3, <3>5, FollowedOn
  <2> QED
    BY <2>2, <2>5, <2>6
<1> QED
  BY <1>3, <1>4

\* A notification is read in its turn, and its row is the purchase's.
LEMMA FollowedReads ==
    ASSUME Base, NEW n \in notes, NEW h \in Hooks, HookReads(h, n),
           NEW p \in Purchases \ apple, p \notin excused', Followed(p)
    PROVE  Followed(p)'
<1>0. [Next]_vars
  BY DEF Next
<1>1. /\ Typed /\ n \in Notes /\ Deliver(n) /\ RowsOf(n.p) # {} /\ hook[h] = Idle
      /\ EventType(n.p, n.event) # "INITIAL_PURCHASE"
      /\ hook' = [hook EXCEPT ![h] = Job(n)]
      /\ UNCHANGED <<rows, log, client, sent, store, apple, now>>
  BY DEF Base, Basics, Typed, HookReads, Applies, stores, tables
<1>2. SameRows(p)
  BY <1>0, <1>1, RowsOfStay
<1>3. /\ Job(n).note = n /\ Job(n).row = Newest(n.p) /\ Job(n) # Idle
      /\ Job(n).end = IF n.p \in apple THEN n.period ELSE store[n.p].period
  BY <1>1, JobOf
<1>4. hook'[h] = Job(n) /\ \A g \in Hooks : g # h => hook'[g] = hook[g]
  BY <1>1 DEF Typed
<1>5. CASE n.p # p
  <2>1. last'[p] = last[p] /\ (notes' = notes \/ notes' = notes \ {n})
    BY <1>1, <1>5, Delivered
  <2>2. \A m : m.p = p => (m \in notes' <=> m \in notes)
    BY <1>5, <2>1
  <2>3. \A g \in Hooks : (hook[g] # Idle /\ hook[g].note.p = p) \/ (hook'[g] # Idle /\ hook'[g].note.p = p)
                            => hook'[g] = hook[g]
    BY <1>1, <1>3, <1>4, <1>5
  <2> QED
    BY <1>0, <1>1, <1>2, <2>1, <2>2, <2>3, FollowedElsewhere
<1>6. CASE n.p = p
  <2>1. ~Reordered(n) /\ n.event # "other"
    BY <1>6 DEF HookReads
  <2>2. /\ AtWorkOn(p) = {} /\ last'[p] = n.number /\ last[p] <= last'[p]
        /\ Covered(p)'
        /\ Agrees(After(n.event)) \subseteq Right(p)'
        /\ \/ /\ last'[p] = last[p]
              /\ Right(p)' = Right(p) /\ (Due(p) => Due(p)')
           \/ /\ last'[p] = last[p] + 1
              /\ \A s \in Right(p) : \E state \in Before(n.event) : s \in Agrees(state)
              /\ ~Charges(n) /\ Due(p) => Due(p)'
    BY <1>1, <1>6, <2>1, Received
  <2>3. /\ n.number \in Nat /\ last[p] \in Nat /\ n.event \in StoreEvents /\ n.event # "bought"
    BY <1>1, NoteFields, EventTypes, Bounds DEF Typed, Numbers
  <2>4. PICK i \in RowsOf(p) : i = Newest(p) /\ i \in DOMAIN rows
    BY <1>1, <1>6, NewestRow DEF RowsOf
  <2>5. RowsOf(p)' # {} /\ \A c \in Clients : ~(client'[c] # Idle /\ client'[c].p = p)
    BY <1>1, <1>2, <2>4 DEF Followed, Apart, SameRows
  <2>6. AtWorkOn(p)' = {h}
    <3>1. h \in AtWorkOn(p)'
      BY <1>3, <1>4, <1>6 DEF AtWorkOn
    <3>2. \A g \in AtWorkOn(p)' : g = h
      BY <1>4, <2>2 DEF AtWorkOn
    <3> QED
      BY <3>1, <3>2
  <2>7. Fits(p, rows[i]) /\ Ends(p, rows[i].end)
    BY <2>2 DEF Followed, Applied
  <2>8. hook'[h].note = n /\ hook'[h].row = i /\ hook'[h].end = store[p].period
    BY <1>3, <1>4, <1>6, <2>4
  <2>9. n.event \notin Extending => (Due(p) => Due(p)')
    BY <2>2, <2>3 DEF Charges, Extending
  <2>10. ASSUME n.event = "cancelled", rows[i].status \in Right(p)
         PROVE  rows[i].status \in Right(p)'
    <3>1. CASE last'[p] = last[p]
      BY <2>2, <2>3, <2>10, <3>1
    <3>2. CASE last'[p] = last[p] + 1
      <4>1. PICK state \in Before(n.event) : rows[i].status \in Agrees(state)
        BY <2>2, <2>3, <2>10, <3>2
      <4>2. state = "active" /\ After(n.event) = "cancelled"
        BY <2>10, <4>1 DEF Before, After
      <4>3. Agrees(state) = Agrees(After(n.event))
        BY <4>2 DEF Agrees
      <4> QED
        BY <2>2, <4>1, <4>3
    <3> QED
      BY <2>2, <3>1, <3>2
  <2>11. n.event = "cancelled" => Fits(p, rows[i])'
    <3>1. Fits(p, rows[i])' <=> (rows[i].status \in Right(p)' \/ (rows[i].status = "EXPIRED" /\ rows[i].end <= now))
      BY <1>1 DEF Fits
    <3> QED
      BY <2>7, <2>10, <3>1 DEF Fits
  <2>12. Apart(p)'
    BY <2>5, <2>6, <1>2 DEF Apart, Followed, SameRows
  <2>13. InOrder(p)'
    <3>1. \A k \in Numbers : log'[<<p, <<"message", k>>>>] # 0 => k <= last'[p]
      <4> SUFFICES ASSUME NEW k \in Numbers, log[<<p, <<"message", k>>>>] # 0
                   PROVE  k <= last'[p]
        BY <1>1
      <4>1. k \in Nat /\ k <= last[p]
        BY Bounds DEF Numbers, Followed, InOrder
      <4> QED
        BY <2>2, <2>3, <4>1
    <3> QED
      BY <2>1, <2>2, <2>6, <2>8, <3>1 DEF InOrder
  <2>14. Applied(p)'
    <3>1. n.event \notin Extending => rows'[i].end = store'[p].period \/ Due(p)'
      BY <1>1, <2>7, <2>9 DEF Ends
    <3>2. n.event = "cancelled" => Fits(p, rows[hook[h].row])'
      BY <2>8, <2>11 DEF Fits
    <3> QED
      BY <1>1, <2>5, <2>6, <2>8, <3>1, <3>2 DEF Applied, Ends
  <2> QED
    BY <2>2, <2>12, <2>13, <2>14 DEF Followed
<1> QED
  BY <1>5, <1>6

\* What a handler writes agrees with its note, the last one delivered.
LEMMA FollowedCommits ==
    ASSUME Base, NEW h \in Hooks, HookCommits(h), NEW p \in Purchases \ apple, Followed(p)
    PROVE  Followed(p)'
<1>0. [Next]_vars
  BY DEF Next
<1>1. /\ Typed /\ apple' = apple
      /\ UNCHANGED <<client, sent, store, notes, last, now>>
  BY <1>0 DEF Base, Basics, HookCommits, stores, history
<1>2. PICK n \in Notes : n = hook[h].note /\ n \in Known /\ hook[h] # Idle /\ n.event # "bought"
  BY <1>1, HookEffect DEF Base, Known, AtWork
<1>3. PICK i \in DOMAIN rows : i = hook[h].row
  BY HookEffect DEF Base
<1>4. /\ DOMAIN rows' = DOMAIN rows
      /\ \A j \in DOMAIN rows : j # i => rows'[j] = rows[j]
      /\ rows'[i].end = IF n.event \in Extending THEN hook[h].end ELSE rows[i].end
      /\ n.event \in Extending => rows'[i].status = "ACTIVE"
      /\ n.event = "cancelled" => rows'[i].status = rows[i].status
      /\ n.event = "failed" => rows'[i].status = "GRACE_PERIOD"
      /\ n.event = "refunded" => rows'[i].status = "REVOKED"
      /\ n.event \in {"ended", "other"} => rows'[i].status = "EXPIRED"
      /\ log' = IF n.event \in {"ended", "other"} THEN log ELSE [log EXCEPT ![Key(n)] = @ + 1]
      /\ hook' = [hook EXCEPT ![h] = Idle]
  BY <1>2, <1>3, HookEffect DEF Base
<1>5. SameRows(p)
  BY <1>0, <1>4, RowsOfStay
<1>6. Key(n) \in EventIds /\ Key(n)[1] = n.p /\ log \in [EventIds -> Nat]
  BY <1>1, Keys, KeyOf DEF Typed
<1>7. \A g \in Hooks : g # h => hook'[g] = hook[g]
  BY <1>1, <1>4 DEF Typed
<1>8. hook'[h] = Idle
  BY <1>1, <1>4 DEF Typed
<1>9. rows[i].p = n.p
  BY <1>2, <1>3 DEF Base, Recorded
<1>10. CASE n.p # p
  <2>1. \A j \in RowsOf(p) : rows'[j] = rows[j]
    BY <1>4, <1>9, <1>10 DEF RowsOf
  <2>2. \A k \in EventIds : k[1] = p => log'[k] = log[k]
    BY <1>4, <1>6, <1>10
  <2>3. \A g \in Hooks : (hook[g] # Idle /\ hook[g].note.p = p) \/ (hook'[g] # Idle /\ hook'[g].note.p = p)
                            => hook'[g] = hook[g]
    BY <1>2, <1>7, <1>8, <1>10
  <2> QED
    BY <1>0, <1>1, <1>5, <2>1, <2>2, <2>3, FollowedElsewhere
<1>11. CASE n.p = p
  <2>1. h \in AtWorkOn(p) /\ i \in RowsOf(p) /\ RowsOf(p)' = RowsOf(p)
    BY <1>2, <1>5, <1>9, <1>11 DEF AtWorkOn, RowsOf, SameRows
  <2>2. n.number = last[p] /\ n.event # "other"
    BY <1>2, <2>1 DEF Followed, InOrder
  <2>3. AtWorkOn(p)' = {}
    BY <1>7, <1>8, <2>1 DEF Followed, Apart, AtWorkOn
  <2>4. Covered(p)' /\ Right(p)' = Right(p) /\ (Due(p) => Due(p)')
    BY <1>1, NothingMoved DEF Followed
  <2>5. Agrees(After(n.event)) \subseteq Right(p)'
    BY <1>1, <1>2, <1>11, <2>2, <2>4, Landed
  <2>6. n.event \in StoreEvents /\ n.number \in Numbers
    BY NoteFields
  <2>7. ASSUME n.event = "cancelled" PROVE Fits(p, rows[i])'
    <3>1. Fits(p, rows[i])
      BY <1>2, <1>3, <2>1, <2>7 DEF Followed, Applied
    <3>2. n.event \notin Extending
      BY <2>7 DEF Extending
    <3> QED
      BY <1>1, <1>4, <2>4, <2>7, <3>1, <3>2 DEF Fits
  <2>8. ASSUME n.event # "cancelled" PROVE Fits(p, rows[i])'
    <3>1. rows'[i].status \in Agrees(After(n.event))
      <4>1. CASE n.event \in Extending
        <5>1. After(n.event) = "active"
          BY <4>1 DEF Extending, After
        <5> QED
          BY <1>4, <4>1, <5>1 DEF Agrees
      <4>2. CASE n.event = "failed"
        BY <1>4, <4>2 DEF Agrees, After
      <4>3. CASE n.event = "refunded"
        BY <1>4, <4>3 DEF Agrees, After
      <4>4. CASE n.event = "ended"
        BY <1>4, <4>4 DEF Agrees, After
      <4> QED
        BY <1>2, <2>2, <2>6, <2>8, <4>1, <4>2, <4>3, <4>4 DEF StoreEvents, Extending
    <3> QED
      BY <2>5, <3>1 DEF Fits
  <2>9. Fits(p, rows[i])'
    BY <2>7, <2>8
  <2>10. rows'[i].end = store'[p].period \/ Due(p)'
    <3>1. /\ n.event \in Extending => Ends(p, hook[h].end)
          /\ n.event \notin Extending => Ends(p, rows[i].end)
      BY <1>2, <1>3, <2>1 DEF Followed, Applied
    <3> QED
      BY <1>1, <1>4, <2>4, <3>1 DEF Ends
  <2>11. \A j \in RowsOf(p)' : j = i
    BY <2>1 DEF Followed, Apart
  <2>12. Apart(p)'
    BY <1>1, <2>1, <2>3 DEF Apart, Followed
  <2>13. InOrder(p)'
    <3>1. ASSUME NEW k \in Numbers, log'[<<p, <<"message", k>>>>] # 0 PROVE k <= last'[p]
      <4>1. PICK key \in EventIds : key = <<p, <<"message", k>>>>
        BY DEF EventIds
      <4>2. CASE key = Key(n)
        <5>1. Key(n) = <<p, <<"message", n.number>>>>
          BY <1>11, Keys
        <5>2. k = n.number
          BY <4>1, <4>2, <5>1
        <5> QED
          BY <1>1, <2>2, <5>2, Bounds DEF Numbers
      <4>3. CASE key # Key(n)
        <5>1. log[key] # 0
          BY <1>4, <1>6, <3>1, <4>1, <4>3
        <5> QED
          BY <1>1, <4>1, <5>1 DEF Followed, InOrder
      <4> QED
        BY <4>2, <4>3
    <3> QED
      BY <2>3, <3>1 DEF InOrder
  <2>14. Applied(p)'
    <3>1. \A c \in Clients : ~(client'[c] # Idle /\ client'[c].p = p)
      BY <1>1, <2>1 DEF Followed, Apart
    <3>2. \A j \in RowsOf(p)' : Fits(p, rows[j])' /\ (rows'[j].end = store'[p].period \/ Due(p)')
      BY <2>9, <2>10, <2>11
    <3> QED
      BY <2>3, <3>1, <3>2 DEF Applied, Ends
  <2> QED
    BY <2>4, <2>12, <2>13, <2>14 DEF Followed
<1> QED
  BY <1>10, <1>11

\* The job expires what has lapsed.
LEMMA FollowedJob ==
    ASSUME Base, JobCommits, NEW p \in Purchases \ apple, p \notin excused', Followed(p)
    PROVE  Followed(p)'
<1>0. [Next]_vars
  BY DEF Next
<1>1. /\ Typed /\ UNCHANGED <<log, hook, client, last, sent, store, notes, now>>
      /\ excused' = excused \cup {rows[i].p : i \in {j \in job.rows : ~Lapsed(j)}}
  BY DEF Base, Basics, JobCommits, stores
<1>2. /\ DOMAIN rows' = DOMAIN rows
      /\ \A i \in DOMAIN rows :
            /\ rows'[i].end = rows[i].end
            /\ rows'[i].status = IF i \in job.rows THEN "EXPIRED" ELSE rows[i].status
  BY JobWrites DEF Base, Basics
<1>3. SameRows(p)
  BY <1>0, <1>2, RowsOfStay
<1>4. Covered(p)' /\ Right(p)' = Right(p) /\ (Due(p) => Due(p)')
  BY <1>1, NothingMoved DEF Followed
<1>5. ASSUME NEW i \in RowsOf(p)
      PROVE  rows'[i].end = rows[i].end /\ (Fits(p, rows[i]) => Fits(p, rows[i])')
  <2>1. i \in DOMAIN rows /\ rows[i].p = p
    BY DEF RowsOf
  <2>2. CASE i \in job.rows
    <3>1. rows[i].end <= now
      BY <1>1, <2>1, <2>2 DEF Lapsed
    <3> QED
      BY <1>1, <1>2, <2>1, <2>2, <3>1 DEF Fits
  <2>3. CASE i \notin job.rows
    BY <1>1, <1>2, <1>4, <2>1, <2>3 DEF Fits
  <2> QED
    BY <2>2, <2>3
<1>6. last[p] \in Nat /\ (RowsOf(p) = {} => last[p] <= 1)
  BY <1>1 DEF Typed, Followed, Apart
<1> QED
  BY <1>0, <1>1, <1>3, <1>4, <1>5, <1>6, FollowedOn

LEMMA FollowedStart == Init => AllFollowed
<1> SUFFICES ASSUME Init, NEW p \in Purchases PROVE Followed(p)
  BY DEF AllFollowed
<1>1. /\ AtWorkOn(p) = {} /\ RowsOf(p) = {} /\ last[p] = 0 /\ sent[p] = 0
      /\ \A k \in EventIds : log[k] = 0
      /\ \A c \in Clients : client[c] = Idle
  BY DEF Init, AtWorkOn, RowsOf
<1>2. Covered(p)
  <2>1. \A k \in Nat : ~(0 < k /\ k <= 0)
    OBVIOUS
  <2> QED
    BY <1>1, <2>1 DEF Covered
<1>3. InOrder(p)
  <2>1. \A k \in Numbers : log[<<p, <<"message", k>>>>] = 0
    BY <1>1 DEF EventIds
  <2> QED
    BY <1>1, <2>1 DEF InOrder
<1>4. Apart(p) /\ Applied(p)
  BY <1>1 DEF Apart, Applied
<1> QED
  BY <1>2, <1>3, <1>4 DEF Followed

LEMMA FollowedStep == Base /\ AllFollowed /\ [Next]_vars => AllFollowed'
<1> SUFFICES ASSUME Base, AllFollowed, [Next]_vars, NEW p \in Purchases, p \notin apple', p \notin excused'
             PROVE  Followed(p)'
  BY DEF AllFollowed
<1>1. apple' = apple /\ excused \subseteq excused'
  BY AppleStays DEF Next, Store, Tick, VerifyPurchase, HandleInitialPurchase, HookDrops, HookReads,
         HookCommits, HookFails, JobReads, JobCommits, JobFails, vars, history
<1>2. Followed(p) /\ p \in Purchases \ apple
  BY <1>1 DEF AllFollowed
<1>3. Typed
  BY DEF Base, Basics
<1>4. ASSUME UNCHANGED <<store, sent, notes, rows, log, client, hook, last>>
      PROVE  Followed(p)'
  <2>1. SameRows(p)
    BY <1>4, RowsOfStay
  <2> QED
    BY <1>2, <1>4, <2>1, FollowedElsewhere
<1>5. CASE Tick \/ JobReads \/ JobFails \/ UNCHANGED vars
  BY <1>4, <1>5 DEF Tick, JobReads, JobFails, vars, stores, tables, history
<1>6. CASE \E q \in Purchases : Store(q)
  BY <1>2, <1>6, FollowedStore
<1>7. CASE \E c \in Clients, q \in Purchases : VerifyPurchase(c, q)
  BY <1>2, <1>7, FollowedVerify
<1>8. CASE \E c \in Clients : HandleInitialPurchase(c)
  BY <1>2, <1>8, FollowedInitial
<1>9. CASE \E n \in notes : HookDrops(n)
  BY <1>2, <1>9, FollowedDrops
<1>10. CASE \E n \in notes, h \in Hooks : HookReads(h, n)
  BY <1>2, <1>10, FollowedReads
<1>11. CASE \E h \in Hooks : HookCommits(h)
  BY <1>2, <1>11, FollowedCommits
<1>12. CASE \E h \in Hooks : HookFails(h)
  <2>1. PICK h \in Hooks : HookFails(h)
    BY <1>12
  <2>2. /\ hook[h] # Idle /\ hook' = [hook EXCEPT ![h] = Idle]
        /\ UNCHANGED <<store, sent, notes, rows, log, client, last>>
        /\ hook[h].note.p # p
    BY <2>1 DEF HookFails, stores, tables
  <2>3. SameRows(p)
    BY <2>2, RowsOfStay
  <2>4. \A g \in Hooks : (hook[g] # Idle /\ hook[g].note.p = p) \/ (hook'[g] # Idle /\ hook'[g].note.p = p)
                            => hook'[g] = hook[g]
    BY <1>3, <2>2 DEF Typed
  <2> QED
    BY <1>2, <2>2, <2>3, <2>4, FollowedElsewhere
<1>13. CASE JobCommits
  BY <1>2, <1>13, FollowedJob
<1> QED
  BY <1>5, <1>6, <1>7, <1>8, <1>9, <1>10, <1>11, <1>12, <1>13 DEF Next

\* A Google subscription whose notifications arrived in order and one at a time has the
\* status and the end it has at the store when nothing is under way, but that a row whose
\* end is past may have been expired (handleGoogleNotification, expireSubscriptions).
THEOREM StaysInStep == Spec => []InStep
<1>1. Init => AllFollowed
  BY FollowedStart
<1>2. Base /\ AllFollowed /\ [Next]_vars => AllFollowed'
  BY FollowedStep
<1>3. Base /\ AllFollowed => InStep
  <2> SUFFICES ASSUME Base, AllFollowed, NEW p \in Purchases \ (apple \cup excused),
                      \A n \in notes : n.p # p, AtWorkOn(p) = {}, RowsOf(p) # {},
                      \A c \in Clients : client[c] # Idle => client[c].p # p
               PROVE  LET row    == rows[Newest(p)]
                          agrees == CASE store[p].state \in {"active", "cancelled"} -> {"ACTIVE"}
                                      [] store[p].state = "failing"  -> {"GRACE_PERIOD"}
                                      [] store[p].state = "refunded" -> {"REVOKED"}
                                      [] store[p].state = "ended"    -> {"EXPIRED"}
                      IN /\ \/ row.status \in agrees
                            \/ row.status = "EXPIRED" /\ row.end <= now
                         /\ row.end = store[p].period
    BY DEF InStep
  <2>1. /\ Typed /\ Followed(p) /\ last[p] \in Nat /\ sent[p] \in Nat /\ last[p] <= sent[p]
    BY DEF AllFollowed, Base, Basics, Recorded, Typed
  <2>2. last[p] = sent[p]
    <3>1. CASE last[p] # sent[p]
      <4>1. \E n \in notes : n.p = p /\ n.number = last[p] + 1
        BY <2>1, <3>1 DEF Followed, Covered
      <4> QED
        BY <4>1
    <3> QED
      BY <3>1
  <2>3. PICK i \in RowsOf(p) : i = Newest(p)
    BY <2>1, NewestRow
  <2>4. Fits(p, rows[i]) /\ Ends(p, rows[i].end)
    BY <2>1 DEF Followed, Applied
  <2>5. rows[i].end = store[p].period
    BY <2>4 DEF Ends, Due
  <2>6. store[p].state \in States \ {"none"}
    <3>1. sent[p] # 0
      BY NothingBought
    <3>2. store[p].state # "none"
      BY <3>1 DEF Base, StoresSound, StoreSound
    <3> QED
      BY <2>1, <3>2 DEF Typed, Stores
  <2>7. rows[i].status \in Agrees(store[p].state) \/ (rows[i].status = "EXPIRED" /\ rows[i].end <= now)
    BY <2>4 DEF Fits, Right
  <2> QED
    BY <2>3, <2>5, <2>6, <2>7 DEF Agrees, States
<1> QED
  BY <1>1, <1>2, <1>3, BaseHolds, PTL DEF Spec

=============================================================================
