--------------------------- MODULE Subscriptions ---------------------------
(***************************************************************************)
(* Subscriptions bought in the app stores: a client proves its purchase,   *)
(* the stores notify what becomes of it, a job expires what has lapsed.    *)
(*                                                                         *)
(* A billing period is a unit of time: period k ends at time k.  Credits   *)
(* are counted in grants of the plan's amount.  Notifications of one       *)
(* purchase are numbered by the store; they may arrive in any order, more  *)
(* than once, and are acknowledged whatever becomes of them.               *)
(***************************************************************************)
EXTENDS Naturals, Sequences, FiniteSets

CONSTANTS
    Purchases,    \* originalTransactionId (Apple), purchaseToken (Google)
    Hooks,        \* notifications handled at once
    Clients,      \* POST /subscriptions/verify-purchase requests at once
    MaxTime,      \* bound: billing periods
    MaxNotes,     \* bound: notifications of a purchase
    MaxRepeats,   \* bound: notifications delivered a second time
    MaxFaults     \* bound: database and store calls that fail

ASSUME SubscriptionsAssumption == {MaxTime, MaxNotes, MaxRepeats, MaxFaults} \subseteq Nat

VARIABLES
    apple,       \* the purchases made with Apple; the others with Google
    now,
    store,       \* the store's own view: state and current period
    terms,       \* the periods a purchase has had, each charged for or deferred to
    sent,        \* notifications the store has sent
    notes,       \* those it has still to deliver
    rows,        \* UserSubscription, by creation
    log,         \* SubscriptionEvent: rows with a storeEventId, per id
    grants,      \* credit grants for a purchase
    hook, client, job,
    repeats, faults,
    last,        \* history: the highest notification delivered so far
    excused,     \* history: purchases whose notifications were lost or mixed up
    unmetered    \* history: purchases with work that no check held apart

stores  == <<apple, now, store, terms, sent>>
tables  == <<rows, log, grants>>
history == <<last, excused, unmetered>>
vars    == <<stores, notes, tables, hook, client, job, repeats, faults, history>>

Idle    == [idle |-> TRUE]
Times   == 0 .. MaxTime
Numbers == 1 .. MaxNotes

\* What may happen to a purchase at the store.
StoreEvents == {"bought", "renewed", "cancelled", "failed", "recovered", "restarted",
                "deferred", "refunded", "ended", "other"}

\* mapNotificationType of both stores.  A type it does not know is taken for an expiry,
\* and a billing date that Google moved for a renewal.
EventType(p, event) ==
    CASE event = "bought"    -> "INITIAL_PURCHASE"
      [] event \in {"renewed", "deferred"} -> "RENEWAL"
      [] event = "recovered" -> IF p \in apple THEN "RENEWAL" ELSE "BILLING_RECOVERY"
      [] event = "restarted" -> "BILLING_RECOVERY"
      [] event = "cancelled" -> "CANCELLATION"
      [] event = "failed"    -> "GRACE_PERIOD_ENTERED"
      [] event = "refunded"  -> "REVOCATION"
      [] OTHER               -> "EXPIRY"

\* storeEventId: Google's message id, but Apple's transaction id, which all
\* notifications about one billing period share.
EventId(n) == IF n.p \in apple THEN <<n.p, "transaction", n.period>>
                               ELSE <<n.p, "message", n.number>>

EventIds == Purchases \X ({"transaction"} \X Times \cup {"message"} \X Numbers)
Key(n)   == <<EventId(n)[1], <<EventId(n)[2], EventId(n)[3]>>>>

\* findSubscriptionByStoreTransaction: the newest row of a purchase.
RowsOf(p)  == {i \in DOMAIN rows : rows[i].p = p}
Newest(p)  == CHOOSE i \in RowsOf(p) : \A j \in RowsOf(p) : j <= i
Open(i)    == rows[i].status \in {"ACTIVE", "GRACE_PERIOD"}
Lapsed(i)  == Open(i) /\ rows[i].end <= now

AtWorkOn(p) == {h \in Hooks : hook[h] # Idle /\ hook[h].note.p = p}

Fault == faults < MaxFaults /\ faults' = faults + 1

Init ==
    /\ apple \in SUBSET Purchases
    /\ now = 0
    /\ store = [p \in Purchases |-> [state |-> "none", period |-> 0]]
    /\ terms = [p \in Purchases |-> {}]
    /\ sent = [p \in Purchases |-> 0]
    /\ notes = {}
    /\ rows = <<>>
    /\ log = [k \in EventIds |-> 0]
    /\ grants = [p \in Purchases |-> 0]
    /\ hook = [h \in Hooks |-> Idle]
    /\ client = [c \in Clients |-> Idle]
    /\ job = Idle
    /\ repeats = 0
    /\ faults = 0
    /\ last = [p \in Purchases |-> 0]
    /\ excused = {}
    /\ unmetered = {}

-----------------------------------------------------------------------------
(* The stores (external).                                                  *)

Notify(p, event, period) ==
    /\ sent[p] < MaxNotes
    /\ sent' = [sent EXCEPT ![p] = @ + 1]
    /\ notes' = notes \cup {[p |-> p, number |-> sent[p] + 1, event |-> event, period |-> period]}

\* A period is bought, renewed at its end, or recovered after a failed payment.
Charge(p) ==
    LET from == store[p].state
    IN /\ now < MaxTime
       /\ \/ from = "none"
          \/ from = "active" /\ store[p].period <= now
          \/ from = "failing"
       /\ store' = [store EXCEPT ![p] = [state |-> "active", period |-> now + 1]]
       /\ terms' = [terms EXCEPT ![p] = @ \cup {now + 1}]
       /\ Notify(p, CASE from = "none" -> "bought" [] from = "active" -> "renewed"
                      [] OTHER -> "recovered", now + 1)

\* The developer has Google move the end of a period: one more, and no charge.
Defer(p) ==
    LET end == store[p].period + 1
    IN /\ p \notin apple
       /\ store[p].state = "active" /\ now < store[p].period /\ end <= MaxTime
       /\ store' = [store EXCEPT ![p].period = end]
       /\ terms' = [terms EXCEPT ![p] = @ \cup {end}]
       /\ Notify(p, "deferred", end)

\* Everything that moves neither money nor date: the state it leads from, and to.
StoreSteps == {<<"active", "cancelled", "cancelled">>, <<"cancelled", "restarted", "active">>,
               <<"active", "failed", "failing">>, <<"active", "other", "active">>,
               <<"active", "refunded", "refunded">>, <<"cancelled", "ended", "ended">>,
               <<"failing", "ended", "ended">>}

Change(p) ==
    \E step \in StoreSteps :
        /\ store[p].state = step[1]
        /\ step[2] \in {"failed", "ended"} => store[p].period <= now
        /\ step[2] \in {"cancelled", "restarted"} => now < store[p].period
        /\ store' = [store EXCEPT ![p].state = step[3]]
        /\ Notify(p, step[2], store[p].period)
        /\ UNCHANGED terms

Store(p) ==
    /\ Charge(p) \/ Defer(p) \/ Change(p)
    /\ UNCHANGED <<apple, now, tables, hook, client, job, repeats, faults, history>>

Tick ==
    /\ now < MaxTime
    /\ now' = now + 1
    /\ UNCHANGED <<apple, store, terms, sent, notes, tables, hook, client, job, repeats, faults, history>>

-----------------------------------------------------------------------------
(* verifyAndCreateSubscription.                                            *)

\* The client shows a transaction that Apple signed, of this or an earlier period; of a
\* Google purchase the period is asked for.
Shown(p) == IF p \in apple THEN terms[p] ELSE {store[p].period} \ {0}

\* Mutant of VerifyPurchase: a purchase that has a row is claimed again.
VerifyUnchecked(c, p) ==
    /\ client[c] = Idle
    /\ \E end \in Shown(p) : client' = [client EXCEPT ![c] = [p |-> p, end |-> end]]
    /\ UNCHANGED <<stores, notes, tables, hook, job, repeats, faults, history>>

\* Before and in the transaction a purchase that has a row is not claimed again, by its
\* owner or by anyone.
VerifyPurchase(c, p) ==
    /\ client[c] = Idle
    /\ RowsOf(p) = {}
    /\ \E end \in Shown(p) : client' = [client EXCEPT ![c] = [p |-> p, end |-> end]]
    /\ LET twice == \E d \in Clients : client[d] # Idle /\ client[d].p = p
       IN /\ excused' = IF twice THEN excused \cup {p} ELSE excused
          /\ unmetered' = IF twice THEN unmetered \cup {p} ELSE unmetered
    /\ UNCHANGED <<stores, notes, tables, hook, job, repeats, faults, last>>

\* handleInitialPurchase commits the row, its event and the credits.  No unique index
\* guards the store's transaction id.
HandleInitialPurchase(c) ==
    /\ client[c] # Idle
    /\ LET p == client[c].p
           k == <<p, <<"transaction", client[c].end>>>>
       IN /\ rows' = Append(rows, [p |-> p, status |-> "ACTIVE", end |-> client[c].end,
                                   renews |-> TRUE])
          /\ log' = IF p \in apple THEN [log EXCEPT ![k] = @ + 1] ELSE log
          /\ grants' = [grants EXCEPT ![p] = @ + 1]
    /\ client' = [client EXCEPT ![c] = Idle]
    /\ UNCHANGED <<stores, notes, hook, job, repeats, faults, history>>

-----------------------------------------------------------------------------
(* handleAppleNotification and handleGoogleNotification.                   *)

\* A delivery: the notification is signed by Apple or asked about at Google, and may come
\* again later.
Deliver(n) ==
    /\ \/ notes' = notes \ {n} /\ UNCHANGED repeats
       \/ repeats < MaxRepeats /\ repeats' = repeats + 1 /\ UNCHANGED notes
    /\ last' = [last EXCEPT ![n.p] = IF n.number > @ THEN n.number ELSE @]
Reordered(n) == n.number > last[n.p] + 1 \/ n.number < last[n.p] \/ AtWorkOn(n.p) # {}
Job(n) == [note |-> n, row |-> Newest(n.p),
           end |-> IF n.p \in apple THEN n.period ELSE store[n.p].period]

\* Mutant of Applies: isEventAlreadyProcessed is not asked.
AppliesAgain(n) ==
    LET type == EventType(n.p, n.event)
    IN /\ RowsOf(n.p) # {}
       /\ type # "INITIAL_PURCHASE"
       /\ type = "EXPIRY" => Open(Newest(n.p))

\* routeSubscriptionEvent, isEventAlreadyProcessed and findSubscription...: what is
\* known or concerns no row is dropped; an expiry is not looked up, but is not applied
\* to a row that is EXPIRED or REVOKED.
Applies(n) ==
    LET type == EventType(n.p, n.event)
    IN /\ RowsOf(n.p) # {}
       /\ type # "INITIAL_PURCHASE"
       /\ type = "EXPIRY" => Open(Newest(n.p))
       /\ type # "EXPIRY" => log[Key(n)] = 0

HookReads(h, n) ==
    /\ hook[h] = Idle
    /\ Deliver(n)
    /\ Applies(n)
    /\ hook' = [hook EXCEPT ![h] = Job(n)]
    /\ excused' = IF n.event = "other" \/ Reordered(n) THEN excused \cup {n.p} ELSE excused
    /\ LET twice == \E g \in Hooks : hook[g] # Idle /\ Key(hook[g].note) = Key(n)
           free  == n.event = "restarted" /\ n.p \notin apple
       IN unmetered' = IF free \/ twice THEN unmetered \cup {n.p} ELSE unmetered
    /\ UNCHANGED <<stores, tables, client, job, faults>>

HookDrops(n) ==
    /\ Deliver(n)
    /\ ~Applies(n)
    /\ excused' = IF Reordered(n) \/ (RowsOf(n.p) = {} /\ n.event # "bought")
                  THEN excused \cup {n.p} ELSE excused
    /\ UNCHANGED <<stores, tables, hook, client, job, faults, unmetered>>

\* Mutant of Updated: a recovery keeps the end of the row.
UpdatedSameEnd(row, type, end) ==
    CASE type = "RENEWAL"              -> [row EXCEPT !.status = "ACTIVE", !.end = end]
      [] type = "BILLING_RECOVERY"     -> [row EXCEPT !.status = "ACTIVE"]
      [] type = "CANCELLATION"         -> [row EXCEPT !.renews = FALSE]
      [] type = "GRACE_PERIOD_ENTERED" -> [row EXCEPT !.status = "GRACE_PERIOD"]
      [] type = "REVOCATION"           -> [row EXCEPT !.status = "REVOKED"]
      [] type = "EXPIRY"               -> [row EXCEPT !.status = "EXPIRED"]

\* Mutant of Updated: a cancelled subscription is closed at once.
UpdatedCancelled(row, type, end) ==
    CASE type \in {"RENEWAL", "BILLING_RECOVERY"} -> [row EXCEPT !.status = "ACTIVE", !.end = end]
      [] type = "CANCELLATION"         -> [row EXCEPT !.status = "CANCELLED", !.renews = FALSE]
      [] type = "GRACE_PERIOD_ENTERED" -> [row EXCEPT !.status = "GRACE_PERIOD"]
      [] type = "REVOCATION"           -> [row EXCEPT !.status = "REVOKED"]
      [] type = "EXPIRY"               -> [row EXCEPT !.status = "EXPIRED"]

\* What each handler writes to the row.
Updated(row, type, end) ==
    CASE type \in {"RENEWAL", "BILLING_RECOVERY"} -> [row EXCEPT !.status = "ACTIVE", !.end = end]
      [] type = "CANCELLATION"                    -> [row EXCEPT !.renews = FALSE]
      [] type = "GRACE_PERIOD_ENTERED"            -> [row EXCEPT !.status = "GRACE_PERIOD"]
      [] type = "REVOCATION"                      -> [row EXCEPT !.status = "REVOKED"]
      [] type = "EXPIRY"                          -> [row EXCEPT !.status = "EXPIRED"]

\* handleRenewal, handleCancellation, handleGracePeriod, handleBillingRecovery,
\* handleRevocation and handleExpiry: row, event and credits in one transaction.
HookCommits(h) ==
    /\ hook[h] # Idle
    /\ LET n    == hook[h].note
           type == EventType(n.p, n.event)
       IN /\ rows' = [rows EXCEPT ![hook[h].row] = Updated(@, type, hook[h].end)]
          /\ log' = IF type = "EXPIRY" THEN log ELSE [log EXCEPT ![Key(n)] = @ + 1]
          /\ grants' = IF type \in {"RENEWAL", "BILLING_RECOVERY"}
                       THEN [grants EXCEPT ![n.p] = @ + 1] ELSE grants
    /\ hook' = [hook EXCEPT ![h] = Idle]
    /\ UNCHANGED <<stores, notes, client, job, repeats, faults, history>>

\* The database or Google fails: the error is caught and the notification is acknowledged.
HookFails(h) ==
    /\ hook[h] # Idle
    /\ Fault
    /\ hook' = [hook EXCEPT ![h] = Idle]
    /\ excused' = excused \cup {hook[h].note.p}
    /\ UNCHANGED <<stores, notes, tables, client, job, repeats, last, unmetered>>

-----------------------------------------------------------------------------
(* expireSubscriptions, called by the maintenance job.                     *)

JobReads ==
    /\ job = Idle
    /\ LET due == {i \in DOMAIN rows : Lapsed(i)}
       IN due # {} /\ job' = [rows |-> due]
    /\ UNCHANGED <<stores, notes, tables, hook, client, repeats, faults, history>>

\* The rows are updated by their ids, whatever has become of them.
JobCommits ==
    /\ job # Idle
    /\ rows' = [i \in DOMAIN rows |-> IF i \in job.rows THEN [rows[i] EXCEPT !.status = "EXPIRED"]
                                      ELSE rows[i]]
    /\ excused' = excused \cup {rows[i].p : i \in {j \in job.rows : ~Lapsed(j)}}
    /\ job' = Idle
    /\ UNCHANGED <<stores, notes, log, grants, hook, client, repeats, faults, last, unmetered>>

JobFails ==
    /\ job # Idle
    /\ Fault
    /\ job' = Idle
    /\ UNCHANGED <<stores, notes, tables, hook, client, repeats, history>>

-----------------------------------------------------------------------------
Next ==
    \/ \E p \in Purchases : Store(p)
    \/ Tick
    \/ \E c \in Clients : \/ \E p \in Purchases : VerifyPurchase(c, p)
                          \/ HandleInitialPurchase(c)
    \/ \E n \in notes : HookDrops(n) \/ \E h \in Hooks : HookReads(h, n)
    \/ \E h \in Hooks : HookCommits(h) \/ HookFails(h)
    \/ JobReads \/ JobCommits \/ JobFails

Spec == Init /\ [][Next]_vars

-----------------------------------------------------------------------------
Statuses == {"ACTIVE", "GRACE_PERIOD", "REVOKED", "EXPIRED"}
Notes    == [p : Purchases, number : Numbers, event : StoreEvents, period : Times]

\* Types of every variable.
TypeOK ==
    /\ apple \subseteq Purchases
    /\ now \in Times
    /\ store \in [Purchases -> [state : {"none", "active", "cancelled", "failing", "refunded",
                                         "ended"}, period : Times]]
    /\ terms \in [Purchases -> SUBSET Times] /\ sent \in [Purchases -> Nat]
    /\ notes \subseteq Notes
    /\ rows \in Seq([p : Purchases, status : Statuses, end : Times, renews : BOOLEAN])
    /\ log \in [EventIds -> Nat] /\ grants \in [Purchases -> Nat]
    /\ hook \in [Hooks -> {Idle} \cup [note : Notes, end : Times, row : DOMAIN rows]]
    /\ client \in [Clients -> {Idle} \cup [p : Purchases, end : Times]]
    /\ job \in {Idle} \cup [rows : SUBSET DOMAIN rows]
    /\ repeats \in Nat /\ faults \in Nat
    /\ last \in [Purchases -> Nat] /\ excused \subseteq Purchases /\ unmetered \subseteq Purchases

\* However notifications are lost, repeated and reordered, a customer gets no more
\* credits than for the periods the store charged or deferred to, unless two requests or two notifications with
\* one id were past their check at once, or Google told of a subscription that was
\* switched on again (isEventAlreadyProcessed, handleBillingRecovery).
CreditsFollowPeriods ==
    \A p \in Purchases \ unmetered : grants[p] <= Cardinality(terms[p])

\* A Google subscription whose notifications all arrived, one after the other and in
\* order, is what it is at the store, but that the job may have expired a row whose
\* end is past (the six handlers and their table of types).
InStep ==
    \A p \in Purchases \ (apple \cup excused) :
        LET quiet  == /\ \A n \in notes : n.p # p
                      /\ AtWorkOn(p) = {} /\ RowsOf(p) # {}
                      /\ \A c \in Clients : client[c] # Idle => client[c].p # p
            row    == rows[Newest(p)]
            agrees == CASE store[p].state \in {"active", "cancelled"} -> {"ACTIVE"}
                        [] store[p].state = "failing"  -> {"GRACE_PERIOD"}
                        [] store[p].state = "refunded" -> {"REVOKED"}
                        [] store[p].state = "ended"    -> {"EXPIRED"}
        IN quiet => /\ \/ row.status \in agrees
                       \/ row.status = "EXPIRED" /\ row.end <= now
                    /\ row.end = store[p].period

=============================================================================
