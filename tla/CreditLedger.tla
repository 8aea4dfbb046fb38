---------------------------- MODULE CreditLedger ----------------------------
(***************************************************************************)
(* The credit engine: the append-only CreditLedger table, the transactions *)
(* that spend from it, and the daily job that writes EXPIRED rows.         *)
(*                                                                         *)
(* Every database statement is a step of its own and reads what is         *)
(* committed at that moment (PostgreSQL READ COMMITTED, the default the    *)
(* code runs under: it neither sets an isolation level nor locks a row).   *)
(* The unit of time is a day.  Users are naturals because the job pages    *)
(* through them in the order of their ids.                                 *)
(***************************************************************************)
EXTENDS Integers, Sequences, FiniteSets, SequencesExt, FiniteSetsExt, Functions

CONSTANTS
    Users,        \* user ids, compared by the job's cursor
    Txs,          \* request transactions that may spend at the same time
    Workers,      \* server instances that consume expiry batches
    Amounts,      \* sizes of the granted bundles
    ExpiryDays,   \* expiry windows of a grant; 0 is "no expiry"
    Cost,         \* credits one spend takes (CREDITS_PER_LIKE)
    BatchSize,    \* CREDIT_EXPIRY_BATCH_SIZE
    MaxTime,      \* bound: the last day
    MaxGrants,    \* bound: bundles ever granted
    MaxSpends,    \* bound: spends ever started
    MaxFaults     \* bound: failures of the job or of a worker

ASSUME UsersAssumption   == Users \subseteq Nat \ {0} /\ IsFiniteSet(Users)
ASSUME TxsAssumption     == 0 \notin Txs /\ IsFiniteSet(Txs) /\ Txs # {}
ASSUME NumbersAssumption == /\ Amounts \subseteq Nat \ {0}
                            /\ ExpiryDays \subseteq Nat /\ IsFiniteSet(ExpiryDays)
                            /\ Cost \in Nat \ {0}
                            /\ BatchSize \in Nat \ {0}
                            /\ {MaxTime, MaxGrants, MaxSpends, MaxFaults} \subseteq Nat

VARIABLES
    ledger,   \* the CreditLedger rows, in the order they were committed
    now,      \* the current day
    tx,       \* per transaction: idle, or past its balance check
    job,      \* the fan-out coordinator: its pinned asOf and its cursor
    jobDay,   \* the day before which the scheduler has fired
    topic,    \* CREDIT_EXPIRY_BATCH messages not yet acknowledged
    worker,   \* per instance: the batch it works on and the rows it will insert
    spends, faults   \* how much of MaxSpends and MaxFaults is used

vars == <<ledger, now, tx, job, jobDay, topic, worker, spends, faults>>

Never == MaxTime + 1 + Max(ExpiryDays \cup {0})  \* expiresAt = null sorts last
NoRef == 0
Idle  == [pc |-> "idle"]

-----------------------------------------------------------------------------
(* Reading the ledger.  A row is known by its position, its id.            *)

CreditRow(u, amount, expiresAt) ==
    [user |-> u, type |-> "CREDIT", amount |-> amount, source |-> "GRANT",
     ref |-> NoRef, expiresAt |-> expiresAt]

\* Mutant of DebitRow: debits signed negative.
DebitRowSigned(u, amount, source, ref) ==
    [user |-> u, type |-> "DEBIT", amount |-> 0 - amount, source |-> source,
     ref |-> ref, expiresAt |-> Never]

DebitRow(u, amount, source, ref) ==
    [user |-> u, type |-> "DEBIT", amount |-> amount, source |-> source,
     ref |-> ref, expiresAt |-> Never]

Bundles(rows, u) ==
    {i \in DOMAIN rows : rows[i].user = u /\ rows[i].type = "CREDIT"}

SumAmounts(rows, ids) == SumFunctionOnSet([i \in DOMAIN rows |-> rows[i].amount], ids)

\* Mutant of RealDebits: the filter on the source is forgotten.
RealDebitsWithExpired(rows, u) ==
    SumAmounts(rows, {i \in DOMAIN rows : rows[i].user = u /\ rows[i].type = "DEBIT"})

\* Genuine spends: cron rows close the books of lapsed bundles and do not count.
RealDebits(rows, u) ==
    SumAmounts(rows, {i \in DOMAIN rows : /\ rows[i].user = u
                                          /\ rows[i].type = "DEBIT"
                                          /\ rows[i].source # "EXPIRED"})

\* What the expiry worker counts: every debit, its own earlier rows included.
AllDebits(rows, u) ==
    SumAmounts(rows, {i \in DOMAIN rows : rows[i].user = u /\ rows[i].type = "DEBIT"})

\* Earliest expiry first, permanent bundles last, older bundle first on a tie.
Sooner(rows, i, j) ==
    \/ rows[i].expiresAt < rows[j].expiresAt
    \/ rows[i].expiresAt = rows[j].expiresAt /\ i < j

\* remainingDebits when the loop has drained them through the bundles ids, of
\* size[i] credits each (what is left is the same in every order).
Remaining(debits, size, ids) ==
    FoldFunctionOnSet(LAMBDA amount, left : left - Min({left, amount}), debits, size, ids)

\* The turn of bundle i: what is left of the debits after the sooner ones of
\* ids is drained from it.
Drained(debits, size, ids, rows, i) ==
    Min({size[i], Remaining(debits, size, {j \in ids : Sooner(rows, j, i)})})

\* The loop both readers share: drain the debits through the bundles in FIFO
\* order; unused[i] is what bundle i has left.
Drain(rows, u, debits) ==
    LET size == [i \in Bundles(rows, u) |-> rows[i].amount]
    IN  [i \in Bundles(rows, u) |-> size[i] - Drained(debits, size, Bundles(rows, u), rows, i)]

Balance(rows, u, time) ==
    LET unused == Drain(rows, u, RealDebits(rows, u))
    IN  SumFunctionOnSet(unused, {i \in Bundles(rows, u) : rows[i].expiresAt > time})

GetBalance(u) == Balance(ledger, u, now)

\* The EXPIRED rows the worker finds missing for u at asOf, one per lapsed
\* bundle not used up (nothing depends on their order).
Expirations(rows, u, asOf) ==
    LET unused == Drain(rows, u, AllDebits(rows, u))
        due    == SetToSeq({i \in Bundles(rows, u) : rows[i].expiresAt <= asOf /\ unused[i] > 0})
    IN  [k \in DOMAIN due |-> DebitRow(u, unused[due[k]], "EXPIRED", due[k])]

\* Users the coordinator's page query returns: distinct owners of a lapsed
\* bundle beyond the cursor, the BatchSize smallest.
UsersDue(asOf, cursor) ==
    {u \in Users : u > cursor /\ \E i \in Bundles(ledger, u) : ledger[i].expiresAt <= asOf}

Page(asOf, cursor) ==
    {u \in UsersDue(asOf, cursor) :
        Cardinality({v \in UsersDue(asOf, cursor) : v < u}) < BatchSize}

-----------------------------------------------------------------------------
Init ==
    /\ ledger = <<>>
    /\ now = 0
    /\ tx = [t \in Txs |-> Idle]
    /\ job = Idle
    /\ jobDay = 0
    /\ topic = {}
    /\ worker = [w \in Workers |-> Idle]
    /\ spends = 0
    /\ faults = 0

\* grantCredits: the window starts at the moment of the grant.
GrantCredits(u, amount, days) ==
    /\ Cardinality({i \in DOMAIN ledger : ledger[i].type = "CREDIT"}) < MaxGrants
    /\ ledger' = Append(ledger, CreditRow(u, amount, IF days = 0 THEN Never ELSE now + days))
    /\ UNCHANGED <<now, tx, job, jobDay, topic, worker, spends, faults>>

\* Mutant of HasSufficientCredits: off by one.
HasAlmostSufficientCredits(u, required) == GetBalance(u) >= required - 1

HasSufficientCredits(u, required) == GetBalance(u) >= required

\* consumeCredits, first statement: the balance is read inside the caller's
\* transaction; too small a balance throws and rolls it back (no state change).
CheckBalance(t, u) ==
    /\ tx[t] = Idle
    /\ spends < MaxSpends
    /\ HasSufficientCredits(u, Cost)
    /\ tx' = [tx EXCEPT ![t] = [pc |-> "checked", user |-> u]]
    /\ spends' = spends + 1
    /\ UNCHANGED <<ledger, now, job, jobDay, topic, worker, faults>>

\* consumeCredits, second statement and the caller's commit: the LIKE_USAGE row
\* becomes visible to the other transactions.
CommitSpend(t) ==
    /\ tx[t].pc = "checked"
    /\ ledger' = Append(ledger, DebitRow(tx[t].user, Cost, "LIKE_USAGE", NoRef))
    /\ tx' = [tx EXCEPT ![t] = Idle]
    /\ UNCHANGED <<now, job, jobDay, topic, worker, spends, faults>>

\* Another statement of the caller's transaction fails, or the instance stops.
RollbackSpend(t) ==
    /\ tx[t].pc = "checked"
    /\ tx' = [tx EXCEPT ![t] = Idle]
    /\ UNCHANGED <<ledger, now, job, jobDay, topic, worker, spends, faults>>

\* Cloud Scheduler calls expireCreditBundles: asOf is pinned for the whole run.
StartJob ==
    /\ job = Idle
    /\ jobDay <= now
    /\ job' = [pc |-> "paging", asOf |-> now, cursor |-> 0]
    /\ jobDay' = now + 1
    /\ UNCHANGED <<ledger, now, tx, topic, worker, spends, faults>>

\* One turn of the coordinator's loop: query a page, publish it, move the cursor.
PublishPage ==
    /\ job.pc = "paging"
    /\ LET page == Page(job.asOf, job.cursor)
       IN  /\ topic' = IF page = {} THEN topic
                       ELSE topic \cup {[userIds |-> page, asOf |-> job.asOf]}
           /\ job' = IF Cardinality(page) < BatchSize THEN Idle
                     ELSE [job EXCEPT !.cursor = Max(page)]
    /\ UNCHANGED <<ledger, now, tx, jobDay, worker, spends, faults>>

\* A query or publish throws: the request fails and the scheduler retries it.
JobFails ==
    /\ job.pc = "paging"
    /\ faults < MaxFaults
    /\ job' = Idle
    /\ jobDay' = job.asOf
    /\ faults' = faults + 1
    /\ UNCHANGED <<ledger, now, tx, topic, worker, spends>>

\* Pub/Sub pushes a message.  Delivery is at least once: the message stays in
\* the topic until it is acknowledged, so two instances may work on it at once.
Deliver(w, m) ==
    /\ worker[w] = Idle
    /\ m \in topic
    /\ worker' = [worker EXCEPT ![w] =
                    [pc |-> "read", msg |-> m, todo |-> m.userIds, rows |-> <<>>]]
    /\ UNCHANGED <<ledger, now, tx, job, jobDay, topic, spends, faults>>

\* expireCreditsForUsers, per user: read the ledger and compute the missing rows
\* (bound by \E so that TLC computes them once).
ReadLedger(w) ==
    /\ worker[w].pc = "read"
    /\ worker[w].todo # {}
    /\ \E u \in {Min(worker[w].todo)} : \E rows \in {Expirations(ledger, u, worker[w].msg.asOf)} :
           worker' = IF rows = <<>> THEN [worker EXCEPT ![w].todo = @ \ {u}]
                     ELSE [worker EXCEPT ![w].pc = "write", ![w].rows = rows]
    /\ UNCHANGED <<ledger, now, tx, job, jobDay, topic, spends, faults>>

\* createMany, in no transaction with the read it was computed from.
InsertExpired(w) ==
    /\ worker[w].pc = "write"
    /\ ledger' = ledger \o worker[w].rows
    /\ worker' = [worker EXCEPT ![w].pc = "read", ![w].rows = <<>>,
                                ![w].todo = @ \ {Min(@)}]
    /\ UNCHANGED <<now, tx, job, jobDay, topic, spends, faults>>

\* The handler returns, the ingestion endpoint answers 200: the message is gone.
AckBatch(w) ==
    /\ worker[w].pc = "read"
    /\ worker[w].todo = {}
    /\ topic' = topic \ {worker[w].msg}
    /\ worker' = [worker EXCEPT ![w] = Idle]
    /\ UNCHANGED <<ledger, now, tx, job, jobDay, spends, faults>>

\* Mutant of WorkerFails: the error is swallowed, so the message is acknowledged.
WorkerSwallows(w) ==
    /\ worker[w] # Idle
    /\ faults < MaxFaults
    /\ topic' = topic \ {worker[w].msg}
    /\ worker' = [worker EXCEPT ![w] = Idle]
    /\ faults' = faults + 1
    /\ UNCHANGED <<ledger, now, tx, job, jobDay, spends>>

\* The handler throws or the instance stops: no acknowledgement, a redelivery.
WorkerFails(w) ==
    /\ worker[w] # Idle
    /\ faults < MaxFaults
    /\ worker' = [worker EXCEPT ![w] = Idle]
    /\ faults' = faults + 1
    /\ UNCHANGED <<ledger, now, tx, job, jobDay, topic, spends>>

Tick ==
    /\ now < MaxTime
    /\ now' = now + 1
    /\ UNCHANGED <<ledger, tx, job, jobDay, topic, worker, spends, faults>>

Next ==
    \/ \E u \in Users, amount \in Amounts, days \in ExpiryDays : GrantCredits(u, amount, days)
    \/ \E t \in Txs, u \in Users : CheckBalance(t, u)
    \/ \E t \in Txs : CommitSpend(t) \/ RollbackSpend(t)
    \/ StartJob \/ PublishPage \/ JobFails
    \/ \E w \in Workers : \/ \E m \in topic : Deliver(w, m)
                          \/ ReadLedger(w) \/ InsertExpired(w)
                          \/ AckBatch(w) \/ WorkerFails(w)
    \/ Tick

Spec == Init /\ [][Next]_vars

\* The scheduler fires, Pub/Sub redelivers what is not acknowledged, and a
\* handler that runs finishes; time and requests need not go on.
Fairness ==
    /\ WF_vars(StartJob) /\ WF_vars(PublishPage)
    /\ \A w \in Workers : /\ WF_vars(\E m \in topic : Deliver(w, m))
                          /\ WF_vars(ReadLedger(w) \/ InsertExpired(w) \/ AckBatch(w))

FairSpec == Spec /\ Fairness

=============================================================================
