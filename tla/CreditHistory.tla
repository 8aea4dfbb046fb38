---------------------------- MODULE CreditHistory ---------------------------
(***************************************************************************)
(* The credit engine with two history variables the code does not keep and *)
(* the properties that need them: which bundle each spend was made from at *)
(* the moment it was made, and how far each user's expiry has been closed. *)
(***************************************************************************)
EXTENDS CreditLedger

VARIABLES
    charged,   \* per transaction slot and committed (slot 0): credits taken per bundle
    closedTo   \* per user: the latest asOf an instance has finished for that user

hvars == <<vars, charged, closedTo>>

\* What charges f take from bundle i, and the charges of f and g together.
At(f, i)   == IF i \in DOMAIN f THEN f[i] ELSE 0
Plus(f, g) == [i \in DOMAIN f \cup DOMAIN g |-> At(f, i) + At(g, i)]
NoCharge   == <<>>

\* All that has been taken from bundle i, spends still in flight included.
Taken(i) == SumFunctionOnSet([t \in Txs \cup {0} |-> At(charged[t], i)], Txs \cup {0})

\* What a bundle that pays at the moment of the spend has left.
Left(i) == ledger[i].amount - Taken(i)

Live(u) == {i \in Bundles(ledger, u) : ledger[i].expiresAt > now}

\* The live bundles that pay for a spend of Cost made now: earliest expiry first.
Charge(u) ==
    LET size == [i \in Live(u) |-> Left(i)]
    IN  [i \in Live(u) |-> Drained(Cost, size, Live(u), ledger, i)]

TrueBalance(u) == SumFunctionOnSet([i \in Live(u) |-> Left(i)], Live(u))

HInit ==
    /\ Init
    /\ charged = [t \in Txs \cup {0} |-> NoCharge]
    /\ closedTo = [u \in Users |-> -1]

Checks(t)  == \E u \in Users : CheckBalance(t, u) /\ charged' = [charged EXCEPT ![t] = Charge(u)]
Commits(t) == CommitSpend(t) /\ charged' = [charged EXCEPT ![0] = Plus(@, charged[t]), ![t] = NoCharge]
Undoes(t)  == RollbackSpend(t) /\ charged' = [charged EXCEPT ![t] = NoCharge]

\* An instance is done with a user when the user leaves its todo list.
Reads(w)   == ReadLedger(w)
Inserts(w) == InsertExpired(w)
Closes(w)  ==
    /\ Reads(w) \/ Inserts(w)
    /\ closedTo' = [u \in Users |->
                      IF u \in worker[w].todo \ worker'[w].todo
                      THEN Max({closedTo[u], worker[w].msg.asOf}) ELSE closedTo[u]]

HNext ==
    \/ \E t \in Txs : (Checks(t) \/ Commits(t) \/ Undoes(t)) /\ UNCHANGED closedTo
    \/ \E w \in Workers : Closes(w) /\ UNCHANGED charged
    \/ /\ \/ \E u \in Users, amount \in Amounts, days \in ExpiryDays : GrantCredits(u, amount, days)
          \/ StartJob \/ PublishPage \/ JobFails
          \/ \E w \in Workers : (\E m \in topic : Deliver(w, m)) \/ AckBatch(w) \/ WorkerFails(w)
          \/ Tick
       /\ UNCHANGED <<charged, closedTo>>

HSpec     == HInit /\ [][HNext]_hvars
HFairSpec == HSpec /\ Fairness

-----------------------------------------------------------------------------
Rows    == [user : Users, type : {"CREDIT", "DEBIT"}, amount : Nat \ {0},
             source : {"GRANT", "LIKE_USAGE", "EXPIRED"}, ref : Nat, expiresAt : 1 .. Never]
Batches == [userIds : SUBSET Users, asOf : 0 .. MaxTime]

\* Types of every variable.
TypeOK ==
    /\ ledger \in Seq(Rows)
    /\ now \in 0 .. MaxTime
    /\ tx \in [Txs -> {Idle} \cup [pc : {"checked"}, user : Users]]
    /\ job \in {Idle} \cup [pc : {"paging"}, asOf : 0 .. MaxTime, cursor : Users \cup {0}]
    /\ jobDay \in 0 .. MaxTime + 1
    /\ topic \subseteq Batches
    /\ worker \in [Workers -> {Idle} \cup [pc : {"read", "write"}, msg : Batches,
                                            todo : SUBSET Users, rows : Seq(Rows)]]
    /\ spends \in 0 .. MaxSpends /\ faults \in 0 .. MaxFaults
    /\ DOMAIN charged = Txs \cup {0}
    /\ \A t \in Txs \cup {0} : /\ charged[t] \in [DOMAIN charged[t] -> Nat]
                             /\ DOMAIN charged[t] \subseteq DOMAIN ledger
    /\ closedTo \in [Users -> -1 .. MaxTime]

Granted(u) == SumAmounts(ledger, Bundles(ledger, u))
InFlight(u) == {t \in Txs : tx[t] # Idle /\ tx[t].user = u}

\* Spends never exceed the credits granted by more than what the other
\* transactions in flight can take: with one transaction there is no overdraft
\* (consumeCredits checks before it writes), with n at most n - 1 spends too many.
OverdraftBounded ==
    \A u \in Users :
        RealDebits(ledger, u) + Cost * Cardinality(InFlight(u))
            <= Granted(u) + Cost * (Cardinality(Txs) - 1)

\* Once an instance has finished a user for asOf, a rerun of the batch finds
\* nothing to insert, whatever spends and other instances have added since
\* (the retry safety expireCreditsForUsers documents).
ClosedStaysClosed ==
    \A u \in Users : closedTo[u] >= 0 => Expirations(ledger, u, closedTo[u]) = <<>>

\* No bundle is expired beyond its size: the EXPIRED rows that refer to a
\* bundle never add up to more credits than it was granted.
ExpiredAtMostOnce ==
    \A u \in Users : \A b \in Bundles(ledger, u) :
        SumAmounts(ledger, {i \in DOMAIN ledger : /\ ledger[i].source = "EXPIRED"
                                                  /\ ledger[i].ref = b}) <= ledger[b].amount

\* The balance a user sees is never less than what is left of the live bundles
\* when every spend is paid, as it is made, by the earliest-expiring live
\* bundle: re-attributing spends at read time never costs the user a credit.
BalanceNeverShort == \A u \in Users : GetBalance(u) >= TrueBalance(u)

\* Writing the EXPIRED rows moves no balance (the cron-independence of getBalance).
CronMovesNoBalance ==
    [][\A w \in Workers : Inserts(w) => \A u \in Users : Balance(ledger', u, now') = GetBalance(u)]_hvars

\* Every lapsed bundle is closed in the end: from some point on, at any day the
\* clock stops, the worker would find nothing more to insert.
LapsedBundlesClose == <>[](\A u \in Users : Expirations(ledger, u, now) = <<>>)

=============================================================================
