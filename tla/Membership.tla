----------------------------- MODULE Membership -----------------------------
(***************************************************************************)
(* The life of an account in all it touches: the identities it is known    *)
(* by, the tokens that act for it, what it has bought, what it has written *)
(* and the copies of its data it has asked for.                            *)
(***************************************************************************)
EXTENDS Accounts, StorePurchases, DataExports

CONSTANT Budgets     \* bound: what may happen together, records of numbers

VARIABLE checks      \* validations and sign-outs so far

vars == <<accessVars, accountVars, purchaseVars, chatVars, exportVars, checks>>

Init == AccountsInit /\ PurchasesInit /\ ChatsInit /\ ExportsInit /\ checks = 0

\* An account that is deleted takes its ledger and its exports along and leaves its
\* purchases behind.
Leaving == {u \in Accounts : user'[u] = "gone" /\ user[u] # "gone"}

\* The event of a deletion is emitted as its request ends.
TornDown == {req[r].user : r \in {q \in Reqs : req[q].pc = "teardown" /\ req'[q] # req[q]}}

Bought == Cardinality({e \in Events : e \in inbox \/ transactions[e] # NoPurchase})
Asked  == Cardinality({x \in Exports : Made(x)}) + Cardinality({a \in Askers : asking[a].pc = "create"})

\* Requests that ended an account, or will.
Goodbyes == Cardinality({r \in Reqs : req[r].pc \in {"erase", "disable"}})
            + Cardinality({u \in Accounts : user[u] \in {"disabled", "gone"}})

Busy(b) == b.purchases + b.messages + b.exports > 0

\* What may happen in one behaviour: beside purchases, chats and exports, the only requests
\* are those that end an account.
Within(b) ==
    /\ calls <= b.requests /\ checks <= b.checks /\ Bought <= b.purchases
    /\ sent <= b.messages /\ Asked <= b.exports /\ faults <= b.faults
    /\ Cardinality(overlapped) <= b.overlaps
    /\ mapped => b.purchases > 0
    /\ Busy(b) => calls <= Goodbyes /\ \A i \in Rows : Exists(i) => identity[i].value \in b.values

Fitting == {b \in Budgets : Within(b)}
MayAsk  == {b \in Fitting : calls < b.requests}

Next ==
    /\ \/ /\ \/ {b \in MayAsk : ~Busy(b)} # {} /\ Opening
             \/ MayAsk # {} /\ Closing
             \/ Going
          /\ Detach(Leaving) /\ Announce(TornDown) /\ Cascade(Leaving)
       \/ /\ {b \in Fitting : b.purchases > 0} # {} /\ PurchasesNext
          /\ UNCHANGED <<accessVars, accountVars, chatVars, exportVars>>
       \/ /\ {b \in Fitting : b.messages > 0} # {} /\ ChatsNext
          /\ UNCHANGED <<accessVars, accountVars, purchaseVars, exportVars>>
       \/ /\ {b \in Fitting : b.exports > 0} # {} /\ ExportsNext
          /\ UNCHANGED <<accessVars, accountVars, purchaseVars>>
          /\ UNCHANGED <<room, message, sending, keys, sent, instant, purging, purged, lingering>>
    /\ checks' = IF \E g \in Guards : guard[g] = Done /\ guard'[g] # Done THEN checks + 1 ELSE checks
    /\ Fitting' # {}

Spec == Init /\ [][Next]_vars

-----------------------------------------------------------------------------
\* Types of the variables.
TypeOK ==
    /\ AccountsTypeOK /\ PurchasesTypeOK /\ ChatsTypeOK /\ ExportsTypeOK
    /\ calls \in Nat /\ checks \in Nat
=============================================================================
