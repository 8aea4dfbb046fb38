--------------------------- MODULE AccountsProofs ---------------------------
(***************************************************************************)
(* What the steps of Accounts preserve, for every number of accounts,      *)
(* values, rows, requests and tokens.  Base is the inductive part the rest *)
(* stands on: types, requests that name rows there are, and accounts that  *)
(* come to life by their own sign-up only.                                 *)
(***************************************************************************)
EXTENDS Accounts, TLAPS

CredRows == [value : Values, user : Accounts, live : BOOLEAN]

\* Rows there are, and accounts that have ended.
There == {i \in Rows : Exists(i)}
Ended == {u \in Accounts : user[u] \in {"disabled", "gone"}}

Registering == {"open", "write", "commit"}
Newborn(q)  == q.pc \in Registering /\ q.kind = "signup"

\* A request for a credential.
Claims(q)   == q.pc \in Registering /\ q.kind \in {"signup", "secondary"}

\* A row as somebody saw it, verified for its owner.
SeenOwned(row) == row.owner # Nobody /\ row.verified

\* What a request says of the rows it saw, and of the accounts that have ended.
Sound(q, there, ended) ==
    /\ q.pc \in {"idle", "open", "write", "commit", "verify", "compare", "update",
                 "delete", "erase", "disable", "teardown"}
    /\ q.pc = "idle" => q = Idle
    /\ q.pc # "idle" => q.user \in Accounts
    /\ q.pc \in Registering =>
          /\ q.value \in Values
          /\ q.kind \in {"signup", "secondary", "create", "claim"}
          /\ q.proven \in BOOLEAN
    /\ q.pc = "write" => DOMAIN q = {"pc", "kind", "user", "value", "proven", "row", "seen"}
    /\ q.pc = "commit" => q.kind = "signup" /\ q.seen # NoRow
    /\ q.pc \in {"write", "commit"} =>
          /\ q.row \in Rows
          /\ q.seen # NoRow =>
                CASE q.kind \in {"signup", "secondary"} -> q.seen.owner = Nobody
                  [] q.kind = "create" -> ~SeenOwned(q.seen)
                  [] q.kind = "claim"  -> SeenOwned(q.seen) => q.seen.owner = q.user
    /\ q.pc \in {"verify", "compare", "update", "delete"} => q.row \in there
    /\ q.pc \in {"compare", "update"} => q.value \in Values
    /\ q.pc \in {"compare", "update", "delete"} => q.seen.owner = q.user
    /\ q.pc = "update" => \A d \in q.dups : d.row \in there /\ ~SeenOwned(d.seen)
    /\ q.pc = "erase" => \A s \in q.rows : s.row \in there /\ s.seen.owner = q.user
    /\ q.pc = "teardown" => q.user \in ended

\* Types of the tables, with what the foreign key of a credential says.
Tables ==
    /\ user \in [Accounts -> {"none", "active", "disabled", "gone"}]
    /\ identity \in [Rows -> IdentityRows \cup {NoRow}]
    /\ cred \in [Rows -> CredRows \cup {NoCred}]
    /\ \A i \in Rows : cred[i] # NoCred => Exists(i)

Requests ==
    /\ req = [r \in Reqs |-> req[r]]
    /\ \A r \in Reqs : Sound(req[r], There, Ended)

\* Nobody acts for an account that does not exist yet, but the request that creates it.
Newcomers ==
    /\ \A u \in Accounts : active[u] # {} => user[u] # "none"
    /\ \A i \in Rows : cred[i] # NoCred => user[cred[i].user] # "none"
    /\ \A g \in Guards : guard[g] # Done => user[guard[g].user] # "none"
    /\ \A r \in Reqs : Newborn(req[r]) =>
          /\ user[req[r].user] = "none"
          /\ \A s \in Reqs \ {r} : req[s] # Idle => req[s].user # req[r].user
    /\ \A r \in Reqs : req[r] # Idle /\ ~Newborn(req[r]) => user[req[r].user] # "none"

Base == AccessTypeOK /\ Tables /\ Requests /\ Newcomers

-----------------------------------------------------------------------------
(* Records.                                                                *)

\* A step is one of a request, of the handler of claims or of the tokens.
LEMMA AccountsSteps ==
    ASSUME AccountsNext
    PROVE  \/ /\ \/ \E v \in Values : LikeUnknown(v)
                 \/ \E r \in Reqs : Asks(r) \/ Works(r)
                 \/ \E u \in Accounts : HandleIdentityClaimed(u)
              /\ UNCHANGED accessVars
           \/ \E r \in Reqs : TearDown(r)
           \/ AccessNext /\ UNCHANGED <<rowVars, req, claims, calls, history>>
<1>1. CASE Opening
  BY <1>1 DEF Opening, Asks
<1>2. CASE Closing
  BY <1>2 DEF Closing, Asks
<1>3. CASE Going
  BY <1>3 DEF Going
<1> QED
  BY <1>1, <1>2, <1>3 DEF AccountsNext

\* A row has an owner, the record of no row has none.
LEMMA RowIsSome ==
    ASSUME NEW row \in IdentityRows
    PROVE  row # NoRow
<1>1. DOMAIN row = {"value", "owner", "verified", "deleted"}
  BY DEF IdentityRows
<1>2. DOMAIN NoRow = {"value"}
  BY DEF NoRow
<1> QED
  BY <1>1, <1>2

LEMMA CredIsSome ==
    ASSUME NEW row \in CredRows
    PROVE  row # NoCred
<1>1. DOMAIN row = {"value", "user", "live"}
  BY DEF CredRows
<1>2. DOMAIN NoCred = {"value"}
  BY DEF NoCred
<1> QED
  BY <1>1, <1>2

\* The ways a row is changed leave its other fields.  (The sets of values are hidden in
\* the proofs because SMT does not take Boolean fields apart.)
LEMMA RowVerified ==
    ASSUME NEW row \in IdentityRows
    PROVE  LET new == [row EXCEPT !.verified = TRUE] IN
           /\ new \in IdentityRows
           /\ new.value = row.value /\ new.owner = row.owner /\ new.deleted = row.deleted
<1> DEFINE B   == BOOLEAN
           yes == TRUE
           no  == FALSE
           V   == Values \cup {Mangled}
           O   == Accounts \cup {Nobody}
           m   == Mangled
           new == [row EXCEPT !.verified = yes]
<1>1. /\ IdentityRows = [value : V, owner : O, verified : B, deleted : B]
      /\ m \in V /\ Nobody \in O /\ yes \in B /\ no \in B
  BY DEF IdentityRows
<1> HIDE DEF B, yes, no, V, O, m
<1>2. /\ new \in IdentityRows
      /\ new.value = row.value /\ new.owner = row.owner /\ new.deleted = row.deleted
  BY <1>1
<1> USE DEF yes, no, m
<1> QED
  BY <1>2

LEMMA RowRenamed ==
    ASSUME NEW row \in IdentityRows, NEW v \in Values
    PROVE  LET new == [row EXCEPT !.value = v] IN
           /\ new \in IdentityRows
           /\ new.value = v /\ new.owner = row.owner /\ new.deleted = row.deleted
<1> DEFINE B   == BOOLEAN
           yes == TRUE
           no  == FALSE
           V   == Values \cup {Mangled}
           O   == Accounts \cup {Nobody}
           m   == Mangled
           new == [row EXCEPT !.value = v]
<1>1. /\ IdentityRows = [value : V, owner : O, verified : B, deleted : B]
      /\ v \in V /\ m \in V /\ Nobody \in O /\ yes \in B /\ no \in B
  BY DEF IdentityRows
<1> HIDE DEF B, yes, no, V, O, m
<1>2. /\ new \in IdentityRows
      /\ new.value = v /\ new.owner = row.owner /\ new.deleted = row.deleted
  BY <1>1
<1> USE DEF yes, no, m
<1> QED
  BY <1>2

LEMMA RowMoved ==
    ASSUME NEW row \in IdentityRows
    PROVE  LET new == [row EXCEPT !.value = Mangled, !.owner = Nobody, !.deleted = TRUE] IN
           /\ new \in IdentityRows
           /\ new.value = Mangled /\ new.owner = Nobody
<1> DEFINE B   == BOOLEAN
           yes == TRUE
           no  == FALSE
           V   == Values \cup {Mangled}
           O   == Accounts \cup {Nobody}
           m   == Mangled
           new == [row EXCEPT !.value = m, !.owner = Nobody, !.deleted = yes]
<1>1. /\ IdentityRows = [value : V, owner : O, verified : B, deleted : B]
      /\ m \in V /\ Nobody \in O /\ yes \in B /\ no \in B
  BY DEF IdentityRows
<1> HIDE DEF B, yes, no, V, O, m
<1>2. /\ new \in IdentityRows
      /\ new.value = m /\ new.owner = Nobody
  BY <1>1
<1> USE DEF yes, no, m
<1> QED
  BY <1>2

LEMMA RowDropped ==
    ASSUME NEW row \in IdentityRows
    PROVE  LET new == [row EXCEPT !.deleted = TRUE, !.owner = Nobody, !.verified = FALSE] IN
           /\ new \in IdentityRows
           /\ new.value = row.value /\ new.owner = Nobody
<1> DEFINE B   == BOOLEAN
           yes == TRUE
           no  == FALSE
           V   == Values \cup {Mangled}
           O   == Accounts \cup {Nobody}
           m   == Mangled
           new == [row EXCEPT !.deleted = yes, !.owner = Nobody, !.verified = no]
<1>1. /\ IdentityRows = [value : V, owner : O, verified : B, deleted : B]
      /\ m \in V /\ Nobody \in O /\ yes \in B /\ no \in B
  BY DEF IdentityRows
<1> HIDE DEF B, yes, no, V, O, m
<1>2. /\ new \in IdentityRows
      /\ new.value = row.value /\ new.owner = Nobody
  BY <1>1
<1> USE DEF yes, no, m
<1> QED
  BY <1>2

LEMMA RowFreed ==
    ASSUME NEW row \in IdentityRows
    PROVE  LET new == [row EXCEPT !.owner = Nobody, !.verified = FALSE, !.deleted = TRUE] IN
           /\ new \in IdentityRows
           /\ new.value = row.value /\ new.owner = Nobody
<1> DEFINE B   == BOOLEAN
           yes == TRUE
           no  == FALSE
           V   == Values \cup {Mangled}
           O   == Accounts \cup {Nobody}
           m   == Mangled
           new == [row EXCEPT !.owner = Nobody, !.verified = no, !.deleted = yes]
<1>1. /\ IdentityRows = [value : V, owner : O, verified : B, deleted : B]
      /\ m \in V /\ Nobody \in O /\ yes \in B /\ no \in B
  BY DEF IdentityRows
<1> HIDE DEF B, yes, no, V, O, m
<1>2. /\ new \in IdentityRows
      /\ new.value = row.value /\ new.owner = Nobody
  BY <1>1
<1> USE DEF yes, no, m
<1> QED
  BY <1>2

LEMMA RowDisowned ==
    ASSUME NEW row \in IdentityRows
    PROVE  LET new == [row EXCEPT !.owner = Nobody] IN
           /\ new \in IdentityRows
           /\ new.value = row.value /\ new.owner = Nobody
<1> DEFINE B   == BOOLEAN
           yes == TRUE
           no  == FALSE
           V   == Values \cup {Mangled}
           O   == Accounts \cup {Nobody}
           m   == Mangled
           new == [row EXCEPT !.owner = Nobody]
<1>1. /\ IdentityRows = [value : V, owner : O, verified : B, deleted : B]
      /\ m \in V /\ Nobody \in O /\ yes \in B /\ no \in B
  BY DEF IdentityRows
<1> HIDE DEF B, yes, no, V, O, m
<1>2. /\ new \in IdentityRows
      /\ new.value = row.value /\ new.owner = Nobody
  BY <1>1
<1> USE DEF yes, no, m
<1> QED
  BY <1>2

LEMMA RowHidden ==
    ASSUME NEW row \in IdentityRows
    PROVE  LET new == [row EXCEPT !.deleted = TRUE] IN
           /\ new \in IdentityRows
           /\ new.value = row.value /\ new.owner = row.owner /\ new.deleted = TRUE
<1> DEFINE B   == BOOLEAN
           yes == TRUE
           no  == FALSE
           V   == Values \cup {Mangled}
           O   == Accounts \cup {Nobody}
           m   == Mangled
           new == [row EXCEPT !.deleted = yes]
<1>1. /\ IdentityRows = [value : V, owner : O, verified : B, deleted : B]
      /\ m \in V /\ Nobody \in O /\ yes \in B /\ no \in B
  BY DEF IdentityRows
<1> HIDE DEF B, yes, no, V, O, m
<1>2. /\ new \in IdentityRows
      /\ new.value = row.value /\ new.owner = row.owner /\ new.deleted = yes
  BY <1>1
<1> USE DEF yes, no, m
<1> QED
  BY <1>2

-----------------------------------------------------------------------------
(* The rows.                                                               *)

\* OwnedBy and Shown, of a row that is given.
Owns(row, u)  == row # NoRow /\ row.owner = u
Shows(row, u) == Owns(row, u) /\ ~row.deleted

\* A row that is changed without getting an owner, or being shown again.
Eased(old, new) ==
    \/ new = old
    \/ new \in IdentityRows /\ new.owner = Nobody
    \/ /\ {old, new} \subseteq IdentityRows
       /\ new.owner = old.owner
       /\ new.deleted = old.deleted \/ new.deleted

\* No row gets lost, and no account gets one.
Lessens ==
    /\ identity' \in [Rows -> IdentityRows \cup {NoRow}]
    /\ \A i \in Rows : identity[i] # NoRow => identity'[i] # NoRow
    /\ \A i \in Rows, u \in Accounts : /\ Owns(identity'[i], u) => Owns(identity[i], u)
                                       /\ Shows(identity'[i], u) => Shows(identity[i], u)

LEMMA EasedRow ==
    ASSUME NEW old \in IdentityRows \cup {NoRow}, NEW new, Eased(old, new)
    PROVE  /\ new \in IdentityRows \cup {NoRow}
           /\ old # NoRow => new # NoRow
           /\ \A u \in Accounts : /\ Owns(new, u) => Owns(old, u)
                                  /\ Shows(new, u) => Shows(old, u)
<1>1. CASE new = old
  BY <1>1
<1>2. CASE new \in IdentityRows /\ new.owner = Nobody
  BY <1>2, RowIsSome, AccountsAssumption DEF Owns, Shows
<1>3. CASE /\ {old, new} \subseteq IdentityRows
           /\ new.owner = old.owner
           /\ new.deleted = old.deleted \/ new.deleted
  <2>1. ~new.deleted => ~old.deleted
    BY <1>3, Zenon
  <2> QED
    BY <1>3, <2>1, RowIsSome, Zenon DEF Owns, Shows
<1> QED
  BY <1>1, <1>2, <1>3 DEF Eased

LEMMA EasedLessens ==
    ASSUME Tables, identity' \in [Rows -> IdentityRows \cup {NoRow}],
           \A i \in Rows : Eased(identity[i], identity'[i])
    PROVE  Lessens
<1>1. \A i \in Rows : identity[i] \in IdentityRows \cup {NoRow}
  BY DEF Tables
<1>2. ASSUME NEW i \in Rows
      PROVE  /\ identity'[i] \in IdentityRows \cup {NoRow}
             /\ identity[i] # NoRow => identity'[i] # NoRow
             /\ \A u \in Accounts : /\ Owns(identity'[i], u) => Owns(identity[i], u)
                                    /\ Shows(identity'[i], u) => Shows(identity[i], u)
  <2>1. PICK old, new : old = identity[i] /\ new = identity'[i]
    OBVIOUS
  <2>2. Eased(old, new) /\ old \in IdentityRows \cup {NoRow}
    BY <1>1, <2>1
  <2>3. /\ new \in IdentityRows \cup {NoRow}
        /\ old # NoRow => new # NoRow
        /\ \A u \in Accounts : /\ Owns(new, u) => Owns(old, u)
                               /\ Shows(new, u) => Shows(old, u)
    BY <2>2, EasedRow
  <2> QED
    BY <2>1, <2>3, Zenon
<1>3. \A i \in Rows : identity[i] # NoRow => identity'[i] # NoRow
  BY <1>2
<1>4. \A i \in Rows, u \in Accounts : /\ Owns(identity'[i], u) => Owns(identity[i], u)
                                      /\ Shows(identity'[i], u) => Shows(identity[i], u)
  BY <1>2, Zenon
<1> QED
  BY <1>3, <1>4, Zenon DEF Lessens

LEMMA RowTypes ==
    ASSUME Tables, NEW i \in Rows, Exists(i)
    PROVE  identity[i] \in IdentityRows
BY DEF Tables, Exists

LEMMA LikeUnknownLessens ==
    ASSUME Tables, NEW v \in Values, LikeUnknown(v)
    PROVE  Lessens
<1> DEFINE row == [value |-> v, owner |-> Nobody, verified |-> FALSE, deleted |-> FALSE]
<1>1. PICK i \in Rows : ~Exists(i) /\ identity' = [identity EXCEPT ![i] = row]
  BY DEF LikeUnknown
<1>2. row \in IdentityRows /\ row.owner = Nobody
  BY DEF IdentityRows
<1> HIDE DEF row
<1>3. /\ identity' \in [Rows -> IdentityRows \cup {NoRow}]
      /\ \A j \in Rows : Eased(identity[j], identity'[j])
  BY <1>1, <1>2 DEF Tables, Eased
<1> QED
  BY <1>3, EasedLessens

LEMMA AutoVerifyLessens ==
    ASSUME Tables, Requests, NEW r \in Reqs, AutoVerify(r)
    PROVE  /\ Lessens
           /\ \A i \in Rows : /\ identity'[i].value = identity[i].value
                              /\ identity'[i].owner = identity[i].owner
<1>1. PICK k \in There : /\ k = req[r].row
                         /\ identity' = [identity EXCEPT ![k].verified = TRUE]
  BY DEF Requests, Sound, AutoVerify
<1>2. k \in Rows /\ identity[k] \in IdentityRows
  BY <1>1, RowTypes DEF There
<1>3. LET new == [identity[k] EXCEPT !.verified = TRUE]
      IN /\ new \in IdentityRows /\ new.owner = identity[k].owner
         /\ new.value = identity[k].value /\ new.deleted = identity[k].deleted
  BY <1>2, RowVerified
<1>4. /\ identity' \in [Rows -> IdentityRows \cup {NoRow}]
      /\ \A j \in Rows : Eased(identity[j], identity'[j])
  BY <1>1, <1>2, <1>3 DEF Tables, Eased
<1>5. \A j \in Rows : identity'[j].value = identity[j].value /\ identity'[j].owner = identity[j].owner
  BY <1>1, <1>2, <1>3 DEF Tables
<1> QED
  BY <1>4, <1>5, EasedLessens

LEMMA CommitDeleteLessens ==
    ASSUME Tables, Requests, NEW r \in Reqs, CommitDelete(r)
    PROVE  /\ Lessens
           /\ \A i \in Rows : identity'[i].value = identity[i].value
<1>1. PICK k \in There :
         /\ k = req[r].row
         /\ identity' = [identity EXCEPT ![k].deleted = TRUE, ![k].owner = Nobody,
                                         ![k].verified = FALSE]
  BY DEF Requests, Sound, CommitDelete
<1> DEFINE new == [identity[k] EXCEPT !.deleted = TRUE, !.owner = Nobody, !.verified = FALSE]
<1>2. k \in Rows /\ identity[k] \in IdentityRows
  BY <1>1, RowTypes DEF There
<1>3. new \in IdentityRows /\ new.owner = Nobody /\ new.value = identity[k].value
  BY <1>2, RowDropped
<1>4. identity' = [identity EXCEPT ![k] = new]
  BY <1>1, <1>2 DEF Tables
<1> HIDE DEF new
<1>5. /\ identity' \in [Rows -> IdentityRows \cup {NoRow}]
      /\ \A j \in Rows : Eased(identity[j], identity'[j])
  BY <1>2, <1>3, <1>4 DEF Tables, Eased
<1>6. \A j \in Rows : identity'[j].value = identity[j].value
  BY <1>2, <1>3, <1>4 DEF Tables
<1> QED
  BY <1>5, <1>6, EasedLessens

\* What an update makes of a row: the new value, or room for it.
LEMMA CommitUpdateRows ==
    ASSUME Tables, Requests, NEW r \in Reqs, CommitUpdate(r)
    PROVE  LET q    == req[r]
               dups == {d.row : d \in q.dups}
           IN /\ q.row \in There /\ q.value \in Values /\ dups \subseteq There
              /\ \A i \in Rows :
                    /\ i = q.row => /\ identity'[i] = [identity[i] EXCEPT !.value = q.value]
                                    /\ identity'[i] \in IdentityRows
                                    /\ identity'[i].value = q.value
                                    /\ identity'[i].owner = identity[i].owner
                                    /\ identity'[i].deleted = identity[i].deleted
                    /\ i \in dups /\ i # q.row => /\ identity'[i] \in IdentityRows
                                                  /\ identity'[i].value = Mangled
                                                  /\ identity'[i].owner = Nobody
                    /\ i \notin dups /\ i # q.row => identity'[i] = identity[i]
              /\ identity' \in [Rows -> IdentityRows \cup {NoRow}]
<1> DEFINE q    == req[r]
           dups == {d.row : d \in q.dups}
<1>1. q.pc = "update" /\ Sound(q, There, Ended)
  BY DEF Requests, CommitUpdate
<1>2. q.row \in There /\ q.value \in Values /\ dups \subseteq There
  BY <1>1 DEF Sound
<1>3. \A i \in There : i \in Rows /\ identity[i] \in IdentityRows
  BY RowTypes DEF There
<1> DEFINE Renamed(i) == [identity[i] EXCEPT !.value = q.value]
           Moved(i) == [identity[i] EXCEPT !.value = Mangled, !.owner = Nobody, !.deleted = TRUE]
<1>4. identity' = [i \in Rows |-> CASE i = q.row -> Renamed(i)
                                    [] i \in dups \ {q.row} -> Moved(i)
                                    [] OTHER -> identity[i]]
  BY DEF CommitUpdate
<1> HIDE DEF q, dups, Renamed, Moved
<1>5. ASSUME NEW i \in Rows
      PROVE  /\ i = q.row => /\ identity'[i] = [identity[i] EXCEPT !.value = q.value]
                             /\ identity'[i] \in IdentityRows
                             /\ identity'[i].value = q.value
                             /\ identity'[i].owner = identity[i].owner
                             /\ identity'[i].deleted = identity[i].deleted
             /\ i \in dups /\ i # q.row => /\ identity'[i] \in IdentityRows
                                           /\ identity'[i].value = Mangled
                                           /\ identity'[i].owner = Nobody
             /\ i \notin dups /\ i # q.row => identity'[i] = identity[i]
  <2>1. CASE i = q.row
    <3>1. identity'[i] = Renamed(i)
      BY <1>4, <2>1
    <3>2. identity[i] \in IdentityRows /\ q.value \in Values
      BY <1>2, <1>3, <2>1
    <3>3. /\ Renamed(i) \in IdentityRows
          /\ Renamed(i).value = q.value
          /\ Renamed(i).owner = identity[i].owner
          /\ Renamed(i).deleted = identity[i].deleted
      BY <3>2, RowRenamed DEF Renamed
    <3>4. Renamed(i) = [identity[i] EXCEPT !.value = q.value]
      BY DEF Renamed
    <3> QED
      BY <2>1, <3>1, <3>3, <3>4, Zenon
  <2>2. CASE i \in dups /\ i # q.row
    <3>1. identity'[i] = Moved(i)
      BY <1>4, <2>2
    <3>2. identity[i] \in IdentityRows
      BY <1>2, <1>3, <2>2
    <3>3. Moved(i) \in IdentityRows /\ Moved(i).value = Mangled /\ Moved(i).owner = Nobody
      BY <3>2, RowMoved DEF Moved
    <3> QED
      BY <2>2, <3>1, <3>3, Zenon
  <2>3. CASE i \notin dups /\ i # q.row
    BY <1>4, <2>3
  <2> QED
    BY <2>1, <2>2, <2>3
<1>6. \A i \in Rows : identity'[i] \in IdentityRows \cup {NoRow}
  BY <1>5 DEF Tables
<1>7. identity' \in [Rows -> IdentityRows \cup {NoRow}]
  BY <1>4, <1>6
<1> QED
  BY <1>2, <1>5, <1>7 DEF q, dups

LEMMA CommitUpdateLessens ==
    ASSUME Tables, Requests, NEW r \in Reqs, CommitUpdate(r)
    PROVE  Lessens
<1> DEFINE q    == req[r]
           dups == {d.row : d \in q.dups}
<1>1. identity' \in [Rows -> IdentityRows \cup {NoRow}]
  BY CommitUpdateRows
<1>2. ASSUME NEW i \in Rows
      PROVE  Eased(identity[i], identity'[i])
  <2>1. CASE i = q.row
    <3>1. identity[i] \in IdentityRows
      BY <2>1, CommitUpdateRows, RowTypes DEF There
    <3>2. /\ identity'[i] \in IdentityRows
          /\ identity'[i].owner = identity[i].owner
          /\ identity'[i].deleted = identity[i].deleted
      BY <2>1, CommitUpdateRows
    <3> QED
      BY <3>1, <3>2 DEF Eased
  <2>2. CASE i # q.row
    BY <2>2, CommitUpdateRows DEF Eased
  <2> QED
    BY <2>1, <2>2
<1> QED
  BY <1>1, <1>2, EasedLessens

\* What deleting an account makes of the rows, and of the credentials.
LEMMA CommitEraseRows ==
    ASSUME Tables, Requests, NEW r \in Reqs, CommitErase(r)
    PROVE  LET q    == req[r]
               rows == {s.row : s \in q.rows}
           IN /\ q.user \in Accounts /\ rows \subseteq There
              /\ user' = [user EXCEPT ![q.user] = "gone"]
              /\ identity' \in [Rows -> IdentityRows \cup {NoRow}]
              /\ \A i \in Rows :
                    /\ i \in rows \/ Owns(identity[i], q.user) =>
                          /\ identity'[i] \in IdentityRows
                          /\ identity'[i].owner = Nobody
                          /\ identity'[i].value = identity[i].value
                    /\ i \notin rows /\ ~Owns(identity[i], q.user) => identity'[i] = identity[i]
                    /\ cred'[i] = IF cred[i] # NoCred /\ cred[i].user = q.user THEN NoCred
                                  ELSE cred[i]
              /\ cred' \in [Rows -> CredRows \cup {NoCred}]
<1> DEFINE q    == req[r]
           rows == {s.row : s \in q.rows}
<1>1. q.pc = "erase" /\ Sound(q, There, Ended)
  BY DEF Requests, CommitErase
<1>2. q.user \in Accounts /\ rows \subseteq There
  BY <1>1 DEF Sound
<1> DEFINE Freed(i) == [identity[i] EXCEPT !.owner = Nobody, !.verified = FALSE, !.deleted = TRUE]
           Disowned(i) == [identity[i] EXCEPT !.owner = Nobody]
<1>3. /\ user' = [user EXCEPT ![q.user] = "gone"]
      /\ identity' = [i \in Rows |->
                CASE i \in rows -> Freed(i)
                  [] i \notin rows /\ OwnedBy(i, q.user) -> Disowned(i)
                  [] OTHER -> identity[i]]
      /\ cred' = [i \in Rows |-> IF cred[i] # NoCred /\ cred[i].user = q.user THEN NoCred
                                 ELSE cred[i]]
  BY DEF CommitErase
<1> HIDE DEF q, rows, Freed, Disowned
<1>4. ASSUME NEW i \in Rows
      PROVE  /\ i \in rows \/ Owns(identity[i], q.user) =>
                   /\ identity'[i] \in IdentityRows
                   /\ identity'[i].owner = Nobody
                   /\ identity'[i].value = identity[i].value
             /\ i \notin rows /\ ~Owns(identity[i], q.user) => identity'[i] = identity[i]
  <2>1. OwnedBy(i, q.user) <=> Owns(identity[i], q.user)
    BY DEF OwnedBy, Exists, Owns
  <2>2. CASE i \in rows
    <3>1. identity'[i] = Freed(i)
      BY <1>3, <2>2
    <3>2. identity[i] \in IdentityRows
      BY <1>2, <2>2, RowTypes DEF There
    <3>3. /\ Freed(i) \in IdentityRows
          /\ Freed(i).owner = Nobody /\ Freed(i).value = identity[i].value
      BY <3>2, RowFreed DEF Freed
    <3> QED
      BY <2>2, <3>1, <3>3, Zenon
  <2>3. CASE i \notin rows /\ Owns(identity[i], q.user)
    <3>1. identity'[i] = Disowned(i)
      BY <1>3, <2>1, <2>3
    <3>2. identity[i] \in IdentityRows
      BY <2>1, <2>3, RowTypes DEF OwnedBy
    <3>3. /\ Disowned(i) \in IdentityRows
          /\ Disowned(i).owner = Nobody /\ Disowned(i).value = identity[i].value
      BY <3>2, RowDisowned DEF Disowned
    <3> QED
      BY <2>3, <3>1, <3>3, Zenon
  <2>4. CASE i \notin rows /\ ~Owns(identity[i], q.user)
    BY <1>3, <2>1, <2>4
  <2> QED
    BY <2>2, <2>3, <2>4
<1>5. \A i \in Rows : identity'[i] \in IdentityRows \cup {NoRow}
  BY <1>4 DEF Tables
<1>6. identity' \in [Rows -> IdentityRows \cup {NoRow}]
  BY <1>3, <1>5
<1>7. /\ cred' \in [Rows -> CredRows \cup {NoCred}]
      /\ \A i \in Rows : cred'[i] = IF cred[i] # NoCred /\ cred[i].user = q.user THEN NoCred
                                    ELSE cred[i]
  BY <1>3 DEF Tables
<1> QED
  BY <1>2, <1>3, <1>4, <1>6, <1>7 DEF q, rows

LEMMA CommitEraseLessens ==
    ASSUME Tables, Requests, NEW r \in Reqs, CommitErase(r)
    PROVE  Lessens
<1>1. /\ identity' \in [Rows -> IdentityRows \cup {NoRow}]
      /\ \A i \in Rows : Eased(identity[i], identity'[i])
  BY CommitEraseRows DEF Eased
<1> QED
  BY <1>1, EasedLessens

\* A credential whose deletedAt is set.
LEMMA CredEnded ==
    ASSUME NEW row \in CredRows
    PROVE  LET new == [row EXCEPT !.live = FALSE] IN
           /\ new \in CredRows
           /\ new.value = row.value /\ new.user = row.user /\ new.live = FALSE
<1> DEFINE B   == BOOLEAN
           no  == FALSE
           new == [row EXCEPT !.live = no]
<1>1. CredRows = [value : Values, user : Accounts, live : B] /\ no \in B
  BY DEF CredRows
<1> HIDE DEF B, no
<1>2. /\ new \in CredRows
      /\ new.value = row.value /\ new.user = row.user /\ new.live = no
  BY <1>1
<1> USE DEF no
<1> QED
  BY <1>2

\* What disabling an account makes of the rows, and of the credentials.
LEMMA CommitDisableRows ==
    ASSUME Tables, Requests, NEW r \in Reqs, CommitDisable(r)
    PROVE  LET q == req[r]
           IN /\ q.user \in Accounts
              /\ user' = [user EXCEPT ![q.user] = "disabled"]
              /\ identity' \in [Rows -> IdentityRows \cup {NoRow}]
              /\ \A i \in Rows :
                    /\ Shows(identity[i], q.user) =>
                          /\ {identity[i], identity'[i]} \subseteq IdentityRows
                          /\ identity'[i].owner = identity[i].owner
                          /\ identity'[i].value = identity[i].value
                          /\ identity'[i].deleted = TRUE
                    /\ ~Shows(identity[i], q.user) => identity'[i] = identity[i]
              /\ cred' \in [Rows -> CredRows \cup {NoCred}]
              /\ \A i \in Rows :
                    /\ Live(i) /\ cred[i].user = q.user =>
                          /\ cred'[i].value = cred[i].value
                          /\ cred'[i].user = q.user
                          /\ cred'[i].live = FALSE
                    /\ ~(Live(i) /\ cred[i].user = q.user) => cred'[i] = cred[i]
<1> DEFINE q == req[r]
           Hidden(i) == [identity[i] EXCEPT !.deleted = TRUE]
           Dead(i)   == [cred[i] EXCEPT !.live = FALSE]
<1>1. q.pc = "disable" /\ Sound(q, There, Ended)
  BY DEF Requests, CommitDisable
<1>2. q.user \in Accounts
  BY <1>1 DEF Sound
<1>3. /\ user' = [user EXCEPT ![q.user] = "disabled"]
      /\ identity' = [i \in Rows |-> IF Shown(i, q.user) THEN Hidden(i) ELSE identity[i]]
      /\ cred' = [i \in Rows |-> IF Live(i) /\ cred[i].user = q.user THEN Dead(i) ELSE cred[i]]
  BY DEF CommitDisable
<1> HIDE DEF q, Hidden, Dead
<1>4. ASSUME NEW i \in Rows
      PROVE  /\ Shows(identity[i], q.user) =>
                    /\ {identity[i], identity'[i]} \subseteq IdentityRows
                    /\ identity'[i].owner = identity[i].owner
                    /\ identity'[i].value = identity[i].value
                    /\ identity'[i].deleted = TRUE
             /\ ~Shows(identity[i], q.user) => identity'[i] = identity[i]
  <2>1. Shown(i, q.user) <=> Shows(identity[i], q.user)
    BY Zenon DEF Shown, OwnedBy, Exists, Owns, Shows
  <2>2. CASE Shows(identity[i], q.user)
    <3>1. identity[i] \in IdentityRows
      BY <2>1, <2>2, RowTypes DEF Shown, OwnedBy
    <3>2. /\ Hidden(i) \in IdentityRows
          /\ Hidden(i).value = identity[i].value
          /\ Hidden(i).owner = identity[i].owner
          /\ Hidden(i).deleted = TRUE
      BY <3>1, RowHidden DEF Hidden
    <3>3. identity'[i] = Hidden(i)
      BY <1>3, <2>1, <2>2
    <3>4. {identity[i], identity'[i]} \subseteq IdentityRows
      BY <3>1, <3>2, <3>3
    <3> QED
      BY <2>2, <3>2, <3>3, <3>4, Zenon
  <2>3. CASE ~Shows(identity[i], q.user)
    BY <1>3, <2>1, <2>3
  <2> QED
    BY <2>2, <2>3
<1>5. \A i \in Rows : identity'[i] \in IdentityRows \cup {NoRow}
  BY <1>4 DEF Tables
<1>6. identity' \in [Rows -> IdentityRows \cup {NoRow}]
  BY <1>3, <1>5
<1>7. ASSUME NEW i \in Rows
      PROVE  /\ cred'[i] \in CredRows \cup {NoCred}
             /\ Live(i) /\ cred[i].user = q.user =>
                   /\ cred'[i].value = cred[i].value
                   /\ cred'[i].user = q.user
                   /\ cred'[i].live = FALSE
             /\ ~(Live(i) /\ cred[i].user = q.user) => cred'[i] = cred[i]
  <2>1. CASE Live(i) /\ cred[i].user = q.user
    <3>1. cred[i] \in CredRows
      BY <2>1 DEF Live, Tables
    <3>2. /\ Dead(i) \in CredRows
          /\ Dead(i).value = cred[i].value /\ Dead(i).user = cred[i].user /\ Dead(i).live = FALSE
      BY <3>1, CredEnded DEF Dead
    <3>3. cred'[i] = Dead(i)
      BY <1>3, <2>1
    <3>4. cred'[i] \in CredRows \cup {NoCred}
      BY <3>2, <3>3
    <3> QED
      BY <2>1, <3>2, <3>3, <3>4, Zenon
  <2>2. CASE ~(Live(i) /\ cred[i].user = q.user)
    <3>1. cred'[i] = cred[i]
      BY <1>3, <2>2
    <3>2. cred'[i] \in CredRows \cup {NoCred}
      BY <3>1 DEF Tables
    <3> QED
      BY <2>2, <3>1, <3>2
  <2> QED
    BY <2>1, <2>2
<1>8. cred' \in [Rows -> CredRows \cup {NoCred}]
  BY <1>3, <1>7
<1> QED
  BY <1>2, <1>3, <1>4, <1>6, <1>7, <1>8 DEF q

LEMMA CommitDisableLessens ==
    ASSUME Tables, Requests, NEW r \in Reqs, CommitDisable(r)
    PROVE  Lessens
<1>1. identity' \in [Rows -> IdentityRows \cup {NoRow}]
  BY CommitDisableRows
<1>2. ASSUME NEW i \in Rows
      PROVE  Eased(identity[i], identity'[i])
  <2>1. CASE Shows(identity[i], req[r].user)
    BY <2>1, CommitDisableRows DEF Eased
  <2>2. CASE ~Shows(identity[i], req[r].user)
    BY <2>2, CommitDisableRows DEF Eased
  <2> QED
    BY <2>1, <2>2
<1> QED
  BY <1>1, <1>2, EasedLessens

\* What a registration makes of its row: the account's, with the value it asked for.
LEMMA CommitIdentityRows ==
    ASSUME Tables, Requests, NEW r \in Reqs, CommitIdentity(r)
    PROVE  LET q == req[r]
               i == q.row
           IN /\ q.pc \in {"write", "commit"} /\ Sound(q, There, Ended)
              /\ i \in Rows /\ q.user \in Accounts /\ q.value \in Values
              /\ RowsOf(q.value) \subseteq {i}
              /\ identity' = [identity EXCEPT ![i] = Written(q)]
              /\ identity' \in [Rows -> IdentityRows \cup {NoRow}]
              /\ Written(q) \in IdentityRows
              /\ Written(q).value = q.value /\ Written(q).owner = q.user
              /\ \/ /\ q.kind \in {"signup", "secondary"}
                    /\ cred[i] = NoCred
                    /\ cred' = [cred EXCEPT ![i] = [value |-> q.value, user |-> q.user,
                                                    live |-> TRUE]]
                 \/ q.kind \in {"create", "claim"} /\ cred' = cred
              /\ cred' \in [Rows -> CredRows \cup {NoCred}]
              /\ \/ q.kind = "signup" /\ user' = [user EXCEPT ![q.user] = "active"]
                 \/ q.kind # "signup" /\ user[q.user] # "gone" /\ user' = user
<1> DEFINE q == req[r]
           i == q.row
<1>1. /\ q.pc \in {"write", "commit"}
      /\ Accepts(q)
      /\ user' = IF q.kind = "signup" THEN [user EXCEPT ![q.user] = "active"] ELSE user
      /\ identity' = [identity EXCEPT ![i] = Written(q)]
      /\ cred' = IF q.kind \in {"signup", "secondary"}
                 THEN [cred EXCEPT ![i] = [value |-> q.value, user |-> q.user, live |-> TRUE]]
                 ELSE cred
  BY Zenon DEF CommitIdentity
<1>2. Sound(q, There, Ended)
  BY DEF Requests
<1> HIDE DEF q
<1>3. /\ i \in Rows /\ q.user \in Accounts /\ q.value \in Values
      /\ q.kind \in {"signup", "secondary", "create", "claim"}
      /\ q.proven \in BOOLEAN
  BY <1>1, <1>2 DEF Sound, Registering
<1>4. /\ Written(q) \in IdentityRows
      /\ Written(q).value = q.value /\ Written(q).owner = q.user
  <2> DEFINE B == BOOLEAN
             d == q.kind \in {"signup", "secondary"} /\ q.seen # NoRow /\ identity[i].deleted
  <2>1. q.proven \in B /\ d \in B
    BY <1>3
  <2>2. /\ IdentityRows = [value : Values \cup {Mangled}, owner : Accounts \cup {Nobody},
                           verified : B, deleted : B]
        /\ Written(q) = [value |-> q.value, owner |-> q.user, verified |-> q.proven, deleted |-> d]
    BY DEF IdentityRows, Written
  <2> HIDE DEF B, d
  <2> QED
    BY <1>3, <2>1, <2>2
<1>5. identity' \in [Rows -> IdentityRows \cup {NoRow}]
  BY <1>1, <1>3, <1>4 DEF Tables
<1>6. RowsOf(q.value) \subseteq {i}
  BY <1>1 DEF Accepts
<1>7. /\ \/ /\ q.kind \in {"signup", "secondary"}
            /\ cred[i] = NoCred
            /\ cred' = [cred EXCEPT ![i] = [value |-> q.value, user |-> q.user, live |-> TRUE]]
         \/ q.kind \in {"create", "claim"} /\ cred' = cred
      /\ \/ q.kind = "signup" /\ user' = [user EXCEPT ![q.user] = "active"]
         \/ q.kind # "signup" /\ user[q.user] # "gone" /\ user' = user
  BY <1>1, <1>3 DEF Accepts
<1>8. [value |-> q.value, user |-> q.user, live |-> TRUE] \in CredRows
  BY <1>3 DEF CredRows
<1>9. cred' \in [Rows -> CredRows \cup {NoCred}]
  <2> DEFINE new == [value |-> q.value, user |-> q.user, live |-> TRUE]
  <2>1. new \in CredRows /\ (cred' = cred \/ cred' = [cred EXCEPT ![i] = new])
    BY <1>7, <1>8
  <2> HIDE DEF new
  <2> QED
    BY <1>3, <2>1 DEF Tables
<1> QED
  BY <1>1, <1>2, <1>3, <1>4, <1>5, <1>6, <1>7, <1>9, Zenon DEF q

-----------------------------------------------------------------------------
(* The tables, in every step.                                              *)

\* The steps that write to the tables.
Writes(r) ==
    \/ AutoVerify(r) \/ CommitUpdate(r) \/ CommitDelete(r)
    \/ CommitErase(r) \/ CommitDisable(r) \/ CommitIdentity(r)

LEMMA WritingSteps ==
    ASSUME AccountsNext
    PROVE  \/ UNCHANGED <<user, identity, cred, contested, moved, late>>
           \/ \E v \in Values : LikeUnknown(v)
           \/ \E r \in Reqs : Writes(r)
<1>1. CASE \E v \in Values : LikeUnknown(v)
  BY <1>1
<1>2. ASSUME NEW r \in Reqs, Asks(r)
      PROVE  UNCHANGED <<user, identity, cred, contested, moved, late>>
  BY <1>2 DEF Asks, Changes, Endings, SignUp, AddSecondaryAuth, AddIdentity, Opens, SignIn, StartDelete, StartUpdate,
              StartEdit, StartErase, StartDisable, rowVars, history
<1>3. ASSUME NEW r \in Reqs, Works(r), ~Writes(r)
      PROVE  UNCHANGED <<user, identity, cred, contested, moved, late>>
  BY <1>3 DEF Works, Writes, ReadIdentity, PublishEarly, RequestFails, FindDuplicate, EndingFails,
              rowVars, history
<1>4. ASSUME NEW u \in Accounts, HandleIdentityClaimed(u)
      PROVE  UNCHANGED <<user, identity, cred, contested, moved, late>>
  BY <1>4 DEF HandleIdentityClaimed, rowVars, history
<1>5. ASSUME NEW r \in Reqs, TearDown(r)
      PROVE  UNCHANGED <<user, identity, cred, contested, moved, late>>
  BY <1>5 DEF TearDown, rowVars, history
<1>6. CASE AccessNext /\ UNCHANGED <<rowVars, req, claims, calls, history>>
  BY <1>6 DEF AccessNext, Validation, Validate, CheckList, CheckRow, Warm, SignOut, SignOutDevice,
              ListToken, SignOutEverywhere, Expire, rowVars, history
<1> QED
  BY <1>1, <1>2, <1>3, <1>4, <1>5, <1>6, AccountsSteps

\* Users come to life once, and do not come back.
Ages ==
    /\ \A u \in Accounts : user[u] # "none" => user'[u] # "none"
    /\ \A u \in Accounts : user[u] \in {"disabled", "gone"} => user'[u] \in {"disabled", "gone"}

\* What a step that writes leaves.
Kept ==
    /\ Tables'
    /\ \A i \in Rows : identity[i] # NoRow => identity'[i] # NoRow
    /\ Ages

LEMMA LikeUnknownKeeps ==
    ASSUME Base, NEW v \in Values, LikeUnknown(v)
    PROVE  Kept
<1>1. Lessens /\ UNCHANGED <<user, cred>>
  BY LikeUnknownLessens DEF Base, LikeUnknown
<1> QED
  BY <1>1 DEF Base, Tables, Lessens, Kept, Ages, Exists

LEMMA WritesKeep ==
    ASSUME Base, NEW r \in Reqs, Writes(r)
    PROVE  Kept
<1> USE DEF Base
<1>1. CASE AutoVerify(r) \/ CommitUpdate(r) \/ CommitDelete(r)
  <2>1. Lessens /\ UNCHANGED <<user, cred>>
    BY <1>1, AutoVerifyLessens, CommitUpdateLessens, CommitDeleteLessens
       DEF AutoVerify, CommitUpdate, CommitDelete
  <2> QED
    BY <2>1 DEF Tables, Lessens, Kept, Ages, Exists
<1>2. CASE CommitErase(r)
  <2>1. Lessens
    BY <1>2, CommitEraseLessens
  <2>2. /\ user' \in [Accounts -> {"none", "active", "disabled", "gone"}]
        /\ Ages
    BY <1>2, CommitEraseRows DEF Tables, Ages
  <2>3. /\ cred' \in [Rows -> CredRows \cup {NoCred}]
        /\ \A i \in Rows : cred'[i] # NoCred => cred[i] # NoCred
    BY <1>2, CommitEraseRows
  <2> QED
    BY <2>1, <2>2, <2>3 DEF Tables, Lessens, Kept, Exists
<1>3. CASE CommitDisable(r)
  <2>1. Lessens
    BY <1>3, CommitDisableLessens
  <2>2. /\ user' \in [Accounts -> {"none", "active", "disabled", "gone"}]
        /\ Ages
    BY <1>3, CommitDisableRows DEF Tables, Ages
  <2>3. /\ cred' \in [Rows -> CredRows \cup {NoCred}]
        /\ \A i \in Rows : cred'[i] # NoCred => cred[i] # NoCred
    <3>1. \A i \in Rows : Live(i) \/ cred'[i] = cred[i]
      BY <1>3, CommitDisableRows
    <3> QED
      BY <1>3, <3>1, CommitDisableRows DEF Live
  <2> QED
    BY <2>1, <2>2, <2>3 DEF Tables, Lessens, Kept, Exists
<1>4. CASE CommitIdentity(r)
  <2> DEFINE q == req[r]
             i == q.row
  <2>1. /\ i \in Rows /\ q.user \in Accounts
        /\ identity' = [identity EXCEPT ![i] = Written(q)]
        /\ identity' \in [Rows -> IdentityRows \cup {NoRow}]
        /\ Written(q) \in IdentityRows
        /\ cred' \in [Rows -> CredRows \cup {NoCred}]
        /\ \A j \in Rows \ {i} : cred'[j] = cred[j]
        /\ \/ q.kind = "signup" /\ user' = [user EXCEPT ![q.user] = "active"]
           \/ q.kind # "signup" /\ user[q.user] # "gone" /\ user' = user
        /\ q.pc \in {"write", "commit"}
    <3>1. \A j \in Rows \ {i} : cred'[j] = cred[j]
      BY <1>4, CommitIdentityRows DEF Tables
    <3> QED
      BY <1>4, <3>1, CommitIdentityRows
  <2>2. Written(q) # NoRow
    BY <2>1, RowIsSome
  <2>3. q.kind = "signup" => user[q.user] = "none"
    BY <2>1 DEF Newcomers, Newborn, Registering
  <2> HIDE DEF q
  <2>4. \A j \in Rows : identity[j] # NoRow => identity'[j] # NoRow
    BY <2>1, <2>2 DEF Tables
  <2>5. identity'[i] # NoRow
    BY <2>1, <2>2 DEF Tables
  <2>6. \A j \in Rows : cred'[j] # NoCred => identity'[j] # NoRow
    BY <2>1, <2>4, <2>5 DEF Tables, Exists
  <2>7. /\ user' \in [Accounts -> {"none", "active", "disabled", "gone"}]
        /\ Ages
    BY <2>1, <2>3 DEF Tables, Ages
  <2> QED
    BY <2>1, <2>4, <2>6, <2>7 DEF Tables, Kept, Exists
<1> QED
  BY <1>1, <1>2, <1>3, <1>4 DEF Writes

LEMMA TablesStep ==
    ASSUME Base, AccountsNext
    PROVE  Kept
<1>1. CASE UNCHANGED <<user, identity, cred>>
  BY <1>1 DEF Base, Tables, Kept, Ages, Exists
<1> QED
  BY <1>1, WritingSteps, LikeUnknownKeeps, WritesKeep

-----------------------------------------------------------------------------
(* The requests, in every step.                                            *)

\* A request that begins is a sign-up of an account nobody uses, or for one there is, and
\* asks for a credential only if there is none.
Begins(s) ==
    /\ s.user \in Accounts
    /\ \/ Newborn(s) /\ s.user \in Unused
       \/ ~Newborn(s) /\ user[s.user] # "none"
    /\ Claims(s) => ~Registered(s.value)

\* One that goes on is for the same account and value, and a sign-up if it was one.
GoesOn(old, s) ==
    /\ old # Idle /\ s.user = old.user
    /\ Newborn(s) <=> Newborn(old)
    /\ Claims(s) => Claims(old) /\ s.value = old.value

Advances(r, s) ==
    /\ req' = [req EXCEPT ![r] = s]
    /\ Sound(s, There', Ended')
    /\ s = Idle \/ Begins(s) \/ GoesOn(req[r], s)

Proceeds == req' = req \/ \E r \in Reqs : \E s : Advances(r, s)

LEMMA SoundStays ==
    ASSUME NEW q, NEW there, NEW there2, NEW ended, NEW ended2,
           there \subseteq there2, ended \subseteq ended2, Sound(q, there, ended)
    PROVE  Sound(q, there2, ended2)
BY DEF Sound

LEMMA KeptSets ==
    ASSUME Kept
    PROVE  There \subseteq There' /\ Ended \subseteq Ended'
BY DEF Kept, Ages, There, Ended, Exists

LEMMA IdleSound == \A there, ended : Sound(Idle, there, ended)
BY DEF Sound, Idle, Registering

\* Requests that begin.
LEMMA AsksProceed ==
    ASSUME Base, Kept, NEW r \in Reqs, Asks(r)
    PROVE  Proceeds
<1> USE DEF Base
<1>1. There \subseteq There' /\ Ended \subseteq Ended'
  BY KeptSets
<1>2. ASSUME NEW kind \in {"signup", "secondary", "create", "claim"}, NEW u \in Accounts,
             NEW v \in Values, NEW proven \in BOOLEAN, Opens(r, kind, u, v, proven),
             IF kind = "signup" THEN u \in Unused ELSE user[u] # "none",
             kind \in {"signup", "secondary"} => ~Registered(v)
      PROVE  Proceeds
  <2> DEFINE s == [pc |-> "open", kind |-> kind, user |-> u, value |-> v, proven |-> proven]
  <2>1. req' = [req EXCEPT ![r] = s]
    BY <1>2 DEF Opens, Becomes
  <2>2. s.pc = "open" /\ s.kind = kind /\ s.user = u /\ s.value = v /\ s.proven = proven
    OBVIOUS
  <2> HIDE DEF s
  <2>3. Sound(s, There', Ended')
    BY <2>2 DEF Sound, Registering
  <2>4. Begins(s)
    BY <2>2, <1>2 DEF Begins, Newborn, Claims, Registering
  <2> QED
    BY <2>1, <2>3, <2>4 DEF Proceeds, Advances
<1>3. \A u \in Accounts : MayAct(u) => user[u] # "none"
  BY DEF MayAct, Newcomers
<1>4. ASSUME NEW v \in Values, NEW proven \in BOOLEAN, SignUp(r, v, proven)
      PROVE  Proceeds
  <2>1. PICK u \in Unused : Opens(r, "signup", u, v, proven)
    BY <1>4 DEF SignUp
  <2>2. u \in Accounts /\ ~Registered(v)
    BY <1>4, <2>1 DEF Unused, SignUp
  <2> QED
    BY <1>2, <2>1, <2>2
<1>5. ASSUME NEW u \in Accounts, NEW v \in Values, AddSecondaryAuth(r, u, v)
      PROVE  Proceeds
  BY <1>2, <1>3, <1>5 DEF AddSecondaryAuth
<1>6. ASSUME NEW u \in Accounts, NEW v \in Values, NEW proven \in BOOLEAN,
             AddIdentity(r, u, v, proven)
      PROVE  Proceeds
  <2>1. PICK kind \in {"create", "claim"} : Opens(r, kind, u, v, proven)
    BY <1>6 DEF AddIdentity
  <2>2. user[u] # "none"
    BY <1>3, <1>6 DEF AddIdentity
  <2> QED
    BY <1>2, <2>1, <2>2
<1>7. ASSUME NEW i \in Rows, SignIn(r, i)
      PROVE  Proceeds
  <2> DEFINE s == [pc |-> "verify", user |-> cred[i].user, row |-> i]
  <2>1. req' = [req EXCEPT ![r] = s] /\ cred[i] # NoCred
    BY <1>7 DEF SignIn, Becomes, Live
  <2>2. cred[i].user \in Accounts /\ user[cred[i].user] # "none" /\ i \in There
    BY <2>1 DEF Tables, CredRows, Newcomers, There
  <2>3. s.pc = "verify" /\ s.user = cred[i].user /\ s.row = i
    OBVIOUS
  <2> HIDE DEF s
  <2>4. Sound(s, There', Ended')
    BY <1>1, <2>2, <2>3 DEF Sound, Registering
  <2>5. Begins(s)
    BY <2>2, <2>3 DEF Begins, Newborn, Claims, Registering
  <2> QED
    BY <2>1, <2>4, <2>5 DEF Proceeds, Advances
<1>8. ASSUME NEW i \in Rows, NEW u \in Accounts, NEW pc \in {"compare", "delete"}, NEW v,
             pc = "compare" => v \in Values, StartEdit(r, u, i, pc, v)
      PROVE  Proceeds
  <2> DEFINE s == [pc |-> pc, user |-> u, row |-> i, value |-> v, seen |-> identity[i]]
  <2>1. req' = [req EXCEPT ![r] = s]
    BY <1>8 DEF StartEdit, Becomes
  <2>2. user[u] # "none" /\ Exists(i) /\ identity[i].owner = u
    BY <1>3, <1>8 DEF StartEdit, Shown, OwnedBy
  <2>3. i \in There
    BY <2>2 DEF There
  <2>4. s.pc = pc /\ s.user = u /\ s.row = i /\ s.value = v /\ s.seen = identity[i]
    OBVIOUS
  <2> HIDE DEF s
  <2>5. Sound(s, There', Ended')
    BY <1>1, <1>8, <2>2, <2>3, <2>4 DEF Sound, Registering
  <2>6. Begins(s)
    BY <1>8, <2>2, <2>4 DEF Begins, Newborn, Claims, Registering
  <2> QED
    BY <2>1, <2>5, <2>6 DEF Proceeds, Advances
<1>9. ASSUME NEW i \in Rows, NEW u \in Accounts, StartDelete(r, u, i)
      PROVE  Proceeds
  <2>1. PICK v : v = identity[i].value
    OBVIOUS
  <2>2. StartEdit(r, u, i, "delete", v)
    BY <1>9, <2>1 DEF StartDelete
  <2> QED
    BY <1>8, <2>2
<1>10. ASSUME NEW i \in Rows, NEW u \in Accounts, NEW v \in Values, StartUpdate(r, u, i, v)
       PROVE  Proceeds
  BY <1>8, <1>10 DEF StartUpdate
<1>11. ASSUME NEW u \in Accounts, StartErase(r, u)
       PROVE  Proceeds
  <2> DEFINE rows == {[row |-> i, seen |-> identity[i]] : i \in {j \in Rows : OwnedBy(j, u)}}
             s    == [pc |-> "erase", user |-> u, rows |-> rows]
  <2>1. req' = [req EXCEPT ![r] = s] /\ user[u] = "active"
    BY <1>11 DEF StartErase, Becomes
  <2>2. \A d \in rows : d.row \in There /\ d.seen.owner = u
    BY DEF OwnedBy, There
  <2>3. s.pc = "erase" /\ s.user = u /\ s.rows = rows
    OBVIOUS
  <2> HIDE DEF s, rows
  <2>4. Sound(s, There', Ended')
    BY <1>1, <2>2, <2>3 DEF Sound, Registering
  <2>5. Begins(s)
    BY <2>1, <2>3 DEF Begins, Newborn, Claims, Registering
  <2> QED
    BY <2>1, <2>4, <2>5 DEF Proceeds, Advances
<1>12. ASSUME NEW u \in Accounts, StartDisable(r, u)
       PROVE  Proceeds
  <2> DEFINE s == [pc |-> "disable", user |-> u]
  <2>1. req' = [req EXCEPT ![r] = s] /\ user[u] = "active"
    BY <1>12 DEF StartDisable, Becomes
  <2>2. s.pc = "disable" /\ s.user = u
    OBVIOUS
  <2> HIDE DEF s
  <2>3. Sound(s, There', Ended')
    BY <2>2 DEF Sound, Registering
  <2>4. Begins(s)
    BY <2>1, <2>2 DEF Begins, Newborn, Claims, Registering
  <2> QED
    BY <2>1, <2>3, <2>4 DEF Proceeds, Advances
<1> QED
  BY <1>4, <1>5, <1>6, <1>7, <1>9, <1>10, <1>11, <1>12 DEF Asks, Changes, Endings

\* Requests that go on or end.
LEMMA EndsProceed ==
    ASSUME NEW r \in Reqs, Ends(r)
    PROVE  Proceeds
BY IdleSound DEF Ends, Becomes, Proceeds, Advances

LEMMA GoesOnProceeds ==
    ASSUME Requests, Kept, NEW r \in Reqs, NEW s, req' = [req EXCEPT ![r] = s],
           req[r].pc # "idle", GoesOn(req[r], s), Sound(s, There, Ended)
    PROVE  Proceeds
<1>1. Sound(s, There', Ended')
  BY KeptSets, SoundStays
<1> QED
  BY <1>1 DEF Proceeds, Advances

LEMMA ReadIdentityProceeds ==
    ASSUME Base, Kept, NEW r \in Reqs, ReadIdentity(r)
    PROVE  Proceeds
<1> USE DEF Base
<1> DEFINE q == req[r]
           At(i, row) == [pc |-> "write", kind |-> q.kind, user |-> q.user, value |-> q.value,
                          proven |-> q.proven, row |-> i, seen |-> row]
<1>1. q.pc = "open" /\ Sound(q, There, Ended)
  BY DEF ReadIdentity, Requests
<1>2. \/ Ends(r)
      \/ \E i \in Rows : MayTake(q, i) /\ Becomes(r, At(i, identity[i]))
      \/ \E i \in Rows : Becomes(r, At(i, NoRow))
  BY DEF ReadIdentity, RowsOf
<1> HIDE DEF q
<1>3. ASSUME NEW i \in Rows, NEW row, Becomes(r, At(i, row)),
             row = NoRow \/ (row = identity[i] /\ MayTake(q, i))
      PROVE  Proceeds
  <2> DEFINE s == At(i, row)
  <2>1. req' = [req EXCEPT ![r] = s]
    BY <1>3 DEF Becomes
  <2>2. /\ s.pc = "write" /\ s.kind = q.kind /\ s.user = q.user /\ s.value = q.value
        /\ s.proven = q.proven /\ s.row = i /\ s.seen = row
        /\ DOMAIN s = {"pc", "kind", "user", "value", "proven", "row", "seen"}
    OBVIOUS
  <2> HIDE DEF s
  <2>3. row # NoRow =>
           CASE q.kind \in {"signup", "secondary"} -> row.owner = Nobody
             [] q.kind = "create" -> ~SeenOwned(row)
             [] q.kind = "claim"  -> SeenOwned(row) => row.owner = q.user
    BY <1>1, <1>3 DEF MayTake, SeenOwned, IsActivelyOwned, Sound, Registering
  <2>4. Sound(s, There, Ended)
    <3>1. /\ q.user \in Accounts /\ q.value \in Values /\ q.proven \in BOOLEAN
          /\ q.kind \in {"signup", "secondary", "create", "claim"}
      BY <1>1 DEF Sound, Registering
    <3> QED
      BY <2>2, <2>3, <3>1 DEF Sound, Registering
  <2>5. GoesOn(q, s)
    BY <1>1, <2>2 DEF GoesOn, Newborn, Claims, Registering, Idle
  <2> QED
    BY <1>1, <2>1, <2>4, <2>5, GoesOnProceeds DEF q
<1>4. CASE Ends(r)
  BY <1>4, EndsProceed
<1>5. CASE \E i \in Rows : MayTake(q, i) /\ Becomes(r, At(i, identity[i]))
  <2>1. PICK i \in Rows : MayTake(q, i) /\ Becomes(r, At(i, identity[i]))
    BY <1>5
  <2>2. PICK row : row = identity[i]
    OBVIOUS
  <2>3. Becomes(r, At(i, row))
    BY <2>1, <2>2
  <2> HIDE DEF At
  <2> QED
    BY <1>3, <2>1, <2>2, <2>3
<1>6. CASE \E i \in Rows : Becomes(r, At(i, NoRow))
  BY <1>3, <1>6
<1> QED
  BY <1>2, <1>4, <1>5, <1>6

LEMMA PublishEarlyProceeds ==
    ASSUME Base, Kept, NEW r \in Reqs, PublishEarly(r)
    PROVE  Proceeds
<1> USE DEF Base
<1> DEFINE q == req[r]
           s == [q EXCEPT !.pc = "commit"]
<1>1. /\ q.pc = "write" /\ q.kind = "signup" /\ q.seen # NoRow
      /\ Sound(q, There, Ended)
      /\ req' = [req EXCEPT ![r] = s]
  BY DEF PublishEarly, Goes, Becomes, Requests
<1>2. DOMAIN q = {"pc", "kind", "user", "value", "proven", "row", "seen"}
  BY <1>1 DEF Sound
<1>3. /\ s.pc = "commit" /\ s.kind = q.kind /\ s.user = q.user /\ s.value = q.value
      /\ s.proven = q.proven /\ s.row = q.row /\ s.seen = q.seen
  BY <1>2
<1> HIDE DEF s, q
<1>4. Sound(s, There, Ended)
  BY <1>1, <1>3 DEF Sound, Registering
<1>5. GoesOn(q, s)
  BY <1>1, <1>3 DEF GoesOn, Newborn, Claims, Registering, Idle
<1> QED
  BY <1>1, <1>4, <1>5, GoesOnProceeds DEF q

LEMMA FindDuplicateProceeds ==
    ASSUME Base, Kept, NEW r \in Reqs, FindDuplicate(r)
    PROVE  Proceeds
<1> USE DEF Base
<1> DEFINE q      == req[r]
           others == RowsOf(q.value) \ {q.row}
           dups   == {[row |-> d, seen |-> identity[d]] : d \in others}
           s      == [pc |-> "update", user |-> q.user, row |-> q.row, value |-> q.value,
                      seen |-> q.seen, dups |-> dups]
<1>1. q.pc = "compare" /\ Sound(q, There, Ended)
  BY DEF FindDuplicate, Requests
<1>2. CASE \E d \in others : IsActivelyOwned(d)
  BY <1>2, EndsProceed DEF FindDuplicate, Ends
<1>3. CASE \A d \in others : ~IsActivelyOwned(d)
  <2>1. req' = [req EXCEPT ![r] = s]
    BY <1>3 DEF FindDuplicate, Becomes
  <2>2. q.value \in Values
    BY <1>1 DEF Sound
  <2>3. \A d \in others : d \in There
    BY <2>2, AccountsAssumption DEF RowsOf, There, Exists, NoRow
  <2>4. \A e \in dups : e.row \in There /\ ~SeenOwned(e.seen)
    BY <1>3, <2>3 DEF SeenOwned, IsActivelyOwned
  <2>5. /\ s.pc = "update" /\ s.user = q.user /\ s.row = q.row /\ s.value = q.value
        /\ s.seen = q.seen /\ s.dups = dups
    OBVIOUS
  <2> HIDE DEF s, q, dups, others
  <2>6. Sound(s, There, Ended)
    BY <1>1, <2>4, <2>5 DEF Sound, Registering
  <2>7. GoesOn(q, s)
    BY <1>1, <2>5 DEF GoesOn, Newborn, Claims, Registering, Idle
  <2> QED
    BY <1>1, <2>1, <2>6, <2>7, GoesOnProceeds DEF q
<1> QED
  BY <1>2, <1>3

\* The two endings of an account, which are cleaned up after.
LEMMA EndingProceeds ==
    ASSUME Base, Kept, NEW r \in Reqs, CommitErase(r) \/ CommitDisable(r)
    PROVE  Proceeds
<1> USE DEF Base
<1> DEFINE q == req[r]
           s == [pc |-> "teardown", user |-> q.user]
<1>1. /\ q.pc \in {"erase", "disable"} /\ Sound(q, There, Ended)
      /\ req' = [req EXCEPT ![r] = s]
  BY DEF CommitErase, CommitDisable, Becomes, Requests
<1>2. q.user \in Accounts
  BY <1>1 DEF Sound
<1>3. user'[q.user] \in {"gone", "disabled"}
  BY <1>2 DEF CommitErase, CommitDisable, Tables
<1>4. q.user \in Ended'
  BY <1>2, <1>3 DEF Ended
<1>5. s.pc = "teardown" /\ s.user = q.user
  OBVIOUS
<1> HIDE DEF s, q
<1>6. Sound(s, There', Ended')
  BY <1>2, <1>4, <1>5 DEF Sound, Registering
<1>7. GoesOn(q, s)
  BY <1>1, <1>5 DEF GoesOn, Newborn, Claims, Registering, Idle
<1> QED
  BY <1>1, <1>6, <1>7 DEF q, Proceeds, Advances

LEMMA WorksProceed ==
    ASSUME Base, Kept, NEW r \in Reqs, Works(r)
    PROVE  Proceeds
BY ReadIdentityProceeds, PublishEarlyProceeds, FindDuplicateProceeds, EndingProceeds, EndsProceed
   DEF Works, CommitIdentity, RequestFails, AutoVerify, CommitUpdate, CommitDelete, EndingFails

LEMMA RequestsProceed ==
    ASSUME Base, AccountsNext
    PROVE  Proceeds
<1>1. Kept
  BY TablesStep
<1>2. ASSUME NEW v \in Values, LikeUnknown(v)
      PROVE  Proceeds
  BY <1>2 DEF LikeUnknown, Proceeds
<1>3. ASSUME NEW u \in Accounts, HandleIdentityClaimed(u)
      PROVE  Proceeds
  BY <1>3 DEF HandleIdentityClaimed, Proceeds
<1>4. ASSUME NEW r \in Reqs, TearDown(r)
      PROVE  Proceeds
  BY <1>4, EndsProceed DEF TearDown
<1>5. CASE UNCHANGED <<rowVars, req, claims, calls, history>>
  BY <1>5 DEF Proceeds
<1> QED
  BY <1>1, <1>2, <1>3, <1>4, <1>5, AsksProceed, WorksProceed, AccountsSteps

LEMMA RequestsStep ==
    ASSUME Base, Kept, Proceeds
    PROVE  Requests'
<1> USE DEF Base
<1>1. \A r \in Reqs : Sound(req[r], There', Ended')
  BY KeptSets, SoundStays DEF Requests
<1>2. CASE req' = req
  BY <1>1, <1>2 DEF Requests
<1>3. ASSUME NEW r \in Reqs, NEW s, Advances(r, s)
      PROVE  Requests'
  <2>1. req' = [req EXCEPT ![r] = s] /\ Sound(s, There', Ended')
    BY <1>3 DEF Advances
  <2>2. req' = [x \in Reqs |-> IF x = r THEN s ELSE req[x]]
    BY <2>1 DEF Requests
  <2>3. \A x \in Reqs : Sound(req'[x], There', Ended')
    BY <1>1, <2>1, <2>2
  <2>4. req' = [x \in Reqs |-> req'[x]]
    BY <2>2
  <2> QED
    BY <2>3, <2>4 DEF Requests
<1> QED
  BY <1>2, <1>3 DEF Proceeds

-----------------------------------------------------------------------------
(* Access.                                                                 *)

GuardStates == [pc : {"listed", "row", "warm", "list"}, user : Accounts, token : Tokens]

LEMMA GuardTypes ==
    ASSUME AccessTypeOK, NEW g \in Guards
    PROVE  /\ guard[g] \in {Done} \cup GuardStates
           /\ guard[g] # Done => /\ guard[g] \in GuardStates
                                 /\ guard[g].user \in Accounts /\ guard[g].token \in Tokens
                                 /\ <<guard[g].user, guard[g].token>> \in Pairs
           /\ guard[g].pc \in {"listed", "row", "warm", "list"} => guard[g] # Done
BY DEF AccessTypeOK, GuardStates, Done, Pairs

\* What the steps of validations and sign-outs do to the set of an account's tokens, to
\* the steps themselves, and to the list.
LEMMA AccessShape ==
    ASSUME AccessTypeOK, AccessNext
    PROVE  /\ user' = user
           /\ active' \in [Accounts -> SUBSET Tokens]
           /\ guard' \in [Guards -> {Done} \cup GuardStates]
           /\ revoked' \subseteq Pairs /\ shut' \subseteq Pairs /\ raced' \subseteq Pairs
           /\ failures' \in Nat
           /\ \A u \in Accounts : active'[u] \subseteq active[u]
                 \/ \E g \in Guards : guard[g].pc = "warm" /\ guard[g].user = u
           /\ \A g \in Guards : guard'[g] # Done =>
                 \/ guard[g] # Done /\ guard'[g].user = guard[g].user
                 \/ user[guard'[g].user] # "none"
<1>1. /\ active \in [Accounts -> SUBSET Tokens]
      /\ guard \in [Guards -> {Done} \cup GuardStates]
      /\ revoked \subseteq Pairs /\ shut \subseteq Pairs /\ raced \subseteq Pairs
      /\ failures \in Nat
  BY DEF AccessTypeOK, GuardStates
<1>2. ASSUME NEW g \in Guards, NEW u \in Accounts, NEW t \in Tokens, Validate(g, u, t)
      PROVE  /\ UNCHANGED <<user, active, revoked, shut, raced>> /\ failures' \in Nat
             /\ user[u] # "none"
             /\ \E s \in GuardStates : s.user = u /\ guard' = [guard EXCEPT ![g] = s]
  <2> DEFINE s == [pc |-> "listed", user |-> u, token |-> t]
  <2>1. s \in GuardStates /\ s.user = u
    BY DEF GuardStates
  <2>2. guard' = [guard EXCEPT ![g] = s]
    BY <1>2 DEF Validate, GuardAt
  <2> HIDE DEF s
  <2>3. UNCHANGED <<user, active, revoked, shut, raced>> /\ failures' \in Nat /\ user[u] # "none"
    BY <1>1, <1>2 DEF Validate, Failure
  <2> QED
    BY <2>1, <2>2, <2>3
<1>3. ASSUME NEW g \in Guards, CheckList(g)
      PROVE  /\ UNCHANGED <<user, active, revoked, shut>> /\ failures' \in Nat
             /\ guard[g] \in GuardStates
             /\ raced' \subseteq Pairs
             /\ \E s \in GuardStates \cup {Done} : /\ s # Done => s.user = guard[g].user
                                                   /\ guard' = [guard EXCEPT ![g] = s]
  <2>1. guard[g] \in GuardStates /\ <<guard[g].user, guard[g].token>> \in Pairs
    BY <1>3, GuardTypes DEF CheckList
  <2>2. raced' \subseteq Pairs /\ failures' \in Nat
    BY <1>1, <1>3, <2>1 DEF CheckList, Failure
  <2>3. [guard[g] EXCEPT !.pc = "row"] \in GuardStates /\ [guard[g] EXCEPT !.pc = "row"].user = guard[g].user
    BY <2>1 DEF GuardStates
  <2>4. GuardAt(g, Done) \/ GuardAt(g, [guard[g] EXCEPT !.pc = "row"])
    BY <1>3 DEF CheckList
  <2>5. UNCHANGED <<user, active, revoked, shut>>
    BY <1>3 DEF CheckList
  <2> QED
    BY <2>1, <2>2, <2>3, <2>4, <2>5 DEF GuardAt
<1>4. ASSUME NEW g \in Guards, CheckRow(g)
      PROVE  /\ UNCHANGED <<user, active, revoked, failures, shut, raced>>
             /\ guard[g] \in GuardStates
             /\ \E s \in GuardStates \cup {Done} : /\ s # Done => s.user = guard[g].user
                                                   /\ guard' = [guard EXCEPT ![g] = s]
  <2>1. guard[g] \in GuardStates
    BY <1>4, GuardTypes DEF CheckRow
  <2>2. [guard[g] EXCEPT !.pc = "warm"] \in GuardStates /\ [guard[g] EXCEPT !.pc = "warm"].user = guard[g].user
    BY <2>1 DEF GuardStates
  <2>3. GuardAt(g, Done) \/ GuardAt(g, [guard[g] EXCEPT !.pc = "warm"])
    BY <1>4 DEF CheckRow
  <2> QED
    BY <1>4, <2>1, <2>2, <2>3 DEF GuardAt, CheckRow
<1>5. ASSUME NEW g \in Guards, Warm(g)
      PROVE  /\ UNCHANGED <<user, revoked, shut, raced>> /\ failures' \in Nat
             /\ active' \in [Accounts -> SUBSET Tokens]
             /\ \A u \in Accounts : active'[u] \subseteq active[u] \/ guard[g].user = u
             /\ guard[g].pc = "warm"
             /\ guard' = [guard EXCEPT ![g] = Done]
  <2>1. guard[g].user \in Accounts /\ guard[g].token \in Tokens
    BY <1>5, GuardTypes DEF Warm
  <2> QED
    BY <1>1, <1>5, <2>1 DEF Warm, GuardAt, Failure
<1>6. ASSUME NEW g \in Guards, NEW u \in Accounts, NEW t \in Tokens, SignOutDevice(g, u, t)
      PROVE  /\ UNCHANGED <<user, revoked>> /\ failures' \in Nat
             /\ user[u] # "none"
             /\ active' \in [Accounts -> SUBSET Tokens]
             /\ \A w \in Accounts : active'[w] \subseteq active[w]
             /\ shut' \subseteq Pairs /\ raced' \subseteq Pairs
             /\ guard' = guard \/ \E s \in GuardStates : s.user = u /\ guard' = [guard EXCEPT ![g] = s]
  <2>1. <<u, t>> \in Pairs
    BY DEF Pairs
  <2>2. \/ /\ active' = [active EXCEPT ![u] = @ \ {t}]
           /\ GuardAt(g, [pc |-> "list", user |-> u, token |-> t])
           /\ UNCHANGED <<failures, shut, raced>>
        \/ /\ Failure
           /\ shut' = shut \cup {<<u, t>>} /\ raced' = raced \cup {<<u, t>>}
           /\ UNCHANGED <<active, guard>>
    BY <1>6 DEF SignOutDevice
  <2>3. UNCHANGED <<user, revoked>> /\ user[u] # "none"
    BY <1>6 DEF SignOutDevice
  <2>4. [pc |-> "list", user |-> u, token |-> t] \in GuardStates
        /\ [pc |-> "list", user |-> u, token |-> t].user = u
    BY DEF GuardStates
  <2>5. guard' = guard \/ \E s \in GuardStates : s.user = u /\ guard' = [guard EXCEPT ![g] = s]
    BY <2>2, <2>4 DEF GuardAt
  <2>6. failures' \in Nat /\ shut' \subseteq Pairs /\ raced' \subseteq Pairs
    BY <1>1, <2>1, <2>2 DEF Failure
  <2>7. /\ active' \in [Accounts -> SUBSET Tokens]
        /\ \A w \in Accounts : active'[w] \subseteq active[w]
    BY <1>1, <2>2
  <2> QED
    BY <2>3, <2>5, <2>6, <2>7
<1>7. ASSUME NEW g \in Guards, ListToken(g)
      PROVE  /\ UNCHANGED <<user, active>> /\ failures' \in Nat
             /\ revoked' \subseteq Pairs /\ shut' \subseteq Pairs /\ raced' \subseteq Pairs
             /\ guard' = [guard EXCEPT ![g] = Done]
  <2> DEFINE pair == <<guard[g].user, guard[g].token>>
  <2>1. pair \in Pairs
    BY <1>7, GuardTypes DEF ListToken
  <2>2. /\ shut' = shut \cup {pair}
        /\ revoked' = revoked \cup {pair} \/ revoked' = revoked
        /\ raced' = raced \cup {pair} \/ raced' = raced
        /\ failures' = failures \/ failures' = failures + 1
        /\ UNCHANGED <<user, active>>
        /\ guard' = [guard EXCEPT ![g] = Done]
    BY <1>7 DEF ListToken, GuardAt, Failure
  <2> HIDE DEF pair
  <2> QED
    BY <1>1, <2>1, <2>2
<1>8. ASSUME NEW u \in Accounts, SignOutEverywhere(u) \/ Expire(u)
      PROVE  /\ UNCHANGED <<user, revoked, guard, failures, shut, raced>>
             /\ active' \in [Accounts -> SUBSET Tokens]
             /\ \A w \in Accounts : active'[w] \subseteq active[w]
  BY <1>1, <1>8 DEF SignOutEverywhere, Expire
<1> DEFINE Goal ==
           /\ user' = user
           /\ active' \in [Accounts -> SUBSET Tokens]
           /\ guard' \in [Guards -> {Done} \cup GuardStates]
           /\ revoked' \subseteq Pairs /\ shut' \subseteq Pairs /\ raced' \subseteq Pairs
           /\ failures' \in Nat
           /\ \A u \in Accounts : active'[u] \subseteq active[u]
                 \/ \E g \in Guards : guard[g].pc = "warm" /\ guard[g].user = u
           /\ \A g \in Guards : guard'[g] # Done =>
                 \/ guard[g] # Done /\ guard'[g].user = guard[g].user
                 \/ user[guard'[g].user] # "none"
<1>9. ASSUME NEW g \in Guards, NEW u \in Accounts, NEW t \in Tokens,
             Validate(g, u, t) \/ SignOutDevice(g, u, t)
      PROVE  Goal
  BY <1>1, <1>2, <1>6, <1>9
<1>10. ASSUME NEW g \in Guards, CheckList(g) \/ CheckRow(g)
       PROVE  Goal
  <2>1. PICK s \in GuardStates \cup {Done} : /\ s # Done => s.user = guard[g].user
                                             /\ guard' = [guard EXCEPT ![g] = s]
    BY <1>3, <1>4, <1>10
  <2>2. guard[g] # Done /\ UNCHANGED <<user, active, revoked, shut>>
        /\ failures' \in Nat /\ raced' \subseteq Pairs
    BY <1>1, <1>3, <1>4, <1>10, GuardTypes DEF CheckList, CheckRow
  <2>3. \A h \in Guards : guard'[h] = IF h = g THEN s ELSE guard[h]
    BY <1>1, <2>1
  <2> QED
    BY <1>1, <2>1, <2>2, <2>3
<1>11. ASSUME NEW g \in Guards, Warm(g)
       PROVE  Goal
  <2>1. \A h \in Guards : guard'[h] = IF h = g THEN Done ELSE guard[h]
    BY <1>1, <1>5, <1>11
  <2> QED
    BY <1>1, <1>5, <1>11, <2>1
<1>12. ASSUME NEW g \in Guards, ListToken(g)
       PROVE  Goal
  <2>1. \A h \in Guards : guard'[h] = IF h = g THEN Done ELSE guard[h]
    BY <1>1, <1>7, <1>12
  <2> QED
    BY <1>1, <1>7, <1>12, <2>1
<1>13. ASSUME NEW u \in Accounts, SignOutEverywhere(u) \/ Expire(u)
       PROVE  Goal
  BY <1>1, <1>8, <1>13
<1> QED
  BY <1>9, <1>10, <1>11, <1>12, <1>13 DEF AccessNext, Validation, SignOut

\* What any step does to the tokens of an account, and to what is in progress.
LEMMA AccessStep ==
    ASSUME Base, AccountsNext
    PROVE  /\ AccessTypeOK'
           /\ \A u \in Accounts : active'[u] \subseteq active[u]
                 \/ \E g \in Guards : guard[g].pc = "warm" /\ guard[g].user = u
           /\ \A g \in Guards : guard'[g] # Done =>
                 \/ guard[g] # Done /\ guard'[g].user = guard[g].user
                 \/ user[guard'[g].user] # "none"
<1>1. user' \in [Accounts -> {"none", "active", "disabled", "gone"}]
  BY TablesStep DEF Kept, Tables
<1>2. CASE UNCHANGED accessVars
  BY <1>1, <1>2 DEF Base, AccessTypeOK, accessVars
<1>3. ASSUME NEW r \in Reqs, TearDown(r)
      PROVE  /\ AccessTypeOK'
             /\ \A u \in Accounts : active'[u] \subseteq active[u]
             /\ guard' = guard
  <2>1. DropCache(req[r].user) /\ req[r].pc = "teardown"
    BY <1>3 DEF TearDown
  <2>2. PICK u \in Accounts : u = req[r].user
    BY <2>1 DEF Base, Requests, Sound
  <2>3. /\ shut' = shut \cup ({u} \X Tokens)
        /\ UNCHANGED <<revoked, guard>>
        /\ \/ /\ active' = [active EXCEPT ![u] = {}]
              /\ raced' = raced \cup {pair \in Before({"warm"}) : pair[1] = u}
              /\ UNCHANGED failures
           \/ /\ Failure
              /\ raced' = raced \cup ({u} \X Tokens)
              /\ UNCHANGED active
    BY <2>1, <2>2 DEF DropCache
  <2>4. Before({"warm"}) \subseteq Pairs /\ {u} \X Tokens \subseteq Pairs
    BY GuardTypes DEF Base, Before, Pairs
  <2>5. shut' \subseteq Pairs /\ raced' \subseteq Pairs /\ failures' \in Nat
    BY <2>3, <2>4 DEF Base, AccessTypeOK, Failure
  <2>6. /\ active' \in [Accounts -> SUBSET Tokens]
        /\ \A w \in Accounts : active'[w] \subseteq active[w]
    BY <2>3 DEF Base, AccessTypeOK
  <2>7. AccessTypeOK'
    BY <1>1, <2>3, <2>5, <2>6 DEF Base, AccessTypeOK
  <2> QED
    BY <2>3, <2>6, <2>7
<1>4. CASE AccessNext
  <2>1. AccessTypeOK'
    BY <1>1, <1>4, AccessShape DEF Base, AccessTypeOK, GuardStates
  <2> QED
    BY <1>4, <2>1, AccessShape DEF Base
<1> QED
  BY <1>2, <1>3, <1>4, AccountsSteps DEF accessVars

\* An account comes to life by a request of its own that is no sign-up any more.
LEMMA ComesToLife ==
    ASSUME Base, AccountsNext, NEW u \in Accounts, user[u] = "none", user'[u] # "none"
    PROVE  \E r \in Reqs : req[r] # Idle /\ req[r].user = u /\ ~Newborn(req'[r])
<1> USE DEF Base
<1>1. PICK r \in Reqs : CommitErase(r) \/ CommitDisable(r) \/ CommitIdentity(r)
  BY WritingSteps DEF Writes, LikeUnknown, AutoVerify, CommitUpdate, CommitDelete
<1>2. user' = user \/ \E s : user' = [user EXCEPT ![req[r].user] = s]
  BY <1>1, CommitEraseRows, CommitDisableRows, CommitIdentityRows
<1>3. req[r].user = u
  BY <1>2 DEF Tables
<1>4. req[r].pc # "idle"
  BY <1>1 DEF CommitErase, CommitDisable, CommitIdentity
<1>5. req'[r] = Idle \/ req'[r] = [pc |-> "teardown", user |-> req[r].user]
  BY <1>1 DEF CommitErase, CommitDisable, CommitIdentity, Ends, Becomes, Requests
<1>6. ~Newborn(req'[r])
  BY <1>5 DEF Newborn, Registering, Idle
<1> QED
  BY <1>3, <1>4, <1>6 DEF Idle

LEMMA NewcomersStep ==
    ASSUME Base, AccountsNext
    PROVE  Newcomers'
<1> USE DEF Base
<1>1. Kept /\ Ages /\ Proceeds
  BY TablesStep, RequestsProceed DEF Kept
<1>2. ASSUME NEW u \in Accounts, active'[u] # {}
      PROVE  user'[u] # "none"
  <2>1. active[u] # {} \/ \E g \in Guards : guard[g].pc = "warm" /\ guard[g].user = u
    BY <1>2, AccessStep
  <2>2. user[u] # "none"
    BY <2>1, GuardTypes DEF Newcomers
  <2> QED
    BY <1>1, <2>2 DEF Ages
<1>3. ASSUME NEW i \in Rows, cred'[i] # NoCred
      PROVE  user'[cred'[i].user] # "none"
  <2>1. cred[i] # NoCred /\ cred'[i].user = cred[i].user => user'[cred'[i].user] # "none"
    BY <1>1 DEF Ages, Newcomers, Tables, CredRows
  <2>2. CASE cred'[i] = cred[i]
    BY <1>3, <2>1, <2>2
  <2>3. ASSUME NEW r \in Reqs, CommitErase(r)
        PROVE  cred'[i] = cred[i]
    BY <1>3, <2>3, CommitEraseRows
  <2>4. ASSUME NEW r \in Reqs, CommitDisable(r)
        PROVE  user'[cred'[i].user] # "none"
    <3>1. CASE Live(i) /\ cred[i].user = req[r].user
      BY <2>1, <2>4, <3>1, CommitDisableRows DEF Live
    <3>2. CASE ~(Live(i) /\ cred[i].user = req[r].user)
      BY <2>2, <2>4, <3>2, CommitDisableRows
    <3> QED
      BY <3>1, <3>2
  <2>5. ASSUME NEW r \in Reqs, CommitIdentity(r), cred'[i] # cred[i]
        PROVE  user'[cred'[i].user] # "none"
    <3> DEFINE q == req[r]
    <3>1. /\ q.user \in Accounts /\ q.pc \in {"write", "commit"}
          /\ cred' = [cred EXCEPT ![q.row] = [value |-> q.value, user |-> q.user, live |-> TRUE]]
      BY <2>5, CommitIdentityRows
    <3>2. i = q.row
      BY <2>5, <3>1 DEF Tables
    <3>3. cred'[i].user = q.user
      BY <3>1, <3>2 DEF Tables
    <3>4. user'[q.user] # "none"
      <4>1. CASE q.kind = "signup"
        BY <2>5, <3>1, <4>1, CommitIdentityRows DEF Tables
      <4>2. CASE q.kind # "signup"
        <5>1. q # Idle /\ ~Newborn(q)
          BY <3>1, <4>2 DEF Newborn, Idle
        <5> QED
          BY <1>1, <3>1, <5>1 DEF Newcomers, Ages
      <4> QED
        BY <4>1, <4>2
    <3> QED
      BY <3>3, <3>4
  <2>6. CASE UNCHANGED cred
    BY <2>2, <2>6
  <2> QED
    BY <2>2, <2>3, <2>4, <2>5, <2>6, WritingSteps
       DEF Writes, LikeUnknown, AutoVerify, CommitUpdate, CommitDelete
<1>4. ASSUME NEW g \in Guards, guard'[g] # Done
      PROVE  user'[guard'[g].user] # "none"
  <2>1. user[guard'[g].user] # "none"
    BY <1>4, AccessStep DEF Newcomers
  <2>2. guard'[g].user \in Accounts
    BY <1>4, AccessStep DEF AccessTypeOK, Done
  <2> QED
    BY <1>1, <2>1, <2>2 DEF Ages
<1>5. ASSUME NEW r \in Reqs
      PROVE  /\ Newborn(req'[r]) =>
                   /\ user'[req'[r].user] = "none"
                   /\ \A s \in Reqs \ {r} : req'[s] # Idle => req'[s].user # req'[r].user
             /\ req'[r] # Idle /\ ~Newborn(req'[r]) => user'[req'[r].user] # "none"
  <2>1. ASSUME NEW x \in Reqs
        PROVE  req'[x] = req[x] \/ req'[x] = Idle \/ Begins(req'[x]) \/ GoesOn(req[x], req'[x])
    BY <1>1 DEF Proceeds, Advances, Requests
  <2>2. \A x, y \in Reqs : x # y => req'[x] = req[x] \/ req'[y] = req[y]
    BY <1>1 DEF Proceeds, Advances, Requests
  <2>3. \A x \in Reqs : req[x] # Idle => req[x].user \in Accounts
    BY DEF Requests, Sound
  <2>4. ASSUME Newborn(req'[r])
        PROVE  /\ req'[r] # Idle
               /\ req'[r].user \in Accounts
               /\ user[req'[r].user] = "none"
               /\ \A s \in Reqs \ {r} : req[s] # Idle => req[s].user # req'[r].user
    <3>1. req'[r] # Idle
      BY <2>4 DEF Newborn, Registering, Idle
    <3>2. CASE Begins(req'[r])
      BY <2>4, <3>1, <3>2 DEF Begins, Unused
    <3>3. CASE ~Begins(req'[r])
      <4>1. Newborn(req[r]) /\ req'[r].user = req[r].user /\ req[r] # Idle
        BY <2>1, <2>4, <3>1, <3>3 DEF GoesOn
      <4> QED
        BY <2>3, <3>1, <4>1 DEF Newcomers
    <3> QED
      BY <3>2, <3>3
  <2>5. ASSUME Newborn(req'[r])
        PROVE  user'[req'[r].user] = "none"
    <3>1. PICK u \in Accounts : u = req'[r].user /\ user[u] = "none"
      BY <2>4, <2>5
    <3>2. SUFFICES ASSUME user'[u] # "none"
                   PROVE  FALSE
      BY <3>1
    <3>3. PICK x \in Reqs : req[x] # Idle /\ req[x].user = u /\ ~Newborn(req'[x])
      BY <3>1, <3>2, ComesToLife
    <3>4. x = r
      BY <2>4, <2>5, <3>1, <3>3
    <3> QED
      BY <2>5, <3>3, <3>4
  <2>6. ASSUME Newborn(req'[r]), NEW s \in Reqs \ {r}, req'[s] # Idle
        PROVE  req'[s].user # req'[r].user
    <3>1. CASE req'[s] = req[s] \/ GoesOn(req[s], req'[s])
      BY <2>4, <2>6, <3>1 DEF GoesOn
    <3>2. CASE ~(req'[s] = req[s] \/ GoesOn(req[s], req'[s]))
      <4>1. req'[r] = req[r] /\ Begins(req'[s])
        BY <2>1, <2>2, <2>6, <3>2
      <4>2. user[req'[r].user] = "none" /\ req[r] # Idle
        BY <2>4, <2>6, <4>1
      <4> QED
        BY <4>1, <4>2 DEF Begins, Unused
    <3> QED
      BY <3>1, <3>2
  <2>7. ASSUME req'[r] # Idle, ~Newborn(req'[r])
        PROVE  user'[req'[r].user] # "none"
    <3>1. req'[r].user \in Accounts /\ user[req'[r].user] # "none"
      BY <2>1, <2>3, <2>7 DEF Begins, GoesOn, Newcomers
    <3> QED
      BY <1>1, <3>1 DEF Ages
  <2> QED
    BY <2>5, <2>6, <2>7
<1>6. \A r \in Reqs : Newborn(req[r])' <=> Newborn(req'[r])
  BY DEF Newborn
<1> QED
  BY <1>2, <1>3, <1>4, <1>5 DEF Newcomers, Newborn

LEMMA BaseStep ==
    ASSUME Base, AccountsNext
    PROVE  Base' /\ Kept
BY TablesStep, RequestsProceed, RequestsStep, NewcomersStep, AccessStep DEF Base, Kept

LEMMA BaseInit ==
    ASSUME AccountsInit
    PROVE  Base
<1>1. PICK members \in Members :
        LET at(i) == CHOOSE m \in members : m[2] = i
            rows  == {m[2] : m \in members}
        IN /\ AccessInit({m[1] : m \in members})
           /\ identity = [i \in Rows |->
                             IF i \in rows THEN [value |-> at(i)[3], owner |-> at(i)[1],
                                                 verified |-> TRUE, deleted |-> FALSE]
                             ELSE NoRow]
           /\ cred = [i \in Rows |->
                         IF i \in rows THEN [value |-> at(i)[3], user |-> at(i)[1], live |-> TRUE]
                         ELSE NoCred]
  BY DEF AccountsInit
<1> DEFINE at(i) == CHOOSE m \in members : m[2] = i
           rows  == {m[2] : m \in members}
           Row(i)  == [value |-> at(i)[3], owner |-> at(i)[1], verified |-> TRUE, deleted |-> FALSE]
           Cred(i) == [value |-> at(i)[3], user |-> at(i)[1], live |-> TRUE]
<1>2. /\ AccessInit({m[1] : m \in members})
      /\ identity = [i \in Rows |-> IF i \in rows THEN Row(i) ELSE NoRow]
      /\ cred = [i \in Rows |-> IF i \in rows THEN Cred(i) ELSE NoCred]
  BY <1>1
<1>3. ASSUME NEW i \in rows
      PROVE  /\ at(i) \in members
             /\ at(i)[1] \in Accounts /\ at(i)[3] \in Values
  <2>1. at(i) \in members
    OBVIOUS
  <2>2. members \subseteq Accounts \X Rows \X Values
    BY DEF Members
  <2> HIDE DEF at
  <2> QED
    BY <2>1, <2>2
<1>4. ASSUME NEW i \in rows
      PROVE  /\ Row(i) \in IdentityRows /\ Row(i) # NoRow
             /\ Cred(i) \in CredRows /\ Cred(i).user = at(i)[1]
  <2>1. at(i)[1] \in Accounts /\ at(i)[3] \in Values
    BY <1>3
  <2> HIDE DEF at
  <2>2. Row(i) \in IdentityRows
    <3> DEFINE B == BOOLEAN
               yes == TRUE
               no == FALSE
    <3>1. yes \in B /\ no \in B
      OBVIOUS
    <3>2. /\ IdentityRows = [value : Values \cup {Mangled}, owner : Accounts \cup {Nobody},
                             verified : B, deleted : B]
          /\ Row(i) = [value |-> at(i)[3], owner |-> at(i)[1], verified |-> yes, deleted |-> no]
      BY DEF IdentityRows
    <3> HIDE DEF B, yes, no, Row
    <3> QED
      BY <2>1, <3>1, <3>2
  <2>3. Cred(i) \in CredRows /\ Cred(i).user = at(i)[1]
    <3> DEFINE B == BOOLEAN
               yes == TRUE
    <3>1. yes \in B
      OBVIOUS
    <3>2. /\ CredRows = [value : Values, user : Accounts, live : B]
          /\ Cred(i) = [value |-> at(i)[3], user |-> at(i)[1], live |-> yes]
      BY DEF CredRows
    <3> HIDE DEF B, yes, Cred
    <3> QED
      BY <2>1, <3>1, <3>2
  <2> HIDE DEF Row, Cred
  <2> QED
    BY <2>2, <2>3, RowIsSome
<1> HIDE DEF Row, Cred
<1>5. /\ user = [u \in Accounts |-> IF u \in {m[1] : m \in members} THEN "active" ELSE "none"]
      /\ active = [u \in Accounts |-> {}]
      /\ revoked = {} /\ guard = [g \in Guards |-> Done] /\ failures = 0
      /\ shut = {} /\ raced = {}
  BY <1>2 DEF AccessInit
<1>6. AccessTypeOK
  BY <1>5 DEF AccessTypeOK
<1>7. Tables
  <2>1. identity \in [Rows -> IdentityRows \cup {NoRow}]
    BY <1>2, <1>4
  <2>2. cred \in [Rows -> CredRows \cup {NoCred}]
    BY <1>2, <1>4
  <2>3. \A i \in Rows : cred[i] # NoCred => Exists(i)
    BY <1>2, <1>4 DEF Exists
  <2> QED
    BY <1>6, <2>1, <2>2, <2>3 DEF Tables, AccessTypeOK
<1>8. req = [r \in Reqs |-> Idle]
  BY DEF AccountsInit
<1>9. Requests
  BY <1>8, IdleSound DEF Requests
<1>10. Newcomers
  <2>1. ASSUME NEW i \in Rows, cred[i] # NoCred
        PROVE  user[cred[i].user] # "none"
    <3>1. i \in rows /\ cred[i] = Cred(i)
      BY <1>2, <2>1
    <3>2. cred[i].user = at(i)[1] /\ at(i) \in members /\ at(i)[1] \in Accounts
      BY <1>3, <1>4, <3>1
    <3> HIDE DEF at
    <3>3. user[at(i)[1]] = "active"
      BY <1>5, <3>2
    <3> QED
      BY <3>2, <3>3
  <2>2. \A r \in Reqs : ~Newborn(req[r]) /\ req[r] = Idle
    BY <1>8 DEF Newborn, Idle, Registering
  <2> QED
    BY <1>5, <2>1, <2>2 DEF Newcomers
<1> QED
  BY <1>6, <1>7, <1>9, <1>10 DEF Base

-----------------------------------------------------------------------------
(* The end of an account.                                                  *)

\* EndedLeavesNothing, row by row.
Clean(i, u) ==
    /\ user[u] = "gone" => ~Owns(identity[i], u) /\ (cred[i] # NoCred => cred[i].user # u)
    /\ user[u] = "disabled" /\ i \notin late =>
          ~Shows(identity[i], u) /\ (Live(i) => cred[i].user # u)

LEMMA CleanIsIt == EndedLeavesNothing <=> \A i \in Rows, u \in Accounts : Clean(i, u)
<1>1. ASSUME NEW i \in Rows, NEW u \in Accounts
      PROVE  /\ OwnedBy(i, u) <=> Owns(identity[i], u)
             /\ Shown(i, u) <=> Shows(identity[i], u)
  BY Zenon DEF OwnedBy, Shown, Exists, Owns, Shows
<1> QED
  BY <1>1, Zenon DEF EndedLeavesNothing, Clean

\* Nothing is registered for an account but what it has, or late.
LEMMA CleanStep ==
    ASSUME Base, AccountsNext, NEW i \in Rows, NEW u \in Accounts, Clean(i, u)
    PROVE  Clean(i, u)'
<1> USE DEF Base
<1>1. ASSUME Lessens, UNCHANGED <<user, cred, late>>
      PROVE  Clean(i, u)'
  <2>1. Live(i)' <=> Live(i)
    BY <1>1 DEF Live
  <2> QED
    BY <1>1, <2>1 DEF Clean, Lessens
<1>2. CASE UNCHANGED <<user, identity, cred, late>>
  <2>1. Live(i)' <=> Live(i)
    BY <1>2 DEF Live
  <2> QED
    BY <1>2, <2>1 DEF Clean
<1>3. ASSUME NEW v \in Values, LikeUnknown(v)
      PROVE  Clean(i, u)'
  BY <1>1, <1>3, LikeUnknownLessens DEF LikeUnknown, history
<1>4. ASSUME NEW r \in Reqs, AutoVerify(r) \/ CommitUpdate(r) \/ CommitDelete(r)
      PROVE  Clean(i, u)'
  BY <1>1, <1>4, AutoVerifyLessens, CommitUpdateLessens, CommitDeleteLessens
     DEF AutoVerify, CommitUpdate, CommitDelete, history
<1>5. ASSUME NEW r \in Reqs, CommitErase(r)
      PROVE  Clean(i, u)'
  <2> DEFINE w == req[r].user
  <2>1. /\ Lessens /\ late' = late
        /\ w \in Accounts /\ user' = [user EXCEPT ![w] = "gone"]
        /\ cred'[i] = IF cred[i] # NoCred /\ cred[i].user = w THEN NoCred ELSE cred[i]
        /\ ~Owns(identity'[i], w)
    <3>1. ~Owns(identity'[i], w)
      BY <1>5, CommitEraseRows, AccountsAssumption DEF Owns
    <3> QED
      BY <1>5, <3>1, CommitEraseRows, CommitEraseLessens DEF CommitErase
  <2> HIDE DEF w
  <2>2. CASE u = w
    BY <2>1, <2>2 DEF Clean, Tables
  <2>3. CASE u # w
    <3>1. Live(i)' => Live(i) /\ cred'[i] = cred[i]
      BY <2>1 DEF Live
    <3> QED
      BY <2>1, <2>3, <3>1 DEF Clean, Tables, Lessens
  <2> QED
    BY <2>2, <2>3
<1>6. ASSUME NEW r \in Reqs, CommitDisable(r)
      PROVE  Clean(i, u)'
  <2> DEFINE w == req[r].user
  <2>1. /\ Lessens /\ late' = late
        /\ w \in Accounts /\ user' = [user EXCEPT ![w] = "disabled"]
    BY <1>6, CommitDisableRows, CommitDisableLessens DEF CommitDisable, history
  <2>2. /\ Live(i)' => Live(i) /\ cred[i].user # w /\ cred'[i] = cred[i]
        /\ cred'[i] # NoCred => cred[i] # NoCred /\ cred'[i].user = cred[i].user
    <3>1. CASE Live(i) /\ cred[i].user = w
      BY <1>6, <3>1, CommitDisableRows DEF Live
    <3>2. CASE ~(Live(i) /\ cred[i].user = w)
      <4>1. cred'[i] = cred[i]
        BY <1>6, <3>2, CommitDisableRows
      <4> QED
        BY <3>2, <4>1 DEF Live
    <3> QED
      BY <3>1, <3>2
  <2>3. ~Shows(identity'[i], w)
    <3>1. CASE Shows(identity[i], w)
      BY <1>6, <3>1, CommitDisableRows DEF Shows
    <3>2. CASE ~Shows(identity[i], w)
      BY <2>1, <3>2 DEF Lessens
    <3> QED
      BY <3>1, <3>2
  <2> HIDE DEF w
  <2>4. CASE u = w
    BY <2>1, <2>2, <2>3, <2>4 DEF Clean, Tables
  <2>5. CASE u # w
    BY <2>1, <2>2, <2>5 DEF Clean, Tables, Lessens
  <2> QED
    BY <2>4, <2>5
<1>7. ASSUME NEW r \in Reqs, CommitIdentity(r)
      PROVE  Clean(i, u)'
  <2> DEFINE q == req[r]
             k == q.row
  <2>1. /\ k \in Rows /\ q.user \in Accounts
        /\ identity' = [identity EXCEPT ![k] = Written(q)]
        /\ Written(q).owner = q.user
        /\ cred' = cred \/ cred' = [cred EXCEPT ![k] = [value |-> q.value, user |-> q.user,
                                                        live |-> TRUE]]
        /\ \/ user' = [user EXCEPT ![q.user] = "active"]
           \/ user[q.user] # "gone" /\ user' = user
    BY <1>7, CommitIdentityRows
  <2>2. late' = IF user[q.user] = "disabled" THEN late \cup {k} ELSE late
    BY <1>7, Zenon DEF CommitIdentity
  <2> HIDE DEF q
  <2>3. CASE i # k
    <3>1. identity'[i] = identity[i] /\ cred'[i] = cred[i]
      BY <2>1, <2>3 DEF Tables
    <3>2. user'[u] = user[u] \/ user'[u] = "active"
      BY <2>1 DEF Tables
    <3>3. Live(i)' <=> Live(i)
      BY <3>1 DEF Live
    <3> QED
      BY <2>2, <3>1, <3>2, <3>3 DEF Clean
  <2>4. CASE i = k /\ u = q.user
    <3>1. user'[u] = "active" \/ (user[u] # "gone" /\ user'[u] = user[u])
      BY <2>1, <2>4 DEF Tables
    <3>2. user'[u] = "disabled" => i \in late'
      BY <2>2, <2>4, <3>1
    <3> QED
      BY <3>1, <3>2 DEF Clean
  <2>5. CASE i = k /\ u # q.user
    <3>1. ~Owns(identity'[i], u) /\ user'[u] = user[u] /\ late \subseteq late'
      BY <2>1, <2>2, <2>5 DEF Tables, Owns
    <3>2. ~Shows(identity'[i], u)
      BY <3>1 DEF Shows
    <3>3. cred'[i] = cred[i] \/ cred'[i].user = q.user
      BY <2>1, <2>5 DEF Tables
    <3>4. cred'[i] = cred[i] => (Live(i)' <=> Live(i))
      BY DEF Live
    <3> QED
      BY <2>5, <3>1, <3>2, <3>3, <3>4 DEF Clean
  <2> QED
    BY <2>3, <2>4, <2>5
<1> QED
  BY <1>2, <1>3, <1>4, <1>5, <1>6, <1>7, WritingSteps DEF Writes

-----------------------------------------------------------------------------
(* One account for a value.                                                *)

\* The unique index on the value of an identity.
Apart ==
    \A i, j \in Rows : i # j /\ identity[i].value = identity[j].value =>
                       identity[i].value \notin Values

\* While somebody asks for a credential, the value of an existing one is its identity's.
Reserved ==
    \A j \in Rows, r \in Reqs :
        /\ Live(j) /\ cred[j].value \notin moved
        /\ Claims(req[r]) /\ req[r].value = cred[j].value
        => identity[j].value = cred[j].value

Unique == Apart /\ Reserved /\ OneAccountPerValue

\* What becomes of the values of the rows.
LEMMA ValueSteps ==
    ASSUME Base, AccountsNext
    PROVE  \/ \A i \in Rows : identity'[i].value = identity[i].value
           \/ \E v \in Values, k \in Rows :
                 /\ RowsOf(v) = {} /\ ~Exists(k) /\ identity'[k].value = v
                 /\ \A i \in Rows \ {k} : identity'[i].value = identity[i].value
           \/ \E r \in Reqs : CommitUpdate(r) \/ CommitIdentity(r)
<1> USE DEF Base
<1>1. CASE UNCHANGED identity
  BY <1>1
<1>2. ASSUME NEW v \in Values, LikeUnknown(v)
      PROVE  \E k \in Rows :
                /\ RowsOf(v) = {} /\ ~Exists(k) /\ identity'[k].value = v
                /\ \A i \in Rows \ {k} : identity'[i].value = identity[i].value
  <2> DEFINE row == [value |-> v, owner |-> Nobody, verified |-> FALSE, deleted |-> FALSE]
  <2>1. PICK k \in Rows : ~Exists(k) /\ identity' = [identity EXCEPT ![k] = row]
    BY <1>2 DEF LikeUnknown
  <2>2. row.value = v
    OBVIOUS
  <2> HIDE DEF row
  <2>3. RowsOf(v) = {}
    BY <1>2 DEF LikeUnknown
  <2>4. identity'[k].value = v /\ \A i \in Rows \ {k} : identity'[i] = identity[i]
    BY <2>1, <2>2 DEF Tables
  <2> QED
    BY <2>1, <2>3, <2>4
<1>3. ASSUME NEW r \in Reqs, AutoVerify(r) \/ CommitDelete(r)
      PROVE  \A i \in Rows : identity'[i].value = identity[i].value
  BY <1>3, AutoVerifyLessens, CommitDeleteLessens
<1>4. ASSUME NEW r \in Reqs, CommitErase(r)
      PROVE  \A i \in Rows : identity'[i].value = identity[i].value
  BY <1>4, CommitEraseRows
<1>5. ASSUME NEW r \in Reqs, CommitDisable(r)
      PROVE  \A i \in Rows : identity'[i].value = identity[i].value
  BY <1>5, CommitDisableRows
<1> QED
  BY <1>1, <1>2, <1>3, <1>4, <1>5, WritingSteps DEF Writes

LEMMA ApartStep ==
    ASSUME Base, AccountsNext, Apart
    PROVE  Apart'
<1> USE DEF Base
<1>1. CASE \A i \in Rows : identity'[i].value = identity[i].value
  BY <1>1 DEF Apart
<1>2. ASSUME NEW v \in Values, NEW k \in Rows, RowsOf(v) = {}, ~Exists(k), identity'[k].value = v,
             \A i \in Rows \ {k} : identity'[i].value = identity[i].value
      PROVE  Apart'
  BY <1>2 DEF Apart, RowsOf
<1>3. ASSUME NEW r \in Reqs, CommitUpdate(r)
      PROVE  Apart'
  <2> DEFINE q    == req[r]
             dups == {d.row : d \in q.dups}
  <2>1. RowsOf(q.value) \subseteq dups \cup {q.row}
    BY <1>3 DEF CommitUpdate
  <2>2. \A i \in Rows : /\ i = q.row => identity'[i].value = q.value
                        /\ i \in dups /\ i # q.row => identity'[i].value = Mangled
                        /\ i \notin dups /\ i # q.row => identity'[i] = identity[i]
    BY <1>3, CommitUpdateRows
  <2> HIDE DEF q, dups
  <2> QED
    BY <2>1, <2>2, AccountsAssumption DEF Apart, RowsOf
<1>4. ASSUME NEW r \in Reqs, CommitIdentity(r)
      PROVE  Apart'
  <2> DEFINE q == req[r]
             k == q.row
  <2>1. /\ k \in Rows /\ RowsOf(q.value) \subseteq {k}
        /\ identity' = [identity EXCEPT ![k] = Written(q)]
        /\ Written(q).value = q.value
    BY <1>4, CommitIdentityRows
  <2> HIDE DEF q
  <2>2. \A i \in Rows : identity'[i].value = IF i = k THEN q.value ELSE identity[i].value
    BY <2>1 DEF Tables
  <2> QED
    BY <2>1, <2>2 DEF Apart, RowsOf
<1> QED
  BY <1>1, <1>2, <1>3, <1>4, ValueSteps

\* Credentials are written by those who asked for them.
LEMMA CredSteps ==
    ASSUME Base, AccountsNext, NEW j \in Rows, Live(j)'
    PROVE  \/ Live(j) /\ cred'[j].value = cred[j].value
           \/ \E r \in Reqs : /\ CommitIdentity(r) /\ Claims(req[r]) /\ req[r].row = j
                              /\ cred'[j].value = req[r].value
                              /\ identity'[j].value = req[r].value
<1> USE DEF Base
<1>1. CASE cred'[j] = cred[j]
  BY <1>1 DEF Live
<1>2. ASSUME NEW r \in Reqs, CommitErase(r)
      PROVE  cred'[j] = cred[j]
  BY <1>2, CommitEraseRows DEF Live
<1>3. ASSUME NEW r \in Reqs, CommitDisable(r)
      PROVE  cred'[j] = cred[j]
  <2>1. CASE Live(j) /\ cred[j].user = req[r].user
    BY <1>3, <2>1, CommitDisableRows DEF Live
  <2>2. CASE ~(Live(j) /\ cred[j].user = req[r].user)
    BY <1>3, <2>2, CommitDisableRows
  <2> QED
    BY <2>1, <2>2
<1>4. ASSUME NEW r \in Reqs, CommitIdentity(r), cred'[j] # cred[j]
      PROVE  /\ Claims(req[r]) /\ req[r].row = j
             /\ cred'[j].value = req[r].value
             /\ identity'[j].value = req[r].value
  <2> DEFINE q   == req[r]
             new == [value |-> q.value, user |-> q.user, live |-> TRUE]
  <2>1. /\ q.pc \in {"write", "commit"}
        /\ q.row \in Rows
        /\ q.kind \in {"signup", "secondary"} /\ cred' = [cred EXCEPT ![q.row] = new]
        /\ identity' = [identity EXCEPT ![q.row] = Written(q)]
        /\ Written(q).value = q.value
        /\ new.value = q.value
    BY <1>4, CommitIdentityRows
  <2> HIDE DEF q, new
  <2>2. j = q.row
    BY <1>4, <2>1 DEF Tables
  <2> QED
    BY <2>1, <2>2 DEF Tables, Claims, Registering, q
<1> QED
  BY <1>1, <1>2, <1>3, <1>4, WritingSteps
     DEF Writes, LikeUnknown, AutoVerify, CommitUpdate, CommitDelete

LEMMA MovedGrows ==
    ASSUME AccountsNext
    PROVE  /\ moved \subseteq moved'
           /\ (\E r \in Reqs : CommitUpdate(r) \/ CommitIdentity(r)) => GivenUp \subseteq moved'
<1>1. ASSUME NEW r \in Reqs, CommitUpdate(r) \/ CommitIdentity(r)
      PROVE  moved' = moved \cup GivenUp
  BY <1>1, Zenon DEF CommitUpdate, CommitIdentity
<1>2. moved' = moved \/ \E r \in Reqs : CommitUpdate(r) \/ CommitIdentity(r)
  BY WritingSteps DEF Writes, LikeUnknown, AutoVerify, CommitDelete, CommitErase, CommitDisable,
                      history
<1> QED
  BY <1>1, <1>2

LEMMA ReservedStep ==
    ASSUME Base, AccountsNext, Apart, Reserved
    PROVE  Reserved'
<1> USE DEF Base
<1> SUFFICES ASSUME NEW j \in Rows, NEW r \in Reqs, Live(j)', cred'[j].value \notin moved',
                    Claims(req'[r]), req'[r].value = cred'[j].value
             PROVE  identity'[j].value = cred'[j].value
  BY DEF Reserved, Claims
<1>1. CASE ~(Live(j) /\ cred'[j].value = cred[j].value)
  BY <1>1, CredSteps
<1>2. CASE Live(j) /\ cred'[j].value = cred[j].value
  <2> DEFINE v == cred[j].value
  <2>1. v \notin moved /\ v \in Values
    <3>1. cred[j] \in CredRows
      BY <1>2 DEF Live, Tables
    <3> QED
      BY <1>2, <3>1, MovedGrows DEF CredRows
  <2>2. Claims(req[r]) /\ req[r].value = v
    <3>1. req'[r] = req[r] \/ req'[r] = Idle \/ Begins(req'[r]) \/ GoesOn(req[r], req'[r])
      BY TablesStep, RequestsProceed DEF Proceeds, Advances, Requests
    <3>2. ~Claims(Idle)
      BY DEF Claims, Idle, Registering
    <3>3. ~Begins(req'[r])
      BY <1>2 DEF Begins, Registered
    <3> QED
      BY <1>2, <3>1, <3>2, <3>3 DEF GoesOn
  <2>3. identity[j].value = v
    BY <1>2, <2>1, <2>2 DEF Reserved
  <2>4. SUFFICES ASSUME identity'[j].value # v
                 PROVE  FALSE
    BY <1>2
  <2>5. Exists(j)
    BY <1>2 DEF Tables, Live
  <2>6. \E x \in Reqs : CommitUpdate(x) \/ CommitIdentity(x)
    BY <2>3, <2>4, <2>5, ValueSteps
  <2>7. RowsOf(v) = {j}
    BY <2>1, <2>3 DEF RowsOf, Apart
  <2>8. v \in GivenUp
    <3>1. req[r].pc \in {"open", "write", "commit"}
      BY <2>2 DEF Claims, Registering
    <3> QED
      BY <2>1, <2>2, <2>4, <2>7, <3>1 DEF GivenUp
  <2> QED
    BY <1>2, <2>6, <2>8, MovedGrows
<1> QED
  BY <1>1, <1>2

LEMMA OneAccountStep ==
    ASSUME Base, AccountsNext, Reserved, OneAccountPerValue
    PROVE  OneAccountPerValue'
<1> USE DEF Base
<1> SUFFICES ASSUME NEW i \in Rows, NEW j \in Rows, i # j, Live(i)', Live(j)',
                    cred'[i].value = cred'[j].value, cred'[i].value \notin moved'
             PROVE  FALSE
  BY DEF OneAccountPerValue
<1> DEFINE v == cred'[i].value
<1>1. v \notin moved
  BY MovedGrows
<1>2. ASSUME NEW k \in Rows, NEW l \in Rows, k # l, Live(l), cred[l].value = v,
             NEW r \in Reqs, CommitIdentity(r), Claims(req[r]), req[r].row = k, req[r].value = v
      PROVE  FALSE
  <2>1. identity[l].value = v
    BY <1>1, <1>2 DEF Reserved
  <2>2. RowsOf(v) \subseteq {k}
    BY <1>2, CommitIdentityRows
  <2> QED
    BY <1>2, <2>1, <2>2 DEF RowsOf
<1>3. CASE /\ Live(i) /\ cred'[i].value = cred[i].value
           /\ Live(j) /\ cred'[j].value = cred[j].value
  BY <1>1, <1>3 DEF OneAccountPerValue
<1>4. CASE ~(Live(i) /\ cred'[i].value = cred[i].value)
  <2>1. PICK r \in Reqs : CommitIdentity(r) /\ Claims(req[r]) /\ req[r].row = i /\ req[r].value = v
    BY <1>4, CredSteps
  <2>2. Live(j) /\ cred'[j].value = cred[j].value
    <3>1. SUFFICES ASSUME ~(Live(j) /\ cred'[j].value = cred[j].value)
                   PROVE  FALSE
      OBVIOUS
    <3>2. PICK x \in Reqs : CommitIdentity(x) /\ req[x].row = j
      BY <3>1, CredSteps
    <3>3. cred'[j] # cred[j]
      BY <3>1 DEF Live
    <3>4. cred'[j] = cred[j]
      BY <2>1, CommitIdentityRows DEF Tables
    <3> QED
      BY <3>3, <3>4
  <2> QED
    BY <1>2, <2>1, <2>2
<1>5. CASE ~(Live(j) /\ cred'[j].value = cred[j].value)
  <2>1. PICK r \in Reqs : CommitIdentity(r) /\ Claims(req[r]) /\ req[r].row = j /\ req[r].value = v
    BY <1>5, CredSteps
  <2>2. Live(i) /\ cred'[i].value = cred[i].value
    <3>1. SUFFICES ASSUME ~(Live(i) /\ cred'[i].value = cred[i].value)
                   PROVE  FALSE
      OBVIOUS
    <3>2. cred'[i] # cred[i]
      BY <3>1 DEF Live
    <3>3. cred'[i] = cred[i]
      BY <2>1, CommitIdentityRows DEF Tables
    <3> QED
      BY <3>2, <3>3
  <2> QED
    BY <1>2, <2>1, <2>2
<1> QED
  BY <1>3, <1>4, <1>5

LEMMA UniqueStep ==
    ASSUME Base, AccountsNext, Unique
    PROVE  Unique'
BY ApartStep, ReservedStep, OneAccountStep DEF Unique


\* The accounts there are to begin with have a value of their own.
LEMMA UniqueInit ==
    ASSUME AccountsInit
    PROVE  Unique
<1>1. PICK members \in Members :
        LET at(i) == CHOOSE m \in members : m[2] = i
            rows  == {m[2] : m \in members}
        IN /\ AccessInit({m[1] : m \in members})
           /\ identity = [i \in Rows |->
                             IF i \in rows THEN [value |-> at(i)[3], owner |-> at(i)[1],
                                                 verified |-> TRUE, deleted |-> FALSE]
                             ELSE NoRow]
           /\ cred = [i \in Rows |->
                         IF i \in rows THEN [value |-> at(i)[3], user |-> at(i)[1], live |-> TRUE]
                         ELSE NoCred]
  BY DEF AccountsInit
<1> DEFINE at(i) == CHOOSE m \in members : m[2] = i
           rows  == {m[2] : m \in members}
<1>2. ASSUME NEW i \in rows
      PROVE  at(i) \in members /\ at(i)[2] = i
  OBVIOUS
<1>3. ASSUME NEW i \in Rows
      PROVE  /\ i \in rows => identity[i].value = at(i)[3] /\ cred[i].value = at(i)[3]
             /\ i \notin rows => identity[i] = NoRow /\ cred[i] = NoCred
  BY <1>1
<1>4. \A a, b \in members : a = b \/ a[3] # b[3]
  BY DEF Members
<1> HIDE DEF at, rows
<1>5. \A i, j \in rows : at(i)[3] = at(j)[3] => i = j
  BY <1>2, <1>4
<1>6. ASSUME NEW i \in Rows, Live(i)
      PROVE  i \in rows
  BY <1>3, <1>6 DEF Live
<1>7. Apart
  <2> SUFFICES ASSUME NEW i \in Rows, NEW j \in Rows, i # j,
                      identity[i].value = identity[j].value, identity[i].value \in Values
               PROVE  FALSE
    BY DEF Apart
  <2>1. NoRow.value \notin Values
    BY AccountsAssumption DEF NoRow
  <2>2. i \in rows /\ j \in rows
    BY <1>3, <2>1
  <2> QED
    BY <1>3, <1>5, <2>2
<1>8. Reserved
  <2>1. ASSUME NEW r \in Reqs
        PROVE  ~Claims(req[r])
    BY DEF AccountsInit, Idle, Claims, Registering
  <2> QED
    BY <2>1 DEF Reserved
<1>9. OneAccountPerValue
  BY <1>3, <1>5, <1>6 DEF OneAccountPerValue
<1> QED
  BY <1>7, <1>8, <1>9 DEF Unique

\* Nobody has ended yet.
LEMMA CleanInit ==
    ASSUME AccountsInit
    PROVE  \A i \in Rows, u \in Accounts : Clean(i, u)
<1>1. \A u \in Accounts : user[u] \in {"active", "none"}
  BY DEF AccountsInit, AccessInit
<1> QED
  BY <1>1 DEF Clean


-----------------------------------------------------------------------------
(* Claims reach their handler.                                             *)

\* What is claimed and shown waits for a message, or its message came too early.
Heard ==
    /\ unmatched \subseteq Accounts \X Rows
    /\ \A pair \in unmatched :
          Shows(identity[pair[2]], pair[1]) => pair[1] \in claims \cup early
    /\ \A r \in Reqs : req[r].pc = "commit" => req[r].user \in claims \cup early

\* A request is about to commit only once it has published.
LEMMA CommitsArePublished ==
    ASSUME Base, AccountsNext, NEW x \in Reqs, req'[x].pc = "commit"
    PROVE  req'[x] = req[x] \/ PublishEarly(x)
<1> USE DEF Base, Requests, Becomes, Ends, Idle
<1>1. ASSUME NEW r \in Reqs, Asks(r)
      PROVE  req'[x] = req[x]
  <2>1. \E s : s.pc # "commit" /\ req' = [req EXCEPT ![r] = s]
    <3>1. \A pc, kind, u, v, proven :
             pc = "open" => [pc |-> pc, kind |-> kind, user |-> u, value |-> v,
                             proven |-> proven].pc # "commit"
      OBVIOUS
    <3> QED
      BY <1>1, <3>1 DEF Asks, Changes, Endings, SignUp, AddSecondaryAuth, AddIdentity, Opens, SignIn, StartDelete,
                        StartUpdate, StartEdit, StartErase, StartDisable
  <2> QED
    BY <2>1
<1>2. ASSUME NEW r \in Reqs, PublishEarly(r)
      PROVE  req'[x] = req[x] \/ PublishEarly(x)
  <2>1. \E s : req' = [req EXCEPT ![r] = s]
    BY <1>2 DEF PublishEarly, Goes
  <2> QED
    BY <1>2, <2>1
<1>3. ASSUME NEW r \in Reqs, ReadIdentity(r)
      PROVE  req'[x] = req[x]
  BY <1>3 DEF ReadIdentity
<1>4. ASSUME NEW r \in Reqs, FindDuplicate(r)
      PROVE  req'[x] = req[x]
  BY <1>4 DEF FindDuplicate
<1>5. ASSUME NEW r \in Reqs, CommitErase(r) \/ CommitDisable(r)
      PROVE  req'[x] = req[x]
  <2>1. \E u : req' = [req EXCEPT ![r] = [pc |-> "teardown", user |-> u]]
    BY <1>5 DEF CommitErase, CommitDisable
  <2> QED
    BY <2>1
<1>6. ASSUME NEW r \in Reqs, Ends(r)
      PROVE  req'[x] = req[x]
  BY <1>6
<1>7. ASSUME NEW r \in Reqs, Works(r)
      PROVE  req'[x] = req[x] \/ PublishEarly(x)
  BY <1>2, <1>3, <1>4, <1>5, <1>6, <1>7
     DEF Works, CommitIdentity, RequestFails, AutoVerify, CommitUpdate, CommitDelete, EndingFails
<1>8. CASE req' = req
  BY <1>8
<1> QED
  BY <1>1, <1>6, <1>7, <1>8, AccountsSteps DEF LikeUnknown, HandleIdentityClaimed, TearDown

\* What becomes of the claims: only commits add rows to look at.
LEMMA ClaimSteps ==
    ASSUME Base, AccountsNext
    PROVE  \/ /\ unmatched' = unmatched /\ early' = early /\ claims \subseteq claims'
              /\ Lessens
           \/ \E u \in Accounts : HandleIdentityClaimed(u)
           \/ \E r \in Reqs : CommitIdentity(r)
<1> USE DEF Base
<1>1. ASSUME UNCHANGED identity
      PROVE  Lessens
  BY <1>1 DEF Lessens, Tables
<1>2. ASSUME NEW v \in Values, LikeUnknown(v)
      PROVE  UNCHANGED <<unmatched, early, claims>> /\ Lessens
  BY <1>2, LikeUnknownLessens DEF LikeUnknown, history
<1>3. ASSUME NEW r \in Reqs, Asks(r)
      PROVE  UNCHANGED <<unmatched, early, claims, identity>>
  BY <1>3 DEF Asks, Changes, Endings, SignUp, AddSecondaryAuth, AddIdentity, Opens, SignIn, StartDelete, StartUpdate,
              StartEdit, StartErase, StartDisable, rowVars, history
<1>4. ASSUME NEW r \in Reqs, Works(r), ~CommitIdentity(r)
      PROVE  unmatched' = unmatched /\ early' = early /\ claims \subseteq claims' /\ Lessens
  <2>1. CASE AutoVerify(r) \/ CommitUpdate(r) \/ CommitDelete(r)
    BY <2>1, AutoVerifyLessens, CommitUpdateLessens, CommitDeleteLessens
       DEF AutoVerify, CommitUpdate, CommitDelete, history
  <2>2. CASE CommitErase(r) \/ CommitDisable(r)
    BY <2>2, CommitEraseLessens, CommitDisableLessens DEF CommitErase, CommitDisable, history
  <2>3. CASE ReadIdentity(r) \/ PublishEarly(r) \/ RequestFails(r) \/ FindDuplicate(r)
             \/ EndingFails(r)
    BY <1>1, <2>3 DEF ReadIdentity, PublishEarly, RequestFails, FindDuplicate, EndingFails,
                      rowVars, history
  <2> QED
    BY <1>4, <2>1, <2>2, <2>3 DEF Works
<1>5. ASSUME NEW r \in Reqs, TearDown(r)
      PROVE  UNCHANGED <<unmatched, early, claims, identity>>
  BY <1>5 DEF TearDown, rowVars, history
<1>6. ASSUME UNCHANGED <<rowVars, req, claims, calls, history>>
      PROVE  UNCHANGED <<unmatched, early, claims, identity>>
  BY <1>6 DEF rowVars, history
<1> QED
  BY <1>1, <1>2, <1>3, <1>4, <1>5, <1>6, AccountsSteps

LEMMA HeardStep ==
    ASSUME Base, AccountsNext, Heard
    PROVE  Heard'
<1> USE DEF Base
<1>1. ASSUME claims \cup early \subseteq claims' \cup early'
      PROVE  \A x \in Reqs : req'[x].pc = "commit" => req'[x].user \in claims' \cup early'
  <2> SUFFICES ASSUME NEW x \in Reqs, req'[x].pc = "commit"
               PROVE  req'[x].user \in claims' \cup early'
    OBVIOUS
  <2>1. CASE req'[x] = req[x]
    BY <1>1, <2>1 DEF Heard
  <2>2. CASE PublishEarly(x)
    <3>1. /\ req' = [req EXCEPT ![x] = [req[x] EXCEPT !.pc = "commit"]]
          /\ req[x].pc = "write" /\ Sound(req[x], There, Ended)
          /\ claims' = claims \cup {req[x].user}
      BY <2>2 DEF PublishEarly, Goes, Becomes, Requests
    <3>2. DOMAIN req[x] = {"pc", "kind", "user", "value", "proven", "row", "seen"}
      BY <3>1 DEF Sound
    <3>3. req'[x].user = req[x].user
      BY <3>1, <3>2 DEF Requests
    <3> QED
      BY <3>1, <3>3
  <2> QED
    BY <2>1, <2>2, CommitsArePublished
<1>2. CASE /\ unmatched' = unmatched /\ early' = early /\ claims \subseteq claims'
           /\ Lessens
  <2>1. ASSUME NEW pair \in unmatched', Shows(identity'[pair[2]], pair[1])
        PROVE  pair[1] \in claims' \cup early'
    <3>1. pair[1] \in Accounts /\ pair[2] \in Rows /\ pair \in unmatched
      BY <1>2, <2>1 DEF Heard
    <3>2. Shows(identity[pair[2]], pair[1])
      BY <1>2, <2>1, <3>1 DEF Lessens
    <3> QED
      BY <1>2, <3>1, <3>2 DEF Heard
  <2> QED
    BY <1>1, <1>2, <2>1 DEF Heard
<1>3. ASSUME NEW u \in Accounts, HandleIdentityClaimed(u)
      PROVE  Heard'
  <2>1. /\ claims' = claims \ {u} /\ UNCHANGED <<identity, req>>
        /\ unmatched' = {pair \in unmatched : ~(pair[1] = u /\ Shown(pair[2], u))}
        /\ early' = IF \E r \in Reqs : req[r].pc = "commit" /\ req[r].user = u
                    THEN early \cup {u} ELSE early
    BY <1>3 DEF HandleIdentityClaimed, rowVars
  <2>2. ASSUME NEW pair \in unmatched', Shows(identity'[pair[2]], pair[1])
        PROVE  pair[1] \in claims' \cup early'
    <3>1. /\ pair \in unmatched /\ pair[1] \in Accounts /\ pair[2] \in Rows
          /\ ~(pair[1] = u /\ Shown(pair[2], u))
      BY <2>1 DEF Heard
    <3>2. Shows(identity[pair[2]], pair[1])
      BY <2>1, <2>2
    <3>3. Shows(identity[pair[2]], u) => Shown(pair[2], u)
      BY DEF Shows, Owns, Shown, OwnedBy, Exists
    <3> QED
      BY <2>1, <3>1, <3>2, <3>3 DEF Heard
  <2>3. ASSUME NEW r \in Reqs, req'[r].pc = "commit"
        PROVE  req'[r].user \in claims' \cup early'
    BY <2>1, <2>3 DEF Heard
  <2> QED
    BY <2>1, <2>2, <2>3 DEF Heard
<1>4. ASSUME NEW r \in Reqs, CommitIdentity(r)
      PROVE  Heard'
  <2> DEFINE q == req[r]
             k == q.row
  <2>1. /\ k \in Rows /\ q.user \in Accounts
        /\ identity' = [identity EXCEPT ![k] = Written(q)]
        /\ q.pc \in {"write", "commit"} /\ Sound(q, There, Ended)
    BY <1>4, CommitIdentityRows
  <2>2. /\ q.pc = "write" /\ q.kind = "signup" => q.seen = NoRow
        /\ early' = early
        /\ claims' = IF \/ q.kind = "secondary" /\ q.seen # NoRow
                        \/ q.kind = "claim"
                     THEN claims \cup {q.user} ELSE claims
        /\ unmatched' = {pair \in unmatched : pair[2] # k}
                        \cup {pair \in {<<q.user, k>>} : q.seen # NoRow /\ q.kind # "create"}
    BY <1>4 DEF CommitIdentity
  <2>3. q.kind \in {"signup", "secondary", "create", "claim"}
    BY <2>1 DEF Sound, Registering
  <2>4. q.pc = "commit" => q.user \in claims \cup early
    BY DEF Heard
  <2> HIDE DEF q
  <2>5. ASSUME NEW pair \in unmatched', Shows(identity'[pair[2]], pair[1])
        PROVE  pair[1] \in claims' \cup early'
    <3>1. CASE pair \in unmatched /\ pair[2] # k
      <4>1. pair[1] \in Accounts /\ pair[2] \in Rows
        BY <3>1 DEF Heard
      <4>2. identity'[pair[2]] = identity[pair[2]]
        BY <2>1, <3>1, <4>1 DEF Tables
      <4> QED
        BY <2>2, <2>5, <3>1, <4>2 DEF Heard
    <3>2. CASE pair = <<q.user, k>> /\ q.seen # NoRow /\ q.kind # "create"
      BY <2>1, <2>2, <2>3, <2>4, <3>2
    <3> QED
      BY <2>2, <3>1, <3>2
  <2>6. unmatched' \subseteq Accounts \X Rows
    BY <2>1, <2>2 DEF Heard
  <2> QED
    BY <1>1, <2>2, <2>5, <2>6 DEF Heard
<1> QED
  BY <1>2, <1>3, <1>4, ClaimSteps

LEMMA HeardInit ==
    ASSUME AccountsInit
    PROVE  Heard
BY DEF AccountsInit, Heard, Idle

\* Heard is what is promised, once no message is under way.
LEMMA HeardIsIt ==
    ASSUME Heard
    PROVE  ClaimsReachHandler
<1>1. ASSUME NEW pair \in unmatched, Shown(pair[2], pair[1])
      PROVE  Shows(identity[pair[2]], pair[1])
  BY <1>1 DEF Shows, Owns, Shown, OwnedBy, Exists
<1> QED
  BY <1>1 DEF Heard, ClaimsReachHandler


-----------------------------------------------------------------------------
(* What was shut out stays out.                                            *)

\* ShutStaysOut, token by token, with the validation that has read the list.
Out(u, t) ==
    <<u, t>> \in shut \ raced =>
        /\ t \notin active[u]
        /\ <<u, t>> \in revoked \/ user[u] # "active"
        /\ \A g \in Guards : guard[g].user = u /\ guard[g].token = t =>
              /\ guard[g].pc # "warm"
              /\ guard[g].pc = "row" => user[u] # "active"
        /\ user[u] # "none"

\* The tokens of validations, one by one.
LEMMA BeforeIs ==
    ASSUME NEW u, NEW t, NEW steps
    PROVE  <<u, t>> \in Before(steps) <=>
              \E g \in Guards : guard[g].pc \in steps /\ guard[g].user = u /\ guard[g].token = t
BY DEF Before

LEMMA OutIsIt ==
    ASSUME AccessTypeOK, \A u \in Accounts, t \in Tokens : Out(u, t)
    PROVE  ShutStaysOut
<1> SUFFICES ASSUME NEW pair \in shut \ raced
             PROVE  /\ ~Cached(pair[1], pair[2])
                    /\ pair \in revoked \/ user[pair[1]] # "active"
                    /\ pair \notin Before({"warm"})
  BY DEF ShutStaysOut
<1>1. PICK u \in Accounts, t \in Tokens : pair = <<u, t>>
  BY DEF AccessTypeOK, Pairs
<1>2. pair[1] = u /\ pair[2] = t
  BY <1>1
<1> QED
  BY <1>1, <1>2, BeforeIs DEF Out, Cached

\* An account that ends, or comes to life, opens nothing.
LEMMA OutAges ==
    ASSUME Base, Ages, user' \in [Accounts -> {"none", "active", "disabled", "gone"}],
           UNCHANGED accessVars, NEW u \in Accounts, NEW t \in Tokens, Out(u, t)
    PROVE  Out(u, t)'
<1>1. UNCHANGED <<active, revoked, guard, shut, raced>>
  BY DEF accessVars
<1>2. user[u] \in {"none", "active", "disabled", "gone"}
  BY DEF Base, Tables
<1>3. user[u] # "none" /\ user[u] # "active" => user'[u] # "active"
  BY <1>2 DEF Ages
<1>4. user[u] # "none" => user'[u] # "none"
  BY DEF Ages
<1> QED
  BY <1>1, <1>3, <1>4 DEF Out

\* The steps of validations and sign-outs.
LEMMA OutAccess ==
    ASSUME Base, AccessNext, NEW u \in Accounts, NEW t \in Tokens, Out(u, t)
    PROVE  Out(u, t)'
<1> USE DEF Base
<1>1. /\ active \in [Accounts -> SUBSET Tokens]
      /\ guard \in [Guards -> {Done} \cup GuardStates]
  BY DEF AccessTypeOK, GuardStates
<1>2. ASSUME NEW g \in Guards, NEW w \in Accounts, NEW k \in Tokens, Validate(g, w, k)
      PROVE  Out(u, t)'
  <2> DEFINE s == [pc |-> "listed", user |-> w, token |-> k]
  <2>1. s.pc = "listed"
    OBVIOUS
  <2>2. guard' = [guard EXCEPT ![g] = s] /\ UNCHANGED <<user, active, revoked, shut, raced>>
    BY <1>2 DEF Validate, GuardAt
  <2> HIDE DEF s
  <2> QED
    BY <1>1, <2>1, <2>2 DEF Out
<1>3. ASSUME NEW g \in Guards, CheckList(g)
      PROVE  Out(u, t)'
  <2> DEFINE s == [guard[g] EXCEPT !.pc = "row"]
  <2>1. guard[g] \in GuardStates
    BY <1>3, GuardTypes DEF CheckList
  <2>2. s.pc = "row" /\ s.user = guard[g].user /\ s.token = guard[g].token
    BY <2>1 DEF GuardStates
  <2>3. UNCHANGED <<user, active, revoked, shut>>
    BY <1>3 DEF CheckList
  <2>4. \/ guard' = [guard EXCEPT ![g] = Done] /\ raced' = raced
        \/ /\ guard' = [guard EXCEPT ![g] = s]
           /\ \/ <<guard[g].user, guard[g].token>> \notin revoked /\ raced' = raced
              \/ raced' = raced \cup {<<guard[g].user, guard[g].token>>}
    BY <1>3 DEF CheckList, GuardAt
  <2> HIDE DEF s
  <2> QED
    BY <1>1, <2>2, <2>3, <2>4 DEF Out, Done
<1>4. ASSUME NEW g \in Guards, CheckRow(g)
      PROVE  Out(u, t)'
  <2> DEFINE s == [guard[g] EXCEPT !.pc = "warm"]
  <2>1. guard[g] \in GuardStates /\ guard[g].pc = "row"
    BY <1>4, GuardTypes DEF CheckRow
  <2>2. s.pc = "warm" /\ s.user = guard[g].user /\ s.token = guard[g].token
    BY <2>1 DEF GuardStates
  <2>3. UNCHANGED <<user, active, revoked, shut, raced>>
    BY <1>4 DEF CheckRow
  <2>4. guard' = [guard EXCEPT ![g] = IF user[guard[g].user] = "active" THEN s ELSE Done]
    BY <1>4 DEF CheckRow, GuardAt
  <2> HIDE DEF s
  <2> QED
    BY <1>1, <2>1, <2>2, <2>3, <2>4 DEF Out, Done
<1>5. ASSUME NEW g \in Guards, Warm(g)
      PROVE  Out(u, t)'
  <2>1. guard[g] \in GuardStates /\ guard[g].pc = "warm"
    BY <1>5, GuardTypes DEF Warm
  <2>2. guard' = [guard EXCEPT ![g] = Done] /\ UNCHANGED <<user, revoked, shut, raced>>
    BY <1>5 DEF Warm, GuardAt
  <2>3. active' = active \/ active' = [active EXCEPT ![guard[g].user] = @ \cup {guard[g].token}]
    BY <1>5 DEF Warm
  <2>4. t \in active'[u] => t \in active[u] \/ (guard[g].user = u /\ guard[g].token = t)
    BY <1>1, <2>3
  <2> QED
    BY <1>1, <2>1, <2>2, <2>4 DEF Out, Done
<1>6. ASSUME NEW g \in Guards, NEW w \in Accounts, NEW k \in Tokens, SignOutDevice(g, w, k)
      PROVE  Out(u, t)'
  <2> DEFINE s == [pc |-> "list", user |-> w, token |-> k]
  <2>1. s.pc = "list"
    OBVIOUS
  <2>2. /\ UNCHANGED <<user, revoked>>
        /\ \/ /\ active' = [active EXCEPT ![w] = @ \ {k}] /\ guard' = [guard EXCEPT ![g] = s]
              /\ UNCHANGED <<shut, raced>>
           \/ /\ shut' = shut \cup {<<w, k>>} /\ raced' = raced \cup {<<w, k>>}
              /\ UNCHANGED <<active, guard>>
    BY <1>6 DEF SignOutDevice, GuardAt
  <2> HIDE DEF s
  <2>3. active'[u] \subseteq active[u]
    BY <1>1, <2>2
  <2> QED
    BY <1>1, <2>1, <2>2, <2>3 DEF Out
<1>7. ASSUME NEW g \in Guards, ListToken(g)
      PROVE  Out(u, t)'
  <2> DEFINE w == guard[g].user
             k == guard[g].token
  <2>1. /\ guard[g] # Done /\ w \in Accounts /\ k \in Tokens /\ guard[g].pc = "list"
        /\ user[w] # "none"
    BY <1>7, GuardTypes DEF ListToken, Newcomers
  <2>2. /\ UNCHANGED <<user, active>>
        /\ guard' = [guard EXCEPT ![g] = Done]
        /\ shut' = shut \cup {<<w, k>>}
        /\ revoked \subseteq revoked' /\ raced \subseteq raced'
    BY <1>7 DEF ListToken, GuardAt
  <2>3. \/ <<w, k>> \in raced'
        \/ /\ <<w, k>> \in revoked' /\ <<w, k>> \notin Before({"row", "warm"})
           /\ k \notin active[w]
    BY <1>7 DEF ListToken, Cached
  <2>4. <<w, k>> \notin Before({"row", "warm"}) =>
           \A h \in Guards : guard[h].user = w /\ guard[h].token = k =>
              guard[h].pc # "row" /\ guard[h].pc # "warm"
    BY BeforeIs
  <2>5. \A h \in Guards : guard'[h] = guard[h] \/ guard'[h].pc = "idle"
    BY <1>1, <2>2 DEF Done
  <2> HIDE DEF w, k
  <2>6. CASE <<u, t>> = <<w, k>>
    BY <2>1, <2>2, <2>3, <2>4, <2>5, <2>6 DEF Out
  <2>7. CASE <<u, t>> # <<w, k>>
    BY <2>2, <2>5, <2>7 DEF Out
  <2> QED
    BY <2>6, <2>7
<1>8. ASSUME NEW w \in Accounts, SignOutEverywhere(w) \/ Expire(w)
      PROVE  Out(u, t)'
  <2>1. /\ active' = [active EXCEPT ![w] = {}]
        /\ UNCHANGED <<user, revoked, guard, shut, raced>>
    BY <1>8 DEF SignOutEverywhere, Expire
  <2> QED
    BY <1>1, <2>1 DEF Out
<1> QED
  BY <1>2, <1>3, <1>4, <1>5, <1>6, <1>7, <1>8 DEF AccessNext, Validation, SignOut

\* The end of an account shuts all its tokens out.
LEMMA OutTornDown ==
    ASSUME Base, NEW r \in Reqs, TearDown(r), NEW u \in Accounts, NEW t \in Tokens, Out(u, t)
    PROVE  Out(u, t)'
<1> USE DEF Base
<1> DEFINE w == req[r].user
<1>1. w \in Accounts /\ w \in Ended
  BY DEF TearDown, Requests, Sound
<1>2. user[w] # "active" /\ user[w] # "none"
  BY <1>1 DEF Ended
<1>3. /\ UNCHANGED <<user, revoked, guard>>
      /\ shut' = shut \cup ({w} \X Tokens)
      /\ \/ /\ active' = [active EXCEPT ![w] = {}]
            /\ raced' = raced \cup {pair \in Before({"warm"}) : pair[1] = w}
         \/ /\ active' = active
            /\ raced' = raced \cup ({w} \X Tokens)
  BY DEF TearDown, DropCache
<1> HIDE DEF w
<1>4. active \in [Accounts -> SUBSET Tokens]
  BY DEF AccessTypeOK
<1>5. CASE u # w
  <2>1. <<u, t>> \in shut' \ raced' => <<u, t>> \in shut \ raced
    BY <1>3, <1>5
  <2>2. active'[u] = active[u]
    BY <1>3, <1>4, <1>5
  <2> QED
    BY <1>3, <2>1, <2>2 DEF Out
<1>6. CASE u = w
  <2> SUFFICES ASSUME <<u, t>> \notin raced'
               PROVE  /\ t \notin active'[u]
                      /\ \A g \in Guards : guard'[g].user = u /\ guard'[g].token = t =>
                            guard'[g].pc # "warm"
    BY <1>2, <1>3, <1>6 DEF Out
  <2>1. active'[u] = {} /\ <<u, t>> \notin Before({"warm"})
    BY <1>1, <1>3, <1>4, <1>6
  <2> QED
    BY <1>3, <2>1, BeforeIs
<1> QED
  BY <1>5, <1>6

LEMMA OutStep ==
    ASSUME Base, AccountsNext, NEW u \in Accounts, NEW t \in Tokens, Out(u, t)
    PROVE  Out(u, t)'
<1>1. Kept
  BY TablesStep DEF Base
<1>2. CASE UNCHANGED accessVars
  BY <1>1, <1>2, OutAges DEF Kept, Tables
<1> QED
  BY <1>2, OutAccess, OutTornDown, AccountsSteps

LEMMA OutInit ==
    ASSUME AccountsInit
    PROVE  \A u \in Accounts, t \in Tokens : Out(u, t)
BY DEF AccountsInit, AccessInit, Out


-----------------------------------------------------------------------------
(* Owners keep what is theirs.                                             *)

\* A request that writes is at an end, or has come to its teardown.
LEMMA WriterActs ==
    ASSUME Base, NEW r \in Reqs, Writes(r)
    PROVE  req'[r] # req[r] /\ req[r] # Idle
<1> USE DEF Base, Requests
<1>1. req[r].pc \notin {"idle", "teardown"}
  BY DEF Writes, AutoVerify, CommitUpdate, CommitDelete, CommitErase, CommitDisable, CommitIdentity
<1>2. req' = [req EXCEPT ![r] = Idle]
      \/ \E u : req' = [req EXCEPT ![r] = [pc |-> "teardown", user |-> u]]
  BY DEF Writes, AutoVerify, CommitUpdate, CommitDelete, CommitErase, CommitDisable, CommitIdentity,
         Ends, Becomes
<1>3. req'[r].pc \in {"idle", "teardown"}
  BY <1>2 DEF Idle
<1> QED
  BY <1>1, <1>3 DEF Idle

LEMMA OwnersStep ==
    ASSUME Base, AccountsNext, NEW i \in Rows, NEW u \in Accounts,
           Shown(i, u), identity[i].verified,
           ~(OwnedBy(i, u)' /\ identity'[i].value = identity[i].value)
    PROVE  ActsFor(u) \/ i \in contested'
<1> USE DEF Base
<1>1. /\ identity[i] # NoRow /\ identity[i].owner = u /\ SeenOwned(identity[i])
      /\ identity'[i] # NoRow
  BY TablesStep, AccountsAssumption DEF Shown, OwnedBy, Exists, Kept, SeenOwned
<1>2. ~(identity'[i].owner = u /\ identity'[i].value = identity[i].value)
  BY <1>1 DEF OwnedBy, Exists
<1>3. ASSUME NEW r \in Reqs, Writes(r), req[r].user = u
      PROVE  ActsFor(u)
  BY <1>3, WriterActs DEF ActsFor
<1>4. ASSUME NEW v \in Values, LikeUnknown(v)
      PROVE  FALSE
  <2>1. PICK k \in Rows : ~Exists(k) /\ \E row : identity' = [identity EXCEPT ![k] = row]
    BY <1>4 DEF LikeUnknown
  <2> QED
    BY <1>1, <1>2, <2>1 DEF Tables, Exists
<1>5. ASSUME NEW r \in Reqs, AutoVerify(r)
      PROVE  FALSE
  BY <1>1, <1>2, <1>5, AutoVerifyLessens
<1>6. ASSUME NEW r \in Reqs, CommitUpdate(r)
      PROVE  req[r].user = u \/ i \in contested'
  <2> DEFINE q == req[r]
  <2>1. /\ Sound(q, There, Ended) /\ q.pc = "update"
        /\ contested' = contested \cup
                {d.row : d \in {e \in q.dups \cup {[row |-> q.row, seen |-> q.seen]} :
                                identity[e.row] # e.seen}}
    BY <1>6 DEF CommitUpdate, Requests
  <2>2. i = q.row \/ i \in {d.row : d \in q.dups}
    BY <1>1, <1>2, <1>6, CommitUpdateRows
  <2> HIDE DEF q
  <2>3. CASE i = q.row /\ identity[i] = q.seen
    BY <1>1, <2>1, <2>3 DEF Sound, q
  <2>4. CASE i = q.row /\ identity[i] # q.seen
    <3>1. PICK e : e = [row |-> q.row, seen |-> q.seen]
      OBVIOUS
    <3>2. e.row = i /\ e.seen = q.seen
      BY <2>4, <3>1
    <3> QED
      BY <2>1, <2>4, <3>1, <3>2
  <2>5. ASSUME NEW d \in q.dups, d.row = i
        PROVE  i \in contested'
    <3>1. ~SeenOwned(d.seen)
      BY <2>1, <2>5 DEF Sound
    <3>2. identity[d.row] # d.seen
      BY <1>1, <2>5, <3>1
    <3> QED
      BY <2>1, <2>5, <3>2
  <2> QED
    BY <2>2, <2>3, <2>4, <2>5
<1>7. ASSUME NEW r \in Reqs, CommitDelete(r)
      PROVE  req[r].user = u \/ i \in contested'
  <2> DEFINE q == req[r]
             k == q.row
  <2>1. /\ Sound(q, There, Ended) /\ q.pc = "delete"
        /\ contested' = IF identity[k] # q.seen THEN contested \cup {k} ELSE contested
        /\ \E row : identity' = [identity EXCEPT ![k] = row]
    <3>1. identity' = [identity EXCEPT ![k] = [[[identity[k] EXCEPT !.deleted = TRUE]
                                                 EXCEPT !.owner = Nobody] EXCEPT !.verified = FALSE]]
      BY <1>7 DEF CommitDelete, Tables
    <3> QED
      BY <1>7, <3>1 DEF CommitDelete, Requests
  <2> HIDE DEF q
  <2>2. i = k
    BY <1>1, <1>2, <2>1 DEF Tables
  <2>3. q.seen.owner = q.user
    BY <2>1 DEF Sound
  <2> QED
    BY <1>1, <2>1, <2>2, <2>3 DEF q
<1>8. ASSUME NEW r \in Reqs, CommitErase(r)
      PROVE  req[r].user = u \/ i \in contested'
  <2> DEFINE q == req[r]
  <2>1. /\ Sound(q, There, Ended) /\ q.pc = "erase"
        /\ contested' = contested \cup {s.row : s \in {e \in q.rows : identity[e.row] # e.seen}}
    BY <1>8 DEF CommitErase, Requests
  <2>2. Owns(identity[i], q.user) \/ i \in {s.row : s \in q.rows}
    BY <1>1, <1>2, <1>8, CommitEraseRows
  <2> HIDE DEF q
  <2>3. CASE Owns(identity[i], q.user)
    BY <1>1, <2>3 DEF Owns, q
  <2>4. ASSUME NEW s \in q.rows, s.row = i
        PROVE  q.user = u \/ i \in contested'
    <3>1. s.seen.owner = q.user
      BY <2>1, <2>4 DEF Sound
    <3> QED
      BY <1>1, <2>1, <2>4, <3>1
  <2> QED
    BY <2>2, <2>3, <2>4 DEF q
<1>9. ASSUME NEW r \in Reqs, CommitDisable(r)
      PROVE  FALSE
  BY <1>1, <1>2, <1>9, CommitDisableRows
<1>10. ASSUME NEW r \in Reqs, CommitIdentity(r)
       PROVE  req[r].user = u \/ i \in contested'
  <2> DEFINE q == req[r]
             k == q.row
  <2>1. /\ q.pc \in {"write", "commit"} /\ Sound(q, There, Ended)
        /\ identity' = [identity EXCEPT ![k] = Written(q)]
    BY <1>10, CommitIdentityRows
  <2>2. contested' = IF identity[k] # q.seen THEN contested \cup {k} ELSE contested
    BY <1>10, Zenon DEF CommitIdentity
  <2> HIDE DEF q
  <2>3. i = k
    BY <1>1, <1>2, <2>1 DEF Tables
  <2>4. CASE identity[k] = q.seen
    <3>1. /\ q.kind \in {"signup", "secondary", "create", "claim"}
          /\ q.seen # NoRow /\ SeenOwned(q.seen) /\ q.seen.owner = u
      BY <1>1, <2>1, <2>3, <2>4 DEF Sound, Registering
    <3>2. q.kind \in {"signup", "secondary"} => q.seen.owner = Nobody
      BY <2>1, <3>1 DEF Sound
    <3>3. q.kind # "create"
      BY <2>1, <3>1 DEF Sound
    <3>4. q.kind = "claim" => q.seen.owner = q.user
      BY <2>1, <3>1 DEF Sound
    <3> QED
      BY <3>1, <3>2, <3>3, <3>4, AccountsAssumption DEF q
  <2> QED
    BY <2>2, <2>3, <2>4
<1>11. CASE UNCHANGED identity
  BY <1>1, <1>2, <1>11
<1> QED
  BY <1>3, <1>4, <1>5, <1>6, <1>7, <1>8, <1>9, <1>10, <1>11, WritingSteps DEF Writes


-----------------------------------------------------------------------------
(* Types of the rest.                                                      *)

Records ==
    /\ claims \subseteq Accounts /\ early \subseteq Accounts
    /\ contested \subseteq Rows /\ late \subseteq Rows
    /\ moved \subseteq Values
    /\ calls \in Nat

LEMMA RecordsStep ==
    ASSUME Base, AccountsNext, Records
    PROVE  Records'
<1> USE DEF Base, Records
<1>1. GivenUp \subseteq Values
  BY DEF GivenUp
<1>2. ASSUME NEW v \in Values, LikeUnknown(v)
      PROVE  Records'
  BY <1>2 DEF LikeUnknown, history
<1>3. ASSUME NEW r \in Reqs, Asks(r)
      PROVE  Records'
  <2>1. UNCHANGED <<claims, history>> /\ calls' = calls + 1
    BY <1>3 DEF Asks, Changes, Endings, SignUp, AddSecondaryAuth, AddIdentity, Opens, SignIn, StartDelete, StartUpdate,
                StartEdit, StartErase, StartDisable, Call
  <2> QED
    BY <2>1 DEF history
<1>4. ASSUME NEW r \in Reqs, Works(r)
      PROVE  Records'
  <2>1. Sound(req[r], There, Ended)
    BY DEF Requests
  <2>2. CASE ReadIdentity(r) \/ RequestFails(r) \/ FindDuplicate(r) \/ EndingFails(r)
    BY <2>2 DEF ReadIdentity, RequestFails, FindDuplicate, EndingFails, history
  <2>3. CASE PublishEarly(r) \/ AutoVerify(r)
    <3>1. req[r].user \in Accounts
      BY <2>1, <2>3 DEF Sound, PublishEarly, AutoVerify
    <3> QED
      BY <2>3, <3>1 DEF PublishEarly, AutoVerify, history
  <2>4. CASE CommitIdentity(r)
    <3> DEFINE q == req[r]
    <3>1. q.user \in Accounts /\ q.row \in Rows
      BY <2>4, CommitIdentityRows
    <3>2. /\ claims' \subseteq claims \cup {q.user} /\ contested' \subseteq contested \cup {q.row}
          /\ late' \subseteq late \cup {q.row}
          /\ moved' = moved \cup GivenUp /\ UNCHANGED <<calls, early>>
      BY <2>4 DEF CommitIdentity
    <3> HIDE DEF q
    <3> QED
      BY <1>1, <3>1, <3>2
  <2>5. CASE CommitUpdate(r)
    <3> DEFINE q == req[r]
    <3>1. q.row \in There /\ \A d \in q.dups : d.row \in There
      BY <2>1, <2>5 DEF Sound, CommitUpdate
    <3>2. /\ contested' = contested \cup
                {d.row : d \in {e \in q.dups \cup {[row |-> q.row, seen |-> q.seen]} :
                                identity[e.row] # e.seen}}
          /\ moved' = moved \cup GivenUp /\ UNCHANGED <<claims, calls, early, late>>
      BY <2>5 DEF CommitUpdate
    <3>3. [row |-> q.row, seen |-> q.seen].row = q.row
      OBVIOUS
    <3> HIDE DEF q
    <3>4. contested' \subseteq Rows
      BY <3>1, <3>2, <3>3 DEF There
    <3> QED
      BY <1>1, <3>2, <3>4
  <2>6. CASE CommitDelete(r)
    <3>1. req[r].row \in Rows
      BY <2>1, <2>6 DEF Sound, CommitDelete, There
    <3>2. /\ contested' \subseteq contested \cup {req[r].row}
          /\ UNCHANGED <<claims, calls, early, moved, late>>
      BY <2>6 DEF CommitDelete
    <3> QED
      BY <3>1, <3>2
  <2>7. CASE CommitErase(r)
    <3> DEFINE q == req[r]
    <3>1. \A s \in q.rows : s.row \in There
      BY <2>1, <2>7 DEF Sound, CommitErase
    <3>2. /\ contested' = contested \cup
                {s.row : s \in {e \in q.rows : identity[e.row] # e.seen}}
          /\ UNCHANGED <<claims, calls, early, moved, late>>
      BY <2>7 DEF CommitErase
    <3> HIDE DEF q
    <3> QED
      BY <3>1, <3>2 DEF There
  <2>8. CASE CommitDisable(r)
    BY <2>8 DEF CommitDisable, history
  <2> QED
    BY <1>4, <2>2, <2>3, <2>4, <2>5, <2>6, <2>7, <2>8 DEF Works
<1>5. ASSUME NEW u \in Accounts, HandleIdentityClaimed(u)
      PROVE  Records'
  BY <1>5 DEF HandleIdentityClaimed
<1>6. ASSUME UNCHANGED <<claims, calls, history>>
      PROVE  Records'
  BY <1>6 DEF history
<1>7. ASSUME NEW r \in Reqs, TearDown(r)
      PROVE  Records'
  BY <1>6, <1>7 DEF TearDown
<1> QED
  BY <1>2, <1>3, <1>4, <1>5, <1>6, <1>7, AccountsSteps

LEMMA RecordsInit ==
    ASSUME AccountsInit
    PROVE  Records
BY DEF AccountsInit, Records

\* Together they type the variables.
LEMMA AccountsTypes ==
    ASSUME Base, Heard, Records
    PROVE  AccountsTypeOK
<1>1. \A r \in Reqs :
          req[r].pc \in {"idle", "open", "write", "commit", "verify", "compare", "update",
                         "delete", "erase", "disable", "teardown"}
  BY DEF Base, Requests, Sound
<1> QED
  BY <1>1 DEF Base, Tables, CredRows, Heard, Records, AccountsTypeOK
=============================================================================
