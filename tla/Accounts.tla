------------------------------ MODULE Accounts ------------------------------
(***************************************************************************)
(* Accounts and the phone numbers and addresses they are known by: signing *)
(* up and in, linking, claiming, changing and deleting identities, and the *)
(* two ways an account ends.  An Identity row exists for a value before it *)
(* has an owner, as soon as someone likes it.                              *)
(*                                                                         *)
(* Every request checks first and writes later: the checks outside its     *)
(* transaction, and the read the transaction begins with, are steps of     *)
(* their own (PostgreSQL's default isolation locks nothing that is read).  *)
(***************************************************************************)
EXTENDS AccessTokens

CONSTANTS
    Values,       \* phone numbers and e-mail addresses
    KindOf,       \* IdentityType of a value
    Rows,         \* Identity rows
    Reqs,         \* requests in progress at once
    Nobody        \* userId is null

Mangled == "mangled"    \* the value of a row that had to make room

ASSUME AccountsAssumption == Nobody \notin Accounts /\ {Mangled, "none"} \cap Values = {}

VARIABLES
    identity,   \* Identity
    cred,       \* AuthCredential, by its identity (a unique index)
    req,        \* the requests in progress
    claims,     \* accounts with an IDENTITY_CLAIMED message under way
    calls,      \* requests so far
    unmatched,  \* history: <<account, row>> claimed, not yet looked at by the handler
    early,      \* history: accounts whose message was handled as a claim was uncommitted
    contested,  \* history: rows written over a change made since they were read
    moved,      \* history: values given up while a request to register them went on
    late        \* history: rows written for an account that had ended

rowVars     == <<identity, cred>>
history     == <<unmatched, early, contested, moved, late>>
accountVars == <<user, rowVars, req, claims, calls, history>>

NoRow   == [value |-> "none"]
NoCred  == [value |-> "none"]
Idle    == [pc |-> "idle"]

Exists(i)      == identity[i] # NoRow
RowsOf(v)      == {i \in Rows : identity[i].value = v}
OwnedBy(i, u)  == Exists(i) /\ identity[i].owner = u
Shown(i, u)    == OwnedBy(i, u) /\ ~identity[i].deleted
Live(i)        == cred[i] # NoCred /\ cred[i].live
Registered(v)  == \E i \in Rows : Live(i) /\ cred[i].value = v
IsActivelyOwned(i) == identity[i].owner # Nobody /\ identity[i].verified

Becomes(r, state) == req' = [req EXCEPT ![r] = state]
Goes(r, pc)       == Becomes(r, [req[r] EXCEPT !.pc = pc])
Ends(r)           == Becomes(r, Idle)
Call(r)           == req[r] = Idle /\ calls' = calls + 1

\* Rows that a transaction has written and not committed.
Locked(i)  == \E r \in Reqs : req[r].pc = "commit" /\ req[r].row = i
Unused     == {u \in Accounts : user[u] = "none"
                                /\ \A r \in Reqs : req[r] # Idle => req[r].user # u}

\* Accounts there may be to begin with, each with a verified value of its own.
Members == {m \in SUBSET (Accounts \X Rows \X Values) :
               \A a, b \in m : a = b \/ (\A n \in 1 .. 3 : a[n] # b[n])}

AccountsInit ==
    /\ \E members \in Members :
          LET at(i) == CHOOSE m \in members : m[2] = i
              rows  == {m[2] : m \in members}
          IN /\ AccessInit({m[1] : m \in members})
             /\ identity = [i \in Rows |->
                               IF i \in rows THEN [value |-> at(i)[3], owner |-> at(i)[1],
                                                   verified |-> TRUE, deleted |-> FALSE]
                               ELSE NoRow]
             /\ cred = [i \in Rows |->
                           IF i \in rows THEN [value |-> at(i)[3], user |-> at(i)[1], live |-> TRUE]
                           ELSE NoCred]
    /\ req = [r \in Reqs |-> Idle]
    /\ claims = {}
    /\ calls = 0
    /\ unmatched = {}
    /\ early = {}
    /\ contested = {}
    /\ moved = {}
    /\ late = {}

\* A like makes a row for a value nobody has used.
LikeUnknown(v) ==
    /\ RowsOf(v) = {}
    /\ calls' = calls + 1
    /\ \E i \in Rows :
          /\ ~Exists(i)
          /\ identity' = [identity EXCEPT ![i] = [value |-> v, owner |-> Nobody,
                                                  verified |-> FALSE, deleted |-> FALSE]]
    /\ UNCHANGED <<user, cred, req, claims, history>>

-----------------------------------------------------------------------------
(* Registering a value: the checks of every way to do it.                  *)

Opens(r, kind, u, v, proven) ==
    /\ Becomes(r, [pc |-> "open", kind |-> kind, user |-> u, value |-> v, proven |-> proven])
    /\ UNCHANGED <<user, rowVars, claims, history>>

\* Mutant of SignUp: only the transaction checks.
SignUpUnchecked(r, v, proven) ==
    Call(r) /\ \E u \in Unused : Opens(r, "signup", u, v, proven)

\* signup, and signInOrSignUp of a value that has no live credential.
SignUp(r, v, proven) ==
    /\ Call(r)
    /\ ~Registered(v)
    /\ \E u \in Unused : Opens(r, "signup", u, v, proven)

\* addSecondaryAuth: the account has no live credential of this kind, and nobody has
\* one for the value.
AddSecondaryAuth(r, u, v) ==
    /\ Call(r)
    /\ MayAct(u) /\ user[u] # "gone"
    /\ \A i \in Rows : Live(i) /\ cred[i].user = u => KindOf[cred[i].value] # KindOf[v]
    /\ ~Registered(v)
    /\ Opens(r, "secondary", u, v, TRUE)

\* IdentitiesService.create, and claimOrCreateIdentity once a code was entered.
AddIdentity(r, u, v, proven) ==
    /\ Call(r)
    /\ MayAct(u)
    /\ Opens(r, IF proven THEN "claim" ELSE "create", u, v, proven)

\* Mutant of MayTake: a claim does not ask for a verified owner.
MayTakeAny(q, i) ==
    CASE q.kind \in {"signup", "secondary"} -> identity[i].owner = Nobody
      [] q.kind = "create" -> identity[i].owner # q.user /\ ~IsActivelyOwned(i)
      [] q.kind = "claim"  -> TRUE

\* Who may take the row of the value: a new credential needs an unowned one, the others
\* one that is not verified for somebody else (checkAndLogReassignment).
MayTake(q, i) ==
    CASE q.kind \in {"signup", "secondary"} -> identity[i].owner = Nobody
      [] q.kind = "create" -> identity[i].owner # q.user /\ ~IsActivelyOwned(i)
      [] q.kind = "claim"  -> IsActivelyOwned(i) => identity[i].owner = q.user

\* The transaction looks for the row, which it will update or else insert.
ReadIdentity(r) ==
    /\ req[r].pc = "open"
    /\ LET q == req[r]
           Finds(i, row) == Becomes(r, [pc |-> "write", kind |-> q.kind, user |-> q.user,
                                        value |-> q.value, proven |-> q.proven,
                                        row |-> i, seen |-> row])
       IN \/ \E i \in RowsOf(q.value) :
                IF MayTake(q, i) THEN Finds(i, identity[i]) ELSE Ends(r)
          \/ /\ RowsOf(q.value) = {}
             /\ \E i \in Rows : ~Exists(i) /\ Finds(i, NoRow)
    /\ UNCHANGED <<user, rowVars, claims, calls, history>>

\* Mutant of PublishEarly: nothing is published.
PublishNothing(r) ==
    /\ req[r].pc = "write" /\ req[r].kind = "signup" /\ req[r].seen # NoRow
    /\ ~Locked(req[r].row)
    /\ Goes(r, "commit")
    /\ UNCHANGED <<user, rowVars, claims, calls, history>>

\* createUserWithCredential publishes the claim of a row from inside its transaction.
PublishEarly(r) ==
    /\ req[r].pc = "write" /\ req[r].kind = "signup" /\ req[r].seen # NoRow
    /\ ~Locked(req[r].row)
    /\ Goes(r, "commit")
    /\ claims' = claims \cup {req[r].user}
    /\ UNCHANGED <<user, rowVars, calls, history>>

\* The unique index on the value, the one on the credential's identity and the
\* foreign key on the account.
Accepts(q) ==
    /\ RowsOf(q.value) \subseteq {q.row}
    /\ q.seen = NoRow => ~Exists(q.row)
    /\ q.kind \in {"signup", "secondary"} => cred[q.row] = NoCred
    /\ q.kind # "signup" => user[q.user] # "gone"

\* What the row becomes.  Only create and claimOrCreateIdentity clear deletedAt.
Written(q) ==
    [value |-> q.value, owner |-> q.user, verified |-> q.proven,
     deleted |-> q.kind \in {"signup", "secondary"} /\ q.seen # NoRow /\ identity[q.row].deleted]

\* The values whose row is another one, or none, after the step: those of them that a
\* request is about to register.
GivenUp ==
    {v \in Values : /\ RowsOf(v) # {}
                    /\ \A i \in RowsOf(v) : identity'[i].value # v
                    /\ \E r \in Reqs : req[r].pc \in {"open", "write", "commit"}
                                       /\ req[r].value = v}

\* The transaction writes and commits, with the credential if there is one; what was
\* not published in it is published now (addSecondaryAuth, for a row it found, and
\* claimOrCreateIdentity).
CommitIdentity(r) ==
    /\ \/ req[r].pc = "commit"
       \/ /\ req[r].pc = "write"
          /\ req[r].kind = "signup" => req[r].seen = NoRow
          /\ ~Locked(req[r].row)
    /\ Accepts(req[r])
    /\ LET q == req[r]
           i == q.row
       IN /\ user' = IF q.kind = "signup" THEN [user EXCEPT ![q.user] = "active"] ELSE user
          /\ identity' = [identity EXCEPT ![i] = Written(q)]
          /\ cred' = IF q.kind \in {"signup", "secondary"}
                     THEN [cred EXCEPT ![i] = [value |-> q.value, user |-> q.user, live |-> TRUE]]
                     ELSE cred
          /\ claims' = IF \/ q.kind = "secondary" /\ q.seen # NoRow
                          \/ q.kind = "claim"
                       THEN claims \cup {q.user} ELSE claims
          /\ unmatched' = {pair \in unmatched : pair[2] # i}
                          \cup {pair \in {<<q.user, i>>} : q.seen # NoRow /\ q.kind # "create"}
          /\ contested' = IF identity[i] # q.seen THEN contested \cup {i} ELSE contested
          /\ moved' = moved \cup GivenUp
          /\ late' = IF user[q.user] = "disabled" THEN late \cup {i} ELSE late
          /\ Ends(r)
    /\ UNCHANGED <<calls, early>>

\* A transaction that meets a constraint, or fails for a reason of its own.
RequestFails(r) ==
    /\ req[r].pc \in {"write", "commit"}
    /\ Ends(r)
    /\ UNCHANGED <<user, rowVars, claims, calls, history>>

\* handleIdentityClaimed looks at the likes for the account's identities.
HandleIdentityClaimed(u) ==
    /\ u \in claims
    /\ claims' = claims \ {u}
    /\ unmatched' = {pair \in unmatched : ~(pair[1] = u /\ Shown(pair[2], u))}
    /\ early' = IF \E r \in Reqs : req[r].pc = "commit" /\ req[r].user = u
                THEN early \cup {u} ELSE early
    /\ UNCHANGED <<user, rowVars, req, calls, contested, moved, late>>

-----------------------------------------------------------------------------
(* Signing in: an unverified identity is verified by a provider that vouches. *)

SignIn(r, i) ==
    /\ Call(r)
    /\ Live(i) /\ ~identity[i].verified
    /\ Becomes(r, [pc |-> "verify", user |-> cred[i].user, row |-> i])
    /\ UNCHANGED <<user, rowVars, claims, history>>

AutoVerify(r) ==
    /\ req[r].pc = "verify"
    /\ ~Locked(req[r].row)
    /\ identity' = [identity EXCEPT ![req[r].row].verified = TRUE]
    /\ claims' = claims \cup {req[r].user}
    /\ Ends(r)
    /\ UNCHANGED <<user, cred, calls, history>>

-----------------------------------------------------------------------------
(* IdentitiesService.update and delete.                                    *)

StartEdit(r, u, i, pc, v) ==
    /\ Call(r)
    /\ MayAct(u)
    /\ Shown(i, u)
    /\ Becomes(r, [pc |-> pc, user |-> u, row |-> i, value |-> v, seen |-> identity[i]])
    /\ UNCHANGED <<user, rowVars, claims, history>>

StartUpdate(r, u, i, v) ==
    /\ KindOf[v] = KindOf[identity[i].value]
    /\ StartEdit(r, u, i, "compare", v)

StartDelete(r, u, i) == StartEdit(r, u, i, "delete", identity[i].value)

\* The transaction of an update looks for another row with the new value, which is
\* moved out of the way unless it is verified for its owner.
FindDuplicate(r) ==
    /\ req[r].pc = "compare"
    /\ LET q == req[r]
           others == RowsOf(q.value) \ {q.row}
           Found(dups) == [pc |-> "update", user |-> q.user, row |-> q.row, value |-> q.value,
                           seen |-> q.seen,
                           dups |-> {[row |-> d, seen |-> identity[d]] : d \in dups}]
       IN Becomes(r, IF \E d \in others : IsActivelyOwned(d) THEN Idle ELSE Found(others))
    /\ UNCHANGED <<user, rowVars, claims, calls, history>>

CommitUpdate(r) ==
    /\ req[r].pc = "update"
    /\ LET q == req[r]
           dups == {d.row : d \in q.dups}
           Moved(row) == [row EXCEPT !.value = Mangled, !.owner = Nobody, !.deleted = TRUE]
       IN /\ \A i \in dups \cup {q.row} : ~Locked(i)
          /\ RowsOf(q.value) \subseteq dups \cup {q.row}
          /\ identity' = [i \in Rows |->
                            CASE i = q.row -> [identity[i] EXCEPT !.value = q.value]
                              [] i \in dups \ {q.row} -> Moved(identity[i])
                              [] OTHER -> identity[i]]
          /\ contested' = contested \cup
                {d.row : d \in {e \in q.dups \cup {[row |-> q.row, seen |-> q.seen]} :
                                identity[e.row] # e.seen}}
          /\ moved' = moved \cup GivenUp
    /\ Ends(r)
    /\ UNCHANGED <<user, cred, claims, calls, unmatched, early, late>>

CommitDelete(r) ==
    /\ req[r].pc = "delete"
    /\ LET i == req[r].row IN
       /\ ~Locked(i)
       /\ identity' = [identity EXCEPT ![i].deleted = TRUE, ![i].owner = Nobody,
                                       ![i].verified = FALSE]
       /\ contested' = IF identity[i] # req[r].seen THEN contested \cup {i} ELSE contested
    /\ Ends(r)
    /\ UNCHANGED <<user, cred, claims, calls, unmatched, early, moved, late>>

-----------------------------------------------------------------------------
(* The end of an account.                                                  *)

\* deleteAccount reads the account with its identities ...
StartErase(r, u) ==
    /\ Call(r)
    /\ user[u] = "active"
    /\ LET rows == {i \in Rows : OwnedBy(i, u)} IN
       Becomes(r, [pc |-> "erase", user |-> u,
                   rows |-> {[row |-> i, seen |-> identity[i]] : i \in rows}])
    /\ UNCHANGED <<user, rowVars, claims, history>>

\* ... and makes these rows unowned, whoever has them now, and removes the account with
\* its credentials; the foreign key clears the owner of a row that came in between.
CommitErase(r) ==
    /\ req[r].pc = "erase"
    /\ user[req[r].user] # "gone"
    /\ LET u == req[r].user
           rows == {s.row : s \in req[r].rows}
           Freed(row) == [row EXCEPT !.owner = Nobody, !.verified = FALSE, !.deleted = TRUE]
       IN /\ \A i \in rows : ~Locked(i)
          /\ user' = [user EXCEPT ![u] = "gone"]
          /\ identity' = [i \in Rows |->
                            CASE i \in rows -> Freed(identity[i])
                              [] i \notin rows /\ OwnedBy(i, u) -> [identity[i] EXCEPT !.owner = Nobody]
                              [] OTHER -> identity[i]]
          /\ cred' = [i \in Rows |-> IF cred[i] # NoCred /\ cred[i].user = u THEN NoCred
                                     ELSE cred[i]]
          /\ contested' = contested \cup
                {s.row : s \in {e \in req[r].rows : identity[e.row] # e.seen}}
          /\ Becomes(r, [pc |-> "teardown", user |-> u])
    /\ UNCHANGED <<claims, calls, unmatched, early, moved, late>>

\* Profiles and Admin: deleteProfile and deleteAccount of the administrator.
StartDisable(r, u) ==
    /\ Call(r)
    /\ user[u] = "active"
    /\ Becomes(r, [pc |-> "disable", user |-> u])
    /\ UNCHANGED <<user, rowVars, claims, history>>

\* Mutant of CommitDisable: the credentials are left as they are.
CommitDisablePartly(r) ==
    /\ req[r].pc = "disable"
    /\ user[req[r].user] # "gone"
    /\ LET u == req[r].user IN
       /\ user' = [user EXCEPT ![u] = "disabled"]
       /\ identity' = [i \in Rows |-> IF Shown(i, u) THEN [identity[i] EXCEPT !.deleted = TRUE]
                                      ELSE identity[i]]
       /\ Becomes(r, [pc |-> "teardown", user |-> u])
    /\ UNCHANGED <<cred, claims, calls, history>>

CommitDisable(r) ==
    /\ req[r].pc = "disable"
    /\ user[req[r].user] # "gone"
    /\ LET u == req[r].user
           mine == {i \in Rows : OwnedBy(i, u)}
       IN /\ \A i \in mine : ~Locked(i)
          /\ user' = [user EXCEPT ![u] = "disabled"]
          /\ identity' = [i \in Rows |-> IF Shown(i, u)
                                         THEN [identity[i] EXCEPT !.deleted = TRUE]
                                         ELSE identity[i]]
          /\ cred' = [i \in Rows |-> IF Live(i) /\ cred[i].user = u
                                     THEN [cred[i] EXCEPT !.live = FALSE] ELSE cred[i]]
          /\ Becomes(r, [pc |-> "teardown", user |-> u])
    /\ UNCHANGED <<claims, calls, history>>

\* Who updates or deletes an account that is gone gets an error.
EndingFails(r) ==
    /\ req[r].pc \in {"erase", "disable"}
    /\ user[req[r].user] = "gone"
    /\ Ends(r)
    /\ UNCHANGED <<user, rowVars, claims, calls, history>>

\* The answer to the deletion, or to its event: the cache is cleared.
TearDown(r) ==
    /\ req[r].pc = "teardown"
    /\ DropCache(req[r].user)
    /\ Ends(r)
    /\ UNCHANGED <<user, rowVars, claims, calls, history>>

-----------------------------------------------------------------------------
Changes(r) ==
    \/ \E v \in Values, proven \in BOOLEAN : SignUp(r, v, proven)
    \/ \E u \in Accounts, v \in Values :
          \/ AddSecondaryAuth(r, u, v)
          \/ \E proven \in BOOLEAN : AddIdentity(r, u, v, proven)
    \/ \E i \in Rows : \/ SignIn(r, i)
                       \/ \E u \in Accounts : \/ StartDelete(r, u, i)
                                              \/ \E v \in Values : Shown(i, u) /\ StartUpdate(r, u, i, v)

Endings(r) == \E u \in Accounts : StartErase(r, u) \/ StartDisable(r, u)

Asks(r) == Changes(r) \/ Endings(r)

Works(r) ==
    \/ ReadIdentity(r) \/ PublishEarly(r) \/ CommitIdentity(r) \/ RequestFails(r)
    \/ AutoVerify(r) \/ FindDuplicate(r) \/ CommitUpdate(r) \/ CommitDelete(r)
    \/ CommitErase(r) \/ CommitDisable(r) \/ EndingFails(r)

\* Requests begin: to change something, or to end an account; and everything else goes on.
Opening ==
    /\ (\E v \in Values : LikeUnknown(v)) \/ (\E r \in Reqs : Changes(r))
    /\ UNCHANGED accessVars

Closing == (\E r \in Reqs : Endings(r)) /\ UNCHANGED accessVars

Going ==
    \/ /\ (\E r \in Reqs : Works(r)) \/ (\E u \in Accounts : HandleIdentityClaimed(u))
       /\ UNCHANGED accessVars
    \/ \E r \in Reqs : TearDown(r)
    \/ AccessNext /\ UNCHANGED <<rowVars, req, claims, calls, history>>

AccountsNext == Opening \/ Closing \/ Going

-----------------------------------------------------------------------------
IdentityRows == [value : Values \cup {Mangled}, owner : Accounts \cup {Nobody},
                 verified : BOOLEAN, deleted : BOOLEAN]

\* Types of the variables.
AccountsTypeOK ==
    /\ AccessTypeOK
    /\ identity \in [Rows -> IdentityRows \cup {NoRow}]
    /\ cred \in [Rows -> [value : Values, user : Accounts, live : BOOLEAN] \cup {NoCred}]
    /\ \A r \in Reqs :
          req[r].pc \in {"idle", "open", "write", "commit", "verify", "compare", "update",
                         "delete", "erase", "disable", "teardown"}
    /\ claims \subseteq Accounts /\ early \subseteq Accounts
    /\ unmatched \subseteq Accounts \X Rows
    /\ contested \cup late \subseteq Rows
    /\ moved \subseteq Values

\* A value signs in to one account: two live credentials never share it, unless the
\* value was given up by its identity while a request that had found it free was in
\* progress (signup, signInOrSignUp, addSecondaryAuth; the database has no unique index
\* that sees it, as deletedAt is null in both).
OneAccountPerValue ==
    \A i, j \in Rows : Live(i) /\ Live(j) /\ i # j /\ cred[i].value = cred[j].value
                       => cred[i].value \in moved

\* What an account that has ended leaves: nothing of one that is gone, and no live
\* credential and no visible identity of one that is disabled, but for rows that a
\* request of its own wrote after the end (deleteAccount, deleteProfile).
EndedLeavesNothing ==
    \A i \in Rows, u \in Accounts :
        /\ user[u] = "gone" => ~OwnedBy(i, u) /\ (cred[i] # NoCred => cred[i].user # u)
        /\ user[u] = "disabled" /\ i \notin late =>
              ~Shown(i, u) /\ (Live(i) => cred[i].user # u)

\* A claimed identity is looked at for likes that waited for its owner, once the
\* messages are handled, unless the message was handled before the claim was committed
\* or the row was hidden from its owner (handleIdentityClaimed).
ClaimsReachHandler ==
    claims = {} /\ (\A r \in Reqs : req[r] = Idle) =>
        \A pair \in unmatched : Shown(pair[2], pair[1]) => pair[1] \in early

\* Whose step it is.
ActsFor(u) == \E r \in Reqs : req'[r] # req[r] /\ req[r] # Idle /\ req[r].user = u

\* A verified identity leaves an active account, or gets another value, by a request of
\* that account alone, or by one that had read the row before it was what it is (checkAndLogReassignment,
\* update, delete, deleteAccount).
OwnersKeepTheirs ==
    [][\A i \in Rows, u \in Accounts :
          Shown(i, u) /\ identity[i].verified /\ user[u] = "active"
          /\ ~(OwnedBy(i, u)' /\ identity'[i].value = identity[i].value) => ActsFor(u) \/ i \in contested']_<<user, identity, req>>
=============================================================================
