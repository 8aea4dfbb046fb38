---------------------------- MODULE AccessTokens ----------------------------
(***************************************************************************)
(* Who is let in with an access token: a positive cache in Redis, a set of *)
(* token ids per account, in front of a list of revoked ids and of the     *)
(* account's row.  JwtStrategy.validate reads them one after the other,    *)
(* while sign-outs and deletions take them away.                           *)
(*                                                                         *)
(* An access token lives 15 minutes and so does an entry of the list of    *)
(* revoked ids: an entry is not modelled beyond its token's life.          *)
(***************************************************************************)
EXTENDS Naturals, FiniteSets

CONSTANTS
    Accounts,     \* accounts, those that are still to be created included
    Tokens,       \* access tokens of an account (jti): one per device
    Guards,       \* validations and sign-outs in progress at once
    MaxFailures   \* bound: calls to Redis that fail

ASSUME AccessAssumption == MaxFailures \in Nat

VARIABLES
    user,      \* User: "none", "active", "disabled" (deletedAt is set) or "gone"
    active,    \* user:active:<userId>, the cached token ids of the account
    revoked,   \* auth:revoked:<jti>, by account and token
    guard,     \* the validations and sign-outs in progress
    failures,
    shut,      \* history: tokens, as pairs, signed out with their refresh token, and all those
               \* of accounts torn down
    raced      \* history: tokens validated across such an ending, or ended as Redis failed

accessVars == <<active, revoked, guard, failures, shut, raced>>

Pairs == Accounts \X Tokens
Done  == [pc |-> "idle"]

\* The accounts there are to begin with.
AccessInit(members) ==
    /\ user = [u \in Accounts |-> IF u \in members THEN "active" ELSE "none"]
    /\ active = [u \in Accounts |-> {}]
    /\ revoked = {}
    /\ guard = [g \in Guards |-> Done]
    /\ failures = 0
    /\ shut = {}
    /\ raced = {}

Cached(u, t)  == t \in active[u]
GuardAt(g, s) == guard' = [guard EXCEPT ![g] = s]
Failure       == failures < MaxFailures /\ failures' = failures + 1

\* Tokens of the validations that are about to do one of these steps.
Before(steps) == {<<guard[g].user, guard[g].token>> : g \in {h \in Guards : guard[h].pc \in steps}}

\* A request of the account gets past the guard, now or by an earlier validation.
MayAct(u) == user[u] = "active" \/ active[u] # {}

-----------------------------------------------------------------------------
(* JwtStrategy.validate.                                                   *)

\* isUserActive: a hit lets the request in; a miss, or a failing Redis, goes on.
Validate(g, u, t) ==
    /\ guard[g] = Done
    /\ user[u] # "none"
    /\ \/ /\ ~Cached(u, t)
          /\ UNCHANGED failures
       \/ Failure
    /\ GuardAt(g, [pc |-> "listed", user |-> u, token |-> t])
    /\ UNCHANGED <<user, active, revoked, shut, raced>>

\* isTokenRevoked: refused if listed; a failing Redis counts as not listed.
CheckList(g) ==
    /\ guard[g].pc = "listed"
    /\ LET pair == <<guard[g].user, guard[g].token>> IN
       \/ /\ pair \in revoked
          /\ GuardAt(g, Done)
          /\ UNCHANGED <<failures, raced>>
       \/ /\ pair \notin revoked
          /\ GuardAt(g, [guard[g] EXCEPT !.pc = "row"])
          /\ UNCHANGED <<failures, raced>>
       \/ /\ Failure
          /\ GuardAt(g, [guard[g] EXCEPT !.pc = "row"])
          /\ raced' = raced \cup {pair}
    /\ UNCHANGED <<user, active, revoked, shut>>

\* The account's row decides.
CheckRow(g) ==
    /\ guard[g].pc = "row"
    /\ GuardAt(g, IF user[guard[g].user] = "active" THEN [guard[g] EXCEPT !.pc = "warm"]
                  ELSE Done)
    /\ UNCHANGED <<user, active, revoked, failures, shut, raced>>

\* setUserActive, whose failure is swallowed; the request is let in.
Warm(g) ==
    /\ guard[g].pc = "warm"
    /\ \/ /\ active' = [active EXCEPT ![guard[g].user] = @ \cup {guard[g].token}]
          /\ UNCHANGED failures
       \/ Failure /\ UNCHANGED active
    /\ GuardAt(g, Done)
    /\ UNCHANGED <<user, revoked, shut, raced>>

\* The set of the account expires, as a whole.
Expire(u) ==
    /\ active[u] # {}
    /\ active' = [active EXCEPT ![u] = {}]
    /\ UNCHANGED <<user, revoked, guard, failures, shut, raced>>

-----------------------------------------------------------------------------
(* revokeUser.                                                             *)

\* signout with a refresh token: the token's id leaves the set ...
SignOutDevice(g, u, t) ==
    /\ guard[g] = Done
    /\ user[u] = "active"
    /\ \/ /\ active' = [active EXCEPT ![u] = @ \ {t}]
          /\ GuardAt(g, [pc |-> "list", user |-> u, token |-> t])
          /\ UNCHANGED <<failures, shut, raced>>
       \/ /\ Failure
          /\ shut' = shut \cup {<<u, t>>}
          /\ raced' = raced \cup {<<u, t>>}
          /\ UNCHANGED <<active, guard>>
    /\ UNCHANGED <<user, revoked>>

\* Mutant of ListToken: the id is written to the list for the account.
ListNothing(g) ==
    /\ guard[g].pc = "list"
    /\ shut' = shut \cup {<<guard[g].user, guard[g].token>>}
    /\ GuardAt(g, Done)
    /\ UNCHANGED <<user, active, revoked, failures, raced>>

\* ... and is then listed, if Redis does not fail: signed out, as far as the client knows.
ListToken(g) ==
    /\ guard[g].pc = "list"
    /\ LET pair == <<guard[g].user, guard[g].token>> IN
       /\ shut' = shut \cup {pair}
       /\ \/ /\ revoked' = revoked \cup {pair}
             /\ raced' = IF pair \in Before({"row", "warm"}) \/ Cached(pair[1], pair[2])
                         THEN raced \cup {pair} ELSE raced
             /\ UNCHANGED failures
          \/ /\ Failure
             /\ raced' = raced \cup {pair}
             /\ UNCHANGED revoked
    /\ GuardAt(g, Done)
    /\ UNCHANGED <<user, active>>

\* signout without one: the set is deleted, and nothing is listed.  The row stays active,
\* so the account's unexpired tokens are let in again: no token counts as shut.
SignOutEverywhere(u) ==
    /\ user[u] = "active"
    /\ active[u] # {}
    /\ active' = [active EXCEPT ![u] = {}]
    /\ UNCHANGED <<user, revoked, guard, failures, shut, raced>>

\* revokeUser of an account that was deleted: the set is deleted, if Redis does not fail.
DropCache(u) ==
    /\ shut' = shut \cup ({u} \X Tokens)
    /\ \/ /\ active' = [active EXCEPT ![u] = {}]
          /\ raced' = raced \cup {pair \in Before({"warm"}) : pair[1] = u}
          /\ UNCHANGED failures
       \/ /\ Failure
          /\ raced' = raced \cup ({u} \X Tokens)
          /\ UNCHANGED active
    /\ UNCHANGED <<revoked, guard>>

Validation(g) ==
    \/ \E u \in Accounts, t \in Tokens : Validate(g, u, t)
    \/ CheckList(g) \/ CheckRow(g) \/ Warm(g)

SignOut(g) ==
    \/ \E u \in Accounts, t \in Tokens : SignOutDevice(g, u, t)
    \/ ListToken(g)
    \/ \E u \in Accounts : SignOutEverywhere(u)

AccessNext ==
    \/ \E g \in Guards : Validation(g) \/ SignOut(g)
    \/ \E u \in Accounts : Expire(u)

-----------------------------------------------------------------------------
\* Types of the variables.
AccessTypeOK ==
    /\ user \in [Accounts -> {"none", "active", "disabled", "gone"}]
    /\ active \in [Accounts -> SUBSET Tokens]
    /\ revoked \subseteq Pairs
    /\ guard \in [Guards -> {Done} \cup [pc : {"listed", "row", "warm", "list"},
                                         user : Accounts, token : Tokens]]
    /\ failures \in Nat
    /\ shut \subseteq Pairs /\ raced \subseteq Pairs

\* A token that was signed out by name, with the refresh token of its device, or whose
\* account was deleted, is not let in again, from the cache or past the list and the row,
\* unless a validation of it was under way as it was revoked, or Redis failed
\* (AuthService.signout, revokeUser, setUserActive).  Of the tokens of a sign-out
\* without a refresh token it says nothing: those are let in again by the row.
ShutStaysOut ==
    \A pair \in shut \ raced :
        /\ ~Cached(pair[1], pair[2])
        /\ pair \in revoked \/ user[pair[1]] # "active"
        /\ pair \notin Before({"warm"})
=============================================================================
