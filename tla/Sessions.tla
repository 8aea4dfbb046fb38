------------------------------ MODULE Sessions ------------------------------
(***************************************************************************)
(* Refresh-token rotation and the ending of sessions: UserSession rows     *)
(* form a lineage per sign-in (familyId); a refresh replaces the live row, *)
(* and a request that comes second is answered from the grace cache or     *)
(* taken for reuse, which ends the family.                                 *)
(*                                                                         *)
(* Rows, refresh tokens and the pairs of tokens answered to a client are   *)
(* all named by the row's number.  A request runs on one of several        *)
(* instances, each with a cache of its own beside the one in Redis.        *)
(***************************************************************************)
EXTENDS Naturals, FiniteSets

CONSTANTS
    Families,
    Instances,
    Reqs,         \* requests in progress at once
    MaxTokens,    \* bound: rows
    MaxEndings,   \* bound: sign-outs and revocations
    MaxFaults     \* bound: instances that stop, calls to Redis that fail

ASSUME SessionsAssumption == {MaxTokens, MaxEndings, MaxFaults} \subseteq Nat

VARIABLES
    session,  \* the rows: family, whether revokedAt is null, the row they replace
    age,      \* since revokedAt: 0 up to 1.5 s, 1 up to 10 s (the grace window), 2 after
    memory,   \* inMemoryGraceCache per instance: pairs of consumed and issued token
    shared,   \* the same in Redis
    req,      \* the requests in progress
    held,     \* pairs of a token a client has received and the one it was given for
    endings, faults,
    excused,  \* history: families that someone ended, kept waiting or lost an answer of
    ended,    \* history: families a revocation has been completed for
    late      \* history: rows born, or descended from one born, under such a revocation

history == <<excused, ended, late>>
caches  == <<memory, shared>>
vars    == <<session, age, caches, req, held, endings, faults, history>>

Tokens == 1 .. MaxTokens
Idle   == [pc |-> "idle"]
NoRow  == [family |-> "none"]

Row(t)     == session[t] # NoRow
Live(t)    == Row(t) /\ session[t].live
Family(t)  == session[t].family
Started    == {Family(t) : t \in {u \in Tokens : Row(u)}}
Held(t)    == \E pair \in held : pair[2] = t
Cached(i)  == memory[i] \cup shared

\* The request that has rotated t and is still to cache its answer.
WinnerAtWork(t) == \E r \in Reqs : req[r].pc \in {"memory", "redis"} /\ req[r].token = t

Fault == faults < MaxFaults /\ faults' = faults + 1

Init ==
    /\ session = [t \in Tokens |-> NoRow]
    /\ age = [t \in Tokens |-> 0]
    /\ memory = [i \in Instances |-> {}]
    /\ shared = {}
    /\ req = [r \in Reqs |-> Idle]
    /\ held = {}
    /\ endings = 0
    /\ faults = 0
    /\ excused = {}
    /\ ended = {}
    /\ late = {}

Becomes(r, state) == req' = [req EXCEPT ![r] = state]
Ends(r)           == Becomes(r, Idle)

\* The next row number.
Fresh == Cardinality({t \in Tokens : Row(t)}) + 1

-----------------------------------------------------------------------------
(* Signing in and refreshing.                                              *)

\* generateAuthResponse for a new lineage.
SignIn(f) ==
    /\ f \notin Started
    /\ Fresh \in Tokens
    /\ session' = [session EXCEPT ![Fresh] = [family |-> f, live |-> TRUE, parent |-> 0]]
    /\ held' = held \cup {<<0, Fresh>>}
    /\ UNCHANGED <<age, caches, req, endings, faults, history>>

\* refreshToken reads the row of the token it is given: a live one is to be rotated,
\* a revoked one is looked up in the cache if it is in the grace window and is a case
\* of reuse otherwise.  (A live row that has expired is refused: nothing changes.)
Present(r, i, t) ==
    /\ req[r] = Idle
    /\ Held(t)
    /\ \/ /\ Live(t)
          /\ Becomes(r, [pc |-> "rotate", inst |-> i, token |-> t])
          /\ UNCHANGED excused
       \/ /\ ~Live(t) /\ age[t] < 2
          /\ Becomes(r, [pc |-> "poll", inst |-> i, token |-> t])
          /\ UNCHANGED excused
       \/ /\ ~Live(t) /\ age[t] = 2
          /\ Becomes(r, [pc |-> "revoke", inst |-> i, families |-> {Family(t)}])
          /\ excused' = excused \cup {Family(t)}
    /\ UNCHANGED <<session, age, caches, held, endings, faults, ended, late>>

\* Mutant of ExecuteAtomicRotation: the update is keyed by the row's id alone.
RotateUnconditionally(r) ==
    /\ req[r].pc = "rotate"
    /\ Fresh \in Tokens
    /\ session' = [session EXCEPT
                     ![req[r].token].live = FALSE,
                     ![Fresh] = [family |-> Family(req[r].token), live |-> TRUE,
                                 parent |-> req[r].token]]
    /\ Becomes(r, [pc |-> "memory", inst |-> req[r].inst, token |-> req[r].token, new |-> Fresh])
    /\ UNCHANGED <<age, caches, held, endings, faults, history>>

\* executeAtomicRotation: compare-and-swap on revokedAt and the new row, in one
\* transaction; who finds the row revoked has lost the race and waits for the winner.
ExecuteAtomicRotation(r) ==
    /\ req[r].pc = "rotate"
    /\ LET t == req[r].token
           f == Family(t)
           overlaps == \E q \in Reqs : req[q].pc = "apply" /\ f \in req[q].families
       IN \/ /\ Live(t)
             /\ Fresh \in Tokens
             /\ session' = [session EXCEPT
                              ![t].live = FALSE,
                              ![Fresh] = [family |-> f, live |-> TRUE, parent |-> t]]
             /\ late' = IF overlaps \/ t \in late THEN late \cup {Fresh} ELSE late
             /\ Becomes(r, [pc |-> "memory", inst |-> req[r].inst, token |-> t, new |-> Fresh])
          \/ /\ ~Live(t)
             /\ Becomes(r, [pc |-> "poll", inst |-> req[r].inst, token |-> t])
             /\ UNCHANGED <<session, late>>
    /\ UNCHANGED <<age, caches, held, endings, faults, excused, ended>>

\* Mutant of CacheInMemory: the answer is kept under the token it issues.
CacheUnderNewToken(r) ==
    /\ req[r].pc = "memory"
    /\ memory' = [memory EXCEPT ![req[r].inst] = @ \cup {<<req[r].new, req[r].new>>}]
    /\ shared' = shared \cup {<<req[r].new, req[r].new>>}
    /\ held' = held \cup {<<req[r].token, req[r].new>>}
    /\ Ends(r)
    /\ UNCHANGED <<session, age, endings, faults, history>>

\* cacheRotatedResponse: first the instance's own cache, under the consumed token.
CacheInMemory(r) ==
    /\ req[r].pc = "memory"
    /\ memory' = [memory EXCEPT ![req[r].inst] = @ \cup {<<req[r].token, req[r].new>>}]
    /\ Becomes(r, [req[r] EXCEPT !.pc = "redis"])
    /\ UNCHANGED <<session, age, shared, held, endings, faults, history>>

\* Then Redis, whose failure is swallowed; then the client has its answer.
CacheInRedis(r) ==
    /\ req[r].pc = "redis"
    /\ LET pair == <<req[r].token, req[r].new>> IN
       /\ \/ shared' = shared \cup {pair} /\ UNCHANGED <<faults, excused>>
          \/ Fault /\ UNCHANGED shared /\ excused' = excused \cup {Family(req[r].token)}
       /\ held' = held \cup {pair}
    /\ Ends(r)
    /\ UNCHANGED <<session, age, memory, endings, ended, late>>

\* getCachedRotatedResponse finds the winner's answer, in memory or in Redis.  An
\* entry lives for 15 s and is only looked for in the first 10.
PollFinds(r) ==
    /\ req[r].pc = "poll"
    /\ \E pair \in Cached(req[r].inst) :
          /\ pair[1] = req[r].token
          /\ held' = held \cup {pair}
    /\ Ends(r)
    /\ UNCHANGED <<session, age, caches, endings, faults, history>>

\* It finds nothing, what was there has expired, or Redis fails, in the last of the
\* attempts: taken for reuse.
PollGivesUp(r) ==
    /\ req[r].pc = "poll"
    /\ LET t == req[r].token
           f == Family(t)
       IN /\ \/ /\ \A pair \in Cached(req[r].inst) : pair[1] # t
                /\ excused' = IF WinnerAtWork(t) THEN excused \cup {f} ELSE excused
                /\ UNCHANGED faults
             \/ /\ \A pair \in memory[req[r].inst] : pair[1] # t
                /\ Fault
                /\ excused' = excused \cup {f}
             \/ /\ age[t] = 2
                /\ excused' = excused \cup {f}
                /\ UNCHANGED faults
          /\ Becomes(r, [pc |-> "revoke", inst |-> req[r].inst, families |-> {f}])
    /\ UNCHANGED <<session, age, caches, held, endings, ended, late>>

-----------------------------------------------------------------------------
(* Ending sessions.                                                        *)

Ending == endings < MaxEndings /\ endings' = endings + 1

\* AuthTokenService.revokeSession with a token: its entry in the instance's cache goes.
SignOut(r, i, t) ==
    /\ req[r] = Idle
    /\ Held(t)
    /\ Ending
    /\ memory' = [memory EXCEPT ![i] = {pair \in @ : pair[1] # t}]
    /\ Becomes(r, [pc |-> "forget", inst |-> i, token |-> t])
    /\ excused' = excused \cup {Family(t)}
    /\ UNCHANGED <<session, age, shared, held, faults, ended, late>>

\* Then the entry in Redis, if the call succeeds; the family's rows are next.
Forget(r) ==
    /\ req[r].pc = "forget"
    /\ \/ shared' = {pair \in shared : pair[1] # req[r].token} /\ UNCHANGED faults
       \/ Fault /\ UNCHANGED shared
    /\ Becomes(r, [pc |-> "revoke", inst |-> req[r].inst, families |-> {Family(req[r].token)}])
    /\ UNCHANGED <<session, age, memory, held, endings, history>>

\* A sign-out without a token ends all families, revokeAllOtherSessions all but the
\* caller's, SessionsService.revokeSession one that has a live row.
EndFamilies(r, i, families) ==
    /\ req[r] = Idle
    /\ \/ families = Started
       \/ \E f \in Started : families = Started \ {f}
       \/ \E t \in Tokens : Live(t) /\ families = {Family(t)}
    /\ Ending
    /\ Becomes(r, [pc |-> "revoke", inst |-> i, families |-> families])
    /\ excused' = excused \cup families
    /\ UNCHANGED <<session, age, caches, held, faults, ended, late>>

\* The updateMany of terminateSessionFamily and of the three ways to end a session
\* works on the rows that are live, and visible, when the statement starts ...
StartRevoking(r) ==
    /\ req[r].pc = "revoke"
    /\ Becomes(r, [pc |-> "apply", inst |-> req[r].inst, families |-> req[r].families,
                   rows |-> {t \in Tokens : Live(t) /\ Family(t) \in req[r].families}])
    /\ UNCHANGED <<session, age, caches, held, endings, faults, history>>

\* Mutant of ApplyRevocation: update in the place of updateMany.
RevokeOneRow(r) ==
    /\ req[r].pc = "apply"
    /\ \E t \in req[r].rows : session' = [session EXCEPT ![t].live = FALSE]
    /\ ended' = ended \cup req[r].families
    /\ Ends(r)
    /\ UNCHANGED <<age, caches, held, endings, faults, excused, late>>

\* ... and revokes those of them that are still live when it gets to them.
ApplyRevocation(r) ==
    /\ req[r].pc = "apply"
    /\ session' = [t \in Tokens |-> IF t \in req[r].rows THEN [session[t] EXCEPT !.live = FALSE]
                                    ELSE session[t]]
    /\ ended' = ended \cup req[r].families
    /\ Ends(r)
    /\ UNCHANGED <<age, caches, held, endings, faults, excused, late>>

-----------------------------------------------------------------------------
(* Time and failures.                                                      *)

Age(t) ==
    /\ Row(t) /\ ~Live(t)
    /\ age[t] < 2
    /\ age' = [age EXCEPT ![t] = @ + 1]
    /\ excused' = IF WinnerAtWork(t) THEN excused \cup {Family(t)} ELSE excused
    /\ UNCHANGED <<session, caches, req, held, endings, faults, ended, late>>

\* An instance stops, with its cache and the requests it was working on.
Stop(i) ==
    /\ Fault
    /\ memory' = [memory EXCEPT ![i] = {}]
    /\ req' = [r \in Reqs |-> IF req[r] # Idle /\ req[r].inst = i THEN Idle ELSE req[r]]
    /\ excused' = excused \cup {Family(req[r].token) :
                                r \in {q \in Reqs : req[q].pc \in {"memory", "redis"}
                                                    /\ req[q].inst = i}}
    /\ UNCHANGED <<session, age, shared, held, endings, ended, late>>

-----------------------------------------------------------------------------
Refresh(r) ==
    \/ \E i \in Instances, t \in Tokens : Present(r, i, t)
    \/ ExecuteAtomicRotation(r) \/ CacheInMemory(r) \/ CacheInRedis(r)
    \/ PollFinds(r) \/ PollGivesUp(r)

End(r) ==
    \/ \E i \in Instances, t \in Tokens : SignOut(r, i, t)
    \/ \E i \in Instances, families \in SUBSET Families : EndFamilies(r, i, families)
    \/ Forget(r) \/ StartRevoking(r) \/ ApplyRevocation(r)

Next ==
    \/ \E f \in Families : SignIn(f)
    \/ \E r \in Reqs : Refresh(r) \/ End(r)
    \/ \E t \in Tokens : Age(t)
    \/ \E i \in Instances : Stop(i)

Spec == Init /\ [][Next]_vars

-----------------------------------------------------------------------------
Rows  == [family : Families, live : BOOLEAN, parent : Tokens \cup {0}]
Pairs == (Tokens \cup {0}) \X Tokens

\* Types of every variable.
TypeOK ==
    /\ session \in [Tokens -> Rows \cup {NoRow}]
    /\ age \in [Tokens -> 0 .. 2]
    /\ memory \in [Instances -> SUBSET Pairs]
    /\ shared \subseteq Pairs
    /\ req \in [Reqs -> {Idle}
                        \cup [pc : {"rotate", "poll", "forget"}, inst : Instances, token : Tokens]
                        \cup [pc : {"memory", "redis"}, inst : Instances, token : Tokens, new : Tokens]
                        \cup [pc : {"revoke"}, inst : Instances, families : SUBSET Families]
                        \cup [pc : {"apply"}, inst : Instances, families : SUBSET Families,
                              rows : SUBSET Tokens]]
    /\ held \subseteq Pairs
    /\ endings \in Nat /\ faults \in Nat
    /\ excused \subseteq Families /\ ended \subseteq Families /\ late \subseteq Tokens

\* docs/modules/auth.md:73: however many requests present one token, on whatever
\* instances, no branches are formed: a family has one live row at most, a row has
\* one successor, and all who are answered for a token get that successor.
NoBranches ==
    /\ \A t, u \in Tokens : Live(t) /\ Live(u) /\ Family(t) = Family(u) => t = u
    /\ \A t, u \in Tokens :
          Row(t) /\ Row(u) /\ session[t].parent = session[u].parent /\ session[t].parent # 0 => t = u
    /\ \A pair \in held : session[pair[2]].parent = pair[1]

\* A client that refreshes from several tabs and repeats requests whose answer it
\* lost stays signed in: a family has a live row unless someone ended it, one of its
\* tokens was presented or still waited for after the grace window, the winner of a race was too slow for
\* the requests that waited, or an instance or Redis failed (handleRevokedSession,
\* resolveConcurrentCollision).
HonestFamilySurvives ==
    \A f \in Started \ excused : \E t \in Tokens : Live(t) /\ Family(t) = f

\* A sign-out, a revocation or the containment of reuse ends a family: what is
\* live of it afterwards descends from a rotation that committed while the
\* revocation's update was at work, and from nothing else (terminateSessionFamily,
\* revokeSession, revokeAllOtherSessions).
OnlyOverlapsSurvive ==
    \A t \in Tokens : Live(t) /\ Family(t) \in ended => t \in late

=============================================================================
