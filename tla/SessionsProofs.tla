--------------------------- MODULE SessionsProofs ---------------------------
(***************************************************************************)
(* What Sessions promises for every number of families, instances and      *)
(* requests.  Base is the inductive part all theorems rest on: types, rows *)
(* numbered without gaps, requests and cached answers that name rows.      *)
(* Lineage, Ends and Survival strengthen the three properties of the       *)
(* model; each is preserved by a step that starts in Base.                 *)
(***************************************************************************)
EXTENDS Sessions, FiniteSetTheorems, TLAPS

\* The rows are numbered from 1 on.
RowsInOrder == \E n \in 0 .. MaxTokens : \A t \in Tokens : Row(t) <=> t <= n

\* A pair answers the token it names first with the row that replaced it.
BornOf(pair) == Row(pair[2]) /\ session[pair[2]].parent = pair[1]

\* What a request's state says of the rows.
Known(state) ==
    /\ state.pc \in {"rotate", "poll", "forget", "memory", "redis"} => Row(state.token)
    /\ state.pc \in {"memory", "redis"} => BornOf(<<state.token, state.new>>)
    /\ state.pc = "apply" => \A t \in state.rows : Row(t)

Knows(r) == Known(req[r])

\* Whatever is answered to a client was born of the token it is answered for.
PairsBorn ==
    /\ \A pair \in held : BornOf(pair)
    /\ \A pair \in shared : BornOf(pair)
    /\ \A i \in Instances : \A pair \in memory[i] : BornOf(pair)

Base ==
    /\ TypeOK
    /\ RowsInOrder
    /\ \A r \in Reqs : Knows(r)
    /\ PairsBorn

\* What becomes of the rows that exist, whatever the step.
RowsStay ==
    \A t \in Tokens : Row(t) =>
        /\ Row(t)'
        /\ session'[t].family = session[t].family
        /\ session'[t].parent = session[t].parent
        /\ Live(t)' => Live(t)

-----------------------------------------------------------------------------
(* Types of the parts.                                                     *)

\* The record of an absent row is no row.
LEMMA NoRowIsNone ==
    ASSUME NEW row \in Rows
    PROVE  row # NoRow
<1>1. DOMAIN row = {"family", "live", "parent"}
  BY DEF Rows
<1>2. DOMAIN NoRow = {"family"}
  BY DEF NoRow
<1> QED
  BY <1>1, <1>2

\* What a request's record holds at each point of its handler.
LEMMA ReqTypes ==
    ASSUME TypeOK, NEW r \in Reqs
    PROVE  /\ req[r].pc \in {"rotate", "poll", "forget", "memory", "redis"} =>
                  req[r].inst \in Instances /\ req[r].token \in Tokens
           /\ req[r].pc \in {"memory", "redis"} =>
                  /\ req[r].new \in Tokens
                  /\ [req[r] EXCEPT !.pc = "redis"] =
                       [pc |-> "redis", inst |-> req[r].inst,
                        token |-> req[r].token, new |-> req[r].new]
           /\ req[r].pc \in {"revoke", "apply"} =>
                  req[r].inst \in Instances /\ req[r].families \in SUBSET Families
           /\ req[r].pc = "apply" => req[r].rows \in SUBSET Tokens
           /\ req[r].pc \in {"idle", "rotate", "poll", "forget", "memory", "redis",
                             "revoke", "apply"}
BY DEF TypeOK, Idle

\* A row has the fields of a row.
LEMMA RowTypes ==
    ASSUME TypeOK, NEW t \in Tokens, Row(t)
    PROVE  session[t] \in Rows
BY DEF TypeOK, Row

\* The number the next row gets is one past the last.
LEMMA FreshIsNext ==
    ASSUME RowsInOrder, Fresh \in Tokens
    PROVE  /\ ~Row(Fresh)
           /\ \A t \in Tokens : Row(t) <=> t < Fresh
<1>1. PICK n \in 0 .. MaxTokens : \A t \in Tokens : Row(t) <=> t <= n
  BY DEF RowsInOrder
<1>2. {t \in Tokens : Row(t)} = 1 .. n
  BY <1>1, SessionsAssumption DEF Tokens
<1>3. Cardinality(1 .. n) = n
  BY FS_Interval, SessionsAssumption
<1>4. Fresh = n + 1
  BY <1>2, <1>3 DEF Fresh
<1> QED
  BY <1>1, <1>4, SessionsAssumption DEF Tokens

-----------------------------------------------------------------------------
(* The rows.                                                               *)

\* The three ways the table of sessions changes.
Adds(f) ==
    /\ Fresh \in Tokens
    /\ session' = [session EXCEPT ![Fresh] = [family |-> f, live |-> TRUE, parent |-> 0]]

Replaces(t) ==
    /\ Live(t)
    /\ Fresh \in Tokens
    /\ session' = [session EXCEPT
                     ![t].live = FALSE,
                     ![Fresh] = [family |-> Family(t), live |-> TRUE, parent |-> t]]

Kills(rows) ==
    session' = [t \in Tokens |-> IF t \in rows THEN [session[t] EXCEPT !.live = FALSE]
                                 ELSE session[t]]

\* A row that stays, revoked.
Revoked(t) ==
    /\ Row(t)' /\ ~Live(t)'
    /\ session'[t].family = session[t].family
    /\ session'[t].parent = session[t].parent

\* Changing one field of a record leaves the others.  (The set of its values is a
\* parameter because SMT does not take Boolean fields apart.)
LEMMA FieldReplaced ==
    ASSUME NEW F, NEW B, NEW P, NEW no \in B,
           NEW row \in [family : F, live : B, parent : P]
    PROVE  LET old == [row EXCEPT !.live = no] IN
           /\ old \in [family : F, live : B, parent : P]
           /\ old.family = row.family /\ old.parent = row.parent /\ old.live = no
OBVIOUS

\* A row with revokedAt set is a row with the same family and parent.
LEMMA RevokedRow ==
    ASSUME NEW row \in Rows
    PROVE  LET old == [row EXCEPT !.live = FALSE] IN
           /\ old \in Rows /\ old # NoRow
           /\ old.family = row.family /\ old.parent = row.parent /\ old.live = FALSE
<1> DEFINE B  == BOOLEAN
           no == FALSE
           old == [row EXCEPT !.live = no]
<1>1. no \in B /\ row \in [family : Families, live : B, parent : Tokens \cup {0}]
  BY DEF Rows
<1> HIDE DEF no, B
<1>2. /\ old \in [family : Families, live : B, parent : Tokens \cup {0}]
      /\ old.family = row.family /\ old.parent = row.parent /\ old.live = no
  BY <1>1, FieldReplaced
<1> HIDE DEF old
<1>3. old \in Rows
  BY <1>2 DEF B, Rows
<1>4. old # NoRow
  BY <1>3, NoRowIsNone
<1> QED
  BY <1>2, <1>3, <1>4 DEF no, old

\* A new lineage is typed, leaves the rows as they are and has one more.
LEMMA AddsKeeps ==
    ASSUME TypeOK, RowsInOrder, NEW f \in Families, Adds(f)
    PROVE  /\ session' \in [Tokens -> Rows \cup {NoRow}]
           /\ RowsInOrder'
           /\ \A t \in Tokens \ {Fresh} : session'[t] = session[t]
           /\ session'[Fresh] = [family |-> f, live |-> TRUE, parent |-> 0]
           /\ ~Row(Fresh)
<1>1. ~Row(Fresh) /\ \A t \in Tokens : Row(t) <=> t < Fresh
  BY FreshIsNext DEF Adds
<1> DEFINE new == [family |-> f, live |-> TRUE, parent |-> 0]
<1>2. new \in Rows /\ new # NoRow
  <2>1. new \in Rows
    BY DEF Rows
  <2> QED  BY <2>1, NoRowIsNone
<1>3. /\ session' \in [Tokens -> Rows \cup {NoRow}]
      /\ \A t \in Tokens \ {Fresh} : session'[t] = session[t]
      /\ session'[Fresh] = new
  BY <1>2 DEF TypeOK, Adds
<1>4. \A t \in Tokens : Row(t)' <=> t <= Fresh
  BY <1>1, <1>2, <1>3, SessionsAssumption DEF Row, Tokens, Adds
<1>5. Fresh \in 0 .. MaxTokens
  BY SessionsAssumption DEF Adds, Tokens
<1>6. RowsInOrder'
  <2> DEFINE n == Fresh
  <2>1. \A t \in Tokens : Row(t)' <=> t <= n
    BY <1>4
  <2> HIDE DEF n
  <2> QED  BY <2>1, <1>5 DEF RowsInOrder, n
<1> QED
  BY <1>1, <1>3, <1>6

\* A rotation is typed, revokes the row it replaces and leaves the others.
LEMMA ReplacesKeeps ==
    ASSUME TypeOK, RowsInOrder, NEW t \in Tokens, Replaces(t)
    PROVE  /\ session' \in [Tokens -> Rows \cup {NoRow}]
           /\ RowsInOrder'
           /\ \A u \in Tokens \ {t, Fresh} : session'[u] = session[u]
           /\ Revoked(t)
           /\ session'[Fresh] = [family |-> Family(t), live |-> TRUE, parent |-> t]
           /\ ~Row(Fresh) /\ Fresh # t
<1>1. ~Row(Fresh) /\ \A u \in Tokens : Row(u) <=> u < Fresh
  BY FreshIsNext DEF Replaces
<1>2. Row(t) /\ Fresh # t
  BY <1>1 DEF Replaces, Live
<1>3. session[t] \in Rows
  BY <1>2, RowTypes
<1> DEFINE new  == [family |-> Family(t), live |-> TRUE, parent |-> t]
           old  == [session[t] EXCEPT !.live = FALSE]
<1>4. new \in Rows /\ new # NoRow
  <2>1. new \in Rows
    BY <1>3 DEF Rows, Family
  <2> QED  BY <2>1, NoRowIsNone
<1>5. /\ old \in Rows /\ old # NoRow
      /\ old.family = session[t].family /\ old.parent = session[t].parent /\ old.live = FALSE
  BY <1>3, RevokedRow
<1>6. /\ session' \in [Tokens -> Rows \cup {NoRow}]
      /\ \A u \in Tokens \ {t, Fresh} : session'[u] = session[u]
      /\ session'[t] = old
      /\ session'[Fresh] = new
  BY <1>2, <1>4, <1>5 DEF TypeOK, Replaces
<1>7. \A u \in Tokens : Row(u)' <=> u <= Fresh
  <2> TAKE u \in Tokens
  <2>1. CASE u = Fresh
    BY <2>1, <1>6, <1>4, SessionsAssumption DEF Row, Tokens
  <2>2. CASE u = t
    <3>1. Row(u)'
      BY <2>2, <1>6, <1>5 DEF Row
    <3>2. u <= Fresh
      BY <2>2, <1>2, <1>1, SessionsAssumption DEF Tokens, Replaces
    <3> QED  BY <3>1, <3>2
  <2>3. CASE u \notin {t, Fresh}
    BY <2>3, <1>6, <1>1, SessionsAssumption DEF Row, Tokens, Replaces
  <2> QED  BY <2>1, <2>2, <2>3
<1>8. Fresh \in 0 .. MaxTokens
  BY SessionsAssumption DEF Replaces, Tokens
<1>9. RowsInOrder'
  <2> DEFINE n == Fresh
  <2>1. \A u \in Tokens : Row(u)' <=> u <= n
    BY <1>7
  <2> HIDE DEF n
  <2> QED  BY <2>1, <1>8 DEF RowsInOrder, n
<1>10. Revoked(t)
  <2> HIDE DEF old
  <2> QED  BY <1>5, <1>6 DEF Revoked, Row, Live
<1> QED
  BY <1>1, <1>2, <1>6, <1>9, <1>10

\* A revocation is typed and changes nothing but whether its rows are live.
LEMMA KillsKeeps ==
    ASSUME TypeOK, RowsInOrder, NEW rows \in SUBSET Tokens, \A t \in rows : Row(t), Kills(rows)
    PROVE  /\ session' \in [Tokens -> Rows \cup {NoRow}]
           /\ RowsInOrder'
           /\ \A t \in Tokens \ rows : session'[t] = session[t]
           /\ \A t \in rows : Revoked(t)
<1>1. ASSUME NEW t \in rows
      PROVE  session'[t] \in Rows /\ Revoked(t)
  <2> DEFINE old == [session[t] EXCEPT !.live = FALSE]
  <2>1. session'[t] = old
    BY DEF Kills
  <2>2. /\ old \in Rows /\ old # NoRow
        /\ old.family = session[t].family /\ old.parent = session[t].parent /\ old.live = FALSE
    BY RowTypes, RevokedRow
  <2> HIDE DEF old
  <2> QED  BY <2>1, <2>2 DEF Revoked, Row, Live
<1>2. \A t \in Tokens \ rows : session'[t] = session[t]
  BY DEF Kills
<1>3. session' \in [Tokens -> Rows \cup {NoRow}]
  <2>1. session' = [t \in Tokens |-> session'[t]]
    BY DEF Kills
  <2>2. \A t \in Tokens : session'[t] \in Rows \cup {NoRow}
    BY <1>1, <1>2 DEF TypeOK
  <2> QED  BY <2>1, <2>2
<1>4. \A t \in Tokens : Row(t)' <=> Row(t)
  BY <1>1, <1>2 DEF Row, Revoked
<1>5. RowsInOrder'
  <2>1. PICK n \in 0 .. MaxTokens : \A t \in Tokens : Row(t) <=> t <= n
    BY DEF RowsInOrder
  <2>2. \A t \in Tokens : Row(t)' <=> t <= n
    BY <2>1, <1>4
  <2> QED  BY <2>2 DEF RowsInOrder
<1> QED
  BY <1>1, <1>2, <1>3, <1>5

-----------------------------------------------------------------------------
(* Base is inductive.                                                      *)

\* A new row is a live one of its family.
LEMMA NewRow ==
    ASSUME NEW f, NEW p, NEW t \in Tokens,
           session'[t] = [family |-> f, live |-> TRUE, parent |-> p],
           f \in Families, p \in Tokens \cup {0}
    PROVE  Row(t)' /\ Live(t)' /\ session'[t].family = f /\ session'[t].parent = p
<1>1. session'[t] \in Rows
  BY DEF Rows
<1>2. session'[t] # NoRow
  BY <1>1, NoRowIsNone
<1>3. session'[t].live
  OBVIOUS
<1> QED
  BY <1>2, <1>3 DEF Row, Live

\* No step takes a row away, gives it another family or parent, or brings it back.
LEMMA SessionSteps ==
    ASSUME TypeOK, RowsInOrder, \A r \in Reqs : Knows(r), [Next]_vars
    PROVE  session' \in [Tokens -> Rows \cup {NoRow}] /\ RowsInOrder' /\ RowsStay
<1>1. ASSUME session' = session
      PROVE  session' \in [Tokens -> Rows \cup {NoRow}] /\ RowsInOrder' /\ RowsStay
  <2>1. session' \in [Tokens -> Rows \cup {NoRow}]
    BY <1>1 DEF TypeOK
  <2>2. RowsInOrder'
    BY <1>1 DEF RowsInOrder, Row
  <2>3. RowsStay
    BY <1>1 DEF RowsStay, Row, Live
  <2> QED  BY <2>1, <2>2, <2>3
<1>2. ASSUME NEW f \in Families, SignIn(f)
      PROVE  session' \in [Tokens -> Rows \cup {NoRow}] /\ RowsInOrder' /\ RowsStay
  <2>1. Adds(f)
    BY <1>2 DEF SignIn, Adds
  <2>2. RowsStay
    BY <2>1, AddsKeeps DEF RowsStay, Row, Live
  <2> QED  BY <2>1, <2>2, AddsKeeps
<1>3. ASSUME NEW r \in Reqs, ExecuteAtomicRotation(r)
      PROVE  session' \in [Tokens -> Rows \cup {NoRow}] /\ RowsInOrder' /\ RowsStay
  <2>0. PICK t \in Tokens : t = req[r].token
    BY <1>3, ReqTypes DEF ExecuteAtomicRotation
  <2>1. Replaces(t) \/ session' = session
    BY <1>3, <2>0 DEF ExecuteAtomicRotation, Replaces
  <2>2. CASE Replaces(t)
    <3>1. /\ \A u \in Tokens \ {t, Fresh} : session'[u] = session[u]
          /\ Revoked(t) /\ ~Row(Fresh)
      BY <2>2, ReplacesKeeps
    <3>2. RowsStay
      BY <3>1 DEF RowsStay, Row, Live, Revoked
    <3> QED  BY <2>2, <3>2, ReplacesKeeps
  <2> QED  BY <1>1, <2>1, <2>2
<1>4. ASSUME NEW r \in Reqs, ApplyRevocation(r)
      PROVE  session' \in [Tokens -> Rows \cup {NoRow}] /\ RowsInOrder' /\ RowsStay
  <2>0. PICK rows \in SUBSET Tokens : rows = req[r].rows
    BY <1>4, ReqTypes DEF ApplyRevocation
  <2>1. (\A t \in rows : Row(t)) /\ Kills(rows)
    BY <1>4, <2>0 DEF ApplyRevocation, Knows, Known, Kills
  <2>2. RowsStay
    BY <2>1, KillsKeeps DEF RowsStay, Row, Live, Revoked
  <2> QED  BY <2>1, <2>2, KillsKeeps
<1>5. CASE UNCHANGED vars
  BY <1>1, <1>5 DEF vars
<1>6. CASE Next
  <2>1. CASE \E f \in Families : SignIn(f)
    BY <2>1, <1>2
  <2>2. CASE \E r \in Reqs : Refresh(r)
    <3>1. PICK r \in Reqs : Refresh(r)
      BY <2>2
    <3>2. CASE ExecuteAtomicRotation(r)
      BY <3>2, <1>3
    <3>3. CASE ~ExecuteAtomicRotation(r)
      BY <3>1, <3>3, <1>1 DEF Refresh, Present, CacheInMemory, CacheInRedis, PollFinds, PollGivesUp
    <3> QED  BY <3>2, <3>3
  <2>3. CASE \E r \in Reqs : End(r)
    <3>1. PICK r \in Reqs : End(r)
      BY <2>3
    <3>2. CASE ApplyRevocation(r)
      BY <3>2, <1>4
    <3>3. CASE ~ApplyRevocation(r)
      BY <3>1, <3>3, <1>1 DEF End, SignOut, EndFamilies, Forget, StartRevoking
    <3> QED  BY <3>2, <3>3
  <2>4. CASE (\E t \in Tokens : Age(t)) \/ (\E i \in Instances : Stop(i))
    BY <2>4, <1>1 DEF Age, Stop
  <2> QED  BY <1>6, <2>1, <2>2, <2>3, <2>4 DEF Next
<1> QED
  BY <1>5, <1>6

\* The states of a request, as TypeOK lists them.
ReqStates ==
    {Idle}
    \cup [pc : {"rotate", "poll", "forget"}, inst : Instances, token : Tokens]
    \cup [pc : {"memory", "redis"}, inst : Instances, token : Tokens, new : Tokens]
    \cup [pc : {"revoke"}, inst : Instances, families : SUBSET Families]
    \cup [pc : {"apply"}, inst : Instances, families : SUBSET Families, rows : SUBSET Tokens]

\* TypeOK but for the rows.
RestTyped ==
    /\ age \in [Tokens -> 0 .. 2]
    /\ memory \in [Instances -> SUBSET Pairs]
    /\ shared \subseteq Pairs
    /\ req \in [Reqs -> ReqStates]
    /\ held \subseteq Pairs
    /\ endings \in Nat /\ faults \in Nat
    /\ excused \subseteq Families /\ ended \subseteq Families /\ late \subseteq Tokens

\* The two ways of saying it agree.
LEMMA TypesSplit == TypeOK <=> session \in [Tokens -> Rows \cup {NoRow}] /\ RestTyped
BY DEF TypeOK, RestTyped, ReqStates

\* A token a client holds is that of a row.
LEMMA HeldIsRow ==
    ASSUME Base, NEW t \in Tokens, Held(t)
    PROVE  Row(t) /\ Family(t) \in Families
<1>1. Row(t)
  BY DEF Base, PairsBorn, Held, BornOf
<1>2. session[t] \in Rows
  BY <1>1, RowTypes DEF Base
<1> QED
  BY <1>1, <1>2 DEF Rows, Family

\* A request's token is that of a row.
LEMMA AskedIsRow ==
    ASSUME Base, NEW r \in Reqs,
           req[r].pc \in {"rotate", "poll", "forget", "memory", "redis"}
    PROVE  /\ req[r].token \in Tokens
           /\ Row(req[r].token)
           /\ Family(req[r].token) \in Families
           /\ req[r].inst \in Instances
<1>1. req[r].token \in Tokens /\ req[r].inst \in Instances
  BY ReqTypes DEF Base
<1>2. Row(req[r].token)
  BY DEF Base, Knows, Known
<1>3. session[req[r].token] \in Rows
  BY <1>1, <1>2, RowTypes DEF Base
<1> QED
  BY <1>1, <1>2, <1>3 DEF Rows, Family

\* The families there are, are families.
LEMMA StartedTyped ==
    ASSUME TypeOK
    PROVE  Started \in SUBSET Families
<1>1. \A t \in Tokens : Row(t) => session[t] \in Rows
  BY RowTypes
<1> QED
  BY <1>1 DEF Started, Rows, Family

\* Signing in and refreshing keep the types.
LEMMA RefreshTyped ==
    ASSUME Base, \/ \E f \in Families : SignIn(f)
                 \/ \E r \in Reqs : Refresh(r)
    PROVE  RestTyped'
<1>0. RestTyped
  BY TypesSplit DEF Base
<1>1. ASSUME NEW f \in Families, SignIn(f)
      PROVE  RestTyped'
  <2>1. <<0, Fresh>> \in Pairs
    BY <1>1 DEF SignIn, Pairs
  <2> QED  BY <1>0, <1>1, <2>1 DEF RestTyped, SignIn, caches, history
<1>2. ASSUME NEW r \in Reqs, NEW i \in Instances, NEW t \in Tokens, Present(r, i, t)
      PROVE  RestTyped'
  <2>1. Row(t) /\ Family(t) \in Families
    BY <1>2, HeldIsRow DEF Present
  <2>2. req' \in [Reqs -> ReqStates]
    <3>1. /\ [pc |-> "rotate", inst |-> i, token |-> t] \in ReqStates
          /\ [pc |-> "poll", inst |-> i, token |-> t] \in ReqStates
          /\ [pc |-> "revoke", inst |-> i, families |-> {Family(t)}] \in ReqStates
      BY <2>1 DEF ReqStates
    <3> QED  BY <1>0, <1>2, <3>1 DEF Present, Becomes, RestTyped
  <2>3. excused' \subseteq Families
    BY <1>0, <1>2, <2>1 DEF Present, RestTyped
  <2> QED  BY <1>0, <1>2, <2>2, <2>3 DEF RestTyped, Present, caches
<1>3. ASSUME NEW r \in Reqs, ExecuteAtomicRotation(r)
      PROVE  RestTyped'
  <2>1. req[r].token \in Tokens /\ req[r].inst \in Instances
    BY <1>3, AskedIsRow DEF ExecuteAtomicRotation
  <2>2. req' \in [Reqs -> ReqStates] /\ late' \subseteq Tokens
    <3>1. CASE Live(req[r].token) /\ Fresh \in Tokens
      <4>1. [pc |-> "memory", inst |-> req[r].inst, token |-> req[r].token, new |-> Fresh]
              \in ReqStates
        BY <2>1, <3>1 DEF ReqStates
      <4> QED  BY <1>0, <1>3, <3>1, <4>1 DEF ExecuteAtomicRotation, Becomes, RestTyped
    <3>2. CASE ~Live(req[r].token)
      <4>1. [pc |-> "poll", inst |-> req[r].inst, token |-> req[r].token] \in ReqStates
        BY <2>1 DEF ReqStates
      <4> QED  BY <1>0, <1>3, <3>2, <4>1 DEF ExecuteAtomicRotation, Becomes, RestTyped
    <3> QED  BY <1>3, <3>1, <3>2 DEF ExecuteAtomicRotation
  <2> QED  BY <1>0, <1>3, <2>2 DEF RestTyped, ExecuteAtomicRotation, caches
<1>4. ASSUME NEW r \in Reqs, CacheInMemory(r) \/ CacheInRedis(r)
      PROVE  RestTyped'
  <2>1. /\ req[r].token \in Tokens /\ req[r].inst \in Instances
        /\ Family(req[r].token) \in Families
    BY <1>4, AskedIsRow DEF CacheInMemory, CacheInRedis
  <2>2. /\ req[r].new \in Tokens
        /\ [req[r] EXCEPT !.pc = "redis"] =
              [pc |-> "redis", inst |-> req[r].inst, token |-> req[r].token, new |-> req[r].new]
    BY <1>4, ReqTypes DEF CacheInMemory, CacheInRedis, Base
  <2>3. [req[r] EXCEPT !.pc = "redis"] \in ReqStates /\ Idle \in ReqStates
    BY <2>1, <2>2 DEF ReqStates
  <2>4. <<req[r].token, req[r].new>> \in Pairs
    BY <2>1, <2>2 DEF Pairs
  <2>5. CASE CacheInMemory(r)
    BY <1>0, <2>3, <2>4, <2>5 DEF RestTyped, CacheInMemory, Becomes, history
  <2>6. CASE CacheInRedis(r)
    BY <1>0, <2>1, <2>3, <2>4, <2>6 DEF RestTyped, CacheInRedis, Becomes, Ends, Fault
  <2> QED  BY <1>4, <2>5, <2>6
<1>5. ASSUME NEW r \in Reqs, PollFinds(r) \/ PollGivesUp(r)
      PROVE  RestTyped'
  <2>1. /\ req[r].inst \in Instances
        /\ Family(req[r].token) \in Families
    BY <1>5, AskedIsRow DEF PollFinds, PollGivesUp
  <2>2. /\ Idle \in ReqStates
        /\ [pc |-> "revoke", inst |-> req[r].inst, families |-> {Family(req[r].token)}]
              \in ReqStates
    BY <2>1 DEF ReqStates
  <2>3. Cached(req[r].inst) \subseteq Pairs
    BY <1>0, <2>1 DEF Cached, RestTyped
  <2>4. CASE PollFinds(r)
    BY <1>0, <2>2, <2>3, <2>4 DEF RestTyped, PollFinds, Becomes, Ends, caches, history
  <2>5. CASE PollGivesUp(r)
    BY <1>0, <2>1, <2>2, <2>5 DEF RestTyped, PollGivesUp, Becomes, Fault, caches
  <2> QED  BY <1>5, <2>4, <2>5
<1> QED
  BY <1>1, <1>2, <1>3, <1>4, <1>5 DEF Refresh

\* Ending sessions, time and failures keep the types.
LEMMA EndTyped ==
    ASSUME Base, \/ \E r \in Reqs : End(r)
                 \/ \E t \in Tokens : Age(t)
                 \/ \E i \in Instances : Stop(i)
    PROVE  RestTyped'
<1>0. RestTyped
  BY TypesSplit DEF Base
<1>1. ASSUME NEW r \in Reqs, NEW i \in Instances, NEW t \in Tokens, SignOut(r, i, t)
      PROVE  RestTyped'
  <2>1. Family(t) \in Families
    BY <1>1, HeldIsRow DEF SignOut
  <2>2. [pc |-> "forget", inst |-> i, token |-> t] \in ReqStates
    BY DEF ReqStates
  <2>3. {pair \in memory[i] : pair[1] # t} \subseteq Pairs
    BY <1>0 DEF RestTyped
  <2> QED  BY <1>0, <1>1, <2>1, <2>2, <2>3 DEF RestTyped, SignOut, Becomes, Ending
<1>2. ASSUME NEW r \in Reqs, Forget(r)
      PROVE  RestTyped'
  <2>1. req[r].inst \in Instances /\ Family(req[r].token) \in Families
    BY <1>2, AskedIsRow DEF Forget
  <2>2. [pc |-> "revoke", inst |-> req[r].inst, families |-> {Family(req[r].token)}]
          \in ReqStates
    BY <2>1 DEF ReqStates
  <2> QED  BY <1>0, <1>2, <2>2 DEF RestTyped, Forget, Becomes, Fault, history
<1>3. ASSUME NEW r \in Reqs, NEW i \in Instances, NEW families \in SUBSET Families,
             EndFamilies(r, i, families)
      PROVE  RestTyped'
  <2>1. [pc |-> "revoke", inst |-> i, families |-> families] \in ReqStates
    BY DEF ReqStates
  <2> QED  BY <1>0, <1>3, <2>1 DEF RestTyped, EndFamilies, Becomes, Ending, caches
<1>4. ASSUME NEW r \in Reqs, StartRevoking(r)
      PROVE  RestTyped'
  <2> DEFINE rows == {t \in Tokens : Live(t) /\ Family(t) \in req[r].families}
  <2>1. req[r].inst \in Instances /\ req[r].families \in SUBSET Families
    BY <1>4, ReqTypes DEF StartRevoking, Base
  <2>2. [pc |-> "apply", inst |-> req[r].inst, families |-> req[r].families, rows |-> rows]
          \in ReqStates
    <3>1. rows \in SUBSET Tokens
      OBVIOUS
    <3> HIDE DEF rows
    <3> QED  BY <2>1, <3>1 DEF ReqStates
  <2> QED  BY <1>0, <1>4, <2>2 DEF RestTyped, StartRevoking, Becomes, caches, history
<1>5. ASSUME NEW r \in Reqs, ApplyRevocation(r)
      PROVE  RestTyped'
  <2>1. req[r].families \in SUBSET Families
    BY <1>5, ReqTypes DEF ApplyRevocation, Base
  <2>2. Idle \in ReqStates
    BY DEF ReqStates
  <2> QED  BY <1>0, <1>5, <2>1, <2>2 DEF RestTyped, ApplyRevocation, Becomes, Ends, caches
<1>6. ASSUME NEW t \in Tokens, Age(t)
      PROVE  RestTyped'
  <2>1. session[t] \in Rows
    BY <1>6, RowTypes DEF Age, Base
  <2>2. Family(t) \in Families
    BY <2>1 DEF Rows, Family
  <2>3. age[t] + 1 \in 0 .. 2
    BY <1>0, <1>6 DEF RestTyped, Age
  <2>4. age' \in [Tokens -> 0 .. 2]
    BY <1>0, <1>6, <2>3 DEF RestTyped, Age
  <2> QED  BY <1>0, <1>6, <2>2, <2>4 DEF RestTyped, Age, caches
<1>7. ASSUME NEW i \in Instances, Stop(i)
      PROVE  RestTyped'
  <2>1. \A r \in Reqs : req[r].pc \in {"memory", "redis"} => Family(req[r].token) \in Families
    BY AskedIsRow
  <2>2. excused' \subseteq Families
    BY <1>0, <1>7, <2>1 DEF Stop, RestTyped
  <2>3. req' \in [Reqs -> ReqStates]
    BY <1>0, <1>7 DEF Stop, RestTyped, ReqStates
  <2> QED  BY <1>0, <1>7, <2>2, <2>3 DEF RestTyped, Stop, Fault
<1> QED
  BY <1>1, <1>2, <1>3, <1>4, <1>5, <1>6, <1>7 DEF End

\* A pair that names a row and its parent goes on naming them.
LEMMA BornStays ==
    ASSUME RowsStay, NEW pair, pair[2] \in Tokens, BornOf(pair)
    PROVE  BornOf(pair)'
BY DEF RowsStay, BornOf

\* What was known of the rows stays true.
LEMMA KnownStays ==
    ASSUME RowsStay, NEW state \in ReqStates, Known(state)
    PROVE  Known(state)'
<1>1. state.pc \in {"rotate", "poll", "forget", "memory", "redis"} =>
          state.token \in Tokens /\ Row(state.token)'
  BY DEF RowsStay, Known, ReqStates, Idle
<1>2. state.pc \in {"memory", "redis"} => BornOf(<<state.token, state.new>>)'
  <2> SUFFICES ASSUME state.pc \in {"memory", "redis"}
               PROVE  BornOf(<<state.token, state.new>>)'
    OBVIOUS
  <2>1. state.new \in Tokens
    BY DEF ReqStates, Idle
  <2>2. BornOf(<<state.token, state.new>>)
    BY DEF Known
  <2> QED  BY <2>1, <2>2 DEF RowsStay, BornOf
<1>3. state.pc = "apply" => \A t \in state.rows : Row(t)'
  BY DEF RowsStay, Known, ReqStates, Idle
<1> QED
  BY <1>1, <1>2, <1>3 DEF Known

\* A request that is where it was knows what it knew.
LEMMA KnowsStays ==
    ASSUME Base, RowsStay, NEW r \in Reqs, req'[r] = req[r]
    PROVE  Knows(r)'
<1>1. PICK state \in ReqStates : state = req[r]
  BY TypesSplit DEF Base, RestTyped
<1>2. Known(state)
  BY <1>1 DEF Base, Knows
<1>3. Known(state)'
  BY <1>2, KnownStays
<1> QED
  BY <1>1, <1>3 DEF Knows, Known

\* So does one that enters a state whose knowledge is right.
LEMMA KnowsEntered ==
    ASSUME Base, RowsStay, NEW r \in Reqs, NEW state, Becomes(r, state), Known(state)'
    PROVE  \A q \in Reqs : Knows(q)'
<1> SUFFICES ASSUME NEW q \in Reqs
             PROVE  Knows(q)'
  OBVIOUS
<1>1. CASE q = r
  <2>1. req'[q] = state
    BY <1>1, TypesSplit DEF Becomes, Base, RestTyped
  <2> QED  BY <2>1 DEF Knows, Known
<1>2. CASE q # r
  <2>1. req'[q] = req[q]
    BY <1>2, TypesSplit DEF Becomes, Base, RestTyped
  <2> QED  BY <2>1, KnowsStays
<1> QED
  BY <1>1, <1>2

\* An idle or revoking request says nothing of rows.
LEMMA KnowsNothing ==
    /\ Known(Idle)'
    /\ \A i, families : Known([pc |-> "revoke", inst |-> i, families |-> families])'
BY DEF Known, Idle

\* Every step leaves the requests with what they know.
LEMMA KnowsStep ==
    ASSUME Base, [Next]_vars
    PROVE  \A r \in Reqs : Knows(r)'
<1>0. RowsStay
  BY SessionSteps DEF Base
<1>1. ASSUME UNCHANGED req
      PROVE  \A r \in Reqs : Knows(r)'
  BY <1>0, <1>1, KnowsStays
<1>2. ASSUME NEW r \in Reqs, NEW i \in Instances, NEW t \in Tokens, Present(r, i, t)
      PROVE  \A q \in Reqs : Knows(q)'
  <2>1. Row(t)'
    BY <1>0, <1>2, HeldIsRow DEF Present, RowsStay
  <2>2. /\ Known([pc |-> "rotate", inst |-> i, token |-> t])'
        /\ Known([pc |-> "poll", inst |-> i, token |-> t])'
    BY <2>1 DEF Known
  <2>3. CASE Becomes(r, [pc |-> "rotate", inst |-> i, token |-> t])
    BY <1>0, <2>2, <2>3, KnowsEntered
  <2>4. CASE Becomes(r, [pc |-> "poll", inst |-> i, token |-> t])
    BY <1>0, <2>2, <2>4, KnowsEntered
  <2>5. CASE Becomes(r, [pc |-> "revoke", inst |-> i, families |-> {Family(t)}])
    <3>1. PICK families : families = {Family(t)}
      OBVIOUS
    <3>2. Becomes(r, [pc |-> "revoke", inst |-> i, families |-> families])
      BY <2>5, <3>1
    <3> QED  BY <1>0, <3>2, KnowsNothing, KnowsEntered
  <2> QED  BY <1>2, <2>3, <2>4, <2>5 DEF Present
<1>3. ASSUME NEW r \in Reqs, ExecuteAtomicRotation(r)
      PROVE  \A q \in Reqs : Knows(q)'
  <2>1. PICK t \in Tokens, i \in Instances : t = req[r].token /\ i = req[r].inst /\ Row(t)
    BY <1>3, AskedIsRow DEF ExecuteAtomicRotation
  <2>2. Row(t)'
    BY <1>0, <2>1 DEF RowsStay
  <2>3. CASE ~Live(t)
    <3>1. Becomes(r, [pc |-> "poll", inst |-> i, token |-> t])
      BY <1>3, <2>1, <2>3 DEF ExecuteAtomicRotation
    <3>2. Known([pc |-> "poll", inst |-> i, token |-> t])'
      BY <2>2 DEF Known
    <3> QED  BY <1>0, <3>1, <3>2, KnowsEntered
  <2>4. CASE Live(t) /\ Fresh \in Tokens
    <3>1. PICK new \in Tokens : new = Fresh
      BY <2>4
    <3>2. Becomes(r, [pc |-> "memory", inst |-> i, token |-> t, new |-> new])
      BY <1>3, <2>1, <2>4, <3>1 DEF ExecuteAtomicRotation
    <3>3. session'[new] = [family |-> Family(t), live |-> TRUE, parent |-> t]
      <4>1. Replaces(t)
        BY <1>3, <2>1, <2>4 DEF ExecuteAtomicRotation, Replaces
      <4> QED  BY <3>1, <4>1, ReplacesKeeps DEF Base
    <3>4. Row(new)' /\ session'[new].parent = t
      <4>1. Family(t) \in Families
        BY <1>3, <2>1, AskedIsRow DEF ExecuteAtomicRotation
      <4>2. PICK f \in Families : f = Family(t)
        BY <4>1
      <4> QED  BY <3>3, <4>2, NewRow
    <3>5. Known([pc |-> "memory", inst |-> i, token |-> t, new |-> new])'
      BY <2>2, <3>4 DEF Known, BornOf
    <3> QED  BY <1>0, <3>2, <3>5, KnowsEntered
  <2> QED  BY <1>3, <2>1, <2>3, <2>4 DEF ExecuteAtomicRotation
<1>4. ASSUME NEW r \in Reqs, CacheInMemory(r)
      PROVE  \A q \in Reqs : Knows(q)'
  <2>1. PICK i \in Instances, t \in Tokens, new \in Tokens :
            i = req[r].inst /\ t = req[r].token /\ new = req[r].new
    BY <1>4, ReqTypes DEF CacheInMemory, Base
  <2>2. Becomes(r, [pc |-> "redis", inst |-> i, token |-> t, new |-> new])
    BY <1>4, <2>1, ReqTypes DEF CacheInMemory, Base
  <2>3. Row(t) /\ BornOf(<<t, new>>)
    BY <1>4, <2>1 DEF CacheInMemory, Base, Knows, Known
  <2>4. Known([pc |-> "redis", inst |-> i, token |-> t, new |-> new])'
    BY <1>0, <2>3 DEF Known, RowsStay, BornOf
  <2> QED  BY <1>0, <2>2, <2>4, KnowsEntered
<1>5. ASSUME NEW r \in Reqs, CacheInRedis(r) \/ PollFinds(r) \/ ApplyRevocation(r)
      PROVE  \A q \in Reqs : Knows(q)'
  <2>1. PICK idle : idle = Idle
    OBVIOUS
  <2>2. Becomes(r, idle) /\ Known(idle)'
    BY <1>5, <2>1, KnowsNothing DEF CacheInRedis, PollFinds, ApplyRevocation, Ends, Idle
  <2> QED  BY <1>0, <2>2, KnowsEntered
<1>6. ASSUME NEW r \in Reqs, PollGivesUp(r) \/ Forget(r)
      PROVE  \A q \in Reqs : Knows(q)'
  <2>1. PICK i, families : i = req[r].inst /\ families = {Family(req[r].token)}
    OBVIOUS
  <2>2. Becomes(r, [pc |-> "revoke", inst |-> i, families |-> families])
    BY <1>6, <2>1 DEF PollGivesUp, Forget
  <2> QED  BY <1>0, <2>2, KnowsNothing, KnowsEntered
<1>7. ASSUME NEW r \in Reqs, NEW i \in Instances, NEW t \in Tokens, SignOut(r, i, t)
      PROVE  \A q \in Reqs : Knows(q)'
  <2>1. Row(t)'
    BY <1>0, <1>7, HeldIsRow DEF SignOut, RowsStay
  <2>2. Known([pc |-> "forget", inst |-> i, token |-> t])'
    BY <2>1 DEF Known
  <2> QED  BY <1>0, <1>7, <2>2, KnowsEntered DEF SignOut
<1>8. ASSUME NEW r \in Reqs, NEW i \in Instances, NEW families \in SUBSET Families,
             EndFamilies(r, i, families)
      PROVE  \A q \in Reqs : Knows(q)'
  BY <1>0, <1>8, KnowsNothing, KnowsEntered DEF EndFamilies
<1>9. ASSUME NEW r \in Reqs, StartRevoking(r)
      PROVE  \A q \in Reqs : Knows(q)'
  <2>1. PICK i, families, rows :
            /\ i = req[r].inst /\ families = req[r].families
            /\ rows = {t \in Tokens : Live(t) /\ Family(t) \in req[r].families}
    OBVIOUS
  <2>2. Becomes(r, [pc |-> "apply", inst |-> i, families |-> families, rows |-> rows])
    BY <1>9, <2>1 DEF StartRevoking
  <2>3. \A t \in rows : Row(t)'
    BY <1>0, <2>1 DEF Live, RowsStay
  <2>4. Known([pc |-> "apply", inst |-> i, families |-> families, rows |-> rows])'
    BY <2>3 DEF Known
  <2> QED  BY <1>0, <2>2, <2>4, KnowsEntered
<1>10. ASSUME NEW i \in Instances, Stop(i)
       PROVE  \A q \in Reqs : Knows(q)'
  <2> SUFFICES ASSUME NEW q \in Reqs
               PROVE  Knows(q)'
    OBVIOUS
  <2>1. req'[q] = req[q] \/ req'[q] = Idle
    BY <1>10 DEF Stop
  <2>2. CASE req'[q] = Idle
    BY <2>2 DEF Knows, Known, Idle
  <2> QED  BY <1>0, <2>1, <2>2, KnowsStays
<1> QED
  <2>1. CASE UNCHANGED vars
    BY <1>1, <2>1 DEF vars
  <2>2. CASE \/ \E f \in Families : SignIn(f)
             \/ \E t \in Tokens : Age(t)
    BY <1>1, <2>2 DEF SignIn, Age
  <2> QED
    BY <2>1, <2>2, <1>2, <1>3, <1>4, <1>5, <1>6, <1>7, <1>8, <1>9, <1>10
    DEF Next, Refresh, End

\* Pairs that were there stay right, and the new ones are.
LEMMA PairsGrow ==
    ASSUME Base, RowsStay,
           \A pair \in held' : pair \in held \/ BornOf(pair)',
           \A pair \in shared' : pair \in shared \/ BornOf(pair)',
           \A i \in Instances : \A pair \in memory'[i] : pair \in memory[i] \/ BornOf(pair)'
    PROVE  PairsBorn'
<1>1. \A pair : pair \in Pairs /\ BornOf(pair) => BornOf(pair)'
  BY BornStays DEF Pairs
<1>2. /\ held \subseteq Pairs /\ shared \subseteq Pairs
      /\ \A i \in Instances : memory[i] \subseteq Pairs
  BY TypesSplit DEF Base, RestTyped
<1> QED
  BY <1>1, <1>2 DEF PairsBorn, Base

\* Every step answers with pairs of a row and the row that replaced it.
LEMMA PairsStep ==
    ASSUME Base, [Next]_vars
    PROVE  PairsBorn'
<1>0. RowsStay
  BY SessionSteps DEF Base
<1>1. ASSUME UNCHANGED <<held, caches>>
      PROVE  PairsBorn'
  BY <1>0, <1>1, PairsGrow DEF caches
<1>2. ASSUME NEW f \in Families, SignIn(f)
      PROVE  PairsBorn'
  <2>1. PICK new \in Tokens : new = Fresh
    BY <1>2 DEF SignIn
  <2>2. session'[new] = [family |-> f, live |-> TRUE, parent |-> 0]
    <3>1. Adds(f)
      BY <1>2 DEF SignIn, Adds
    <3> QED  BY <2>1, <3>1, AddsKeeps DEF Base
  <2>3. BornOf(<<0, new>>)'
    BY <2>2, NewRow DEF BornOf
  <2> QED  BY <1>0, <1>2, <2>1, <2>3, PairsGrow DEF SignIn, caches
<1>3. ASSUME NEW r \in Reqs, CacheInMemory(r) \/ CacheInRedis(r)
      PROVE  PairsBorn'
  <2>1. PICK t \in Tokens, new \in Tokens : t = req[r].token /\ new = req[r].new
    BY <1>3, ReqTypes DEF CacheInMemory, CacheInRedis, Base
  <2>2. BornOf(<<t, new>>)
    BY <1>3, <2>1 DEF CacheInMemory, CacheInRedis, Base, Knows, Known
  <2>3. BornOf(<<t, new>>)'
    BY <1>0, <2>2, BornStays
  <2>4. CASE CacheInMemory(r)
    <3>1. \A i \in Instances : \A pair \in memory'[i] : pair \in memory[i] \/ pair = <<t, new>>
      BY <2>1, <2>4, TypesSplit DEF CacheInMemory, Base, RestTyped
    <3> QED  BY <1>0, <2>3, <2>4, <3>1, PairsGrow DEF CacheInMemory
  <2>5. CASE CacheInRedis(r)
    BY <1>0, <2>1, <2>3, <2>5, PairsGrow DEF CacheInRedis
  <2> QED  BY <1>3, <2>4, <2>5
<1>4. ASSUME NEW r \in Reqs, PollFinds(r)
      PROVE  PairsBorn'
  <2>1. PICK pair \in Cached(req[r].inst) : held' = held \cup {pair}
    BY <1>4 DEF PollFinds
  <2>2. pair \in Pairs /\ BornOf(pair)
    BY <1>4, <2>1, AskedIsRow, TypesSplit DEF PollFinds, Cached, Base, PairsBorn, RestTyped
  <2>3. BornOf(pair)'
    BY <1>0, <2>2, BornStays DEF Pairs
  <2> QED  BY <1>0, <1>4, <2>1, <2>3, PairsGrow DEF PollFinds, caches
<1>5. ASSUME \/ \E r \in Reqs, i \in Instances, t \in Tokens : SignOut(r, i, t)
             \/ \E r \in Reqs : Forget(r)
             \/ \E i \in Instances : Stop(i)
      PROVE  PairsBorn'
  <2>1. held' = held /\ shared' \subseteq shared
    BY <1>5 DEF SignOut, Forget, Stop
  <2>2. \A i \in Instances : memory'[i] \subseteq memory[i]
    BY <1>5, TypesSplit DEF SignOut, Forget, Stop, Base, RestTyped
  <2> QED  BY <1>0, <2>1, <2>2, PairsGrow
<1> QED
  <2>1. CASE UNCHANGED vars
    BY <1>1, <2>1 DEF vars, caches
  <2>2. ASSUME NEW r \in Reqs,
               \/ \E i \in Instances, t \in Tokens : Present(r, i, t)
               \/ ExecuteAtomicRotation(r) \/ PollGivesUp(r)
               \/ \E i \in Instances, families \in SUBSET Families : EndFamilies(r, i, families)
               \/ StartRevoking(r) \/ ApplyRevocation(r)
        PROVE  PairsBorn'
    BY <1>1, <2>2 DEF Present, ExecuteAtomicRotation, PollGivesUp, EndFamilies,
                      StartRevoking, ApplyRevocation
  <2>3. ASSUME NEW t \in Tokens, Age(t)
        PROVE  PairsBorn'
    BY <1>1, <2>3 DEF Age
  <2> QED
    BY <2>1, <2>2, <2>3, <1>2, <1>3, <1>4, <1>5 DEF Next, Refresh, End

\* Base holds when nothing has happened.
LEMMA BaseInit ==
    ASSUME Init
    PROVE  Base
<1>1. TypeOK
  BY DEF Init, TypeOK, Idle
<1>2. RowsInOrder
  <2>1. 0 \in 0 .. MaxTokens
    BY SessionsAssumption
  <2>2. \A t \in Tokens : Row(t) <=> t <= 0
    BY SessionsAssumption DEF Init, Row, Tokens
  <2> QED  BY <2>1, <2>2 DEF RowsInOrder
<1>3. \A r \in Reqs : Knows(r)
  BY DEF Init, Knows, Known, Idle
<1>4. PairsBorn
  BY DEF Init, PairsBorn
<1> QED
  BY <1>1, <1>2, <1>3, <1>4 DEF Base

\* And after every step.
LEMMA BaseStep ==
    ASSUME Base, [Next]_vars
    PROVE  Base'
<1>1. session' \in [Tokens -> Rows \cup {NoRow}] /\ RowsInOrder'
  BY SessionSteps DEF Base
<1>2. RestTyped'
  <2>1. CASE UNCHANGED vars
    BY <2>1, TypesSplit DEF vars, caches, history, RestTyped, Base
  <2>2. CASE Next
    BY <2>2, RefreshTyped, EndTyped DEF Next
  <2> QED  BY <2>1, <2>2
<1>3. TypeOK'
  BY <1>1, <1>2 DEF TypeOK, RestTyped, ReqStates
<1> QED
  BY <1>1, <1>3, KnowsStep, PairsStep DEF Base

\* Types of every variable, for any number of families, instances, requests and rows.
THEOREM TypeCorrect == Spec => []TypeOK
<1>1. Init => Base
  BY BaseInit
<1>2. Base /\ [Next]_vars => Base'
  BY BaseStep
<1>3. Base => TypeOK
  BY DEF Base
<1> QED
  BY <1>1, <1>2, <1>3, PTL DEF Spec

-----------------------------------------------------------------------------
(* No branches.                                                            *)

\* One live row per family, one successor per row, and only a dead row has one.
Lineage ==
    /\ \A t, u \in Tokens : Live(t) /\ Live(u) /\ Family(t) = Family(u) => t = u
    /\ \A t, u \in Tokens :
          Row(t) /\ Row(u) /\ session[t].parent = session[u].parent /\ session[t].parent # 0 => t = u
    /\ \A t, u \in Tokens : Row(t) /\ session[t].parent = u => Row(u) /\ ~Live(u)

\* The first row of a lineage has no parent, and no other live row shares its family.
LEMMA LineageAdds ==
    ASSUME Base, Lineage, NEW f \in Families, f \notin Started, Adds(f)
    PROVE  Lineage'
<1>1. PICK new \in Tokens : new = Fresh
  BY DEF Adds
<1>2. /\ \A t \in Tokens \ {new} : session'[t] = session[t]
      /\ session'[new] = [family |-> f, live |-> TRUE, parent |-> 0]
      /\ ~Row(new)
  BY <1>1, AddsKeeps DEF Base
<1>3. Row(new)' /\ session'[new].family = f /\ session'[new].parent = 0
  BY <1>2, NewRow
<1>4. \A t \in Tokens : Row(t) => Family(t) # f
  BY DEF Started
<1>5. \A t, u \in Tokens : Live(t)' /\ Live(u)' /\ Family(t)' = Family(u)' => t = u
  BY <1>2, <1>3, <1>4 DEF Lineage, Live, Row, Family
<1>6. \A t, u \in Tokens :
          Row(t)' /\ Row(u)' /\ session'[t].parent = session'[u].parent /\ session'[t].parent # 0
              => t = u
  BY <1>2, <1>3 DEF Lineage, Row
<1>7. \A t, u \in Tokens : Row(t)' /\ session'[t].parent = u => Row(u)' /\ ~Live(u)'
  BY <1>2, <1>3, SessionsAssumption DEF Lineage, Row, Live, Tokens
<1> QED
  BY <1>5, <1>6, <1>7 DEF Lineage

\* The row a rotation replaces was the live one and had no successor.
LEMMA LineageReplaces ==
    ASSUME Base, Lineage, NEW t \in Tokens, Replaces(t)
    PROVE  Lineage'
<1>1. PICK new \in Tokens : new = Fresh
  BY DEF Replaces
<1>2. PICK f \in Families : f = Family(t)
  <2>1. session[t] \in Rows
    BY RowTypes DEF Base, Replaces, Live
  <2> QED  BY <2>1 DEF Rows, Family
<1>3. /\ \A u \in Tokens \ {t, new} : session'[u] = session[u]
      /\ Revoked(t)
      /\ session'[new] = [family |-> f, live |-> TRUE, parent |-> t]
      /\ ~Row(new) /\ new # t
  BY <1>1, <1>2, ReplacesKeeps DEF Base
<1>4. Row(new)' /\ session'[new].family = f /\ session'[new].parent = t
  BY <1>3, NewRow
<1>5. Live(t) /\ Row(t)
  BY DEF Replaces, Live
<1>6. \A u \in Tokens : Live(u)' => u = new \/ (Live(u) /\ Family(u)' = Family(u) /\ Family(u) # f)
  BY <1>2, <1>3, <1>5 DEF Lineage, Live, Row, Family, Revoked
<1>7. \A u, v \in Tokens : Live(u)' /\ Live(v)' /\ Family(u)' = Family(v)' => u = v
  BY <1>4, <1>6 DEF Lineage, Family
<1>8. \A u \in Tokens : Row(u) => session[u].parent # t
  BY <1>5 DEF Lineage
<1>9. \A u \in Tokens : Row(u)' => u = new \/ (Row(u) /\ session'[u].parent = session[u].parent)
  BY <1>3, <1>5 DEF Row, Revoked
<1>10. \A u, v \in Tokens :
          Row(u)' /\ Row(v)' /\ session'[u].parent = session'[v].parent /\ session'[u].parent # 0
              => u = v
  BY <1>4, <1>8, <1>9 DEF Lineage
<1>11. \A u \in Tokens : Row(u) /\ ~Live(u) => Row(u)' /\ ~Live(u)'
  BY <1>3, <1>5 DEF Row, Live
<1>12. \A u, v \in Tokens : Row(u)' /\ session'[u].parent = v => Row(v)' /\ ~Live(v)'
  <2> SUFFICES ASSUME NEW u \in Tokens, NEW v \in Tokens, Row(u)', session'[u].parent = v
               PROVE  Row(v)' /\ ~Live(v)'
    OBVIOUS
  <2>1. CASE u = new
    BY <2>1, <1>3, <1>4 DEF Revoked
  <2>2. CASE u # new
    BY <2>2, <1>9, <1>11 DEF Lineage
  <2> QED  BY <2>1, <2>2
<1> QED
  BY <1>7, <1>10, <1>12 DEF Lineage

\* A step after which no row is new or live again, with its family and parent.
LEMMA LineageStays ==
    ASSUME Lineage, \A t \in Tokens : /\ Row(t)' <=> Row(t)
                                      /\ Live(t)' => Live(t)
                                      /\ session'[t].family = session[t].family
                                      /\ session'[t].parent = session[t].parent
    PROVE  Lineage'
BY DEF Lineage, Family

\* Rows are there after a revocation as before, with their families and parents.
LEMMA Revokes ==
    ASSUME Base, NEW r \in Reqs, ApplyRevocation(r)
    PROVE  \A t \in Tokens : /\ Row(t)' <=> Row(t)
                             /\ Live(t)' <=> Live(t) /\ t \notin req[r].rows
                             /\ session'[t].family = session[t].family
                             /\ session'[t].parent = session[t].parent
<1>1. PICK rows \in SUBSET Tokens : rows = req[r].rows
  BY ReqTypes DEF ApplyRevocation, Base
<1>2. Kills(rows) /\ \A t \in rows : Row(t)
  BY <1>1 DEF ApplyRevocation, Base, Knows, Known, Kills
<1>3. /\ \A t \in Tokens \ rows : session'[t] = session[t]
      /\ \A t \in rows : Revoked(t)
  BY <1>2, KillsKeeps DEF Base
<1> QED
  BY <1>1, <1>2, <1>3 DEF Revoked, Row, Live

\* A rotation that finds its row live replaces it.
LEMMA Rotates ==
    ASSUME Base, NEW r \in Reqs, ExecuteAtomicRotation(r), Live(req[r].token)
    PROVE  /\ req[r].token \in Tokens
           /\ Replaces(req[r].token)
BY AskedIsRow DEF ExecuteAtomicRotation, Replaces

\* Other steps leave the table of sessions alone.
LEMMA StepKinds ==
    ASSUME [Next]_vars
    PROVE  \/ \E f \in Families : SignIn(f)
           \/ \E r \in Reqs : ExecuteAtomicRotation(r) /\ Live(req[r].token)
           \/ \E r \in Reqs : ApplyRevocation(r)
           \/ UNCHANGED session
<1>1. CASE UNCHANGED vars
  BY <1>1 DEF vars
<1>2. CASE \/ \E t \in Tokens : Age(t)
           \/ \E i \in Instances : Stop(i)
  BY <1>2 DEF Age, Stop
<1>3. ASSUME NEW r \in Reqs, Refresh(r)
      PROVE  (ExecuteAtomicRotation(r) /\ Live(req[r].token)) \/ UNCHANGED session
  BY <1>3 DEF Refresh, Present, ExecuteAtomicRotation, CacheInMemory, CacheInRedis,
              PollFinds, PollGivesUp
<1>4. ASSUME NEW r \in Reqs, End(r)
      PROVE  ApplyRevocation(r) \/ UNCHANGED session
  BY <1>4 DEF End, SignOut, EndFamilies, Forget, StartRevoking
<1> QED
  BY <1>1, <1>2, <1>3, <1>4 DEF Next

\* No step branches a lineage.
LEMMA LineageStep ==
    ASSUME Base, Lineage, [Next]_vars
    PROVE  Lineage'
<1>1. ASSUME NEW f \in Families, SignIn(f)
      PROVE  Lineage'
  BY <1>1, LineageAdds DEF SignIn, Adds
<1>2. ASSUME NEW r \in Reqs, ExecuteAtomicRotation(r), Live(req[r].token)
      PROVE  Lineage'
  <2>1. PICK t \in Tokens : t = req[r].token
    BY <1>2, Rotates
  <2>2. Replaces(t)
    BY <1>2, <2>1, Rotates
  <2> QED  BY <2>2, LineageReplaces
<1>3. ASSUME NEW r \in Reqs, ApplyRevocation(r)
      PROVE  Lineage'
  BY <1>3, Revokes, LineageStays
<1>4. CASE UNCHANGED session
  BY <1>4, LineageStays DEF Row, Live
<1> QED
  BY <1>1, <1>2, <1>3, <1>4, StepKinds

\* A family never has two live rows, a row never two successors, and every answer for a
\* token is the one successor of its row, however many requests present it.
THEOREM NeverBranches == Spec => []NoBranches
<1>1. Init => Base /\ Lineage
  <2>1. Init => Lineage
    BY DEF Init, Lineage, Live, Row
  <2> QED  BY <2>1, BaseInit
<1>2. Base /\ Lineage /\ [Next]_vars => (Base /\ Lineage)'
  BY BaseStep, LineageStep
<1>3. Base /\ Lineage => NoBranches
  BY DEF Base, Lineage, PairsBorn, BornOf, NoBranches
<1> QED
  BY <1>1, <1>2, <1>3, PTL DEF Spec

-----------------------------------------------------------------------------
(* What a revocation leaves alive.                                         *)

\* The live rows of a family that is being revoked are the ones the statement found, or
\* were born as it ran; and only families there are, are revoked.
Closes(state) ==
    /\ state.pc \in {"revoke", "apply"} => state.families \subseteq Started
    /\ state.pc = "apply" =>
          \A t \in Tokens : Live(t) /\ Family(t) \in state.families => t \in state.rows \cup late

Closings ==
    /\ OnlyOverlapsSurvive
    /\ ended \subseteq Started
    /\ \A r \in Reqs : Closes(req[r])

\* Families do not disappear.
LEMMA StartedStays ==
    ASSUME RowsStay
    PROVE  Started \subseteq Started'
BY DEF RowsStay, Started, Family

\* What was said of a revocation stays true if the rows that are live after the step
\* were live before or are late.
LEMMA ClosesStays ==
    ASSUME RowsStay, late \subseteq late', NEW state, Closes(state),
           \A t \in Tokens : Live(t)' =>
               \/ Live(t)
               \/ t \in late'
               \/ state.pc \in {"revoke", "apply"} => Family(t)' \notin state.families
    PROVE  Closes(state)'
<1>1. state.pc \in {"revoke", "apply"} => state.families \subseteq Started'
  BY StartedStays DEF Closes
<1>2. \A t \in Tokens : Live(t) => Family(t)' = Family(t)
  BY DEF RowsStay, Live, Family
<1>3. state.pc = "apply" =>
          \A t \in Tokens : Live(t)' /\ Family(t)' \in state.families => t \in state.rows \cup late'
  BY <1>2 DEF Closes
<1> QED
  BY <1>1, <1>3 DEF Closes

\* The same for the families that have been ended.
LEMMA EndedStays ==
    ASSUME RowsStay, late \subseteq late', ended' = ended, OnlyOverlapsSurvive, ended \subseteq Started,
           \A t \in Tokens : Live(t)' => Live(t) \/ t \in late' \/ Family(t)' \notin ended
    PROVE  OnlyOverlapsSurvive' /\ ended' \subseteq Started'
<1>1. \A t \in Tokens : Live(t) => Family(t)' = Family(t)
  BY DEF RowsStay, Live, Family
<1>2. OnlyOverlapsSurvive'
  BY <1>1 DEF OnlyOverlapsSurvive
<1> QED
  BY <1>2, StartedStays

\* A new lineage belongs to no family that is being or has been revoked.
LEMMA ClosingsSignIn ==
    ASSUME Base, RowsStay, Closings, NEW f \in Families, SignIn(f)
    PROVE  Closings'
<1>1. Adds(f) /\ f \notin Started /\ UNCHANGED <<req, ended, late>>
  BY DEF SignIn, Adds, history
<1>2. PICK new \in Tokens : new = Fresh
  BY <1>1 DEF Adds
<1>3. /\ \A t \in Tokens \ {new} : session'[t] = session[t]
      /\ session'[new].family = f
  <2>1. /\ \A t \in Tokens \ {new} : session'[t] = session[t]
        /\ session'[new] = [family |-> f, live |-> TRUE, parent |-> 0]
    BY <1>1, <1>2, AddsKeeps DEF Base
  <2> QED  BY <2>1, NewRow
<1>4. \A t \in Tokens : Live(t)' => Live(t) \/ Family(t)' = f
  BY <1>3 DEF Live, Row, Family
<1>5. OnlyOverlapsSurvive' /\ ended' \subseteq Started'
  BY <1>1, <1>4, EndedStays DEF Closings
<1>6. ASSUME NEW r \in Reqs
      PROVE  Closes(req[r])'
  <2>1. PICK state : state = req[r]
    OBVIOUS
  <2>2. Closes(state)
    BY <2>1 DEF Closings
  <2>3. state.pc \in {"revoke", "apply"} => f \notin state.families
    BY <1>1, <2>2 DEF Closes
  <2>4. Closes(state)'
    BY <1>1, <1>4, <2>2, <2>3, ClosesStays
  <2> QED  BY <1>1, <2>1, <2>4
<1> QED
  BY <1>5, <1>6 DEF Closings

\* A row born of a rotation is late if its family has been revoked, or is being revoked.
LEMMA ClosingsRotate ==
    ASSUME Base, RowsStay, Closings,
           NEW r \in Reqs, ExecuteAtomicRotation(r), Live(req[r].token)
    PROVE  Closings'
<1>1. PICK t \in Tokens : t = req[r].token
  BY Rotates
<1>2. Replaces(t) /\ ended' = ended
  BY <1>1, Rotates DEF ExecuteAtomicRotation
<1>3. PICK new \in Tokens : new = Fresh
  BY <1>2 DEF Replaces
<1>4. PICK f \in Families : f = Family(t)
  BY <1>1, AskedIsRow DEF ExecuteAtomicRotation
<1>5. /\ \A u \in Tokens \ {t, new} : session'[u] = session[u]
      /\ Revoked(t)
      /\ session'[new].family = f
  <2>1. /\ \A u \in Tokens \ {t, new} : session'[u] = session[u]
        /\ Revoked(t)
        /\ session'[new] = [family |-> f, live |-> TRUE, parent |-> t]
    BY <1>2, <1>3, <1>4, ReplacesKeeps DEF Base
  <2> QED  BY <2>1, NewRow
<1>6. \A u \in Tokens : Live(u)' => Live(u) \/ (u = new /\ Family(u)' = f)
  BY <1>5 DEF Live, Row, Family, Revoked
<1>7. /\ late \subseteq late'
      /\ t \in late => new \in late'
      /\ (\E q \in Reqs : req[q].pc = "apply" /\ f \in req[q].families) => new \in late'
  BY <1>1, <1>3, <1>4 DEF ExecuteAtomicRotation
<1>8. f \in ended => new \in late'
  BY <1>2, <1>4, <1>7 DEF Closings, OnlyOverlapsSurvive, Replaces
<1>9. OnlyOverlapsSurvive' /\ ended' \subseteq Started'
  BY <1>2, <1>6, <1>7, <1>8, EndedStays DEF Closings
<1>10. ASSUME NEW q \in Reqs
       PROVE  Closes(req[q])'
  <2>1. CASE q = r
    <3>1. req'[q] = [pc |-> "memory", inst |-> req[r].inst, token |-> t, new |-> new]
      BY <1>1, <1>3, <2>1, TypesSplit DEF ExecuteAtomicRotation, Becomes, Base, RestTyped
    <3> QED  BY <3>1 DEF Closes
  <2>2. CASE q # r
    <3>1. PICK state : state = req[q]
      OBVIOUS
    <3>2. req'[q] = state
      BY <2>2, <3>1, TypesSplit DEF ExecuteAtomicRotation, Becomes, Base, RestTyped
    <3>3. Closes(state)
      BY <3>1 DEF Closings
    <3>4. CASE state.pc = "apply"
      <4>1. f \in state.families => new \in late'
        BY <1>7, <3>1, <3>4
      <4> QED  BY <1>6, <1>7, <3>2, <3>3, <4>1, ClosesStays
    <3>5. CASE state.pc # "apply"
      <4>1. state.pc \in {"revoke", "apply"} => state.families \subseteq Started'
        BY <3>3, StartedStays DEF Closes
      <4>2. Closes(state)'
        BY <3>5, <4>1 DEF Closes
      <4> QED  BY <3>2, <4>2
    <3> QED  BY <3>4, <3>5
  <2> QED  BY <2>1, <2>2
<1> QED
  BY <1>9, <1>10 DEF Closings

\* A revocation that is complete leaves of its families what is late.
LEMMA ClosingsApply ==
    ASSUME Base, RowsStay, Closings, NEW r \in Reqs, ApplyRevocation(r)
    PROVE  Closings'
<1>1. /\ late' = late /\ ended' = ended \cup req[r].families
      /\ req[r].families \subseteq Started
      /\ \A t \in Tokens : Live(t) /\ Family(t) \in req[r].families => t \in req[r].rows \cup late
  BY DEF ApplyRevocation, Closings, Closes
<1>2. \A t \in Tokens : Live(t)' => Live(t) /\ t \notin req[r].rows /\ Family(t)' = Family(t)
  BY Revokes DEF Family
<1>3. OnlyOverlapsSurvive'
  BY <1>1, <1>2 DEF OnlyOverlapsSurvive, Closings
<1>4. ended' \subseteq Started'
  BY <1>1, StartedStays DEF Closings
<1>5. ASSUME NEW q \in Reqs
      PROVE  Closes(req[q])'
  <2>1. CASE q = r
    <3>1. req'[q] = Idle
      BY <2>1, TypesSplit DEF ApplyRevocation, Ends, Becomes, Base, RestTyped
    <3> QED  BY <3>1 DEF Closes, Idle
  <2>2. CASE q # r
    <3>1. PICK state : state = req[q]
      OBVIOUS
    <3>2. req'[q] = state
      BY <2>2, <3>1, TypesSplit DEF ApplyRevocation, Ends, Becomes, Base, RestTyped
    <3>3. Closes(state)
      BY <3>1 DEF Closings
    <3> QED  BY <1>1, <1>2, <3>2, <3>3, ClosesStays
  <2> QED  BY <2>1, <2>2
<1> QED
  BY <1>3, <1>4, <1>5 DEF Closings

\* A step that changes no row leaves the revocations right if it enters a right one.
LEMMA ClosingsElsewhere ==
    ASSUME Base, Closings, UNCHANGED <<session, ended, late>>,
           \A r \in Reqs : req'[r] = req[r] \/ Closes(req[r])'
    PROVE  Closings'
<1>1. Started' = Started /\ \A t \in Tokens : (Live(t)' <=> Live(t)) /\ Family(t)' = Family(t)
  BY DEF Started, Row, Live, Family
<1>2. OnlyOverlapsSurvive' /\ ended' \subseteq Started'
  BY <1>1 DEF Closings, OnlyOverlapsSurvive
<1>3. ASSUME NEW r \in Reqs, req'[r] = req[r]
      PROVE  Closes(req[r])'
  BY <1>1, <1>3 DEF Closings, Closes
<1> QED
  BY <1>2, <1>3 DEF Closings

\* No step lets a live row slip out of a revocation unmarked.
LEMMA ClosingsStep ==
    ASSUME Base, Closings, [Next]_vars
    PROVE  Closings'
<1>0. RowsStay
  BY SessionSteps DEF Base
<1>a. req \in [Reqs -> ReqStates]
  BY TypesSplit DEF Base, RestTyped
<1>1. ASSUME NEW f \in Families, SignIn(f)
      PROVE  Closings'
  BY <1>0, <1>1, ClosingsSignIn
<1>2. ASSUME NEW r \in Reqs, ApplyRevocation(r)
      PROVE  Closings'
  BY <1>0, <1>2, ClosingsApply
<1>3. ASSUME NEW r \in Reqs, NEW i \in Instances, NEW t \in Tokens, Present(r, i, t)
      PROVE  Closings'
  <2>1. Family(t)' \in Started'
    BY <1>0, <1>3, HeldIsRow DEF Present, RowsStay, Started, Family
  <2>2. \A q \in Reqs : req'[q] = req[q] \/ Closes(req[q])'
    <3> SUFFICES ASSUME NEW q \in Reqs, req'[q] # req[q]
                 PROVE  Closes(req[q])'
      OBVIOUS
    <3>1. \/ req'[q] = [pc |-> "rotate", inst |-> i, token |-> t]
          \/ req'[q] = [pc |-> "poll", inst |-> i, token |-> t]
          \/ req'[q] = [pc |-> "revoke", inst |-> i, families |-> {Family(t)}]
      BY <1>3, <1>a DEF Present, Becomes
    <3>2. Family(t)' = Family(t)
      BY <1>3 DEF Present, Family
    <3> QED  BY <2>1, <3>1, <3>2 DEF Closes
  <2>3. UNCHANGED <<session, ended, late>>
    BY <1>3 DEF Present
  <2> QED  BY <2>2, <2>3, ClosingsElsewhere
<1>4. ASSUME NEW r \in Reqs, PollGivesUp(r) \/ Forget(r)
      PROVE  Closings'
  <2>1. UNCHANGED <<session, ended, late>>
    BY <1>4 DEF PollGivesUp, Forget, history
  <2>2. Family(req[r].token) \in Started
    BY <1>4, AskedIsRow DEF PollGivesUp, Forget, Started
  <2>3. PICK f : f = Family(req[r].token)
    OBVIOUS
  <2>4. f \in Started'
    BY <2>2, <2>3, <1>0, StartedStays
  <2>5. \A q \in Reqs : req'[q] = req[q]
                        \/ req'[q] = [pc |-> "revoke", inst |-> req[r].inst, families |-> {f}]
    BY <1>4, <1>a, <2>3 DEF PollGivesUp, Forget, Becomes
  <2>6. \A q \in Reqs : req'[q] = req[q] \/ Closes(req[q])'
    BY <2>4, <2>5 DEF Closes
  <2> QED  BY <2>1, <2>6, ClosingsElsewhere
<1>5. ASSUME NEW r \in Reqs, NEW i \in Instances, NEW families \in SUBSET Families,
             EndFamilies(r, i, families)
      PROVE  Closings'
  <2>1. UNCHANGED <<session, ended, late>>
    BY <1>5 DEF EndFamilies
  <2>2. families \subseteq Started'
    <3>1. families \subseteq Started
      BY <1>5 DEF EndFamilies, Started, Live
    <3> QED  BY <1>0, <3>1, StartedStays
  <2>3. \A q \in Reqs : req'[q] = req[q]
                        \/ req'[q] = [pc |-> "revoke", inst |-> i, families |-> families]
    BY <1>5, <1>a DEF EndFamilies, Becomes
  <2>4. \A q \in Reqs : req'[q] = req[q] \/ Closes(req[q])'
    BY <2>2, <2>3 DEF Closes
  <2> QED  BY <2>1, <2>4, ClosingsElsewhere
<1>6. ASSUME NEW r \in Reqs, StartRevoking(r)
      PROVE  Closings'
  <2>1. UNCHANGED <<session, ended, late>>
    BY <1>6 DEF StartRevoking, history
  <2>2. PICK families, rows :
            /\ families = req[r].families
            /\ rows = {t \in Tokens : Live(t) /\ Family(t) \in families}
    OBVIOUS
  <2>3. families \subseteq Started'
    BY <1>0, <1>6, <2>2, StartedStays DEF StartRevoking, Closings, Closes
  <2>4. \A t \in Tokens : Live(t)' /\ Family(t)' \in families => t \in rows
    BY <2>1, <2>2 DEF Live, Row, Family
  <2>5. \A q \in Reqs :
            \/ req'[q] = req[q]
            \/ req'[q] = [pc |-> "apply", inst |-> req[r].inst, families |-> families, rows |-> rows]
    BY <1>6, <1>a, <2>2 DEF StartRevoking, Becomes
  <2>6. \A q \in Reqs : req'[q] = req[q] \/ Closes(req[q])'
    BY <2>3, <2>4, <2>5 DEF Closes
  <2> QED  BY <2>1, <2>6, ClosingsElsewhere
<1>7. ASSUME NEW r \in Reqs, ExecuteAtomicRotation(r)
      PROVE  Closings'
  <2>1. CASE Live(req[r].token)
    BY <1>0, <1>7, <2>1, ClosingsRotate
  <2>2. CASE ~Live(req[r].token)
    <3>1. UNCHANGED <<session, ended, late>>
      BY <1>7, <2>2 DEF ExecuteAtomicRotation
    <3>2. \A q \in Reqs :
              \/ req'[q] = req[q]
              \/ req'[q] = [pc |-> "poll", inst |-> req[r].inst, token |-> req[r].token]
      BY <1>7, <1>a, <2>2 DEF ExecuteAtomicRotation, Becomes
    <3>3. \A q \in Reqs : req'[q] = req[q] \/ Closes(req[q])'
      BY <3>2 DEF Closes
    <3> QED  BY <3>1, <3>3, ClosingsElsewhere
  <2> QED  BY <2>1, <2>2
<1>8. ASSUME NEW r \in Reqs, NEW i \in Instances, NEW t \in Tokens, SignOut(r, i, t)
      PROVE  Closings'
  <2>1. UNCHANGED <<session, ended, late>>
    BY <1>8 DEF SignOut
  <2>2. \A q \in Reqs : req'[q] = req[q] \/ req'[q] = [pc |-> "forget", inst |-> i, token |-> t]
    BY <1>8, <1>a DEF SignOut, Becomes
  <2>3. \A q \in Reqs : req'[q] = req[q] \/ Closes(req[q])'
    BY <2>2 DEF Closes
  <2> QED  BY <2>1, <2>3, ClosingsElsewhere
<1>9. ASSUME NEW r \in Reqs, CacheInMemory(r) \/ CacheInRedis(r) \/ PollFinds(r)
      PROVE  Closings'
  <2>1. UNCHANGED <<session, ended, late>>
    BY <1>9 DEF CacheInMemory, CacheInRedis, PollFinds, history
  <2>2. [req[r] EXCEPT !.pc = "redis"].pc = "redis" \/ ~CacheInMemory(r)
    BY ReqTypes DEF CacheInMemory, Base
  <2>3. \A q \in Reqs : req'[q] = req[q] \/ req'[q].pc = "redis" \/ req'[q] = Idle
    BY <1>9, <1>a, <2>2 DEF CacheInMemory, CacheInRedis, PollFinds, Ends, Becomes
  <2>4. \A q \in Reqs : req'[q] = req[q] \/ Closes(req[q])'
    BY <2>3 DEF Closes, Idle
  <2> QED  BY <2>1, <2>4, ClosingsElsewhere
<1>10. ASSUME \/ UNCHANGED vars
              \/ \E t \in Tokens : Age(t)
              \/ \E i \in Instances : Stop(i)
       PROVE  Closings'
  <2>1. UNCHANGED <<session, ended, late>>
    BY <1>10 DEF vars, history, Age, Stop
  <2>2. \A q \in Reqs : req'[q] = req[q] \/ req'[q] = Idle
    BY <1>10 DEF vars, Age, Stop
  <2>3. \A q \in Reqs : req'[q] = req[q] \/ Closes(req[q])'
    BY <2>2 DEF Closes, Idle
  <2> QED  BY <2>1, <2>3, ClosingsElsewhere
<1> QED
  BY <1>1, <1>2, <1>3, <1>4, <1>5, <1>6, <1>7, <1>8, <1>9, <1>10 DEF Next, Refresh, End

\* A family that has been ended has no live row but those of rotations that overlapped
\* the ending, and their descendants.
THEOREM EndedStaysEnded == Spec => []OnlyOverlapsSurvive
<1>1. Init => Base /\ Closings
  <2>1. Init => Closings
    BY DEF Init, Closings, Closes, OnlyOverlapsSurvive, Live, Row, Idle
  <2> QED  BY <2>1, BaseInit
<1>2. Base /\ Closings /\ [Next]_vars => (Base /\ Closings)'
  BY BaseStep, ClosingsStep
<1>3. Closings => OnlyOverlapsSurvive
  BY DEF Closings
<1> QED
  BY <1>1, <1>2, <1>3, PTL DEF Spec

-----------------------------------------------------------------------------
(* Who is signed out.                                                      *)

\* A request that is about to end families has an excuse for them; one that polls has
\* come second.
Spares(state) ==
    /\ state.pc \in {"revoke", "apply"} => state.families \subseteq excused
    /\ state.pc = "forget" => Family(state.token) \in excused
    /\ state.pc = "poll" => ~Live(state.token)
    /\ state.pc = "apply" => \A t \in state.rows : Family(t) \in state.families

\* The answer for a token that was replaced is in Redis or on its way there.
Answered(t) ==
    Row(t) /\ ~Live(t) /\ Family(t) \notin excused =>
        WinnerAtWork(t) \/ \E pair \in shared : pair[1] = t

Survival ==
    /\ HonestFamilySurvives
    /\ \A r \in Reqs : Spares(req[r])
    /\ \A t \in Tokens : Answered(t)

\* An excuse stays one.
LEMMA SparesStays ==
    ASSUME RowsStay, excused \subseteq excused', NEW state \in ReqStates, Known(state), Spares(state)
    PROVE  Spares(state)'
<1>1. \A t \in Tokens : Row(t) => Family(t)' = Family(t) /\ (~Live(t) => ~Live(t)')
  BY DEF RowsStay, Family
<1>2. /\ state.pc \in {"poll", "forget"} => state.token \in Tokens /\ Row(state.token)
      /\ state.pc = "apply" => state.rows \subseteq Tokens /\ \A t \in state.rows : Row(t)
  BY DEF ReqStates, Known, Idle
<1>3. state.pc \in {"revoke", "apply"} => state.families \subseteq excused'
  BY DEF Spares
<1>4. state.pc = "forget" => Family(state.token)' \in excused'
  BY <1>1, <1>2 DEF Spares
<1>5. state.pc = "poll" => ~Live(state.token)'
  BY <1>1, <1>2 DEF Spares
<1>6. state.pc = "apply" => \A t \in state.rows : Family(t)' \in state.families
  BY <1>1, <1>2 DEF Spares
<1> QED
  BY <1>3, <1>4, <1>5, <1>6 DEF Spares

\* For a request that does not move as well.
LEMMA SparesStaysAt ==
    ASSUME Base, RowsStay, excused \subseteq excused', NEW r \in Reqs, Spares(req[r]),
           req'[r] = req[r]
    PROVE  Spares(req[r])'
<1>1. PICK state \in ReqStates : state = req[r]
  BY TypesSplit DEF Base, RestTyped
<1>2. Known(state) /\ Spares(state)
  BY <1>1 DEF Base, Knows
<1>3. Spares(state)'
  BY <1>2, SparesStays
<1> QED
  BY <1>1, <1>3

\* A winner that does not move goes on working.
LEMMA WinnerStays ==
    ASSUME NEW t \in Tokens, NEW r \in Reqs,
           \A q \in Reqs : q # r => req'[q] = req[q],
           ~(req[r].pc \in {"memory", "redis"} /\ req[r].token = t),
           WinnerAtWork(t)
    PROVE  WinnerAtWork(t)'
BY DEF WinnerAtWork

\* A step that changes no row preserves all of it if it ends nothing without excuse and
\* loses no answer without excuse.
LEMMA SurvivalElsewhere ==
    ASSUME Base, Survival, session' = session, excused \subseteq excused',
           \A r \in Reqs : req'[r] = req[r] \/ Spares(req[r])',
           \A t \in Tokens : Row(t) /\ Family(t) \notin excused' =>
               /\ WinnerAtWork(t) => WinnerAtWork(t)' \/ \E pair \in shared' : pair[1] = t
               /\ (\E pair \in shared : pair[1] = t) => \E pair \in shared' : pair[1] = t
    PROVE  Survival'
<1>1. /\ Started' = Started
      /\ \A t \in Tokens : (Live(t)' <=> Live(t)) /\ (Row(t)' <=> Row(t)) /\ Family(t)' = Family(t)
  BY DEF Started, Row, Live, Family
<1>2. RowsStay
  BY DEF RowsStay, Row, Live
<1>3. HonestFamilySurvives'
  BY <1>1 DEF Survival, HonestFamilySurvives
<1>4. \A r \in Reqs : Spares(req[r])'
  BY <1>2, SparesStaysAt DEF Survival
<1>5. ASSUME NEW t \in Tokens
      PROVE  Answered(t)'
  BY <1>1 DEF Survival, Answered
<1> QED
  BY <1>3, <1>4, <1>5 DEF Survival

\* A new lineage has a live row, and nobody waits for an answer of it.
LEMMA SurvivalSignIn ==
    ASSUME Base, RowsStay, Survival, NEW f \in Families, SignIn(f)
    PROVE  Survival'
<1>1. Adds(f) /\ UNCHANGED <<req, excused, shared>>
  BY DEF SignIn, Adds, history, caches
<1>2. PICK new \in Tokens : new = Fresh
  BY <1>1 DEF Adds
<1>3. /\ \A t \in Tokens \ {new} : session'[t] = session[t]
      /\ session'[new] = [family |-> f, live |-> TRUE, parent |-> 0]
      /\ ~Row(new)
  BY <1>1, <1>2, AddsKeeps DEF Base
<1>4. Live(new)' /\ Row(new)' /\ Family(new)' = f
  BY <1>3, NewRow DEF Family
<1>5. \A t \in Tokens \ {new} : (Live(t)' <=> Live(t)) /\ (Row(t)' <=> Row(t)) /\ Family(t)' = Family(t)
  BY <1>3 DEF Live, Row, Family
<1>6. HonestFamilySurvives'
  <2>1. Started' \subseteq Started \cup {f}
    BY <1>4, <1>5 DEF Started
  <2>2. \A t \in Tokens : Live(t) => t # new
    BY <1>3 DEF Live
  <2> QED  BY <1>1, <1>4, <1>5, <2>1, <2>2 DEF Survival, HonestFamilySurvives
<1>7. \A r \in Reqs : Spares(req[r])'
  BY <1>1, SparesStaysAt DEF Survival
<1>8. \A t \in Tokens : WinnerAtWork(t)' <=> WinnerAtWork(t)
  BY <1>1 DEF WinnerAtWork
<1>9. \A t \in Tokens : Answered(t)'
  BY <1>1, <1>4, <1>5, <1>8 DEF Survival, Answered
<1> QED
  BY <1>6, <1>7, <1>9 DEF Survival

\* A rotation hands the family on, and is now to answer for the row it replaced.
LEMMA SurvivalRotate ==
    ASSUME Base, RowsStay, Survival,
           NEW r \in Reqs, ExecuteAtomicRotation(r), Live(req[r].token)
    PROVE  Survival'
<1>1. PICK t \in Tokens : t = req[r].token
  BY Rotates
<1>2. Replaces(t) /\ UNCHANGED <<excused, shared>> /\ req[r].pc = "rotate"
  BY <1>1, Rotates DEF ExecuteAtomicRotation, caches
<1>3. PICK new \in Tokens : new = Fresh
  BY <1>2 DEF Replaces
<1>4. PICK f \in Families : f = Family(t)
  BY <1>1, AskedIsRow DEF ExecuteAtomicRotation
<1>5. /\ \A u \in Tokens \ {t, new} : session'[u] = session[u]
      /\ Revoked(t)
      /\ session'[new] = [family |-> f, live |-> TRUE, parent |-> t]
      /\ ~Row(new) /\ new # t
  BY <1>2, <1>3, <1>4, ReplacesKeeps DEF Base
<1>6. Live(new)' /\ Row(new)' /\ Family(new)' = f
  BY <1>5, NewRow DEF Family
<1>7. \A u \in Tokens \ {t, new} : (Live(u)' <=> Live(u)) /\ (Row(u)' <=> Row(u)) /\ Family(u)' = Family(u)
  BY <1>5 DEF Live, Row, Family
<1>8. Row(t) /\ Live(t) /\ ~Live(t)' /\ Row(t)' /\ Family(t)' = f
  BY <1>2, <1>4, <1>5 DEF Replaces, Live, Revoked, Family
<1>9. HonestFamilySurvives'
  <2>1. Started' \subseteq Started
    BY <1>4, <1>6, <1>7, <1>8 DEF Started
  <2>2. \A u \in Tokens : Live(u) => u # new
    BY <1>5 DEF Live
  <2>3. \A g \in Started \ excused : g # f => \E u \in Tokens : Live(u)' /\ Family(u)' = g
    BY <1>4, <1>7, <2>2 DEF Survival, HonestFamilySurvives
  <2> QED  BY <1>2, <1>6, <2>1, <2>3 DEF HonestFamilySurvives
<1>10. req' = [req EXCEPT ![r] = [pc |-> "memory", inst |-> req[r].inst, token |-> t, new |-> new]]
  BY <1>1, <1>2, <1>3 DEF ExecuteAtomicRotation, Becomes, Replaces
<1>a. req \in [Reqs -> ReqStates]
  BY TypesSplit DEF Base, RestTyped
<1>11. ASSUME NEW q \in Reqs
       PROVE  Spares(req[q])'
  <2>1. CASE q = r
    <3>1. req'[q].pc = "memory"
      BY <1>10, <1>a, <2>1
    <3> QED  BY <3>1 DEF Spares
  <2>2. CASE q # r
    BY <1>2, <1>10, <1>a, <2>2, SparesStaysAt DEF Survival
  <2> QED  BY <2>1, <2>2
<1>12. WinnerAtWork(t)'
  BY <1>10, <1>a DEF WinnerAtWork
<1>13. \A u \in Tokens : WinnerAtWork(u) => WinnerAtWork(u)'
  BY <1>2, <1>10, <1>a, WinnerStays
<1>14. \A u \in Tokens : Answered(u)'
  BY <1>2, <1>6, <1>7, <1>12, <1>13 DEF Survival, Answered
<1> QED
  BY <1>9, <1>11, <1>14 DEF Survival

\* A revocation ends families it has an excuse for.
LEMMA SurvivalApply ==
    ASSUME Base, RowsStay, Survival, NEW r \in Reqs, ApplyRevocation(r)
    PROVE  Survival'
<1>1. /\ req[r].families \subseteq excused /\ excused' = excused /\ shared' = shared
      /\ \A t \in req[r].rows : Family(t) \in excused
      /\ req[r].pc = "apply"
  BY DEF ApplyRevocation, Survival, Spares, caches
<1>2. \A t \in Tokens : /\ Row(t)' <=> Row(t)
                        /\ Live(t)' <=> Live(t) /\ t \notin req[r].rows
                        /\ Family(t)' = Family(t)
  BY Revokes DEF Family
<1>3. HonestFamilySurvives'
  <2>1. Started' = Started
    BY <1>2 DEF Started
  <2> QED  BY <1>1, <1>2, <2>1 DEF Survival, HonestFamilySurvives
<1>4. req' = [req EXCEPT ![r] = Idle]
  BY DEF ApplyRevocation, Ends, Becomes
<1>a. req \in [Reqs -> ReqStates]
  BY TypesSplit DEF Base, RestTyped
<1>5. ASSUME NEW q \in Reqs
      PROVE  Spares(req[q])'
  <2>1. CASE q = r
    <3>1. req'[q].pc = "idle"
      BY <1>4, <1>a, <2>1 DEF Idle
    <3> QED  BY <3>1 DEF Spares
  <2>2. CASE q # r
    BY <1>1, <1>4, <1>a, <2>2, SparesStaysAt DEF Survival
  <2> QED  BY <2>1, <2>2
<1>6. \A t \in Tokens : WinnerAtWork(t) => WinnerAtWork(t)'
  BY <1>1, <1>4, <1>a, WinnerStays
<1>7. \A t \in Tokens : Answered(t)'
  BY <1>1, <1>2, <1>6 DEF Survival, Answered
<1> QED
  BY <1>3, <1>5, <1>7 DEF Survival

\* A request that moves and was not a winner loses no answer.
LEMMA SurvivalMoves ==
    ASSUME Base, Survival, session' = session, excused \subseteq excused', shared' = shared,
           NEW r \in Reqs, req[r].pc \notin {"memory", "redis"},
           \A q \in Reqs : q # r => req'[q] = req[q],
           Spares(req[r])'
    PROVE  Survival'
<1>1. \A t \in Tokens : WinnerAtWork(t) => WinnerAtWork(t)'
  BY WinnerStays
<1> QED
  BY <1>1, SurvivalElsewhere

\* No step signs anyone out without an excuse.
LEMMA SurvivalStep ==
    ASSUME Base, Survival, [Next]_vars
    PROVE  Survival'
<1>0. RowsStay
  BY SessionSteps DEF Base
<1>a. req \in [Reqs -> ReqStates]
  BY TypesSplit DEF Base, RestTyped
<1>1. ASSUME NEW f \in Families, SignIn(f)
      PROVE  Survival'
  BY <1>0, <1>1, SurvivalSignIn
<1>2. ASSUME NEW r \in Reqs, ApplyRevocation(r)
      PROVE  Survival'
  BY <1>0, <1>2, SurvivalApply
<1>3. ASSUME NEW r \in Reqs, NEW i \in Instances, NEW t \in Tokens, Present(r, i, t)
      PROVE  Survival'
  <2>1. /\ session' = session /\ excused \subseteq excused' /\ shared' = shared
        /\ req[r].pc \notin {"memory", "redis"}
        /\ \A q \in Reqs : q # r => req'[q] = req[q]
    BY <1>3, <1>a DEF Present, Becomes, caches, Idle
  <2>2. CASE Live(t)
    <3>1. req'[r].pc = "rotate"
      BY <1>3, <1>a, <2>2 DEF Present, Becomes
    <3> QED  BY <2>1, <3>1, SurvivalMoves DEF Spares
  <2>3. CASE ~Live(t) /\ age[t] < 2
    <3>1. req'[r] = [pc |-> "poll", inst |-> i, token |-> t]
      BY <1>3, <1>a, <2>3, TypesSplit DEF Present, Becomes, Base, RestTyped
    <3>2. ~Live(t)'
      BY <2>1, <2>3 DEF Live, Row
    <3>3. Spares(req[r])'
      BY <3>1, <3>2 DEF Spares
    <3> QED  BY <2>1, <3>3, SurvivalMoves
  <2>4. CASE ~Live(t) /\ age[t] = 2
    <3>1. req'[r] = [pc |-> "revoke", inst |-> i, families |-> {Family(t)}]
          /\ Family(t) \in excused'
      BY <1>3, <1>a, <2>4 DEF Present, Becomes
    <3>2. Spares(req[r])'
      BY <3>1 DEF Spares
    <3> QED  BY <2>1, <3>2, SurvivalMoves
  <2> QED  BY <1>3, <2>2, <2>3, <2>4 DEF Present
<1>4. ASSUME NEW r \in Reqs, ExecuteAtomicRotation(r)
      PROVE  Survival'
  <2>1. CASE Live(req[r].token)
    BY <1>0, <1>4, <2>1, SurvivalRotate
  <2>2. CASE ~Live(req[r].token)
    <3>1. /\ session' = session /\ excused \subseteq excused' /\ shared' = shared
          /\ req[r].pc \notin {"memory", "redis"}
          /\ \A q \in Reqs : q # r => req'[q] = req[q]
          /\ req'[r] = [pc |-> "poll", inst |-> req[r].inst, token |-> req[r].token]
      BY <1>4, <1>a, <2>2 DEF ExecuteAtomicRotation, Becomes, caches
    <3>2. PICK t : t = req[r].token
      OBVIOUS
    <3>3. ~Live(t)'
      BY <2>2, <3>1, <3>2 DEF Live, Row
    <3>4. Spares(req[r])'
      BY <3>1, <3>2, <3>3 DEF Spares
    <3> QED  BY <3>1, <3>4, SurvivalMoves
  <2> QED  BY <2>1, <2>2
<1>5. ASSUME NEW r \in Reqs, CacheInMemory(r)
      PROVE  Survival'
  <2>1. /\ session' = session /\ excused' = excused /\ shared' = shared
        /\ \A q \in Reqs : q # r => req'[q] = req[q]
    BY <1>5, <1>a DEF CacheInMemory, Becomes, history
  <2>2. req'[r].pc = "redis" /\ req'[r].token = req[r].token
    BY <1>5, <1>a, ReqTypes DEF CacheInMemory, Becomes, Base
  <2>3. \A t \in Tokens : WinnerAtWork(t) => WinnerAtWork(t)'
    BY <1>5, <2>1, <2>2 DEF WinnerAtWork
  <2>4. Spares(req[r])'
    BY <2>2 DEF Spares
  <2> QED  BY <2>1, <2>3, <2>4, SurvivalElsewhere
<1>6. ASSUME NEW r \in Reqs, CacheInRedis(r)
      PROVE  Survival'
  <2>1. PICK t \in Tokens, new \in Tokens : t = req[r].token /\ new = req[r].new
    BY <1>6, AskedIsRow, ReqTypes DEF CacheInRedis, Base
  <2>2. /\ session' = session /\ excused \subseteq excused' /\ shared \subseteq shared'
        /\ \A q \in Reqs : q # r => req'[q] = req[q]
        /\ req'[r] = Idle
        /\ <<t, new>> \in shared' \/ Family(t) \in excused'
    BY <1>6, <1>a, <2>1 DEF CacheInRedis, Ends, Becomes
  <2>3. Spares(req[r])'
    BY <2>2 DEF Spares, Idle
  <2>4. ASSUME NEW u \in Tokens, Family(u) \notin excused', WinnerAtWork(u)
        PROVE  WinnerAtWork(u)' \/ \E pair \in shared' : pair[1] = u
    <3>1. CASE u = t
      BY <2>2, <2>4, <3>1
    <3>2. CASE u # t
      BY <2>1, <2>2, <2>4, <3>2 DEF WinnerAtWork
    <3> QED  BY <3>1, <3>2
  <2> QED  BY <2>2, <2>3, <2>4, SurvivalElsewhere
<1>7. ASSUME NEW r \in Reqs, PollFinds(r)
      PROVE  Survival'
  <2>1. /\ session' = session /\ excused \subseteq excused' /\ shared' = shared
        /\ req[r].pc \notin {"memory", "redis"}
        /\ \A q \in Reqs : q # r => req'[q] = req[q]
        /\ req'[r] = Idle
    BY <1>7, <1>a DEF PollFinds, Ends, Becomes, caches, history
  <2>2. Spares(req[r])'
    BY <2>1 DEF Spares, Idle
  <2> QED  BY <2>1, <2>2, SurvivalMoves
<1>8. ASSUME NEW r \in Reqs, PollGivesUp(r)
      PROVE  Survival'
  <2>1. PICK t \in Tokens, f \in Families : t = req[r].token /\ f = Family(t)
    BY <1>8, AskedIsRow DEF PollGivesUp
  <2>2. /\ session' = session /\ excused \subseteq excused' /\ shared' = shared
        /\ req[r].pc = "poll"
        /\ \A q \in Reqs : q # r => req'[q] = req[q]
        /\ req'[r] = [pc |-> "revoke", inst |-> req[r].inst, families |-> {f}]
    BY <1>8, <1>a, <2>1 DEF PollGivesUp, Becomes, caches
  <2>3. f \in excused'
    <3>1. CASE f \in excused
      BY <2>2, <3>1
    <3>2. CASE f \notin excused
      <4>1. Row(t) /\ ~Live(t)
        BY <1>8, <2>1, AskedIsRow DEF PollGivesUp, Survival, Spares
      <4>2. WinnerAtWork(t) \/ \E pair \in shared : pair[1] = t
        BY <2>1, <3>2, <4>1 DEF Survival, Answered
      <4> QED  BY <1>8, <2>1, <4>2 DEF PollGivesUp, Cached
    <3> QED  BY <3>1, <3>2
  <2>4. Spares(req[r])'
    BY <2>2, <2>3 DEF Spares
  <2> QED  BY <2>2, <2>4, SurvivalMoves
<1>9. ASSUME NEW r \in Reqs, NEW i \in Instances, NEW t \in Tokens, SignOut(r, i, t)
      PROVE  Survival'
  <2>1. /\ session' = session /\ excused \subseteq excused' /\ shared' = shared
        /\ req[r].pc \notin {"memory", "redis"}
        /\ \A q \in Reqs : q # r => req'[q] = req[q]
        /\ req'[r] = [pc |-> "forget", inst |-> i, token |-> t]
        /\ Family(t) \in excused' /\ Family(t)' = Family(t)
    BY <1>9, <1>a DEF SignOut, Becomes, Idle, Family
  <2>2. Spares(req[r])'
    BY <2>1 DEF Spares
  <2> QED  BY <2>1, <2>2, SurvivalMoves
<1>10. ASSUME NEW r \in Reqs, Forget(r)
       PROVE  Survival'
  <2>1. PICK t \in Tokens, f \in Families : t = req[r].token /\ f = Family(t)
    BY <1>10, AskedIsRow DEF Forget
  <2>2. /\ session' = session /\ excused' = excused
        /\ \A pair \in shared : pair[1] # t => pair \in shared'
        /\ req[r].pc = "forget"
        /\ \A q \in Reqs : q # r => req'[q] = req[q]
        /\ req'[r] = [pc |-> "revoke", inst |-> req[r].inst, families |-> {f}]
    BY <1>10, <1>a, <2>1 DEF Forget, Becomes, history
  <2>3. f \in excused
    BY <2>1, <2>2 DEF Survival, Spares
  <2>4. Spares(req[r])'
    BY <2>2, <2>3 DEF Spares
  <2>5. \A u \in Tokens : WinnerAtWork(u) => WinnerAtWork(u)'
    BY <2>2, WinnerStays
  <2>6. \A u \in Tokens : Family(u) \notin excused' /\ (\E pair \in shared : pair[1] = u)
                          => \E pair \in shared' : pair[1] = u
    BY <2>1, <2>2, <2>3
  <2> QED  BY <2>2, <2>4, <2>5, <2>6, SurvivalElsewhere
<1>11. ASSUME NEW r \in Reqs, NEW i \in Instances, NEW families \in SUBSET Families,
              EndFamilies(r, i, families)
       PROVE  Survival'
  <2>1. /\ session' = session /\ excused' = excused \cup families /\ shared' = shared
        /\ req[r].pc \notin {"memory", "redis"}
        /\ \A q \in Reqs : q # r => req'[q] = req[q]
        /\ req'[r] = [pc |-> "revoke", inst |-> i, families |-> families]
    BY <1>11, <1>a DEF EndFamilies, Becomes, Idle, caches
  <2>2. Spares(req[r])'
    BY <2>1 DEF Spares
  <2> QED  BY <2>1, <2>2, SurvivalMoves
<1>12. ASSUME NEW r \in Reqs, StartRevoking(r)
       PROVE  Survival'
  <2>1. PICK families, rows :
            /\ families = req[r].families
            /\ rows = {t \in Tokens : Live(t) /\ Family(t) \in families}
    OBVIOUS
  <2>2. /\ session' = session /\ excused' = excused /\ shared' = shared
        /\ req[r].pc = "revoke"
        /\ \A q \in Reqs : q # r => req'[q] = req[q]
        /\ req'[r] = [pc |-> "apply", inst |-> req[r].inst, families |-> families, rows |-> rows]
    BY <1>12, <1>a, <2>1 DEF StartRevoking, Becomes, caches, history
  <2>3. families \subseteq excused'
    BY <2>1, <2>2 DEF Survival, Spares
  <2>4. \A t \in rows : Family(t)' \in families
    BY <2>1, <2>2 DEF Family
  <2>5. Spares(req[r])'
    BY <2>2, <2>3, <2>4 DEF Spares
  <2> QED  BY <2>2, <2>5, SurvivalMoves
<1>13. ASSUME NEW t \in Tokens, Age(t)
       PROVE  Survival'
  <2>1. session' = session /\ excused \subseteq excused' /\ shared' = shared /\ req' = req
    BY <1>13 DEF Age, caches
  <2>2. \A u \in Tokens : WinnerAtWork(u) => WinnerAtWork(u)'
    BY <2>1 DEF WinnerAtWork
  <2> QED  BY <2>1, <2>2, SurvivalElsewhere
<1>14. ASSUME NEW i \in Instances, Stop(i)
       PROVE  Survival'
  <2>1. /\ session' = session /\ excused \subseteq excused' /\ shared' = shared
        /\ \A r \in Reqs : req'[r] = IF req[r] # Idle /\ req[r].inst = i THEN Idle ELSE req[r]
        /\ \A r \in Reqs : req[r].pc \in {"memory", "redis"} /\ req[r].inst = i
                               => Family(req[r].token) \in excused'
    BY <1>14 DEF Stop
  <2>2. \A r \in Reqs : req'[r] = req[r] \/ Spares(req[r])'
    BY <2>1 DEF Spares, Idle
  <2>3. \A u \in Tokens : Family(u) \notin excused' /\ WinnerAtWork(u) => WinnerAtWork(u)'
    BY <2>1 DEF WinnerAtWork
  <2> QED  BY <2>1, <2>2, <2>3, SurvivalElsewhere
<1>15. CASE UNCHANGED vars
  <2>1. session' = session /\ excused' = excused /\ shared' = shared /\ req' = req
    BY <1>15 DEF vars, caches, history
  <2>2. \A u \in Tokens : WinnerAtWork(u) => WinnerAtWork(u)'
    BY <2>1 DEF WinnerAtWork
  <2> QED  BY <2>1, <2>2, SurvivalElsewhere
<1> QED
  BY <1>1, <1>2, <1>3, <1>4, <1>5, <1>6, <1>7, <1>8, <1>9, <1>10, <1>11, <1>12, <1>13, <1>14,
     <1>15 DEF Next, Refresh, End

\* A client that only races with itself is never signed out: a family without an excuse
\* has a live row.
THEOREM HonestClientsStay == Spec => []HonestFamilySurvives
<1>1. Init => Base /\ Survival
  <2>1. Init => Survival
    BY DEF Init, Survival, HonestFamilySurvives, Started, Spares, Answered, Row, Idle
  <2> QED  BY <2>1, BaseInit
<1>2. Base /\ Survival /\ [Next]_vars => (Base /\ Survival)'
  BY BaseStep, SurvivalStep
<1>3. Survival => HonestFamilySurvives
  BY DEF Survival
<1> QED
  BY <1>1, <1>2, <1>3, PTL DEF Spec

=============================================================================
