------------------------- MODULE MatchmakingProofs -------------------------
(***************************************************************************)
(* What the steps of Matchmaking preserve, for every number of users,      *)
(* identities and requests and whoever owns the identities meanwhile; what *)
(* holds while one request is handled at a time and no event is under way; *)
(* and that users who like each other are matched once nothing is in       *)
(* progress.                                                               *)
(***************************************************************************)
EXTENDS Matchmaking, FiniteSetTheorems, TLAPS

-----------------------------------------------------------------------------
(* Types.                                                                  *)

LikeStatuses == {"PENDING", "MATCHED", "WITHDRAWN", "VOIDED", "DELETED"}

LEMMA Sizes ==
    /\ MaxTime \in Nat /\ ExpiryDays \subseteq Nat /\ NoOwner \notin Users
    /\ InitialOwner \in [Identities -> Users \cup {NoOwner}]
    /\ Rank \in [Users -> Nat]
BY MatchmakingAssumption

LEMMA NoRowIsNone ==
    /\ NoRow.status = "NONE"
    /\ NoRow \notin LikeRows
    /\ NoRow \notin MatchRows
    /\ \A row \in LikeRows : row.status \in LikeStatuses
BY DEF NoRow, LikeRows, MatchRows, LikeStatuses

\* What a request or a resolution in progress knows, by its next step.
Knows(q) ==
    /\ q.pc \in {"idle", "write", "commit", "find", "check", "match", "delete", "unmatch"}
    /\ q.pc \in {"write", "commit", "find", "check", "match", "delete"} => q.like \in LikeIds
    /\ q.pc \in {"write", "commit", "find", "check"} => q.intent \in Intents
    /\ q.pc \in {"write", "commit"} => q.expires \in Nat
    /\ q.pc \in {"commit", "find"} => q.target \in Users \cup {NoOwner}
    /\ q.pc \in {"find", "check", "match", "delete"} => Row(q.like)
    /\ q.pc \in {"check", "match"} => q.target \in Users /\ q.reverse \in LikeIds /\ Row(q.reverse)
    /\ q.pc = "check" => q.reverseIntent \in Intents
    /\ q.pc = "unmatch" => /\ q.pair \in Pairs /\ q.user \in Users /\ matches[q.pair] # NoRow
                           /\ q.mine \in LikeIds /\ Row(q.mine)
                           /\ q.other \in LikeIds /\ Row(q.other)

\* The tables.
Tables ==
    /\ owner \in [Identities -> Users \cup {NoOwner}]
    /\ hidden \subseteq Identities
    /\ likes \in [LikeIds -> LikeRows \cup {NoRow}]
    /\ matches \in [Pairs -> MatchRows \cup {NoRow}]
    /\ \A pair \in Pairs : matches[pair] # NoRow =>
          Row(matches[pair].by[1]) /\ Row(matches[pair].by[2])
    /\ charged \in [LikeIds -> Nat]

\* Everything else.
Others ==
    /\ blocks \subseteq Users \X Users
    /\ claims \subseteq Users
    /\ jobs \subseteq [like : LikeIds, intent : Intents, target : Users]
    /\ \A job \in jobs : Row(job.like)
    /\ now \in 0 .. MaxTime /\ boot \in 0 .. now
    /\ ever \in [Identities -> SUBSET Users]
    /\ departed \in [Pairs -> SUBSET Users]
    /\ late \subseteq LikeIds

Requests == req = [r \in Reqs |-> req[r]] /\ \A r \in Reqs : Knows(req[r])

Typed == Tables /\ Others /\ Requests

LEMMA TypedIsTypeOK == Typed => TypeOK
BY DEF Typed, Tables, Others, Requests, Knows, TypeOK

LEMMA RowFields ==
    ASSUME Tables, NEW l \in LikeIds
    PROVE  /\ Row(l) <=> likes[l] \in LikeRows
           /\ Row(l) <=> likes[l].status \in LikeStatuses
BY NoRowIsNone DEF Tables, Row, LikeStatuses

LEMMA CountedUp ==
    ASSUME NEW S, NEW f \in [S -> Nat], NEW k \in S
    PROVE  LET g == [f EXCEPT ![k] = @ + 1]
           IN g \in [S -> Nat] /\ g[k] = f[k] + 1 /\ \A x \in S \ {k} : g[x] = f[x]
<1>1. f[k] \in Nat /\ f[k] + 1 \in Nat
  OBVIOUS
<1> QED
  BY <1>1

\* A pair has its two users, and theirs are the likes of its match.
LEMMA PairUsers ==
    ASSUME NEW u \in Users, NEW v \in Users
    PROVE  {u, v} \in Pairs
BY DEF Pairs

LEMMA OfPair ==
    ASSUME NEW pair \in Pairs
    PROVE  pair \subseteq Users /\ \E u, v \in Users : pair = {u, v}
BY DEF Pairs

LEMMA OfLike ==
    ASSUME NEW l \in LikeIds
    PROVE  l[1] \in Users /\ l[2] \in Identities /\ l = <<l[1], l[2]>>
BY DEF LikeIds

LEMMA OfMatch ==
    ASSUME Tables, NEW pair \in Pairs, matches[pair] # NoRow
    PROVE  /\ matches[pair] \in MatchRows
           /\ matches[pair].status \in {"ACTIVE", "UNMATCHED"}
           /\ matches[pair].by \in LikeIds \X LikeIds
           /\ matches[pair].by[1] \in LikeIds /\ Row(matches[pair].by[1])
           /\ matches[pair].by[2] \in LikeIds /\ Row(matches[pair].by[2])
<1>1. /\ matches[pair] \in MatchRows
      /\ Row(matches[pair].by[1]) /\ Row(matches[pair].by[2])
  BY DEF Tables
<1> QED
  BY <1>1 DEF MatchRows

LEMMA ActiveIsRow ==
    ASSUME NEW pair, ActiveMatch(pair)
    PROVE  matches[pair] # NoRow /\ matches[pair].status = "ACTIVE"
BY DEF ActiveMatch, NoRow

LEMMA StatusSet ==
    ASSUME NEW f \in [LikeIds -> LikeRows \cup {NoRow}], NEW l \in LikeIds, f[l].status # "NONE",
           NEW s \in LikeStatuses
    PROVE  LET g == [f EXCEPT ![l].status = s]
           IN /\ g \in [LikeIds -> LikeRows \cup {NoRow}]
              /\ g[l] \in LikeRows /\ g[l].status = s /\ g[l].intent = f[l].intent
              /\ \A k \in LikeIds : k # l => g[k] = f[k]
<1>1. f[l] \in LikeRows
  BY NoRowIsNone
<1>2. PICK row : row = [f[l] EXCEPT !.status = s]
  OBVIOUS
<1>3. row \in LikeRows /\ row.status = s /\ row.intent = f[l].intent
  BY <1>1, <1>2 DEF LikeRows, LikeStatuses
<1>4. [f EXCEPT ![l].status = s] = [f EXCEPT ![l] = row]
  BY <1>2
<1> QED
  BY <1>3, <1>4

-----------------------------------------------------------------------------
(* Rows are written over, never removed: what a request knows stays true.  *)

RowsStay ==
    /\ \A l \in LikeIds : Row(l) => Row(l)'
    /\ \A pair \in Pairs : matches[pair] # NoRow => matches'[pair] # NoRow

LEMMA KnowsStays ==
    ASSUME NEW q, Knows(q), RowsStay
    PROVE  Knows(q)'
BY DEF Knows, RowsStay, Row

LEMMA IdleKnows == Knows(Idle) /\ Knows(Idle)'
BY DEF Knows, Idle

LEMMA OneRequest ==
    ASSUME Requests, RowsStay, NEW r \in Reqs, NEW q, Knows(q)', req' = [req EXCEPT ![r] = q]
    PROVE  Requests'
<1>1. req' = [s \in Reqs |-> req'[s]]
  BY DEF Requests
<1>2. ASSUME NEW s \in Reqs PROVE Knows(req[s])'
  <2>1. CASE s = r
    <3>1. req'[s] = q
      BY <2>1 DEF Requests
    <3> QED
      BY <3>1 DEF Knows, Row
  <2>2. CASE s # r
    <3>1. PICK p : p = req[s]
      OBVIOUS
    <3>2. req'[s] = p
      BY <2>2, <3>1 DEF Requests
    <3>3. Knows(p)'
      BY <3>1, KnowsStays DEF Requests
    <3> QED
      BY <3>2, <3>3 DEF Knows, Row
  <2> QED
    BY <2>1, <2>2
<1> QED
  BY <1>1, <1>2 DEF Requests

LEMMA SameRequests ==
    ASSUME Requests, RowsStay, req' = req
    PROVE  Requests'
<1>1. ASSUME NEW s \in Reqs PROVE Knows(req[s])'
  <2>1. PICK p : p = req[s]
    OBVIOUS
  <2>2. Knows(p)'
    BY <2>1, KnowsStays DEF Requests
  <2> QED
    BY <2>1, <2>2 DEF Knows, Row
<1> QED
  BY <1>1 DEF Requests

LEMMA SameTables ==
    ASSUME Tables, UNCHANGED rows
    PROVE  Tables' /\ RowsStay
BY DEF Tables, rows, Row, RowsStay

LEMMA NewRequest ==
    ASSUME Typed, UNCHANGED rows, Others', NEW r \in Reqs, NEW q, Knows(q),
           req' = [req EXCEPT ![r] = q]
    PROVE  Typed'
<1>1. Tables' /\ RowsStay
  BY SameTables DEF Typed
<1>2. Knows(q)'
  BY <1>1, KnowsStays
<1> QED
  BY <1>1, <1>2, OneRequest DEF Typed

LEMMA Ended ==
    ASSUME Tables', RowsStay, Requests, Others', NEW r \in Reqs, Ends(r)
    PROVE  Typed'
BY IdleKnows, OneRequest DEF Ends, Typed

-----------------------------------------------------------------------------
(* Every action keeps the types.                                           *)

LEMMA OthersStay ==
    ASSUME Others, Tables, RowsStay,
           UNCHANGED <<blocks, claims, jobs, now, boot, ever, departed, late>>
    PROVE  Others'
BY DEF Others, Tables, Row, RowsStay

LEMMA StartLikeTyped ==
    ASSUME Typed, NEW r \in Reqs, NEW l \in LikeIds, NEW intent \in Intents,
           NEW days \in ExpiryDays, StartLike(r, l, intent, days)
    PROVE  Typed'
<1>1. UNCHANGED <<rows, claims, jobs, now, boot, history>>
  BY DEF StartLike
<1>2. Others'
  BY <1>1, SameTables, OthersStay DEF Typed, rows, history
<1>3. PICK q : q = [pc |-> "write", like |-> l, intent |-> intent, reuse |-> IsReusable(l),
                    expires |-> IF days = 0 THEN Never ELSE now + days]
  OBVIOUS
<1>4. req' = [req EXCEPT ![r] = q]
  BY <1>3 DEF StartLike
<1>5. q.expires \in Nat
  BY <1>3, Sizes DEF Typed, Others, Never
<1>6. Knows(q)
  BY <1>3, <1>5 DEF Knows
<1> QED
  BY <1>1, <1>2, <1>4, <1>6, NewRequest

LEMMA WriteLikeTyped ==
    ASSUME Typed, NEW r \in Reqs, WriteLike(r)
    PROVE  Typed'
<1>1. UNCHANGED <<rows, claims, jobs, now, boot, history>>
  BY DEF WriteLike
<1>2. Others'
  BY <1>1, SameTables, OthersStay DEF Typed, rows, history
<1>3. PICK p : p = req[r]
  OBVIOUS
<1>4. p.pc = "write" /\ Knows(p)
  BY <1>3 DEF Typed, Requests, WriteLike
<1>5. PICK q : q = [pc |-> "commit", like |-> p.like, intent |-> p.intent, reuse |-> p.reuse,
                    expires |-> p.expires, target |-> owner[p.like[2]]]
  OBVIOUS
<1>6. req' = [req EXCEPT ![r] = q]
  BY <1>3, <1>5 DEF WriteLike, Typed, Requests
<1>7. p.like \in LikeIds /\ p.intent \in Intents /\ p.expires \in Nat
  BY <1>4 DEF Knows
<1>8. q.target \in Users \cup {NoOwner}
  BY <1>5, <1>7, OfLike DEF Typed, Tables
<1>9. Knows(q)
  BY <1>5, <1>7, <1>8 DEF Knows
<1> QED
  BY <1>1, <1>2, <1>6, <1>9, NewRequest

\* New tables in which no row is lost, and every match changed is one of likes.
LEMMA TablesKept ==
    ASSUME Tables, owner' \in [Identities -> Users \cup {NoOwner}],
           likes' \in [LikeIds -> LikeRows \cup {NoRow}],
           \A l \in LikeIds : Row(l) => Row(l)',
           hidden' \subseteq Identities,
           matches' = [pair \in Pairs |-> matches'[pair]],
           \A pair \in Pairs :
              \/ matches'[pair] = matches[pair]
              \/ /\ matches'[pair] \in MatchRows
                 /\ Row(matches[pair].by[1])' /\ Row(matches[pair].by[2])',
           charged' \in [LikeIds -> Nat]
    PROVE  Tables' /\ RowsStay
<1>1. ASSUME NEW pair \in Pairs, matches'[pair] # NoRow
      PROVE  /\ matches'[pair] \in MatchRows
             /\ Row(matches[pair].by[1])' /\ Row(matches[pair].by[2])'
  <2>1. CASE matches'[pair] = matches[pair]
    <3>1. PICK m : m = matches[pair]
      OBVIOUS
    <3>2. /\ m \in MatchRows
          /\ m.by[1] \in LikeIds /\ Row(m.by[1]) /\ m.by[2] \in LikeIds /\ Row(m.by[2])
      BY <1>1, <2>1, <3>1, OfMatch
    <3> QED
      BY <2>1, <3>1, <3>2 DEF Row
  <2>2. CASE matches'[pair] # matches[pair]
    BY <2>2 DEF Row
  <2> QED
    BY <2>1, <2>2
<1>2. Tables'
  <2>1. matches' \in [Pairs -> MatchRows \cup {NoRow}]
    BY <1>1
  <2> QED
    BY <1>1, <2>1 DEF Tables, Row
<1>3. \A pair \in Pairs : matches[pair] # NoRow => matches'[pair] # NoRow
  BY NoRowIsNone
<1> QED
  BY <1>2, <1>3 DEF RowsStay

\* A like that is written has a row afterwards.
LEMMA LikeWritten ==
    ASSUME Tables, NEW l \in LikeIds, NEW row \in LikeRows,
           likes' = [likes EXCEPT ![l] = row], UNCHANGED <<owner, hidden, matches>>,
           charged' \in [LikeIds -> Nat]
    PROVE  Tables' /\ RowsStay /\ Row(l)'
<1>1. likes' \in [LikeIds -> LikeRows \cup {NoRow}] /\ likes'[l] = row
      /\ \A k \in LikeIds : k # l => likes'[k] = likes[k]
  BY DEF Tables
<1>2. row.status # "NONE"
  BY NoRowIsNone DEF LikeStatuses
<1>3. \A k \in LikeIds : Row(k) => Row(k)'
  BY <1>1, <1>2 DEF Row
<1>4. /\ owner' \in [Identities -> Users \cup {NoOwner}]
      /\ hidden' \subseteq Identities
      /\ matches' = [pair \in Pairs |-> matches'[pair]]
  BY DEF Tables
<1>5. Tables' /\ RowsStay
  BY <1>1, <1>3, <1>4, TablesKept
<1> QED
  BY <1>1, <1>2, <1>5 DEF Row

LEMMA CommitLikeTyped ==
    ASSUME Typed, NEW r \in Reqs, CommitLike(r)
    PROVE  Typed'
<1>1. PICK p : p = req[r]
  OBVIOUS
<1>2. p.pc = "commit" /\ Knows(p)
  BY <1>1 DEF Typed, Requests, CommitLike
<1>3. PICK l : l = p.like
  OBVIOUS
<1>4. l \in LikeIds /\ p.intent \in Intents /\ p.expires \in Nat
      /\ p.target \in Users \cup {NoOwner}
  BY <1>2, <1>3 DEF Knows
<1>5. UNCHANGED <<owner, hidden, matches, blocks, claims, jobs, now, boot, used, ever>>
  BY DEF CommitLike
<1>6. CASE Ends(r) /\ UNCHANGED <<likes, charged, departed, late>>
  <2>1. Tables' /\ RowsStay
    BY <1>5, <1>6, SameTables DEF Typed, rows
  <2>2. Others'
    BY <1>5, <1>6, <2>1, OthersStay DEF Typed
  <2> QED
    BY <1>6, <2>1, <2>2, Ended DEF Typed
<1>7. ASSUME ~(Ends(r) /\ UNCHANGED <<likes, charged, departed, late>>)
      PROVE  Typed'
  <2>1. PICK row : row = [status |-> "PENDING", intent |-> p.intent,
                          expires |-> p.expires, deleted |-> FALSE]
    OBVIOUS
  <2>2. row \in LikeRows
    BY <1>4, <2>1 DEF LikeRows
  <2>3. PICK q : q = [pc |-> "find", like |-> l, intent |-> p.intent, target |-> p.target]
    OBVIOUS
  <2>4. /\ likes' = [likes EXCEPT ![l] = row]
        /\ charged' = [charged EXCEPT ![l] = @ + 1]
        /\ departed' = [pair \in Pairs |-> IF \E v \in ever[l[2]] : pair = {l[1], v}
                                           THEN departed[pair] \ {l[1]} ELSE departed[pair]]
        /\ late' = IF owner[l[2]] = p.target THEN late \ {l} ELSE late \cup {l}
        /\ req' = [req EXCEPT ![r] = q]
    BY <1>1, <1>3, <1>7, <2>1, <2>3 DEF CommitLike, Typed, Requests
  <2>5. charged' \in [LikeIds -> Nat]
    BY <1>4, <2>4, CountedUp DEF Typed, Tables
  <2>6. Tables' /\ RowsStay /\ Row(l)'
    BY <1>4, <1>5, <2>2, <2>4, <2>5, LikeWritten DEF Typed
  <2>7. departed' \in [Pairs -> SUBSET Users] /\ late' \subseteq LikeIds
    BY <1>4, <2>4 DEF Typed, Others
  <2>8. Others'
    BY <1>5, <2>6, <2>7 DEF Typed, Others, Row, RowsStay
  <2>9. Knows(q)'
    BY <1>4, <2>3, <2>6 DEF Knows, Row
  <2> QED
    BY <2>4, <2>6, <2>8, <2>9, OneRequest DEF Typed
<1> QED
  BY <1>6, <1>7

LEMMA FindReverseTyped ==
    ASSUME Typed, NEW r \in Reqs, FindReverse(r)
    PROVE  Typed'
<1>1. UNCHANGED <<rows, claims, jobs, now, boot, history>>
  BY DEF FindReverse
<1>2. Others' /\ Tables' /\ RowsStay
  BY <1>1, SameTables, OthersStay DEF Typed, rows, history
<1>3. PICK p : p = req[r]
  OBVIOUS
<1>4. p.pc = "find" /\ Knows(p)
  BY <1>3 DEF Typed, Requests, FindReverse
<1>5. CASE Ends(r)
  BY <1>2, <1>5, Ended DEF Typed
<1>6. ASSUME NEW l \in LikeIds, p.target # NoOwner, l \in ReverseLikes(p.like[1], p.target),
             req' = [req EXCEPT ![r] =
                       [pc |-> "check", like |-> p.like, intent |-> p.intent,
                        target |-> p.target, reverse |-> l, reverseIntent |-> likes[l].intent]]
      PROVE  Typed'
  <2>1. likes[l].status \in {"PENDING", "VOIDED"}
    BY <1>6 DEF ReverseLikes
  <2>2. Row(l) /\ likes[l] \in LikeRows
    BY <2>1, RowFields DEF Typed, Row
  <2>3. PICK q : q = [pc |-> "check", like |-> p.like, intent |-> p.intent,
                      target |-> p.target, reverse |-> l, reverseIntent |-> likes[l].intent]
    OBVIOUS
  <2>4. likes[l].intent \in Intents
    BY <2>2 DEF LikeRows
  <2>5. Knows(q)
    BY <1>4, <1>6, <2>2, <2>3, <2>4 DEF Knows
  <2> QED
    BY <1>1, <1>2, <1>6, <2>3, <2>5, NewRequest
<1>7. ASSUME ~Ends(r) PROVE \E l \in LikeIds :
         /\ p.target # NoOwner /\ l \in ReverseLikes(p.like[1], p.target)
         /\ req' = [req EXCEPT ![r] =
                      [pc |-> "check", like |-> p.like, intent |-> p.intent,
                       target |-> p.target, reverse |-> l, reverseIntent |-> likes[l].intent]]
  BY <1>3, <1>7 DEF FindReverse, ReverseLikes, Typed, Requests
<1> QED
  BY <1>5, <1>6, <1>7

LEMMA CheckEligibilityTyped ==
    ASSUME Typed, NEW r \in Reqs, CheckEligibility(r)
    PROVE  Typed'
<1>1. UNCHANGED <<rows, claims, jobs, now, boot, history>>
  BY DEF CheckEligibility
<1>2. Others' /\ Tables' /\ RowsStay
  BY <1>1, SameTables, OthersStay DEF Typed, rows, history
<1>3. PICK p : p = req[r]
  OBVIOUS
<1>4. p.pc = "check" /\ Knows(p)
  BY <1>3 DEF Typed, Requests, CheckEligibility
<1>5. CASE Ends(r)
  BY <1>2, <1>5, Ended DEF Typed
<1>6. CASE ~Ends(r)
  <2>1. PICK q : q = [pc |-> "match", like |-> p.like, target |-> p.target,
                      reverse |-> p.reverse, existing |-> matches[PairOf(p)] # NoRow]
    OBVIOUS
  <2>2. req' = [req EXCEPT ![r] = q]
    BY <1>3, <1>6, <2>1 DEF CheckEligibility
  <2>3. Knows(q)
    BY <1>4, <2>1 DEF Knows
  <2> QED
    BY <1>1, <1>2, <2>2, <2>3, NewRequest
<1> QED
  BY <1>5, <1>6

\* What a step that forms a match does to the tables, of what its request knows.
Forms(p) ==
    /\ matches' = [matches EXCEPT ![PairOf(p)] = [status |-> "ACTIVE", by |-> LikesInOrder(p)]]
    /\ likes' = [l \in LikeIds |-> IF l \in {p.like, p.reverse}
                                   THEN [likes[l] EXCEPT !.status = "MATCHED"]
                                   ELSE likes[l]]

LEMMA FormMatchDoes ==
    ASSUME NEW r \in Reqs, FormMatch(r), NEW p, p = req[r]
    PROVE  /\ p.pc = "match" /\ Ends(r)
           /\ UNCHANGED <<owner, hidden, blocks, charged, claims, jobs, now, boot, used, ever,
                          departed>>
           /\ \/ /\ p.existing \/ matches[PairOf(p)] = NoRow
                 /\ LikesAreFree(p)
                 /\ Forms(p)
                 /\ UNCHANGED late
              \/ /\ ~LikesAreFree(p)
                 /\ late' = late \cup {p.like}
                 /\ UNCHANGED <<matches, likes>>
              \/ /\ ~p.existing /\ matches[PairOf(p)] # NoRow
                 /\ UNCHANGED <<matches, likes, late>>
BY DEF FormMatch, Forms

LEMMA StatusOfRow ==
    ASSUME NEW row \in LikeRows, NEW s \in LikeStatuses
    PROVE  /\ [row EXCEPT !.status = s] \in LikeRows
           /\ [row EXCEPT !.status = s].status = s
           /\ [row EXCEPT !.status = s].intent = row.intent
           /\ [row EXCEPT !.status = s].deleted = row.deleted
           /\ [row EXCEPT !.status = s].expires = row.expires
BY DEF LikeRows, LikeStatuses

LEMMA FormsLikes ==
    ASSUME Tables, NEW p, Knows(p), p.pc = "match", Forms(p), NEW l \in LikeIds
    PROVE  /\ l \in {p.like, p.reverse} =>
                /\ likes'[l] \in LikeRows /\ likes'[l].status = "MATCHED"
                /\ likes'[l].intent = likes[l].intent /\ likes'[l].deleted = likes[l].deleted
           /\ l \notin {p.like, p.reverse} => likes'[l] = likes[l]
<1>1. CASE l \in {p.like, p.reverse}
  <2>1. Row(l) /\ likes[l] \in LikeRows
    BY <1>1, RowFields DEF Knows
  <2>2. PICK row : row = likes[l]
    OBVIOUS
  <2>3. likes'[l] = [row EXCEPT !.status = "MATCHED"]
    BY <1>1, <2>2 DEF Forms
  <2>4. "MATCHED" \in LikeStatuses /\ row \in LikeRows
    BY <2>1, <2>2 DEF LikeStatuses
  <2>5. /\ likes'[l] \in LikeRows /\ likes'[l].status = "MATCHED"
        /\ likes'[l].intent = row.intent /\ likes'[l].deleted = row.deleted
    BY <2>3, <2>4, StatusOfRow
  <2> QED
    BY <1>1, <2>2, <2>5
<1>2. CASE l \notin {p.like, p.reverse}
  BY <1>2 DEF Forms
<1> QED
  BY <1>1, <1>2

LEMMA FormsTables ==
    ASSUME Tables, NEW p, Knows(p), p.pc = "match", Forms(p), UNCHANGED <<owner, hidden, charged>>
    PROVE  /\ Tables' /\ RowsStay
           /\ PairOf(p) \in Pairs
           /\ matches'[PairOf(p)].status = "ACTIVE"
           /\ matches'[PairOf(p)].by = LikesInOrder(p)
           /\ \A pair \in Pairs : pair # PairOf(p) => matches'[pair] = matches[pair]
<1>1. p.like \in LikeIds /\ p.reverse \in LikeIds /\ p.target \in Users
      /\ Row(p.like) /\ Row(p.reverse)
  BY DEF Knows
<1>2. PICK pair : pair = PairOf(p)
  OBVIOUS
<1>3. pair \in Pairs
  BY <1>1, <1>2, OfLike, PairUsers DEF PairOf
<1>4. PICK m : m = [status |-> "ACTIVE", by |-> LikesInOrder(p)]
  OBVIOUS
<1>5. /\ m \in MatchRows /\ m.status = "ACTIVE" /\ m.by = LikesInOrder(p)
      /\ m.by[1] \in {p.like, p.reverse} /\ m.by[2] \in {p.like, p.reverse}
  BY <1>1, <1>4 DEF MatchRows, LikesInOrder
<1>6. matches' = [matches EXCEPT ![pair] = m]
  BY <1>2, <1>4 DEF Forms
<1>7. /\ matches' = [x \in Pairs |-> matches'[x]] /\ matches'[pair] = m
      /\ \A x \in Pairs : x # pair => matches'[x] = matches[x]
  BY <1>3, <1>6 DEF Tables
<1>8. \A l \in LikeIds : likes'[l] \in LikeRows \cup {NoRow} /\ (Row(l) => Row(l)')
  <2> TAKE l \in LikeIds
  <2>1. CASE l \in {p.like, p.reverse}
    BY <2>1, FormsLikes DEF Row
  <2>2. CASE l \notin {p.like, p.reverse}
    BY <2>2, FormsLikes DEF Row, Tables
  <2> QED
    BY <2>1, <2>2
<1>9. likes' \in [LikeIds -> LikeRows \cup {NoRow}]
  <2>1. likes' = [l \in LikeIds |-> likes'[l]]
    BY DEF Forms
  <2> QED
    BY <1>8, <2>1
<1>10. Row(matches[pair].by[1])' /\ Row(matches[pair].by[2])'
  BY <1>1, <1>5, <1>7, <1>8 DEF Row
<1>11. /\ owner' \in [Identities -> Users \cup {NoOwner}] /\ hidden' \subseteq Identities
       /\ charged' \in [LikeIds -> Nat]
  BY DEF Tables
<1>12. Tables' /\ RowsStay
  <2>1. \A x \in Pairs : \/ matches'[x] = matches[x]
                         \/ /\ matches'[x] \in MatchRows
                            /\ Row(matches[x].by[1])' /\ Row(matches[x].by[2])'
    BY <1>5, <1>7, <1>10
  <2> QED
    BY <1>7, <1>8, <1>9, <1>11, <2>1, TablesKept
<1> QED
  BY <1>2, <1>3, <1>5, <1>7, <1>12

LEMMA FormMatchTyped ==
    ASSUME Typed, NEW r \in Reqs, FormMatch(r)
    PROVE  Typed'
<1>1. PICK p : p = req[r]
  OBVIOUS
<1>2. Knows(p) /\ p.pc = "match" /\ Ends(r)
      /\ UNCHANGED <<owner, hidden, blocks, charged, claims, jobs, now, boot, used, ever, departed>>
      /\ (Forms(p) \/ UNCHANGED <<matches, likes>>)
      /\ (late' = late \/ late' = late \cup {p.like})
  BY <1>1, FormMatchDoes DEF Typed, Requests
<1>3. Tables' /\ RowsStay
  <2>1. CASE Forms(p)
    BY <1>2, <2>1, FormsTables DEF Typed
  <2>2. CASE UNCHANGED <<matches, likes>>
    BY <1>2, <2>2, SameTables DEF Typed, rows
  <2> QED
    BY <1>2, <2>1, <2>2
<1>4. late' \subseteq LikeIds
  BY <1>2 DEF Typed, Others, Knows
<1>5. Others'
  BY <1>2, <1>3, <1>4 DEF Typed, Others, RowsStay, Row
<1> QED
  BY <1>2, <1>3, <1>5, Ended DEF Typed

LEMMA StartDeleteTyped ==
    ASSUME Typed, NEW r \in Reqs, NEW l \in LikeIds, StartDelete(r, l)
    PROVE  Typed'
<1>1. UNCHANGED <<rows, claims, jobs, now, boot, history>>
  BY DEF StartDelete
<1>2. Others'
  BY <1>1, SameTables, OthersStay DEF Typed, rows, history
<1>3. PICK q : q = [pc |-> "delete", like |-> l]
  OBVIOUS
<1>4. Knows(q) /\ req' = [req EXCEPT ![r] = q]
  BY <1>3 DEF StartDelete, Knows
<1> QED
  BY <1>1, <1>2, <1>4, NewRequest

LEMMA CommitDeleteDoes ==
    ASSUME Typed, NEW r \in Reqs, CommitDelete(r), NEW l, l = req[r].like
    PROVE  /\ l \in LikeIds /\ Row(l)
           /\ \E row \in LikeRows :
                 /\ row.status = "DELETED" /\ row.deleted /\ row.intent = likes[l].intent
                 /\ likes' = [likes EXCEPT ![l] = row]
<1>1. PICK p : p = req[r]
  OBVIOUS
<1>2. p.pc = "delete" /\ Knows(p)
  BY <1>1 DEF Typed, Requests, CommitDelete
<1>3. l \in LikeIds /\ Row(l)
  BY <1>1, <1>2 DEF Knows
<1>4. PICK old : old = likes[l]
  OBVIOUS
<1>5. old \in LikeRows
  BY <1>3, <1>4, RowFields DEF Typed
<1>6. PICK row : row = [old EXCEPT !.status = "DELETED", !.deleted = TRUE]
  OBVIOUS
<1>7. row \in LikeRows /\ row.status = "DELETED" /\ row.deleted /\ row.intent = old.intent
  BY <1>5, <1>6 DEF LikeRows
<1>8. likes' = [likes EXCEPT ![l] = row]
  BY <1>3, <1>4, <1>6 DEF CommitDelete, Typed, Tables
<1> QED
  BY <1>3, <1>4, <1>7, <1>8

LEMMA CommitDeleteTyped ==
    ASSUME Typed, NEW r \in Reqs, CommitDelete(r)
    PROVE  Typed'
<1>1. PICK l : l = req[r].like
  OBVIOUS
<1>2. l \in LikeIds
      /\ \E row \in LikeRows : likes' = [likes EXCEPT ![l] = row]
  BY <1>1, CommitDeleteDoes
<1>3. /\ UNCHANGED <<owner, hidden, matches, blocks, charged, claims, jobs, now, boot, used,
                     history>>
      /\ Ends(r)
  BY DEF CommitDelete
<1>4. Tables' /\ RowsStay
  BY <1>2, <1>3, LikeWritten DEF Typed, Tables
<1>5. Others'
  BY <1>3, <1>4, OthersStay DEF Typed, history
<1> QED
  BY <1>3, <1>4, <1>5, Ended DEF Typed

\* What a request to unmatch has read.
UnmatchRequest(q, u, pair) ==
    /\ q.pc = "unmatch" /\ q.user = u /\ q.pair = pair
    /\ \/ q.mine = matches[pair].by[1] /\ q.other = matches[pair].by[2]
       \/ q.mine = matches[pair].by[2] /\ q.other = matches[pair].by[1]

LEMMA StartUnmatchDoes ==
    ASSUME NEW r \in Reqs, NEW pair \in Pairs, NEW u \in pair, StartUnmatch(r, u, pair)
    PROVE  \E q : UnmatchRequest(q, u, pair) /\ req' = [req EXCEPT ![r] = q]
<1>1. PICK one : one = (\A v \in pair : Rank[u] <= Rank[v])
  OBVIOUS
<1>2. PICK q : q = [pc |-> "unmatch", user |-> u, pair |-> pair,
                    mine  |-> IF one THEN matches[pair].by[1] ELSE matches[pair].by[2],
                    other |-> IF one THEN matches[pair].by[2] ELSE matches[pair].by[1]]
  OBVIOUS
<1>3. req' = [req EXCEPT ![r] = q]
  BY <1>1, <1>2 DEF StartUnmatch
<1>4. UnmatchRequest(q, u, pair)
  BY <1>2 DEF UnmatchRequest
<1> QED
  BY <1>3, <1>4

LEMMA StartUnmatchTyped ==
    ASSUME Typed, NEW r \in Reqs, NEW pair \in Pairs, NEW u \in pair, StartUnmatch(r, u, pair)
    PROVE  Typed'
<1>1. UNCHANGED <<rows, claims, jobs, now, boot, history>>
  BY DEF StartUnmatch
<1>2. Others'
  BY <1>1, SameTables, OthersStay DEF Typed, rows, history
<1>3. matches[pair] # NoRow /\ u \in Users
  BY ActiveIsRow, OfPair DEF StartUnmatch
<1>4. PICK q : UnmatchRequest(q, u, pair) /\ req' = [req EXCEPT ![r] = q]
  BY StartUnmatchDoes
<1>5. Knows(q)
  BY <1>3, <1>4, OfMatch DEF Typed, Knows, UnmatchRequest
<1> QED
  BY <1>1, <1>2, <1>4, <1>5, NewRequest

\* What the commit of an unmatch leaves, of what its request knows.
LEMMA CommitUnmatchDoes ==
    ASSUME Typed, NEW r \in Reqs, CommitUnmatch(r), NEW p, p = req[r]
    PROVE  /\ Knows(p) /\ p.pc = "unmatch"
           /\ likes' \in [LikeIds -> LikeRows \cup {NoRow}]
           /\ \A l \in LikeIds :
                 /\ l \notin {p.mine, p.other} => likes'[l] = likes[l]
                 /\ l = p.other => likes'[l].status = "VOIDED"
                 /\ l = p.mine /\ l # p.other => likes'[l].status = "WITHDRAWN"
                 /\ likes'[l].status # "NONE" <=> Row(l)
                 /\ Row(l) => likes'[l].intent = likes[l].intent
           /\ \E m \in MatchRows :
                 /\ m.status = "UNMATCHED" /\ m.by = matches[p.pair].by
                 /\ matches' = [matches EXCEPT ![p.pair] = m]
           /\ departed' = [departed EXCEPT ![p.pair] = @ \cup {p.user}]
<1>1. Knows(p) /\ p.pc = "unmatch"
  BY DEF Typed, Requests, CommitUnmatch
<1>2. p.mine \in LikeIds /\ Row(p.mine) /\ p.other \in LikeIds /\ Row(p.other)
      /\ p.pair \in Pairs /\ matches[p.pair] # NoRow
  BY <1>1 DEF Knows
<1>3. PICK f : f = [likes EXCEPT ![p.mine].status = "WITHDRAWN"]
  OBVIOUS
<1>4. likes' = [f EXCEPT ![p.other].status = "VOIDED"]
  BY <1>3 DEF CommitUnmatch
<1>5. likes \in [LikeIds -> LikeRows \cup {NoRow}]
  BY DEF Typed, Tables
<1>6. "WITHDRAWN" \in LikeStatuses /\ "VOIDED" \in LikeStatuses
  BY DEF LikeStatuses
<1>7. /\ f \in [LikeIds -> LikeRows \cup {NoRow}]
      /\ f[p.mine] \in LikeRows /\ f[p.mine].status = "WITHDRAWN"
      /\ f[p.mine].intent = likes[p.mine].intent
      /\ \A k \in LikeIds : k # p.mine => f[k] = likes[k]
  BY <1>2, <1>3, <1>5, <1>6, StatusSet DEF Row
<1>8. f[p.other].status # "NONE"
  BY <1>2, <1>7 DEF Row
<1>9. /\ likes' \in [LikeIds -> LikeRows \cup {NoRow}]
      /\ likes'[p.other] \in LikeRows /\ likes'[p.other].status = "VOIDED"
      /\ likes'[p.other].intent = f[p.other].intent
      /\ \A k \in LikeIds : k # p.other => likes'[k] = f[k]
  BY <1>2, <1>4, <1>6, <1>7, <1>8, StatusSet
<1>10. \A l \in LikeIds :
          /\ l \notin {p.mine, p.other} => likes'[l] = likes[l]
          /\ l = p.other => likes'[l].status = "VOIDED"
          /\ l = p.mine /\ l # p.other => likes'[l].status = "WITHDRAWN"
  BY <1>2, <1>7, <1>9
<1>11. \A l \in LikeIds : likes'[l].status # "NONE" <=> Row(l)
  BY <1>2, <1>7, <1>9, <1>10 DEF Row
<1>12. \A l \in LikeIds : Row(l) => likes'[l].intent = likes[l].intent
  BY <1>2, <1>7, <1>9
<1>13. PICK old : old = matches[p.pair]
  OBVIOUS
<1>14. old \in MatchRows
  BY <1>2, <1>13 DEF Typed, Tables
<1>15. PICK m : m = [old EXCEPT !.status = "UNMATCHED"]
  OBVIOUS
<1>16. m \in MatchRows /\ m.status = "UNMATCHED" /\ m.by = old.by
  BY <1>14, <1>15 DEF MatchRows
<1>17. matches' = [matches EXCEPT ![p.pair] = m]
  BY <1>2, <1>13, <1>15 DEF CommitUnmatch, Typed, Tables
<1>18. departed' = [departed EXCEPT ![p.pair] = @ \cup {p.user}]
  BY DEF CommitUnmatch
<1> QED
  BY <1>1, <1>9, <1>10, <1>11, <1>12, <1>13, <1>16, <1>17, <1>18

LEMMA CommitUnmatchTyped ==
    ASSUME Typed, NEW r \in Reqs, CommitUnmatch(r)
    PROVE  Typed'
<1>1. PICK p : p = req[r]
  OBVIOUS
<1>2. PICK m \in MatchRows :
         m.by = matches[p.pair].by /\ matches' = [matches EXCEPT ![p.pair] = m]
  BY <1>1, CommitUnmatchDoes
<1>3. /\ Knows(p) /\ p.pc = "unmatch"
      /\ likes' \in [LikeIds -> LikeRows \cup {NoRow}]
      /\ \A l \in LikeIds : Row(l) => Row(l)'
      /\ departed' = [departed EXCEPT ![p.pair] = @ \cup {p.user}]
  BY <1>1, CommitUnmatchDoes DEF Row
<1>4. p.pair \in Pairs /\ matches[p.pair] # NoRow /\ p.user \in Users
  BY <1>3 DEF Knows
<1>5. UNCHANGED <<owner, hidden, blocks, charged, claims, jobs, now, boot, used, ever, late>>
      /\ Ends(r)
  BY DEF CommitUnmatch
<1>6. /\ matches' = [pair \in Pairs |-> matches'[pair]] /\ matches'[p.pair] = m
      /\ \A pair \in Pairs : pair # p.pair => matches'[pair] = matches[pair]
  BY <1>2, <1>4 DEF Typed, Tables
<1>7. Row(matches[p.pair].by[1])' /\ Row(matches[p.pair].by[2])'
  <2>1. m.by[1] \in LikeIds /\ Row(m.by[1]) /\ m.by[2] \in LikeIds /\ Row(m.by[2])
    BY <1>2, <1>4, OfMatch DEF Typed
  <2> QED
    BY <1>3, <1>6, <2>1 DEF Row
<1>8. Tables' /\ RowsStay
  <2>1. /\ owner' \in [Identities -> Users \cup {NoOwner}] /\ hidden' \subseteq Identities
        /\ charged' \in [LikeIds -> Nat]
    BY <1>5 DEF Typed, Tables
  <2>2. \A pair \in Pairs : \/ matches'[pair] = matches[pair]
                            \/ /\ matches'[pair] \in MatchRows
                               /\ Row(matches[pair].by[1])' /\ Row(matches[pair].by[2])'
    BY <1>2, <1>6, <1>7
  <2> QED
    BY <1>3, <1>6, <2>1, <2>2, TablesKept DEF Typed
<1>9. departed' \in [Pairs -> SUBSET Users]
  BY <1>3, <1>4 DEF Typed, Others
<1>10. Others'
  BY <1>5, <1>8, <1>9 DEF Typed, Others, Row, RowsStay
<1> QED
  BY <1>5, <1>8, <1>10, Ended DEF Typed

LEMMA TakeJobTyped ==
    ASSUME Typed, NEW r \in Reqs, NEW job \in jobs, TakeJob(r, job)
    PROVE  Typed'
<1>1. UNCHANGED <<rows, claims, now, boot, used, history>> /\ jobs' = jobs \ {job}
  BY DEF TakeJob
<1>2. Tables' /\ RowsStay
  BY <1>1, SameTables DEF Typed
<1>3. Others'
  BY <1>1, <1>2 DEF Typed, Others, Row, RowsStay, history, rows
<1>4. PICK q : q = [pc |-> "find", like |-> job.like, intent |-> job.intent,
                    target |-> job.target]
  OBVIOUS
<1>5. job.like \in LikeIds /\ job.intent \in Intents /\ job.target \in Users /\ Row(job.like)
  BY DEF Typed, Others
<1>6. Knows(q) /\ req' = [req EXCEPT ![r] = q]
  BY <1>4, <1>5 DEF TakeJob, Knows
<1> QED
  BY <1>1, <1>3, <1>6, NewRequest

LEMMA BlockTyped ==
    ASSUME Typed, NEW u \in Users, NEW v \in Users, CreateBlock(u, v) \/ DeleteBlock(u, v)
    PROVE  Typed'
<1>1. UNCHANGED <<owner, hidden, likes, matches, charged, req, claims, jobs, now, boot, history>>
      /\ blocks' \subseteq Users \X Users
  BY DEF CreateBlock, DeleteBlock, Typed, Others
<1>2. Tables' /\ RowsStay /\ Others'
  BY <1>1 DEF Typed, Tables, Others, Row, RowsStay, history
<1> QED
  BY <1>1, <1>2, SameRequests DEF Typed

\* What the steps that change who owns an identity leave alone.
LEMMA OwnerStepDoes ==
    ASSUME Typed, NEW u \in Users, NEW i \in Identities,
           \/ ClaimIdentity(u, i) \/ RegisterIdentity(u, i) \/ CreateIdentity(u, i)
           \/ ReleaseIdentity(i) \/ HideIdentities(u)
    PROVE  /\ UNCHANGED <<likes, matches, blocks, charged, req, jobs, now, boot, departed>>
           /\ owner' \in [Identities -> Users \cup {NoOwner}]
           /\ hidden' \subseteq Identities
           /\ \/ Gets(u, i)
              \/ /\ UNCHANGED ever
                 /\ \A j \in Identities : owner'[j] # NoOwner => owner'[j] = owner[j]
           /\ claims' \in {claims, claims \cup {u}}
           /\ late' \in {late, late \cup (Users \X {i})}
<1>1. CASE ClaimIdentity(u, i)
  BY <1>1 DEF ClaimIdentity, Gets, Typed, Tables
<1>2. CASE RegisterIdentity(u, i)
  BY <1>2 DEF RegisterIdentity, Gets, Typed, Tables
<1>3. CASE CreateIdentity(u, i)
  BY <1>3 DEF CreateIdentity, Gets, Typed, Tables
<1>4. CASE ReleaseIdentity(i)
  BY <1>4 DEF ReleaseIdentity, Typed, Tables, history
<1>5. CASE HideIdentities(u)
  BY <1>5 DEF HideIdentities, Typed, Tables, history
<1> QED
  BY <1>1, <1>2, <1>3, <1>4, <1>5

LEMMA OwnerStepTyped ==
    ASSUME Typed, NEW u \in Users, NEW i \in Identities,
           \/ ClaimIdentity(u, i) \/ RegisterIdentity(u, i) \/ CreateIdentity(u, i)
           \/ ReleaseIdentity(i) \/ HideIdentities(u)
    PROVE  Typed'
<1>1. /\ UNCHANGED <<likes, matches, blocks, charged, req, jobs, now, boot, departed>>
      /\ owner' \in [Identities -> Users \cup {NoOwner}] /\ hidden' \subseteq Identities
      /\ Gets(u, i) \/ UNCHANGED ever
      /\ claims' \in {claims, claims \cup {u}}
      /\ late' \in {late, late \cup (Users \X {i})}
  BY OwnerStepDoes
<1>2. Tables' /\ RowsStay
  BY <1>1 DEF Typed, Tables, Row, RowsStay
<1>3. claims' \subseteq Users /\ late' \subseteq LikeIds
  BY <1>1 DEF Typed, Others, LikeIds
<1>4. ever' \in [Identities -> SUBSET Users]
  BY <1>1 DEF Gets, Typed, Others
<1>5. Others'
  BY <1>1, <1>3, <1>4 DEF Typed, Others, Row
<1> QED
  BY <1>1, <1>2, <1>5, SameRequests DEF Typed

LEMMA HandleIdentityClaimedTyped ==
    ASSUME Typed, NEW u \in Users, HandleIdentityClaimed(u)
    PROVE  Typed'
<1>1. UNCHANGED <<rows, req, now, boot, used, history>> /\ claims' \subseteq Users
  BY DEF HandleIdentityClaimed, Typed, Others
<1>2. Tables' /\ RowsStay
  BY <1>1, SameTables DEF Typed
<1>3. ASSUME NEW job \in jobs'
      PROVE  job \in [like : LikeIds, intent : Intents, target : Users] /\ Row(job.like)'
  <2>1. CASE job \in jobs
    BY <1>2, <2>1 DEF Typed, Others, RowsStay
  <2>2. CASE job \notin jobs
    <3>1. PICK l \in LikeIds : /\ Row(l)
                               /\ job = [like |-> l, intent |-> likes[l].intent, target |-> u]
      BY <2>2 DEF HandleIdentityClaimed, IsDuplicate
    <3>2. likes[l].intent \in Intents
      BY <3>1, RowFields DEF Typed, LikeRows
    <3>3. Row(l)'
      BY <1>2, <3>1 DEF RowsStay
    <3> QED
      BY <3>1, <3>2, <3>3 DEF Row
  <2> QED
    BY <2>1, <2>2
<1>4. Others'
  BY <1>1, <1>3 DEF Typed, Others, Row, history, rows
<1> QED
  BY <1>1, <1>2, <1>4, SameRequests DEF Typed

LEMMA TickTyped ==
    ASSUME Typed, Tick
    PROVE  Typed'
<1>1. UNCHANGED <<rows, req, claims, jobs, boot, used, history>> /\ now' \in 0 .. MaxTime
      /\ now' >= now
  BY Sizes DEF Tick, Typed, Others
<1>2. Tables' /\ RowsStay
  BY <1>1, SameTables DEF Typed
<1>3. boot' \in 0 .. now'
  BY <1>1 DEF Typed, Others
<1>4. Others'
  BY <1>1, <1>2, <1>3 DEF Typed, Others, Row, RowsStay, history, rows
<1> QED
  BY <1>1, <1>2, <1>4, SameRequests DEF Typed

LEMMA RestartTyped ==
    ASSUME Typed, Restart
    PROVE  Typed'
<1>1. UNCHANGED <<rows, claims, jobs, now, history>> /\ boot' = now
      /\ req' = [r \in Reqs |-> Idle]
  BY DEF Restart
<1>2. Tables' /\ RowsStay
  BY <1>1, SameTables DEF Typed
<1>3. boot' \in 0 .. now'
  BY <1>1, Sizes DEF Typed, Others
<1>4. Others'
  BY <1>1, <1>2, <1>3 DEF Typed, Others, Row, RowsStay, history, rows
<1>5. ASSUME NEW r \in Reqs PROVE Knows(req[r])'
  <2>1. req'[r] = Idle
    BY <1>1
  <2> QED
    BY <2>1 DEF Knows, Idle
<1>6. Requests'
  BY <1>1, <1>5 DEF Requests
<1> QED
  BY <1>2, <1>4, <1>6 DEF Typed

LEMMA InitTyped ==
    ASSUME Init
    PROVE  Typed
<1>1. Tables
  BY Sizes, NoRowIsNone DEF Init, Tables
<1>2. Others
  BY Sizes DEF Init, Others
<1>3. \A r \in Reqs : req[r] = Idle
  BY DEF Init
<1>4. Requests
  BY <1>3, IdleKnows DEF Init, Requests
<1> QED
  BY <1>1, <1>2, <1>4 DEF Typed

LEMMA NextTyped ==
    ASSUME Typed, [Next]_vars
    PROVE  Typed'
<1>1. CASE \E r \in Reqs : Request(r)
  <2>1. PICK r \in Reqs : Request(r)
    BY <1>1
  <2> QED
    BY <2>1, StartLikeTyped, WriteLikeTyped, CommitLikeTyped, FindReverseTyped,
       CheckEligibilityTyped, FormMatchTyped, StartDeleteTyped, CommitDeleteTyped,
       StartUnmatchTyped, CommitUnmatchTyped, TakeJobTyped DEF Request
<1>2. CASE \E u, v \in Users : CreateBlock(u, v) \/ DeleteBlock(u, v)
  BY <1>2, BlockTyped
<1>3. CASE \E u \in Users : HandleIdentityClaimed(u)
  BY <1>3, HandleIdentityClaimedTyped
<1>7. CASE \E u \in Users, i \in Identities :
              ClaimIdentity(u, i) \/ RegisterIdentity(u, i) \/ CreateIdentity(u, i)
  BY <1>7, OwnerStepTyped
<1>8. CASE \E i \in Identities : ReleaseIdentity(i)
  <2>1. PICK i \in Identities : ReleaseIdentity(i)
    BY <1>8
  <2>2. owner[i] \in Users
    BY <2>1 DEF ReleaseIdentity, Typed, Tables
  <2> QED
    BY <2>1, <2>2, OwnerStepTyped
<1>9. CASE \E u \in Users : HideIdentities(u)
  <2>1. PICK u \in Users : HideIdentities(u)
    BY <1>9
  <2>2. CASE Identities = {}
    <3>1. UNCHANGED <<rows, req, claims, jobs, now, boot, history>>
      BY <2>1, <2>2 DEF HideIdentities, rows, history, Typed, Tables
    <3>2. Tables' /\ RowsStay
      BY <3>1, SameTables DEF Typed
    <3>3. Others'
      BY <3>1, <3>2, OthersStay DEF Typed, rows, history
    <3> QED
      BY <3>1, <3>2, <3>3, SameRequests DEF Typed
  <2>3. CASE Identities # {}
    BY <2>1, <2>3, OwnerStepTyped
  <2> QED
    BY <2>2, <2>3
<1>4. CASE Tick
  BY <1>4, TickTyped
<1>5. CASE Restart
  BY <1>5, RestartTyped
<1>6. CASE UNCHANGED vars
  <2>1. UNCHANGED <<rows, req>> /\ UNCHANGED <<claims, jobs, now, boot, ever, departed, late>>
    BY <1>6 DEF vars, history
  <2>2. Tables' /\ RowsStay
    BY <2>1, SameTables DEF Typed
  <2>3. Others'
    BY <2>1, <2>2, OthersStay DEF Typed, rows
  <2> QED
    BY <2>1, <2>2, <2>3, SameRequests DEF Typed
<1> QED
  BY <1>1, <1>2, <1>3, <1>4, <1>5, <1>6, <1>7, <1>8, <1>9 DEF Next

LEMMA AlwaysTyped == Spec => []Typed
<1>1. Init => Typed
  BY InitTyped
<1>2. Typed /\ [Next]_vars => Typed'
  BY NextTyped
<1> QED
  BY <1>1, <1>2, PTL DEF Spec

\* The tables of likes, matches, blocks and debits, the requests in progress and the
\* messages under way have their types, with any number of requests at once.
THEOREM TypeCorrect == Spec => []TypeOK
BY AlwaysTyped, TypedIsTypeOK, PTL

-----------------------------------------------------------------------------
(* Matches and payments, with any number of requests at once: owners come  *)
(* and go, but that a user has had an identity stays true.                 *)

\* The likes a request holds are for identities that the users it brings together have
\* had.
Aimed(q) ==
    /\ q.pc \in {"commit", "find"} /\ q.target # NoOwner => q.target \in ever[q.like[2]]
    /\ q.pc \in {"check", "match"} => /\ q.target \in ever[q.like[2]]
                                      /\ q.reverse[1] = q.target
                                      /\ q.like[1] \in ever[q.reverse[2]]

Bought == \A l \in LikeIds : Row(l) => charged[l] > 0

\* A match stands on a like of each of its users, each for an identity the other has had,
\* in the order of the users' ids.
RestsOn(by, pair) ==
    /\ pair = {by[1][1], by[2][1]}
    /\ Rank[by[1][1]] <= Rank[by[2][1]]
    /\ by[2][1] \in ever[by[1][2]]
    /\ by[1][1] \in ever[by[2][2]]

OwnersKnown == \A i \in Identities : owner[i] # NoOwner => owner[i] \in ever[i]

Grounds ==
    /\ OwnersKnown
    /\ Bought
    /\ \A pair \in Pairs : matches[pair] # NoRow => RestsOn(matches[pair].by, pair)
    /\ \A r \in Reqs : Aimed(req[r])
    /\ \A job \in jobs : job.target \in ever[job.like[2]]

EverGrows == \A i \in Identities : ever[i] \subseteq ever'[i]

LEMMA AimedStays ==
    ASSUME NEW q, Knows(q), Aimed(q), EverGrows
    PROVE  Aimed(q)'
<1>1. CASE q.pc \in {"commit", "find"}
  <2>1. q.like \in LikeIds /\ q.like[2] \in Identities
    BY <1>1, OfLike DEF Knows
  <2> QED
    BY <1>1, <2>1 DEF Aimed, EverGrows
<1>2. CASE q.pc \in {"check", "match"}
  <2>1. q.like \in LikeIds /\ q.like[2] \in Identities
        /\ q.reverse \in LikeIds /\ q.reverse[2] \in Identities
    BY <1>2, OfLike DEF Knows
  <2> QED
    BY <1>2, <2>1 DEF Aimed, EverGrows
<1> QED
  BY <1>1, <1>2 DEF Aimed

LEMMA IdleAimed == Aimed(Idle) /\ Aimed(Idle)'
BY DEF Aimed, Idle

LEMMA OneAimed ==
    ASSUME Requests, EverGrows, \A s \in Reqs : Aimed(req[s]), NEW r \in Reqs, NEW q, Aimed(q)',
           req' = [req EXCEPT ![r] = q]
    PROVE  \A s \in Reqs : Aimed(req[s])'
<1> TAKE s \in Reqs
<1>1. CASE s = r
  <2>1. req'[s] = q
    BY <1>1 DEF Requests
  <2> QED
    BY <2>1 DEF Aimed
<1>2. CASE s # r
  <2>1. PICK p : p = req[s]
    OBVIOUS
  <2>2. req'[s] = p /\ Knows(p) /\ Aimed(p)
    BY <1>2, <2>1 DEF Requests
  <2> QED
    BY <2>2, AimedStays DEF Aimed
<1> QED
  BY <1>1, <1>2

LEMMA SameAimed ==
    ASSUME Requests, EverGrows, \A s \in Reqs : Aimed(req[s]), req' = req
    PROVE  \A s \in Reqs : Aimed(req[s])'
<1> TAKE s \in Reqs
<1>1. PICK p : p = req[s]
  OBVIOUS
<1>2. req'[s] = p /\ Knows(p) /\ Aimed(p)
  BY <1>1 DEF Requests
<1> QED
  BY <1>2, AimedStays DEF Aimed

\* A match rests on the same likes as long as it keeps them.
LEMMA RestsStays ==
    ASSUME Tables, EverGrows, NEW pair \in Pairs, matches[pair] # NoRow,
           RestsOn(matches[pair].by, pair), matches'[pair].by = matches[pair].by
    PROVE  RestsOn(matches[pair].by, pair)'
<1>1. PICK by : by = matches[pair].by
  OBVIOUS
<1>2. by[1] \in LikeIds /\ by[1][2] \in Identities /\ by[2] \in LikeIds /\ by[2][2] \in Identities
  BY <1>1, OfMatch, OfLike
<1> QED
  BY <1>1, <1>2 DEF RestsOn, EverGrows

LEMMA JobsStay ==
    ASSUME Others, Grounds, EverGrows, jobs' \subseteq jobs
    PROVE  \A job \in jobs' : job.target \in ever'[job.like[2]]
<1> TAKE job \in jobs'
<1>1. job \in jobs /\ job.like \in LikeIds /\ job.target \in ever[job.like[2]]
  BY DEF Others, Grounds
<1>2. job.like[2] \in Identities
  BY <1>1, OfLike
<1> QED
  BY <1>1, <1>2 DEF EverGrows

\* The steps that write neither likes nor matches, but for the requests.
LEMMA GroundsStay ==
    ASSUME Typed, Grounds, EverGrows, OwnersKnown', UNCHANGED <<likes, matches, charged>>,
           jobs' \subseteq jobs, \A s \in Reqs : Aimed(req[s])'
    PROVE  Grounds'
<1>1. Bought'
  BY DEF Grounds, Bought, Row
<1>2. ASSUME NEW pair \in Pairs, matches'[pair] # NoRow PROVE RestsOn(matches[pair].by, pair)'
  BY <1>2, RestsStays DEF Typed, Grounds
<1>3. \A job \in jobs' : job.target \in ever'[job.like[2]]
  BY JobsStay DEF Typed
<1> QED
  BY <1>1, <1>2, <1>3 DEF Grounds

LEMMA RequestMoves ==
    ASSUME Typed, Grounds, UNCHANGED <<rows, ever>>, jobs' \subseteq jobs, NEW r \in Reqs,
           NEW q, Aimed(q), req' = [req EXCEPT ![r] = q]
    PROVE  Grounds'
<1>1. EverGrows /\ OwnersKnown' /\ UNCHANGED <<owner, likes, matches, charged>>
  BY DEF rows, EverGrows, Grounds, OwnersKnown
<1>2. Aimed(q)'
  BY <1>1 DEF Aimed
<1> QED
  BY <1>1, <1>2, OneAimed, GroundsStay DEF Typed, Grounds

LEMMA RequestEnds ==
    ASSUME Typed, Grounds, UNCHANGED <<rows, ever>>, jobs' \subseteq jobs, NEW r \in Reqs, Ends(r)
    PROVE  Grounds'
BY IdleAimed, RequestMoves DEF Ends

LEMMA StartLikeGrounds ==
    ASSUME Typed, Grounds, NEW r \in Reqs, NEW l \in LikeIds, NEW intent \in Intents,
           NEW days \in ExpiryDays, StartLike(r, l, intent, days)
    PROVE  Grounds'
<1>1. PICK q : q = [pc |-> "write", like |-> l, intent |-> intent, reuse |-> IsReusable(l),
                    expires |-> IF days = 0 THEN Never ELSE now + days]
  OBVIOUS
<1>2. Aimed(q)
  BY <1>1 DEF Aimed
<1>3. req' = [req EXCEPT ![r] = q] /\ UNCHANGED <<rows, ever>> /\ jobs' = jobs
  BY <1>1 DEF StartLike, history
<1> QED
  BY <1>2, <1>3, RequestMoves

LEMMA StartDeleteGrounds ==
    ASSUME Typed, Grounds, NEW r \in Reqs, NEW l \in LikeIds, StartDelete(r, l)
    PROVE  Grounds'
<1>1. PICK q : q = [pc |-> "delete", like |-> l]
  OBVIOUS
<1>2. Aimed(q)
  BY <1>1 DEF Aimed
<1>3. req' = [req EXCEPT ![r] = q] /\ UNCHANGED <<rows, ever>> /\ jobs' = jobs
  BY <1>1 DEF StartDelete, history
<1> QED
  BY <1>2, <1>3, RequestMoves

LEMMA StartUnmatchGrounds ==
    ASSUME Typed, Grounds, NEW r \in Reqs, NEW pair \in Pairs, NEW u \in pair,
           StartUnmatch(r, u, pair)
    PROVE  Grounds'
<1>1. UNCHANGED <<rows, ever>> /\ jobs' = jobs
  BY DEF StartUnmatch, history
<1>2. PICK q : UnmatchRequest(q, u, pair) /\ req' = [req EXCEPT ![r] = q]
  BY StartUnmatchDoes
<1>3. Aimed(q)
  BY <1>2 DEF Aimed, UnmatchRequest
<1> QED
  BY <1>1, <1>2, <1>3, RequestMoves

LEMMA WriteLikeGrounds ==
    ASSUME Typed, Grounds, NEW r \in Reqs, WriteLike(r)
    PROVE  Grounds'
<1>1. PICK p : p = req[r]
  OBVIOUS
<1>2. PICK q : q = [pc |-> "commit", like |-> p.like, intent |-> p.intent, reuse |-> p.reuse,
                    expires |-> p.expires, target |-> owner[p.like[2]]]
  OBVIOUS
<1>3. req' = [req EXCEPT ![r] = q] /\ UNCHANGED <<rows, ever>> /\ jobs' = jobs
  BY <1>1, <1>2 DEF WriteLike, history, Typed, Requests
<1>4. p.like[2] \in Identities /\ p.pc = "write"
  BY <1>1, OfLike DEF Typed, Requests, Knows, WriteLike
<1>5. Aimed(q)
  BY <1>2, <1>4 DEF Aimed, Grounds, OwnersKnown
<1> QED
  BY <1>3, <1>5, RequestMoves

\* Who likes an identity of somebody has not left them any more.
Returned(l) ==
    departed' = [pair \in Pairs |-> IF \E v \in ever[l[2]] : pair = {l[1], v}
                                    THEN departed[pair] \ {l[1]} ELSE departed[pair]]

\* The commit of a like writes its row, with a debit, or ends in a duplicate.
LEMMA CommitLikeDoes ==
    ASSUME Typed, NEW r \in Reqs, CommitLike(r), NEW p, p = req[r], NEW l, l = p.like
    PROVE  /\ Knows(p) /\ p.pc = "commit" /\ l \in LikeIds
           /\ UNCHANGED <<owner, hidden, matches, blocks, claims, jobs, now, boot, used, ever>>
           /\ \/ Ends(r) /\ UNCHANGED <<likes, charged, departed, late>>
              \/ /\ p.reuse \/ ~Row(l)
                 /\ \E row \in LikeRows : /\ row.status = "PENDING" /\ ~row.deleted
                                          /\ row.intent = p.intent
                                          /\ likes' = [likes EXCEPT ![l] = row]
                 /\ charged' = [charged EXCEPT ![l] = @ + 1]
                 /\ Returned(l)
                 /\ late' = IF owner[l[2]] = p.target THEN late \ {l} ELSE late \cup {l}
                 /\ req' = [req EXCEPT ![r] = [pc |-> "find", like |-> l, intent |-> p.intent,
                                               target |-> p.target]]
<1>1. Knows(p) /\ p.pc = "commit"
  BY DEF Typed, Requests, CommitLike
<1>2. l \in LikeIds /\ p.intent \in Intents /\ p.expires \in Nat
  BY <1>1 DEF Knows
<1>3. PICK row : row = [status |-> "PENDING", intent |-> p.intent,
                        expires |-> p.expires, deleted |-> FALSE]
  OBVIOUS
<1>4. row \in LikeRows /\ row.status = "PENDING" /\ ~row.deleted /\ row.intent = p.intent
  BY <1>2, <1>3 DEF LikeRows
<1>5. UNCHANGED <<owner, hidden, matches, blocks, claims, jobs, now, boot, used, ever>>
  BY DEF CommitLike
<1>6. CASE Ends(r) /\ UNCHANGED <<likes, charged, departed, late>>
  BY <1>1, <1>2, <1>5, <1>6
<1>7. CASE ~(Ends(r) /\ UNCHANGED <<likes, charged, departed, late>>)
  <2>1. /\ p.reuse \/ ~Row(l)
        /\ likes' = [likes EXCEPT ![l] = row]
        /\ charged' = [charged EXCEPT ![l] = @ + 1]
        /\ Returned(l)
        /\ late' = IF owner[l[2]] = p.target THEN late \ {l} ELSE late \cup {l}
        /\ req' = [req EXCEPT ![r] = [pc |-> "find", like |-> l, intent |-> p.intent,
                                      target |-> p.target]]
    BY <1>3, <1>7 DEF CommitLike, Returned, Typed, Requests
  <2> QED
    BY <1>1, <1>2, <1>4, <1>5, <2>1
<1> QED
  BY <1>6, <1>7

LEMMA CommitLikeGrounds ==
    ASSUME Typed, Grounds, NEW r \in Reqs, CommitLike(r)
    PROVE  Grounds'
<1>1. PICK p : p = req[r]
  OBVIOUS
<1>2. PICK l : l = p.like
  OBVIOUS
<1>3. /\ Knows(p) /\ p.pc = "commit" /\ l \in LikeIds
      /\ UNCHANGED <<owner, hidden, matches, blocks, claims, jobs, now, boot, used, ever>>
  BY <1>1, <1>2, CommitLikeDoes
<1>4. CASE Ends(r) /\ UNCHANGED <<likes, charged, departed, late>>
  BY <1>3, <1>4, RequestEnds DEF rows
<1>5. ASSUME NEW row \in LikeRows, likes' = [likes EXCEPT ![l] = row],
             charged' = [charged EXCEPT ![l] = @ + 1],
             req' = [req EXCEPT ![r] = [pc |-> "find", like |-> l, intent |-> p.intent,
                                        target |-> p.target]]
      PROVE  Grounds'
  <2>1. charged \in [LikeIds -> Nat] /\ charged[l] \in Nat
    BY <1>3 DEF Typed, Tables
  <2>2. charged'[l] = charged[l] + 1 /\ \A k \in LikeIds \ {l} : charged'[k] = charged[k]
    BY <1>3, <1>5, <2>1, CountedUp
  <2>3. \A k \in LikeIds \ {l} : likes'[k] = likes[k]
    BY <1>5 DEF Typed, Tables
  <2>4. Bought'
    BY <2>1, <2>2, <2>3 DEF Grounds, Bought, Row
  <2>5. EverGrows /\ OwnersKnown'
    BY <1>3 DEF EverGrows, Grounds, OwnersKnown
  <2>6. ASSUME NEW pair \in Pairs, matches'[pair] # NoRow PROVE RestsOn(matches[pair].by, pair)'
    BY <1>3, <2>5, <2>6, RestsStays DEF Typed, Grounds
  <2>7. PICK q : q = [pc |-> "find", like |-> l, intent |-> p.intent, target |-> p.target]
    OBVIOUS
  <2>8. Aimed(p)
    BY <1>1 DEF Grounds
  <2>9. Aimed(q)'
    BY <1>2, <1>3, <2>7, <2>8 DEF Aimed
  <2>10. \A s \in Reqs : Aimed(req[s])'
    BY <1>5, <2>5, <2>7, <2>9, OneAimed DEF Typed, Grounds
  <2>11. \A job \in jobs' : job.target \in ever'[job.like[2]]
    BY <1>3 DEF Grounds
  <2> QED
    BY <2>4, <2>5, <2>6, <2>10, <2>11 DEF Grounds
<1>6. \/ Ends(r) /\ UNCHANGED <<likes, charged, departed, late>>
      \/ /\ \E row \in LikeRows : likes' = [likes EXCEPT ![l] = row]
         /\ charged' = [charged EXCEPT ![l] = @ + 1]
         /\ req' = [req EXCEPT ![r] = [pc |-> "find", like |-> l, intent |-> p.intent,
                                       target |-> p.target]]
  BY <1>1, <1>2, CommitLikeDoes
<1> QED
  BY <1>4, <1>5, <1>6

\* A search ends, or passes on a like that answers the one it started from.
LEMMA FindReverseDoes ==
    ASSUME Typed, NEW r \in Reqs, FindReverse(r), NEW p, p = req[r]
    PROVE  /\ Knows(p) /\ p.pc = "find"
           /\ UNCHANGED <<rows, claims, jobs, now, boot, used, history>>
           /\ \/ Ends(r)
              \/ \E l \in LikeIds :
                    /\ p.target # NoOwner /\ l \in ReverseLikes(p.like[1], p.target)
                    /\ req' = [req EXCEPT ![r] =
                                 [pc |-> "check", like |-> p.like, intent |-> p.intent,
                                  target |-> p.target, reverse |-> l,
                                  reverseIntent |-> likes[l].intent]]
<1>1. Knows(p) /\ p.pc = "find"
  BY DEF Typed, Requests, FindReverse
<1>2. UNCHANGED <<rows, claims, jobs, now, boot, used, history>>
  BY DEF FindReverse
<1>3. CASE p.target = NoOwner
  BY <1>1, <1>2, <1>3 DEF FindReverse
<1>4. CASE p.target # NoOwner
  BY <1>1, <1>2, <1>4 DEF FindReverse, ReverseLikes, Typed, Requests
<1> QED
  BY <1>3, <1>4

LEMMA FindReverseGrounds ==
    ASSUME Typed, Grounds, NEW r \in Reqs, FindReverse(r)
    PROVE  Grounds'
<1>1. PICK p : p = req[r]
  OBVIOUS
<1>2. /\ Knows(p) /\ p.pc = "find"
      /\ UNCHANGED <<rows, claims, jobs, now, boot, used, history>>
  BY <1>1, FindReverseDoes
<1>3. CASE Ends(r)
  BY <1>2, <1>3, RequestEnds DEF history
<1>4. CASE ~Ends(r)
  <2>1. PICK l \in LikeIds :
           /\ p.target # NoOwner /\ l \in ReverseLikes(p.like[1], p.target)
           /\ req' = [req EXCEPT ![r] =
                        [pc |-> "check", like |-> p.like, intent |-> p.intent,
                         target |-> p.target, reverse |-> l, reverseIntent |-> likes[l].intent]]
    BY <1>1, <1>4, FindReverseDoes
  <2>2. PICK q : q = [pc |-> "check", like |-> p.like, intent |-> p.intent,
                      target |-> p.target, reverse |-> l, reverseIntent |-> likes[l].intent]
    OBVIOUS
  <2>3. p.target \in ever[p.like[2]]
    BY <1>1, <1>2, <2>1 DEF Grounds, Aimed
  <2>4. l[1] = p.target /\ p.like[1] \in ever[l[2]]
    <3>1. l[1] = p.target /\ owner[l[2]] = p.like[1]
      BY <2>1 DEF ReverseLikes
    <3>2. l[2] \in Identities /\ p.like[1] # NoOwner
      BY <1>2, OfLike, Sizes DEF Knows
    <3> QED
      BY <3>1, <3>2 DEF Grounds, OwnersKnown
  <2>5. Aimed(q)
    BY <2>2, <2>3, <2>4 DEF Aimed
  <2> QED
    BY <1>2, <2>1, <2>2, <2>5, RequestMoves DEF history
<1> QED
  BY <1>3, <1>4

LEMMA CheckEligibilityGrounds ==
    ASSUME Typed, Grounds, NEW r \in Reqs, CheckEligibility(r)
    PROVE  Grounds'
<1>1. UNCHANGED <<rows, claims, jobs, now, boot, used, history>>
  BY DEF CheckEligibility
<1>2. CASE Ends(r)
  BY <1>1, <1>2, RequestEnds DEF history
<1>3. CASE ~Ends(r)
  <2>1. PICK p : p = req[r]
    OBVIOUS
  <2>2. PICK q : q = [pc |-> "match", like |-> p.like, target |-> p.target,
                      reverse |-> p.reverse, existing |-> matches[PairOf(p)] # NoRow]
    OBVIOUS
  <2>3. req' = [req EXCEPT ![r] = q] /\ p.pc = "check"
    BY <1>3, <2>1, <2>2 DEF CheckEligibility
  <2>4. Aimed(q)
    BY <2>1, <2>2, <2>3 DEF Grounds, Aimed
  <2> QED
    BY <1>1, <2>3, <2>4, RequestMoves DEF history
<1> QED
  BY <1>2, <1>3

LEMMA FormMatchGrounds ==
    ASSUME Typed, Grounds, NEW r \in Reqs, FormMatch(r)
    PROVE  Grounds'
<1>1. PICK p : p = req[r]
  OBVIOUS
<1>2. /\ Knows(p) /\ p.pc = "match" /\ Ends(r) /\ Aimed(p)
      /\ UNCHANGED <<owner, hidden, blocks, charged, claims, jobs, now, boot, used, ever, departed>>
      /\ (Forms(p) \/ UNCHANGED <<matches, likes>>)
  BY <1>1, FormMatchDoes DEF Typed, Requests, Grounds
<1>3. CASE UNCHANGED <<matches, likes>>
  BY <1>2, <1>3, RequestEnds DEF rows
<1>4. CASE Forms(p)
  <2>1. PICK by : by = LikesInOrder(p)
    OBVIOUS
  <2>2. /\ matches'[PairOf(p)].by = by
        /\ \A pair \in Pairs : pair # PairOf(p) => matches'[pair] = matches[pair]
    BY <1>2, <1>4, <2>1, FormsTables DEF Typed
  <2>3. \A l \in LikeIds : Row(l)' => Row(l)
    <3> TAKE l \in LikeIds
    <3>1. CASE l \in {p.like, p.reverse}
      BY <1>2, <3>1 DEF Knows
    <3>2. CASE l \notin {p.like, p.reverse}
      BY <1>2, <1>4, <3>2, FormsLikes DEF Typed, Row
    <3> QED
      BY <3>1, <3>2
  <2>4. Bought'
    BY <1>2, <2>3 DEF Grounds, Bought, Row
  <2>5. EverGrows /\ OwnersKnown'
    BY <1>2 DEF EverGrows, Grounds, OwnersKnown
  <2>6. ASSUME NEW pair \in Pairs, matches'[pair] # NoRow PROVE RestsOn(matches[pair].by, pair)'
    <3>1. CASE pair = PairOf(p)
      <4>1. /\ p.target \in ever[p.like[2]] /\ p.reverse[1] = p.target
            /\ p.like[1] \in ever[p.reverse[2]]
        BY <1>2 DEF Aimed
      <4>2. p.like[1] \in Users /\ p.target \in Users
        BY <1>2, OfLike DEF Knows
      <4>3. Rank[p.like[1]] \in Nat /\ Rank[p.target] \in Nat
        BY <4>2, Sizes
      <4>4. RestsOn(by, pair)
        BY <2>1, <3>1, <4>1, <4>3 DEF PairOf, LikesInOrder, RestsOn
      <4> QED
        BY <1>2, <2>2, <3>1, <4>4 DEF RestsOn
    <3>2. CASE pair # PairOf(p)
      BY <2>2, <2>5, <2>6, <3>2, RestsStays DEF Typed, Grounds
    <3> QED
      BY <3>1, <3>2
  <2>7. \A s \in Reqs : Aimed(req[s])'
    BY <1>2, <2>5, IdleAimed, OneAimed DEF Typed, Grounds, Ends
  <2>8. \A job \in jobs' : job.target \in ever'[job.like[2]]
    BY <1>2 DEF Grounds
  <2> QED
    BY <2>4, <2>5, <2>6, <2>7, <2>8 DEF Grounds
<1> QED
  BY <1>2, <1>3, <1>4

LEMMA CommitDeleteGrounds ==
    ASSUME Typed, Grounds, NEW r \in Reqs, CommitDelete(r)
    PROVE  Grounds'
<1>1. PICK l : l = req[r].like
  OBVIOUS
<1>2. l \in LikeIds /\ Row(l) /\ \A k \in LikeIds : k # l => likes'[k] = likes[k]
  BY <1>1, CommitDeleteDoes DEF Typed, Tables
<1>3. UNCHANGED <<owner, matches, charged, jobs, ever>> /\ Ends(r)
  BY DEF CommitDelete, history
<1>4. Bought'
  BY <1>2, <1>3 DEF Grounds, Bought, Row
<1>5. EverGrows /\ OwnersKnown'
  BY <1>3 DEF EverGrows, Grounds, OwnersKnown
<1>6. ASSUME NEW pair \in Pairs, matches'[pair] # NoRow PROVE RestsOn(matches[pair].by, pair)'
  BY <1>3, <1>5, <1>6, RestsStays DEF Typed, Grounds
<1>7. \A s \in Reqs : Aimed(req[s])'
  BY <1>3, <1>5, IdleAimed, OneAimed DEF Typed, Grounds, Ends
<1>8. \A job \in jobs' : job.target \in ever'[job.like[2]]
  BY <1>3 DEF Grounds
<1> QED
  BY <1>4, <1>5, <1>6, <1>7, <1>8 DEF Grounds

LEMMA CommitUnmatchGrounds ==
    ASSUME Typed, Grounds, NEW r \in Reqs, CommitUnmatch(r)
    PROVE  Grounds'
<1>1. PICK p : p = req[r]
  OBVIOUS
<1>2. PICK m \in MatchRows :
         m.by = matches[p.pair].by /\ matches' = [matches EXCEPT ![p.pair] = m]
  BY <1>1, CommitUnmatchDoes
<1>3. Knows(p) /\ p.pc = "unmatch" /\ \A l \in LikeIds : Row(l)' <=> Row(l)
  BY <1>1, CommitUnmatchDoes DEF Row
<1>4. p.pair \in Pairs /\ matches[p.pair] # NoRow
  BY <1>3 DEF Knows
<1>5. UNCHANGED <<owner, charged, jobs, ever>> /\ Ends(r)
  BY DEF CommitUnmatch
<1>6. matches'[p.pair] = m /\ \A pair \in Pairs : pair # p.pair => matches'[pair] = matches[pair]
  BY <1>2, <1>4 DEF Typed, Tables
<1>7. Bought'
  BY <1>3, <1>5 DEF Grounds, Bought, Row
<1>8. EverGrows /\ OwnersKnown'
  BY <1>5 DEF EverGrows, Grounds, OwnersKnown
<1>9. ASSUME NEW pair \in Pairs, matches'[pair] # NoRow PROVE RestsOn(matches[pair].by, pair)'
  <2>1. matches[pair] # NoRow /\ matches'[pair].by = matches[pair].by
    BY <1>2, <1>4, <1>6, <1>9
  <2> QED
    BY <1>8, <2>1, RestsStays DEF Typed, Grounds
<1>10. \A s \in Reqs : Aimed(req[s])'
  BY <1>5, <1>8, IdleAimed, OneAimed DEF Typed, Grounds, Ends
<1>11. \A job \in jobs' : job.target \in ever'[job.like[2]]
  BY <1>5 DEF Grounds
<1> QED
  BY <1>7, <1>8, <1>9, <1>10, <1>11 DEF Grounds

LEMMA TakeJobGrounds ==
    ASSUME Typed, Grounds, NEW r \in Reqs, NEW job \in jobs, TakeJob(r, job)
    PROVE  Grounds'
<1>1. PICK q : q = [pc |-> "find", like |-> job.like, intent |-> job.intent,
                    target |-> job.target]
  OBVIOUS
<1>2. Aimed(q)
  BY <1>1 DEF Grounds, Aimed
<1>3. req' = [req EXCEPT ![r] = q] /\ UNCHANGED <<rows, ever>> /\ jobs' \subseteq jobs
  BY <1>1 DEF TakeJob, history
<1> QED
  BY <1>2, <1>3, RequestMoves

LEMMA OwnerStepGrounds ==
    ASSUME Typed, Grounds, NEW u \in Users, NEW i \in Identities,
           \/ ClaimIdentity(u, i) \/ RegisterIdentity(u, i) \/ CreateIdentity(u, i)
           \/ ReleaseIdentity(i) \/ HideIdentities(u)
    PROVE  Grounds'
<1>1. /\ UNCHANGED <<likes, matches, charged, req, jobs>>
      /\ \/ Gets(u, i)
         \/ /\ UNCHANGED ever
            /\ \A j \in Identities : owner'[j] # NoOwner => owner'[j] = owner[j]
  BY OwnerStepDoes
<1>2. EverGrows /\ OwnersKnown'
  <2>1. CASE Gets(u, i)
    <3>1. /\ ever'[i] = ever[i] \cup {u} /\ owner'[i] = u
          /\ \A j \in Identities : j # i => ever'[j] = ever[j] /\ owner'[j] = owner[j]
      BY <2>1 DEF Gets, Typed, Tables, Others
    <3> QED
      BY <3>1 DEF EverGrows, Grounds, OwnersKnown
  <2>2. CASE ~Gets(u, i)
    BY <1>1, <2>2 DEF EverGrows, Grounds, OwnersKnown
  <2> QED
    BY <2>1, <2>2
<1>3. \A s \in Reqs : Aimed(req[s])'
  BY <1>1, <1>2, SameAimed DEF Typed, Grounds
<1> QED
  BY <1>1, <1>2, <1>3, GroundsStay

\* Steps that leave the likes, the matches, the owners and the requests alone.
LEMMA OtherGrounds ==
    ASSUME Typed, Grounds, UNCHANGED <<owner, likes, matches, charged, req, ever>>,
           jobs' \subseteq jobs
    PROVE  Grounds'
<1>1. EverGrows /\ OwnersKnown'
  BY DEF EverGrows, Grounds, OwnersKnown
<1>2. \A s \in Reqs : Aimed(req[s])'
  BY <1>1, SameAimed DEF Typed, Grounds
<1> QED
  BY <1>1, <1>2, GroundsStay

LEMMA HandleIdentityClaimedGrounds ==
    ASSUME Typed, Grounds, NEW u \in Users, HandleIdentityClaimed(u)
    PROVE  Grounds'
<1>1. UNCHANGED <<rows, req, ever>> /\ EverGrows /\ OwnersKnown'
  BY DEF HandleIdentityClaimed, rows, history, EverGrows, Grounds, OwnersKnown
<1>2. \A s \in Reqs : Aimed(req[s])'
  BY <1>1, SameAimed DEF Typed, Grounds
<1>3. ASSUME NEW job \in jobs' PROVE job.target \in ever'[job.like[2]]
  <2>1. CASE job \in jobs
    BY <1>1, <2>1 DEF Grounds, rows
  <2>2. CASE job \notin jobs
    <3>1. PICK l \in LikeIds : /\ owner[l[2]] = u
                               /\ job = [like |-> l, intent |-> likes[l].intent, target |-> u]
      BY <2>2 DEF HandleIdentityClaimed
    <3>2. owner[l[2]] \in ever[l[2]]
      BY <3>1, OfLike, Sizes DEF Grounds, OwnersKnown
    <3> QED
      BY <1>1, <3>1, <3>2
  <2> QED
    BY <2>1, <2>2
<1>4. Bought' /\ \A pair \in Pairs : matches'[pair] # NoRow => RestsOn(matches[pair].by, pair)'
  <2>1. ASSUME NEW pair \in Pairs, matches'[pair] # NoRow PROVE RestsOn(matches[pair].by, pair)'
    BY <1>1, <2>1, RestsStays DEF Typed, Grounds, rows
  <2> QED
    BY <1>1, <2>1 DEF Grounds, Bought, Row, rows
<1> QED
  BY <1>1, <1>2, <1>3, <1>4 DEF Grounds

LEMMA RestartGrounds ==
    ASSUME Typed, Grounds, Restart
    PROVE  Grounds'
<1>1. UNCHANGED <<owner, likes, matches, charged, jobs, ever>> /\ req' = [r \in Reqs |-> Idle]
  BY DEF Restart, rows, history
<1>2. ASSUME NEW s \in Reqs PROVE Aimed(req[s])'
  <2>1. req'[s] = Idle
    BY <1>1
  <2> QED
    BY <2>1 DEF Aimed, Idle
<1>3. EverGrows /\ OwnersKnown'
  BY <1>1 DEF EverGrows, Grounds, OwnersKnown
<1> QED
  BY <1>1, <1>2, <1>3, GroundsStay

LEMMA InitGrounds ==
    ASSUME Init
    PROVE  Grounds
<1>1. Bought /\ \A pair \in Pairs : matches[pair] = NoRow
  BY NoRowIsNone DEF Init, Bought, Row
<1>2. \A r \in Reqs : Aimed(req[r])
  BY DEF Init, Aimed, Idle
<1>3. OwnersKnown
  BY DEF Init, OwnersKnown
<1> QED
  BY <1>1, <1>2, <1>3 DEF Init, Grounds

LEMMA NextGrounds ==
    ASSUME Typed, Grounds, [Next]_vars
    PROVE  Grounds'
<1>1. CASE \E r \in Reqs : Request(r)
  <2>1. PICK r \in Reqs : Request(r)
    BY <1>1
  <2> QED
    BY <2>1, StartLikeGrounds, WriteLikeGrounds, CommitLikeGrounds, FindReverseGrounds,
       CheckEligibilityGrounds, FormMatchGrounds, StartDeleteGrounds, CommitDeleteGrounds,
       StartUnmatchGrounds, CommitUnmatchGrounds, TakeJobGrounds DEF Request
<1>2. CASE \E u, v \in Users : CreateBlock(u, v) \/ DeleteBlock(u, v)
  <2>1. UNCHANGED <<owner, likes, matches, charged, req, ever, jobs>>
    BY <1>2 DEF CreateBlock, DeleteBlock, history
  <2> QED
    BY <2>1, OtherGrounds
<1>3. CASE \E u \in Users : HandleIdentityClaimed(u)
  BY <1>3, HandleIdentityClaimedGrounds
<1>4. CASE Tick
  <2>1. UNCHANGED <<owner, likes, matches, charged, req, ever, jobs>>
    BY <1>4 DEF Tick, rows, history
  <2> QED
    BY <2>1, OtherGrounds
<1>7. CASE \E u \in Users, i \in Identities :
              ClaimIdentity(u, i) \/ RegisterIdentity(u, i) \/ CreateIdentity(u, i)
  BY <1>7, OwnerStepGrounds
<1>8. CASE \E i \in Identities : ReleaseIdentity(i)
  <2>1. PICK i \in Identities : ReleaseIdentity(i)
    BY <1>8
  <2>2. owner[i] \in Users
    BY <2>1 DEF ReleaseIdentity, Typed, Tables
  <2> QED
    BY <2>1, <2>2, OwnerStepGrounds
<1>9. CASE \E u \in Users : HideIdentities(u)
  <2>1. UNCHANGED <<owner, likes, matches, charged, req, ever, jobs>>
    BY <1>9 DEF HideIdentities, history
  <2> QED
    BY <2>1, OtherGrounds
<1>5. CASE Restart
  BY <1>5, RestartGrounds
<1>6. CASE UNCHANGED vars
  <2>1. UNCHANGED <<owner, likes, matches, charged, req, ever, jobs>>
    BY <1>6 DEF vars, rows, history
  <2> QED
    BY <2>1, OtherGrounds
<1> QED
  BY <1>1, <1>2, <1>3, <1>4, <1>5, <1>6, <1>7, <1>8, <1>9 DEF Next

\* An active match rests on a like of each of its users, paid, for an identity that the
\* other has had.
Grounded ==
    \A pair \in Pairs : ActiveMatch(pair) =>
        LET k == matches[pair].by[1]
            l == matches[pair].by[2]
        IN /\ pair = {k[1], l[1]}
           /\ l[1] \in ever[k[2]] /\ k[1] \in ever[l[2]]
           /\ charged[k] > 0 /\ charged[l] > 0

LEMMA GroundedFollows ==
    ASSUME Typed, Grounds
    PROVE  Grounded
<1> SUFFICES ASSUME NEW pair \in Pairs, ActiveMatch(pair), NEW by, by = matches[pair].by
             PROVE  /\ pair = {by[1][1], by[2][1]}
                    /\ by[2][1] \in ever[by[1][2]] /\ by[1][1] \in ever[by[2][2]]
                    /\ charged[by[1]] > 0 /\ charged[by[2]] > 0
  BY DEF Grounded
<1>1. matches[pair] # NoRow
  BY ActiveIsRow
<1>2. /\ by[1] \in LikeIds /\ Row(by[1])
      /\ by[2] \in LikeIds /\ Row(by[2])
  BY <1>1, OfMatch DEF Typed
<1> QED
  BY <1>1, <1>2 DEF Grounds, Bought, RestsOn

LEMMA AlwaysGrounds == Spec => [](Typed /\ Grounds)
<1>1. Init => Typed /\ Grounds
  BY InitTyped, InitGrounds
<1>2. Typed /\ Grounds /\ [Next]_vars => Typed' /\ Grounds'
  BY NextTyped, NextGrounds
<1> QED
  BY <1>1, <1>2, PTL DEF Spec

\* No match without two paid likes, whatever runs at once: however requests, jobs,
\* claims, changes of owner and restarts interleave, the two likes under an active match
\* were sent and paid by its two users, each for an identity that the other has, or had
\* when a request of theirs read it (LikesService.create, resolveFromLike,
\* executeMatchTransaction in match-resolver.service.ts).
THEOREM MatchesRestOnLikes == Spec => []Grounded
BY AlwaysGrounds, GroundedFollows, PTL

-----------------------------------------------------------------------------
(* One request at a time, and no event under way: what a request has read  *)
(* of the likes and the matches is still so when it writes, though owners  *)
(* may change meanwhile.  (With requests at once it is not: see the run    *)
(* LikesStaleRematch.)                                                     *)

OneAtATime == \A r, s \in Reqs : r = s

Open(l)       == Pending(l) /\ ~Deleted(l)
IsMatched(l)  == Row(l) /\ likes[l].status = "MATCHED" /\ ~Deleted(l)
Stands(l, pair) == matches[pair].by[1] = l \/ matches[pair].by[2] = l

\* The intents of the likes under an active match go together.
Compatible ==
    \A pair \in Pairs : ActiveMatch(pair) =>
        IsIntentCompatible(likes[matches[pair].by[1]].intent, likes[matches[pair].by[2]].intent)

\* A like stands under one active match at most.
Single ==
    \A x, y \in Pairs, l \in LikeIds :
        ActiveMatch(x) /\ ActiveMatch(y) /\ Stands(l, x) /\ Stands(l, y) => x = y

InStep == \A l \in LikeIds : IsMatched(l) <=> \E pair \in Pairs : ActiveMatch(pair) /\ Stands(l, pair)

\* What was read is still so.
AtWork(q) ==
    /\ q.pc \in {"write", "commit"} => (q.reuse => ~IsMatched(q.like))
    /\ q.pc \in {"find", "check", "match"} => Open(q.like)
    /\ q.pc \in {"find", "check"} => q.intent = likes[q.like].intent
    /\ q.pc \in {"check", "match"} => /\ likes[q.reverse].status \in {"PENDING", "VOIDED"}
                                      /\ ~Deleted(q.reverse)
    /\ q.pc = "check" => q.reverseIntent = likes[q.reverse].intent
    /\ q.pc = "match" => /\ ~ActiveMatch(PairOf(q))
                         /\ q.existing <=> matches[PairOf(q)] # NoRow
                         /\ IsIntentCompatible(likes[q.like].intent, likes[q.reverse].intent)
    /\ q.pc = "delete" => Open(q.like)
    /\ q.pc = "unmatch" => /\ ActiveMatch(q.pair) /\ q.user \in q.pair
                           /\ UnmatchRequest(q, q.user, q.pair)
                           /\ q.mine[1] = q.user

Tidy == Compatible /\ Single /\ InStep

InTurn == Tidy /\ \A r \in Reqs : AtWork(req[r])

Base == Typed /\ Grounds

LEMMA InStepFollows ==
    ASSUME Typed
    PROVE  InStep <=> MatchedIffActive
<1>1. ASSUME NEW l \in LikeIds, NEW pair \in Pairs, ActiveMatch(pair)
      PROVE  Stands(l, pair) <=> \E n \in 1 .. 2 : matches[pair].by[n] = l
  BY DEF Stands
<1> QED
  BY <1>1 DEF InStep, IsMatched, MatchedIffActive

LEMMA IdleAtWork == AtWork(Idle) /\ AtWork(Idle)'
BY DEF AtWork, Idle

LEMMA TheRequest ==
    ASSUME OneAtATime, Requests, NEW r \in Reqs, NEW q, AtWork(q)', req' = [req EXCEPT ![r] = q]
    PROVE  \A s \in Reqs : AtWork(req[s])'
<1> TAKE s \in Reqs
<1>1. req'[s] = q
  BY DEF OneAtATime, Requests
<1> QED
  BY <1>1 DEF AtWork, IsMatched, Open, Row, Pending, Deleted, PairOf, UnmatchRequest

LEMMA SameTidy ==
    ASSUME Tidy, UNCHANGED <<likes, matches>>
    PROVE  Tidy'
BY DEF Tidy, Compatible, Single, InStep, IsMatched, Row, Deleted, Stands, ActiveMatch

LEMMA SameAtWork ==
    ASSUME NEW q, AtWork(q), UNCHANGED <<likes, matches>>
    PROVE  AtWork(q)'
BY DEF AtWork, IsMatched, Open, Row, Pending, Deleted, ActiveMatch, PairOf, UnmatchRequest

\* The steps that write neither likes nor matches, but for the request.
LEMMA TurnMoves ==
    ASSUME OneAtATime, Base, InTurn, UNCHANGED <<likes, matches>>,
           NEW r \in Reqs, NEW q, AtWork(q), req' = [req EXCEPT ![r] = q]
    PROVE  InTurn'
<1>1. AtWork(q)' /\ Tidy'
  BY SameAtWork, SameTidy DEF InTurn
<1> QED
  BY <1>1, TheRequest DEF Base, Typed, InTurn

LEMMA TurnEnds ==
    ASSUME OneAtATime, Base, InTurn, UNCHANGED <<likes, matches>>, NEW r \in Reqs, Ends(r)
    PROVE  InTurn'
BY IdleAtWork, TurnMoves DEF Ends

\* A step of a request that ends and leaves the likes and matches in step.
LEMMA TurnWritten ==
    ASSUME OneAtATime, Base, NEW r \in Reqs, Ends(r), Tidy'
    PROVE  InTurn'
<1>1. \A s \in Reqs : AtWork(req[s])'
  BY IdleAtWork, TheRequest DEF Base, Typed, Ends
<1> QED
  BY <1>1 DEF InTurn

LEMMA StartLikeTurn ==
    ASSUME OneAtATime, Base, InTurn, NEW r \in Reqs, NEW l \in LikeIds,
           NEW intent \in Intents, NEW days \in ExpiryDays, StartLike(r, l, intent, days)
    PROVE  InTurn'
<1>1. PICK q : q = [pc |-> "write", like |-> l, intent |-> intent, reuse |-> IsReusable(l),
                    expires |-> IF days = 0 THEN Never ELSE now + days]
  OBVIOUS
<1>2. req' = [req EXCEPT ![r] = q] /\ UNCHANGED <<likes, matches>>
  BY <1>1 DEF StartLike, rows
<1>3. IsReusable(l) => ~IsMatched(l)
  BY DEF IsReusable, IsMatched, Pending
<1>4. AtWork(q)
  BY <1>1, <1>3 DEF AtWork
<1> QED
  BY <1>2, <1>4, TurnMoves

LEMMA WriteLikeTurn ==
    ASSUME OneAtATime, Base, InTurn, NEW r \in Reqs, WriteLike(r)
    PROVE  InTurn'
<1>1. PICK p : p = req[r]
  OBVIOUS
<1>2. PICK q : q = [pc |-> "commit", like |-> p.like, intent |-> p.intent, reuse |-> p.reuse,
                    expires |-> p.expires, target |-> owner[p.like[2]]]
  OBVIOUS
<1>3. req' = [req EXCEPT ![r] = q] /\ UNCHANGED <<likes, matches>> /\ p.pc = "write"
  BY <1>1, <1>2 DEF WriteLike, rows, Base, Typed, Requests
<1>4. AtWork(p)
  BY <1>1 DEF InTurn
<1>5. AtWork(q)
  BY <1>2, <1>3, <1>4 DEF AtWork
<1> QED
  BY <1>3, <1>5, TurnMoves

LEMMA FindReverseTurn ==
    ASSUME OneAtATime, Base, InTurn, NEW r \in Reqs, FindReverse(r)
    PROVE  InTurn'
<1>1. PICK p : p = req[r]
  OBVIOUS
<1>2. p.pc = "find" /\ UNCHANGED <<likes, matches>> /\ AtWork(p)
  BY <1>1, FindReverseDoes DEF Base, InTurn, rows
<1>3. CASE Ends(r)
  BY <1>2, <1>3, TurnEnds
<1>4. CASE ~Ends(r)
  <2>1. PICK l \in LikeIds :
           /\ p.target # NoOwner /\ l \in ReverseLikes(p.like[1], p.target)
           /\ req' = [req EXCEPT ![r] =
                        [pc |-> "check", like |-> p.like, intent |-> p.intent,
                         target |-> p.target, reverse |-> l, reverseIntent |-> likes[l].intent]]
    BY <1>1, <1>4, FindReverseDoes DEF Base
  <2>2. PICK q : q = [pc |-> "check", like |-> p.like, intent |-> p.intent,
                      target |-> p.target, reverse |-> l, reverseIntent |-> likes[l].intent]
    OBVIOUS
  <2>3. likes[l].status \in {"PENDING", "VOIDED"} /\ ~Deleted(l)
    BY <2>1 DEF ReverseLikes
  <2>4. AtWork(q)
    BY <1>2, <2>2, <2>3 DEF AtWork
  <2> QED
    BY <1>2, <2>1, <2>2, <2>4, TurnMoves
<1> QED
  BY <1>3, <1>4

LEMMA CheckEligibilityTurn ==
    ASSUME OneAtATime, Base, InTurn, NEW r \in Reqs, CheckEligibility(r)
    PROVE  InTurn'
<1>1. UNCHANGED <<likes, matches>>
  BY DEF CheckEligibility, rows
<1>2. CASE Ends(r)
  BY <1>1, <1>2, TurnEnds
<1>3. CASE ~Ends(r)
  <2>1. PICK p : p = req[r]
    OBVIOUS
  <2>2. PICK q : q = [pc |-> "match", like |-> p.like, target |-> p.target,
                      reverse |-> p.reverse, existing |-> matches[PairOf(p)] # NoRow]
    OBVIOUS
  <2>3. req' = [req EXCEPT ![r] = q] /\ p.pc = "check" /\ IsEligible(p)
    BY <1>3, <2>1, <2>2 DEF CheckEligibility
  <2>4. AtWork(p)
    BY <2>1 DEF InTurn
  <2>5. PairOf(q) = PairOf(p)
    BY <2>2 DEF PairOf
  <2>6. /\ ~ActiveMatch(PairOf(q)) /\ (q.existing <=> matches[PairOf(q)] # NoRow)
        /\ IsIntentCompatible(likes[q.like].intent, likes[q.reverse].intent)
    BY <2>2, <2>3, <2>4, <2>5 DEF AtWork, IsEligible
  <2>7. AtWork(q)
    BY <2>2, <2>3, <2>4, <2>6 DEF AtWork
  <2> QED
    BY <1>1, <2>3, <2>7, TurnMoves
<1> QED
  BY <1>2, <1>3

LEMMA StartDeleteTurn ==
    ASSUME OneAtATime, Base, InTurn, NEW r \in Reqs, NEW l \in LikeIds, StartDelete(r, l)
    PROVE  InTurn'
<1>1. PICK q : q = [pc |-> "delete", like |-> l]
  OBVIOUS
<1>2. req' = [req EXCEPT ![r] = q] /\ UNCHANGED <<likes, matches>> /\ Open(l)
  BY <1>1 DEF StartDelete, Open, rows
<1>3. AtWork(q)
  BY <1>1, <1>2 DEF AtWork
<1> QED
  BY <1>2, <1>3, TurnMoves

\* The like by which a user unmatches is the user's own: the likes of a match stand in
\* the order of the users' ids.
LEMMA StartUnmatchTurn ==
    ASSUME OneAtATime, Base, InTurn, NEW r \in Reqs, NEW pair \in Pairs, NEW u \in pair,
           StartUnmatch(r, u, pair)
    PROVE  InTurn'
<1>1. ActiveMatch(pair) /\ UNCHANGED <<likes, matches>>
  BY DEF StartUnmatch, rows
<1>2. PICK by : by = matches[pair].by
  OBVIOUS
<1>3. RestsOn(by, pair) /\ by[1] \in LikeIds /\ by[2] \in LikeIds
  BY <1>1, <1>2, ActiveIsRow, OfMatch DEF Base, Typed, Grounds
<1>4. /\ u \in Users /\ by[1][1] \in Users /\ by[2][1] \in Users
      /\ pair = {by[1][1], by[2][1]} /\ Rank[by[1][1]] <= Rank[by[2][1]]
  BY <1>3, OfPair, OfLike DEF RestsOn
<1>5. PICK one : one = (\A v \in pair : Rank[u] <= Rank[v])
  OBVIOUS
<1>6. one => by[1][1] = u
  <2>1. Rank[by[1][1]] \in Nat /\ Rank[by[2][1]] \in Nat
    BY <1>4, Sizes
  <2>2. ASSUME one, by[2][1] = u PROVE Rank[by[1][1]] = Rank[u]
    <3>1. by[1][1] \in pair
      BY <1>4
    <3>2. Rank[u] <= Rank[by[1][1]]
      BY <1>5, <2>2, <3>1
    <3> QED
      BY <1>4, <2>1, <2>2, <3>2
  <2> QED
    BY <1>4, <2>2, MatchmakingAssumption
<1>7. ~one => by[2][1] = u
  <2>1. ASSUME ~one, by[1][1] = u PROVE FALSE
    <3>1. PICK v \in pair : ~(Rank[u] <= Rank[v])
      BY <1>5, <2>1
    <3>2. Rank[u] \in Nat
      BY <1>4, Sizes
    <3> QED
      BY <1>4, <2>1, <3>1, <3>2
  <2> QED
    BY <1>4, <2>1
<1>8. PICK q : q = [pc |-> "unmatch", user |-> u, pair |-> pair,
                    mine  |-> IF one THEN by[1] ELSE by[2],
                    other |-> IF one THEN by[2] ELSE by[1]]
  OBVIOUS
<1>9. req' = [req EXCEPT ![r] = q]
  BY <1>2, <1>5, <1>8 DEF StartUnmatch
<1>10. UnmatchRequest(q, u, pair) /\ q.mine[1] = u /\ q.user = u /\ q.pair = pair
  BY <1>2, <1>6, <1>7, <1>8 DEF UnmatchRequest
<1>11. AtWork(q)
  BY <1>1, <1>8, <1>10 DEF AtWork
<1> QED
  BY <1>1, <1>9, <1>11, TurnMoves

\* The likes under an active match are rows that are MATCHED.
LEMMA HeldBy ==
    ASSUME Base, InStep, NEW pair \in Pairs, ActiveMatch(pair), NEW l, Stands(l, pair)
    PROVE  l \in LikeIds /\ IsMatched(l)
<1>1. matches[pair] # NoRow
  BY ActiveIsRow
<1>2. l \in LikeIds
  BY <1>1, OfMatch DEF Base, Typed, Stands
<1> QED
  BY <1>2 DEF InStep

\* A like that is not MATCHED, before and after, may be written at will.
LEMMA LikeRewritten ==
    ASSUME Base, Tidy, UNCHANGED matches, NEW l \in LikeIds, ~IsMatched(l), ~IsMatched(l)',
           \A k \in LikeIds : k # l => likes'[k] = likes[k]
    PROVE  Tidy'
<1>1. \A pair \in Pairs : ActiveMatch(pair)' <=> ActiveMatch(pair)
  BY DEF ActiveMatch
<1>2. \A pair \in Pairs : \A k : Stands(k, pair)' <=> Stands(k, pair)
  BY DEF Stands
<1>3. \A pair \in Pairs : ActiveMatch(pair) => ~Stands(l, pair)
  BY HeldBy DEF Tidy
<1>4. ASSUME NEW k \in LikeIds PROVE k # l => (IsMatched(k)' <=> IsMatched(k))
  BY DEF IsMatched, Row, Deleted
<1>5. InStep'
  BY <1>1, <1>2, <1>3, <1>4 DEF Tidy, InStep
<1>6. Single'
  BY <1>1, <1>2 DEF Tidy, Single
<1>7. ASSUME NEW pair \in Pairs, ActiveMatch(pair)'
      PROVE  IsIntentCompatible(likes'[matches'[pair].by[1]].intent,
                                likes'[matches'[pair].by[2]].intent)
  <2>1. ActiveMatch(pair)
    BY <1>1, <1>7
  <2>2. /\ matches[pair].by[1] \in LikeIds \ {l}
        /\ matches[pair].by[2] \in LikeIds \ {l}
    BY <1>3, <2>1, HeldBy DEF Stands, Tidy
  <2>3. IsIntentCompatible(likes[matches[pair].by[1]].intent, likes[matches[pair].by[2]].intent)
    BY <2>1 DEF Tidy, Compatible
  <2> QED
    BY <2>2, <2>3
<1>8. Compatible'
  BY <1>7 DEF Compatible
<1> QED
  BY <1>5, <1>6, <1>8 DEF Tidy

LEMMA CommitLikeTurn ==
    ASSUME OneAtATime, Base, InTurn, NEW r \in Reqs, CommitLike(r)
    PROVE  InTurn'
<1>1. PICK p : p = req[r]
  OBVIOUS
<1>2. PICK l : l = p.like
  OBVIOUS
<1>3. /\ Knows(p) /\ p.pc = "commit" /\ l \in LikeIds /\ AtWork(p)
      /\ UNCHANGED matches
  BY <1>1, <1>2, CommitLikeDoes DEF Base, InTurn
<1>4. CASE Ends(r) /\ UNCHANGED likes
  BY <1>3, <1>4, TurnEnds
<1>5. ASSUME NEW row \in LikeRows, row.status = "PENDING", ~row.deleted,
             row.intent = p.intent, likes' = [likes EXCEPT ![l] = row], p.reuse \/ ~Row(l),
             req' = [req EXCEPT ![r] = [pc |-> "find", like |-> l, intent |-> p.intent,
                                        target |-> p.target]]
      PROVE  InTurn'
  <2>1. likes'[l] = row /\ \A k \in LikeIds : k # l => likes'[k] = likes[k]
    BY <1>3, <1>5 DEF Base, Typed, Tables
  <2>2. ~IsMatched(l)
    BY <1>2, <1>3, <1>5 DEF AtWork, IsMatched
  <2>3. ~IsMatched(l)'
    BY <1>5, <2>1 DEF IsMatched
  <2>4. Tidy'
    BY <1>3, <2>1, <2>2, <2>3, LikeRewritten DEF InTurn
  <2>5. PICK q : q = [pc |-> "find", like |-> l, intent |-> p.intent, target |-> p.target]
    OBVIOUS
  <2>6. AtWork(q)'
    BY <1>5, <2>1, <2>5 DEF AtWork, Open, Pending, Deleted
  <2>7. \A s \in Reqs : AtWork(req[s])'
    BY <1>5, <2>5, <2>6, TheRequest DEF Base, Typed
  <2> QED
    BY <2>4, <2>7 DEF InTurn
<1>6. \/ Ends(r) /\ UNCHANGED likes
      \/ /\ \E row \in LikeRows : /\ row.status = "PENDING" /\ ~row.deleted
                                  /\ row.intent = p.intent
                                  /\ likes' = [likes EXCEPT ![l] = row]
         /\ p.reuse \/ ~Row(l)
         /\ req' = [req EXCEPT ![r] = [pc |-> "find", like |-> l, intent |-> p.intent,
                                       target |-> p.target]]
  BY <1>1, <1>2, CommitLikeDoes DEF Base
<1> QED
  BY <1>4, <1>5, <1>6

LEMMA CompatibleBothWays ==
    ASSUME NEW a, NEW b, IsIntentCompatible(a, b)
    PROVE  IsIntentCompatible(b, a)
BY DEF IsIntentCompatible

LEMMA FormMatchTurn ==
    ASSUME OneAtATime, Base, InTurn, NEW r \in Reqs, FormMatch(r)
    PROVE  InTurn'
<1>1. PICK p : p = req[r]
  OBVIOUS
<1>2. p.pc = "match" /\ Ends(r) /\ Knows(p) /\ AtWork(p)
      /\ UNCHANGED <<owner, hidden, charged>>
      /\ (Forms(p) \/ UNCHANGED <<matches, likes>>)
  BY <1>1, FormMatchDoes DEF Base, Typed, Requests, InTurn
<1>3. CASE UNCHANGED <<matches, likes>>
  BY <1>2, <1>3, TurnEnds
<1>4. CASE Forms(p)
  <2>1. PICK pair : pair = PairOf(p)
    OBVIOUS
  <2>2. PICK by : by = LikesInOrder(p)
    OBVIOUS
  <2>3. by = <<p.like, p.reverse>> \/ by = <<p.reverse, p.like>>
    BY <2>2 DEF LikesInOrder
  <2>4. /\ p.like \in LikeIds /\ Row(p.like) /\ ~IsMatched(p.like) /\ ~Deleted(p.like)
        /\ p.reverse \in LikeIds /\ Row(p.reverse) /\ ~IsMatched(p.reverse)
        /\ ~Deleted(p.reverse)
        /\ ~ActiveMatch(pair)
        /\ IsIntentCompatible(likes[p.like].intent, likes[p.reverse].intent)
    BY <1>2, <2>1 DEF Knows, AtWork, Open, Pending, IsMatched
  <2>5. /\ pair \in Pairs /\ matches'[pair].status = "ACTIVE" /\ matches'[pair].by = by
        /\ \A x \in Pairs : x # pair => matches'[x] = matches[x]
    BY <1>2, <1>4, <2>1, <2>2, FormsTables DEF Base, Typed
  <2>6. /\ \A l \in {p.like, p.reverse} :
              likes'[l].intent = likes[l].intent /\ IsMatched(l)'
        /\ \A l \in LikeIds : l \notin {p.like, p.reverse} => likes'[l] = likes[l]
    <3>1. /\ \A l \in {p.like, p.reverse} :
                /\ likes'[l].status = "MATCHED" /\ likes'[l].intent = likes[l].intent
                /\ likes'[l].deleted = likes[l].deleted
          /\ \A l \in LikeIds : l \notin {p.like, p.reverse} => likes'[l] = likes[l]
      BY <1>2, <1>4, <2>4, FormsLikes DEF Base, Typed
    <3> QED
      BY <2>4, <3>1 DEF IsMatched, Row, Deleted
  <2>7. \A x \in Pairs : ActiveMatch(x)' <=> (x = pair \/ ActiveMatch(x))
    BY <2>5 DEF ActiveMatch
  <2>8. \A l : Stands(l, pair)' <=> l \in {p.like, p.reverse}
    BY <2>3, <2>5 DEF Stands
  <2>9. \A x \in Pairs : \A l : x # pair => (Stands(l, x)' <=> Stands(l, x))
    BY <2>5 DEF Stands
  <2>10. \A x \in Pairs : \A l : ActiveMatch(x) /\ Stands(l, x) =>
            l \in LikeIds /\ IsMatched(l) /\ l \notin {p.like, p.reverse}
    BY <2>4, HeldBy DEF InTurn, Tidy
  <2>11. Single'
    <3>1. ASSUME NEW x \in Pairs, NEW y \in Pairs, NEW l \in LikeIds,
                 ActiveMatch(x)', ActiveMatch(y)', Stands(l, x)', Stands(l, y)'
          PROVE  x = y
      <4>1. CASE x = pair \/ y = pair
        BY <2>7, <2>8, <2>9, <2>10, <3>1, <4>1
      <4>2. CASE x # pair /\ y # pair
        BY <2>7, <2>9, <3>1, <4>2 DEF InTurn, Tidy, Single
      <4> QED
        BY <4>1, <4>2
    <3> QED
      BY <3>1 DEF Single
  <2>12. InStep'
    <3>1. ASSUME NEW l \in LikeIds
          PROVE  IsMatched(l)' <=> \E x \in Pairs : ActiveMatch(x)' /\ Stands(l, x)'
      <4>1. CASE l \in {p.like, p.reverse}
        BY <2>5, <2>6, <2>7, <2>8, <4>1
      <4>2. CASE l \notin {p.like, p.reverse}
        <5>1. IsMatched(l)' <=> IsMatched(l)
          BY <2>6, <4>2 DEF IsMatched, Row, Deleted
        <5>2. (\E x \in Pairs : ActiveMatch(x)' /\ Stands(l, x)')
                <=> \E x \in Pairs : ActiveMatch(x) /\ Stands(l, x)
          BY <2>4, <2>7, <2>8, <2>9, <4>2
        <5> QED
          BY <5>1, <5>2 DEF InTurn, Tidy, InStep
      <4> QED
        BY <4>1, <4>2
    <3> QED
      BY <3>1 DEF InStep
  <2>13. Compatible'
    <3>1. ASSUME NEW x \in Pairs, ActiveMatch(x)'
          PROVE  IsIntentCompatible(likes'[matches'[x].by[1]].intent,
                                    likes'[matches'[x].by[2]].intent)
      <4>1. CASE x = pair
        <5>1. IsIntentCompatible(likes[p.reverse].intent, likes[p.like].intent)
          BY <2>4, CompatibleBothWays
        <5> QED
          BY <2>3, <2>4, <2>5, <2>6, <4>1, <5>1
      <4>2. CASE x # pair
        <5>1. ActiveMatch(x) /\ matches'[x] = matches[x]
          BY <2>5, <2>7, <3>1, <4>2
        <5>2. Stands(matches[x].by[1], x) /\ Stands(matches[x].by[2], x)
          BY DEF Stands
        <5>3. /\ likes'[matches[x].by[1]] = likes[matches[x].by[1]]
              /\ likes'[matches[x].by[2]] = likes[matches[x].by[2]]
          BY <2>6, <2>10, <5>1, <5>2
        <5> QED
          BY <5>1, <5>3 DEF InTurn, Tidy, Compatible
      <4> QED
        BY <4>1, <4>2
    <3> QED
      BY <3>1 DEF Compatible
  <2>14. Tidy'
    BY <2>11, <2>12, <2>13 DEF Tidy
  <2> QED
    BY <1>2, <2>14, TurnWritten
<1> QED
  BY <1>2, <1>3, <1>4

LEMMA CommitDeleteTurn ==
    ASSUME OneAtATime, Base, InTurn, NEW r \in Reqs, CommitDelete(r)
    PROVE  InTurn'
<1>1. PICK l : l = req[r].like
  OBVIOUS
<1>2. l \in LikeIds
      /\ \E row \in LikeRows : row.status = "DELETED" /\ likes' = [likes EXCEPT ![l] = row]
  BY <1>1, CommitDeleteDoes DEF Base
<1>3. /\ likes'[l].status = "DELETED"
      /\ \A k \in LikeIds : k # l => likes'[k] = likes[k]
  BY <1>2 DEF Base, Typed, Tables
<1>4. UNCHANGED matches /\ Ends(r)
  BY DEF CommitDelete
<1>5. Open(l)
  BY <1>1 DEF CommitDelete, InTurn, AtWork
<1>6. ~IsMatched(l) /\ ~IsMatched(l)'
  BY <1>3, <1>5 DEF Open, Pending, IsMatched
<1>7. Tidy'
  BY <1>2, <1>3, <1>4, <1>6, LikeRewritten DEF InTurn
<1> QED
  BY <1>4, <1>7, TurnWritten

\* What the commit of an unmatch finds, when nothing has come in between.
LEMMA UnmatchInTurn ==
    ASSUME Base, InTurn, NEW r \in Reqs, CommitUnmatch(r), NEW p, p = req[r]
    PROVE  /\ p.pair \in Pairs /\ ActiveMatch(p.pair) /\ p.user \in p.pair
           /\ p.mine \in LikeIds /\ p.other \in LikeIds
           /\ p.mine[1] = p.user /\ p.pair = {p.mine[1], p.other[1]}
           /\ p.other[1] \in ever[p.mine[2]] /\ p.mine[1] \in ever[p.other[2]]
           /\ \A l : Stands(l, p.pair) <=> l \in {p.mine, p.other}
           /\ IsMatched(p.mine) /\ IsMatched(p.other)
<1>1. Knows(p) /\ p.pc = "unmatch" /\ AtWork(p)
  BY CommitUnmatchDoes DEF Base, InTurn
<1>2. PICK pair : pair = p.pair
  OBVIOUS
<1>3. /\ pair \in Pairs /\ ActiveMatch(pair) /\ p.user \in pair
      /\ p.mine \in LikeIds /\ p.other \in LikeIds /\ p.mine[1] = p.user
  BY <1>1, <1>2 DEF Knows, AtWork
<1>4. PICK by : by = matches[pair].by
  OBVIOUS
<1>5. RestsOn(by, pair)
  BY <1>3, <1>4, ActiveIsRow DEF Base, Grounds
<1>6. (p.mine = by[1] /\ p.other = by[2]) \/ (p.mine = by[2] /\ p.other = by[1])
  BY <1>1, <1>2, <1>4 DEF AtWork, UnmatchRequest
<1>7. \A l : Stands(l, pair) <=> l \in {p.mine, p.other}
  BY <1>4, <1>6 DEF Stands
<1>8. IsMatched(p.mine) /\ IsMatched(p.other)
  BY <1>3, <1>7, HeldBy DEF InTurn, Tidy
<1>9. /\ pair = {p.mine[1], p.other[1]}
      /\ p.other[1] \in ever[p.mine[2]] /\ p.mine[1] \in ever[p.other[2]]
  BY <1>5, <1>6 DEF RestsOn
<1> QED
  BY <1>2, <1>3, <1>7, <1>8, <1>9

LEMMA CommitUnmatchTurn ==
    ASSUME OneAtATime, Base, InTurn, NEW r \in Reqs, CommitUnmatch(r)
    PROVE  InTurn'
<1>1. PICK p : p = req[r]
  OBVIOUS
<1>2. PICK pair : pair = p.pair
  OBVIOUS
<1>3. /\ pair \in Pairs /\ ActiveMatch(pair)
      /\ p.mine \in LikeIds /\ p.other \in LikeIds
      /\ \A l : Stands(l, pair) <=> l \in {p.mine, p.other}
  BY <1>1, <1>2, UnmatchInTurn
<1>4. /\ \A l \in {p.mine, p.other} : likes'[l].status \in {"WITHDRAWN", "VOIDED"}
      /\ \A l \in LikeIds : l \notin {p.mine, p.other} => likes'[l] = likes[l]
  BY <1>1, <1>3, CommitUnmatchDoes DEF Base
<1>5. /\ matches'[pair].status = "UNMATCHED"
      /\ \A x \in Pairs : x # pair => matches'[x] = matches[x]
  <2>1. PICK m \in MatchRows :
           m.status = "UNMATCHED" /\ matches' = [matches EXCEPT ![p.pair] = m]
    BY <1>1, CommitUnmatchDoes DEF Base
  <2> QED
    BY <1>2, <1>3, <2>1 DEF Base, Typed, Tables
<1>6. Ends(r)
  BY DEF CommitUnmatch
<1>7. \A x \in Pairs : ActiveMatch(x)' <=> (x # pair /\ ActiveMatch(x))
  BY <1>5 DEF ActiveMatch
<1>8. \A x \in Pairs : \A l : x # pair => (Stands(l, x)' <=> Stands(l, x))
  BY <1>5 DEF Stands
<1>9. \A x \in Pairs : \A l : x # pair /\ ActiveMatch(x) /\ Stands(l, x)
                             => l \in LikeIds /\ l \notin {p.mine, p.other}
  <2> SUFFICES ASSUME NEW x \in Pairs, NEW l, x # pair, ActiveMatch(x), Stands(l, x)
               PROVE  l \in LikeIds /\ l \notin {p.mine, p.other}
    OBVIOUS
  <2>1. l \in LikeIds
    BY HeldBy DEF InTurn, Tidy
  <2>2. ~Stands(l, pair)
    BY <1>3, <2>1 DEF InTurn, Tidy, Single
  <2> QED
    BY <1>3, <2>1, <2>2
<1>10. Single'
  <2>1. ASSUME NEW x \in Pairs, NEW y \in Pairs, NEW l \in LikeIds,
               ActiveMatch(x)', ActiveMatch(y)', Stands(l, x)', Stands(l, y)'
        PROVE  x = y
    BY <1>7, <1>8, <2>1 DEF InTurn, Tidy, Single
  <2> QED
    BY <2>1 DEF Single
<1>11. InStep'
  <2>1. ASSUME NEW l \in LikeIds
        PROVE  IsMatched(l)' <=> \E x \in Pairs : ActiveMatch(x)' /\ Stands(l, x)'
    <3>1. CASE l \in {p.mine, p.other}
      <4>1. ~IsMatched(l)'
        BY <1>4, <3>1 DEF IsMatched
      <4> QED
        BY <1>7, <1>8, <1>9, <3>1, <4>1
    <3>2. CASE l \notin {p.mine, p.other}
      <4>1. IsMatched(l)' <=> IsMatched(l)
        BY <1>4, <3>2 DEF IsMatched, Row, Deleted
      <4>2. (\E x \in Pairs : ActiveMatch(x)' /\ Stands(l, x)')
              <=> \E x \in Pairs : ActiveMatch(x) /\ Stands(l, x)
        BY <1>3, <1>7, <1>8, <3>2
      <4> QED
        BY <4>1, <4>2 DEF InTurn, Tidy, InStep
    <3> QED
      BY <3>1, <3>2
  <2> QED
    BY <2>1 DEF InStep
<1>12. Compatible'
  <2>1. ASSUME NEW x \in Pairs, ActiveMatch(x)'
        PROVE  IsIntentCompatible(likes'[matches'[x].by[1]].intent,
                                  likes'[matches'[x].by[2]].intent)
    <3>1. ActiveMatch(x) /\ x # pair /\ matches'[x] = matches[x]
      BY <1>5, <1>7, <2>1
    <3>2. Stands(matches[x].by[1], x) /\ Stands(matches[x].by[2], x)
      BY DEF Stands
    <3>3. /\ likes'[matches[x].by[1]] = likes[matches[x].by[1]]
          /\ likes'[matches[x].by[2]] = likes[matches[x].by[2]]
      BY <1>4, <1>9, <3>1, <3>2
    <3> QED
      BY <3>1, <3>3 DEF InTurn, Tidy, Compatible
  <2> QED
    BY <2>1 DEF Compatible
<1>13. Tidy'
  BY <1>10, <1>11, <1>12 DEF Tidy
<1> QED
  BY <1>6, <1>13, TurnWritten

\* The steps of no request.
LEMMA OtherTurn ==
    ASSUME InTurn, UNCHANGED <<likes, matches, req>>
    PROVE  InTurn'
<1>1. ASSUME NEW s \in Reqs PROVE AtWork(req[s])'
  <2>1. PICK p : p = req[s]
    OBVIOUS
  <2>2. req'[s] = p /\ AtWork(p)
    BY <2>1 DEF InTurn
  <2>3. AtWork(p)'
    BY <2>2, SameAtWork
  <2> QED
    BY <2>2, <2>3
       DEF AtWork, IsMatched, Open, Row, Pending, Deleted, PairOf, UnmatchRequest
<1> QED
  BY <1>1, SameTidy DEF InTurn

LEMMA RestartTurn ==
    ASSUME InTurn, Restart
    PROVE  InTurn'
<1>1. UNCHANGED <<likes, matches>> /\ req' = [r \in Reqs |-> Idle]
  BY DEF Restart, rows
<1>2. ASSUME NEW s \in Reqs PROVE AtWork(req[s])'
  <2>1. req'[s] = Idle
    BY <1>1
  <2> QED
    BY <2>1 DEF AtWork, Idle
<1> QED
  BY <1>1, <1>2, SameTidy DEF InTurn

LEMMA InitTurn ==
    ASSUME Init
    PROVE  InTurn
<1>1. \A pair \in Pairs : ~ActiveMatch(pair)
  BY NoRowIsNone DEF Init, ActiveMatch
<1>2. \A l \in LikeIds : ~Row(l)
  BY NoRowIsNone DEF Init, Row
<1>3. Tidy
  BY <1>1, <1>2 DEF Tidy, Compatible, Single, InStep, IsMatched
<1>4. \A r \in Reqs : AtWork(req[r])
  BY DEF Init, AtWork, Idle
<1> QED
  BY <1>3, <1>4 DEF InTurn

\* No event is ever under way where no identity gets its owner with one.
NoClaims == MaxClaims = 0

Settled == /\ used = [kind \in DOMAIN Bounds |-> used[kind]]
           /\ used["claims"] = 0
           /\ claims = {} /\ jobs = {}

LEMMA UsedUp ==
    ASSUME NoClaims, Settled, NEW kind, Use(kind)
    PROVE  /\ kind # "claims"
           /\ used' = [k \in DOMAIN Bounds |-> used'[k]] /\ used'["claims"] = 0
<1>1. kind # "claims"
  BY DEF Use, NoClaims, Settled, Bounds
<1>2. "claims" \in DOMAIN Bounds
  BY DEF Bounds
<1> QED
  BY <1>1, <1>2 DEF Use, Settled

LEMMA NextSettled ==
    ASSUME NoClaims, Settled, [Next]_vars
    PROVE  Settled'
<1>1. ASSUME UNCHANGED <<used, claims>>, jobs' \subseteq jobs PROVE Settled'
  BY <1>1 DEF Settled
<1>2. ASSUME NEW kind, Use(kind), UNCHANGED <<claims, jobs>> PROVE Settled'
  BY <1>2, UsedUp DEF Settled
<1>3. ASSUME NEW r \in Reqs, Request(r) PROVE Settled'
  <2>1. ASSUME NEW l \in LikeIds, NEW intent \in Intents, NEW days \in ExpiryDays,
               StartLike(r, l, intent, days)
        PROVE  Settled'
    BY <1>2, <2>1 DEF StartLike
  <2>2. ASSUME NEW l \in LikeIds, StartDelete(r, l) PROVE Settled'
    BY <1>2, <2>2 DEF StartDelete
  <2>3. ASSUME NEW pair \in Pairs, NEW u \in pair, StartUnmatch(r, u, pair) PROVE Settled'
    BY <1>2, <2>3 DEF StartUnmatch
  <2>4. ASSUME NEW job \in jobs, TakeJob(r, job) PROVE Settled'
    BY <2>4 DEF Settled
  <2>5. CASE \/ WriteLike(r) \/ CommitLike(r) \/ FindReverse(r) \/ CheckEligibility(r)
             \/ FormMatch(r) \/ CommitDelete(r) \/ CommitUnmatch(r)
    BY <1>1, <2>5 DEF WriteLike, CommitLike, FindReverse, CheckEligibility, FormMatch,
       CommitDelete, CommitUnmatch
  <2> QED
    BY <1>3, <2>1, <2>2, <2>3, <2>4, <2>5 DEF Request
<1>4. ASSUME NEW u \in Users, NEW v \in Users, CreateBlock(u, v) \/ DeleteBlock(u, v)
      PROVE  Settled'
  BY <1>1, <1>2, <1>4 DEF CreateBlock, DeleteBlock
<1>5. ASSUME NEW u \in Users, NEW i \in Identities,
             ClaimIdentity(u, i) \/ RegisterIdentity(u, i) \/ CreateIdentity(u, i)
      PROVE  Settled'
  BY <1>2, <1>5, UsedUp DEF ClaimIdentity, RegisterIdentity, CreateIdentity, Gets
<1>6. ASSUME NEW i \in Identities, ReleaseIdentity(i) PROVE Settled'
  BY <1>2, <1>6 DEF ReleaseIdentity
<1>7. ASSUME NEW u \in Users, HideIdentities(u) \/ HandleIdentityClaimed(u) PROVE Settled'
  BY <1>2, <1>7 DEF HideIdentities, HandleIdentityClaimed, Settled
<1>8. CASE Tick
  BY <1>1, <1>8 DEF Tick
<1>9. CASE Restart
  BY <1>2, <1>9 DEF Restart
<1>10. CASE UNCHANGED vars
  BY <1>1, <1>10 DEF vars
<1> QED
  BY <1>3, <1>4, <1>5, <1>6, <1>7, <1>8, <1>9, <1>10 DEF Next

LEMMA NextTurn ==
    ASSUME OneAtATime, Base, Settled, InTurn, [Next]_vars
    PROVE  InTurn'
<1>1. CASE \E r \in Reqs : Request(r)
  <2>1. PICK r \in Reqs : Request(r)
    BY <1>1
  <2>2. ASSUME NEW job \in jobs PROVE FALSE
    BY DEF Settled
  <2> QED
    BY <2>1, <2>2, StartLikeTurn, WriteLikeTurn, CommitLikeTurn, FindReverseTurn,
       CheckEligibilityTurn, FormMatchTurn, StartDeleteTurn, CommitDeleteTurn,
       StartUnmatchTurn, CommitUnmatchTurn DEF Request
<1>2. ASSUME NEW u \in Users, NEW v \in Users, CreateBlock(u, v) \/ DeleteBlock(u, v)
      PROVE  InTurn'
  BY <1>2, OtherTurn DEF CreateBlock, DeleteBlock
<1>3. ASSUME NEW u \in Users, NEW i \in Identities,
             ClaimIdentity(u, i) \/ RegisterIdentity(u, i) \/ CreateIdentity(u, i)
      PROVE  InTurn'
  BY <1>3, OtherTurn DEF ClaimIdentity, RegisterIdentity, CreateIdentity, Gets
<1>4. ASSUME NEW i \in Identities, ReleaseIdentity(i) PROVE InTurn'
  BY <1>4, OtherTurn DEF ReleaseIdentity
<1>5. ASSUME NEW u \in Users, HideIdentities(u) \/ HandleIdentityClaimed(u) PROVE InTurn'
  BY <1>5, OtherTurn DEF HideIdentities, HandleIdentityClaimed, rows
<1>6. CASE Tick
  BY <1>6, OtherTurn DEF Tick, rows
<1>7. CASE Restart
  BY <1>7, RestartTurn
<1>8. CASE UNCHANGED vars
  BY <1>8, OtherTurn DEF vars, rows
<1> QED
  BY <1>1, <1>2, <1>3, <1>4, <1>5, <1>6, <1>7, <1>8 DEF Next

LEMMA InitSettled ==
    ASSUME Init
    PROVE  Settled
BY DEF Init, Settled, Bounds

LEMMA AlwaysInTurn ==
    ASSUME OneAtATime, NoClaims
    PROVE  Spec => [](Base /\ Settled /\ InTurn)
<1>1. Init => Base /\ Settled /\ InTurn
  BY InitTyped, InitGrounds, InitTurn, InitSettled DEF Base
<1>2. Base /\ Settled /\ InTurn /\ [Next]_vars => Base' /\ Settled' /\ InTurn'
  BY NextTyped, NextGrounds, NextSettled, NextTurn DEF Base
<1> QED
  BY <1>1, <1>2, PTL DEF Spec

\* With requests handled one after the other and no event under way, for any number of
\* users, likes, blocks, unmatches and restarts, and whoever gets or loses an identity
\* between two statements of a request: a like is MATCHED exactly while it stands under an
\* active match, so none gets stuck there (executeMatchTransaction in
\* match-resolver.service.ts, unmatch in matches.service.ts, delete in likes.service.ts).
THEOREM MatchedOnlyUnderMatch ==
    ASSUME OneAtATime, NoClaims
    PROVE  Spec => []MatchedIffActive
<1>1. Base /\ InTurn => MatchedIffActive
  BY InStepFollows DEF Base, InTurn, Tidy
<1> QED
  BY <1>1, AlwaysInTurn, PTL

LEMMA MutualInTurn ==
    ASSUME Base, InTurn
    PROVE  MatchIsMutual
<1> USE DEF MatchIsMutual
<1> TAKE u, v \in Users
<1> HAVE u # v /\ ActiveMatch({u, v})
<1> HIDE DEF MatchIsMutual
<1>1. PICK by : by = matches[{u, v}].by
  OBVIOUS
<1>2. {u, v} \in Pairs
  BY PairUsers
<1>3. /\ by[1] \in LikeIds /\ by[2] \in LikeIds /\ Row(by[1]) /\ Row(by[2])
      /\ RestsOn(by, {u, v})
  BY <1>1, <1>2, ActiveIsRow, OfMatch DEF Base, Typed, Grounds
<1>4. IsIntentCompatible(likes[by[1]].intent, likes[by[2]].intent)
  BY <1>1, <1>2 DEF InTurn, Tidy, Compatible
<1>5. PICK k \in LikeIds, l \in LikeIds : {k, l} = {by[1], by[2]} /\ k[1] = u /\ l[1] = v
  BY <1>3 DEF RestsOn
<1>6. (k = by[1] /\ l = by[2]) \/ (k = by[2] /\ l = by[1])
  BY <1>5
<1>7. v \in ever[k[2]] /\ u \in ever[l[2]]
  BY <1>3, <1>5, <1>6 DEF RestsOn
<1>8. charged[k] > 0 /\ charged[l] > 0
  BY <1>3, <1>6 DEF Base, Grounds, Bought
<1>9. IsIntentCompatible(likes[k].intent, likes[l].intent)
  BY <1>4, <1>6, CompatibleBothWays
<1>10. Cardinality({likes[k].intent, likes[l].intent} \ {"OPEN"}) <= 1
  <2>1. PICK S : S = {likes[k].intent, likes[l].intent} \ {"OPEN"}
    OBVIOUS
  <2>2. ASSUME NEW a \in S, NEW b \in S PROVE a = b
    BY <1>9, <2>1 DEF IsIntentCompatible
  <2>3. CASE S = {}
    BY <2>1, <2>3, FS_EmptySet
  <2>4. ASSUME NEW a \in S PROVE Cardinality(S) = 1
    <3>1. S = {a}
      BY <2>2, <2>4
    <3> QED
      BY <3>1, FS_Singleton
  <2> QED
    BY <2>1, <2>3, <2>4
<1> QED
  BY <1>1, <1>5, <1>7, <1>8, <1>10

\* With requests handled one after the other and no event under way: an active match rests
\* on two likes, each paid by one of its users, for an identity that the other has or has
\* had, and with intents that go together (isIntentCompatible and
\* validateMatchEligibility in match-resolver.service.ts).
THEOREM MatchesAreMutual ==
    ASSUME OneAtATime, NoClaims
    PROVE  Spec => []MatchIsMutual
<1>1. Base /\ InTurn => MatchIsMutual
  BY MutualInTurn
<1> QED
  BY <1>1, AlwaysInTurn, PTL

-----------------------------------------------------------------------------
(* Then an unmatch holds, too, for who has had one identity only.          *)

\* All likes of u for an identity that v has had are withdrawn.
LeftBy(u, v) == \A l \in LikeIds : l[1] = u /\ v \in ever[l[2]] => likes[l].status = "WITHDRAWN"

Known(v) == \E i \in Identities : v \in ever[i]

\* Who has left somebody is not matched with them again.
Gone ==
    \A u, v \in Users : u # v /\ u \in departed[{u, v}] =>
        /\ Known(v)
        /\ OneIdentity(v) => ~ActiveMatch({u, v}) /\ LeftBy(u, v)

\* The likes written were not withdrawn before, so that nobody who left is affected.
LEMMA GoneStays ==
    ASSUME Gone, UNCHANGED <<ever, departed>>, NEW L \in SUBSET LikeIds,
           \A l \in L : likes[l].status # "WITHDRAWN",
           \A l \in LikeIds \ L : likes'[l] = likes[l],
           \A u, v \in Users : u # v /\ u \in departed[{u, v}] /\ OneIdentity(v)
                               /\ ~ActiveMatch({u, v}) /\ LeftBy(u, v) => ~ActiveMatch({u, v})'
    PROVE  Gone'
<1> SUFFICES ASSUME NEW u \in Users, NEW v \in Users, u # v, u \in departed[{u, v}]
             PROVE  Known(v)' /\ (OneIdentity(v)' => ~ActiveMatch({u, v})' /\ LeftBy(u, v)')
  BY DEF Gone
<1>1. Known(v)'
  BY DEF Gone, Known
<1>2. ASSUME OneIdentity(v)'
      PROVE  ~ActiveMatch({u, v})' /\ LeftBy(u, v)'
  <2>1. OneIdentity(v)
    BY <1>2 DEF OneIdentity
  <2>2. ~ActiveMatch({u, v}) /\ LeftBy(u, v)
    BY <2>1 DEF Gone
  <2>3. ASSUME NEW l \in LikeIds, l[1] = u, v \in ever[l[2]]
        PROVE  likes'[l].status = "WITHDRAWN"
    <3>1. likes[l].status = "WITHDRAWN"
      BY <2>2, <2>3 DEF LeftBy
    <3> QED
      BY <3>1
  <2>4. LeftBy(u, v)'
    BY <2>3 DEF LeftBy
  <2> QED
    BY <2>1, <2>2, <2>4
<1> QED
  BY <1>1, <1>2

LEMMA SameGone ==
    ASSUME Gone, UNCHANGED <<likes, matches, ever, departed>>
    PROVE  Gone'
<1>1. \A u, v \in Users : ~ActiveMatch({u, v}) => ~ActiveMatch({u, v})'
  BY DEF ActiveMatch
<1>2. {} \in SUBSET LikeIds
  OBVIOUS
<1>3. \A l \in LikeIds \ {} : likes'[l] = likes[l]
  OBVIOUS
<1> QED
  BY <1>1, <1>2, <1>3, GoneStays

\* A user who had an identity and gets another has had two.
LEMMA GetsGone ==
    ASSUME Typed, Gone, NEW w \in Users, NEW i \in Identities, Gets(w, i)
    PROVE  Gone'
<1>1. /\ ever'[i] = ever[i] \cup {w}
      /\ \A j \in Identities : j # i => ever'[j] = ever[j]
      /\ UNCHANGED <<likes, matches, departed>>
  BY DEF Gets, Typed, Others
<1> SUFFICES ASSUME NEW u \in Users, NEW v \in Users, u # v, u \in departed[{u, v}]
             PROVE  Known(v)' /\ (OneIdentity(v)' => ~ActiveMatch({u, v})' /\ LeftBy(u, v)')
  BY <1>1 DEF Gone
<1>2. \A j \in Identities : ever[j] \subseteq ever'[j]
  BY <1>1
<1>3. PICK k \in Identities : v \in ever[k]
  BY DEF Gone, Known
<1>4. Known(v)'
  BY <1>2, <1>3 DEF Known
<1>5. ASSUME OneIdentity(v)'
      PROVE  ~ActiveMatch({u, v})' /\ LeftBy(u, v)'
  <2>1. OneIdentity(v)
    BY <1>2, <1>5 DEF OneIdentity
  <2>2. ~ActiveMatch({u, v}) /\ LeftBy(u, v)
    BY <2>1 DEF Gone
  <2>3. ASSUME NEW l \in LikeIds, l[1] = u, v \in ever'[l[2]]
        PROVE  likes'[l].status = "WITHDRAWN"
    <3>1. l[2] \in Identities
      BY <2>3, OfLike
    <3>2. l[2] = k
      BY <1>2, <1>3, <1>5, <2>3, <3>1 DEF OneIdentity
    <3>3. likes[l].status = "WITHDRAWN"
      BY <1>3, <2>2, <2>3, <3>2 DEF LeftBy
    <3> QED
      BY <1>1, <3>3
  <2>4. LeftBy(u, v)'
    BY <2>3 DEF LeftBy
  <2>5. ~ActiveMatch({u, v})'
    BY <1>1, <2>2 DEF ActiveMatch
  <2> QED
    BY <2>4, <2>5
<1> QED
  BY <1>4, <1>5

LEMMA CommitLikeGone ==
    ASSUME Base, Gone, NEW r \in Reqs, CommitLike(r)
    PROVE  Gone'
<1>1. PICK p : p = req[r]
  OBVIOUS
<1>2. PICK l : l = p.like
  OBVIOUS
<1>3. l \in LikeIds /\ UNCHANGED <<matches, ever>>
  BY <1>1, <1>2, CommitLikeDoes DEF Base
<1>4. CASE UNCHANGED <<likes, departed>>
  BY <1>3, <1>4, SameGone
<1>5. ASSUME NEW row \in LikeRows, likes' = [likes EXCEPT ![l] = row],
             Returned(l)
      PROVE  Gone'
  <2> SUFFICES ASSUME NEW u \in Users, NEW v \in Users, u # v, u \in departed'[{u, v}]
               PROVE  Known(v)' /\ (OneIdentity(v)' => ~ActiveMatch({u, v})' /\ LeftBy(u, v)')
    BY DEF Gone
  <2>1. {u, v} \in Pairs
    BY PairUsers
  <2>2. u \in departed[{u, v}]
    BY <1>5, <2>1 DEF Returned
  <2>3. l[1] = u => v \notin ever[l[2]]
    BY <1>5, <2>1 DEF Returned
  <2>4. Known(v)'
    BY <1>3, <2>2 DEF Gone, Known
  <2>5. ASSUME OneIdentity(v)'
        PROVE  ~ActiveMatch({u, v})' /\ LeftBy(u, v)'
    <3>1. OneIdentity(v)
      BY <1>3, <2>5 DEF OneIdentity
    <3>2. ~ActiveMatch({u, v}) /\ LeftBy(u, v)
      BY <2>2, <3>1 DEF Gone
    <3>3. \A k \in LikeIds : k # l => likes'[k] = likes[k]
      BY <1>5 DEF Base, Typed, Tables
    <3>4. LeftBy(u, v)'
      BY <1>3, <2>3, <3>2, <3>3 DEF LeftBy
    <3> QED
      BY <1>3, <3>2, <3>4 DEF ActiveMatch
  <2> QED
    BY <2>4, <2>5
<1>6. \/ UNCHANGED <<likes, departed>>
      \/ /\ \E row \in LikeRows : likes' = [likes EXCEPT ![l] = row]
         /\ Returned(l)
  BY <1>1, <1>2, CommitLikeDoes DEF Base
<1> QED
  BY <1>4, <1>5, <1>6

\* A match is formed of likes that are not withdrawn: neither user has left the other.
LEMMA FormMatchGone ==
    ASSUME Base, InTurn, Gone, NEW r \in Reqs, FormMatch(r)
    PROVE  Gone'
<1>1. PICK p : p = req[r]
  OBVIOUS
<1>2. /\ p.pc = "match" /\ UNCHANGED <<owner, hidden, charged, ever, departed>>
      /\ (Forms(p) \/ UNCHANGED <<matches, likes>>)
  BY <1>1, FormMatchDoes
<1>3. Knows(p) /\ Aimed(p) /\ AtWork(p)
  BY <1>1 DEF Base, Typed, Requests, Grounds, InTurn
<1>4. CASE UNCHANGED <<matches, likes>>
  BY <1>2, <1>4, SameGone
<1>5. CASE Forms(p)
  <2>1. PICK pair : pair = PairOf(p)
    OBVIOUS
  <2>2. /\ pair = {p.like[1], p.reverse[1]}
        /\ p.reverse[1] \in ever[p.like[2]] /\ p.like[1] \in ever[p.reverse[2]]
        /\ p.like \in LikeIds /\ p.reverse \in LikeIds
    BY <1>2, <1>3, <2>1 DEF PairOf, Aimed, Knows
  <2>3. likes[p.like].status # "WITHDRAWN" /\ likes[p.reverse].status # "WITHDRAWN"
    BY <1>2, <1>3 DEF AtWork, Open, Pending
  <2>4. pair \in Pairs /\ \A x \in Pairs : x # pair => matches'[x] = matches[x]
    BY <1>2, <1>3, <1>5, <2>1, FormsTables DEF Base, Typed
  <2>5. ASSUME NEW u \in Users, NEW v \in Users, u # v, ~ActiveMatch({u, v}), LeftBy(u, v)
        PROVE  ~ActiveMatch({u, v})'
    <3>1. {u, v} # pair
      BY <2>2, <2>3, <2>5 DEF LeftBy
    <3>2. {u, v} \in Pairs
      BY PairUsers
    <3> QED
      BY <2>4, <2>5, <3>1, <3>2 DEF ActiveMatch
  <2>6. \A l \in LikeIds \ {p.like, p.reverse} : likes'[l] = likes[l]
    BY <1>2, <1>3, <1>5, FormsLikes DEF Base, Typed
  <2>7. {p.like, p.reverse} \in SUBSET LikeIds
    BY <2>2
  <2>8. \A l \in {p.like, p.reverse} : likes[l].status # "WITHDRAWN"
    BY <2>3
  <2> QED
    BY <1>2, <2>5, <2>6, <2>7, <2>8, GoneStays
<1> QED
  BY <1>2, <1>4, <1>5

LEMMA CommitDeleteGone ==
    ASSUME Base, InTurn, Gone, NEW r \in Reqs, CommitDelete(r)
    PROVE  Gone'
<1>1. PICK l : l = req[r].like
  OBVIOUS
<1>2. l \in LikeIds /\ \A k \in LikeIds \ {l} : likes'[k] = likes[k]
  BY <1>1, CommitDeleteDoes DEF Base, Typed, Tables
<1>3. UNCHANGED <<matches, ever, departed>>
  BY DEF CommitDelete, history
<1>4. likes[l].status # "WITHDRAWN"
  BY <1>1 DEF CommitDelete, InTurn, AtWork, Open, Pending
<1>5. \A u, v \in Users : ~ActiveMatch({u, v}) => ~ActiveMatch({u, v})'
  BY <1>3 DEF ActiveMatch
<1>6. {l} \in SUBSET LikeIds /\ \A k \in {l} : likes[k].status # "WITHDRAWN"
  BY <1>2, <1>4
<1> QED
  BY <1>2, <1>3, <1>5, <1>6, GoneStays

LEMMA CommitUnmatchGone ==
    ASSUME Base, InTurn, Gone, NEW r \in Reqs, CommitUnmatch(r)
    PROVE  Gone'
<1>1. PICK p : p = req[r]
  OBVIOUS
<1>2. /\ p.pair \in Pairs /\ ActiveMatch(p.pair) /\ p.user \in p.pair
      /\ p.mine \in LikeIds /\ p.other \in LikeIds
      /\ p.mine[1] = p.user /\ p.pair = {p.mine[1], p.other[1]}
      /\ p.other[1] \in ever[p.mine[2]]
      /\ IsMatched(p.mine) /\ IsMatched(p.other)
  BY <1>1, UnmatchInTurn
<1>3. /\ p.mine # p.other => likes'[p.mine].status = "WITHDRAWN"
      /\ \A l \in LikeIds : l \notin {p.mine, p.other} => likes'[l] = likes[l]
  BY <1>1, <1>2, CommitUnmatchDoes DEF Base
<1>4. /\ matches'[p.pair].status = "UNMATCHED"
      /\ \A x \in Pairs : x # p.pair => matches'[x] = matches[x]
  <2>1. PICK m \in MatchRows :
           m.status = "UNMATCHED" /\ matches' = [matches EXCEPT ![p.pair] = m]
    BY <1>1, CommitUnmatchDoes DEF Base
  <2> QED
    BY <1>2, <2>1 DEF Base, Typed, Tables
<1>5. UNCHANGED ever
  BY DEF CommitUnmatch
<1>6. /\ departed'[p.pair] = departed[p.pair] \cup {p.user}
      /\ \A x \in Pairs : x # p.pair => departed'[x] = departed[x]
  <2>1. departed' = [departed EXCEPT ![p.pair] = @ \cup {p.user}]
    BY <1>1 DEF CommitUnmatch
  <2>2. departed \in [Pairs -> SUBSET Users]
    BY DEF Base, Typed, Others
  <2> QED
    BY <1>2, <2>1, <2>2
<1>7. likes[p.mine].status # "WITHDRAWN" /\ likes[p.other].status # "WITHDRAWN"
  BY <1>2 DEF IsMatched
<1> SUFFICES ASSUME NEW u \in Users, NEW v \in Users, u # v, u \in departed'[{u, v}]
             PROVE  Known(v)' /\ (OneIdentity(v)' => ~ActiveMatch({u, v})' /\ LeftBy(u, v)')
  BY DEF Gone
<1>8. {u, v} \in Pairs
  BY PairUsers
<1>9. ~ActiveMatch(p.pair)'
  BY <1>4 DEF ActiveMatch
<1>10. CASE {u, v} = p.pair /\ u = p.user
  <2>1. v = p.other[1] /\ p.mine # p.other
    BY <1>2, <1>10
  <2>2. p.mine[2] \in Identities /\ v \in ever[p.mine[2]]
    BY <1>2, <2>1, OfLike
  <2>3. Known(v)'
    BY <1>5, <2>2 DEF Known
  <2>4. ASSUME OneIdentity(v)', NEW l \in LikeIds, l[1] = u, v \in ever[l[2]]
        PROVE  likes'[l].status = "WITHDRAWN"
    <3>1. l[2] = p.mine[2]
      BY <1>5, <2>2, <2>4, OfLike DEF OneIdentity
    <3>2. l = p.mine
      BY <1>2, <1>10, <2>4, <3>1, OfLike
    <3> QED
      BY <1>3, <2>1, <3>2
  <2>5. OneIdentity(v)' => LeftBy(u, v)'
    BY <1>5, <2>4 DEF LeftBy
  <2> QED
    BY <1>9, <1>10, <2>3, <2>5
<1>11. CASE ~({u, v} = p.pair /\ u = p.user)
  <2>1. u \in departed[{u, v}]
    BY <1>6, <1>8, <1>11
  <2>2. Known(v)'
    BY <1>5, <2>1 DEF Gone, Known
  <2>3. ASSUME OneIdentity(v)'
        PROVE  ~ActiveMatch({u, v})' /\ LeftBy(u, v)'
    <3>1. OneIdentity(v)
      BY <1>5, <2>3 DEF OneIdentity
    <3>2. ~ActiveMatch({u, v}) /\ LeftBy(u, v)
      BY <2>1, <3>1 DEF Gone
    <3>3. {u, v} # p.pair
      BY <1>2, <3>2
    <3>4. ~ActiveMatch({u, v})'
      BY <1>4, <1>8, <3>2, <3>3 DEF ActiveMatch
    <3>5. ASSUME NEW l \in LikeIds, l[1] = u, v \in ever[l[2]]
          PROVE  likes'[l].status = "WITHDRAWN"
      <4>1. likes[l].status = "WITHDRAWN"
        BY <3>2, <3>5 DEF LeftBy
      <4> QED
        BY <1>3, <1>7, <4>1
    <3>6. LeftBy(u, v)'
      BY <1>5, <3>5 DEF LeftBy
    <3> QED
      BY <3>4, <3>6
  <2> QED
    BY <2>2, <2>3
<1> QED
  BY <1>10, <1>11

LEMMA NextGone ==
    ASSUME Base, InTurn, Gone, [Next]_vars
    PROVE  Gone'
<1>1. CASE \E r \in Reqs : Request(r)
  <2>1. PICK r \in Reqs : Request(r)
    BY <1>1
  <2>2. ASSUME NEW l \in LikeIds, NEW intent \in Intents, NEW days \in ExpiryDays,
               StartLike(r, l, intent, days)
        PROVE  Gone'
    BY <2>2, SameGone DEF StartLike, rows, history
  <2>3. CASE WriteLike(r)
    BY <2>3, SameGone DEF WriteLike, rows, history
  <2>4. CASE FindReverse(r)
    BY <2>4, SameGone DEF FindReverse, rows, history
  <2>5. CASE CheckEligibility(r)
    BY <2>5, SameGone DEF CheckEligibility, rows, history
  <2>6. ASSUME NEW l \in LikeIds, StartDelete(r, l)
        PROVE  Gone'
    BY <2>6, SameGone DEF StartDelete, rows, history
  <2>7. ASSUME NEW pair \in Pairs, NEW u \in pair, StartUnmatch(r, u, pair)
        PROVE  Gone'
    BY <2>7, SameGone DEF StartUnmatch, rows, history
  <2>8. ASSUME NEW job \in jobs, TakeJob(r, job)
        PROVE  Gone'
    BY <2>8, SameGone DEF TakeJob, rows, history
  <2> QED
    BY <2>1, <2>2, <2>3, <2>4, <2>5, <2>6, <2>7, <2>8, CommitLikeGone, FormMatchGone,
       CommitDeleteGone, CommitUnmatchGone DEF Request
<1>2. ASSUME NEW u \in Users, NEW v \in Users, CreateBlock(u, v) \/ DeleteBlock(u, v)
      PROVE  Gone'
  BY <1>2, SameGone DEF CreateBlock, DeleteBlock, history
<1>3. ASSUME NEW u \in Users, NEW i \in Identities,
             ClaimIdentity(u, i) \/ RegisterIdentity(u, i) \/ CreateIdentity(u, i)
      PROVE  Gone'
  BY <1>3, GetsGone DEF ClaimIdentity, RegisterIdentity, CreateIdentity, Base
<1>4. ASSUME NEW i \in Identities, ReleaseIdentity(i) PROVE Gone'
  BY <1>4, SameGone DEF ReleaseIdentity, history
<1>5. ASSUME NEW u \in Users, HideIdentities(u) \/ HandleIdentityClaimed(u) PROVE Gone'
  BY <1>5, SameGone DEF HideIdentities, HandleIdentityClaimed, rows, history
<1>6. CASE Tick
  BY <1>6, SameGone DEF Tick, rows, history
<1>7. CASE Restart
  BY <1>7, SameGone DEF Restart, rows, history
<1>8. CASE UNCHANGED vars
  BY <1>8, SameGone DEF vars, rows, history
<1> QED
  BY <1>1, <1>2, <1>3, <1>4, <1>5, <1>6, <1>7, <1>8 DEF Next

LEMMA InitGone ==
    ASSUME Init
    PROVE  Gone
<1>1. \A u, v \in Users : departed[{u, v}] = {}
  BY PairUsers DEF Init
<1> QED
  BY <1>1 DEF Gone

\* With requests handled one after the other and no event under way, whoever gets or loses
\* an identity: after u unmatches v, who has had one identity only, the two are matched
\* again only once u has sent v a new like, which is what WITHDRAWN and VOIDED are told
\* apart for (matches.service.ts:394-397).
THEOREM UnmatchesHold ==
    ASSUME OneAtATime, NoClaims
    PROVE  Spec => []UnmatchHolds
<1>1. Init => Base /\ Settled /\ InTurn /\ Gone
  BY InitTyped, InitGrounds, InitSettled, InitTurn, InitGone DEF Base
<1>2. Base /\ Settled /\ InTurn /\ Gone /\ [Next]_vars
        => Base' /\ Settled' /\ InTurn' /\ Gone'
  BY NextTyped, NextGrounds, NextSettled, NextTurn, NextGone DEF Base
<1>3. Gone => UnmatchHolds
  BY DEF Gone, UnmatchHolds
<1> QED
  BY <1>1, <1>2, <1>3, PTL DEF Spec

-----------------------------------------------------------------------------
(* Likes that could meet are pursued until their users are matched, with   *)
(* any number of requests and events at once and whoever gets or loses an  *)
(* identity, when nobody is blocked, the instance does not restart and all *)
(* intents go together.                                                    *)

AllCompatible == \A x, y \in Intents : IsIntentCompatible(x, y)
Undisturbed   == MaxBlocks = 0 /\ MaxRestarts = 0

\* The bounds on blocks and restarts let nothing of the kind happen.
Calm ==
    /\ used = [kind \in DOMAIN Bounds |-> used[kind]]
    /\ used["blocks"] = 0 /\ used["restarts"] = 0
    /\ blocks = {}

\* A resolution that started from k and will match its users, whichever like of the
\* other user it has found, unless another one has been faster.
Seeks(q, k, l) ==
    /\ q.pc \in {"find", "check", "match"} /\ q.like = k /\ q.target = l[1]
    /\ q.pc = "match" => q.existing \/ matches[{k[1], l[1]}] = NoRow

\* Like k will be resolved for the user who sent l.
Awaited(k, l) ==
    \/ \E r \in Reqs : Seeks(req[r], k, l)
    \/ \E job \in jobs : job.like = k /\ job.target = l[1]
    \/ l[1] \in claims

Pledge(k, l) == ActiveMatch({k[1], l[1]}) \/ Awaited(k, l) \/ Awaited(l, k)

\* Likes that should meet.
Due(k, l) ==
    /\ k \notin late /\ l \notin late /\ k[1] # l[1] /\ Meet(k, l)
    /\ OneIdentity(k[1]) \/ OneIdentity(l[1])

Pursued == \A k, l \in LikeIds : Due(k, l) => Pledge(k, l)

\* An unmatch in progress holds a like of each of two users for an identity that the
\* other has had.
Parts(q) ==
    q.pc = "unmatch" => \A u, v \in Users : u # v /\ q.pair = {u, v} =>
        \E x \in {q.mine, q.other} : x[1] = u /\ v \in ever[x[2]]

Pursuing == Calm /\ Pursued /\ \A r \in Reqs : Parts(req[r])

-----------------------------------------------------------------------------
LEMMA CalmUsed ==
    ASSUME Undisturbed, Calm, NEW kind, Use(kind)
    PROVE  /\ kind \notin {"blocks", "restarts"}
           /\ used' = [k \in DOMAIN Bounds |-> used'[k]]
           /\ used'["blocks"] = 0 /\ used'["restarts"] = 0
<1>1. kind \notin {"blocks", "restarts"}
  BY DEF Use, Undisturbed, Calm, Bounds
<1>2. "blocks" \in DOMAIN Bounds /\ "restarts" \in DOMAIN Bounds
  BY DEF Bounds
<1> QED
  BY <1>1, <1>2 DEF Use, Calm

LEMMA CalmStays ==
    ASSUME Undisturbed, Calm, Next
    PROVE  Calm' /\ ~Restart /\ UNCHANGED blocks
<1>1. ~Restart
  BY CalmUsed DEF Restart
<1>2. ASSUME NEW r \in Reqs, Request(r)
      PROVE  UNCHANGED blocks /\ (UNCHANGED used \/ \E kind : Use(kind))
  <2>1. ASSUME NEW l \in LikeIds, NEW intent \in Intents, NEW days \in ExpiryDays,
               StartLike(r, l, intent, days)
        PROVE  UNCHANGED blocks /\ Use("likes")
    BY <2>1 DEF StartLike, rows
  <2>2. ASSUME NEW l \in LikeIds, StartDelete(r, l)
        PROVE  UNCHANGED blocks /\ Use("deletes")
    BY <2>2 DEF StartDelete, rows
  <2>3. ASSUME NEW pair \in Pairs, NEW u \in pair, StartUnmatch(r, u, pair)
        PROVE  UNCHANGED blocks /\ Use("unmatches")
    BY <2>3 DEF StartUnmatch, rows
  <2>4. ASSUME NEW job \in jobs, TakeJob(r, job)
        PROVE  UNCHANGED <<blocks, used>>
    BY <2>4 DEF TakeJob, rows
  <2>5. WriteLike(r) \/ FindReverse(r) \/ CheckEligibility(r) => UNCHANGED <<blocks, used>>
    BY DEF WriteLike, FindReverse, CheckEligibility, rows
  <2>6. CommitLike(r) \/ FormMatch(r) \/ CommitDelete(r) \/ CommitUnmatch(r)
        => UNCHANGED <<blocks, used>>
    BY DEF CommitLike, FormMatch, CommitDelete, CommitUnmatch
  <2> QED
    BY <1>2, <2>1, <2>2, <2>3, <2>4, <2>5, <2>6 DEF Request
<1>3. ASSUME NEW u \in Users, NEW v \in Users
      PROVE  ~CreateBlock(u, v) /\ ~DeleteBlock(u, v)
  BY CalmUsed DEF CreateBlock, DeleteBlock, Calm
<1>4. ASSUME NEW u \in Users, NEW i \in Identities,
             ClaimIdentity(u, i) \/ RegisterIdentity(u, i) \/ CreateIdentity(u, i)
      PROVE  UNCHANGED blocks /\ \E kind : Use(kind)
  BY <1>4 DEF ClaimIdentity, RegisterIdentity, CreateIdentity, Gets
<1>5. ASSUME NEW i \in Identities, ReleaseIdentity(i)
      PROVE  UNCHANGED blocks /\ \E kind : Use(kind)
  BY <1>5 DEF ReleaseIdentity
<1>6. ASSUME NEW u \in Users, HideIdentities(u) \/ HandleIdentityClaimed(u)
      PROVE  UNCHANGED blocks /\ (UNCHANGED used \/ \E kind : Use(kind))
  BY <1>6 DEF HideIdentities, HandleIdentityClaimed, rows
<1>7. Tick => UNCHANGED <<blocks, used>>
  BY DEF Tick, rows
<1>8. UNCHANGED blocks /\ (UNCHANGED used \/ \E kind : Use(kind))
  BY <1>1, <1>2, <1>3, <1>4, <1>5, <1>6, <1>7 DEF Next
<1>9. CASE UNCHANGED used
  BY <1>1, <1>8, <1>9 DEF Calm
<1>10. CASE \E kind : Use(kind)
  <2>1. PICK kind : Use(kind)
    BY <1>10
  <2> QED
    BY <1>1, <1>8, <2>1, CalmUsed DEF Calm
<1> QED
  BY <1>8, <1>9, <1>10

\* Likes become due by a step that writes an owner or one of their rows only.
LEMMA StillDue ==
    ASSUME NEW k \in LikeIds, NEW l \in LikeIds, UNCHANGED <<owner, hidden, ever, now>>,
           late \subseteq late', likes'[k] = likes[k], likes'[l] = likes[l], Due(k, l)'
    PROVE  Due(k, l)
BY DEF Due, Meet, Row, Pending, Deleted, OneIdentity

\* What another request than r seeks it goes on seeking.
LEMMA OthersSeek ==
    ASSUME Requests, NEW k \in LikeIds, NEW l \in LikeIds, Awaited(k, l), UNCHANGED claims,
           jobs \subseteq jobs', NEW r \in Reqs, NEW q, req' = [req EXCEPT ![r] = q],
           matches'[{k[1], l[1]}] = matches[{k[1], l[1]}], ~Seeks(req[r], k, l)
    PROVE  Awaited(k, l)'
<1>1. CASE \E s \in Reqs : Seeks(req[s], k, l)
  <2>1. PICK s \in Reqs : Seeks(req[s], k, l)
    BY <1>1
  <2>2. PICK p : p = req[s]
    OBVIOUS
  <2>3. req'[s] = p
    BY <2>1, <2>2 DEF Requests
  <2>4. Seeks(p, k, l)'
    BY <2>1, <2>2 DEF Seeks
  <2>5. Seeks(req[s], k, l)'
    BY <2>3, <2>4 DEF Seeks
  <2> QED
    BY <2>5 DEF Awaited
<1> QED
  BY <1>1 DEF Awaited

\* A step of a request that resolves nothing.
LEMMA OthersPursue ==
    ASSUME Typed, Pursued, UNCHANGED <<matches, claims, jobs>>, NEW r \in Reqs, NEW q,
           req' = [req EXCEPT ![r] = q], req[r].pc \notin {"find", "check", "match"},
           NEW k \in LikeIds, NEW l \in LikeIds, Due(k, l)
    PROVE  Pledge(k, l)'
<1>1. Pledge(k, l)
  BY DEF Pursued
<1>2. ~Seeks(req[r], k, l) /\ ~Seeks(req[r], l, k)
  BY DEF Seeks
<1>3. ASSUME Awaited(k, l) PROVE Awaited(k, l)'
  BY <1>2, <1>3, OthersSeek DEF Typed
<1>4. ASSUME Awaited(l, k) PROVE Awaited(l, k)'
  BY <1>2, <1>4, OthersSeek DEF Typed
<1> QED
  BY <1>1, <1>3, <1>4 DEF Pledge, ActiveMatch

-----------------------------------------------------------------------------
LEMMA PartsStays ==
    ASSUME NEW q, Knows(q), Parts(q), EverGrows
    PROVE  Parts(q)'
<1> SUFFICES ASSUME q.pc = "unmatch", NEW u \in Users, NEW v \in Users, u # v, q.pair = {u, v}
             PROVE  \E x \in {q.mine, q.other} : x[1] = u /\ v \in ever'[x[2]]
  BY DEF Parts
<1>1. PICK x \in {q.mine, q.other} : x[1] = u /\ v \in ever[x[2]]
  BY DEF Parts
<1>2. x[2] \in Identities
  BY <1>1, OfLike DEF Knows
<1> QED
  BY <1>1, <1>2 DEF EverGrows

\* An unmatch starts with the likes on which the match rests.
LEMMA StartUnmatchParts ==
    ASSUME Typed, Grounds, NEW r \in Reqs, NEW pair \in Pairs, NEW u \in pair,
           StartUnmatch(r, u, pair)
    PROVE  \E q : req' = [req EXCEPT ![r] = q] /\ q.pc = "unmatch" /\ Parts(q) /\ UNCHANGED ever
<1>1. ActiveMatch(pair) /\ UNCHANGED ever
  BY DEF StartUnmatch, history
<1>2. PICK q : UnmatchRequest(q, u, pair) /\ req' = [req EXCEPT ![r] = q]
  BY StartUnmatchDoes
<1>3. PICK by : by = matches[pair].by
  OBVIOUS
<1>4. RestsOn(by, pair)
  BY <1>1, <1>3, ActiveIsRow DEF Grounds
<1>5. q.pc = "unmatch" /\ q.pair = pair /\ by[1] \in {q.mine, q.other} /\ by[2] \in {q.mine, q.other}
  BY <1>2, <1>3 DEF UnmatchRequest
<1>6. ASSUME NEW x \in Users, NEW y \in Users, x # y, q.pair = {x, y}
      PROVE  \E k \in {q.mine, q.other} : k[1] = x /\ y \in ever[k[2]]
  <2>1. (x = by[1][1] /\ y = by[2][1]) \/ (x = by[2][1] /\ y = by[1][1])
    BY <1>4, <1>5, <1>6 DEF RestsOn
  <2> QED
    BY <1>4, <1>5, <2>1 DEF RestsOn
<1>7. Parts(q)
  BY <1>6 DEF Parts
<1> QED
  BY <1>1, <1>2, <1>5, <1>7

\* What the steps do to the requests in progress.
LEMMA RequestStep ==
    ASSUME Typed, Grounds, NEW r \in Reqs, Request(r)
    PROVE  \E q : req' = [req EXCEPT ![r] = q] /\ Parts(q) /\ UNCHANGED ever
<1>1. ASSUME NEW q, q.pc # "unmatch" PROVE Parts(q)
  BY <1>1 DEF Parts
<1>2. Parts(Idle)
  BY <1>1 DEF Idle
<1>3. CASE \E pair \in Pairs : \E u \in pair : StartUnmatch(r, u, pair)
  BY <1>3, StartUnmatchParts
<1>4. CASE \E l \in LikeIds, intent \in Intents, days \in ExpiryDays : StartLike(r, l, intent, days)
  <2>1. PICK l \in LikeIds, intent \in Intents, days \in ExpiryDays : StartLike(r, l, intent, days)
    BY <1>4
  <2>2. PICK q : q = [pc |-> "write", like |-> l, intent |-> intent, reuse |-> IsReusable(l),
                      expires |-> IF days = 0 THEN Never ELSE now + days]
    OBVIOUS
  <2>3. req' = [req EXCEPT ![r] = q] /\ UNCHANGED ever /\ q.pc = "write"
    BY <2>1, <2>2 DEF StartLike, history
  <2> QED
    BY <1>1, <2>3
<1>5. CASE WriteLike(r)
  <2>1. PICK p : p = req[r]
    OBVIOUS
  <2>2. PICK q : q = [pc |-> "commit", like |-> p.like, intent |-> p.intent, reuse |-> p.reuse,
                      expires |-> p.expires, target |-> owner[p.like[2]]]
    OBVIOUS
  <2>3. req' = [req EXCEPT ![r] = q] /\ UNCHANGED ever /\ q.pc = "commit"
    BY <1>5, <2>1, <2>2 DEF WriteLike, history, Typed, Requests
  <2> QED
    BY <1>1, <2>3
<1>6. CASE CommitLike(r)
  <2>1. PICK p : p = req[r]
    OBVIOUS
  <2>2. PICK l : l = p.like
    OBVIOUS
  <2>3. PICK q : q = [pc |-> "find", like |-> l, intent |-> p.intent, target |-> p.target]
    OBVIOUS
  <2>4. UNCHANGED ever /\ (Ends(r) \/ req' = [req EXCEPT ![r] = q])
    BY <1>6, <2>1, <2>2, <2>3, CommitLikeDoes
  <2> QED
    BY <1>1, <1>2, <2>3, <2>4 DEF Ends
<1>7. CASE FindReverse(r)
  <2>1. PICK p : p = req[r]
    OBVIOUS
  <2>2. UNCHANGED ever
    BY <1>7 DEF FindReverse, history
  <2>3. CASE Ends(r)
    BY <1>2, <2>2, <2>3 DEF Ends
  <2>4. CASE ~Ends(r)
    <3>1. PICK l \in LikeIds :
             req' = [req EXCEPT ![r] =
                       [pc |-> "check", like |-> p.like, intent |-> p.intent, target |-> p.target,
                        reverse |-> l, reverseIntent |-> likes[l].intent]]
      BY <1>7, <2>1, <2>4, FindReverseDoes
    <3>2. PICK q : q = [pc |-> "check", like |-> p.like, intent |-> p.intent, target |-> p.target,
                        reverse |-> l, reverseIntent |-> likes[l].intent]
      OBVIOUS
    <3> QED
      BY <1>1, <2>2, <3>1, <3>2
  <2> QED
    BY <2>3, <2>4
<1>8. CASE CheckEligibility(r)
  <2>1. PICK p : p = req[r]
    OBVIOUS
  <2>2. PICK q : q = [pc |-> "match", like |-> p.like, target |-> p.target,
                      reverse |-> p.reverse, existing |-> matches[PairOf(p)] # NoRow]
    OBVIOUS
  <2>3. UNCHANGED ever /\ (Ends(r) \/ req' = [req EXCEPT ![r] = q])
    BY <1>8, <2>1, <2>2 DEF CheckEligibility, history
  <2> QED
    BY <1>1, <1>2, <2>2, <2>3 DEF Ends
<1>9. CASE FormMatch(r) \/ CommitDelete(r) \/ CommitUnmatch(r)
  <2>1. UNCHANGED ever /\ Ends(r)
    BY <1>9 DEF FormMatch, CommitDelete, CommitUnmatch, history
  <2> QED
    BY <1>2, <2>1 DEF Ends
<1>10. CASE \E l \in LikeIds : StartDelete(r, l)
  <2>1. PICK l \in LikeIds : StartDelete(r, l)
    BY <1>10
  <2>2. PICK q : q = [pc |-> "delete", like |-> l]
    OBVIOUS
  <2> QED
    BY <1>1, <2>1, <2>2 DEF StartDelete, history
<1>11. CASE \E job \in jobs : TakeJob(r, job)
  <2>1. PICK job \in jobs : TakeJob(r, job)
    BY <1>11
  <2>2. PICK q : q = [pc |-> "find", like |-> job.like, intent |-> job.intent,
                      target |-> job.target]
    OBVIOUS
  <2> QED
    BY <1>1, <2>1, <2>2 DEF TakeJob, history
<1> QED
  BY <1>3, <1>4, <1>5, <1>6, <1>7, <1>8, <1>9, <1>10, <1>11 DEF Request

LEMMA NextParts ==
    ASSUME Typed, Grounds, \A r \in Reqs : Parts(req[r]), Next, ~Restart
    PROVE  \A r \in Reqs : Parts(req[r])'
<1>1. ASSUME EverGrows, UNCHANGED req, NEW s \in Reqs PROVE Parts(req[s])'
  <2>1. PICK p : p = req[s]
    OBVIOUS
  <2>2. req'[s] = p /\ Parts(p)'
    BY <1>1, <2>1, PartsStays DEF Typed, Requests
  <2> QED
    BY <2>2 DEF Parts
<1>2. ASSUME NEW r \in Reqs, Request(r), NEW s \in Reqs PROVE Parts(req[s])'
  <2>1. PICK q : req' = [req EXCEPT ![r] = q] /\ Parts(q) /\ UNCHANGED ever
    BY <1>2, RequestStep
  <2>2. PICK p : p = req[s]
    OBVIOUS
  <2>3. req'[s] = IF s = r THEN q ELSE p
    BY <2>1, <2>2 DEF Typed, Requests
  <2>4. Parts(p)' /\ Parts(q)'
    BY <2>1, <2>2 DEF Parts
  <2> QED
    BY <2>3, <2>4 DEF Parts
<1>3. ASSUME NEW u \in Users, NEW v \in Users, CreateBlock(u, v) \/ DeleteBlock(u, v)
      PROVE  UNCHANGED req /\ EverGrows
  BY <1>3 DEF CreateBlock, DeleteBlock, EverGrows, history
<1>4. ASSUME NEW u \in Users, HideIdentities(u) \/ HandleIdentityClaimed(u)
      PROVE  UNCHANGED req /\ EverGrows
  BY <1>4 DEF HideIdentities, HandleIdentityClaimed, EverGrows, history
<1>5. ASSUME NEW u \in Users, NEW i \in Identities,
             ClaimIdentity(u, i) \/ RegisterIdentity(u, i) \/ CreateIdentity(u, i)
      PROVE  UNCHANGED req /\ EverGrows
  <2>1. Gets(u, i)
    BY <1>5 DEF ClaimIdentity, RegisterIdentity, CreateIdentity
  <2> QED
    BY <2>1 DEF Gets, EverGrows, Typed, Others
<1>6. ASSUME NEW i \in Identities, ReleaseIdentity(i) PROVE UNCHANGED req /\ EverGrows
  BY <1>6 DEF ReleaseIdentity, EverGrows, history
<1>7. ASSUME Tick PROVE UNCHANGED req /\ EverGrows
  BY <1>7 DEF Tick, EverGrows, history
<1> QED
  BY <1>1, <1>2, <1>3, <1>4, <1>5, <1>6, <1>7 DEF Next

-----------------------------------------------------------------------------
(* The steps of a request.                                                 *)

LEMMA DueBothWays ==
    ASSUME NEW k \in LikeIds, NEW l \in LikeIds, Due(k, l)
    PROVE  /\ Due(l, k) /\ k # l
           /\ \A x \in {k, l} : Row(x) /\ Pending(x) /\ ~Deleted(x) /\ likes[x].expires > now
           /\ owner[k[2]] = l[1] /\ owner[l[2]] = k[1] /\ {k[1], l[1]} \in Pairs
           /\ k[2] \notin hidden /\ l[2] \notin hidden
BY OfLike, PairUsers DEF Due, Meet, IsIntentCompatible

LEMMA QuietPursues ==
    ASSUME Typed, Pursued, UNCHANGED <<rows, claims, jobs, now, ever, late>>, NEW r \in Reqs, NEW q,
           req' = [req EXCEPT ![r] = q], req[r].pc \notin {"find", "check", "match"}
    PROVE  Pursued'
<1> SUFFICES ASSUME NEW k \in LikeIds, NEW l \in LikeIds, Due(k, l)' PROVE Pledge(k, l)'
  BY DEF Pursued
<1>1. UNCHANGED <<owner, hidden, likes, matches>>
  BY DEF rows
<1>2. Due(k, l)
  BY <1>1, StillDue
<1> QED
  BY <1>1, <1>2, OthersPursue

LEMMA StartsPursue ==
    ASSUME Typed, Pursued, NEW r \in Reqs,
           \/ \E l \in LikeIds, intent \in Intents, days \in ExpiryDays :
                 StartLike(r, l, intent, days)
           \/ WriteLike(r)
           \/ \E l \in LikeIds : StartDelete(r, l)
           \/ \E pair \in Pairs : \E u \in pair : StartUnmatch(r, u, pair)
    PROVE  Pursued'
<1>1. Idle.pc = "idle"
  BY DEF Idle
<1>2. ASSUME NEW l \in LikeIds, NEW intent \in Intents, NEW days \in ExpiryDays,
             StartLike(r, l, intent, days)
      PROVE  Pursued'
  <2>1. PICK q : q = [pc |-> "write", like |-> l, intent |-> intent, reuse |-> IsReusable(l),
                      expires |-> IF days = 0 THEN Never ELSE now + days]
    OBVIOUS
  <2>2. /\ req[r] = Idle /\ req' = [req EXCEPT ![r] = q]
        /\ UNCHANGED <<rows, claims, jobs, now, ever, late>>
    BY <1>2, <2>1 DEF StartLike, history
  <2> QED
    BY <1>1, <2>2, QuietPursues
<1>3. ASSUME WriteLike(r) PROVE Pursued'
  <2>1. PICK p : p = req[r]
    OBVIOUS
  <2>2. PICK q : q = [pc |-> "commit", like |-> p.like, intent |-> p.intent, reuse |-> p.reuse,
                      expires |-> p.expires, target |-> owner[p.like[2]]]
    OBVIOUS
  <2>3. /\ req[r].pc = "write" /\ req' = [req EXCEPT ![r] = q]
        /\ UNCHANGED <<rows, claims, jobs, now, ever, late>>
    BY <1>3, <2>1, <2>2 DEF WriteLike, history, Typed, Requests
  <2> QED
    BY <2>3, QuietPursues
<1>4. ASSUME NEW l \in LikeIds, StartDelete(r, l) PROVE Pursued'
  <2>1. PICK q : q = [pc |-> "delete", like |-> l]
    OBVIOUS
  <2>2. /\ req[r] = Idle /\ req' = [req EXCEPT ![r] = q]
        /\ UNCHANGED <<rows, claims, jobs, now, ever, late>>
    BY <1>4, <2>1 DEF StartDelete, history
  <2> QED
    BY <1>1, <2>2, QuietPursues
<1>5. ASSUME NEW pair \in Pairs, NEW u \in pair, StartUnmatch(r, u, pair) PROVE Pursued'
  <2>1. UNCHANGED <<rows, claims, jobs, now, ever, late>> /\ req[r] = Idle
    BY <1>5 DEF StartUnmatch, history
  <2>2. PICK q : req' = [req EXCEPT ![r] = q]
    BY <1>5, StartUnmatchDoes
  <2> QED
    BY <1>1, <2>1, <2>2, QuietPursues
<1> QED
  BY <1>2, <1>3, <1>4, <1>5

\* Who deletes a like does not expect it to meet another.
LEMMA CommitDeletePursues ==
    ASSUME Typed, Pursued, NEW r \in Reqs, CommitDelete(r)
    PROVE  Pursued'
<1> SUFFICES ASSUME NEW k \in LikeIds, NEW l \in LikeIds, Due(k, l)' PROVE Pledge(k, l)'
  BY DEF Pursued
<1>1. PICK d : d = req[r].like
  OBVIOUS
<1>2. /\ req[r].pc = "delete" /\ Ends(r)
      /\ UNCHANGED <<owner, hidden, matches, claims, jobs, now, history>>
      /\ likes' = [likes EXCEPT ![d].status = "DELETED", ![d].deleted = TRUE]
  BY <1>1 DEF CommitDelete
<1>3. d \in LikeIds /\ Row(d)
  BY <1>1, <1>2 DEF Typed, Requests, Knows
<1>4. likes'[d].deleted /\ \A x \in LikeIds : x # d => likes'[x] = likes[x]
  BY <1>1, <1>2, <1>3, CommitDeleteDoes DEF Typed, Tables
<1>5. k # d /\ l # d
  BY <1>4 DEF Due, Meet, Deleted
<1>6. Due(k, l)
  BY <1>2, <1>4, <1>5, StillDue DEF history
<1> QED
  BY <1>2, <1>6, OthersPursue DEF Ends

\* The like that was written last is resolved by its own request.
LEMMA CommitLikePursues ==
    ASSUME Typed, Grounds, Pursued, NEW r \in Reqs, CommitLike(r)
    PROVE  Pursued'
<1> SUFFICES ASSUME NEW k \in LikeIds, NEW l \in LikeIds, Due(k, l)' PROVE Pledge(k, l)'
  BY DEF Pursued
<1>1. PICK p : p = req[r]
  OBVIOUS
<1>2. PICK x : x = p.like
  OBVIOUS
<1>3. /\ p.pc = "commit" /\ x \in LikeIds
      /\ UNCHANGED <<owner, hidden, matches, claims, jobs, now, ever>>
  BY <1>1, <1>2, CommitLikeDoes
<1>4. PICK q : q = [pc |-> "find", like |-> x, intent |-> p.intent, target |-> p.target]
  OBVIOUS
<1>5. CASE Ends(r) /\ UNCHANGED <<likes, charged, departed, late>>
  <2>1. Due(k, l)
    BY <1>3, <1>5, StillDue
  <2> QED
    BY <1>1, <1>3, <1>5, <2>1, OthersPursue DEF Ends
<1>6. CASE ~(Ends(r) /\ UNCHANGED <<likes, charged, departed, late>>)
  <2>1. /\ req' = [req EXCEPT ![r] = q]
        /\ \E row \in LikeRows : likes' = [likes EXCEPT ![x] = row]
    BY <1>1, <1>2, <1>4, <1>6, CommitLikeDoes
  <2>2. late' = IF owner[x[2]] = p.target THEN late \ {x} ELSE late \cup {x}
    BY <1>1, <1>2, <1>6 DEF CommitLike
  <2>3. \A y \in LikeIds : y # x => likes'[y] = likes[y]
    BY <1>3, <2>1 DEF Typed, Tables
  <2>4. CASE x \in {k, l}
    <3>1. owner[x[2]] = p.target
      BY <2>2, <2>4 DEF Due
    <3>2. owner'[k[2]] = l[1] /\ owner'[l[2]] = k[1]
      BY DEF Due, Meet
    <3>3. req'[r] = q
      BY <2>1 DEF Typed, Requests
    <3>4. x = k => q.target = l[1]
      BY <1>3, <1>4, <3>1, <3>2
    <3>5. x = l => q.target = k[1]
      BY <1>3, <1>4, <3>1, <3>2
    <3>6. x = k => Awaited(k, l)'
      BY <1>4, <3>3, <3>4 DEF Awaited, Seeks
    <3>7. x = l => Awaited(l, k)'
      BY <1>4, <3>3, <3>5 DEF Awaited, Seeks
    <3> QED
      BY <2>4, <3>6, <3>7 DEF Pledge
  <2>5. CASE x \notin {k, l}
    <3>1. k \notin late /\ l \notin late
      BY <2>2, <2>5 DEF Due
    <3>2. likes'[k] = likes[k] /\ likes'[l] = likes[l]
      BY <2>3, <2>5
    <3>3. Due(k, l)
      BY <1>3, <3>1, <3>2 DEF Due, Meet, Row, Pending, Deleted, OneIdentity
    <3> QED
      BY <1>1, <1>3, <2>1, <3>3, OthersPursue
  <2> QED
    BY <2>4, <2>5
<1> QED
  BY <1>5, <1>6

\* A pledge is kept when each of its likes is.
LEMMA PledgeKept ==
    ASSUME Pursued, NEW k \in LikeIds, NEW l \in LikeIds, Due(k, l),
           ActiveMatch({k[1], l[1]}) => ActiveMatch({k[1], l[1]})',
           Awaited(k, l) => Pledge(k, l)', Awaited(l, k) => Pledge(k, l)'
    PROVE  Pledge(k, l)'
BY DEF Pursued, Pledge

LEMMA PledgeBothWays ==
    ASSUME NEW k \in LikeIds, NEW l \in LikeIds, Pledge(l, k)'
    PROVE  Pledge(k, l)'
<1>1. {k[1], l[1]} = {l[1], k[1]}
  OBVIOUS
<1> QED
  BY <1>1 DEF Pledge

\* A search for the other like of two that are due finds one.
LEMMA FindReverseHalf ==
    ASSUME Typed, NEW r \in Reqs, FindReverse(r), NEW k \in LikeIds, NEW l \in LikeIds, Due(k, l),
           Awaited(k, l)
    PROVE  Pledge(k, l)'
<1>1. PICK p : p = req[r]
  OBVIOUS
<1>2. p.pc = "find" /\ UNCHANGED <<rows, claims, jobs, matches>>
  BY <1>1 DEF FindReverse, rows
<1>3. PICK found : found = IF p.target = NoOwner THEN {} ELSE ReverseLikes(p.like[1], p.target)
  OBVIOUS
<1>4. \/ found = {} /\ req' = [req EXCEPT ![r] = Idle]
      \/ \E y \in found :
            req' = [req EXCEPT ![r] =
                      [pc |-> "check", like |-> p.like, intent |-> p.intent, target |-> p.target,
                       reverse |-> y, reverseIntent |-> likes[y].intent]]
  BY <1>1, <1>3 DEF FindReverse, Typed, Requests, Ends
<1>5. CASE ~Seeks(p, k, l)
  <2>1. \E q : req' = [req EXCEPT ![r] = q]
    BY <1>4
  <2> QED
    BY <1>1, <1>2, <1>5, <2>1, OthersSeek DEF Typed, Pledge
<1>6. CASE Seeks(p, k, l)
  <2>1. p.like = k /\ p.target = l[1] /\ l[1] \in Users
    BY <1>6, OfLike DEF Seeks
  <2>2. l \in ReverseLikes(k[1], l[1])
    <3>1. Row(l) /\ Pending(l) /\ ~Deleted(l) /\ likes[l].expires > now /\ owner[l[2]] = k[1]
      BY DueBothWays
    <3>2. likes[l].expires \in Nat /\ now \in Nat /\ boot \in 0 .. now
      BY <3>1, RowFields DEF Typed, LikeRows, Others
    <3>3. PassesActiveFilter(l)
      BY <3>1, <3>2 DEF PassesActiveFilter
    <3> QED
      BY <3>1, <3>3 DEF ReverseLikes, Pending
  <2>3. found # {}
    BY <1>3, <2>1, <2>2, Sizes
  <2>4. PICK y \in found :
           req' = [req EXCEPT ![r] =
                     [pc |-> "check", like |-> k, intent |-> p.intent, target |-> l[1],
                      reverse |-> y, reverseIntent |-> likes[y].intent]]
    BY <1>4, <2>1, <2>3
  <2>5. req'[r].pc = "check" /\ req'[r].like = k /\ req'[r].target = l[1]
    BY <2>4 DEF Typed, Requests
  <2> QED
    BY <2>5 DEF Awaited, Seeks, Pledge
<1> QED
  BY <1>5, <1>6

LEMMA FindReversePursues ==
    ASSUME Typed, Pursued, NEW r \in Reqs, FindReverse(r)
    PROVE  Pursued'
<1> SUFFICES ASSUME NEW k \in LikeIds, NEW l \in LikeIds, Due(k, l)' PROVE Pledge(k, l)'
  BY DEF Pursued
<1>1. UNCHANGED <<owner, hidden, likes, matches, ever, late, now>>
  BY DEF FindReverse, rows, history
<1>2. Due(k, l) /\ Due(l, k)
  BY <1>1, StillDue, DueBothWays
<1>3. Awaited(k, l) => Pledge(k, l)'
  BY <1>2, FindReverseHalf
<1>4. Awaited(l, k) => Pledge(l, k)'
  BY <1>2, FindReverseHalf
<1>5. Pledge(l, k)' => Pledge(k, l)'
  BY PledgeBothWays
<1> QED
  BY <1>1, <1>2, <1>3, <1>4, <1>5, PledgeKept DEF ActiveMatch

\* Of two that are due nothing but an active match keeps the check from passing.
LEMMA CheckEligibilityHalf ==
    ASSUME AllCompatible, blocks = {}, Typed, NEW r \in Reqs, CheckEligibility(r),
           NEW k \in LikeIds, NEW l \in LikeIds, ~ActiveMatch({k[1], l[1]}), Awaited(k, l)
    PROVE  Awaited(k, l)'
<1>1. PICK p : p = req[r]
  OBVIOUS
<1>2. /\ p.pc = "check" /\ Knows(p) /\ UNCHANGED <<claims, jobs, matches>>
  BY <1>1 DEF CheckEligibility, rows, Typed, Requests
<1>3. PICK q : q = [pc |-> "match", like |-> p.like, target |-> p.target,
                    reverse |-> p.reverse, existing |-> matches[PairOf(p)] # NoRow]
  OBVIOUS
<1>4. IF IsEligible(p) THEN req' = [req EXCEPT ![r] = q] ELSE req' = [req EXCEPT ![r] = Idle]
  BY <1>1, <1>3 DEF CheckEligibility, Ends
<1>5. CASE ~Seeks(p, k, l)
  BY <1>1, <1>2, <1>4, <1>5, OthersSeek DEF Typed
<1>6. CASE Seeks(p, k, l)
  <2>1. p.like = k /\ p.target = l[1] /\ PairOf(p) = {k[1], l[1]}
    BY <1>6 DEF Seeks, PairOf
  <2>2. IsIntentCompatible(p.intent, p.reverseIntent)
    BY <1>2 DEF Knows, AllCompatible
  <2>3. IsEligible(p)
    BY <2>1, <2>2 DEF IsEligible, IsBlocked
  <2>4. req'[r] = q
    BY <1>4, <2>3 DEF Typed, Requests
  <2>5. q.pc = "match" /\ q.like = k /\ q.target = l[1]
        /\ (q.existing <=> matches[{k[1], l[1]}] # NoRow)
    BY <1>3, <2>1
  <2>6. q.existing \/ matches'[{k[1], l[1]}] = NoRow
    BY <1>2, <2>5
  <2> QED
    BY <2>4, <2>5, <2>6 DEF Awaited, Seeks
<1> QED
  BY <1>5, <1>6

LEMMA CheckEligibilityPursues ==
    ASSUME AllCompatible, blocks = {}, Typed, Pursued, NEW r \in Reqs, CheckEligibility(r)
    PROVE  Pursued'
<1> SUFFICES ASSUME NEW k \in LikeIds, NEW l \in LikeIds, Due(k, l)' PROVE Pledge(k, l)'
  BY DEF Pursued
<1>1. UNCHANGED <<owner, hidden, likes, matches, ever, late, now>>
  BY DEF CheckEligibility, rows, history
<1>2. Due(k, l)
  BY <1>1, StillDue
<1>3. CASE ActiveMatch({k[1], l[1]})
  BY <1>1, <1>3 DEF Pledge, ActiveMatch
<1>4. CASE ~ActiveMatch({k[1], l[1]})
  <2>1. {k[1], l[1]} = {l[1], k[1]}
    OBVIOUS
  <2>2. Awaited(k, l) => Awaited(k, l)'
    BY <1>4, CheckEligibilityHalf
  <2>3. Awaited(l, k) => Awaited(l, k)'
    BY <1>4, <2>1, CheckEligibilityHalf
  <2> QED
    BY <1>2, <1>4, <2>2, <2>3, PledgeKept DEF Pledge
<1> QED
  BY <1>3, <1>4

\* A match is formed, unless another request has formed it first, or a like stands in the
\* match of another pair.
LEMMA FormMatchHalf ==
    ASSUME Typed, NEW r \in Reqs, FormMatch(r), NEW k \in LikeIds, NEW l \in LikeIds,
           {k[1], l[1]} \in Pairs, Awaited(k, l), k \notin late'
    PROVE  ActiveMatch({k[1], l[1]})' \/ Awaited(k, l)'
<1>1. PICK p : p = req[r]
  OBVIOUS
<1>2. p.pc = "match" /\ req' = [req EXCEPT ![r] = Idle] /\ UNCHANGED <<claims, jobs>>
  BY <1>1, FormMatchDoes DEF Ends
<1>3. CASE Forms(p) /\ PairOf(p) = {k[1], l[1]}
  BY <1>3 DEF Forms, ActiveMatch, Typed, Tables
<1>4. CASE Forms(p) /\ PairOf(p) # {k[1], l[1]}
  <2>1. matches'[{k[1], l[1]}] = matches[{k[1], l[1]}]
    BY <1>4 DEF Forms, Typed, Tables
  <2>2. ~Seeks(p, k, l)
    BY <1>4 DEF Seeks, PairOf
  <2> QED
    BY <1>1, <1>2, <2>1, <2>2, OthersSeek DEF Typed
<1>5. CASE ~Forms(p)
  <2>1. UNCHANGED matches
    BY <1>1, <1>5, FormMatchDoes
  <2>2. ~Seeks(p, k, l)
    <3>1. CASE late' = late \cup {p.like}
      BY <3>1 DEF Seeks
    <3>2. CASE ~p.existing /\ matches[PairOf(p)] # NoRow
      BY <1>2, <3>2 DEF Seeks, PairOf
    <3> QED
      BY <1>1, <1>5, <3>1, <3>2, FormMatchDoes
  <2> QED
    BY <1>1, <1>2, <2>1, <2>2, OthersSeek DEF Typed
<1> QED
  BY <1>3, <1>4, <1>5

LEMMA FormMatchPursues ==
    ASSUME Typed, Pursued, NEW r \in Reqs, FormMatch(r)
    PROVE  Pursued'
<1> SUFFICES ASSUME NEW k \in LikeIds, NEW l \in LikeIds, Due(k, l)' PROVE Pledge(k, l)'
  BY DEF Pursued
<1>1. PICK p : p = req[r]
  OBVIOUS
<1>2. /\ p.pc = "match" /\ Knows(p) /\ UNCHANGED <<owner, hidden, ever, now>>
      /\ Forms(p) \/ UNCHANGED <<matches, likes>>
      /\ late \subseteq late'
  BY <1>1, FormMatchDoes DEF Typed, Requests
<1>3. likes'[k] = likes[k] /\ likes'[l] = likes[l]
  <2>1. CASE Forms(p)
    <3>1. likes'[k].status = "PENDING" /\ likes'[l].status = "PENDING"
      BY DEF Due, Meet, Pending
    <3> QED
      BY <1>2, <2>1, <3>1, FormsLikes DEF Typed
  <2> QED
    BY <1>2, <2>1
<1>4. Due(k, l) /\ {k[1], l[1]} \in Pairs
  BY <1>2, <1>3, StillDue, DueBothWays
<1>5. {l[1], k[1]} = {k[1], l[1]} /\ k \notin late' /\ l \notin late'
  BY DEF Due
<1>6. Awaited(k, l) => Pledge(k, l)'
  BY <1>4, <1>5, FormMatchHalf DEF Pledge
<1>7. Awaited(l, k) => Pledge(k, l)'
  BY <1>4, <1>5, FormMatchHalf DEF Pledge
<1>8. ActiveMatch({k[1], l[1]}) => ActiveMatch({k[1], l[1]})'
  BY <1>2, <1>4 DEF Forms, ActiveMatch, Typed, Tables
<1> QED
  BY <1>4, <1>6, <1>7, <1>8, PledgeKept

\* An unmatch takes the only like that one of the two had for the other.
LEMMA CommitUnmatchPursues ==
    ASSUME Typed, Grounds, Pursued, \A s \in Reqs : Parts(req[s]), NEW r \in Reqs,
           CommitUnmatch(r)
    PROVE  Pursued'
<1> SUFFICES ASSUME NEW k \in LikeIds, NEW l \in LikeIds, Due(k, l)' PROVE Pledge(k, l)'
  BY DEF Pursued
<1>1. PICK p : p = req[r]
  OBVIOUS
<1>2. /\ Knows(p) /\ p.pc = "unmatch"
      /\ \A x \in LikeIds :
            /\ x \notin {p.mine, p.other} => likes'[x] = likes[x]
            /\ x \in {p.mine, p.other} => likes'[x].status # "PENDING"
  BY <1>1, CommitUnmatchDoes
<1>3. PICK m \in MatchRows : matches' = [matches EXCEPT ![p.pair] = m]
  BY <1>1, CommitUnmatchDoes
<1>4. /\ UNCHANGED <<owner, hidden, claims, jobs, now, ever, late>>
      /\ req' = [req EXCEPT ![r] = Idle]
  BY DEF CommitUnmatch, Ends
<1>5. k \notin {p.mine, p.other} /\ l \notin {p.mine, p.other}
  BY <1>2 DEF Due, Meet, Pending
<1>6. Due(k, l)
  BY <1>2, <1>4, <1>5, StillDue
<1>7. p.pair # {k[1], l[1]}
  <2> SUFFICES ASSUME p.pair = {k[1], l[1]} PROVE FALSE
    OBVIOUS
  <2>1. k[1] \in Users /\ l[1] \in Users /\ k[1] # l[1] /\ Parts(p)
    BY <1>1, <1>6, OfLike DEF Due
  <2>2. PICK x \in {p.mine, p.other} : x[1] = k[1] /\ l[1] \in ever[x[2]]
    BY <1>2, <2>1 DEF Parts
  <2>3. {k[1], l[1]} = {l[1], k[1]}
    OBVIOUS
  <2>4. PICK y \in {p.mine, p.other} : y[1] = l[1] /\ k[1] \in ever[y[2]]
    BY <1>2, <2>1, <2>3 DEF Parts
  <2>5. x \in LikeIds /\ y \in LikeIds
    BY <1>2 DEF Knows
  <2>6. l[1] \in ever[k[2]] /\ k[1] \in ever[l[2]]
    <3>1. owner[k[2]] = l[1] /\ owner[l[2]] = k[1]
      BY <1>6, DueBothWays
    <3> QED
      BY <2>1, <3>1, OfLike, Sizes DEF Grounds, OwnersKnown
  <2>7. CASE OneIdentity(l[1])
    <3>1. x[2] = k[2]
      BY <2>2, <2>5, <2>6, <2>7, OfLike DEF OneIdentity
    <3> QED
      BY <1>5, <2>2, <2>5, <3>1, OfLike
  <2>8. CASE OneIdentity(k[1])
    <3>1. y[2] = l[2]
      BY <2>4, <2>5, <2>6, <2>8, OfLike DEF OneIdentity
    <3> QED
      BY <1>5, <2>4, <2>5, <3>1, OfLike
  <2> QED
    BY <1>6, <2>7, <2>8 DEF Due
<1>8. {k[1], l[1]} \in Pairs
  BY <1>6, DueBothWays
<1>9. matches'[{k[1], l[1]}] = matches[{k[1], l[1]}]
  BY <1>3, <1>7, <1>8 DEF Typed, Tables
<1>10. {l[1], k[1]} = {k[1], l[1]}
  OBVIOUS
<1>11. ~Seeks(req[r], k, l) /\ ~Seeks(req[r], l, k)
  BY <1>1, <1>2 DEF Seeks
<1>12. Awaited(k, l) => Awaited(k, l)'
  BY <1>4, <1>9, <1>11, OthersSeek DEF Typed
<1>13. Awaited(l, k) => Awaited(l, k)'
  BY <1>4, <1>9, <1>10, <1>11, OthersSeek DEF Typed
<1> QED
  BY <1>6, <1>9, <1>12, <1>13, PledgeKept DEF ActiveMatch, Pledge

LEMMA TakeJobPursues ==
    ASSUME Typed, Pursued, NEW r \in Reqs, NEW job \in jobs, TakeJob(r, job)
    PROVE  Pursued'
<1> SUFFICES ASSUME NEW k \in LikeIds, NEW l \in LikeIds, Due(k, l)' PROVE Pledge(k, l)'
  BY DEF Pursued
<1>1. PICK q : q = [pc |-> "find", like |-> job.like, intent |-> job.intent,
                    target |-> job.target]
  OBVIOUS
<1>2. /\ req[r] = Idle /\ req' = [req EXCEPT ![r] = q] /\ jobs' = jobs \ {job}
      /\ UNCHANGED <<owner, hidden, likes, matches, claims, now, ever, late>>
  BY <1>1 DEF TakeJob, rows, history
<1>3. Due(k, l)
  BY <1>2, StillDue
<1>4. ASSUME NEW x \in LikeIds, NEW y \in LikeIds, Awaited(x, y) PROVE Awaited(x, y)'
  <2>1. CASE job.like = x /\ job.target = y[1]
    <3>1. req'[r] = q /\ Seeks(q, x, y)'
      BY <1>1, <1>2, <2>1 DEF Typed, Requests, Seeks
    <3> QED
      BY <3>1 DEF Awaited, Seeks
  <2>2. CASE \E other \in jobs \ {job} : other.like = x /\ other.target = y[1]
    BY <1>2, <2>2 DEF Awaited
  <2>3. CASE \E s \in Reqs : Seeks(req[s], x, y)
    <3>1. PICK s \in Reqs : Seeks(req[s], x, y)
      BY <2>3
    <3>2. PICK p : p = req[s]
      OBVIOUS
    <3>3. s # r
      BY <1>2, <3>1 DEF Seeks, Idle
    <3>4. req'[s] = p /\ Seeks(p, x, y)'
      BY <1>2, <3>1, <3>2, <3>3 DEF Typed, Requests, Seeks
    <3> QED
      BY <3>4 DEF Awaited, Seeks
  <2>4. CASE y[1] \in claims
    BY <1>2, <2>4 DEF Awaited
  <2> QED
    BY <1>4, <2>1, <2>2, <2>3, <2>4 DEF Awaited
<1> QED
  BY <1>2, <1>3, <1>4, PledgeKept DEF ActiveMatch, Pledge

-----------------------------------------------------------------------------
(* Claims, and time.                                                       *)

\* A user whose claim is handled has the likes for it resolved.
LEMMA HandleIdentityClaimedPursues ==
    ASSUME Typed, Pursued, NEW u \in Users, HandleIdentityClaimed(u)
    PROVE  Pursued'
<1> SUFFICES ASSUME NEW k \in LikeIds, NEW l \in LikeIds, Due(k, l)' PROVE Pledge(k, l)'
  BY DEF Pursued
<1>1. UNCHANGED <<owner, hidden, likes, matches, req, now, ever, late>> /\ claims' = claims \ {u}
  BY DEF HandleIdentityClaimed, rows, history
<1>2. jobs \subseteq jobs'
  BY DEF HandleIdentityClaimed
<1>3. Due(k, l) /\ Due(l, k)
  BY <1>1, StillDue, DueBothWays
<1>4. ASSUME NEW x \in LikeIds, NEW y \in LikeIds, Due(x, y), Awaited(x, y)
      PROVE  Awaited(x, y)'
  <2>1. CASE y[1] = u
    <3>1. /\ Row(x) /\ Pending(x) /\ ~Deleted(x) /\ likes[x].expires > now
          /\ owner[x[2]] = u /\ x[2] \notin hidden
      BY <1>4, <2>1, DueBothWays
    <3>2. likes[x].expires \in Nat /\ now \in Nat /\ boot \in 0 .. now
      BY <3>1, RowFields DEF Typed, LikeRows, Others
    <3>3. IsDuplicate(x)
      BY <3>1, <3>2 DEF IsDuplicate, PassesActiveFilter
    <3>4. PICK job : job = [like |-> x, intent |-> likes[x].intent, target |-> u]
      OBVIOUS
    <3>5. job \in jobs' /\ job.like = x /\ job.target = y[1]
      BY <2>1, <3>1, <3>3, <3>4 DEF HandleIdentityClaimed
    <3> QED
      BY <3>5 DEF Awaited
  <2>2. CASE y[1] # u
    <3>1. ASSUME NEW s \in Reqs, Seeks(req[s], x, y) PROVE Seeks(req[s], x, y)'
      BY <1>1, <3>1 DEF Seeks
    <3> QED
      BY <1>1, <1>2, <1>4, <2>2, <3>1 DEF Awaited
  <2> QED
    BY <2>1, <2>2
<1> QED
  BY <1>1, <1>3, <1>4, PledgeKept DEF ActiveMatch, Pledge

\* The steps that leave the requests and the tables alone.
LEMMA StaysAwaited ==
    ASSUME UNCHANGED <<matches, req, jobs>>, claims \subseteq claims', Pursued,
           NEW k \in LikeIds, NEW l \in LikeIds, Due(k, l)
    PROVE  Pledge(k, l)'
<1>1. ASSUME NEW x, NEW y, Awaited(x, y) PROVE Awaited(x, y)'
  <2>1. ASSUME NEW s \in Reqs, Seeks(req[s], x, y) PROVE Seeks(req[s], x, y)'
    BY <2>1 DEF Seeks
  <2> QED
    BY <1>1, <2>1 DEF Awaited
<1> QED
  BY <1>1, PledgeKept DEF ActiveMatch, Pledge

\* What is due after an identity got an owner was due before, but for likes of or for it.
LEMMA GetsDue ==
    ASSUME Typed, NEW u \in Users, NEW i \in Identities, Gets(u, i), UNCHANGED now,
           hidden' \in {hidden, hidden \ {i}}, late \subseteq late',
           NEW k \in LikeIds, NEW l \in LikeIds, Due(k, l)'
    PROVE  \/ k[2] = i /\ l[1] = u
           \/ l[2] = i /\ k[1] = u
           \/ k[2] # i /\ l[2] # i /\ Due(k, l)
<1>1. /\ owner'[i] = u /\ \A j \in Identities : j # i => owner'[j] = owner[j]
      /\ \A j \in Identities : ever[j] \subseteq ever'[j]
      /\ UNCHANGED likes
  BY DEF Gets, Typed, Tables, Others
<1>2. owner'[k[2]] = l[1] /\ owner'[l[2]] = k[1]
  BY DEF Due, Meet
<1>3. CASE k[2] = i \/ l[2] = i
  BY <1>1, <1>2, <1>3
<1>4. CASE k[2] # i /\ l[2] # i
  <2>1. owner[k[2]] = l[1] /\ owner[l[2]] = k[1]
    BY <1>1, <1>2, <1>4, OfLike
  <2>2. \A v : OneIdentity(v)' => OneIdentity(v)
    BY <1>1 DEF OneIdentity
  <2>3. k[2] \notin hidden /\ l[2] \notin hidden
    BY <1>4 DEF Due, Meet
  <2>4. Meet(k, l)
    BY <1>1, <2>1, <2>3 DEF Due, Meet, Row, Pending, Deleted
  <2> QED
    BY <1>4, <2>2, <2>4 DEF Due
<1> QED
  BY <1>3, <1>4

\* Who gets an identity with an event is told of the likes for it; without one these count
\* as missed; and an account just made, whose event was too early, has no likes to meet.
LEMMA GetsPursues ==
    ASSUME Typed, Pursued, NEW u \in Users, NEW i \in Identities,
           ClaimIdentity(u, i) \/ RegisterIdentity(u, i) \/ CreateIdentity(u, i)
    PROVE  Pursued'
<1> SUFFICES ASSUME NEW k \in LikeIds, NEW l \in LikeIds, Due(k, l)' PROVE Pledge(k, l)'
  BY DEF Pursued
<1>1. /\ Gets(u, i) /\ hidden' \in {hidden, hidden \ {i}} /\ late \subseteq late'
      /\ claims \subseteq claims'
      /\ UNCHANGED <<likes, matches, req, jobs, now>>
  BY DEF ClaimIdentity, RegisterIdentity, CreateIdentity, Gets
<1>2. \/ u \in claims'
      \/ \A l0 \in LikeIds : l0[1] = u => ~Row(l0)
      \/ late' = late \cup (Users \X {i})
  BY DEF ClaimIdentity, RegisterIdentity, CreateIdentity, IsNewcomer
<1>3. k \notin late' /\ l \notin late' /\ Row(k) /\ Row(l)
  BY <1>1 DEF Due, Meet, Row
<1>4. CASE k[2] # i /\ l[2] # i /\ Due(k, l)
  BY <1>1, <1>4, StaysAwaited
<1>5. CASE k[2] = i /\ l[1] = u
  <2>1. k \in Users \X {i}
    BY <1>5, OfLike
  <2>2. l[1] \in claims'
    BY <1>2, <1>3, <1>5, <2>1
  <2> QED
    BY <2>2 DEF Pledge, Awaited
<1>6. CASE l[2] = i /\ k[1] = u
  <2>1. l \in Users \X {i}
    BY <1>6, OfLike
  <2>2. k[1] \in claims'
    BY <1>2, <1>3, <1>6, <2>1
  <2> QED
    BY <2>2 DEF Pledge, Awaited
<1> QED
  BY <1>1, <1>4, <1>5, <1>6, GetsDue

\* Nothing becomes due by an identity's losing its owner or being hidden.
LEMMA LosesPursues ==
    ASSUME Typed, Pursued,
           \/ \E i \in Identities : ReleaseIdentity(i)
           \/ \E u \in Users : HideIdentities(u)
    PROVE  Pursued'
<1> SUFFICES ASSUME NEW k \in LikeIds, NEW l \in LikeIds, Due(k, l)' PROVE Pledge(k, l)'
  BY DEF Pursued
<1>1. /\ UNCHANGED <<likes, matches, req, jobs, claims, now, ever, late>>
      /\ hidden \subseteq hidden'
      /\ \A j \in Identities : owner'[j] # NoOwner => owner'[j] = owner[j]
  BY DEF ReleaseIdentity, HideIdentities, history, Typed, Tables
<1>2. owner'[k[2]] = l[1] /\ owner'[l[2]] = k[1]
  BY DEF Due, Meet
<1>3. owner[k[2]] = l[1] /\ owner[l[2]] = k[1]
  BY <1>1, <1>2, OfLike, Sizes
<1>4. Meet(k, l)
  BY <1>1, <1>3 DEF Due, Meet, Row, Pending, Deleted
<1>5. Due(k, l)
  BY <1>1, <1>4 DEF Due, OneIdentity
<1> QED
  BY <1>1, <1>5, StaysAwaited

LEMMA IdlePursues ==
    ASSUME Typed, Pursued, Tick \/ UNCHANGED vars
    PROVE  Pursued'
<1> SUFFICES ASSUME NEW k \in LikeIds, NEW l \in LikeIds, Due(k, l)' PROVE Pledge(k, l)'
  BY DEF Pursued
<1>1. /\ UNCHANGED <<owner, hidden, likes, matches, req, jobs, claims, ever, late>>
      /\ now' \in {now, now + 1}
  BY DEF Tick, vars, rows, history
<1>2. ASSUME NEW x \in LikeIds, Row(x), likes'[x].expires > now' PROVE likes[x].expires > now
  <2>1. likes[x].expires \in Nat /\ now \in Nat
    BY <1>2, RowFields DEF Typed, LikeRows, Others
  <2> QED
    BY <1>1, <1>2, <2>1
<1>3. Meet(k, l)
  BY <1>1, <1>2 DEF Due, Meet, Row, Pending, Deleted
<1>4. Due(k, l)
  BY <1>1, <1>3 DEF Due, OneIdentity
<1> QED
  BY <1>1, <1>4, StaysAwaited

LEMMA NextPursues ==
    ASSUME AllCompatible, Undisturbed, Base, Pursuing, [Next]_vars
    PROVE  Pursuing'
<1>1. Typed /\ Grounds /\ Pursued /\ blocks = {} /\ \A r \in Reqs : Parts(req[r])
  BY DEF Base, Pursuing, Calm
<1>2. CASE UNCHANGED vars
  <2>1. Calm' /\ \A r \in Reqs : Parts(req[r])'
    BY <1>2 DEF vars, rows, history, Pursuing, Calm, Parts
  <2> QED
    BY <1>1, <1>2, <2>1, IdlePursues DEF Pursuing
<1>3. CASE Next
  <2>1. Calm' /\ ~Restart /\ UNCHANGED blocks
    BY <1>3, CalmStays DEF Pursuing
  <2>2. \A r \in Reqs : Parts(req[r])'
    BY <1>1, <1>3, <2>1, NextParts
  <2>3. ASSUME NEW r \in Reqs, Request(r) PROVE Pursued'
    BY <1>1, <2>3, StartsPursue, CommitLikePursues, FindReversePursues,
       CheckEligibilityPursues, FormMatchPursues, CommitDeletePursues, CommitUnmatchPursues,
       TakeJobPursues DEF Request
  <2>4. ASSUME NEW u \in Users, NEW v \in Users, CreateBlock(u, v) \/ DeleteBlock(u, v)
        PROVE  FALSE
    BY <1>1, <2>1, <2>4 DEF CreateBlock, DeleteBlock
  <2>5. Pursued'
    BY <1>1, <1>3, <2>1, <2>3, <2>4, HandleIdentityClaimedPursues, GetsPursues,
       LosesPursues, IdlePursues DEF Next
  <2> QED
    BY <2>1, <2>2, <2>5 DEF Pursuing
<1> QED
  BY <1>2, <1>3

\* With any number of requests, likes, deletes, unmatches, claims and changes of owner at
\* once, and while nobody is blocked, the instance does not restart and all intents go
\* together: when nothing is in progress, two users who like each other's identities are
\* matched, but for likes whose write read an owner that had changed by the commit, likes
\* for an identity that got its owner without an event, likes that stand in a match row of
\* another pair, and users who have both had several identities (LikesService.create,
\* resolveFromLike in match-resolver.service.ts, resolveUnclaimedLikes in
\* identity-workflows.service.ts).
THEOREM MutualLikesMeet ==
    ASSUME AllCompatible, Undisturbed
    PROVE  Spec => []OnlyLateLikesMissed
<1>1. Init => Base /\ Pursuing
  <2> SUFFICES ASSUME Init PROVE Pursuing
    BY InitTyped, InitGrounds DEF Base
  <2>1. Calm
    BY DEF Init, Calm, Bounds
  <2>2. \A k \in LikeIds : ~Row(k)
    BY NoRowIsNone DEF Init, Row
  <2>3. Pursued
    BY <2>2, DueBothWays DEF Pursued
  <2>4. \A r \in Reqs : Parts(req[r])
    BY DEF Init, Parts, Idle
  <2> QED
    BY <2>1, <2>3, <2>4 DEF Pursuing
<1>2. Base /\ Pursuing /\ [Next]_vars => Base' /\ Pursuing'
  BY NextTyped, NextGrounds, NextPursues DEF Base
<1>3. Base /\ Pursuing => OnlyLateLikesMissed
  <2> SUFFICES ASSUME Pursuing, Quiet, NEW k \in LikeIds \ late, NEW l \in LikeIds \ late,
                      k[1] # l[1], Meet(k, l), OneIdentity(k[1]) \/ OneIdentity(l[1])
               PROVE  ActiveMatch({k[1], l[1]})
    BY DEF OnlyLateLikesMissed
  <2>1. Pledge(k, l)
    BY DEF Pursuing, Pursued, Due
  <2>2. ASSUME NEW x, NEW y PROVE ~Awaited(x, y)
    BY DEF Quiet, Awaited, Seeks, Idle
  <2> QED
    BY <2>1, <2>2 DEF Pledge
<1> QED
  BY <1>1, <1>2, <1>3, PTL DEF Spec
=============================================================================
