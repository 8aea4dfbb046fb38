----------------------------- MODULE Matchmaking -----------------------------
(***************************************************************************)
(* Likes, matches and blocks: creating and deleting a like, resolving it   *)
(* into a match, unmatching, blocking, and the ways in which an identity   *)
(* gets, changes and loses its owner, most with an event and some without. *)
(*                                                                         *)
(* Every database statement that a handler acts on later is a step of its  *)
(* own, and so is every transaction; what was read is kept in req.  The    *)
(* balance check and the debit of a like belong to CreditLedger: here a    *)
(* sender can always pay, and only the number of debits is kept.           *)
(***************************************************************************)
EXTENDS Integers, FiniteSets

CONSTANTS
    Users, Identities,
    InitialOwner,   \* the owner of each identity at the start, or NoOwner
    NoOwner,
    Rank,           \* the order of the users' ids
    Reqs,           \* requests and background resolutions in progress at once
    Intents,        \* a subset of {"OPEN", "RELATIONSHIP", "CASUAL"}
    ExpiryDays,     \* life of a like; 0 is "no expiry"
    MaxTime,        \* bound: the last day
    MaxLikes, MaxDeletes, MaxUnmatches, MaxBlocks,  \* bounds: requests of each kind
    MaxClaims,      \* bound: owners set with an IDENTITY_CLAIMED event
    MaxChanges,     \* bound: owners set without one or cleared, identities hidden
    MaxRestarts     \* bound: restarts of the instance

ASSUME MatchmakingAssumption == /\ InitialOwner \in [Identities -> Users \cup {NoOwner}]
                                /\ NoOwner \notin Users
                                /\ Rank \in [Users -> Nat]
                                /\ \A u, v \in Users : Rank[u] = Rank[v] => u = v
                                /\ Intents \subseteq {"OPEN", "RELATIONSHIP", "CASUAL"}
                                /\ ExpiryDays \subseteq Nat
                                /\ {MaxTime, MaxLikes, MaxDeletes, MaxUnmatches, MaxBlocks,
                                    MaxClaims, MaxChanges, MaxRestarts} \subseteq Nat

VARIABLES
    owner,     \* Identity.userId
    hidden,    \* Identity.deletedAt is set
    likes,     \* Like rows, unique per sender and identity
    matches,   \* Match rows, unique per pair and by either like: by = <<likeOne, likeTwo>>
    blocks,    \* Block rows that are not deleted: blocker and blocked
    charged,   \* LIKE_USAGE debits that refer to the like
    req,       \* the requests in progress
    claims,    \* users with an IDENTITY_CLAIMED message under way
    jobs,      \* likes the message's handler is still to resolve
    now, boot, \* the day; the day on which the instance loaded its modules
    used,      \* how much of each bound is used
    ever,      \* history: the owners an identity has had
    departed,  \* history: per pair, who unmatched and has not liked since
    late       \* history: likes that are missed: their write read an owner that had changed by
               \* the commit, their identity got its owner without an event, or their match
               \* failed because a like of it stands in the row of another pair

history == <<ever, departed, late>>
rows == <<owner, hidden, likes, matches, blocks, charged>>
vars == <<rows, req, claims, jobs, now, boot, used, history>>

Never   == MaxTime + 1
Idle    == [pc |-> "idle"]
NoRow   == [status |-> "NONE"]
LikeIds == Users \X Identities
Pairs   == {{u, v} : u, v \in Users}
Bounds  == [likes |-> MaxLikes, deletes |-> MaxDeletes, unmatches |-> MaxUnmatches,
            blocks |-> MaxBlocks, claims |-> MaxClaims, changes |-> MaxChanges,
            restarts |-> MaxRestarts]

Use(kind) == used[kind] < Bounds[kind] /\ used' = [used EXCEPT ![kind] = @ + 1]

-----------------------------------------------------------------------------
Row(l)     == likes[l].status # "NONE"
Deleted(l) == likes[l].deleted
Pending(l) == likes[l].status = "PENDING"

\* ACTIVE_LIKE_FILTER compares with the moment the module was loaded: its
\* new Date() is evaluated once, not per query.
PassesActiveFilter(l) == likes[l].expires > boot

\* The live like that makes createLike answer AlreadyLiked.
IsDuplicate(l) == Row(l) /\ Pending(l) /\ ~Deleted(l) /\ PassesActiveFilter(l)

\* The row a new like may take over; here the clock is read per request.
IsReusable(l) ==
    /\ Row(l)
    /\ \/ likes[l].status \in {"WITHDRAWN", "VOIDED", "DELETED"}
       \/ Deleted(l)
       \/ Pending(l) /\ likes[l].expires <= now

ActiveMatch(pair) == matches[pair].status = "ACTIVE"

IsBlocked(u, v) == <<u, v>> \in blocks \/ <<v, u>> \in blocks

\* Mutant of IsIntentCompatible: the intents are not compared.
IntentsIgnored(a, b) == a \in Intents /\ b \in Intents

IsIntentCompatible(a, b) == a = "OPEN" \/ b = "OPEN" \/ a = b

\* Mutant of ReverseLikes: withdrawn likes are found, too.
ReverseLikesWithdrawn(u, v) ==
    {l \in LikeIds : /\ l[1] = v /\ owner[l[2]] = u
                     /\ likes[l].status \in {"PENDING", "VOIDED", "WITHDRAWN"}
                     /\ ~Deleted(l) /\ PassesActiveFilter(l)}

\* findReverseLike: likes of v for any identity of u, withdrawn ones excluded.
ReverseLikes(u, v) ==
    {l \in LikeIds : /\ l[1] = v
                     /\ owner[l[2]] = u
                     /\ likes[l].status \in {"PENDING", "VOIDED"}
                     /\ ~Deleted(l)
                     /\ PassesActiveFilter(l)}

Init ==
    /\ owner = InitialOwner
    /\ hidden = {}
    /\ likes = [l \in LikeIds |-> NoRow]
    /\ matches = [pair \in Pairs |-> NoRow]
    /\ blocks = {}
    /\ charged = [l \in LikeIds |-> 0]
    /\ req = [r \in Reqs |-> Idle]
    /\ claims = {}
    /\ jobs = {}
    /\ now = 0
    /\ boot = 0
    /\ used = [kind \in DOMAIN Bounds |-> 0]
    /\ ever = [i \in Identities |-> {InitialOwner[i]} \ {NoOwner}]
    /\ departed = [pair \in Pairs |-> {}]
    /\ late = {}

Ends(r) == req' = [req EXCEPT ![r] = Idle]

-----------------------------------------------------------------------------
(* LikesService.create.                                                    *)

\* The checks before the transaction: not one's own identity, no live like, no
\* active match.  Whether a row can be reused is remembered.
StartLike(r, l, intent, days) ==
    /\ req[r] = Idle
    /\ Use("likes")
    /\ owner[l[2]] # l[1]
    /\ ~IsDuplicate(l)
    /\ owner[l[2]] # NoOwner => ~ActiveMatch({l[1], owner[l[2]]})
    /\ req' = [req EXCEPT ![r] =
                 [pc |-> "write", like |-> l, intent |-> intent, reuse |-> IsReusable(l),
                  expires |-> IF days = 0 THEN Never ELSE now + days]]
    /\ UNCHANGED <<rows, claims, jobs, now, boot, history>>

\* The transaction's write returns the row with its identity's owner of that
\* moment; the row itself is seen by others only after the commit.
WriteLike(r) ==
    /\ req[r].pc = "write"
    /\ req' = [req EXCEPT ![r] =
                 [pc |-> "commit", like |-> @.like, intent |-> @.intent, reuse |-> @.reuse,
                  expires |-> @.expires, target |-> owner[@.like[2]]]]
    /\ UNCHANGED <<rows, claims, jobs, now, boot, used, history>>

\* The commit: like and debit together.  The update of a reused row is keyed by
\* its id alone; an insert meets the unique index on sender and identity.
CommitLike(r) ==
    /\ req[r].pc = "commit"
    /\ LET l == req[r].like IN
       \/ /\ req[r].reuse \/ ~Row(l)
          /\ likes' = [likes EXCEPT ![l] = [status |-> "PENDING", intent |-> req[r].intent,
                                            expires |-> req[r].expires, deleted |-> FALSE]]
          /\ charged' = [charged EXCEPT ![l] = @ + 1]
          /\ departed' = [pair \in Pairs |-> IF \E v \in ever[l[2]] : pair = {l[1], v}
                                             THEN departed[pair] \ {l[1]} ELSE departed[pair]]
          /\ late' = IF owner[l[2]] = req[r].target THEN late \ {l} ELSE late \cup {l}
          /\ req' = [req EXCEPT ![r] = [pc |-> "find", like |-> l, intent |-> @.intent,
                                        target |-> @.target]]
       \/ /\ ~req[r].reuse /\ Row(l)
          /\ Ends(r)
          /\ UNCHANGED <<likes, charged, departed, late>>
    /\ UNCHANGED <<owner, hidden, matches, blocks, claims, jobs, now, boot, used, ever>>

-----------------------------------------------------------------------------
(* MatchResolverService.resolveFromLike.                                   *)

FindReverse(r) ==
    /\ req[r].pc = "find"
    /\ LET found == IF req[r].target = NoOwner THEN {}
                    ELSE ReverseLikes(req[r].like[1], req[r].target)
       IN \/ found = {} /\ Ends(r)
          \/ \E l \in found :
                req' = [req EXCEPT ![r] =
                          [pc |-> "check", like |-> @.like, intent |-> @.intent,
                           target |-> @.target, reverse |-> l, reverseIntent |-> likes[l].intent]]
    /\ UNCHANGED <<rows, claims, jobs, now, boot, used, history>>

PairOf(q) == {q.like[1], q.target}

IsEligible(q) ==
    /\ IsIntentCompatible(q.intent, q.reverseIntent)
    /\ ~IsBlocked(q.like[1], q.target)
    /\ ~ActiveMatch(PairOf(q))

\* validateMatchEligibility: intents, blocks, no active match; an inactive match
\* row is handed on for reactivation.
CheckEligibility(r) ==
    /\ req[r].pc = "check"
    /\ LET q == req[r] IN
       \/ /\ IsEligible(q)
          /\ req' = [req EXCEPT ![r] =
                       [pc |-> "match", like |-> q.like, target |-> q.target,
                        reverse |-> q.reverse, existing |-> matches[PairOf(q)] # NoRow]]
       \/ ~IsEligible(q) /\ Ends(r)
    /\ UNCHANGED <<rows, claims, jobs, now, boot, used, history>>

\* userOneId is the lower of the two ids.
LikesInOrder(q) == IF Rank[q.like[1]] <= Rank[q.target] THEN <<q.like, q.reverse>>
                   ELSE <<q.reverse, q.like>>

\* likeOneId and likeTwoId are unique in the table, over the rows of all pairs.
LikesAreFree(q) ==
    \A pair \in Pairs \ {PairOf(q)} :
        matches[pair] # NoRow => \A n \in 1 .. 2 : matches[pair].by[n] # LikesInOrder(q)[n]

\* executeMatchTransaction.  A new row may lose the race for the pair's unique index, and
\* either way a like may stand in the row of another pair, of an earlier owner of its
\* identity (P2002, swallowed).  The row is updated, and the two likes, by their ids alone.
FormMatch(r) ==
    /\ req[r].pc = "match"
    /\ LET q    == req[r]
           pair == PairOf(q)
       IN \/ /\ q.existing \/ matches[pair] = NoRow
             /\ LikesAreFree(q)
             /\ matches' = [matches EXCEPT ![pair] = [status |-> "ACTIVE", by |-> LikesInOrder(q)]]
             /\ likes' = [l \in LikeIds |-> IF l \in {q.like, q.reverse}
                                            THEN [likes[l] EXCEPT !.status = "MATCHED"]
                                            ELSE likes[l]]
             /\ UNCHANGED late
          \/ /\ q.existing \/ matches[pair] = NoRow
             /\ ~LikesAreFree(q)
             /\ late' = late \cup {q.like}
             /\ UNCHANGED <<matches, likes>>
          \/ /\ ~q.existing /\ matches[pair] # NoRow
             /\ UNCHANGED <<matches, likes, late>>
    /\ Ends(r)
    /\ UNCHANGED <<owner, hidden, blocks, charged, claims, jobs, now, boot, used, ever, departed>>

-----------------------------------------------------------------------------
(* LikesService.delete and MatchesService.unmatch: read, then write by id. *)

StartDelete(r, l) ==
    /\ req[r] = Idle
    /\ Row(l) /\ Pending(l) /\ ~Deleted(l)
    /\ Use("deletes")
    /\ req' = [req EXCEPT ![r] = [pc |-> "delete", like |-> l]]
    /\ UNCHANGED <<rows, claims, jobs, now, boot, history>>

\* Mutant of CommitDelete: a status of the match enumeration is written.
CommitDeleteMixedUp(r) ==
    /\ req[r].pc = "delete"
    /\ likes' = [likes EXCEPT ![req[r].like].status = "UNMATCHED", ![req[r].like].deleted = TRUE]
    /\ Ends(r)
    /\ UNCHANGED <<owner, hidden, matches, blocks, charged, claims, jobs, now, boot, used, history>>

CommitDelete(r) ==
    /\ req[r].pc = "delete"
    /\ likes' = [likes EXCEPT ![req[r].like].status = "DELETED", ![req[r].like].deleted = TRUE]
    /\ Ends(r)
    /\ UNCHANGED <<owner, hidden, matches, blocks, charged, claims, jobs, now, boot, used, history>>

StartUnmatch(r, u, pair) ==
    /\ req[r] = Idle
    /\ u \in pair
    /\ ActiveMatch(pair)
    /\ Use("unmatches")
    /\ LET isUserOne == \A v \in pair : Rank[u] <= Rank[v]
           by == matches[pair].by
       IN req' = [req EXCEPT ![r] = [pc |-> "unmatch", user |-> u, pair |-> pair,
                                     mine  |-> IF isUserOne THEN by[1] ELSE by[2],
                                     other |-> IF isUserOne THEN by[2] ELSE by[1]]]
    /\ UNCHANGED <<rows, claims, jobs, now, boot, history>>

\* Mutant of CommitUnmatch: the other party's like is left as it is.
CommitUnmatchHalf(r) ==
    /\ req[r].pc = "unmatch"
    /\ LET q == req[r] IN
       /\ matches' = [matches EXCEPT ![q.pair].status = "UNMATCHED"]
       /\ likes' = [likes EXCEPT ![q.mine].status = "WITHDRAWN"]
       /\ departed' = [departed EXCEPT ![q.pair] = @ \cup {q.user}]
    /\ Ends(r)
    /\ UNCHANGED <<owner, hidden, blocks, charged, claims, jobs, now, boot, used, ever, late>>

\* One transaction: the initiator's like is WITHDRAWN, the other one VOIDED.
CommitUnmatch(r) ==
    /\ req[r].pc = "unmatch"
    /\ LET q == req[r] IN
       /\ matches' = [matches EXCEPT ![q.pair].status = "UNMATCHED"]
       /\ likes' = [[likes EXCEPT ![q.mine].status = "WITHDRAWN"]
                          EXCEPT ![q.other].status = "VOIDED"]
       /\ departed' = [departed EXCEPT ![q.pair] = @ \cup {q.user}]
    /\ Ends(r)
    /\ UNCHANGED <<owner, hidden, blocks, charged, claims, jobs, now, boot, used, ever, late>>

-----------------------------------------------------------------------------
(* Blocks.                                                                 *)

\* BlocksService.create touches the Block row and nothing else.
CreateBlock(u, v) ==
    /\ u # v
    /\ <<u, v>> \notin blocks
    /\ Use("blocks")
    /\ blocks' = blocks \cup {<<u, v>>}
    /\ UNCHANGED <<owner, hidden, likes, matches, charged, req, claims, jobs, now, boot, history>>

DeleteBlock(u, v) ==
    /\ <<u, v>> \in blocks
    /\ blocks' = blocks \ {<<u, v>>}
    /\ UNCHANGED <<owner, hidden, likes, matches, charged, req, claims, jobs, now, boot, used, history>>

-----------------------------------------------------------------------------
(* Who owns an identity.  Accounts has the requests about identities one   *)
(* statement after the other, with their checks, which requests that       *)
(* overlap get past.  Here is what they commit, for any user and identity. *)

Gets(u, i) ==
    /\ owner' = [owner EXCEPT ![i] = u]
    /\ ever' = [ever EXCEPT ![i] = @ \cup {u}]
    /\ UNCHANGED <<likes, matches, blocks, charged, req, jobs, now, boot, departed>>

\* Mutant of ClaimIdentity: the event is not published.
ClaimSilently(u, i) ==
    /\ Use("claims")
    /\ Gets(u, i)
    /\ hidden' = hidden \ {i}
    /\ UNCHANGED <<claims, late>>

\* claimOrCreateIdentity: the identity gets its owner, from nobody or from a user who had
\* not verified it, and is shown; then the event, even if it was the user's own.
ClaimIdentity(u, i) ==
    /\ Use("claims")
    /\ Gets(u, i)
    /\ hidden' = hidden \ {i}
    /\ claims' = claims \cup {u}
    /\ UNCHANGED late

\* An account that owns nothing and has never liked may be one that is just made.
IsNewcomer(u) ==
    /\ \A i \in Identities : owner[i] # u
    /\ \A l \in LikeIds : l[1] = u => ~Row(l)
    /\ \A r \in Reqs : req[r].pc \in {"write", "commit"} => req[r].like[1] # u

\* signup, addSecondaryAuth and the sign-in that verifies an identity leave deletedAt as it
\* is.  signup publishes inside its transaction: the handler may run before the commit,
\* and finds no identity of the account.
RegisterIdentity(u, i) ==
    /\ Use("claims")
    /\ Gets(u, i)
    /\ \/ claims' = claims \cup {u}
       \/ IsNewcomer(u) /\ UNCHANGED claims
    /\ UNCHANGED <<hidden, late>>

\* IdentitiesService.create: a new owner without an event.
CreateIdentity(u, i) ==
    /\ owner[i] # u
    /\ Use("changes")
    /\ Gets(u, i)
    /\ hidden' = hidden \ {i}
    /\ late' = late \cup (Users \X {i})
    /\ UNCHANGED claims

\* delete, and an update that finds the identity in its way: it has no owner any more.
ReleaseIdentity(i) ==
    /\ owner[i] # NoOwner
    /\ Use("changes")
    /\ owner' = [owner EXCEPT ![i] = NoOwner]
    /\ hidden' = hidden \cup {i}
    /\ UNCHANGED <<likes, matches, blocks, charged, req, claims, jobs, now, boot, history>>

\* deleteProfile: an account that is disabled keeps its identities, hidden.
HideIdentities(u) ==
    /\ Use("changes")
    /\ hidden' = hidden \cup {i \in Identities : owner[i] = u}
    /\ UNCHANGED <<owner, likes, matches, blocks, charged, req, claims, jobs, now, boot, history>>

\* handleIdentityClaimed: every pending like for an identity of u that is shown, in
\* parallel (resolveUnclaimedLikes).
HandleIdentityClaimed(u) ==
    /\ u \in claims
    /\ claims' = claims \ {u}
    /\ jobs' = jobs \cup {[like |-> l, intent |-> likes[l].intent, target |-> u] :
                          l \in {k \in LikeIds : /\ owner[k[2]] = u /\ k[2] \notin hidden
                                                /\ IsDuplicate(k)}}
    /\ UNCHANGED <<rows, req, now, boot, used, history>>

-----------------------------------------------------------------------------
TakeJob(r, job) ==
    /\ req[r] = Idle
    /\ job \in jobs
    /\ jobs' = jobs \ {job}
    /\ req' = [req EXCEPT ![r] = [pc |-> "find", like |-> job.like, intent |-> job.intent,
                                  target |-> job.target]]
    /\ UNCHANGED <<rows, claims, now, boot, used, history>>

Tick ==
    /\ now < MaxTime
    /\ now' = now + 1
    /\ UNCHANGED <<rows, req, claims, jobs, boot, used, history>>

\* The instance restarts: what was in progress is gone, the filter's date is new.
Restart ==
    /\ Use("restarts")
    /\ boot' = now
    /\ req' = [r \in Reqs |-> Idle]
    /\ UNCHANGED <<rows, claims, jobs, now, history>>

-----------------------------------------------------------------------------
Request(r) ==
    \/ \E l \in LikeIds, intent \in Intents, days \in ExpiryDays : StartLike(r, l, intent, days)
    \/ WriteLike(r) \/ CommitLike(r)
    \/ FindReverse(r) \/ CheckEligibility(r) \/ FormMatch(r)
    \/ (\E l \in LikeIds : StartDelete(r, l)) \/ CommitDelete(r)
    \/ (\E pair \in Pairs : \E u \in pair : StartUnmatch(r, u, pair)) \/ CommitUnmatch(r)
    \/ \E job \in jobs : TakeJob(r, job)

Next ==
    \/ \E r \in Reqs : Request(r)
    \/ \E u, v \in Users : CreateBlock(u, v) \/ DeleteBlock(u, v)
    \/ \E u \in Users, i \in Identities :
          ClaimIdentity(u, i) \/ RegisterIdentity(u, i) \/ CreateIdentity(u, i)
    \/ \E i \in Identities : ReleaseIdentity(i)
    \/ \E u \in Users : HideIdentities(u) \/ HandleIdentityClaimed(u)
    \/ Tick \/ Restart

Spec == Init /\ [][Next]_vars

-----------------------------------------------------------------------------
LikeRows  == [status : {"PENDING", "MATCHED", "WITHDRAWN", "VOIDED", "DELETED"},
              intent : Intents, expires : Nat, deleted : BOOLEAN]
MatchRows == [status : {"ACTIVE", "UNMATCHED"}, by : LikeIds \X LikeIds]

\* Types of every variable.
TypeOK ==
    /\ owner \in [Identities -> Users \cup {NoOwner}]
    /\ hidden \subseteq Identities
    /\ likes \in [LikeIds -> LikeRows \cup {NoRow}]
    /\ matches \in [Pairs -> MatchRows \cup {NoRow}]
    /\ blocks \subseteq Users \X Users
    /\ charged \in [LikeIds -> Nat]
    /\ \A r \in Reqs : req[r].pc \in {"idle", "write", "commit", "find", "check", "match",
                                      "delete", "unmatch"}
    /\ claims \subseteq Users
    /\ jobs \subseteq [like : LikeIds, intent : Intents, target : Users]
    /\ now \in 0 .. MaxTime /\ boot \in 0 .. now
    /\ ever \in [Identities -> SUBSET Users]
    /\ departed \in [Pairs -> SUBSET Users]
    /\ late \subseteq LikeIds

Quiet == claims = {} /\ jobs = {} /\ \A r \in Reqs : req[r] = Idle

\* Likes that could still meet: each sends one to an identity the other has and shows.
Meet(k, l) ==
    /\ owner[k[2]] = l[1] /\ owner[l[2]] = k[1]
    /\ k[2] \notin hidden /\ l[2] \notin hidden
    /\ \A x \in {k, l} : Row(x) /\ Pending(x) /\ ~Deleted(x) /\ likes[x].expires > now
    /\ IsIntentCompatible(likes[k].intent, likes[l].intent)

\* The user has never had two identities.
OneIdentity(u) == \A i, j \in Identities : u \in ever[i] /\ u \in ever[j] => i = j

\* When nothing is in progress, two users who like each other are matched: of two
\* likes resolved at once, the one committed last sees the other, and the event of a
\* claim finds the likes that waited for an owner, however owners come and go.  The only
\* ones missed are likes whose write read an owner that had changed by the commit, likes
\* for an identity that got its owner without an event, likes that stand in a match row
\* of another pair, and likes between two users who have both had several identities
\* (likes.service.ts create, match-resolver.service.ts resolveFromLike,
\* resolveUnclaimedLikes in identity-workflows.service.ts).
OnlyLateLikesMissed ==
    Quiet => \A k, l \in LikeIds \ late :
                 /\ k[1] # l[1] /\ Meet(k, l)
                 /\ OneIdentity(k[1]) \/ OneIdentity(l[1])
                 => ActiveMatch({k[1], l[1]})

\* A like is MATCHED exactly while it stands under an active match: nothing can get stuck
\* as MATCHED, where it could be neither sent again nor deleted, whoever owns the
\* identities meanwhile (unmatch and executeMatchTransaction update the three rows
\* together).
MatchedIffActive ==
    \A l \in LikeIds :
        (Row(l) /\ likes[l].status = "MATCHED" /\ ~Deleted(l))
            <=> \E pair \in Pairs : ActiveMatch(pair) /\ \E n \in 1 .. 2 : matches[pair].by[n] = l

\* matches.service.ts:394-397: the asymmetry of WITHDRAWN and VOIDED "prevents the
\* other party from triggering an accidental re-match": after u unmatches v, who has had
\* one identity only, the two are matched again only once u has sent a new like.
UnmatchHolds ==
    \A u, v \in Users :
        u # v /\ ActiveMatch({u, v}) /\ OneIdentity(v) => u \notin departed[{u, v}]

\* An active match of two users rests on a like of each, paid, for an identity that is or
\* was the other's, and with intents that still go together.  (Owners come and go under a
\* match: that the identity is still the other's, the code does not promise.)
MatchIsMutual ==
    \A u, v \in Users : u # v /\ ActiveMatch({u, v}) =>
        \E k, l \in LikeIds :
            /\ {k, l} = {matches[{u, v}].by[1], matches[{u, v}].by[2]}
            /\ k[1] = u /\ v \in ever[k[2]] /\ l[1] = v /\ u \in ever[l[2]]
            /\ charged[k] > 0 /\ charged[l] > 0
            /\ Cardinality({likes[k].intent, likes[l].intent} \ {"OPEN"}) <= 1
=============================================================================
