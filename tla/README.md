# Breathaway backend: specifications, model checking and proofs

The Breathaway backend is a NestJS application over PostgreSQL (Prisma), Redis and
Google Pub/Sub. Users like *identities* (a phone number, an e-mail address, an Instagram
handle), whether or not the identity has an account yet; two mutual likes form a match,
matched users chat; a like costs a credit, and credits are bought on the web, in the
app stores or granted. Several instances of the process run at once, and nothing in the
code sets a transaction isolation level, so every transaction runs under READ COMMITTED.

This directory holds TLA+ modules for the parts whose correctness depends on the order of
things, TLC configurations that check them on small instances, and TLAPS proofs.
`PROJECT.json` maps every definition to the lines it models.

## 1. Inventory

Paths are below `src/src/modules/` unless they start with another directory.

| Component | State | Operations | Talks to | What is hard |
|---|---|---|---|---|
| Credit ledger (`credits`) | `CreditLedger` rows, append-only | grant, check and consume, balance, expire a batch of users, warnings | likes (inside its transaction), payments, expiry job | check-then-insert without a lock; read-compute-insert in the expiry; FIFO attribution at read time |
| Maintenance jobs (`maintenance`) | none (cursor in memory) | fan out expiry batches and warnings, expire subscriptions, purge sessions | Pub/Sub, the services | failure between pages, reruns by the scheduler |
| Pub/Sub (`pubsub`) | messages in flight | publish, push delivery, acknowledge by the 200 answer | credits, identity workflows, notifications, export | at least once, concurrent redelivery |
| Web checkout (`payments`) | `PaymentOrder`, `Transaction` | create order, status, verify, fulfil, reconcile | gateways, webhooks, credits | three paths settle one order; stale gateway answers; swallowed P2002 and P2025 |
| Gateways (`payments/gateways`) | at Razorpay and Cashfree | create order, order status, captured payment id | checkout | failures reported as PENDING, ids not always known |
| Payment webhooks (`webhooks/handlers`) | none | failure and capture events | checkout | redelivery, order of events |
| Payment routes (`payments`) | routing table | add, toggle, delete, reorder | checkout | count before update |
| Likes (`likes`) | `Like`, unique per sender and identity | create, delete, relabel, list | credits, match resolution | duplicate check outside the transaction, reused rows |
| Match resolution (`match-resolver`) | `Match`, `Like.status` | resolve a like | likes, blocks, identity workflows | two resolutions of one pair, updates by id |
| Matches (`matches`) | `Match` | unmatch, list | likes, chats | a resolution under way during the unmatch |
| Blocks (`blocks`) | `Block` | create, delete, ask | match resolution, chats | a block while matched |
| Identities and claims (`identities`, `identity-workflows`) | `Identity` | create, claim, update, delete; resolve likes that waited for an owner | likes, match resolution, auth | a claim while a like is being written |
| Tokens and sessions (`auth/services/auth-token`, `sessions`) | `UserSession`, a rotation cache per instance | sign in, rotate, revoke, terminate a family | JWT cache | rotation against logout, lost answers, the grace window |
| JWT cache (`auth/services/jwt-auth-cache`) | Redis keys for activity and revocation | validate, revoke | sessions, account deletion | an entry written after the revocation, from a row read before |
| Sign-up, sign-in, deletion (`auth`) | `User`, `AuthCredential` | create user with credential and identity, add a method, delete | nearly all | events published before the commit; checks outside the transaction; deletion by ids read before |
| One-time passwords, e-mail verification | Redis keys | generate, verify and consume | auth, identities | get then delete; lost attempt counts |
| Subscriptions (`subscriptions`) | `UserSubscription`, `SubscriptionEvent` | purchase, renewal, cancellation, grace, revocation, expiry | credits, stores | order of notifications, the expiry job between them |
| Plans and prices (`subscriptions`) | `PlanPrice` and its history | add, change, remove a price; price at a time | checkout | history intervals closed from a stale read |
| RevenueCat (`webhooks`) | `Transaction` | record and grant a purchase | credits, accounts | redelivery, a buyer who leaves |
| Chats (`chats`) | rooms, keys, messages (Supabase, no transactions) | send, read, delete, purge with an account, export | matches, blocks, accounts | first messages at once; a message on its way while the account ends; paging by time |
| Data export (`users/services/dsar-export*`) | `DsarExport`, archives in the bucket | request, process, download | Pub/Sub, chats, accounts | a publication that fails half way, redelivery while the first delivery works |
| Notifications, devices, profiles, preferences, administration | their rows | records of one user, deliveries | events of the others | redelivery, partial failure |
| Audit, reports, health, cryptography, adapters | none of their own | write-only, read-only or pure | all | nothing a finite model adds to |

What makes each modelled component correct: credits are never spent twice nor expired
beyond their size, and the expiry job changes nobody's balance; an order is settled once,
credited exactly when it is PAID and PAID only for money the gateway holds, which pays for
no other order; two mutual likes end in a match, a match rests on two paid likes, and an
unmatch lasts until its initiator likes again; a sign-in has one live refresh token at a time, which an honest client keeps and a
sign-out ends; an access token that was signed out with its refresh token stays out; credits from a store follow the
purchases that were paid and the periods that were charged for or, by Google, deferred to; a value signs in to one account, a verified identity stays with its owner
until its owner gives it up, and an account that ended owns nothing; a message is readable while its room
exists, an ended account's rooms stay gone, a transcript is complete and an export's row says what became of
it; the price history answers
for every time, and a country that can pay stays so. The hazards that threaten this are listed in `PROJECT.json`, each
at its line and with the properties that would notice.

## 2. Plan

1. `CreditLedger`, with history in `CreditHistory` (done), with `CreditsProofs`: all its safety
   properties are proved, two of them for processes that take turns.
2. `PaymentsAbstract` and `Payments`, with `PaymentsProofs` (done).
3. `Matchmaking`, with `MatchmakingProofs` (done). It leaves the balance to `CreditLedger`. All its
   properties are proved, three of them for requests that take turns.
4. `Sessions`, with `SessionsProofs` (done): rotation, grace cache, collision, sign-out,
   containment; all its properties are proved.
5. `Subscriptions`, with `SubscriptionsProofs` (done): store notifications in any order against
   the expiry job; all its properties are proved.
6. `PlanPrices` and `PaymentRoutes`, composed in `Catalogue` with the order that reads
   both (done), with `CatalogueProofs`: all its properties are proved.
7. `AccessTokens`, `Accounts`, `StorePurchases`, `Chats` and `DataExports`, composed in
   `Membership` (done), with `AccountsProofs` and `MembershipProofs`: what happens
   to an account, its identities, its tokens, its purchases, its messages and the copies of its
   data, whatever order requests take; all its properties are proved.
8. Left, in this order: what the deletion of an account does to likes and matches (an
   action of `Matchmaking`); one-time passwords; notifications.

Every module takes its sets and bounds as CONSTANTS with named assumptions, has one
action per statement, transaction or external call, and declares no RECURSIVE operator,
so that each can be proved about.

## 3. Modules

Common conventions: a handler's local variables are kept in a record per process with a
`pc` field, named for the next step. What two processes cannot interleave (one SQL
statement, one database transaction whose first statement locks the row it depends on,
one call to a gateway) is one action. A definition commented as a *mutant* is a
plausible mistake in the definition after it; nothing uses it, except that every
property is known to fail when the mutant takes the place of the original
(`PROJECT.json`, "mutants").

### CreditLedger, CreditHistory, CreditsProofs

`ledger` is the table in commit order; a row's position is its id. `GrantCredits`,
`CheckBalance`/`CommitSpend`/`RollbackSpend` (the two statements of `consumeCredits` in
the caller's transaction), `StartJob`/`PublishPage`/`JobFails` (the coordinator
`expireCreditBundles`), `Deliver`/`ReadLedger`/`InsertExpired`/`AckBatch`/`WorkerFails`
(an instance that gets a batch). `Drain` is the FIFO loop that `getBalance` and
`expireCreditsForUsers` share: a bundle loses (`Drained`) what is left of the debits (`Remaining`) after the
bundles that come `Sooner` in the order of the sort; `getBalance` feeds it the genuine spends, the worker all
debits. A message stays in `topic` until it is acknowledged, so two instances may hold it.

`CreditHistory` adds what the code does not record: which live bundle pays for a spend at
the time of the spend (`charged`, per transaction while it may still be rolled back, then in slot 0), and how far each user's expiry has been closed
(`closedTo`). Its steps are the steps of `CreditLedger`.

### Payments, PaymentsAbstract, PaymentsProofs

`status`, `link`, `txns` and `credits` are the tables; `razorpay` is what the routing
table chose (each order, either way); `pay`, `lapsed` and `events` the
gateway and its undelivered webhooks; `hook`, `client` and `sweep` the handlers at work.
`Fulfil` is the shared transaction: `Commits` is its success, `Skips` the P2025 or P2002
that rolls it back and is swallowed. `VerifyReads`, `VerifyPolls` and `VerifyFulfils` are
`verifyPayment`; `HandleFailed`, `HandleCapture`, `HookReadsOrder` and `HookFulfils` the
two webhook handlers, which differ in wording only; `SweepStarts` to `SweepFails` the
reconciliation, of which runs may overlap. The gateway is modelled by what the
adapters ask of it: `FetchOrderStatus` and `FetchPaymentId` answer what a failed call or
an unnamed payment makes them answer, too.

`PaymentsAbstract` says what an outsider may rely on: an order is opened once, then paid
with one credit or closed without. `SettledAtMostOnce` is the refinement.

A Razorpay client brings the ids of a gateway order and of a payment, and the gateway's
signature over the two. `verifyPayment` checks the signature and compares the gateway order
with nothing, so `VerifyReads` takes any payment that Razorpay holds, of this order or of
another; `told` keeps under which payment a client was answered.

Simplifications: a client learns of an order only when its row exists, so `createOrder`
is one step; a signature exists for payments the gateway holds; the two gateway calls of
one adapter are one step; an authorization the bank reverses later is not modelled; events for other components
(receipts, notifications) are left out.

### Matchmaking

`likes` is keyed by sender and identity and `matches` by the pair, as the unique indexes
make them. `StartLike` (the checks), `WriteLike` (the row and the owner it returns, not
yet visible), `CommitLike` (like and debit), then `FindReverse`, `CheckEligibility` and
`FormMatch` (the resolution, in memory after the commit), `StartDelete`/`CommitDelete`,
`StartUnmatch`/`CommitUnmatch`, `CreateBlock`, `DeleteBlock`, `HandleIdentityClaimed` and
`TakeJob` (the likes of an identity that got an owner), `Tick` and `Restart`. `boot` is the
moment the instance loaded its modules: the filter for live likes compares with it, because
its `new Date()` is evaluated once.

Identities change hands while all this goes on. `Accounts` has the requests that do it with
their checks; here is what they commit, for any user and any identity, between any two statements of
a request: `ClaimIdentity` (`claimOrCreateIdentity`, which may take an unverified identity from
another user, and publishes an event after the commit), `RegisterIdentity` (sign-up, linking and
the sign-in that verifies, whose event may be handled before the commit of a new account and finds
nothing), `CreateIdentity` (`create`: a new owner and no event), `ReleaseIdentity` (`delete`, and
`update` of an identity in the way) and `HideIdentities` (`deleteProfile`). The handler of the
event leaves out identities that are hidden, as its `deletedAt: null` does.

The unique indexes on `Match.likeOneId` and `Match.likeTwoId` are `LikesAreFree`: a match row keeps its two
likes (`by`) after an unmatch, so a like may still stand in the row of a pair that its identity's
earlier owner was in, and the match with the new owner then fails with a P2002 that is swallowed.

`ever` (the owners an identity has had), `departed` and `late` are history variables.

Simplifications: a sender can always pay (`CreditLedger` says whether), the reads before
the like's transaction are one step, the end of the day in the user's time zone is a day.

### Sessions

`session` is the table: a row is live (`revokedAt` is null), belongs to a family and replaces a
parent. `SignIn` and `Present` (the read of `refreshToken`) start a lineage and a request;
`ExecuteAtomicRotation` is the compare-and-swap and the new row; `CacheInMemory` and
`CacheInRedis` are `cacheRotatedResponse`, after which the client has its answer (`held`);
`PollFinds` and `PollGivesUp` stand for the lookups of `handleRevokedSession` and
`resolveConcurrentCollision`, the latter for the last one. `SignOut`, `Forget` and
`EndFamilies` are the ways to end sessions, `StartRevoking` and `ApplyRevocation` the one
`updateMany` they share with `terminateSessionFamily`: it sees the rows that were committed
when it started. `age` counts the two limits of the grace window. `excused`, `ended`
and `late` are history.

Simplifications: the earlier lookups of a waiting request change nothing and are left out;
Redis is configured; a refresh token that has expired and a user who was deactivated
are refused without a change, and are left out; all families are one user's.

The proof modules (`...Proofs`) are described in section 5.

### Subscriptions

`store` is what Apple or Google knows of a purchase, `terms` the periods it has had, `notes`
what the store has still to deliver; `rows`, `log` and `grants` are `UserSubscription`, the
`SubscriptionEvent` rows by `storeEventId` and the credits. `Charge`, `Defer` and `Change` are the
store's life cycle (external): a deferral moves the end of a Google period and charges nothing, and Google's
table takes it for a renewal (`EventType`); `VerifyPurchase`/`HandleInitialPurchase` are
`verifyAndCreateSubscription`; `HookReads` and `HookDrops` a delivered notification up to
`isEventAlreadyProcessed` and the row it finds, `HookCommits` the six handlers with the
table `Updated`, `HookFails` the error that is caught and acknowledged; `JobReads`/`JobCommits`
are `expireSubscriptions`. `EventId` is the point of the model: Apple's notifications of one period
share a transaction id, Google's each have a message id. `excused` and `unmetered` are
history: which purchases had their notifications lost, mixed up or handled at once.

### PlanPrices, PaymentRoutes, Catalogue

`PlanPrices`: one plan in one country; `price` is its row in each currency, since the unique index is on
plan, currency and country, `record` the history of each, `edit` the requests of administrators, each a
read (`StartAdd`, `StartUpdate`, `StartRemove`) and a transaction (`CloseInterval` is its first statement,
`CommitAdd`, `CommitUpdate` and `CommitRemove` the rest). `InForce` is the answer of `getPriceHistory` for a
point in time, which asks for plan and country and gets one for each currency. `PaymentRoutes`: one country; `routes` maps
a gateway to its priority and whether it is enabled, and every change is a read (`CreateRoute`,
`SwitchRoute`, `MoveRoute`, `ReorderRoutes`, `DeleteRoute`) and a transaction, which writes
(`WriteRoutes`), holds what it wrote locked, and commits (`CommitRoutes`); `Up` and `Down` renumber the
committed rows from a step on, however high it is: priorities may leave gaps where requests crossed.
`Catalogue` composes both with an order that reads the plan, the price and the routes one after the other
(`createOrder`, `selectGateway`; `LoadPrice` takes the price of any currency, as `findFirst` by plan and
country does), and states what the customer is charged.

### AccessTokens, Accounts, StorePurchases, Chats, DataExports, Membership

`AccessTokens`: `active` is the set of token ids in Redis per account, `revoked` the list;
`Validate`, `CheckList`, `CheckRow` and `Warm` are the four reads and writes of
`JwtStrategy.validate`, and `SignOutDevice`, `ListToken`, `SignOutEverywhere`, `DropCache` those of `revokeUser`.

`Accounts` EXTENDS it: `identity` and `cred` are `Identity` and `AuthCredential` by row. A
request is checked (`SignUp`, `AddSecondaryAuth`, `AddIdentity`, `StartUpdate`, `StartDelete`,
`StartErase`, `StartDisable`), reads again in its transaction (`ReadIdentity`,
`FindDuplicate`) and commits (`CommitIdentity`, `CommitUpdate`, `CommitDelete`,
`CommitErase`, `CommitDisable`). `PublishEarly` is the claim event that leaves a transaction
before its commit; `HandleIdentityClaimed` is its handler. Row locks appear where a transaction
has written and not committed (`Locked`), unique indexes and foreign keys in `Accepts`.

`StorePurchases` is the RevenueCat webhook: `StartPurchase` (the pre-check, the buyer, the
plan), `CommitPurchase` (row and grant), `FailPurchase`, and an answer that may be lost.

`Chats`: `room` is `ChatRoom` by couple, as its unique index makes it, and holds the number of the key the row
keeps; `sending` the calls of `sendMessage`. `StartSend` are the checks, `FindRoom`, `CreateRoom` and `FallBack` the
three calls of `getOrCreateRoomWithKey` (an insert may be lost after it was made), `InsertMessage` the
row, which takes the time of its insertion. `Announce` is the event at the end of a deletion,
`PurgeRooms` and `PurgeFails` its handler. `purged` and `lingering` are history.

`DataExports`: `exports` is `DsarExport`, `jobs` the rows with a message that Pub/Sub still delivers, `stored` the
bucket, where the archive of a row is replaced by the next one at the same path. `AskExport` to `AskerStops` are
`requestExport`, one action per statement or call; `TakeJob` to `WorkerStops` are `processExport`, with
`ReadRooms` and `NextPage` for `exportChatHistory`: `Unread` is the query of a page, `Pages` what it may answer.
`overlapped` and `orphaned` are history: rows two deliveries worked on at once, and rows whose request stopped
between its insert and its answer.

`Membership` composes the five: the end of an account detaches its purchases (`Detach`), is announced to the
chats (`Announce`) and takes its exports along (`Cascade`).

Simplifications: codes that prove a value are a parameter (`proven`); `socialAuth` answers 410
and is left out; mangled values of released rows never collide; that two users are matched and not blocked is an
input of `StartSend`; of what an export collects, only the chats are modelled, since the rest is read in one
statement each; the cooldown between exports, which `force` waives, is left out.

## 4. Runs

Every bound is a CONSTANT whose name starts with `Max`, or the size of a set; deadlock is not
checked because the bounded systems do stop. States are distinct states.

| Run | Instance | Shows |
|---|---|---|
| `CreditsSequential` | 2 users in pages of 1, 1 spender, 1 instance, 2 bundles of 2 with or without expiry, 2 spends, 1 failure, fairness; 550k states | `ExpiredAtMostOnce`, `BalanceNeverShort`, `LapsedBundlesClose` |
| `CreditsConcurrent` | 1 user, 2 spenders and 2 instances over one day, bundles of 1 or 2; 518k | `OverdraftBounded`, `ClosedStaysClosed`, `CronMovesNoBalance` |
| `PaymentsRaces` | 2 orders routed to either gateway, 2 attempts at the first, 2 deliveries, 1 client, 2 sweeps, 1 fault; the second order stays fresh, so the sweep leaves it (`SecondStaysFresh`); 592k | `ExactlyOnce`, `PaidOnlyIfHeld`, `AnsweredIsSettled`, `SettledAtMostOnce` |
| `PaymentsSettle` | 2 orders of either gateway, a sweep that takes 1, 1 fault, fairness; 146k | `OrdersSettle`, `CaptureCredits` |
| `LikesSequential` | 2 users, 1 request at a time, 4 likes, 1 deletion, 2 unmatches, 1 block, 1 restart, expiry, 2 changes of owner, with likes and unmatches only (`ChangesApart`); 1.05M | `MatchedIffActive`, `MatchIsMutual`, `UnmatchHolds` |
| `LikesConcurrent` | 2 users, 3 identities of which 1 has no owner at first, 2 requests at once (symmetric), 4 likes (3 once an owner changed without an event), and 2 in all of 1 deletion, 1 unmatch, 1 claim and 1 other change of owner (`FewOthers`); 2.05M | `OnlyLateLikesMissed` |
| `SessionsRotate` | 2 sign-ins, 2 instances, 2 requests at once (all symmetric), 3 rows, 1 ending, 1 fault; 1.1M | `NoBranches`, `HonestFamilySurvives`, `OnlyOverlapsSurvive` |
| `Subscriptions` | 1 purchase of either store, 2 periods, 3 notifications of which 1 twice, 2 handlers, 2 clients, 1 fault; 589k | `CreditsFollowPeriods`, `InStep` |
| `Catalogue` | 2 currencies, of which one has a price at first at most (`OneAtFirst`), 3 gateways; 2 edits of prices, 2 of routes, or 1 of either while an order is made (`FewCalls`); 194k | `PointInTimeAnswers`, `PricesCoherent`, `PrioritiesContiguous`, `StaysPayable`, `ChargedOnRecord` |
| `Membership` | 2 accounts, 3 values of 2 kinds, 2 rows, 2 requests at once; 3 requests, or 1 that ends an account with 2 validations or sign-outs, a purchase delivered twice, 2 messages, or an export with 2 workers and pages of 1, or a message and an export with a fault, or 2 messages and an export; 1 failure of Redis, 1 lost answer, 1 fault; 263k | `OneAccountPerValue`, `EndedLeavesNothing`, `ClaimsReachHandler`, `OwnersKeepTheirs`, `ShutStaysOut`, `PurchasedOnce`, `MessagesReadable`, `ChatsEndWithAccount`, `TranscriptsComplete`, `ExportRowsTrue` |

Why the bounds are enough. A race of the ledger needs two processes and one bundle, its
attribution two bundles with different expiry; a third bundle was checked without new
behaviour. But for the payment ids, an order's rows concern that order alone, so one order with two attempts and
two of every handler contains the races; a second order is needed where a client brings the
payment of another order and where a sweep takes fewer than are stale. The resolution works on one pair; a user with two identities is the smallest
case where a pair has several likes, and with one identity that changes hands twice a like stands in the row
of another pair. A race for a refresh token needs two requests on two
instances, and a third row the rotation of what survived; one family was also checked with three
requests, which found nothing more in the 3.7M states visited. A store notification meets at most
another notification, the job and a claim; two periods contain a renewal, a lapse or a
recovery. Three routes are needed for an order that is neither the first nor the last, and the
two counts that matter (one enabled, none) lie below that. Every race of accounts is between two requests, of which a third
may have prepared the ground, and two values of one kind are what a change of value needs; an ending meets a
validation, a purchase, a conversation or an export without further help, so these are combined with one request
(`Budgets`, `MCMembership!Few`). Two messages make the race for a room, the page that is full and the page after it.

Runs that are expected to fail show where code and text disagree; each checks one sentence of
the repository, quoted in `PROJECT.json` under "findings":

| Run | Property | In short |
|---|---|---|
| `PaymentsLostCapture` | `AckedCaptureIsPaid` | the capture after a failed attempt is acknowledged and dropped |
| `LikesStaleRematch` | `UnmatchHolds` | a resolution from before the unmatch ends after it |

`ExpiredAtMostOnce` and `UnmatchHolds` hold in the sequential runs and fail in the
concurrent ones: what the code guarantees is the sequential reading. `OverdraftBounded`,
`AnsweredIsSettled` and `OnlyLateLikesMissed` say how much remains true under concurrency.

Other behaviours the models reach, which a reader of the code should know although no run
is kept for them:

* Two concurrent spends overdraw by one spend (`OverdraftBounded` is tight): the balance
  check takes no lock.
* A spend made after an unused bundle has lapsed is attributed to the lapsed bundle when the
  balance is read, so the balance may exceed what the bundles that paid have left;
  `BalanceNeverShort` is the direction that holds.
* `verifyPayment` answers PAID for an order that was closed as FAILED or EXPIRED since it
  read the order: P2025 is taken for "already paid". `AnsweredIsSettled` is what holds.
* The signature that a client brings to `verifyPayment` is checked over the gateway order that the client names, and
  that one is not compared with the order's `gatewayOrderId`. A Razorpay order may therefore be settled with the
  signed payment of another one, which `PaidOnlyIfHeld` allows for: the payment is held and pays for one
  order. The capture event of the order it was made for then meets the recorded id (P2002) and is acknowledged while that order is
  PENDING, until the sweep expires or closes it: the exception of `AnsweredIsSettled`.
* With two identities of one person, a second pending like of the user who unmatched is
  found by the other's next like, and the pair is matched again without concurrency.
* Two users with several identities each may keep pending likes for one another after an unmatch: of a pair's
  likes a match uses one of each side, and the others are resolved by no one until a new like is sent. This
  is why `OnlyLateLikesMissed` asks that one of the two has one identity only.
* A search finds one of the likes that the other user has sent, and that one alone is compared: if its intent does not go
  with the new like's, another one whose intent does is not tried, and both stay pending (TLC shows it with the intents
  CASUAL and RELATIONSHIP). The run of `OnlyLateLikesMissed` has one intent, and its theorem asks that all go together.
* A like deleted while its resolution is under way ends deleted under an active match.
* `IdentitiesService.create` gives an identity an owner and publishes nothing, so that likes that waited for it are
  resolved by no one; a sign-up's event may be handled before the commit and finds nothing; the handler
  leaves out identities that are hidden. The first is an exception of `OnlyLateLikesMissed` (`late`), and in the second the
  account is new and has sent no like.
* A match outlives the owner of the identity it rests on: neither `delete` nor a claim by another user looks at
  matches. `MatchIsMutual` therefore says that the identity is or was the other's.
* A like for an identity that changed hands may stand in the match row of the earlier owner's pair, whose unique index
  on `likeOneId` or `likeTwoId` then refuses the match with the new one. `resolveFromLike` takes the P2002 for a lost
  race, and the two stay unmatched (`late`).
* A user who claims an identity they liked while it had no owner is matched with themselves.
* Blocking a matched user leaves the match active: nothing writes `MatchStatus.BLOCKED`,
  although `docs/docs/modules/blocks.md` describes it.
* Two concurrent likes of one identity both find the same withdrawn, voided or deleted row, and
  both update it and pay: the rule that a duplicate is rejected (`IsDuplicate`) is checked
  outside the transaction.
* A rotation that commits while a sign-out's update is at work leaves its new row live, and
  all that descends from it: `OnlyOverlapsSurvive` says that nothing else survives.
* A rotation whose answer is not cached before a second request has polled for 250 ms, because the
  instance stopped or Redis is slow or failed, ends the whole family, the winner's new token
  included: these are the excuses of `HonestFamilySurvives`.
* `revokeSession` deletes the grace entry of the token it is given, while entries are kept under
  the token that was consumed: a predecessor presented in the grace window is still answered
  after the sign-out, with a refresh token that is revoked.
* A restart between the commit of a like and its resolution leaves mutual likes unmatched
  until one of them is sent again; the run of `OnlyLateLikesMissed` has no restarts.
* One batch handled by two instances at once writes the EXPIRED rows of a bundle twice, although
  `credits.service.ts:737-738` calls retries safe: they are, one after the other.
* `ACTIVE_LIKE_FILTER` evaluates `new Date()` once, at load (`likes.types.ts:69`), so a like that
  expires later counts as active until the instance restarts.
* `expireSubscriptions` expires rows in `GRACE_PERIOD` whose end is past, which is every one of them,
  although `subscriptions.service.ts:649` says that the user keeps access.
* `createUserWithCredential` and `addSecondaryAuth` take an unowned row without clearing
  `deletedAt`. After `deleteAccount`, a phone number that registers again has an identity
  its owner cannot see and whose pending likes are never resolved: this is the exception of
  `ClaimsReachHandler`.
* An account that was disabled (by itself or by an administrator) keeps its rows in `Identity`, so its
  values can neither register again nor be claimed.
* Two accounts may end up with a live credential for one value: one changes the value of its
  identity while the other, which had found it free, registers it (`moved`). A change, deletion
  or end of an account writes by the row ids it read, and may strip a row from the owner it got
  meanwhile (`contested`).
* A sign-out without a refresh token deletes the cached set only (`auth.service.ts:1124`): it lists
  no token and the account's row stays active, so unexpired access tokens are let in again by the
  row, although `docs/docs/modules/auth.md:91` says that it disconnects all devices instantaneously
  and `jwt-cache.md:186` that the row's lookup "detects that sessions are revoked".
  `SignOutEverywhere` is this step; `ShutStaysOut` is about sign-outs with a refresh token and
  deleted accounts and says nothing of these tokens. A validation that goes on across
  a sign-out writes its token back and extends the life of the whole set (`raced`).
* `deleteRoute` may take the last enabled route (`docs/docs/modules/payments.md:358`); two routes
  created at once, or reordered at once, leave a priority twice; two disabled at once leave none.
* A country may have a price in each currency: the unique index is on plan, currency and country. `loadPlanPrice` asks
  for plan and country and charges whichever row the database returns first, and the history answers for a
  point in time with one price for each currency.
* A deferral by Google brings the credits of a renewal although nothing was charged (`google-subscription.service.ts:170-171`):
  `CreditsFollowPeriods` counts the periods that were charged for or deferred to.
* Two overlapping `updatePlanPrice` leave two open intervals of history, and the later may write
  back a base price that the first has replaced.
* A message that passed its checks before its recipient's account ended may create the room anew after the deletion has
  removed it, and a purge that fails is logged and never repeated: these are the `lingering` couples of
  `ChatsEndWithAccount`.
* Messages that share a `createdAt` with the last one of a page are left out of a transcript, whose pages take 1000 messages
  (`chats.service.ts:1074`; `docs/docs/architecture/dsar-portability.md:163` says 500).
* The publication of an export that fails may have gone out all the same: the row is marked FAILED and a worker reopens it.
  A request that stops before it has published leaves the row PENDING, and its user cannot ask again; two workers on
  one message may leave it PROCESSING after the message was answered (`orphaned`, `overlapped`).
* Two requests for an export at once create two rows: the check for one in progress takes no lock.
* The archives of an account that is erased stay in the bucket, without a row that names them.
* A store purchase of a product without a plan is recorded PENDING, and a redelivery after the
  product is mapped grants nothing.

### Fairness

`CreditHistory!HFairSpec`: Cloud Scheduler keeps firing, the coordinator's loop and a
handler that has a message go on, and Pub/Sub redelivers what is not acknowledged (weak
fairness of each). Spends, grants and the clock need not happen. `Payments!FairSpec`: orders
age, the scheduler calls the sweep, a sweep that runs goes on, the gateway redelivers
events until it sees an answer. Nobody needs to pay or to call verify. Failures are
bounded by `MaxFaults`, which stands for "not for ever".

## 5. Proofs

`PaymentsProofs` holds, for any sets of orders, payments, handlers and sweeps, any routing
of orders to gateways, any sweep size and any number of faults (`PaymentsAssumption`: each
payment has an order, the numbers are naturals):

* `TypeCorrect`: `Spec => []TypeOK`, one step per action. `HandlersAtWork` says what the
  record of a handler at work holds.
* `CreditedExactlyOnce`: `Spec => []ExactlyOnce`, inductive with `TypeOK`. `TablesMove`
  reduces every step to four ways in which the tables can move, which this
  theorem, the next and the refinement share.
* `SettledForGood`: `Spec => SettledStays`.
* `Refinement`: `Spec => SettledAtMostOnce`, each step of the checkout is a step of
  `PaymentsAbstract` or leaves `outcome` and `credits` alone; it uses `ExactlyOnce`, since a
  PENDING order must have no credit for `Pay` to set it to one.
* `NoCreditsWithoutMoney`: `Spec => []PaidOnlyIfHeld`. The property is not inductive: a
  sweep that is about to fulfil could have been about any order. `Evidence` strengthens it: what
  an undelivered capture event, a webhook handler, a verify request or a sweep carries belongs to a payment
  that the gateway holds, of the order it is about or, in a verify request, of another Razorpay order; and the gateway
  never lets go of one. `RowsApart` says that no id is linked to two orders: each has its row, and a recorded id is not
  recorded again.
* `NoAnswerWhileOpen`: `Spec => []AnsweredIsSettled`. A fulfilment that is skipped because
  its id is recorded is answered like one that commits. The order is then PAID if the row is its own, and
  otherwise the payment serves another order, which is the exception; rows are never removed, so it stays one
  (`Closing`). It uses `ExactlyOnce`: a row's order is PAID.

`SessionsProofs` holds, for any sets of families, instances and requests and any bounds
(`SessionsAssumption`: the bounds are naturals). `Base` is the inductive part: types; rows numbered
from 1 without gaps (so that the next number is that of no row); a request in progress and a
cached answer name rows, and an answer names the row that replaced the token it is for. Three
shapes of step change the table (`Adds`, `Replaces`, `Kills`), and `SessionSteps` shows from them
that no row ever disappears, changes family or parent, or comes back to life.

* `TypeCorrect`: `Spec => []TypeOK`.
* `NeverBranches`: `Spec => []NoBranches`, by `Lineage`: a row that has been replaced is dead, so
  the compare-and-swap can only add a successor to a row that has none.
* `EndedStaysEnded`: `Spec => []OnlyOverlapsSurvive`, by `Closings`: while the statement of a
  revocation runs, every live row of its families is one that it found or was born since.
* `HonestClientsStay`: `Spec => []HonestFamilySurvives`, by `Survival`: a token that was replaced has its
  answer in Redis or a winner about to write it there, or an excuse; so whoever polls and finds
  nothing has one, and every request that is about to end a family has one.

`MembershipProofs`, on the lemmas of `AccountsProofs`, holds for any sets of accounts, values, rows,
guards, tokens, requests, purchases, senders, exports and workers and any bounds (`AccountsAssumption`: the placeholders for no
owner, no row and a mangled value are none of the real ones). `AccountsInv` is the inductive invariant; its
parts are:

* `Base`: types, and what a request in progress knows (`Requests`): which row it read, as what, and
  that a row it wrote and has not committed is locked; an account nobody opened has no rows (`Newcomers`).
  `BaseStep` is the step lemma that all the others take for granted.
* `Unique`, for `OneAccountPerValue`: alone the property is not inductive. `Apart` is the unique index on the
  value of an identity; `Reserved` says that while a request for a credential of a value is in progress, an
  existing credential of it still sits on the identity of that value, unless it was given up.
  The proof found what TLC had not: with three requests at once a value is
  also given up when a commit overwrites the row of another value, which two requests never reach; `moved` counts
  those too (`GivenUp`).
* `Clean`, one row and one account at a time, for `EndedLeavesNothing`; `Heard` for `ClaimsReachHandler`, with
  `ClaimSteps` for the three ways in which claims move; `Out`, one account and one token at a time, for
  `ShutStaysOut`; `Records` for the types of the history.

The theorems are `TypeCorrect`, `ValueSignsInOnce`, `NothingLeft`, `ClaimsHeard`, `StaysOut`, and the action property
`NobodyTakes` (`OwnersKeepTheirs`, by `OwnersStep`: every request that writes a row acts for its owner,
finds it unowned or unverified, or leaves it among the `contested`). `CreditedOnce` is
`PurchasedOnce`, by an invariant of its own on rows, deliveries and grants.

`CopiesInv` is the invariant of chats and exports; its step lemmas come first in the module:

* `Readable`, for `MessagesStayReadable` (`MessagesReadable`): alone the property is not inductive, since a call that is
  about to insert could hold any key; `Aimed` says that it holds the key of the room it names. Each step of a sender
  is one of the `Moves`, which neither start a conversation nor change its couple.
* `Finished`, for `ChatsGoWithAccount` (`ChatsEndWithAccount`): deletions concern accounts that have ended, which
  `AccountsInv` says of a request that is about to announce one (`TornDownEnded`), and the couples of a purged
  account that do not linger have neither a room nor a message on its way.
* `RowsTidy`, for `ExportRowsStayTrue` (`ExportRowsTrue`): a row that did not overlap has one worker at most, which, while it works, has
  its message unanswered and, once it has written the archive, the archive that is in the bucket. `WorkKeepsRows` and
  `WorkSetsRow` are the two shapes of a worker's step.

Between the pages of an export anything may be sent, deleted or purged, and `TranscriptsComplete` is only about the last
page. `Transcripts` is its invariant, on top of `CopiesInv`; `TranscriptsWhole` is the theorem:

* `Numbered`: the calls at work have numbers of their own, which no message has yet, so a message that is inserted is new to a
  reader that is half way (`Known`).
* `Collecting`: every message that a reader wants and that still exists is in what it `Found`, or `Ahead`: in a room it has yet to
  read, or later than its cursor in the one it is reading. `PageFacts` says what a page of `PageSize` leaves ahead.

`MatchmakingProofs` holds for any sets of users, identities and requests, any owners at the start and any bounds
(`MatchmakingAssumption`: the bounds are naturals, and the users' ids are in a strict order). Owners may change between any two
steps in all of it, so nothing a request has read of them stays true; what does is that a user *has had* an identity
(`ever`, `EverGrows`), and the invariants say that. Two theorems hold however many requests, jobs, claims and restarts interleave:

* `TypeCorrect`: `Spec => []TypeOK`, by `Typed`: what a request knows (`Knows`) stays true because rows are written
  over and never removed (`RowsStay`).
* `MatchesRestOnLikes`: `Spec => []Grounded`, the part of `MatchIsMutual` that concurrency cannot break: the likes
  under an active match were sent and paid by its users, and each is for an identity that the other has or has had (of the
  same user, when the match is of one with themselves). Its invariant is `Grounds`, with `Aimed` for what a request holds.

Three hold when requests take turns (`OneAtATime`: one request is in progress at a time) and no claim event is under way
(`NoClaims`, so that no job of the handler comes between a request's steps; owners still come and go by the actions without an event).
These are hypotheses of the theorems and not of the model: they are the instance of `LikesSequential`, and the run
`LikesStaleRematch` shows what becomes of the last without the first. Their invariant `InTurn` says that what a
request has read of likes and matches is still so when it writes (`AtWork`), and `Tidy` that no like stands under two matches, which
is what `LikesAreFree` sees to when an identity has changed hands:

* `MatchedOnlyUnderMatch`: `Spec => []MatchedIffActive`, a part of `Tidy` (`InStep`).
* `MatchesAreMutual`: `Spec => []MatchIsMutual`, by `Grounds` and `Tidy` (intents that go together, `Compatible`).
* `UnmatchesHold`: `Spec => []UnmatchHolds`, by `Gone`: the only likes of those who left a pair are withdrawn ones, for a
  user who has had one identity only (section 4 says why).

One holds with any number of requests, jobs, claims and changes of owner at once, while nobody is blocked and the instance does not
restart (`Undisturbed`) and all intents go together (`AllCompatible`); section 4 says what happens without. Likes may expire,
which its run leaves out:

* `MutualLikesMeet`: `Spec => []OnlyLateLikesMissed`, which is about quiet states only. `Pursued` says of all states that two likes
  that could meet are matched or `Awaited`: a claim or a job names one of them, or a resolution `Seeks` the other, and one that is
  about to write a new match still may, unless another request was faster. Two steps need care: an identity that gets its owner
  makes likes due that were not (`GetsPursues`), which its event or `late` accounts for, and an unmatch takes the one like that one
  of the two had for the other (`Parts`, `CommitUnmatchPursues`), which is where one identity is needed.

`CatalogueProofs` holds for any currencies, prices, clock, gateways (finitely many:
`RoutesAssumption`), administrators and orders, and any bounds (`PricesAssumption`). `CatalogueInv` is the
inductive invariant; its parts are:

* `Coherent`, for `SoldAsRecorded` (`PricesCoherent`): alone the property is not inductive; `Sensible` says that
  what a request is about to write has its discount below its base, although it was checked against
  a row that may have changed since. `ClosedHistory` is what closing intervals leaves as it is.
* `InTurns`, for `HistoryAnswers` (`PointInTimeAnswers`), one currency at a time: while administrators take turns, no entry of the
  history ends after the next begins, the last is open while there is a price and says what it is (`Newest`), and no
  entry is younger than what a request at work has read (`Fresh`). That the property follows is `TurnsAnswer`.
* `RoutesSound`: types, and what a transaction holds written is still what it would write to the rows as they
  are (`WritesHold`), on rows that no other transaction holds (`WritesApart`). It holds however requests cross.
* `InOrder`, for `RoutesNumbered` (`PrioritiesContiguous`): while no two requests that move priorities overlapped,
  one at most is at work, what it has read of the steps still holds (`Reads`), and `NewStep`, the step it gives each
  route, takes 1 .. N to 1 .. N, one more or one fewer (`RenumberingHolds`).
* `Payable`, for `CountriesPayable` (`StaysPayable`): every request that is about to disable a route is backed by
  another enabled one, unless it deletes the last.
* `OrderOnRecord`, for `OrdersChargedOnRecord` (`ChargedOnRecord`): an order that has read its price has it from an
  entry of the history of its currency, and entries never change but for their ends.

`TypeCorrect` holds for priorities without an upper bound, and shows that renumbering never takes one below 1.

`SubscriptionsProofs` holds for any sets of purchases, handlers and clients and any bounds
(`SubscriptionsAssumption`: the bounds are naturals). `Base` is the inductive part: types; what is handled or to
be expired is a row that is there; `StoresSound`, what the stores have charged and told: notes that are under way
tell one story each (`Linked`: the state after a note is the state before the next, and a period is charged for or deferred to
once); `Recorded`, that rows and requests are of purchases that were paid.

* `TypeCorrect`: `Spec => []TypeOK`.
* `CreditsFollowTerms`: `Spec => []CreditsFollowPeriods`, by `Metered`: alone the property is not inductive, since a
  handler that is about to credit could be about a period that has been credited. The grants are at most as many as the
  periods that are `Spent`, those no notification can bring credits for any more; what is at work is not recorded yet, and
  no two handlers are about one event. The purchase itself spends the least period of a Google purchase, which no later
  charge or deferral is about.
* `StaysInStep`: `Spec => []InStep`, by `Followed`: what was sent and not delivered can still come
  (`Covered`), one request, row and handler at a time (`Apart`), nothing is recorded before its turn (`InOrder`), and a
  row has the status of the store before the next notification (`Right`), or has expired past its end. `Landed` is the lemma
  that the rest turns on: a status that agrees with the last note delivered agrees with the store, or with what the next note
  starts from.

`CreditsProofs` holds for any users (finitely many), transactions, instances, bundle sizes, expiry windows, prices of a
spend, page sizes and bounds (`UsersAssumption`, `TxsAssumption`, `NumbersAssumption`: 0 is no transaction, user or price).
Its first half is the arithmetic of the ledger: sums as folds over finite sets (`SumFunctionOnSet`), by induction on the
cardinality inside the proofs (`SetInduction`, `RemovalInduction`), and what the FIFO loop leaves in each bundle.
`IsLoop` says what one run of the loop is, and the lemmas on it compare two runs: over one more row, over more debits,
over an initial part of the order. The invariants come after it:

* `Core` (`CoreHolds`): types, and that the rows a worker is about to insert are those of the user it has read; with `Paying`
  it gives `TypesHold`.
* `InsertsMoveNoBalance`: `HSpec => CronMovesNoBalance`. It needs no more than `Core`.
* `SpendsOverdrawLittle`: `HSpec => []OverdraftBounded`, by `Bounded`, which is inductive as it stands: a request that passes its
  check when n others are in flight found a balance of `Cost`, and a balance is at most what was granted less what was spent.
* `FinishedUsersStayClosed`: `HSpec => []ClosedStaysClosed`. Alone the property is not inductive. `Books` counts: the debits of
  a user are at least what had lapsed by the day that was closed (`Settled`), and at least that once the rows in a worker's hands
  are inserted (`Settling`); nothing granted later lapses by a day that is past (`Dated`). No row is ever removed, so
  other instances and spends only add to the debits.
* `BundlesExpireOnce`: `HSpec => []ExpiredAtMostOnce` for one instance (`OneWorker`), by `Once`: a bundle that was expired
  has lapsed, and its user's debits cover what had lapsed by its day, so that no later read finds it unused (`Books`); and the
  rows in the worker's hands are the first ones for their bundles.
  Without the hypothesis the property fails, as section 4 says.
* `ChargesHold`: `HSpec => []Paying`: what spends have taken from a bundle, in flight or not, is never more than its size.
* `BalancesNeverShort`: `HSpec => []BalanceNeverShort` for one transaction at a time (`OneTx`), by `Covered`: the spends
  of a user are at most what its lapsed bundles hold and what was taken from the live ones. Two spends at once can overdraw, and
  the bundle that is granted next then pays for the overdraft when the balance is read.

`OneWorker` and `OneTx` are hypotheses of these two theorems and not of the model; they are the instance of `CreditsSequential`.

Only model-checked: liveness (`OrdersSettle`, `CaptureCredits`, `LapsedBundlesClose`), since the prover
handles neither fairness nor ENABLED.

## 6. Not modelled

Listed with reasons in `PROJECT.json`, "components". Of the components that keep state:

* Likes: `updateLabel` and the listings; what the deletion of an account does to likes, matches and
  blocks. Blocks by phone hash concern people without an account.
* Sessions: the push devices that end with a session and the purge of old rows.
* One-time passwords: the code, its attempts and its limits are Redis keys of their own; what
  follows an accepted code is `AddIdentity`.
* Chats: read receipts, the listings and the encryption itself, which a finite model does not see.
* Notifications, devices, profiles, preferences, administration, audit: records of one
  user that nothing else decides by, or write-only logs.
* Identity normalisation and encryption, e-mail templates, adapters: pure functions, or input and
  output.

Reports, health checks, seeds, tests, scripts and the API's schemas hold no state of their own.
