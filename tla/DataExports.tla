---------------------------- MODULE DataExports ----------------------------
(***************************************************************************)
(* Data portability: a user asks for an archive, a row records the request *)
(* and a Pub/Sub message starts the work, which is delivered until it is   *)
(* answered, perhaps twice at once.  Of what the worker collects only the  *)
(* chats are modelled: they alone are read page by page.                   *)
(***************************************************************************)
EXTENDS Chats, FiniteSetsExt

CONSTANTS
    Exports,      \* DsarExport rows
    Askers,       \* requests for an export in progress at once
    Workers,      \* deliveries handled at once
    PageSize      \* messages per page

ASSUME ExportsAssumption == PageSize \in Nat \ {0}

VARIABLES
    exports,      \* DsarExport; "ERASED" with its account
    asking,       \* calls of requestExport in progress
    jobs,         \* rows with a message that is not acknowledged
    worker,       \* deliveries being handled
    stored,       \* the archive in the bucket, by row (its path), or 0
    uploads,      \* archives written so far
    overlapped,   \* history: rows that two deliveries worked on at once
    orphaned      \* history: rows whose request stopped before its message was out

exportVars == <<exports, asking, jobs, worker, stored, uploads, overlapped, orphaned>>

NoExport == [status |-> "none"]
Unasked == [pc |-> "none"]
Resting == [pc |-> "none"]
InProgress == {"PENDING", "PROCESSING"}

ExportsInit ==
    /\ exports = [x \in Exports |-> NoExport]
    /\ asking = [a \in Askers |-> Unasked]
    /\ jobs = {}
    /\ worker = [w \in Workers |-> Resting]
    /\ stored = [x \in Exports |-> 0]
    /\ uploads = 0
    /\ overlapped = {} /\ orphaned = {}

Made(x)           == exports[x] # NoExport
Remains(x)        == exports[x].status # "ERASED"
SetStatus(x, to)  == exports' = [exports EXCEPT ![x].status = to]
AskAt(a, call)    == asking' = [asking EXCEPT ![a] = call]
WorkAt(w, job)    == worker' = [worker EXCEPT ![w] = job]

-----------------------------------------------------------------------------
(* requestExport.                                                          *)

\* The account is active and has no export in progress; the cooldown can be waived.
AskExport(a, u) ==
    /\ asking[a] = Unasked
    /\ user[u] = "active"
    /\ ~\E x \in Exports : exports[x].status \in InProgress /\ exports[x].user = u
    /\ AskAt(a, [pc |-> "create", user |-> u])
    /\ UNCHANGED <<exports, jobs, worker, stored, uploads, overlapped, orphaned, faults>>

\* The row; the foreign key needs the account.
CreateExport(a) ==
    /\ asking[a].pc = "create"
    /\ LET u == asking[a].user IN
       IF user[u] = "gone"
       THEN AskAt(a, Unasked) /\ UNCHANGED exports
       ELSE \E x \in Exports :
               /\ ~Made(x)
               /\ exports' = [exports EXCEPT ![x] = [user |-> u, status |-> "PENDING", archive |-> 0]]
               /\ AskAt(a, [pc |-> "publish", row |-> x])
    /\ UNCHANGED <<jobs, worker, stored, uploads, overlapped, orphaned, faults>>

\* A publish that fails may have gone out nevertheless.
PublishJob(a) ==
    /\ asking[a].pc = "publish"
    /\ \/ /\ jobs' = jobs \cup {asking[a].row}
          /\ AskAt(a, Unasked)
          /\ UNCHANGED faults
       \/ /\ Fault
          /\ jobs' \in {jobs, jobs \cup {asking[a].row}}
          /\ AskAt(a, [asking[a] EXCEPT !.pc = "mark"])
    /\ UNCHANGED <<exports, worker, stored, uploads, overlapped, orphaned>>

\* Mutant of MarkFailed: the row is left as it is.
MarkNothing(a) ==
    /\ asking[a].pc = "mark"
    /\ AskAt(a, Unasked)
    /\ UNCHANGED <<exports, jobs, worker, stored, uploads, overlapped, orphaned, faults>>

\* The row of a publish that failed; one that is gone makes another error.
MarkFailed(a) ==
    /\ asking[a].pc = "mark"
    /\ LET x == asking[a].row IN IF Remains(x) THEN SetStatus(x, "FAILED") ELSE UNCHANGED exports
    /\ AskAt(a, Unasked)
    /\ UNCHANGED <<jobs, worker, stored, uploads, overlapped, orphaned, faults>>

\* The process stops, or the update of a row that failed does.
AskerStops(a) ==
    /\ asking[a].pc \in {"publish", "mark"}
    /\ Fault
    /\ orphaned' = orphaned \cup {asking[a].row}
    /\ AskAt(a, Unasked)
    /\ UNCHANGED <<exports, jobs, worker, stored, uploads, overlapped>>

-----------------------------------------------------------------------------
(* processExport.                                                          *)

\* The answer 200 takes the message away, unless it is lost.
Acknowledge(x) ==
    \/ jobs' = jobs \ {x} /\ UNCHANGED faults
    \/ UNCHANGED jobs /\ Fault

\* A row that is gone or completed is answered; any other is worked on, again if need be.
TakeJob(w, x) ==
    /\ worker[w] = Resting
    /\ x \in jobs
    /\ IF ~Remains(x) \/ exports[x].status = "COMPLETED"
       THEN Acknowledge(x) /\ UNCHANGED <<worker, overlapped>>
       ELSE /\ WorkAt(w, [pc |-> "start", row |-> x])
            /\ overlapped' = IF \E v \in Workers : worker[v] # Resting /\ worker[v].row = x
                             THEN overlapped \cup {x} ELSE overlapped
            /\ UNCHANGED <<jobs, faults>>
    /\ UNCHANGED <<exports, asking, stored, uploads, orphaned>>

\* An update of a row that is gone throws, outside the try: the message comes again.
StartProcessing(w) ==
    /\ worker[w].pc = "start"
    /\ LET x == worker[w].row IN
       IF Remains(x)
       THEN SetStatus(x, "PROCESSING") /\ WorkAt(w, [pc |-> "rooms", row |-> x])
       ELSE UNCHANGED exports /\ WorkAt(w, Resting)
    /\ UNCHANGED <<asking, jobs, stored, uploads, overlapped, orphaned, faults>>

\* Reading the rooms that are left, one of them up to the cursor.
Paging(row, left, cursor, got, torn, wanted) ==
    [pc |-> IF left = {} THEN "upload" ELSE "page", row |-> row, left |-> left,
     cursor |-> cursor, got |-> got, torn |-> torn, wanted |-> wanted]

\* exportChatHistory reads the rooms of the account; an error makes an empty list of them.
ReadRooms(w) ==
    /\ worker[w].pc = "rooms"
    /\ LET x == worker[w].row
           mine == {room[c] : c \in {d \in Couples : exports[x].user \in d /\ room[d] # 0}}
           Begins(left, torn) ==
               WorkAt(w, Paging(x, left, 0, {}, torn, {m \in message : m.room \in mine}))
       IN \/ Begins(mine, FALSE) /\ UNCHANGED faults
          \/ Begins({}, TRUE) /\ Fault
    /\ UNCHANGED <<exports, asking, jobs, stored, uploads, overlapped, orphaned>>

\* The oldest messages, as many as a page takes; those of one instant in any order.
Pages(rest) ==
    {p \in SUBSET rest : /\ Cardinality(p) = Min({PageSize, Cardinality(rest)})
                         /\ \A m \in p, n \in rest \ p : m.at <= n.at}

\* Mutant of Unread: what others wrote in the room is left out.
UnreadOwn(w, r) ==
    {m \in message : /\ m.room = r /\ m.at > worker[w].cursor
                     /\ m.sender = exports[worker[w].row].user}

\* What is left of a room after the instant at which the last page ended.
Unread(w, r) == {m \in message : m.room = r /\ m.at > worker[w].cursor}

\* One page of one room; a page that is not full, or fails, is the last of its room.
NextPage(w) ==
    /\ worker[w].pc = "page"
    /\ LET job  == worker[w]
           r    == Min(job.left)
           Last(got, torn) ==
               WorkAt(w, Paging(job.row, job.left \ {r}, 0, got, torn, job.wanted))
       IN \/ /\ \E page \in Pages(Unread(w, r)) :
                   IF Cardinality(page) < PageSize THEN Last(job.got \cup page, job.torn)
                   ELSE WorkAt(w, Paging(job.row, job.left, Max({m.at : m \in page}),
                                         job.got \cup page, job.torn, job.wanted))
             /\ UNCHANGED faults
          \/ Last(job.got, TRUE) /\ Fault
    /\ UNCHANGED <<exports, asking, jobs, stored, uploads, overlapped, orphaned>>

\* The archive replaces the one at the same path.
Upload(w) ==
    /\ worker[w].pc = "upload"
    /\ uploads' = uploads + 1
    /\ stored' = [stored EXCEPT ![worker[w].row] = uploads + 1]
    /\ WorkAt(w, [pc |-> "complete", row |-> worker[w].row, archive |-> uploads + 1])
    /\ UNCHANGED <<exports, asking, jobs, overlapped, orphaned, faults>>

\* The row gets the archive's checksum, and the message is answered.
Complete(w) ==
    /\ worker[w].pc = "complete"
    /\ LET x == worker[w].row IN
       /\ Remains(x)
       /\ exports' = [exports EXCEPT ![x].status = "COMPLETED", ![x].archive = worker[w].archive]
       /\ Acknowledge(x)
    /\ WorkAt(w, Resting)
    /\ UNCHANGED <<asking, stored, uploads, overlapped, orphaned>>

\* An error of any step, or the row of an account that is gone.
WorkFails(w) ==
    /\ worker[w].pc \in {"rooms", "page", "upload", "complete"}
    /\ \/ worker[w].pc = "complete" /\ ~Remains(worker[w].row) /\ UNCHANGED faults
       \/ Fault
    /\ WorkAt(w, [pc |-> "fail", row |-> worker[w].row])
    /\ UNCHANGED <<exports, asking, jobs, stored, uploads, overlapped, orphaned>>

\* The error is written to the row and the message answered; without the row, it throws.
MarkWorkFailed(w) ==
    /\ worker[w].pc = "fail"
    /\ LET x == worker[w].row IN
       IF Remains(x) THEN SetStatus(x, "FAILED") /\ Acknowledge(x)
       ELSE UNCHANGED <<exports, jobs, faults>>
    /\ WorkAt(w, Resting)
    /\ UNCHANGED <<asking, stored, uploads, overlapped, orphaned>>

\* The process stops: the message was not answered.
WorkerStops(w) ==
    /\ worker[w] # Resting
    /\ Fault
    /\ WorkAt(w, Resting)
    /\ UNCHANGED <<exports, asking, jobs, stored, uploads, overlapped, orphaned>>

ExportsNext ==
    \/ \E a \in Askers : \/ \E u \in Accounts : AskExport(a, u)
                         \/ CreateExport(a) \/ PublishJob(a) \/ MarkFailed(a) \/ AskerStops(a)
    \/ \E w \in Workers : \/ \E x \in jobs : TakeJob(w, x)
                          \/ StartProcessing(w) \/ ReadRooms(w) \/ NextPage(w) \/ Upload(w)
                          \/ Complete(w) \/ WorkFails(w) \/ MarkWorkFailed(w) \/ WorkerStops(w)

\* The rows of an account go with it; its archives stay in the bucket.
Cascade(leaving) ==
    /\ exports' = [x \in Exports |-> IF Made(x) /\ exports[x].user \in leaving
                                     THEN [exports[x] EXCEPT !.status = "ERASED"] ELSE exports[x]]
    /\ UNCHANGED <<asking, jobs, worker, stored, uploads, overlapped, orphaned>>

-----------------------------------------------------------------------------
ExportRows == [user : Accounts, status : InProgress \cup {"COMPLETED", "FAILED", "ERASED"}, archive : Nat]
AskCalls   == [pc : {"create"}, user : Accounts] \cup [pc : {"publish", "mark"}, row : Exports]

\* Types of the variables.
ExportsTypeOK ==
    /\ exports \in [Exports -> {NoExport} \cup ExportRows]
    /\ asking \in [Askers -> {Unasked} \cup AskCalls]
    /\ DOMAIN worker = Workers
    /\ \A w \in Workers : worker[w] # Resting =>
          /\ worker[w].pc \in {"start", "rooms", "page", "upload", "complete", "fail"}
          /\ worker[w].row \in Exports
          /\ worker[w].pc = "complete" => worker[w].archive \in Nat
    /\ jobs \cup overlapped \cup orphaned \subseteq Exports
    /\ stored \in [Exports -> Nat] /\ uploads \in Nat

\* A transcript is complete: of the messages there were when the rooms were read, those
\* that still exist are in the archive that is about to be written, unless a page could
\* not be read, but for one that shares its instant with a message that ended a page
\* (exportChatHistory pages by createdAt alone).
TranscriptsComplete ==
    \A w \in Workers : worker[w].pc = "upload" /\ ~worker[w].torn =>
        \A m \in worker[w].wanted \cap message :
            \E n \in worker[w].got : n.room = m.room /\ (n = m \/ n.at = m.at)

\* A row tells the truth: an export in progress, which keeps its user from asking again,
\* has a message that will be delivered or a request at work on it; and a completed one
\* describes the archive that is in the bucket.  Two deliveries at once, and a request
\* that stopped half way, are the exceptions (requestExport, processExport).
ExportRowsTrue ==
    \A x \in Exports \ overlapped :
        /\ exports[x].status \in InProgress =>
              \/ x \in jobs \cup orphaned
              \/ \E a \in Askers : asking[a].pc \in {"publish", "mark"} /\ asking[a].row = x
        /\ exports[x].status = "COMPLETED" => stored[x] = exports[x].archive
=============================================================================
