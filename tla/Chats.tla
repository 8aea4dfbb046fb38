------------------------------- MODULE Chats -------------------------------
(***************************************************************************)
(* Rooms and messages, kept in Supabase without a transaction around them: *)
(* a message is checked, its room is found or created with a key of its    *)
(* own, and the message is encrypted and inserted, one call after the      *)
(* other.  The rooms of an account that ends are deleted by an event.      *)
(***************************************************************************)
EXTENDS AccessTokens

CONSTANTS
    Senders,      \* messages being sent at once
    MaxFaults     \* bound: calls that fail or whose answer is lost, and restarts

ASSUME ChatsAssumption == MaxFaults \in Nat

VARIABLES
    room,         \* ChatRoom, by its two users (a unique index): the number of its key, or 0
    message,      \* Message
    sending,      \* calls of sendMessage in progress
    keys,         \* room keys generated so far
    sent,         \* calls of sendMessage so far
    instant,      \* the latest createdAt of a message
    purging,      \* accounts whose deletion event is under way
    faults,
    purged,       \* history: accounts whose deletion event was handled
    lingering     \* history: couples the event missed, as it failed or a message was on its way

chatVars == <<room, message, sending, keys, sent, instant, purging, faults, purged, lingering>>

Couples == {c \in SUBSET Accounts : Cardinality(c) = 2}
Unsent  == [pc |-> "none"]

ChatsInit ==
    /\ room = [c \in Couples |-> 0]
    /\ message = {}
    /\ sending = [s \in Senders |-> Unsent]
    /\ keys = 0 /\ sent = 0 /\ instant = 1 /\ faults = 0
    /\ purging = {} /\ purged = {} /\ lingering = {}

Fault           == faults < MaxFaults /\ faults' = faults + 1
SendAt(s, call) == sending' = [sending EXCEPT ![s] = call]
Talking(c)      == \E s \in Senders : sending[s] # Unsent /\ sending[s].couple = c

\* Encrypt with one key, insert into one room.
Uses(s, to, key) ==
    SendAt(s, [pc |-> "insert", from |-> sending[s].from, couple |-> sending[s].couple,
               n |-> sending[s].n, room |-> to, key |-> key])

-----------------------------------------------------------------------------
(* sendMessage.                                                            *)

Sends(s, u, c) ==
    /\ sending[s] = Unsent
    /\ u \in c
    /\ sent' = sent + 1
    /\ SendAt(s, [pc |-> "find", from |-> u, couple |-> c, n |-> sent + 1])
    /\ UNCHANGED <<room, message, keys, instant, purging, faults, purged, lingering>>

\* Mutant of StartSend: a match counts although one of the two has left.
StartSendToAnyone(s, u, c) == Sends(s, u, c)

\* validateMessageInvariants: both are active; that they are matched and not blocked is
\* an input.
StartSend(s, u, c) ==
    /\ \A w \in c : user[w] = "active"
    /\ Sends(s, u, c)

\* The room that is there is used with the key it keeps; an error of the read counts as none ...
FindRoom(s) ==
    /\ sending[s].pc = "find"
    /\ LET c == sending[s].couple IN
       \/ room[c] # 0 /\ Uses(s, room[c], room[c]) /\ UNCHANGED faults
       \/ /\ SendAt(s, [sending[s] EXCEPT !.pc = "create"])
          /\ IF room[c] = 0 THEN UNCHANGED faults ELSE Fault
    /\ UNCHANGED <<room, message, keys, sent, instant, purging, purged, lingering>>

\* ... or a new one is inserted with a new key.  An error, be it the unique index or a
\* lost call or answer, is followed by another look.
CreateRoom(s) ==
    /\ sending[s].pc = "create"
    /\ keys' = keys + 1
    /\ LET c == sending[s].couple
           LooksAgain == SendAt(s, [pc |-> "again", from |-> sending[s].from, couple |-> c,
                                    n |-> sending[s].n, key |-> keys + 1])
       IN \/ /\ room[c] = 0
             /\ room' = [room EXCEPT ![c] = keys + 1]
             /\ \/ Uses(s, keys + 1, keys + 1) /\ UNCHANGED faults
                \/ LooksAgain /\ Fault
          \/ /\ \/ room[c] # 0 /\ UNCHANGED faults
                \/ Fault
             /\ LooksAgain
             /\ UNCHANGED room
    /\ UNCHANGED <<message, sent, instant, purging, purged, lingering>>

\* Mutant of FallBack: the key that was generated is used for the room that was found.
FallBackWithOwnKey(s) ==
    /\ sending[s].pc = "again"
    /\ LET c == sending[s].couple IN
       IF room[c] # 0 THEN Uses(s, room[c], sending[s].key) ELSE SendAt(s, Unsent)
    /\ UNCHANGED <<room, message, keys, sent, instant, purging, faults, purged, lingering>>

\* The winner's room and key, or the error.
FallBack(s) ==
    /\ sending[s].pc = "again"
    /\ LET c == sending[s].couple IN
       IF room[c] # 0 THEN Uses(s, room[c], room[c]) ELSE SendAt(s, Unsent)
    /\ UNCHANGED <<room, message, keys, sent, instant, purging, faults, purged, lingering>>

\* The row has the time of its insertion, which may be that of the one before; the
\* foreign key needs the room, and nothing needs the sender.
InsertMessage(s) ==
    /\ sending[s].pc = "insert"
    /\ LET call == sending[s] IN
       IF room[call.couple] = call.room
       THEN \E at \in {instant, instant + 1} :
               /\ instant' = at
               /\ message' = message \cup {[n |-> call.n, room |-> call.room, key |-> call.key,
                                            sender |-> call.from, at |-> at]}
       ELSE UNCHANGED <<instant, message>>
    /\ SendAt(s, Unsent)
    /\ UNCHANGED <<room, keys, sent, purging, faults, purged, lingering>>

\* A call throws, or the process stops.
SendFails(s) ==
    /\ sending[s] # Unsent
    /\ Fault
    /\ SendAt(s, Unsent)
    /\ UNCHANGED <<room, message, keys, sent, instant, purging, purged, lingering>>

\* deleteMessages: the deletion repeats the conditions it has checked.
DeleteMessages(u, c) ==
    /\ room[c] # 0 /\ u \in c /\ MayAct(u)
    /\ \E some \in SUBSET {m \in message : m.room = room[c] /\ m.sender = u} :
          some # {} /\ message' = message \ some
    /\ UNCHANGED <<room, sending, keys, sent, instant, purging, faults, purged, lingering>>

-----------------------------------------------------------------------------
(* The event of a deleted account.                                         *)

\* The event is emitted.  It finds nothing, whenever it comes, for an account that has
\* neither a room nor a message on its way, since none starts any more.
Announce(ended) ==
    LET engaged == {u \in ended : \E c \in Couples : u \in c /\ (room[c] # 0 \/ Talking(c))} IN
    /\ purging' = purging \cup engaged
    /\ purged' = purged \cup (ended \ engaged)
    /\ UNCHANGED <<room, message, sending, keys, sent, instant, faults, lingering>>

\* handleUserDeletedEvent: the rooms go with their messages ...
PurgeRooms(u) ==
    /\ u \in purging
    /\ room' = [c \in Couples |-> IF u \in c THEN 0 ELSE room[c]]
    /\ message' = {m \in message : \E c \in Couples : u \notin c /\ room[c] = m.room}
    /\ purging' = purging \ {u}
    /\ purged' = purged \cup {u}
    /\ lingering' = lingering \cup {c \in Couples : u \in c /\ Talking(c)}
    /\ UNCHANGED <<sending, keys, sent, instant, faults>>

\* ... or an error is logged, and nobody tries again.
PurgeFails(u) ==
    /\ u \in purging
    /\ Fault
    /\ purging' = purging \ {u}
    /\ purged' = purged \cup {u}
    /\ lingering' = lingering \cup {c \in Couples : u \in c}
    /\ UNCHANGED <<room, message, sending, keys, sent, instant>>

ChatsNext ==
    \/ \E s \in Senders :
          \/ \E c \in Couples, u \in Accounts : StartSend(s, u, c)
          \/ FindRoom(s) \/ CreateRoom(s) \/ FallBack(s) \/ InsertMessage(s) \/ SendFails(s)
    \/ \E c \in Couples, u \in Accounts : DeleteMessages(u, c)
    \/ \E u \in Accounts : PurgeRooms(u) \/ PurgeFails(u)

-----------------------------------------------------------------------------
SendCalls == [pc : {"find", "create"}, from : Accounts, couple : Couples, n : Nat]
             \cup [pc : {"again"}, from : Accounts, couple : Couples, n : Nat, key : Nat]
             \cup [pc : {"insert"}, from : Accounts, couple : Couples, n : Nat, room : Nat, key : Nat]

\* Types of the variables.
ChatsTypeOK ==
    /\ room \in [Couples -> Nat]
    /\ message \subseteq [n : Nat, room : Nat, key : Nat, sender : Accounts, at : Nat]
    /\ sending \in [Senders -> {Unsent} \cup SendCalls]
    /\ keys \in Nat /\ sent \in Nat /\ instant \in Nat /\ faults \in Nat
    /\ purging \cup purged \subseteq Accounts /\ lingering \subseteq Couples

\* What Alice writes, Bob can read: every message is encrypted with the key that its
\* room keeps, whichever of the two wrote first and created the room, and it goes when
\* the room goes (getOrCreateRoomWithKey, insertEncryptedMessage).
MessagesReadable ==
    \A m \in message : m.key = m.room /\ \E c \in Couples : room[c] = m.room

\* When the deletion of an account has been handled its conversations are gone, and
\* none comes back, but for the couples of a deletion that failed and those with a
\* message that had been checked before (handleUserDeletedEvent, sendMessage).
ChatsEndWithAccount ==
    \A u \in purged, c \in Couples : u \in c /\ room[c] # 0 => c \in lingering
=============================================================================
