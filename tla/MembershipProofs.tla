-------------------------- MODULE MembershipProofs --------------------------
(***************************************************************************)
(* What the steps of Chats and DataExports preserve, and what the          *)
(* composition of accounts, purchases, chats and exports promises, for     *)
(* every number of accounts, rows, requests, purchases, deliveries,        *)
(* senders, exports and workers.                                           *)
(***************************************************************************)
EXTENDS Membership, AccountsProofs, FiniteSetTheorems, WellFoundedInduction

-----------------------------------------------------------------------------
(* Rooms and messages.                                                     *)

\* A message that is about to be inserted uses a room there was, and the key of it.
Aimed(s)  == sending[s].pc = "insert" => sending[s].room > 0 /\ sending[s].key = sending[s].room

Readable ==
    /\ ChatsTypeOK
    /\ \A s \in Senders : Aimed(s)
    /\ \A m \in message : m.room > 0
    /\ MessagesReadable

\* Deletions concern accounts that have ended, and what they leave are couples without a
\* room and without a message on its way.
Finished ==
    /\ purging \cup purged \subseteq Ended
    /\ \A u \in purged, c \in Couples : u \in c /\ c \notin lingering => room[c] = 0 /\ ~Talking(c)

LEMMA NoCall == Unsent.pc = "none" /\ Unsent \notin SendCalls
BY DEF Unsent, SendCalls

\* What a call of sendMessage consists of.
LEMMA CallFields ==
    ASSUME ChatsTypeOK, NEW s \in Senders, sending[s] # Unsent
    PROVE  /\ sending[s] \in SendCalls
           /\ sending[s].from \in Accounts /\ sending[s].couple \in Couples /\ sending[s].n \in Nat
           /\ sending[s].pc \in {"again", "insert"} => sending[s].key \in Nat
           /\ sending[s].pc = "insert" => sending[s].room \in Nat
<1>1. sending[s] \in SendCalls
  BY DEF ChatsTypeOK
<1> QED
  BY <1>1 DEF SendCalls

\* A sender that takes a step, typed.
LEMMA SendTypes ==
    ASSUME ChatsTypeOK, NEW s \in Senders, NEW call \in {Unsent} \cup SendCalls, SendAt(s, call)
    PROVE  /\ sending' \in [Senders -> {Unsent} \cup SendCalls]
           /\ sending'[s] = call
           /\ \A r \in Senders \ {s} : sending'[r] = sending[r]
BY DEF ChatsTypeOK, SendAt

\* A call that has found its room.
LEMMA UseTypes ==
    ASSUME ChatsTypeOK, NEW s \in Senders, sending[s] # Unsent, NEW to \in Nat, NEW key \in Nat
    PROVE  LET call == [pc |-> "insert", from |-> sending[s].from, couple |-> sending[s].couple,
                        n |-> sending[s].n, room |-> to, key |-> key]
           IN /\ call \in SendCalls /\ call # Unsent
              /\ call.pc = "insert" /\ call.room = to /\ call.key = key
              /\ call.couple = sending[s].couple
<1>1. sending[s].from \in Accounts /\ sending[s].couple \in Couples /\ sending[s].n \in Nat
  BY CallFields
<1> QED
  BY <1>1, NoCall DEF SendCalls

\* The next steps of a call: what becomes of the senders, and that its couple was talking.
Moves(s, call) ==
    /\ sending[s] # Unsent
    /\ SendAt(s, call)
    /\ call \in {Unsent} \cup SendCalls
    /\ call # Unsent => call.couple = sending[s].couple

LEMMA UsesMoves ==
    ASSUME ChatsTypeOK, NEW s \in Senders, sending[s] # Unsent, NEW to \in Nat, NEW key \in Nat,
           Uses(s, to, key)
    PROVE  \E call \in SendCalls : /\ Moves(s, call)
                                   /\ call.pc = "insert" /\ call.room = to /\ call.key = key
BY UseTypes DEF Uses, Moves

\* What a move does to the conversations: nobody starts one.
LEMMA MovesQuiet ==
    ASSUME ChatsTypeOK, NEW s \in Senders, NEW call, Moves(s, call)
    PROVE  \A c \in Couples : Talking(c)' => Talking(c)
BY SendTypes DEF Moves, Talking

\* A move leaves the calls well aimed if its own is.
LEMMA MovesAimed ==
    ASSUME Readable, NEW s \in Senders, NEW call, Moves(s, call),
           call.pc = "insert" => call.room > 0 /\ call.key = call.room
    PROVE  /\ sending' \in [Senders -> {Unsent} \cup SendCalls]
           /\ \A r \in Senders : Aimed(r)'
<1>1. /\ sending' \in [Senders -> {Unsent} \cup SendCalls]
      /\ sending'[s] = call
      /\ \A r \in Senders \ {s} : sending'[r] = sending[r]
  BY SendTypes DEF Moves, Readable
<1> QED
  BY <1>1 DEF Aimed, Readable

\* Each step of a sender after the first, as one of the calls and what it writes.
LEMMA FindRoomMoves ==
    ASSUME ChatsTypeOK, NEW s \in Senders, FindRoom(s)
    PROVE  \E call : /\ Moves(s, call)
                     /\ call.pc = "insert" => call.room > 0 /\ call.key = call.room
<1> DEFINE c == sending[s].couple
<1>1. sending[s] # Unsent /\ sending[s].pc = "find"
  BY NoCall DEF FindRoom
<1>2. c \in Couples /\ room[c] \in Nat
  BY <1>1, CallFields DEF ChatsTypeOK
<1>3. CASE room[c] # 0 /\ Uses(s, room[c], room[c])
  <2> HIDE DEF c
  <2> QED
    BY <1>1, <1>2, <1>3, UsesMoves
<1>4. CASE SendAt(s, [sending[s] EXCEPT !.pc = "create"])
  <2> DEFINE call == [sending[s] EXCEPT !.pc = "create"]
  <2>1. SendAt(s, call)
    BY <1>4
  <2>2. sending[s] \in [pc : {"find", "create"}, from : Accounts, couple : Couples, n : Nat]
    BY <1>1, CallFields DEF SendCalls
  <2>3. /\ call \in [pc : {"find", "create"}, from : Accounts, couple : Couples, n : Nat]
        /\ call.pc = "create" /\ call.couple = sending[s].couple
    BY <2>2
  <2> QED
    BY <1>1, <2>1, <2>3 DEF Moves, SendCalls
<1> QED
  BY <1>3, <1>4 DEF FindRoom

LEMMA FallBackMoves ==
    ASSUME ChatsTypeOK, NEW s \in Senders, FallBack(s)
    PROVE  \E call : /\ Moves(s, call)
                     /\ call.pc = "insert" => call.room > 0 /\ call.key = call.room
<1> DEFINE c == sending[s].couple
<1>1. sending[s] # Unsent /\ sending[s].pc = "again"
  BY NoCall DEF FallBack
<1>2. c \in Couples /\ room[c] \in Nat
  BY <1>1, CallFields DEF ChatsTypeOK
<1>3. CASE room[c] # 0
  <2>1. Uses(s, room[c], room[c])
    BY <1>3 DEF FallBack
  <2> HIDE DEF c
  <2> QED
    BY <1>1, <1>2, <1>3, <2>1, UsesMoves
<1>4. CASE room[c] = 0
  BY <1>1, <1>4, NoCall DEF FallBack, Moves
<1> QED
  BY <1>3, <1>4

LEMMA CreateRoomMoves ==
    ASSUME ChatsTypeOK, NEW s \in Senders, CreateRoom(s)
    PROVE  /\ \E call : /\ Moves(s, call)
                        /\ call.pc = "insert" => call.room > 0 /\ call.key = call.room
           /\ \/ UNCHANGED room
              \/ /\ room[sending[s].couple] = 0
                 /\ room' = [room EXCEPT ![sending[s].couple] = keys + 1]
           /\ keys' = keys + 1 /\ faults' \in Nat
<1> DEFINE c     == sending[s].couple
           again == [pc |-> "again", from |-> sending[s].from, couple |-> c,
                     n |-> sending[s].n, key |-> keys + 1]
<1>1. sending[s] # Unsent /\ keys \in Nat /\ faults \in Nat
  BY NoCall DEF CreateRoom, ChatsTypeOK
<1>2. again \in SendCalls /\ again.pc = "again" /\ again.couple = c
  BY <1>1, CallFields DEF SendCalls
<1>3. Uses(s, keys + 1, keys + 1) \/ SendAt(s, again)
  BY DEF CreateRoom
<1>4. CASE Uses(s, keys + 1, keys + 1)
  <2>1. \E call \in SendCalls : /\ Moves(s, call)
                                /\ call.pc = "insert" /\ call.room = keys + 1 /\ call.key = keys + 1
    BY <1>1, <1>4, UsesMoves
  <2> QED
    BY <1>1, <2>1 DEF CreateRoom, Fault
<1>5. CASE SendAt(s, again)
  <2>1. Moves(s, again)
    BY <1>1, <1>2, <1>5 DEF Moves
  <2> HIDE DEF again
  <2> QED
    BY <1>1, <1>2, <2>1 DEF CreateRoom, Fault
<1> QED
  BY <1>3, <1>4, <1>5

LEMMA EndsMoves ==
    ASSUME NEW s \in Senders, sending[s] # Unsent, SendAt(s, Unsent)
    PROVE  \E call : /\ Moves(s, call)
                     /\ call.pc = "insert" => call.room > 0 /\ call.key = call.room
BY NoCall DEF Moves

\* What a step of chats does to the conversations: one begins between active accounts, a
\* room is made for a couple that talks, or rooms and conversations end.
LEMMA StartSendTalks ==
    ASSUME Readable, NEW s \in Senders, NEW u \in Accounts, NEW c \in Couples, StartSend(s, u, c)
    PROVE  /\ Readable'
           /\ \A w \in c : user[w] = "active"
           /\ \A d \in Couples : Talking(d)' => Talking(d) \/ d = c
<1> DEFINE call == [pc |-> "find", from |-> u, couple |-> c, n |-> sent + 1]
<1>1. SendAt(s, call) /\ sent' = sent + 1
      /\ UNCHANGED <<room, message, keys, instant, purging, faults, purged, lingering>>
  BY DEF StartSend, Sends
<1>2. call \in SendCalls /\ call.pc = "find" /\ call.couple = c
  BY DEF SendCalls, Readable, ChatsTypeOK
<1> HIDE DEF call
<1>3. /\ sending' \in [Senders -> {Unsent} \cup SendCalls]
      /\ sending'[s] = call
      /\ \A r \in Senders \ {s} : sending'[r] = sending[r]
  BY <1>1, <1>2, SendTypes DEF Readable
<1>4. \A r \in Senders : Aimed(r)'
  BY <1>2, <1>3 DEF Aimed, Readable
<1>5. ChatsTypeOK' /\ MessagesReadable'
  BY <1>1, <1>3 DEF Readable, ChatsTypeOK, MessagesReadable
<1>6. \A d \in Couples : Talking(d)' => Talking(d) \/ d = c
  BY <1>2, <1>3 DEF Talking
<1>7. \A w \in c : user[w] = "active"
  BY DEF StartSend
<1> QED
  BY <1>1, <1>4, <1>5, <1>6, <1>7 DEF Readable

\* A step of a call that has begun.
Proceeding(s) == FindRoom(s) \/ CreateRoom(s) \/ FallBack(s) \/ InsertMessage(s) \/ SendFails(s)

LEMMA ProceedingMoves ==
    ASSUME Readable, NEW s \in Senders, Proceeding(s)
    PROVE  /\ sending[s] # Unsent /\ sending[s].couple \in Couples
           /\ \E call : /\ Moves(s, call)
                        /\ call.pc = "insert" => call.room > 0 /\ call.key = call.room
           /\ \/ UNCHANGED room
              \/ /\ room[sending[s].couple] = 0
                 /\ room' = [room EXCEPT ![sending[s].couple] = keys + 1]
           /\ UNCHANGED <<sent, purging, purged, lingering>>
<1>1. sending[s] # Unsent
  BY NoCall DEF Proceeding, FindRoom, CreateRoom, FallBack, InsertMessage, SendFails
<1>2. sending[s].couple \in Couples
  BY <1>1, CallFields DEF Readable
<1>3. UNCHANGED <<sent, purging, purged, lingering>>
  BY DEF Proceeding, FindRoom, CreateRoom, FallBack, InsertMessage, SendFails
<1>4. CASE CreateRoom(s)
  BY <1>1, <1>2, <1>3, <1>4, CreateRoomMoves DEF Readable
<1>5. CASE FindRoom(s) \/ FallBack(s)
  <2>1. UNCHANGED room
    BY <1>5 DEF FindRoom, FallBack
  <2> QED
    BY <1>1, <1>2, <1>3, <1>5, <2>1, FindRoomMoves, FallBackMoves DEF Readable
<1>6. CASE InsertMessage(s) \/ SendFails(s)
  <2>1. UNCHANGED room /\ SendAt(s, Unsent)
    BY <1>6 DEF InsertMessage, SendFails
  <2> QED
    BY <1>1, <1>2, <1>3, <2>1, EndsMoves
<1> QED
  BY <1>4, <1>5, <1>6 DEF Proceeding

\* The message that is inserted: its room is there and has its key.
LEMMA InsertMessageReads ==
    ASSUME Readable, NEW s \in Senders, InsertMessage(s)
    PROVE  /\ instant' \in Nat
           /\ message' \subseteq [n : Nat, room : Nat, key : Nat, sender : Accounts, at : Nat]
           /\ \A m \in message' \ message :
                 m.room > 0 /\ m.key = m.room /\ \E c \in Couples : room[c] = m.room
<1> DEFINE call == sending[s]
<1>1. call # Unsent /\ call.pc = "insert"
  BY NoCall DEF InsertMessage
<1>2. /\ call.from \in Accounts /\ call.couple \in Couples /\ call.n \in Nat
      /\ call.key \in Nat /\ call.room \in Nat
  BY <1>1, CallFields DEF Readable
<1>3. call.room > 0 /\ call.key = call.room
  BY <1>1 DEF Readable, Aimed
<1>4. instant \in Nat
  BY DEF Readable, ChatsTypeOK
<1>5. CASE room[call.couple] = call.room
  <2>1. PICK at \in {instant, instant + 1} :
           /\ instant' = at
           /\ message' = message \cup {[n |-> call.n, room |-> call.room, key |-> call.key,
                                        sender |-> call.from, at |-> at]}
    BY <1>5 DEF InsertMessage
  <2> HIDE DEF call
  <2> QED
    BY <1>2, <1>3, <1>4, <1>5, <2>1 DEF Readable, ChatsTypeOK
<1>6. CASE room[call.couple] # call.room
  BY <1>4, <1>6 DEF InsertMessage, Readable, ChatsTypeOK
<1> QED
  BY <1>5, <1>6

LEMMA ProceedingReadable ==
    ASSUME Readable, NEW s \in Senders, Proceeding(s)
    PROVE  Readable'
<1>1. PICK call : /\ Moves(s, call)
                  /\ call.pc = "insert" => call.room > 0 /\ call.key = call.room
  BY ProceedingMoves
<1>2. /\ sending' \in [Senders -> {Unsent} \cup SendCalls]
      /\ \A r \in Senders : Aimed(r)'
  BY <1>1, MovesAimed
<1>3. /\ keys \in Nat /\ instant \in Nat /\ faults \in Nat /\ sent \in Nat
      /\ room \in [Couples -> Nat]
  BY DEF Readable, ChatsTypeOK
<1>4. keys' \in Nat /\ faults' \in Nat
  BY <1>3 DEF Proceeding, FindRoom, CreateRoom, FallBack, InsertMessage, SendFails, Fault
<1>5. /\ room' \in [Couples -> Nat]
      /\ \A c \in Couples : room[c] > 0 => room'[c] = room[c]
  BY <1>3, ProceedingMoves
<1>6. /\ instant' \in Nat
      /\ message' \subseteq [n : Nat, room : Nat, key : Nat, sender : Accounts, at : Nat]
      /\ \A m \in message' \ message :
            m.room > 0 /\ m.key = m.room /\ \E c \in Couples : room[c] = m.room
  <2>1. CASE InsertMessage(s)
    BY <2>1, InsertMessageReads
  <2>2. CASE ~InsertMessage(s)
    <3>1. UNCHANGED <<message, instant>>
      BY <2>2 DEF Proceeding, FindRoom, CreateRoom, FallBack, SendFails
    <3> QED
      BY <3>1 DEF Readable, ChatsTypeOK
  <2> QED
    BY <2>1, <2>2
<1>7. UNCHANGED <<sent, purging, purged, lingering>>
  BY ProceedingMoves
<1>8. ChatsTypeOK'
  BY <1>2, <1>3, <1>4, <1>5, <1>6, <1>7 DEF Readable, ChatsTypeOK
<1>9. ASSUME NEW m \in message'
      PROVE  m.room > 0 /\ m.key = m.room /\ \E c \in Couples : room'[c] = m.room
  <2>1. m.room > 0 /\ m.key = m.room /\ \E c \in Couples : room[c] = m.room
    BY <1>6 DEF Readable, MessagesReadable
  <2> QED
    BY <1>5, <2>1
<1> QED
  BY <1>2, <1>8, <1>9 DEF Readable, MessagesReadable

\* The rooms of an account go with their messages.
LEMMA PurgeRoomsReadable ==
    ASSUME Readable, NEW u \in Accounts, PurgeRooms(u)
    PROVE  Readable'
<1>1. /\ room' \in [Couples -> Nat]
      /\ \A c \in Couples : u \notin c => room'[c] = room[c]
  BY DEF PurgeRooms, Readable, ChatsTypeOK
<1>2. /\ message' \subseteq message
      /\ \A m \in message' : \E c \in Couples : u \notin c /\ room[c] = m.room
  BY DEF PurgeRooms
<1>3. ChatsTypeOK'
  BY <1>1, <1>2 DEF PurgeRooms, Readable, ChatsTypeOK
<1>4. MessagesReadable'
  BY <1>1, <1>2 DEF Readable, MessagesReadable
<1>5. \A s \in Senders : Aimed(s)'
  BY DEF PurgeRooms, Readable, Aimed
<1> QED
  BY <1>2, <1>3, <1>4, <1>5 DEF Readable

LEMMA ChatsReadable ==
    ASSUME Readable, ChatsNext
    PROVE  Readable'
<1>1. ASSUME NEW s \in Senders, Proceeding(s)
      PROVE  Readable'
  BY <1>1, ProceedingReadable
<1>2. ASSUME NEW u \in Accounts, NEW c \in Couples, DeleteMessages(u, c)
      PROVE  Readable'
  <2>1. message' \subseteq message
        /\ UNCHANGED <<room, sending, keys, sent, instant, purging, faults, purged, lingering>>
    BY <1>2 DEF DeleteMessages
  <2> QED
    BY <2>1 DEF Readable, Aimed, ChatsTypeOK, MessagesReadable
<1>3. ASSUME NEW u \in Accounts, PurgeFails(u)
      PROVE  Readable'
  BY <1>3 DEF PurgeFails, Fault, Readable, Aimed, ChatsTypeOK, MessagesReadable
<1> QED
  BY <1>1, <1>2, <1>3, StartSendTalks, PurgeRoomsReadable DEF ChatsNext, Proceeding

\* Nothing is written as an account ends; and the exports only count the faults.
LEMMA AnnounceReadable ==
    ASSUME Readable, NEW ended \in SUBSET Accounts, Announce(ended)
    PROVE  Readable'
BY DEF Announce, Readable, Aimed, ChatsTypeOK, MessagesReadable

LEMMA ReadableStays ==
    ASSUME Readable, faults' \in Nat,
           UNCHANGED <<room, message, sending, keys, sent, instant, purging, purged, lingering>>
    PROVE  Readable'
BY DEF Readable, Aimed, ChatsTypeOK, MessagesReadable

\* What has ended stays silent, whatever the others write.
LEMMA ChatsFinished ==
    ASSUME Readable, Finished, ChatsNext, user' = user
    PROVE  Finished'
<1>1. Ended' = Ended
  BY DEF Ended
<1>2. \A u \in purged : user[u] # "active"
  BY DEF Finished, Ended
<1>3. ASSUME NEW s \in Senders, NEW u \in Accounts, NEW c \in Couples, StartSend(s, u, c)
      PROVE  Finished'
  <2>1. UNCHANGED <<room, purging, purged, lingering>>
    BY <1>3 DEF StartSend, Sends
  <2>2. /\ \A w \in c : w \notin purged
        /\ \A d \in Couples : Talking(d)' => Talking(d) \/ d = c
    BY <1>2, <1>3, StartSendTalks
  <2> QED
    BY <1>1, <2>1, <2>2 DEF Finished
<1>4. ASSUME NEW s \in Senders, Proceeding(s)
      PROVE  Finished'
  <2>1. /\ sending[s] # Unsent /\ sending[s].couple \in Couples
        /\ \/ UNCHANGED room
           \/ /\ room[sending[s].couple] = 0
              /\ room' = [room EXCEPT ![sending[s].couple] = keys + 1]
        /\ UNCHANGED <<sent, purging, purged, lingering>>
    BY <1>4, ProceedingMoves
  <2>2. Talking(sending[s].couple)
    BY <2>1 DEF Talking
  <2>3. \A c \in Couples : Talking(c)' => Talking(c)
    BY <1>4, ProceedingMoves, MovesQuiet DEF Readable
  <2>4. \A c \in Couples : room'[c] = room[c] \/ Talking(c)
    BY <2>1, <2>2 DEF Readable, ChatsTypeOK
  <2> QED
    BY <1>1, <2>1, <2>3, <2>4 DEF Finished
<1>5. ASSUME NEW u \in Accounts, NEW c \in Couples, DeleteMessages(u, c)
      PROVE  Finished'
  BY <1>1, <1>5 DEF DeleteMessages, Finished, Talking
<1>6. ASSUME NEW u \in Accounts, PurgeRooms(u)
      PROVE  Finished'
  <2>1. /\ u \in purging
        /\ purging' = purging \ {u} /\ purged' = purged \cup {u}
        /\ lingering' = lingering \cup {c \in Couples : u \in c /\ Talking(c)}
        /\ \A c \in Couples : room'[c] = IF u \in c THEN 0 ELSE room[c]
        /\ \A c \in Couples : Talking(c)' <=> Talking(c)
    BY <1>6 DEF PurgeRooms, Talking
  <2> QED
    BY <1>1, <2>1 DEF Finished
<1>7. ASSUME NEW u \in Accounts, PurgeFails(u)
      PROVE  Finished'
  <2>1. /\ u \in purging /\ room' = room
        /\ purging' = purging \ {u} /\ purged' = purged \cup {u}
        /\ lingering' = lingering \cup {c \in Couples : u \in c}
        /\ \A c \in Couples : Talking(c)' <=> Talking(c)
    BY <1>7 DEF PurgeFails, Talking
  <2> QED
    BY <1>1, <2>1 DEF Finished
<1> QED
  BY <1>3, <1>4, <1>5, <1>6, <1>7 DEF ChatsNext, Proceeding

\* The accounts whose end is announced had no conversation, or are being purged.
LEMMA AnnounceFinished ==
    ASSUME Finished, NEW ended \in SUBSET Accounts, Announce(ended), ended \subseteq Ended',
           Ended \subseteq Ended'
    PROVE  Finished'
<1> DEFINE engaged == {u \in ended : \E c \in Couples : u \in c /\ (room[c] # 0 \/ Talking(c))}
<1>1. /\ purging' = purging \cup engaged
      /\ purged' = purged \cup (ended \ engaged)
      /\ UNCHANGED <<room, sending, lingering>>
  BY DEF Announce
<1>2. \A c \in Couples : Talking(c)' <=> Talking(c)
  BY <1>1 DEF Talking
<1>3. \A u \in ended \ engaged, c \in Couples : u \in c => room[c] = 0 /\ ~Talking(c)
  OBVIOUS
<1>4. purging' \cup purged' \subseteq Ended'
  BY <1>1 DEF Finished
<1> HIDE DEF engaged
<1> QED
  BY <1>1, <1>2, <1>3, <1>4 DEF Finished

LEMMA FinishedStays ==
    ASSUME Finished, user' = user, UNCHANGED <<room, sending, purging, purged, lingering>>
    PROVE  Finished'
BY DEF Finished, Talking, Ended

LEMMA ChatsStart ==
    ASSUME ChatsInit
    PROVE  Readable /\ Finished
<1>1. \A s \in Senders : sending[s] = Unsent
  BY DEF ChatsInit
<1>2. ChatsTypeOK
  BY DEF ChatsInit, ChatsTypeOK
<1>3. \A s \in Senders : Aimed(s)
  BY <1>1, NoCall DEF Aimed
<1> QED
  BY <1>2, <1>3 DEF ChatsInit, Readable, Finished, MessagesReadable

-----------------------------------------------------------------------------
(* Exports.                                                                *)

At(w, x)    == worker[w] # Resting /\ worker[w].row = x
Holds(a, x) == asking[a].pc \in {"publish", "mark"} /\ asking[a].row = x

\* A row that one delivery works on at most: it has a message, and is not completed before
\* the archive is the one that was written last.
Tidy(x) ==
    /\ \A v, w \in Workers : At(v, x) /\ At(w, x) => v = w
    /\ \A w \in Workers : At(w, x) =>
          /\ Remains(x) => x \in jobs /\ exports[x].status # "COMPLETED"
          /\ worker[w].pc = "complete" => stored[x] = worker[w].archive
    /\ exports[x].status \in InProgress => x \in jobs \cup orphaned \/ \E a \in Askers : Holds(a, x)
    /\ exports[x].status = "COMPLETED" => stored[x] = exports[x].archive

RowsTidy ==
    /\ ExportsTypeOK
    /\ \A x \in Exports : ~Made(x) =>
          x \notin jobs /\ (\A a \in Askers : ~Holds(a, x)) /\ (\A w \in Workers : ~At(w, x))
    /\ \A x \in Exports \ overlapped : Tidy(x)

LEMMA TidyIsTrue == RowsTidy => ExportRowsTrue
BY DEF RowsTidy, Tidy, ExportRowsTrue, Holds

LEMMA NoRows ==
    /\ NoExport.status = "none" /\ NoExport \notin ExportRows
    /\ Resting.pc = "none" /\ Unasked.pc = "none" /\ Unasked \notin AskCalls
BY DEF NoExport, ExportRows, Resting, Unasked, AskCalls

\* The status of one row changes, typed.
LEMMA StatusSet ==
    ASSUME ExportsTypeOK, NEW x \in Exports, Made(x),
           NEW to \in InProgress \cup {"COMPLETED", "FAILED", "ERASED"}, SetStatus(x, to)
    PROVE  /\ exports' \in [Exports -> {NoExport} \cup ExportRows]
           /\ exports'[x].status = to
           /\ \A y \in Exports \ {x} : exports'[y] = exports[y]
           /\ \A y \in Exports : Made(y)' <=> Made(y)
<1> DEFINE row == [exports[x] EXCEPT !.status = to]
<1>1. exports[x] \in ExportRows
  BY DEF ExportsTypeOK, Made
<1>2. row \in ExportRows /\ row.status = to
  BY <1>1 DEF ExportRows
<1>3. row # NoExport
  BY <1>2, NoRows
<1>4. exports' = [exports EXCEPT ![x] = row]
  BY DEF SetStatus
<1> HIDE DEF row
<1> QED
  BY <1>2, <1>3, <1>4 DEF ExportsTypeOK, Made

\* The types of a call of requestExport and of a delivery in progress.
LEMMA AskerTypes ==
    ASSUME ExportsTypeOK, NEW a \in Askers
    PROVE  /\ asking[a].pc = "create" => asking[a].user \in Accounts
           /\ asking[a].pc \in {"publish", "mark"} => asking[a].row \in Exports
<1>1. asking[a] \in {Unasked} \cup AskCalls
  BY DEF ExportsTypeOK
<1> QED
  BY <1>1, NoRows DEF AskCalls

LEMMA AskTypes ==
    ASSUME ExportsTypeOK, NEW a \in Askers, NEW call \in {Unasked} \cup AskCalls, AskAt(a, call)
    PROVE  /\ asking' \in [Askers -> {Unasked} \cup AskCalls]
           /\ asking'[a] = call
           /\ \A b \in Askers \ {a} : asking'[b] = asking[b]
BY DEF ExportsTypeOK, AskAt

LEMMA WorkSteps ==
    ASSUME ExportsTypeOK, NEW w \in Workers, NEW job, WorkAt(w, job)
    PROVE  /\ DOMAIN worker' = Workers
           /\ worker'[w] = job
           /\ \A v \in Workers \ {w} : worker'[v] = worker[v]
BY DEF ExportsTypeOK, WorkAt

\* The same row in a worker's next step, or none.
GoesOnAt(w) ==
    \E job : /\ WorkAt(w, job) /\ worker[w] # Resting
             /\ \/ job = Resting
                \/ /\ job # Resting /\ job.row = worker[w].row
                   /\ job.pc \in {"rooms", "page", "upload", "complete", "fail"}
                   /\ job.pc = "complete" => job.archive = uploads' /\ uploads' \in Nat

LEMMA WorkTypes ==
    ASSUME ExportsTypeOK, NEW w \in Workers, GoesOnAt(w)
    PROVE  /\ DOMAIN worker' = Workers
           /\ \A v \in Workers : worker'[v] # Resting =>
                 /\ worker'[v].pc \in {"start", "rooms", "page", "upload", "complete", "fail"}
                 /\ worker'[v].row \in Exports
                 /\ worker'[v].pc = "complete" => worker'[v].archive \in Nat
           /\ \A v \in Workers, x \in Exports : At(v, x)' => At(v, x)
BY WorkSteps DEF GoesOnAt, ExportsTypeOK, At

\* Requests for an export.
LEMMA AskersKeepRows ==
    ASSUME RowsTidy, NEW a \in Askers,
           \/ \E u \in Accounts : AskExport(a, u)
           \/ CreateExport(a) \/ PublishJob(a) \/ MarkFailed(a) \/ AskerStops(a)
    PROVE  RowsTidy'
<1> USE DEF RowsTidy
<1>1. CASE \E u \in Accounts : AskExport(a, u)
  <2>1. PICK u \in Accounts : AskExport(a, u)
    BY <1>1
  <2> DEFINE call == [pc |-> "create", user |-> u]
  <2>2. call \in AskCalls /\ call.pc = "create"
    BY DEF AskCalls
  <2>3. /\ AskAt(a, call) /\ asking[a] = Unasked
        /\ UNCHANGED <<exports, jobs, worker, stored, uploads, overlapped, orphaned>>
    BY <2>1 DEF AskExport
  <2> HIDE DEF call
  <2>4. /\ asking' \in [Askers -> {Unasked} \cup AskCalls]
        /\ \A b \in Askers, x \in Exports : Holds(b, x)' <=> Holds(b, x)
    BY <2>2, <2>3, AskTypes, NoRows DEF Holds
  <2>5. ExportsTypeOK'
    BY <2>3, <2>4 DEF ExportsTypeOK
  <2> QED
    BY <2>3, <2>4, <2>5 DEF Tidy, At, Made, Remains
<1>2. CASE CreateExport(a)
  <2>1. asking[a].pc = "create" /\ asking[a].user \in Accounts
        /\ UNCHANGED <<jobs, worker, stored, uploads, overlapped, orphaned, faults>>
    BY <1>2, AskerTypes DEF CreateExport
  <2>2. CASE AskAt(a, Unasked) /\ UNCHANGED exports
    <3>1. /\ asking' \in [Askers -> {Unasked} \cup AskCalls]
          /\ \A b \in Askers, x \in Exports : Holds(b, x)' <=> Holds(b, x)
      BY <2>1, <2>2, AskTypes, NoRows DEF Holds
    <3>2. ExportsTypeOK'
      BY <2>1, <2>2, <3>1 DEF ExportsTypeOK
    <3> QED
      BY <2>1, <2>2, <3>1, <3>2 DEF Tidy, At, Made, Remains
  <2>3. CASE ~(AskAt(a, Unasked) /\ UNCHANGED exports)
    <3> DEFINE row  == [user |-> asking[a].user, status |-> "PENDING", archive |-> 0]
               call(x) == [pc |-> "publish", row |-> x]
    <3>1. PICK x \in Exports : ~Made(x) /\ exports' = [exports EXCEPT ![x] = row] /\ AskAt(a, call(x))
      BY <1>2, <2>3 DEF CreateExport
    <3>2. row \in ExportRows /\ row.status = "PENDING"
      BY <2>1 DEF ExportRows, InProgress
    <3>3. call(x) \in AskCalls /\ call(x).pc = "publish" /\ call(x).row = x
      BY DEF AskCalls
    <3> HIDE DEF row, call
    <3>4. /\ asking' \in [Askers -> {Unasked} \cup AskCalls]
          /\ Holds(a, x)'
          /\ \A b \in Askers, y \in Exports \ {x} : Holds(b, y)' <=> Holds(b, y)
      BY <2>1, <3>1, <3>3, AskTypes DEF Holds
    <3>5. /\ exports' \in [Exports -> {NoExport} \cup ExportRows]
          /\ exports'[x] = row /\ \A y \in Exports \ {x} : exports'[y] = exports[y]
      BY <3>1, <3>2 DEF ExportsTypeOK
    <3>6. ExportsTypeOK'
      BY <2>1, <3>4, <3>5 DEF ExportsTypeOK
    <3>7. Made(x)' /\ \A y \in Exports \ {x} : Made(y)' <=> Made(y)
      BY <3>2, <3>5, NoRows DEF Made
    <3>8. \A w \in Workers : ~At(w, x)'
      BY <2>1, <3>1 DEF At
    <3>9. Tidy(x)'
      BY <3>2, <3>4, <3>5, <3>8 DEF Tidy
    <3>10. \A y \in Exports \ {x} : Tidy(y) => Tidy(y)'
      BY <2>1, <3>4, <3>5 DEF Tidy, At, Remains
    <3>11. \A y \in Exports \ {x} : ~Made(y)' =>
              y \notin jobs' /\ (\A b \in Askers : ~Holds(b, y)') /\ (\A w \in Workers : ~At(w, y)')
      BY <2>1, <3>4, <3>7 DEF At
    <3> QED
      BY <2>1, <3>6, <3>7, <3>9, <3>10, <3>11
  <2> QED
    BY <2>2, <2>3
<1>3. CASE PublishJob(a)
  <2>1. PICK x \in Exports :
           /\ x = asking[a].row /\ asking[a].pc = "publish" /\ Holds(a, x)
           /\ UNCHANGED <<exports, worker, stored, uploads, overlapped, orphaned>>
    BY <1>3, AskerTypes DEF PublishJob, Holds
  <2>2. Made(x)
    BY <2>1
  <2> DEFINE call == [asking[a] EXCEPT !.pc = "mark"]
  <2>3. call \in AskCalls /\ call.pc = "mark" /\ call.row = x
    <3>1. asking[a] \in [pc : {"publish", "mark"}, row : Exports]
      BY <2>1, NoRows DEF ExportsTypeOK, AskCalls
    <3> QED
      BY <2>1, <3>1 DEF AskCalls
  <2>4. /\ jobs \subseteq jobs' /\ jobs' \subseteq jobs \cup {x}
        /\ \/ x \in jobs' /\ AskAt(a, Unasked)
           \/ AskAt(a, call)
    BY <1>3, <2>1 DEF PublishJob
  <2> HIDE DEF call
  <2>5. /\ asking' \in [Askers -> {Unasked} \cup AskCalls]
        /\ Holds(a, x)' \/ x \in jobs'
        /\ \A b \in Askers, y \in Exports : Holds(b, y)' => Holds(b, y)
        /\ \A b \in Askers, y \in Exports \ {x} : Holds(b, y)' <=> Holds(b, y)
    BY <2>1, <2>3, <2>4, AskTypes, NoRows DEF Holds
  <2>6. ExportsTypeOK'
    BY <2>1, <2>4, <2>5 DEF ExportsTypeOK
  <2>7. \A y \in Exports : Tidy(y) => Tidy(y)'
    BY <2>1, <2>4, <2>5 DEF Tidy, At, Remains
  <2>8. \A y \in Exports : ~Made(y)' =>
           y \notin jobs' /\ (\A b \in Askers : ~Holds(b, y)') /\ (\A w \in Workers : ~At(w, y)')
    BY <2>1, <2>2, <2>4, <2>5 DEF Made, At
  <2> QED
    BY <2>1, <2>6, <2>7, <2>8
<1>4. CASE MarkFailed(a)
  <2>1. PICK x \in Exports :
           /\ x = asking[a].row /\ Holds(a, x) /\ AskAt(a, Unasked)
           /\ UNCHANGED <<jobs, worker, stored, uploads, overlapped, orphaned>>
    BY <1>4, AskerTypes DEF MarkFailed, Holds
  <2>2. Made(x)
    BY <2>1
  <2>3. \/ Remains(x) /\ SetStatus(x, "FAILED")
        \/ ~Remains(x) /\ UNCHANGED exports
    BY <1>4, <2>1 DEF MarkFailed
  <2>4. /\ asking' \in [Askers -> {Unasked} \cup AskCalls]
        /\ \A b \in Askers, y \in Exports : Holds(b, y)' => Holds(b, y)
        /\ \A b \in Askers, y \in Exports \ {x} : Holds(b, y)' <=> Holds(b, y)
    BY <2>1, AskTypes, NoRows DEF Holds
  <2>5. /\ exports' \in [Exports -> {NoExport} \cup ExportRows]
        /\ exports'[x].status \in {"FAILED", "ERASED"}
        /\ Remains(x)' => Remains(x)
        /\ \A y \in Exports \ {x} : exports'[y] = exports[y]
        /\ \A y \in Exports : Made(y)' <=> Made(y)
    <3>1. CASE Remains(x) /\ SetStatus(x, "FAILED")
      BY <2>1, <2>2, <3>1, StatusSet DEF Remains
    <3>2. CASE ~Remains(x) /\ UNCHANGED exports
      BY <3>2 DEF Remains, Made, ExportsTypeOK
    <3> QED
      BY <2>3, <3>1, <3>2
  <2>6. ExportsTypeOK'
    BY <2>1, <2>4, <2>5 DEF ExportsTypeOK
  <2>7. Tidy(x) => Tidy(x)'
    BY <2>1, <2>5 DEF Tidy, At, InProgress
  <2>8. \A y \in Exports \ {x} : Tidy(y) => Tidy(y)'
    BY <2>1, <2>4, <2>5 DEF Tidy, At, Remains
  <2>9. \A y \in Exports : ~Made(y)' =>
           y \notin jobs' /\ (\A b \in Askers : ~Holds(b, y)') /\ (\A w \in Workers : ~At(w, y)')
    BY <2>1, <2>4, <2>5 DEF At
  <2> QED
    BY <2>1, <2>6, <2>7, <2>8, <2>9
<1>5. CASE AskerStops(a)
  <2>1. PICK x \in Exports :
           /\ Holds(a, x) /\ AskAt(a, Unasked) /\ orphaned' = orphaned \cup {x}
           /\ UNCHANGED <<exports, jobs, worker, stored, uploads, overlapped>>
    BY <1>5, AskerTypes DEF AskerStops, Holds
  <2>2. /\ asking' \in [Askers -> {Unasked} \cup AskCalls]
        /\ \A b \in Askers, y \in Exports : Holds(b, y)' => Holds(b, y)
        /\ \A b \in Askers, y \in Exports \ {x} : Holds(b, y)' <=> Holds(b, y)
    BY <2>1, AskTypes, NoRows DEF Holds
  <2>3. ExportsTypeOK'
    BY <2>1, <2>2 DEF ExportsTypeOK
  <2>4. \A y \in Exports : Tidy(y) => Tidy(y)'
    BY <2>1, <2>2 DEF Tidy, At, Remains
  <2> QED
    BY <2>1, <2>2, <2>3, <2>4 DEF Made, At
<1> QED
  BY <1>1, <1>2, <1>3, <1>4, <1>5

\* A delivery at work on its row, or one that stops, touches no row and no message.
LEMMA WorkKeepsRows ==
    ASSUME RowsTidy, NEW w \in Workers, NEW job, WorkAt(w, job), worker[w] # Resting,
           \/ job = Resting
           \/ /\ job # Resting /\ job.row = worker[w].row
              /\ job.pc \in {"rooms", "page", "upload", "fail"},
           UNCHANGED <<exports, asking, jobs, stored, uploads, overlapped, orphaned>>
    PROVE  RowsTidy'
<1> USE DEF RowsTidy
<1>1. /\ DOMAIN worker' = Workers /\ worker'[w] = job
      /\ \A v \in Workers \ {w} : worker'[v] = worker[v]
  BY WorkSteps
<1>2. ExportsTypeOK'
  BY <1>1 DEF ExportsTypeOK
<1>3. \A v \in Workers, y \in Exports :
         /\ At(v, y)' => At(v, y)
         /\ At(v, y)' /\ worker'[v].pc = "complete" => worker'[v] = worker[v]
  BY <1>1, NoRows DEF At
<1>4. \A y \in Exports : Tidy(y) => Tidy(y)'
  BY <1>3 DEF Tidy, Remains, Holds
<1> QED
  BY <1>2, <1>3, <1>4 DEF Made, Holds

\* A row's status changes as the delivery that works on it says, and its message is kept or,
\* once the delivery is over, taken away.
LEMMA WorkSetsRow ==
    ASSUME RowsTidy, NEW w \in Workers, NEW job, NEW x \in Exports, At(w, x), Remains(x),
           WorkAt(w, job), NEW to \in {"PROCESSING", "COMPLETED", "FAILED"},
           exports' \in [Exports -> {NoExport} \cup ExportRows],
           exports'[x].status = to,
           \A y \in Exports \ {x} : exports'[y] = exports[y],
           to = "COMPLETED" => exports'[x].archive = stored[x] \/ x \in overlapped,
           \/ job = Resting /\ to # "PROCESSING" /\ jobs' \in {jobs, jobs \ {x}}
           \/ job # Resting /\ job.row = x /\ job.pc = "rooms" /\ to = "PROCESSING" /\ jobs' = jobs,
           UNCHANGED <<asking, stored, uploads, overlapped, orphaned>>
    PROVE  RowsTidy'
<1> USE DEF RowsTidy
<1>1. /\ DOMAIN worker' = Workers /\ worker'[w] = job
      /\ \A v \in Workers \ {w} : worker'[v] = worker[v]
  BY WorkSteps
<1>2. ExportsTypeOK'
  BY <1>1 DEF ExportsTypeOK
<1>3. \A v \in Workers, y \in Exports :
         /\ At(v, y)' => At(v, y)
         /\ y # x /\ At(v, y)' => v # w
  BY <1>1, NoRows DEF At
<1>4. Made(x) /\ \A y \in Exports \ {x} : Made(y)' <=> Made(y)
  BY DEF Made
<1>5. \A y \in Exports \ {x} : Tidy(y) => Tidy(y)'
  BY <1>1, <1>3 DEF Tidy, Remains, Holds
<1>6. ASSUME x \notin overlapped
      PROVE  Tidy(x)'
  <2>1. Tidy(x)
    BY <1>6
  <2>2. \A v \in Workers : At(v, x)' => v = w /\ job # Resting
    BY <1>1, <1>3, <2>1 DEF Tidy, At
  <2>3. x \in jobs
    BY <2>1 DEF Tidy
  <2> QED
    BY <1>1, <1>6, <2>2, <2>3 DEF Tidy, Remains, InProgress
<1>7. Made(x)'
  BY NoRows DEF Made
<1> QED
  BY <1>2, <1>3, <1>4, <1>5, <1>6, <1>7 DEF Holds

\* Deliveries of the messages.
LEMMA WorkersKeepRows ==
    ASSUME RowsTidy, NEW w \in Workers,
           \/ \E x \in jobs : TakeJob(w, x)
           \/ StartProcessing(w) \/ ReadRooms(w) \/ NextPage(w) \/ Upload(w)
           \/ Complete(w) \/ WorkFails(w) \/ MarkWorkFailed(w) \/ WorkerStops(w)
    PROVE  RowsTidy'
<1>1. ASSUME NEW x \in jobs, TakeJob(w, x)
      PROVE  RowsTidy'
  <2> USE DEF RowsTidy
  <2>1. /\ x \in Exports /\ Made(x) /\ worker[w] = Resting
        /\ UNCHANGED <<exports, asking, stored, uploads, orphaned>>
    BY <1>1 DEF TakeJob, ExportsTypeOK
  <2>2. CASE ~Remains(x) \/ exports[x].status = "COMPLETED"
    <3>1. /\ UNCHANGED <<worker, overlapped>>
          /\ jobs' = jobs \/ jobs' = jobs \ {x}
      BY <1>1, <2>2 DEF TakeJob, Acknowledge
    <3>2. ExportsTypeOK'
      BY <2>1, <3>1 DEF ExportsTypeOK
    <3>3. \A y \in Exports \ {x} : Tidy(y) => Tidy(y)'
      BY <2>1, <3>1 DEF Tidy, Remains, Holds, At
    <3>4. exports[x].status \notin InProgress
      BY <2>2 DEF InProgress, Remains
    <3>5. Tidy(x) => Tidy(x)'
      BY <2>1, <2>2, <3>1, <3>4 DEF Tidy, Remains, At
    <3> QED
      BY <2>1, <3>1, <3>2, <3>3, <3>5 DEF Made, Holds, At
  <2>3. CASE ~(~Remains(x) \/ exports[x].status = "COMPLETED")
    <3> DEFINE job == [pc |-> "start", row |-> x]
    <3>1. /\ WorkAt(w, job) /\ jobs' = jobs /\ overlapped \subseteq overlapped'
          /\ overlapped' \subseteq Exports
          /\ x \notin overlapped' => \A v \in Workers : ~At(v, x)
      BY <1>1, <2>1, <2>3 DEF TakeJob, At, ExportsTypeOK
    <3>2. job.pc = "start" /\ job.row = x /\ job # Resting
      BY DEF Resting
    <3> HIDE DEF job
    <3>3. /\ DOMAIN worker' = Workers /\ worker'[w] = job
          /\ \A v \in Workers \ {w} : worker'[v] = worker[v]
      BY <3>1, WorkSteps
    <3>4. ExportsTypeOK'
      BY <2>1, <3>1, <3>2, <3>3 DEF ExportsTypeOK
    <3>5. /\ \A v \in Workers, y \in Exports \ {x} : At(v, y)' <=> At(v, y)
          /\ \A v \in Workers \ {w} : At(v, x)' <=> At(v, x)
      BY <2>1, <3>2, <3>3 DEF At
    <3>6. \A y \in Exports \ {x} : Tidy(y) => Tidy(y)'
      BY <2>1, <3>1, <3>2, <3>3, <3>5 DEF Tidy, Remains, Holds, At
    <3>7. ASSUME x \notin overlapped'
          PROVE  Tidy(x)'
      <4>1. Tidy(x) /\ \A v \in Workers : At(v, x)' => v = w
        BY <2>1, <3>1, <3>5, <3>7
      <4> QED
        BY <1>1, <2>1, <2>3, <3>1, <3>2, <3>3, <4>1 DEF Tidy, Remains, Holds
    <3> QED
      BY <2>1, <3>1, <3>4, <3>5, <3>6, <3>7 DEF Made, Holds
  <2> QED
    BY <2>2, <2>3
<1>2. ASSUME NEW x \in Exports, At(w, x)
      PROVE  Made(x)
  BY <1>2 DEF RowsTidy
<1>3. worker[w] # Resting => At(w, worker[w].row) /\ worker[w].row \in Exports
  BY DEF RowsTidy, ExportsTypeOK, At
<1>4. CASE StartProcessing(w)
  <2>1. PICK x \in Exports : /\ x = worker[w].row /\ worker[w].pc = "start" /\ At(w, x) /\ Made(x)
                             /\ UNCHANGED <<asking, jobs, stored, uploads, overlapped, orphaned>>
    BY <1>2, <1>3, <1>4, NoRows DEF StartProcessing
  <2>2. CASE Remains(x)
    <3> DEFINE job == [pc |-> "rooms", row |-> x]
    <3>1. SetStatus(x, "PROCESSING") /\ WorkAt(w, job)
      BY <1>4, <2>1, <2>2 DEF StartProcessing
    <3>2. job.pc = "rooms" /\ job.row = x /\ job # Resting
      BY DEF Resting
    <3>3. "PROCESSING" \in InProgress
      BY DEF InProgress
    <3> HIDE DEF job
    <3>4. /\ exports' \in [Exports -> {NoExport} \cup ExportRows]
          /\ exports'[x].status = "PROCESSING"
          /\ \A y \in Exports \ {x} : exports'[y] = exports[y]
      BY <2>1, <3>1, <3>3, StatusSet DEF RowsTidy
    <3> QED
      BY <2>1, <2>2, <3>1, <3>2, <3>4, WorkSetsRow
  <2>3. CASE ~Remains(x)
    <3>1. WorkAt(w, Resting) /\ UNCHANGED exports
      BY <1>4, <2>1, <2>3 DEF StartProcessing
    <3> QED
      BY <2>1, <3>1, WorkKeepsRows, NoRows
  <2> QED
    BY <2>2, <2>3
<1>5. CASE ReadRooms(w)
  <2>1. PICK job : /\ WorkAt(w, job) /\ job.pc \in {"page", "upload"} /\ job.row = worker[w].row
                   /\ worker[w].pc = "rooms"
                   /\ UNCHANGED <<exports, asking, jobs, stored, uploads, overlapped, orphaned>>
    BY <1>5 DEF ReadRooms, Paging
  <2> QED
    BY <2>1, WorkKeepsRows, NoRows
<1>6. CASE NextPage(w)
  <2>1. PICK job : /\ WorkAt(w, job) /\ job.pc \in {"page", "upload"} /\ job.row = worker[w].row
                   /\ worker[w].pc = "page"
                   /\ UNCHANGED <<exports, asking, jobs, stored, uploads, overlapped, orphaned>>
    BY <1>6 DEF NextPage, Paging
  <2> QED
    BY <2>1, WorkKeepsRows, NoRows
<1>8. CASE Complete(w)
  <2>1. PICK x \in Exports :
           /\ x = worker[w].row /\ worker[w].pc = "complete" /\ At(w, x) /\ Made(x) /\ Remains(x)
           /\ exports' = [exports EXCEPT ![x].status = "COMPLETED", ![x].archive = worker[w].archive]
           /\ jobs' \in {jobs, jobs \ {x}} /\ WorkAt(w, Resting)
           /\ UNCHANGED <<asking, stored, uploads, overlapped, orphaned>>
    BY <1>2, <1>3, <1>8, NoRows DEF Complete, Acknowledge
  <2> DEFINE row == [exports[x] EXCEPT !.status = "COMPLETED", !.archive = worker[w].archive]
  <2>2. exports' = [exports EXCEPT ![x] = row]
    BY <2>1
  <2>3. exports[x] \in ExportRows /\ worker[w].archive \in Nat
    BY <2>1, NoRows DEF RowsTidy, ExportsTypeOK, Made
  <2>4. row \in ExportRows /\ row.status = "COMPLETED" /\ row.archive = worker[w].archive
    BY <2>3 DEF ExportRows
  <2> HIDE DEF row
  <2>5. /\ exports' \in [Exports -> {NoExport} \cup ExportRows]
        /\ exports'[x].status = "COMPLETED" /\ exports'[x].archive = worker[w].archive
        /\ \A y \in Exports \ {x} : exports'[y] = exports[y]
    <3>1. exports \in [Exports -> {NoExport} \cup ExportRows]
      BY DEF RowsTidy, ExportsTypeOK
    <3>2. exports'[x] = row /\ \A y \in Exports \ {x} : exports'[y] = exports[y]
      BY <2>2, <3>1
    <3>3. exports' \in [Exports -> {NoExport} \cup ExportRows]
      BY <2>2, <2>4, <3>1
    <3> QED
      BY <2>4, <3>2, <3>3
  <2>6. exports'[x].archive = stored[x] \/ x \in overlapped
    BY <2>1, <2>5 DEF RowsTidy, Tidy
  <2>7. PICK to \in {"PROCESSING", "COMPLETED", "FAILED"} : to = "COMPLETED"
    OBVIOUS
  <2>8. PICK job : job = Resting
    OBVIOUS
  <2>9. /\ exports'[x].status = to /\ WorkAt(w, job)
        /\ to = "COMPLETED" => exports'[x].archive = stored[x] \/ x \in overlapped
        /\ job = Resting /\ to # "PROCESSING" /\ jobs' \in {jobs, jobs \ {x}}
    BY <2>1, <2>5, <2>6, <2>7, <2>8
  <2> QED
    BY <2>1, <2>5, <2>9, WorkSetsRow
<1>9. CASE WorkFails(w)
  <2> DEFINE job == [pc |-> "fail", row |-> worker[w].row]
  <2>1. /\ WorkAt(w, job) /\ worker[w].pc \in {"rooms", "page", "upload", "complete"}
        /\ UNCHANGED <<exports, asking, jobs, stored, uploads, overlapped, orphaned>>
    BY <1>9 DEF WorkFails
  <2>2. job.pc = "fail" /\ job.row = worker[w].row /\ job # Resting
    BY DEF Resting
  <2> HIDE DEF job
  <2> QED
    BY <2>1, <2>2, WorkKeepsRows, NoRows
<1>10. CASE MarkWorkFailed(w)
  <2>1. PICK x \in Exports :
           /\ x = worker[w].row /\ worker[w].pc = "fail" /\ At(w, x) /\ Made(x)
           /\ WorkAt(w, Resting)
           /\ UNCHANGED <<asking, stored, uploads, overlapped, orphaned>>
    BY <1>2, <1>3, <1>10, NoRows DEF MarkWorkFailed
  <2>2. CASE Remains(x)
    <3>1. SetStatus(x, "FAILED") /\ jobs' \in {jobs, jobs \ {x}}
      BY <1>10, <2>1, <2>2 DEF MarkWorkFailed, Acknowledge
    <3>2. /\ exports' \in [Exports -> {NoExport} \cup ExportRows]
          /\ exports'[x].status = "FAILED"
          /\ \A y \in Exports \ {x} : exports'[y] = exports[y]
      BY <2>1, <3>1, StatusSet DEF RowsTidy
    <3> QED
      BY <2>1, <2>2, <3>1, <3>2, WorkSetsRow
  <2>3. CASE ~Remains(x)
    <3>1. UNCHANGED <<exports, jobs>>
      BY <1>10, <2>1, <2>3 DEF MarkWorkFailed
    <3> QED
      BY <2>1, <3>1, WorkKeepsRows, NoRows
  <2> QED
    BY <2>2, <2>3
<1>11. CASE WorkerStops(w)
  BY <1>11, WorkKeepsRows DEF WorkerStops
<1>7. CASE Upload(w)
  <2> USE DEF RowsTidy
  <2>1. PICK x \in Exports :
           /\ x = worker[w].row /\ worker[w].pc = "upload" /\ At(w, x) /\ Made(x)
           /\ uploads' = uploads + 1 /\ stored' = [stored EXCEPT ![x] = uploads + 1]
           /\ UNCHANGED <<exports, asking, jobs, overlapped, orphaned>>
    BY <1>2, <1>3, <1>7, NoRows DEF Upload
  <2> DEFINE job == [pc |-> "complete", row |-> x, archive |-> uploads + 1]
  <2>2. WorkAt(w, job)
    BY <1>7, <2>1 DEF Upload
  <2>3. job.pc = "complete" /\ job.row = x /\ job.archive = uploads + 1 /\ job # Resting
    BY DEF Resting
  <2> HIDE DEF job
  <2>4. /\ DOMAIN worker' = Workers /\ worker'[w] = job
        /\ \A v \in Workers \ {w} : worker'[v] = worker[v]
    BY <2>2, WorkSteps
  <2>5. /\ uploads' \in Nat /\ stored' \in [Exports -> Nat]
        /\ stored'[x] = uploads + 1
        /\ \A y \in Exports \ {x} : stored'[y] = stored[y]
    BY <2>1 DEF ExportsTypeOK
  <2>6. ExportsTypeOK'
    BY <2>1, <2>3, <2>4, <2>5 DEF ExportsTypeOK
  <2>7. \A v \in Workers, y \in Exports : At(v, y)' <=> At(v, y)
    BY <2>1, <2>3, <2>4 DEF At
  <2>8. \A y \in Exports \ {x} : Tidy(y) => Tidy(y)'
    BY <2>1, <2>4, <2>5, <2>7 DEF Tidy, Remains, Holds, At
  <2>9. Tidy(x) => Tidy(x)'
    <3>1. Tidy(x) => \A v \in Workers : At(v, x)' => v = w
      BY <2>1, <2>7 DEF Tidy
    <3>2. Tidy(x) => exports[x].status # "COMPLETED"
      BY <2>1 DEF Tidy, Remains
    <3> QED
      BY <2>1, <2>3, <2>4, <2>5, <2>7, <3>1, <3>2 DEF Tidy, Remains, Holds
  <2> QED
    BY <2>1, <2>6, <2>7, <2>8, <2>9 DEF Made, Holds
<1> QED
  BY <1>1, <1>4, <1>5, <1>6, <1>7, <1>8, <1>9, <1>10, <1>11

LEMMA ExportsKeepRows == RowsTidy /\ ExportsNext => RowsTidy'
BY AskersKeepRows, WorkersKeepRows DEF ExportsNext

\* The rows of accounts that go.
LEMMA CascadeKeepsRows ==
    ASSUME RowsTidy, NEW leaving, Cascade(leaving)
    PROVE  RowsTidy'
<1> USE DEF RowsTidy
<1>1. UNCHANGED <<asking, jobs, worker, stored, uploads, overlapped, orphaned>>
  BY DEF Cascade
<1>2. ASSUME NEW x \in Exports
      PROVE  /\ exports'[x] \in {NoExport} \cup ExportRows
             /\ Made(x)' <=> Made(x)
             /\ \/ exports'[x] = exports[x]
                \/ exports'[x].status = "ERASED"
  <2> DEFINE row == [exports[x] EXCEPT !.status = "ERASED"]
  <2>1. exports'[x] = exports[x] \/ (Made(x) /\ exports'[x] = row)
    BY DEF Cascade
  <2>2. Made(x) => row \in ExportRows /\ row.status = "ERASED"
    BY DEF Made, ExportsTypeOK, ExportRows
  <2>3. exports[x] \in {NoExport} \cup ExportRows
    BY DEF ExportsTypeOK
  <2> HIDE DEF row
  <2> QED
    BY <2>1, <2>2, <2>3, NoRows DEF Made
<1>3. ExportsTypeOK'
  BY <1>1, <1>2 DEF ExportsTypeOK, Cascade
<1>4. \A x \in Exports : Tidy(x) => Tidy(x)'
  BY <1>1, <1>2 DEF Tidy, Remains, Holds, At, InProgress
<1> QED
  BY <1>1, <1>2, <1>3, <1>4 DEF Holds, At

LEMMA RowsStay == RowsTidy /\ UNCHANGED exportVars => RowsTidy'
BY DEF RowsTidy, exportVars, ExportsTypeOK, Tidy, Made, Remains, Holds, At

LEMMA RowsStart == ExportsInit => RowsTidy
<1> SUFFICES ASSUME ExportsInit PROVE RowsTidy
  OBVIOUS
<1>1. /\ \A x \in Exports : exports[x] = NoExport /\ stored[x] = 0
      /\ \A a \in Askers : asking[a] = Unasked
      /\ \A w \in Workers : worker[w] = Resting
      /\ jobs = {} /\ overlapped = {} /\ orphaned = {} /\ uploads = 0
  BY DEF ExportsInit
<1>2. ExportsTypeOK
  BY <1>1 DEF ExportsInit, ExportsTypeOK
<1>3. \A x \in Exports, a \in Askers : ~Holds(a, x)
  BY <1>1, NoRows DEF Holds
<1>4. \A x \in Exports, w \in Workers : ~At(w, x)
  BY <1>1 DEF At
<1>5. \A x \in Exports : exports[x].status = "none"
  BY <1>1, NoRows
<1> QED
  BY <1>1, <1>2, <1>3, <1>4, <1>5 DEF RowsTidy, Tidy, Made, InProgress

-----------------------------------------------------------------------------
(* The composition.                                                        *)

\* A step is one of the accounts, with what hangs on them, or of one of the others.
LEMMA NextSteps ==
    ASSUME Next
    PROVE  /\ \/ AccountsNext /\ Detach(Leaving) /\ Announce(TornDown) /\ Cascade(Leaving)
              \/ PurchasesNext /\ UNCHANGED <<accessVars, accountVars, chatVars, exportVars>>
              \/ ChatsNext /\ UNCHANGED <<accessVars, accountVars, purchaseVars, exportVars>>
              \/ /\ ExportsNext
                 /\ UNCHANGED <<accessVars, accountVars, purchaseVars>>
                 /\ UNCHANGED <<room, message, sending, keys, sent, instant, purging, purged,
                               lingering>>
           /\ checks' = checks \/ checks' = checks + 1
BY DEF Next, AccountsNext

-----------------------------------------------------------------------------
(* Purchases.                                                              *)

PurchaseRows == [status : {"PENDING", "COMPLETED"}, user : Accounts \cup {Unattributed}]
Handlings    == [event : Events, plan : BOOLEAN, user : Accounts \cup {Unattributed}]

\* The row of no purchase is none, and has no owner to lose.
LEMMA NoPurchaseIsNone ==
    /\ NoPurchase.status = "none"
    /\ NoPurchase.user = Unattributed
    /\ [NoPurchase EXCEPT !.user = Unattributed] = NoPurchase
    /\ \A row \in PurchaseRows : row # NoPurchase
BY DEF NoPurchase, PurchaseRows

\* A row that loses its owner keeps its status.
LEMMA OwnerLost ==
    ASSUME NEW row \in PurchaseRows
    PROVE  LET old == [row EXCEPT !.user = Unattributed] IN
           /\ old \in PurchaseRows
           /\ old.status = row.status /\ old.user = Unattributed
BY DEF PurchaseRows

\* A handler in progress has an event and a buyer.
LEMMA HandlingTypes ==
    ASSUME PurchasesTypeOK, NEW d \in Deliveries, delivery[d] # NoDelivery
    PROVE  /\ delivery[d].event \in Events
           /\ delivery[d].user \in Accounts \cup {Unattributed}
<1>1. delivery[d] \in Handlings
  BY DEF PurchasesTypeOK, Handlings
<1> QED
  BY <1>1 DEF Handlings

\* One half of the step: the handler that commits.
LEMMA CommitPurchaseKeeps ==
    ASSUME PurchasesTypeOK, PurchasedOnce, NEW d \in Deliveries, CommitPurchase(d)
    PROVE  PurchasesTypeOK' /\ PurchasedOnce'
<1> DEFINE e   == delivery[d].event
           u   == delivery[d].user
           p   == delivery[d].plan
           row == [status |-> IF p THEN "COMPLETED" ELSE "PENDING", user |-> u]
<1>1. e \in Events /\ u \in Accounts \cup {Unattributed}
  BY HandlingTypes DEF CommitPurchase
<1>2. delivery' \in [Deliveries -> {NoDelivery} \cup Handlings] /\ mapped' = mapped
  BY DEF CommitPurchase, PurchasesTypeOK, Handlings
<1>3. Answer(e)
  BY DEF CommitPurchase
<1>4. /\ answered' = answered \cup {e}
      /\ inbox' \subseteq inbox
      /\ losses' \in Nat
  BY <1>3 DEF Answer, Loss, PurchasesTypeOK
<1>5. row \in PurchaseRows /\ row.status = (IF p THEN "COMPLETED" ELSE "PENDING") /\ row.user = u
  BY <1>1 DEF PurchaseRows
<1>6. CASE IsDuplicate(e)
  <2>1. transactions' = transactions /\ granted' = granted
    BY <1>6 DEF CommitPurchase
  <2>2. PurchasesTypeOK'
    BY <1>1, <1>2, <1>4, <2>1 DEF PurchasesTypeOK, Handlings
  <2> QED
    BY <1>4, <1>6, <2>1, <2>2 DEF PurchasedOnce, IsDuplicate
<1>7. CASE ~IsDuplicate(e)
  <2>1. /\ transactions[e] = NoPurchase
        /\ transactions' = [transactions EXCEPT ![e] = row]
        /\ granted' = [granted EXCEPT ![e] = IF p /\ u # Unattributed THEN @ + 1 ELSE @]
    BY <1>7 DEF CommitPurchase, IsDuplicate
  <2>2. granted[e] = 0
    BY <1>1, <2>1, NoPurchaseIsNone DEF PurchasedOnce
  <2>3. granted'[e] = IF p /\ u # Unattributed THEN 1 ELSE 0
    <3>1. granted \in [Events -> Nat]
      BY DEF PurchasesTypeOK
    <3> HIDE DEF p, u, e
    <3> QED
      BY <1>1, <2>1, <2>2, <3>1
  <2>4. /\ transactions'[e] = row
        /\ \A f \in Events \ {e} : transactions'[f] = transactions[f] /\ granted'[f] = granted[f]
    BY <1>1, <2>1 DEF PurchasesTypeOK
  <2>5. /\ transactions' \in [Events -> {NoPurchase} \cup PurchaseRows]
        /\ granted' \in [Events -> Nat]
    <3>1. granted \in [Events -> Nat] /\ transactions \in [Events -> {NoPurchase} \cup PurchaseRows]
      BY DEF PurchasesTypeOK, PurchaseRows
    <3>2. (IF p /\ u # Unattributed THEN granted[e] + 1 ELSE granted[e]) \in Nat
      BY <2>2
    <3> HIDE DEF p, u, e, row
    <3> QED
      BY <1>5, <2>1, <3>1, <3>2
  <2>6. PurchasesTypeOK'
    BY <1>1, <1>2, <1>4, <2>5 DEF PurchasesTypeOK, Handlings, PurchaseRows
  <2>7. ASSUME NEW f \in Events
        PROVE  /\ f \in answered' => transactions'[f] # NoPurchase
               /\ granted'[f] = IF transactions'[f].status = "COMPLETED"
                                   /\ transactions'[f].user # Unattributed
                                THEN 1 ELSE 0
    <3> HIDE DEF row
    <3>1. CASE f = e
      <4>1. row # NoPurchase
        BY <1>5, NoPurchaseIsNone
      <4>2. row.status = "COMPLETED" <=> p
        BY <1>5
      <4> HIDE DEF p, u, e
      <4> QED
        BY <3>1, <4>1, <4>2, <1>5, <2>3, <2>4
    <3>2. CASE f # e
      <4> HIDE DEF p, u, e
      <4> QED
        BY <3>2, <1>4, <2>4 DEF PurchasedOnce
    <3> QED
      BY <3>1, <3>2
  <2> QED
    BY <2>6, <2>7 DEF PurchasedOnce
<1> QED
  BY <1>6, <1>7

\* Purchases go their way: every step of a handler keeps rows and credits together.
LEMMA PurchasesStep ==
    ASSUME PurchasesTypeOK, PurchasedOnce, PurchasesNext
    PROVE  PurchasesTypeOK' /\ PurchasedOnce'
<1>1. ASSUME NEW e \in Events, Purchase(e)
      PROVE  PurchasesTypeOK' /\ PurchasedOnce'
  BY <1>1 DEF Purchase, PurchasesTypeOK, PurchasedOnce
<1>2. CASE MapProduct
  BY <1>2 DEF MapProduct, PurchasesTypeOK, PurchasedOnce
<1>3. ASSUME NEW d \in Deliveries, NEW e \in Events, StartPurchase(d, e)
      PROVE  PurchasesTypeOK' /\ PurchasedOnce'
  <2>1. /\ transactions' = transactions /\ granted' = granted /\ mapped' = mapped
        /\ \/ transactions[e] # NoPurchase /\ Answer(e) /\ delivery' = delivery
           \/ UNCHANGED <<inbox, answered, losses>>
    BY <1>3 DEF StartPurchase
  <2>2. /\ answered' \in SUBSET Events /\ inbox' \in SUBSET Events /\ losses' \in Nat
        /\ \A f \in answered' : f \in answered \/ transactions[f] # NoPurchase
    BY <2>1 DEF Answer, Loss, PurchasesTypeOK
  <2>3. \A aliases \in SUBSET Accounts : Resolve(aliases) \subseteq Accounts \cup {Unattributed}
    BY DEF Resolve
  <2>4. ASSUME NEW aliases \in SUBSET Accounts, NEW u \in Resolve(aliases)
        PROVE  [event |-> e, user |-> u, plan |-> mapped] \in Handlings
    BY <2>3, <2>4 DEF Handlings, PurchasesTypeOK
  <2>5. delivery' \in [Deliveries -> {NoDelivery} \cup Handlings]
    BY <1>3, <2>4 DEF StartPurchase, PurchasesTypeOK, Handlings
  <2> QED
    BY <2>1, <2>2, <2>5 DEF PurchasesTypeOK, PurchasedOnce, Handlings
<1>4. ASSUME NEW d \in Deliveries, FailPurchase(d)
      PROVE  PurchasesTypeOK' /\ PurchasedOnce'
  BY <1>4 DEF FailPurchase, Loss, PurchasesTypeOK, PurchasedOnce
<1> QED
  BY <1>1, <1>2, <1>3, <1>4, CommitPurchaseKeeps DEF PurchasesNext

\* An account that leaves takes its credits along and leaves its rows behind.
LEMMA DetachKeeps ==
    ASSUME PurchasesTypeOK, PurchasedOnce, NEW leaving, Detach(leaving)
    PROVE  PurchasesTypeOK' /\ PurchasedOnce'
<1> DEFINE left(row) == [row EXCEPT !.user = Unattributed]
<1>1. ASSUME NEW e \in Events
      PROVE  /\ transactions'[e] = IF transactions[e].user \in leaving
                                   THEN left(transactions[e]) ELSE transactions[e]
             /\ granted'[e] = IF transactions[e].user \in leaving THEN 0 ELSE granted[e]
             /\ left(transactions[e]) \in {NoPurchase} \cup PurchaseRows
             /\ left(transactions[e]).user = Unattributed
             /\ transactions[e] # NoPurchase => left(transactions[e]) # NoPurchase
  <2>1. transactions[e] \in {NoPurchase} \cup PurchaseRows
    BY DEF PurchasesTypeOK, PurchaseRows
  <2>2. left(transactions[e]).user = Unattributed
        /\ left(transactions[e]) \in {NoPurchase} \cup PurchaseRows
        /\ (transactions[e] # NoPurchase => left(transactions[e]) \in PurchaseRows)
    BY <2>1, NoPurchaseIsNone, OwnerLost
  <2> QED
    BY <2>2, NoPurchaseIsNone DEF Detach
<1> HIDE DEF left
<1>2. /\ transactions' \in [Events -> {NoPurchase} \cup PurchaseRows]
      /\ granted' \in [Events -> Nat]
  BY <1>1 DEF Detach, PurchasesTypeOK, PurchaseRows
<1>3. PurchasesTypeOK'
  BY <1>2 DEF Detach, PurchasesTypeOK, PurchaseRows
<1>4. PurchasedOnce'
  BY <1>1 DEF Detach, PurchasedOnce
<1> QED
  BY <1>3, <1>4

\* The rows and credits of purchases, typed.
LEMMA PurchasesInvariant == Spec => [](PurchasesTypeOK /\ PurchasedOnce)
<1>1. Init => PurchasesTypeOK /\ PurchasedOnce
  <2> SUFFICES ASSUME PurchasesInit
               PROVE  PurchasesTypeOK /\ PurchasedOnce
    BY DEF Init
  <2>1. mapped \in BOOLEAN
    BY Zenon DEF PurchasesInit
  <2> QED
    BY <2>1, NoPurchaseIsNone DEF PurchasesInit, PurchasesTypeOK, PurchasedOnce
<1>2. PurchasesTypeOK /\ PurchasedOnce /\ [Next]_vars => (PurchasesTypeOK /\ PurchasedOnce)'
  <2> SUFFICES ASSUME PurchasesTypeOK, PurchasedOnce, [Next]_vars
               PROVE  PurchasesTypeOK' /\ PurchasedOnce'
    OBVIOUS
  <2>1. CASE Next
    <3>1. \/ PurchasesNext \/ Detach(Leaving) \/ UNCHANGED purchaseVars
      BY <2>1, NextSteps
    <3>2. CASE UNCHANGED purchaseVars
      BY <3>2 DEF purchaseVars, PurchasesTypeOK, PurchasedOnce
    <3> QED
      BY <3>1, <3>2, PurchasesStep, DetachKeeps
  <2>2. CASE UNCHANGED vars
    BY <2>2 DEF vars, purchaseVars, PurchasesTypeOK, PurchasedOnce
  <2> QED
    BY <2>1, <2>2
<1> QED
  BY <1>1, <1>2, PTL DEF Spec

\* A purchase is recorded before it is answered, and credited once if its row names a
\* plan and a buyer and not at all otherwise, however many deliveries of it there are,
\* whatever fails and whenever the buyer's account ends (handle, deleteAccount).
THEOREM CreditedOnce == Spec => []PurchasedOnce
BY PurchasesInvariant, PTL

-----------------------------------------------------------------------------
(* Accounts and identities, beside the purchases.                          *)

AccountsInv ==
    /\ Base
    /\ Unique
    /\ \A i \in Rows, u \in Accounts : Clean(i, u)
    /\ Heard
    /\ \A u \in Accounts, t \in Tokens : Out(u, t)
    /\ Records

\* A step of the purchases touches no account.
LEMMA AccountsStutter ==
    ASSUME UNCHANGED <<accessVars, accountVars>>, AccountsInv
    PROVE  AccountsInv'
<1> USE DEF AccountsInv
<1>1. /\ UNCHANGED <<user, active, revoked, guard, failures, shut, raced>>
      /\ UNCHANGED <<identity, cred, req, claims, calls>>
      /\ UNCHANGED <<unmatched, early, contested, moved, late>>
  BY DEF accessVars, accountVars, rowVars, history
<1>2. There' = There /\ Ended' = Ended
  BY <1>1 DEF There, Ended, Exists
<1>3. \A i \in Rows : Live(i)' <=> Live(i)
  BY <1>1 DEF Live
<1>4. AccessTypeOK' /\ Tables' /\ Newcomers'
  BY <1>1 DEF Base, AccessTypeOK, Tables, Newcomers, Exists
<1>5. Requests'
  BY <1>1, <1>2 DEF Base, Requests
<1>6. Unique'
  BY <1>1, <1>3 DEF Unique, Apart, Reserved, OneAccountPerValue
<1>7. \A i \in Rows, u \in Accounts : Clean(i, u)'
  BY <1>1, <1>3 DEF Clean
<1>8. Heard' /\ Records'
  BY <1>1 DEF Heard, Records
<1>9. \A u \in Accounts, t \in Tokens : Out(u, t)'
  BY <1>1 DEF Out
<1> QED
  BY <1>4, <1>5, <1>6, <1>7, <1>8, <1>9 DEF Base

LEMMA AccountsInvariant == Spec => []AccountsInv
<1>1. Init => AccountsInv
  BY BaseInit, UniqueInit, CleanInit, HeardInit, OutInit, RecordsInit DEF Init, AccountsInv
<1>2. AccountsInv /\ [Next]_vars => AccountsInv'
  <2> SUFFICES ASSUME AccountsInv, [Next]_vars
               PROVE  AccountsInv'
    OBVIOUS
  <2>1. CASE AccountsNext
    BY <2>1, BaseStep, UniqueStep, CleanStep, HeardStep, OutStep, RecordsStep DEF AccountsInv
  <2>2. CASE UNCHANGED <<accessVars, accountVars>>
    BY <2>2, AccountsStutter
  <2> QED
    BY <2>1, <2>2, NextSteps DEF vars
<1> QED
  BY <1>1, <1>2, PTL DEF Spec

-----------------------------------------------------------------------------
(* Chats and exports, beside the accounts.                                 *)

\* A step of the chats or of the exports fails at most once.
LEMMA FaultsCount ==
    ASSUME ExportsNext
    PROVE  faults' = faults \/ faults' = faults + 1
<1>1. ASSUME NEW a \in Askers,
             \/ \E u \in Accounts : AskExport(a, u)
             \/ CreateExport(a) \/ PublishJob(a) \/ MarkFailed(a) \/ AskerStops(a)
      PROVE  faults' = faults \/ faults' = faults + 1
  BY <1>1 DEF AskExport, CreateExport, PublishJob, MarkFailed, AskerStops, Fault
<1>2. ASSUME NEW w \in Workers,
             \/ \E x \in jobs : TakeJob(w, x)
             \/ StartProcessing(w) \/ ReadRooms(w) \/ NextPage(w) \/ Upload(w)
             \/ Complete(w) \/ WorkFails(w) \/ MarkWorkFailed(w) \/ WorkerStops(w)
      PROVE  faults' = faults \/ faults' = faults + 1
  BY <1>2 DEF TakeJob, StartProcessing, ReadRooms, NextPage, Upload, Complete, WorkFails,
              MarkWorkFailed, WorkerStops, Acknowledge, Fault
<1> QED
  BY <1>1, <1>2 DEF ExportsNext

\* The accounts whose end is announced have ended, and stay so.
LEMMA TornDownEnded ==
    ASSUME AccountsInv, AccountsNext
    PROVE  /\ TornDown \in SUBSET Accounts /\ TornDown \subseteq Ended'
           /\ Ended \subseteq Ended'
<1>1. Ended \subseteq Ended'
  BY TablesStep, KeptSets DEF AccountsInv
<1>2. \A r \in Reqs : Sound(req[r], There, Ended)
  BY DEF AccountsInv, Base, Requests
<1>3. \A r \in Reqs : req[r].pc = "teardown" => req[r].user \in Ended
  BY <1>2 DEF Sound
<1>4. TornDown \subseteq Ended
  BY <1>3 DEF TornDown
<1> QED
  BY <1>1, <1>4 DEF Ended

CopiesInv == Readable /\ Finished /\ RowsTidy

LEMMA CopiesStep ==
    ASSUME AccountsInv, CopiesInv, Next
    PROVE  CopiesInv'
<1>1. CASE AccountsNext /\ Announce(TornDown) /\ Cascade(Leaving)
  <2>1. /\ TornDown \in SUBSET Accounts /\ TornDown \subseteq Ended'
        /\ Ended \subseteq Ended'
    BY <1>1, TornDownEnded
  <2> QED
    BY <1>1, <2>1, AnnounceReadable, AnnounceFinished, CascadeKeepsRows DEF CopiesInv
<1>2. CASE PurchasesNext /\ UNCHANGED <<accessVars, accountVars, chatVars, exportVars>>
  <2>1. /\ user' = user
        /\ UNCHANGED <<room, message, sending, keys, sent, instant, purging, purged, lingering>>
        /\ faults' \in Nat
    BY <1>2 DEF accountVars, rowVars, chatVars, accessVars, CopiesInv, Readable, ChatsTypeOK
  <2> QED
    BY <1>2, <2>1, ReadableStays, FinishedStays, RowsStay DEF CopiesInv
<1>3. CASE ChatsNext /\ UNCHANGED <<accessVars, accountVars, purchaseVars, exportVars>>
  <2>1. user' = user
    BY <1>3 DEF accountVars, rowVars, accessVars
  <2> QED
    BY <1>3, <2>1, ChatsReadable, ChatsFinished, RowsStay DEF CopiesInv
<1>4. CASE /\ ExportsNext /\ UNCHANGED <<accessVars, accountVars, purchaseVars>>
           /\ UNCHANGED <<room, message, sending, keys, sent, instant, purging, purged, lingering>>
  <2>1. user' = user /\ faults' \in Nat
    BY <1>4, FaultsCount DEF accountVars, rowVars, accessVars, CopiesInv, Readable, ChatsTypeOK
  <2> QED
    BY <1>4, <2>1, ReadableStays, FinishedStays, ExportsKeepRows DEF CopiesInv
<1> QED
  BY <1>1, <1>2, <1>3, <1>4, NextSteps

LEMMA CopiesInvariant == Spec => []CopiesInv
<1>1. Init => CopiesInv
  BY ChatsStart, RowsStart DEF Init, CopiesInv
<1>2. AccountsInv /\ CopiesInv /\ [Next]_vars => CopiesInv'
  <2>1. ASSUME CopiesInv, UNCHANGED vars
        PROVE  CopiesInv'
    <3>1. /\ user' = user /\ UNCHANGED exportVars
          /\ UNCHANGED <<room, message, sending, keys, sent, instant, purging, purged, lingering>>
          /\ faults' \in Nat
      BY <2>1 DEF vars, accountVars, rowVars, accessVars, chatVars, CopiesInv, Readable, ChatsTypeOK
    <3> QED
      BY <2>1, <3>1, ReadableStays, FinishedStays, RowsStay DEF CopiesInv
  <2> QED
    BY <2>1, CopiesStep
<1> QED
  BY <1>1, <1>2, AccountsInvariant, PTL DEF Spec

\* The variables have their types: no request, validation, delivery or call names an
\* account, a row or a value that is not one.
THEOREM TypeCorrect == Spec => []TypeOK
<1> DEFINE Counts == checks \in Nat
<1>1. Init => Counts
  BY DEF Init
<1>2. Counts /\ [Next]_vars => Counts'
  BY NextSteps DEF vars
<1>3. Spec => []Counts
  BY <1>1, <1>2, PTL DEF Spec
<1>4. AccountsInv /\ CopiesInv /\ PurchasesTypeOK /\ Counts => TypeOK
  BY AccountsTypes DEF AccountsInv, Records, CopiesInv, Readable, RowsTidy, TypeOK
<1> QED
  BY <1>3, <1>4, AccountsInvariant, PurchasesInvariant, CopiesInvariant, PTL

\* A message is encrypted with the key that its room keeps, and goes with its room,
\* whoever creates the room first and whatever fails in between
\* (getOrCreateRoomWithKey, insertEncryptedMessage, handleUserDeletedEvent).
THEOREM MessagesStayReadable == Spec => []MessagesReadable
<1>1. CopiesInv => MessagesReadable
  BY DEF CopiesInv, Readable
<1> QED
  BY <1>1, CopiesInvariant, PTL

\* Once the deletion of an account has been handled its conversations are gone for good,
\* but for those the deletion failed on and those with a message that had been checked
\* before (deleteAccount, handleUserDeletedEvent, sendMessage).
THEOREM ChatsGoWithAccount == Spec => []ChatsEndWithAccount
<1>1. CopiesInv => ChatsEndWithAccount
  BY DEF CopiesInv, Finished, ChatsEndWithAccount
<1> QED
  BY <1>1, CopiesInvariant, PTL

\* An export in progress has a message or a request at work on it, and a completed one
\* describes the archive in the bucket, but for rows that two deliveries worked on at
\* once and those whose request stopped half way (requestExport, processExport).
THEOREM ExportRowsStayTrue == Spec => []ExportRowsTrue
<1>1. CopiesInv => ExportRowsTrue
  BY TidyIsTrue DEF CopiesInv
<1> QED
  BY <1>1, CopiesInvariant, PTL

\* Nothing is left of an account that is gone, and no live credential and no visible
\* identity of one that is disabled but what a request of its own wrote after the end,
\* whatever requests were in progress as it ended (deleteAccount, deleteProfile).
THEOREM NothingLeft == Spec => []EndedLeavesNothing
<1>1. AccountsInv => EndedLeavesNothing
  BY CleanIsIt DEF AccountsInv
<1> QED
  BY <1>1, AccountsInvariant, PTL

\* Two live credentials never share a value, but for one that was given up while a
\* request to register it was in progress (signup, signInOrSignUp, addSecondaryAuth).
THEOREM ValueSignsInOnce == Spec => []OneAccountPerValue
<1>1. AccountsInv => OneAccountPerValue
  BY DEF AccountsInv, Unique
<1> QED
  BY <1>1, AccountsInvariant, PTL

\* A claimed identity that its owner sees has been looked at for likes once the messages
\* are handled, unless the message overtook the commit it was sent from
\* (createUserWithCredential, addSecondaryAuth, claimOrCreateIdentity, handleIdentityClaimed).
THEOREM ClaimsHeard == Spec => []ClaimsReachHandler
<1>1. AccountsInv => ClaimsReachHandler
  BY HeardIsIt DEF AccountsInv
<1> QED
  BY <1>1, AccountsInvariant, PTL

\* A token that was signed out with the refresh token of its device, or whose account was
\* deleted, stays out, but for the validations under way and the failures of Redis
\* (revokeUser, setUserActive).
THEOREM StaysOut == Spec => []ShutStaysOut
<1>1. AccountsInv => ShutStaysOut
  BY OutIsIt DEF AccountsInv, Base
<1> QED
  BY <1>1, AccountsInvariant, PTL

\* A verified identity of an active account stays with it and keeps its value, but by a
\* request of that account or one that had read the row before it was what it is
\* (checkAndLogReassignment, update, delete, deleteAccount).
THEOREM NobodyTakes == Spec => OwnersKeepTheirs
<1> DEFINE A == \A i \in Rows, u \in Accounts :
                   Shown(i, u) /\ identity[i].verified /\ user[u] = "active"
                   /\ ~(OwnedBy(i, u)' /\ identity'[i].value = identity[i].value)
                   => ActsFor(u) \/ i \in contested'
<1>1. AccountsInv /\ [Next]_vars => [A]_<<user, identity, req>>
  <2> SUFFICES ASSUME AccountsInv, [Next]_vars, ~UNCHANGED <<user, identity, req>>
               PROVE  A
    OBVIOUS
  <2>1. CASE AccountsNext
    BY <2>1, OwnersStep DEF AccountsInv
  <2>2. CASE UNCHANGED <<accessVars, accountVars>>
    BY <2>2 DEF accountVars, rowVars
  <2> QED
    BY <2>1, <2>2, NextSteps DEF vars
<1> QED
  BY <1>1, AccountsInvariant, PTL DEF Spec, OwnersKeepTheirs
-----------------------------------------------------------------------------
(* Transcripts: what the pages of an export have brought.                  *)

LEMMA Least ==
    ASSUME NEW T, T \subseteq Nat, T # {}
    PROVE  Min(T) \in T /\ \A y \in T : Min(T) <= y
<1>1. PICK R : IsWellFoundedOn(R, Nat) /\ \A x, y \in Nat : y < x => <<y, x>> \in R
  <2>1. \A x, y \in Nat : y < x => <<y, x>> \in OpToRel(<, Nat)
    BY DEF OpToRel
  <2> QED
    BY <2>1, NatLessThanWellFounded
<1>2. PICK x \in T : \A y \in T : ~(<<y, x>> \in R)
  BY <1>1, WFMin, Zenon
<1>3. \A y \in T : ~(y < x)
  BY <1>1, <1>2
<1>4. \A y \in T : x <= y
  BY <1>3
<1> QED
  BY <1>4 DEF Min

\* Induction over a finite set, one element at a time.
LEMMA OneByOne ==
    ASSUME NEW S, IsFiniteSet(S), NEW Good, {} \in Good,
           \A T \in SUBSET S : \A x \in T : T \ {x} \in Good => T \in Good
    PROVE  S \in Good
<1> DEFINE Bad == {Cardinality(U) : U \in (SUBSET S) \ Good}
<1>1. ASSUME NEW U \in SUBSET S PROVE IsFiniteSet(U) /\ Cardinality(U) \in Nat
  BY FS_Subset, FS_CardinalityType
<1>2. Bad = {}
  <2> SUFFICES ASSUME Bad # {} PROVE FALSE
    OBVIOUS
  <2>1. Bad \subseteq Nat
    BY <1>1
  <2>2. PICK n \in Nat : n \in Bad /\ \A m \in Bad : n <= m
    <3> HIDE DEF Bad
    <3> QED
      BY <2>1, Least
  <2>3. PICK T \in SUBSET S : T \notin Good /\ Cardinality(T) = n
    BY <2>2
  <2>4. PICK x : x \in T
    BY <2>3
  <2>5. Cardinality(T \ {x}) = n - 1 /\ T \ {x} \in SUBSET S
    BY <1>1, <2>3, <2>4, FS_RemoveElement
  <2>6. Cardinality(T \ {x}) \notin Bad
    BY <1>1, <2>2, <2>5
  <2>7. T \ {x} \in Good
    BY <2>5, <2>6
  <2> QED
    BY <2>3, <2>4, <2>7
<1> QED
  BY <1>2

\* The last message of a page.
LEMMA Latest ==
    ASSUME NEW S, IsFiniteSet(S), S # {}, \A m \in S : m.at \in Nat
    PROVE  \E e \in S : e.at = Max({m.at : m \in S}) /\ \A m \in S : m.at <= e.at
<1> DEFINE Good == {T \in SUBSET S : T = {} \/ \E e \in T : \A m \in T : m.at <= e.at}
<1>1. {} \in Good
  OBVIOUS
<1>2. ASSUME NEW T \in SUBSET S, NEW x \in T, T \ {x} \in Good PROVE T \in Good
  <2>1. CASE T \ {x} = {}
    <3>1. \A m \in T : m.at <= x.at
      BY <2>1
    <3> QED
      BY <3>1
  <2>2. CASE T \ {x} # {}
    <3>1. PICK e \in T \ {x} : \A m \in T \ {x} : m.at <= e.at
      BY <1>2, <2>2
    <3>2. CASE x.at <= e.at
      <4>1. \A m \in T : m.at <= e.at
        BY <3>1, <3>2
      <4> QED
        BY <4>1
    <3>3. CASE ~(x.at <= e.at)
      <4>1. \A m \in T : m.at <= x.at
        BY <3>1, <3>3
      <4> QED
        BY <4>1
    <3> QED
      BY <3>2, <3>3
  <2> QED
    BY <2>1, <2>2
<1>3. S \in Good
  <2> HIDE DEF Good
  <2> QED
    BY <1>1, <1>2, OneByOne
<1>4. PICK e \in S : \A m \in S : m.at <= e.at
  BY <1>3
<1>5. PICK V : V = {m.at : m \in S}
  OBVIOUS
<1>6. e.at \in V /\ V \subseteq Nat /\ \A v \in V : v <= e.at
  BY <1>4, <1>5
<1>7. \A v \in V : (\A y \in V : v >= y) => v = e.at
  BY <1>6
<1>8. \A y \in V : e.at >= y
  BY <1>6
<1>9. Max(V) = e.at
  BY <1>6, <1>7, <1>8 DEF Max
<1> QED
  BY <1>4, <1>5, <1>9

\* Messages that no call at work will insert again.
Known(S) == \A m \in S : /\ m.n \in 0 .. sent
                         /\ \A s \in Senders : sending[s] # Unsent => sending[s].n # m.n

Dated == IsFiniteSet(message) /\ instant > 0 /\ \A m \in message : m.at > 0

Numbered ==
    /\ Known(message)
    /\ \A s \in Senders : sending[s] # Unsent =>
          /\ sending[s].n <= sent
          /\ \A r \in Senders \ {s} : sending[r] # Unsent => sending[r].n # sending[s].n

\* A call keeps its number until it ends.
LEMMA KeepsNumber ==
    ASSUME Readable, NEW s \in Senders, Proceeding(s)
    PROVE  /\ sending[s] # Unsent /\ sent' = sent
           /\ \A r \in Senders \ {s} : sending'[r] = sending[r]
           /\ sending'[s] # Unsent => sending'[s].n = sending[s].n
<1>1. sending[s] # Unsent /\ sent' = sent /\ ChatsTypeOK
  BY ProceedingMoves DEF Readable
<1>2. \E call : SendAt(s, call) /\ (call # Unsent => call.n = sending[s].n)
  <2>1. CASE FindRoom(s)
    <3>1. sending[s] \in [pc : {"find", "create"}, from : Accounts, couple : Couples, n : Nat]
      BY <1>1, <2>1, CallFields DEF SendCalls, FindRoom
    <3>2. [sending[s] EXCEPT !.pc = "create"].n = sending[s].n
      BY <3>1
    <3>3. PICK c : c = sending[s].couple
      OBVIOUS
    <3>4. Uses(s, room[c], room[c]) \/ SendAt(s, [sending[s] EXCEPT !.pc = "create"])
      BY <2>1, <3>3 DEF FindRoom
    <3>5. CASE Uses(s, room[c], room[c])
      BY <3>5 DEF Uses
    <3>6. CASE SendAt(s, [sending[s] EXCEPT !.pc = "create"])
      BY <3>2, <3>6
    <3> QED
      BY <3>4, <3>5, <3>6
  <2>2. CASE CreateRoom(s)
    BY <2>2 DEF CreateRoom, Uses
  <2>3. CASE FallBack(s)
    BY <2>3 DEF FallBack, Uses
  <2>4. CASE InsertMessage(s) \/ SendFails(s)
    BY <2>4 DEF InsertMessage, SendFails
  <2> QED
    BY <2>1, <2>2, <2>3, <2>4 DEF Proceeding
<1>3. PICK call : SendAt(s, call) /\ (call # Unsent => call.n = sending[s].n)
  BY <1>2
<1>4. sending'[s] = call /\ \A r \in Senders \ {s} : sending'[r] = sending[r]
  BY <1>1, <1>3 DEF SendAt, ChatsTypeOK
<1> QED
  BY <1>1, <1>3, <1>4

\* What there was stays known, and what is inserted is new.
LEMMA ProceedingNumbered ==
    ASSUME Readable, Dated, Numbered, NEW s \in Senders, Proceeding(s)
    PROVE  /\ Dated' /\ Numbered'
           /\ \A S : Known(S) => Known(S)' /\ S \cap message' \subseteq message
<1>1. /\ sending[s] # Unsent /\ sent' = sent
      /\ \A r \in Senders \ {s} : sending'[r] = sending[r]
      /\ sending'[s] # Unsent => sending'[s].n = sending[s].n
  BY KeepsNumber
<1>2. \A r \in Senders : sending'[r] # Unsent => sending[r] # Unsent /\ sending'[r].n = sending[r].n
  BY <1>1
<1>3. \A S : Known(S) => Known(S)'
  BY <1>1, <1>2 DEF Known
<1>4. ASSUME NEW r \in Senders, sending'[r] # Unsent
      PROVE  /\ sending'[r].n <= sent'
             /\ \A q \in Senders \ {r} : sending'[q] # Unsent => sending'[q].n # sending'[r].n
  BY <1>1, <1>2, <1>4 DEF Numbered
<1>5. CASE message' = message /\ instant' = instant
  BY <1>3, <1>4, <1>5 DEF Numbered, Dated
<1>6. CASE ~(message' = message /\ instant' = instant)
  <2>1. InsertMessage(s)
    BY <1>6 DEF Proceeding, FindRoom, CreateRoom, FallBack, SendFails
  <2>2. PICK at, new :
           /\ at \in {instant, instant + 1} /\ instant' = at /\ message' = message \cup {new}
           /\ new.n = sending[s].n /\ new.at = at
    <3> DEFINE row(at) == [n |-> sending[s].n, room |-> sending[s].room, key |-> sending[s].key,
                           sender |-> sending[s].from, at |-> at]
    <3>1. \E at \in {instant, instant + 1} : instant' = at /\ message' = message \cup {row(at)}
      BY <1>6, <2>1 DEF InsertMessage
    <3>2. \A at : row(at).n = sending[s].n /\ row(at).at = at
      OBVIOUS
    <3> HIDE DEF row
    <3> QED
      BY <3>1, <3>2
  <2>3. sending'[s] = Unsent
    BY <2>1 DEF InsertMessage, SendAt, Readable, ChatsTypeOK
  <2>4. instant \in Nat /\ instant > 0 /\ sending[s].n \in Nat /\ sending[s].n <= sent /\ sent \in Nat
    BY <1>1, CallFields DEF Readable, ChatsTypeOK, Dated, Numbered
  <2>5. Dated'
    BY <2>2, <2>4, FS_AddElement DEF Dated
  <2>6. \A r \in Senders : sending'[r] # Unsent => sending'[r].n # new.n
    BY <1>1, <1>2, <2>2, <2>3 DEF Numbered
  <2>7. Known(message)'
    <3>1. ASSUME NEW m \in message'
          PROVE  m.n \in 0 .. sent' /\ \A r \in Senders : sending'[r] # Unsent => sending'[r].n # m.n
      <4>1. CASE m \in message
        BY <1>1, <1>2, <4>1 DEF Numbered, Known
      <4>2. CASE m = new
        BY <1>1, <2>2, <2>4, <2>6, <4>2
      <4> QED
        BY <2>2, <4>1, <4>2
    <3> QED
      BY <3>1 DEF Known
  <2>8. \A S : Known(S) => new \notin S
    BY <1>1, <2>2 DEF Known
  <2> QED
    BY <1>3, <1>4, <2>2, <2>5, <2>7, <2>8 DEF Numbered
<1> QED
  BY <1>5, <1>6

LEMMA StartNumbered ==
    ASSUME Readable, Dated, Numbered, NEW s \in Senders, NEW u, NEW c, StartSend(s, u, c)
    PROVE  /\ Dated' /\ Numbered'
           /\ \A S : Known(S) => Known(S)' /\ S \cap message' \subseteq message
<1>1. /\ sent \in Nat /\ sent' = sent + 1 /\ message' = message /\ instant' = instant
      /\ sending'[s].n = sent + 1 /\ sending[s] = Unsent
      /\ \A r \in Senders \ {s} : sending'[r] = sending[r]
  BY DEF StartSend, Sends, SendAt, Readable, ChatsTypeOK
<1>2. \A S : Known(S) => Known(S)'
  BY <1>1 DEF Known
<1>3. \A r \in Senders : sending[r] # Unsent => sending[r].n \in Nat /\ sending[r].n <= sent
  BY CallFields DEF Readable, Numbered
<1>4. ASSUME NEW r \in Senders, sending'[r] # Unsent
      PROVE  /\ sending'[r].n <= sent'
             /\ \A q \in Senders \ {r} : sending'[q] # Unsent => sending'[q].n # sending'[r].n
  <2>1. CASE r = s
    BY <1>1, <1>3, <2>1
  <2>2. CASE r # s
    BY <1>1, <1>3, <1>4, <2>2 DEF Numbered
  <2> QED
    BY <2>1, <2>2
<1>5. Dated'
  BY <1>1 DEF Dated
<1> QED
  BY <1>1, <1>2, <1>4, <1>5 DEF Numbered

\* Messages only go otherwise.
LEMMA LossNumbered ==
    ASSUME Dated, Numbered, message' \subseteq message, UNCHANGED <<sending, sent, instant>>
    PROVE  /\ Dated' /\ Numbered'
           /\ \A S : Known(S) => Known(S)' /\ S \cap message' \subseteq message
BY FS_Subset DEF Dated, Numbered, Known

LEMMA ChatsNumbered ==
    ASSUME Readable, Dated, Numbered, ChatsNext
    PROVE  /\ Dated' /\ Numbered'
           /\ \A S : Known(S) => Known(S)' /\ S \cap message' \subseteq message
<1>1. ASSUME NEW u, NEW c, DeleteMessages(u, c)
      PROVE  message' \subseteq message /\ UNCHANGED <<sending, sent, instant>>
  BY <1>1 DEF DeleteMessages
<1>2. ASSUME NEW u, PurgeRooms(u) \/ PurgeFails(u)
      PROVE  message' \subseteq message /\ UNCHANGED <<sending, sent, instant>>
  BY <1>2 DEF PurgeRooms, PurgeFails
<1>3. CASE \E s \in Senders : \E c \in Couples, u \in Accounts : StartSend(s, u, c)
  BY <1>3, StartNumbered
<1>4. CASE \E s \in Senders : Proceeding(s)
  BY <1>4, ProceedingNumbered
<1>5. CASE message' \subseteq message /\ UNCHANGED <<sending, sent, instant>>
  BY <1>5, LossNumbered
<1> QED
  BY <1>1, <1>2, <1>3, <1>4, <1>5 DEF ChatsNext, Proceeding
\* Of what was wanted, what has been read and what is still ahead.
Found(job, m) == \E n \in job.got : n.room = m.room /\ (n = m \/ n.at = m.at)
Ahead(job, m) ==
    /\ job.pc = "page" /\ m.room \in job.left
    /\ m.room = Min(job.left) => m.at > job.cursor

\* A reader knows its rooms, and the messages it has left behind it has read.
Collects(job) ==
    job.pc \in {"page", "upload"} =>
        /\ Known(job.wanted) /\ job.torn \in BOOLEAN
        /\ job.pc = "page" => job.left \subseteq Nat /\ job.left # {} /\ job.cursor \in Nat
        /\ ~job.torn => \A m \in job.wanted \cap message : Found(job, m) \/ Ahead(job, m)

Collecting == \A w \in Workers : Collects(worker[w])

\* The fields of a reader's next step.
LEMMA PagingFields ==
    ASSUME NEW row, NEW left, NEW cursor, NEW got, NEW torn \in BOOLEAN, NEW wanted, NEW job,
           job = Paging(row, left, cursor, got, torn, wanted)
    PROVE  /\ job.pc = IF left = {} THEN "upload" ELSE "page"
           /\ job.left = left /\ job.cursor = cursor /\ job.got = got /\ job.wanted = wanted
           /\ job.torn <=> torn
<1>1. /\ job.pc = IF left = {} THEN "upload" ELSE "page"
      /\ job.left = left /\ job.cursor = cursor /\ job.got = got /\ job.wanted = wanted
  BY DEF Paging
<1>2. job.torn = torn
  BY Zenon DEF Paging
<1> QED
  BY <1>1, <1>2
LEMMA ReadRoomsCollects ==
    ASSUME Readable, Dated, Numbered, NEW w \in Workers, ReadRooms(w)
    PROVE  \E job : WorkAt(w, job) /\ Collects(job)
<1>1. PICK x, mine :
         /\ x = worker[w].row
         /\ mine = {room[c] : c \in {d \in Couples : exports[x].user \in d /\ room[d] # 0}}
  OBVIOUS
<1>2. mine \subseteq Nat
  BY <1>1 DEF Readable, ChatsTypeOK
<1>3. PICK wanted : wanted = {m \in message : m.room \in mine}
  OBVIOUS
<1>4. Known(wanted) /\ \A m \in wanted : m.room \in mine /\ m.at > 0
  BY <1>3 DEF Known, Numbered, Dated
<1>5. PICK left \in SUBSET mine, torn \in BOOLEAN :
         /\ WorkAt(w, Paging(x, left, 0, {}, torn, wanted))
         /\ ~torn => left = mine
  <2>1. WorkAt(w, Paging(x, mine, 0, {}, FALSE, wanted)) \/ WorkAt(w, Paging(x, {}, 0, {}, TRUE, wanted))
    BY <1>1, <1>3 DEF ReadRooms
  <2> QED
    BY <2>1
<1>6. PICK job : job = Paging(x, left, 0, {}, torn, wanted)
  OBVIOUS
<1>7. /\ job.pc = IF left = {} THEN "upload" ELSE "page"
      /\ job.left = left /\ job.cursor = 0 /\ job.got = {} /\ job.wanted = wanted
      /\ job.torn <=> torn
  BY <1>6, PagingFields
<1>8. job.torn \in BOOLEAN
  BY <1>5, <1>6, Zenon DEF Paging
<1>9. ASSUME ~job.torn, NEW m \in job.wanted
      PROVE  Ahead(job, m)
  <2>1. left = mine /\ m.room \in mine /\ m.at > 0
    BY <1>4, <1>5, <1>7, <1>9
  <2> QED
    BY <1>7, <2>1 DEF Ahead
<1>10. Collects(job)
  BY <1>2, <1>4, <1>5, <1>7, <1>8, <1>9 DEF Collects
<1> QED
  BY <1>5, <1>6, <1>10

\* What a page of a room is: all that is left if it is not full, and if it is, nothing
\* that is left is older than the last message of it.
LEMMA PageFacts ==
    ASSUME Readable, Dated, NEW rest, rest \subseteq message, NEW page \in Pages(rest)
    PROVE  /\ page \subseteq rest
           /\ Cardinality(page) < PageSize => page = rest
           /\ ~(Cardinality(page) < PageSize) =>
                 /\ Max({m.at : m \in page}) \in Nat
                 /\ \E e \in page : e.at = Max({m.at : m \in page})
                 /\ \A m \in rest \ page : m.at >= Max({n.at : n \in page})
<1>1. /\ page \subseteq rest /\ Cardinality(page) = Min({PageSize, Cardinality(rest)})
      /\ \A m \in page, n \in rest \ page : m.at <= n.at
  BY DEF Pages
<1>2. IsFiniteSet(rest) /\ IsFiniteSet(page) /\ \A m \in rest : m.at \in Nat
  BY <1>1, FS_Subset DEF Readable, ChatsTypeOK, Dated
<1>3. PICK k \in Nat, n \in Nat, p \in Nat : k = PageSize /\ n = Cardinality(rest) /\ p = Cardinality(page)
  BY <1>2, FS_CardinalityType, ExportsAssumption
<1>4. p = k \/ p = n
  <2>1. {k, n} \subseteq Nat /\ {k, n} # {}
    OBVIOUS
  <2>2. Min({k, n}) \in {k, n}
    BY <2>1, Least
  <2> QED
    BY <1>1, <1>3, <2>2
<1>5. ASSUME p < k PROVE page = rest
  BY <1>1, <1>2, <1>3, <1>4, <1>5, FS_Subset
<1>6. ASSUME ~(p < k)
      PROVE  /\ Max({m.at : m \in page}) \in Nat
             /\ \E e \in page : e.at = Max({m.at : m \in page})
             /\ \A m \in rest \ page : m.at >= Max({i.at : i \in page})
  <2>1. page # {}
    BY <1>3, <1>6, FS_EmptySet, ExportsAssumption
  <2>2. PICK e \in page : e.at = Max({m.at : m \in page})
    BY <1>1, <1>2, <2>1, Latest
  <2>3. \A m \in rest \ page : e.at <= m.at /\ e.at \in Nat /\ m.at \in Nat
    BY <1>1, <1>2
  <2>4. e.at \in Nat
    BY <1>1, <1>2
  <2> QED
    BY <2>2, <2>3, <2>4
<1> QED
  BY <1>1, <1>3, <1>5, <1>6
\* What is left of the room a reader is at, and a page that was full.
Rest(job) == {m \in message : m.room = Min(job.left) /\ m.at > job.cursor}

IsFull(page, rest, last) ==
    /\ page \subseteq rest /\ last \in Nat
    /\ \E e \in page : e.at = last
    /\ \A m \in rest \ page : m.at >= last

\* A room is done: what it had left has been read, and every other room is ahead.
LEMMA RoomDone ==
    ASSUME Readable, Dated, NEW old, Collects(old), old.pc = "page", NEW r, r = Min(old.left),
           NEW rest, rest = Rest(old),
           NEW got, NEW torn \in BOOLEAN, ~torn => ~old.torn /\ got = old.got \cup rest, NEW job,
           job = Paging(old.row, old.left \ {r}, 0, got, torn, old.wanted)
    PROVE  Collects(job)
<1>1. /\ job.pc = IF old.left \ {r} = {} THEN "upload" ELSE "page"
      /\ job.left = old.left \ {r} /\ job.cursor = 0 /\ job.got = got /\ job.wanted = old.wanted
      /\ job.torn <=> torn
  BY PagingFields
<1>2. job.torn \in BOOLEAN
  BY Zenon DEF Paging
<1>3. old.left \subseteq Nat /\ Known(old.wanted)
  BY DEF Collects
<1>4. ASSUME ~job.torn, NEW m \in job.wanted \cap message
      PROVE  Found(job, m) \/ Ahead(job, m)
  <2>1. ~old.torn /\ got = old.got \cup rest
    BY <1>1, <1>4
  <2>2. Found(old, m) \/ Ahead(old, m)
    BY <1>1, <1>4, <2>1 DEF Collects
  <2>3. CASE Found(old, m)
    BY <1>1, <2>1, <2>3 DEF Found
  <2>4. CASE Ahead(old, m) /\ m.room = r
    <3>1. m \in rest
      BY <1>4, <2>4 DEF Ahead, Rest
    <3> QED
      BY <1>1, <2>1, <3>1 DEF Found
  <2>5. CASE Ahead(old, m) /\ m.room # r
    <3>1. m.room \in old.left \ {r} /\ m.at > 0
      BY <1>4, <2>5 DEF Ahead, Dated
    <3> QED
      BY <1>1, <3>1 DEF Ahead
  <2> QED
    BY <2>2, <2>3, <2>4, <2>5
<1>5. Known(job.wanted)
  BY <1>1, <1>3
<1>6. job.pc = "page" => job.left \subseteq Nat /\ job.left # {} /\ job.cursor \in Nat
  <2>1. PICK left : left = old.left \ {r} /\ left \subseteq Nat
    BY <1>3
  <2>2. job.left = left /\ job.cursor = 0 /\ job.pc = IF left = {} THEN "upload" ELSE "page"
    BY <1>1, <2>1
  <2> QED
    BY <2>1, <2>2
<1> QED
  BY <1>2, <1>4, <1>5, <1>6 DEF Collects

\* A full page: the cursor moves to the last message, with whose instant it starts after.
LEMMA RoomGoesOn ==
    ASSUME Readable, Dated, NEW old, Collects(old), old.pc = "page", NEW r, r = Min(old.left),
           NEW rest, rest = Rest(old),
           NEW page, NEW last, IsFull(page, rest, last), NEW job,
           job = Paging(old.row, old.left, last, old.got \cup page, old.torn, old.wanted)
    PROVE  Collects(job)
<1> USE DEF IsFull
<1>1. old.left \subseteq Nat /\ old.left # {} /\ Known(old.wanted) /\ old.torn \in BOOLEAN
  BY DEF Collects
<1>2. /\ job.pc = "page" /\ job.left = old.left /\ job.cursor = last
      /\ job.got = old.got \cup page /\ job.wanted = old.wanted
      /\ job.torn <=> old.torn
  BY <1>1, PagingFields
<1>3. job.torn \in BOOLEAN
  BY <1>1, Zenon DEF Paging
<1>4. ASSUME ~job.torn, NEW m \in job.wanted \cap message
      PROVE  Found(job, m) \/ Ahead(job, m)
  <2>1. Found(old, m) \/ Ahead(old, m)
    BY <1>2, <1>4 DEF Collects
  <2>2. CASE Found(old, m)
    BY <1>2, <2>2 DEF Found
  <2>3. CASE Ahead(old, m) /\ m.room # r
    BY <1>2, <2>3 DEF Ahead
  <2>4. CASE Ahead(old, m) /\ m.room = r
    <3>1. m \in rest /\ m.at \in Nat
      BY <1>4, <2>4 DEF Ahead, Rest, Readable, ChatsTypeOK
    <3>2. CASE m \in page
      BY <1>2, <3>2 DEF Found
    <3>3. CASE m.at > last
      BY <1>2, <2>4, <3>3 DEF Ahead
    <3>4. CASE m.at = last
      <4>1. PICK e \in page : e.at = last
        OBVIOUS
      <4>2. e.room = m.room /\ e.at = m.at /\ e \in job.got
        BY <1>2, <2>4, <3>4, <4>1 DEF Rest
      <4> QED
        BY <4>2 DEF Found
    <3> QED
      BY <3>1, <3>2, <3>3, <3>4
  <2> QED
    BY <2>1, <2>2, <2>3, <2>4
<1>5. Known(job.wanted) /\ job.left \subseteq Nat /\ job.left # {} /\ job.cursor \in Nat
  BY <1>1, <1>2
<1> QED
  BY <1>3, <1>4, <1>5 DEF Collects

LEMMA NextPageCollects ==
    ASSUME Readable, Dated, NEW w \in Workers, Collects(worker[w]), NextPage(w)
    PROVE  \E job : WorkAt(w, job) /\ Collects(job)
<1>1. PICK old, r, rest :
         /\ old = worker[w] /\ r = Min(old.left)
         /\ rest = Rest(old)
  OBVIOUS
<1>2. Collects(old) /\ old.pc = "page" /\ rest = Unread(w, r) /\ rest \subseteq message
      /\ old.torn \in BOOLEAN
  BY <1>1 DEF NextPage, Unread, Rest, Collects
<1> DEFINE Closed(got, torn) == Paging(old.row, old.left \ {r}, 0, got, torn, old.wanted)
           Full(page) == Paging(old.row, old.left, Max({m.at : m \in page}), old.got \cup page,
                              old.torn, old.wanted)
<1>3. \/ \E page \in Pages(rest) : IF Cardinality(page) < PageSize
                                   THEN WorkAt(w, Closed(old.got \cup page, old.torn))
                                   ELSE WorkAt(w, Full(page))
      \/ WorkAt(w, Closed(old.got, TRUE))
  BY <1>1, <1>2 DEF NextPage
<1>4. CASE WorkAt(w, Closed(old.got, TRUE))
  <2>1. Collects(Closed(old.got, TRUE))
    BY <1>1, <1>2, RoomDone
  <2> QED
    BY <1>4, <2>1
<1>5. ASSUME NEW page \in Pages(rest), Cardinality(page) < PageSize,
             WorkAt(w, Closed(old.got \cup page, old.torn))
      PROVE  \E job : WorkAt(w, job) /\ Collects(job)
  <2>1. page = rest
    BY <1>2, <1>5, PageFacts
  <2>2. Collects(Closed(old.got \cup page, old.torn))
    BY <1>1, <1>2, <2>1, RoomDone
  <2> QED
    BY <1>5, <2>2
<1>6. ASSUME NEW page \in Pages(rest), ~(Cardinality(page) < PageSize), WorkAt(w, Full(page))
      PROVE  \E job : WorkAt(w, job) /\ Collects(job)
  <2>1. PICK last : last = Max({m.at : m \in page}) /\ IsFull(page, rest, last)
    <3>1. /\ page \subseteq rest /\ Max({m.at : m \in page}) \in Nat
          /\ \E e \in page : e.at = Max({m.at : m \in page})
          /\ \A m \in rest \ page : m.at >= Max({n.at : n \in page})
      BY <1>2, <1>6, PageFacts
    <3>2. PICK last \in Nat : last = Max({m.at : m \in page})
      BY <3>1
    <3> QED
      BY <3>1, <3>2 DEF IsFull
  <2>2. Full(page) = Paging(old.row, old.left, last, old.got \cup page, old.torn, old.wanted)
    BY <2>1
  <2>3. PICK job : job = Full(page)
    OBVIOUS
  <2> HIDE DEF Full
  <2>4. Collects(job)
    BY <1>1, <1>2, <2>1, <2>2, <2>3, RoomGoesOn
  <2> QED
    BY <1>6, <2>3, <2>4
<1> HIDE DEF Closed, Full
<1> QED
  BY <1>3, <1>4, <1>5, <1>6
\* Nothing else moves a reader.
KeepsKnown == \A S : Known(S) => Known(S)' /\ S \cap message' \subseteq message

LEMMA StaysCollected ==
    ASSUME KeepsKnown, NEW job, Collects(job)
    PROVE  Collects(job)'
<1>1. CASE job.pc \in {"page", "upload"}
  <2>1. Known(job.wanted)' /\ job.wanted \cap message' \subseteq job.wanted \cap message
    BY <1>1 DEF Collects, KeepsKnown
  <2>2. ~job.torn => \A m \in job.wanted \cap message' : Found(job, m) \/ Ahead(job, m)
    BY <1>1, <2>1 DEF Collects
  <2>3. job.torn \in BOOLEAN
    BY <1>1, Zenon DEF Collects
  <2>4. job.pc = "page" => job.left \subseteq Nat /\ job.left # {} /\ job.cursor \in Nat
    BY <1>1 DEF Collects
  <2> QED
    BY <2>1, <2>2, <2>3, <2>4 DEF Collects, Found, Ahead
<1>2. CASE job.pc \notin {"page", "upload"}
  BY <1>2 DEF Collects
<1> QED
  BY <1>1, <1>2

LEMMA AllCollect ==
    ASSUME Collecting, KeepsKnown, \A w \in Workers : worker'[w] = worker[w] \/ Collects(worker'[w])
    PROVE  Collecting'
<1>1. ASSUME NEW w \in Workers PROVE Collects(worker[w])'
  <2>1. PICK job : job = worker'[w]
    OBVIOUS
  <2>2. Collects(job)
    BY <2>1 DEF Collecting
  <2>3. Collects(job)'
    BY <2>2, StaysCollected
  <2> QED
    BY <2>1, <2>3 DEF Collects, Known, Found, Ahead
<1> QED
  BY <1>1 DEF Collecting

LEMMA QuietKnown ==
    ASSUME UNCHANGED <<message, sending, sent>>
    PROVE  KeepsKnown
BY DEF KeepsKnown, Known

\* A step of one delivery: it reads, or is not a reader any more.
LEMMA WorkersCollect ==
    ASSUME Readable, Dated, Numbered, ExportsTypeOK, Collecting, NEW w \in Workers,
           UNCHANGED <<message, sending, sent, instant>>,
           \/ \E x \in jobs : TakeJob(w, x)
           \/ StartProcessing(w) \/ ReadRooms(w) \/ NextPage(w) \/ Upload(w)
           \/ Complete(w) \/ WorkFails(w) \/ MarkWorkFailed(w) \/ WorkerStops(w)
    PROVE  Collecting'
<1>1. Collects(worker[w])
  BY DEF Collecting
<1>2. ASSUME NEW job, job.pc \notin {"page", "upload"} PROVE Collects(job)
  BY <1>2 DEF Collects
<1>3. worker' = worker \/ \E job : WorkAt(w, job) /\ Collects(job)
  <2>1. CASE \E x \in jobs : TakeJob(w, x)
    BY <1>2, <2>1 DEF TakeJob
  <2>2. CASE StartProcessing(w) \/ Upload(w)
    BY <1>2, <2>2, NoRows DEF StartProcessing, Upload
  <2>3. CASE Complete(w) \/ WorkFails(w) \/ MarkWorkFailed(w) \/ WorkerStops(w)
    BY <1>2, <2>3, NoRows DEF Complete, WorkFails, MarkWorkFailed, WorkerStops
  <2>4. CASE ReadRooms(w)
    BY <2>4, ReadRoomsCollects
  <2>5. CASE NextPage(w)
    BY <1>1, <2>5, NextPageCollects
  <2> QED
    BY <2>1, <2>2, <2>3, <2>4, <2>5
<1>4. \A v \in Workers : worker'[v] = worker[v] \/ Collects(worker'[v])
  <2>1. CASE worker' = worker
    BY <2>1
  <2>2. ASSUME NEW job, WorkAt(w, job), Collects(job)
        PROVE  \A v \in Workers : worker'[v] = worker[v] \/ Collects(worker'[v])
    <3>1. worker'[w] = job /\ \A v \in Workers \ {w} : worker'[v] = worker[v]
      BY <2>2, WorkSteps
    <3> QED
      BY <2>2, <3>1
  <2> QED
    BY <1>3, <2>1, <2>2
<1> QED
  BY <1>4, AllCollect, QuietKnown

LEMMA ExportsCollect ==
    ASSUME Readable, Dated, Numbered, ExportsTypeOK, Collecting, ExportsNext,
           UNCHANGED <<message, sending, sent, instant>>
    PROVE  Collecting'
<1>1. ASSUME NEW a \in Askers,
             \/ \E u \in Accounts : AskExport(a, u)
             \/ CreateExport(a) \/ PublishJob(a) \/ MarkFailed(a) \/ AskerStops(a)
      PROVE  worker' = worker
  BY <1>1 DEF AskExport, CreateExport, PublishJob, MarkFailed, AskerStops
<1>2. CASE worker' = worker
  BY <1>2, AllCollect, QuietKnown
<1> QED
  BY <1>1, <1>2, WorkersCollect DEF ExportsNext

Transcripts == Dated /\ Numbered /\ Collecting

LEMMA TranscriptsStep ==
    ASSUME CopiesInv, Transcripts, Next
    PROVE  Transcripts'
<1>1. Readable /\ ExportsTypeOK
  BY DEF CopiesInv, RowsTidy
<1>2. ASSUME UNCHANGED <<message, sending, sent, instant>> PROVE Dated' /\ Numbered'
  BY <1>2 DEF Transcripts, Dated, Numbered, Known
<1>3. CASE UNCHANGED <<message, sending, sent, instant, worker>>
  <2>1. Collecting'
    BY <1>3, AllCollect, QuietKnown DEF Transcripts
  <2> QED
    BY <1>2, <1>3, <2>1 DEF Transcripts
<1>4. CASE ExportsNext /\ UNCHANGED <<message, sending, sent, instant>>
  BY <1>1, <1>2, <1>4, ExportsCollect DEF Transcripts
<1>5. CASE ChatsNext /\ UNCHANGED exportVars
  <2>1. Dated' /\ Numbered' /\ KeepsKnown /\ worker' = worker
    BY <1>1, <1>5, ChatsNumbered DEF Transcripts, KeepsKnown, exportVars
  <2> QED
    BY <2>1, AllCollect DEF Transcripts
<1>6. CASE Announce(TornDown) /\ Cascade(Leaving)
  BY <1>3, <1>6 DEF Announce, Cascade
<1>7. CASE UNCHANGED <<chatVars, exportVars>>
  BY <1>3, <1>7 DEF chatVars, exportVars
<1> QED
  BY <1>4, <1>5, <1>6, <1>7, NextSteps

\* The numbers of messages, and what every delivery at work has read.
LEMMA TranscriptsInvariant == Spec => []Transcripts
<1>1. Init => Transcripts
  <2> SUFFICES ASSUME ChatsInit, ExportsInit PROVE Transcripts
    BY DEF Init
  <2>1. message = {} /\ instant = 1 /\ \A s \in Senders : sending[s] = Unsent
    BY DEF ChatsInit
  <2>2. \A w \in Workers : worker[w].pc = "none"
    BY NoRows DEF ExportsInit
  <2> QED
    BY <2>1, <2>2, FS_EmptySet DEF Transcripts, Dated, Numbered, Known, Collecting, Collects
<1>2. CopiesInv /\ Transcripts /\ [Next]_vars => Transcripts'
  <2>1. ASSUME Transcripts, UNCHANGED vars PROVE Transcripts'
    <3>1. UNCHANGED <<message, sending, sent, instant, worker>>
      BY <2>1 DEF vars, chatVars, exportVars
    <3> QED
      BY <2>1, <3>1, AllCollect, QuietKnown DEF Transcripts, Dated, Numbered, Known
  <2> QED
    BY <2>1, TranscriptsStep
<1> QED
  BY <1>1, <1>2, CopiesInvariant, PTL DEF Spec

\* The archive that is about to be written has every message that there was when the
\* rooms were read and that still exists, unless a page could not be read, but for those
\* that share their instant with one that ended a page, whatever is sent, deleted and
\* purged between the pages (exportChatHistory, processExport).
THEOREM TranscriptsWhole == Spec => []TranscriptsComplete
<1>1. Transcripts => TranscriptsComplete
  BY DEF Transcripts, Collecting, Collects, Found, Ahead, TranscriptsComplete
<1> QED
  BY <1>1, TranscriptsInvariant, PTL
=============================================================================
