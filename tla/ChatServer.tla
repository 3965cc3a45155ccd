------------------------------ MODULE ChatServer ------------------------------
(* The chat server of ChatServerAcl: one thread, one fiber per connection, the *)
(* rooms of RoomManager behind room_mutex_.                                    *)
(*                                                                             *)
(* Fibers are cooperative: a fiber runs until it has to wait (for bytes, for   *)
(* room in a socket, for room_mutex_, for Redis, for a timer), so a step of    *)
(* the model is what the running fiber does up to the next point where another *)
(* fiber's state decides how it goes on, and the fiber stays `running' across  *)
(* its steps.                                                                  *)
(*                                                                             *)
(* A member of Conns is the address of a socket_stream together with the fiber *)
(* that serves it.  An address is free until accept() allocates a stream there *)
(* and free again after `delete conn', so a later connection may get it.       *)
EXTENDS Naturals, Sequences, FiniteSets

CONSTANTS
  Conns,       \* addresses of socket_streams, and the fibers serving them
  Users,       \* user IDs
  Rooms,       \* room numbers that clients ask for (-1 is not one of them)
  None,        \* no fiber, no stream, the empty user ID, room number -1
  Accounts,    \* Accounts[c]: the IDs the client at c tries to log in with
  Doors,       \* Doors[c]: the rooms the client at c asks for
  Relogin,     \* may a client log in again once it has asked for a room?
  InCap,       \* requests in flight to the server, per connection
  OutCap,      \* packets that fit between a write and the client's read
  MaxAccepts,  \* bound on the connections accepted in a behaviour
  MaxSends,    \* MaxSends[c]: bound on the requests sent on a connection at c
  MaxWakeups   \* wakeups after which a mutex waiter sleeps (5 in the code)

ASSUME ConstantsAssumption ==
  /\ IsFiniteSet(Conns) /\ IsFiniteSet(Users)
  /\ None \notin Conns \cup Users \cup Rooms
  /\ Accounts \in [Conns -> SUBSET Users]
  /\ Doors \in [Conns -> SUBSET Rooms]
  /\ Relogin \in BOOLEAN
  /\ InCap \in Nat \ {0} /\ OutCap \in Nat \ {0}
  /\ MaxAccepts \in Nat /\ MaxSends \in [Conns -> Nat] /\ MaxWakeups \in Nat

RoomSize == 2

\* The critical sections of room_mutex_ that an operation goes through, in
\* order; after LeaveRoom the fiber deletes its stream.
EnterRoom == <<"insert", "snapshot", "list", "joined">>
LeaveSilently ==   \* mutant: the entry is not erased
  <<"left", "snapshot", "list", "delete">>
LeaveRoom == <<"erase", "left", "snapshot", "list", "delete">>
BroadcastMessage == <<"chat">>
Operations == {EnterRoom, LeaveRoom, BroadcastMessage}

\* What may be left of an operation; a refused EnterRoom ends with its insert.
Plans == Operations \cup
  {<<>>, <<"insert">>, <<"snapshot", "list", "joined">>, <<"list", "joined">>,
   <<"joined">>, <<"left", "snapshot", "list", "delete">>,
   <<"snapshot", "list", "delete">>, <<"list", "delete">>, <<"delete">>}

Requests ==
  [id : {"ReqLogin"}, user : Users] \cup [id : {"ReqRoomEnter"}, room : Rooms]
    \cup [id : {"ReqRoomChat"}]
Kinds == {"LoginSuccess", "LoginFailed", "RoomFull",
          "list", "joined", "left", "chat"}
Packets == [kind : Kinds, users : SUBSET Users]

VARIABLES
  rooms,      \* rooms[r][u]: the stream stored for user u in room r, or None
  roomKeys,   \* the room numbers that are keys of rooms_
  mutex,      \* the fiber that owns room_mutex_, or None
  waiters,    \* mutex->waiters
  wakeups,    \* wakeups[c]: the counter of the lock loop of fiber c
  running,    \* the fiber that runs, or None when the event loop does
  ready,      \* the ready queue of the scheduler
  writer,     \* writer[d]: the fiber to wake when d is writable (fe->fiber_w)
  blockedOn,  \* blockedOn[c]: the stream whose writability c sleeps for
  killed,     \* killed[c]: fiber c was cancelled while it used a closed stream
  pc,         \* what fiber c does next
  todo,       \* the critical sections left of the operation of fiber c
  targets,    \* members the broadcast of fiber c has not written to yet
  snap,       \* user IDs that SendUserListToAll of fiber c copied
  asked,      \* the user ID in the login request of fiber c
  currentUserID, currentRoomNumber,
  inbox,      \* requests the client sent and the server has not read
  outbox,     \* packets the server wrote and the client has not read
  hungup,     \* has the client closed its end?
  sends, accepts

roomVars  == <<rooms, roomKeys>>
mutexVars == <<mutex, waiters, wakeups>>
writeVars == <<writer, blockedOn>>
opVars    == <<todo, targets, snap>>
userVars  == <<asked, currentUserID, currentRoomNumber>>
netVars   == <<inbox, outbox, hungup, sends, accepts>>
vars == <<roomVars, mutexVars, running, ready, writeVars, killed, pc, opVars,
          userVars, netVars>>

PCs == {"free", "read", "redis", "granted", "denied", "lock", "delay",
        "expired", "section", "full", "write", "unlock", "delete", "crashed"}

\* The state is made of what the variables of the code may hold.
TypeOK ==
  /\ rooms \in [Rooms -> [Users -> Conns \cup {None}]]
  /\ roomKeys \subseteq Rooms
  /\ mutex \in Conns \cup {None}
  /\ waiters \in Seq(Conns)
  /\ wakeups \in [Conns -> 0 .. MaxWakeups]
  /\ running \in Conns \cup {None}
  /\ ready \in Seq(Conns)
  /\ writer \in [Conns -> Conns \cup {None}]
  /\ blockedOn \in [Conns -> Conns \cup {None}]
  /\ killed \in [Conns -> BOOLEAN]
  /\ pc \in [Conns -> PCs]
  /\ todo \in [Conns -> Plans]
  /\ targets \in [Conns -> SUBSET Users]
  /\ snap \in [Conns -> SUBSET Users]
  /\ asked \in [Conns -> Users \cup {None}]
  /\ currentUserID \in [Conns -> Users \cup {None}]
  /\ currentRoomNumber \in [Conns -> Rooms \cup {None}]
  /\ inbox \in [Conns -> Seq(Requests)]
  /\ outbox \in [Conns -> Seq(Packets)]
  /\ hungup \in [Conns -> BOOLEAN]
  /\ sends \in [Conns -> Nat]
  /\ accepts \in Nat

Init ==
  /\ rooms = [r \in Rooms |-> [u \in Users |-> None]] /\ roomKeys = {}
  /\ mutex = None /\ waiters = <<>> /\ wakeups = [c \in Conns |-> 0]
  /\ running = None /\ ready = <<>>
  /\ writer = [c \in Conns |-> None] /\ blockedOn = [c \in Conns |-> None]
  /\ killed = [c \in Conns |-> FALSE]
  /\ pc = [c \in Conns |-> "free"]
  /\ todo = [c \in Conns |-> <<>>]
  /\ targets = [c \in Conns |-> {}] /\ snap = [c \in Conns |-> {}]
  /\ asked = [c \in Conns |-> None]
  /\ currentUserID = [c \in Conns |-> None]
  /\ currentRoomNumber = [c \in Conns |-> None]
  /\ inbox = [c \in Conns |-> <<>>] /\ outbox = [c \in Conns |-> <<>>]
  /\ hungup = [c \in Conns |-> FALSE]
  /\ sends = [c \in Conns |-> 0] /\ accepts = 0

Members(r) == {u \in Users : rooms[r][u] # None}
Live(c) == pc[c] # "free"
Queued(c) == \E i \in 1 .. Len(ready) : ready[i] = c

-------------------------------------------------------------------------------
(* The scheduler: Resume is acl_fiber_switch, Poll one pass of fiber_io_loop.  *)

\* Bytes for a client that hung up are dropped, so its socket is writable too.
CanSend(d) == Len(outbox[d]) < OutCap

\* The event for which fiber c sleeps has happened.
IOReady(c) ==
  IF blockedOn[c] # None
  THEN writer[blockedOn[c]] = c /\ CanSend(blockedOn[c])
  ELSE \/ pc[c] = "read" /\ (inbox[c] # <<>> \/ hungup[c])
       \/ pc[c] \in {"granted", "denied", "expired"}

\* The orders in which the event engine may report the fibers of S.
Orders(S) == {q \in [1 .. Cardinality(S) -> S] :
                \A c \in S : \E i \in 1 .. Cardinality(S) : q[i] = c}

Poll ==
  /\ running = None /\ ready = <<>>
  /\ LET S == {c \in Conns : IOReady(c)}
     IN  S # {} /\ ready' \in Orders(S)
  /\ UNCHANGED <<roomVars, mutexVars, running, writeVars, killed, pc, opVars,
                 userVars, netVars>>

\* A fiber that slept in fiber_wait_write clears fe->fiber_w, whoever is there.
ResumeWriter(c) ==
  /\ blockedOn[c] # None
  /\ running' = c
  /\ writer' = [writer EXCEPT ![blockedOn[c]] = None]
  /\ blockedOn' = [blockedOn EXCEPT ![c] = None]
  /\ UNCHANGED <<wakeups, pc>>

\* A mutex waiter tries again, or sleeps first if it was woken too often.
MayRetryOnceMore(c) == wakeups[c] <= MaxWakeups   \* mutant: off by one
MayRetry(c) == wakeups[c] < MaxWakeups

ResumeWaiter(c) ==
  /\ blockedOn[c] = None /\ pc[c] = "lock"
  /\ IF MayRetry(c)
     THEN /\ running' = c
          /\ wakeups' = [wakeups EXCEPT ![c] = @ + 1]
          /\ UNCHANGED pc
     ELSE /\ running' = None
          /\ wakeups' = [wakeups EXCEPT ![c] = 0]
          /\ pc' = [pc EXCEPT ![c] = "delay"]
  /\ UNCHANGED writeVars

ResumeOther(c) ==
  /\ blockedOn[c] = None /\ pc[c] # "lock"
  /\ running' = c
  /\ pc' = [pc EXCEPT ![c] = IF @ = "expired" THEN "lock" ELSE @]
  /\ UNCHANGED <<wakeups, writeVars>>

Resume ==
  /\ running = None /\ ready # <<>>
  /\ ready' = Tail(ready)
  /\ ResumeWriter(Head(ready)) \/ ResumeWaiter(Head(ready))
       \/ ResumeOther(Head(ready))
  /\ UNCHANGED <<roomVars, mutex, waiters, killed, opVars, userVars, netVars>>

\* The 100 ms of acl_fiber_delay are over.
Timer(c) ==
  /\ pc[c] = "delay"
  /\ pc' = [pc EXCEPT ![c] = "expired"]
  /\ UNCHANGED <<roomVars, mutexVars, running, ready, writeVars, killed, opVars,
                 userVars, netVars>>

-------------------------------------------------------------------------------
(* The clients and the network.                                                *)

Accept(c) ==
  /\ running = None /\ ~Live(c) /\ accepts < MaxAccepts
  /\ accepts' = accepts + 1
  /\ pc' = [pc EXCEPT ![c] = "read"]
  /\ UNCHANGED <<roomVars, mutexVars, running, ready, writeVars, killed, opVars,
                 userVars, inbox, outbox, hungup, sends>>

RequestsOf(c) ==
  (IF Relogin \/ (currentRoomNumber[c] = None /\ inbox[c] = <<>>)
   THEN [id : {"ReqLogin"}, user : Accounts[c]] ELSE {})
    \cup [id : {"ReqRoomEnter"}, room : Doors[c]] \cup [id : {"ReqRoomChat"}]

ClientSend(c) ==
  /\ Live(c) /\ ~hungup[c] /\ Len(inbox[c]) < InCap /\ sends[c] < MaxSends[c]
  /\ sends' = [sends EXCEPT ![c] = @ + 1]
  /\ \E p \in RequestsOf(c) : inbox' = [inbox EXCEPT ![c] = Append(@, p)]
  /\ UNCHANGED <<roomVars, mutexVars, running, ready, writeVars, killed, pc,
                 opVars, userVars, outbox, hungup, accepts>>

\* Some of the packets under way reach the client's read.
ClientRead(c) ==
  /\ ~hungup[c]
  /\ \E n \in 1 .. Len(outbox[c]) :
       outbox' = [outbox EXCEPT ![c] = SubSeq(@, n + 1, Len(@))]
  /\ UNCHANGED <<roomVars, mutexVars, running, ready, writeVars, killed, pc,
                 opVars, userVars, inbox, hungup, sends, accepts>>

Disconnect(c) ==
  /\ Live(c) /\ ~hungup[c]
  /\ hungup' = [hungup EXCEPT ![c] = TRUE]
  /\ outbox' = [outbox EXCEPT ![c] = <<>>]
  /\ UNCHANGED <<roomVars, mutexVars, running, ready, writeVars, killed, pc,
                 opVars, userVars, inbox, sends, accepts>>

\* Redis answers the GET: the password is there and equals AuthToken, or not.
RedisReply(c) ==
  /\ pc[c] = "redis"
  /\ \E answer \in {"granted", "denied"} : pc' = [pc EXCEPT ![c] = answer]
  /\ UNCHANGED <<roomVars, mutexVars, running, ready, writeVars, killed, opVars,
                 userVars, netVars>>

-------------------------------------------------------------------------------
(* conn->write: sent when the socket has room, lost when the client is gone or *)
(* when the fiber's wait was or is cancelled; otherwise the fiber registers    *)
(* itself and sleeps.                                                          *)

Write(c, d, packet) ==
  \/ hungup[d] /\ UNCHANGED outbox
  \/ /\ ~hungup[d] /\ CanSend(d)
     /\ outbox' = [outbox EXCEPT ![d] = Append(@, packet)]
  \/ killed[c] /\ UNCHANGED outbox

WaitWritable(c, d) ==
  /\ ~hungup[d] /\ ~CanSend(d) /\ ~killed[c]
  /\ writer' = [writer EXCEPT ![d] = c]
  /\ blockedOn' = [blockedOn EXCEPT ![c] = d]
  /\ running' = None
  /\ UNCHANGED <<roomVars, mutexVars, ready, killed, pc, opVars, userVars,
                 netVars>>

\* The fiber goes back to conn->read, which sleeps unless it was cancelled.
BackToRead(c) == running' = IF killed[c] THEN c ELSE None

-------------------------------------------------------------------------------
(* The loop of a connection: one read, one request.                            *)

StartOp(c, sections) ==
  /\ todo' = [todo EXCEPT ![c] = sections]
  /\ pc' = [pc EXCEPT ![c] = "lock"]
  /\ wakeups' = [wakeups EXCEPT ![c] = 0]
  /\ UNCHANGED running

Ignore(c) == BackToRead(c) /\ UNCHANGED <<pc, todo, wakeups>>

ReqLogin(c, request) ==
  /\ request.id = "ReqLogin"
  /\ asked' = [asked EXCEPT ![c] = request.user]
  /\ pc' = [pc EXCEPT ![c] = "redis"]
  /\ running' = None
  /\ UNCHANGED <<todo, wakeups, currentRoomNumber>>

ReqRoomEnter(c, request) ==
  /\ request.id = "ReqRoomEnter"
  /\ currentRoomNumber' = [currentRoomNumber EXCEPT ![c] = request.room]
  /\ IF currentUserID[c] # None THEN StartOp(c, EnterRoom) ELSE Ignore(c)
  /\ UNCHANGED asked

ReqRoomChat(c, request) ==
  /\ request.id = "ReqRoomChat"
  /\ IF currentRoomNumber[c] # None /\ currentUserID[c] # None
     THEN StartOp(c, BroadcastMessage) ELSE Ignore(c)
  /\ UNCHANGED <<asked, currentRoomNumber>>

\* A read takes all the bytes that have arrived; the switch looks at the first
\* packet in them and the next read clears the buffer.
Read(c) ==
  /\ pc[c] = "read" /\ ~killed[c] /\ inbox[c] # <<>>
  /\ LET request == Head(inbox[c])
     IN  ReqLogin(c, request) \/ ReqRoomEnter(c, request)
           \/ ReqRoomChat(c, request)
  /\ inbox' = [inbox EXCEPT ![c] = <<>>]
  /\ UNCHANGED <<roomVars, mutex, waiters, ready, writeVars, killed, targets,
                 snap, currentUserID, outbox, hungup, sends, accepts>>

\* The read returns 0 or -1: the loop ends.
ReadFailed(c) ==
  /\ pc[c] = "read" /\ (killed[c] \/ inbox[c] = <<>>)
  /\ IF currentRoomNumber[c] # None /\ currentUserID[c] # None
     THEN StartOp(c, LeaveRoom)
     ELSE pc' = [pc EXCEPT ![c] = "delete"] /\ UNCHANGED <<todo, wakeups, running>>
  /\ UNCHANGED <<roomVars, mutex, waiters, ready, writeVars, killed, targets,
                 snap, userVars, netVars>>

\* The answer to a login, written without room_mutex_.
Answer(c) ==
  /\ pc[c] \in {"granted", "denied"}
  /\ LET reply == [kind |-> IF pc[c] = "granted" THEN "LoginSuccess"
                                                 ELSE "LoginFailed",
                   users |-> {}]
     IN \/ /\ Write(c, c, reply)
           /\ currentUserID' = [currentUserID EXCEPT ![c] =
                                  IF pc[c] = "granted" THEN asked[c] ELSE @]
           /\ asked' = [asked EXCEPT ![c] = None]
           /\ pc' = [pc EXCEPT ![c] = "read"]
           /\ BackToRead(c)
           /\ UNCHANGED <<roomVars, mutexVars, ready, writeVars, killed, opVars,
                          currentRoomNumber, inbox, hungup, sends, accepts>>
        \/ WaitWritable(c, c)

\* delete conn: closing cancels the fiber registered on the stream, if any.  The
\* fiber ends, and its locals and the socket with it.
Delete(c) ==
  /\ pc[c] = "delete"
  /\ pc' = [pc EXCEPT ![c] = "free"]
  /\ running' = None
  /\ killed' = [f \in Conns |-> IF f = c THEN FALSE
                                ELSE killed[f] \/ writer[c] = f]
  /\ ready' = IF writer[c] = None \/ Queued(writer[c])
              THEN ready ELSE Append(ready, writer[c])
  /\ writer' = [writer EXCEPT ![c] = None]
  /\ blockedOn' = [f \in Conns |-> IF blockedOn[f] = c THEN None
                                                       ELSE blockedOn[f]]
  /\ todo' = [todo EXCEPT ![c] = <<>>]
  /\ currentUserID' = [currentUserID EXCEPT ![c] = None]
  /\ currentRoomNumber' = [currentRoomNumber EXCEPT ![c] = None]
  /\ inbox' = [inbox EXCEPT ![c] = <<>>]
  /\ outbox' = [outbox EXCEPT ![c] = <<>>]
  /\ hungup' = [hungup EXCEPT ![c] = FALSE]
  /\ sends' = [sends EXCEPT ![c] = 0]
  /\ UNCHANGED <<roomVars, mutexVars, targets, snap, asked, accepts>>

-------------------------------------------------------------------------------
(* room_mutex_.lock() and unlock(): a fiber_mutex, whose unlock wakes a waiter *)
(* without giving it the mutex and lets the unlocking fiber run on.            *)

LockAnyway(c) ==   \* mutant: the owner is not looked at
  /\ pc[c] = "lock"
  /\ mutex' = c
  /\ pc' = [pc EXCEPT ![c] = "section"]
  /\ wakeups' = [wakeups EXCEPT ![c] = 0]
  /\ UNCHANGED <<roomVars, waiters, running, ready, writeVars, killed, opVars,
                 userVars, netVars>>
Lock(c) ==
  /\ pc[c] = "lock"
  /\ \/ /\ mutex = None
        /\ mutex' = c
        /\ pc' = [pc EXCEPT ![c] = "section"]
        /\ wakeups' = [wakeups EXCEPT ![c] = 0]
        /\ UNCHANGED <<waiters, running>>
     \/ /\ mutex # None
        /\ waiters' = Append(waiters, c)
        /\ running' = None
        /\ UNCHANGED <<mutex, wakeups, pc>>
  /\ UNCHANGED <<roomVars, ready, writeVars, killed, opVars, userVars, netVars>>

\* array_pop_front of an unordered array: the last item takes the place of the
\* first.
PopFront(q) ==
  IF Len(q) <= 1 THEN <<>> ELSE <<q[Len(q)]>> \o SubSeq(q, 2, Len(q) - 1)

\* The waiter that unlock() makes ready.
WakeNobody(q) == q   \* mutant: the popped waiter is forgotten
Wake(q) == IF waiters = <<>> THEN q ELSE Append(q, Head(waiters))

\* Where the fiber goes once a section is over.
Next_pc(rest) ==
  CASE rest = <<>>                             -> "read"
    [] rest # <<>> /\ Head(rest) = "delete"    -> "delete"
    [] OTHER                                   -> "lock"

\* The unlocking fiber runs on; only a fiber that goes back to read yields.
YieldFirst(c, rest) ==   \* mutant: unlock lets the others run
  /\ ready' = IF rest = <<>> THEN Wake(ready) ELSE Append(Wake(ready), c)
  /\ running' = None
RunOn(c, rest) ==
  /\ ready' = Wake(ready)
  /\ IF rest = <<>> THEN BackToRead(c) ELSE UNCHANGED running

Unlock(c) ==
  /\ pc[c] = "unlock"
  /\ mutex' = None
  /\ waiters' = PopFront(waiters)
  /\ RunOn(c, Tail(todo[c]))
  /\ todo' = [todo EXCEPT ![c] = Tail(@)]
  /\ pc' = [pc EXCEPT ![c] = Next_pc(Tail(todo[c]))]
  /\ snap' = [snap EXCEPT ![c] = IF Head(todo[c]) = "snapshot" THEN @ ELSE {}]
  /\ UNCHANGED <<roomVars, wakeups, writeVars, killed, targets, userVars,
                 netVars>>

-------------------------------------------------------------------------------
(* The critical sections of RoomManager.                                       *)

InSection(c, section) ==
  pc[c] = "section" /\ todo[c] # <<>> /\ Head(todo[c]) = section

GoTo(c, label) == pc' = [pc EXCEPT ![c] = label]

IsOverfull(r) == Cardinality(Members(r)) > RoomSize   \* mutant: off by one
IsFull(r) == Cardinality(Members(r)) >= RoomSize

\* EnterRoom, up to its unlock: a full room answers under the mutex.
Insert(c) ==
  /\ InSection(c, "insert")
  /\ LET r == currentRoomNumber[c]
         u == currentUserID[c]
     IN  IF IsFull(r)
         THEN GoTo(c, "full") /\ UNCHANGED roomVars
         ELSE /\ rooms' = [rooms EXCEPT ![r][u] = c]
              /\ roomKeys' = roomKeys \cup {r}
              /\ GoTo(c, "unlock")
  /\ UNCHANGED <<mutexVars, running, ready, writeVars, killed, opVars, userVars,
                 netVars>>

RefuseEntry(c) ==
  /\ pc[c] = "full"
  /\ \/ /\ Write(c, c, [kind |-> "RoomFull", users |-> {}])
        /\ todo' = [todo EXCEPT ![c] = <<"insert">>]
        /\ GoTo(c, "unlock")
        /\ UNCHANGED <<roomVars, mutexVars, running, ready, writeVars, killed,
                       targets, snap, userVars, inbox, hungup, sends, accepts>>
     \/ WaitWritable(c, c)

\* LeaveRoom, up to its unlock.
EraseRoom(c) ==   \* mutant: the whole room goes, empty or not
  /\ InSection(c, "erase")
  /\ rooms' = [rooms EXCEPT ![currentRoomNumber[c]] = [u \in Users |-> None]]
  /\ roomKeys' = roomKeys \ {currentRoomNumber[c]}
  /\ GoTo(c, "unlock")
  /\ UNCHANGED <<mutexVars, running, ready, writeVars, killed, opVars, userVars,
                 netVars>>
Erase(c) ==
  /\ InSection(c, "erase")
  /\ LET r == currentRoomNumber[c]
         u == currentUserID[c]
     IN  /\ rooms' = [rooms EXCEPT ![r][u] = None]
         /\ roomKeys' = IF Members(r) \ {u} = {} THEN roomKeys \ {r}
                                                 ELSE roomKeys \cup {r}
  /\ GoTo(c, "unlock")
  /\ UNCHANGED <<mutexVars, running, ready, writeVars, killed, opVars, userVars,
                 netVars>>

\* SendUserListToAll copies the first two user IDs of an unordered map; of a
\* room that is gone it sends no list.
Snapshot(c) ==
  /\ InSection(c, "snapshot")
  /\ LET r == currentRoomNumber[c]
     IN  IF r \in roomKeys
         THEN /\ \E S \in SUBSET Members(r) :
                   /\ Cardinality(S) <= 2
                   /\ S = Members(r) \/ Cardinality(S) = 2
                   /\ snap' = [snap EXCEPT ![c] = S]
              /\ UNCHANGED todo
         ELSE /\ todo' = [todo EXCEPT ![c] = Tail(@)]
              /\ UNCHANGED snap
  /\ GoTo(c, "unlock")
  /\ UNCHANGED <<roomVars, mutexVars, running, ready, writeVars, killed, targets,
                 userVars, netVars>>

\* Broadcast finds the room and starts to walk through its members.
StartBroadcast(c) ==
  /\ \E section \in {"list", "joined", "left", "chat"} : InSection(c, section)
  /\ IF currentRoomNumber[c] \in roomKeys
     THEN /\ targets' = [targets EXCEPT ![c] = Members(currentRoomNumber[c])]
          /\ GoTo(c, "write")
     ELSE UNCHANGED targets /\ GoTo(c, "unlock")
  /\ UNCHANGED <<roomVars, mutexVars, running, ready, writeVars, killed, todo,
                 snap, userVars, netVars>>

Notification(c) ==
  [kind  |-> Head(todo[c]),
   users |-> IF Head(todo[c]) = "list" THEN snap[c] ELSE {currentUserID[c]}]

\* The wait of a cancelled fiber fails, upon which wait_write frees the
\* FILE_EVENT that the fiber of d may be using.
FreesEvent(c, d) == killed[c] /\ c # d /\ ~hungup[d] /\ ~CanSend(d)

\* The write to one member.  To use a deleted stream or a freed FILE_EVENT is
\* undefined: the bytes may go nowhere or the process may crash, after which no
\* fiber runs.
BroadcastTo(c, u) ==
  LET d == rooms[currentRoomNumber[c]][u]
      rest == targets[c] \ {u}
      Done == /\ targets' = [targets EXCEPT ![c] = rest]
              /\ GoTo(c, IF rest = {} THEN "unlock" ELSE "write")
              /\ UNCHANGED <<running, writeVars>>
  IN /\ d # None
     /\ \/ Live(d) /\ Write(c, d, Notification(c)) /\ Done
        \/ Live(d) /\ WaitWritable(c, d) /\ UNCHANGED targets
        \/ ~Live(d) /\ Done /\ UNCHANGED outbox
        \/ /\ ~Live(d) \/ FreesEvent(c, d)
           /\ GoTo(c, "crashed")
           /\ UNCHANGED <<running, writeVars, targets, outbox>>

Broadcast(c) ==
  /\ pc[c] = "write"
  /\ \E u \in targets[c] : BroadcastTo(c, u)
  /\ UNCHANGED <<roomVars, mutexVars, ready, killed, todo, snap, userVars,
                 inbox, hungup, sends, accepts>>

-------------------------------------------------------------------------------
FiberStep(c) ==
  /\ running = c
  /\ \/ Read(c) \/ ReadFailed(c) \/ Answer(c) \/ Delete(c)
     \/ Lock(c) \/ Unlock(c)
     \/ Insert(c) \/ RefuseEntry(c) \/ Erase(c) \/ Snapshot(c)
     \/ StartBroadcast(c) \/ Broadcast(c)

Environment(c) ==
  \/ Accept(c) \/ ClientSend(c) \/ ClientRead(c) \/ Disconnect(c)
  \/ RedisReply(c) \/ Timer(c)

Next == Poll \/ Resume \/ \E c \in Conns : FiberStep(c) \/ Environment(c)

Spec == Init /\ [][Next]_vars

-------------------------------------------------------------------------------
(* Properties of every behaviour.                                              *)

\* RoomManager never lets more than two users into a room, whichever fibers
\* enter, leave or overwrite an entry in between (RoomManager.cpp:11).
RoomCapacity == \A r \in Rooms : Cardinality(Members(r)) <= RoomSize

\* Fiber c is inside an operation of RoomManager: it has had the mutex for it.
Begun(c) ==
  \/ pc[c] \in {"section", "full", "write", "unlock"}
  \/ pc[c] = "lock" /\ todo[c] \notin Operations

\* RoomManager takes and drops room_mutex_ three or four times in EnterRoom and
\* LeaveRoom, yet the sections of two operations never mix: unlock() neither
\* hands the mutex over nor yields, so the fiber relocks it before anyone runs.
OneOperationAtATime ==
  /\ \A c, d \in Conns : Begun(c) /\ Begun(d) => c = d
  /\ \A c \in Conns : Begun(c) => running = c \/ mutex = c

\* Broadcast writes, and may sleep, inside a loop over rooms_[r]: the members it
\* still has to visit are not erased under its iterator (RoomManager.cpp:101).
IterationStable ==
  \A c \in Conns :
    pc[c] = "write" =>
      targets[c] # {} /\ targets[c] \subseteq Members(currentRoomNumber[c])

\* The list that SendUserListToAll copied in one critical section is still the
\* membership while it is sent in a later one (RoomManager.cpp:53-76).
ListIsCurrent ==
  \A c \in Conns :
    pc[c] = "write" /\ Head(todo[c]) = "list" => snap[c] = Members(currentRoomNumber[c])

\* When room_mutex_ is free and fibers want it, somebody who will take and drop
\* it is awake or asleep on a timer (fiber_mutex.c:457-504, 585-622).
NoLostWakeup ==
  mutex = None /\ (\E c \in Conns : pc[c] = "lock") =>
    \E c \in Conns : \/ pc[c] = "lock" /\ (running = c \/ Queued(c))
                     \/ pc[c] \in {"delay", "expired"}

-------------------------------------------------------------------------------
(* Properties that clients could rely on.                                      *)

\* No room keeps a stream that was deleted: Broadcast would write to it
\* (tcpCoroutine.cpp:90-93, RoomManager.cpp:101-107).
NoDeletedMember ==
  \A r \in Rooms, u \in Users : rooms[r][u] # None => Live(rooms[r][u])

\* A user listed in a room is the one who is logged in on the stored stream and
\* whose connection thinks it is in that room.
MemberIsItself ==
  \A r \in Rooms, u \in Users :
    LET c == rooms[r][u]
    IN  c # None => Live(c) /\ currentUserID[c] = u /\ currentRoomNumber[c] = r

\* A listed user stays listed until the connection that stands behind the entry
\* changes it itself: nobody's refusal, leaving or clean-up takes the entry of
\* another away (RoomManager.cpp:28, tcpCoroutine.cpp:90-92).
OnlyMyselfRemovesMe ==
  [][\A r \in Rooms, u \in Users :
       rooms[r][u] # None /\ rooms'[r][u] # rooms[r][u] => running = rooms[r][u]]_vars

\* Only somebody who was let into the room talks in it (tcpCoroutine.cpp:78).
ChatOnlyFromMembers ==
  \A c \in Conns :
    pc[c] = "lock" /\ todo[c] = BroadcastMessage =>
      rooms[currentRoomNumber[c]][currentUserID[c]] = c

\* A read consumes one request, as a client that sends one packet per request
\* expects (tcpCoroutine.cpp:39-47).
EveryRequestIsRead ==
  [][\A c \in Conns : pc[c] = "read" /\ pc'[c] # "free" =>
        Len(inbox'[c]) >= Len(inbox[c]) - 1]_vars

-------------------------------------------------------------------------------
(* Liveness.  The scheduler runs ready fibers in turn and polls when there are *)
(* none; Redis answers and timers fire; here clients go on reading, too.       *)

Fairness ==
  /\ WF_vars(Poll) /\ WF_vars(Resume)
  /\ \A c \in Conns :
       /\ WF_vars(FiberStep(c)) /\ WF_vars(RedisReply(c)) /\ WF_vars(Timer(c))
       /\ WF_vars(ClientRead(c))

FairSpec == Spec /\ Fairness

\* Whoever owns room_mutex_ gives it back.
MutexIsReleased == \A c \in Conns : mutex = c ~> mutex # c

\* Every request that was read is dealt with, and every connection that ended is
\* cleaned up.
RequestsAreServed ==
  \A c \in Conns : pc[c] \notin {"read", "free"} ~> pc[c] \in {"read", "free"}

===============================================================================
