-------------------------- MODULE ChatServerProofs --------------------------
(* Proofs about the chat server for any number of connections, users and     *)
(* rooms and any bounds.                                                     *)
EXTENDS ChatServer, FiniteSetTheorems, TLAPS

-----------------------------------------------------------------------------
(* The parts of the inductive invariant.                                     *)

\* A fiber that talks to Redis knows for whom.
AskedInv ==
  \A c \in Conns : pc[c] \in {"redis", "granted", "denied"} => asked[c] # None

\* A fiber that is on its way through RoomManager has something left to do there,
\* for a user and a room.
Busy == {"lock", "delay", "expired", "section", "full", "write", "unlock"}
PlanInv ==
  \A c \in Conns :
    /\ pc[c] \in Busy => todo[c] # <<>>
    /\ todo[c] # <<>> => currentUserID[c] # None /\ currentRoomNumber[c] # None
    /\ pc[c] = "write" => Head(todo[c]) \in Kinds

TypeInv == TypeOK /\ AskedInv /\ PlanInv

-----------------------------------------------------------------------------
(* What is left of an operation, after a section and where it leads.         *)

\* After a section of EnterRoom or LeaveRoom the next one follows, and a list is
\* broadcast exactly when it has just been copied (RoomManager.cpp:21-23, 36-38).
LEMMA TailOfPlan ==
  ASSUME NEW p \in Plans, p # <<>>
  PROVE  /\ Tail(p) \in Plans \ Operations
         /\ Head(p) = "snapshot" => Tail(p) # <<>> /\ Head(Tail(p)) = "list"
         /\ Head(p) # "snapshot" /\ Tail(p) # <<>> => Head(Tail(p)) # "list"
<1> USE DEF Plans, Operations, EnterRoom, LeaveRoom, BroadcastMessage
<1>1. CASE p = <<"insert", "snapshot", "list", "joined">>
  BY <1>1
<1>2. CASE p = <<"erase", "left", "snapshot", "list", "delete">>
  BY <1>2
<1>3. CASE p = <<"chat">>
  BY <1>3
<1>4. CASE p = <<"insert">>
  BY <1>4
<1>5. CASE p = <<"snapshot", "list", "joined">>
  BY <1>5
<1>6. CASE p = <<"list", "joined">>
  BY <1>6
<1>7. CASE p = <<"joined">>
  BY <1>7
<1>8. CASE p = <<"left", "snapshot", "list", "delete">>
  BY <1>8
<1>9. CASE p = <<"snapshot", "list", "delete">>
  BY <1>9
<1>10. CASE p = <<"list", "delete">>
  BY <1>10
<1>11. CASE p = <<"delete">>
  BY <1>11
<1> QED
  BY <1>1, <1>2, <1>3, <1>4, <1>5, <1>6, <1>7, <1>8, <1>9, <1>10, <1>11

\* An operation starts with all its sections before it (RoomManager.cpp:8-39).
LEMMA FirstPlans ==
  /\ EnterRoom \in Plans /\ LeaveRoom \in Plans /\ BroadcastMessage \in Plans
  /\ <<>> \in Plans /\ <<"insert">> \in Plans
  /\ EnterRoom # <<>> /\ LeaveRoom # <<>> /\ BroadcastMessage # <<>>
  /\ <<"insert">> # <<>>
BY DEF Plans, Operations, EnterRoom, LeaveRoom, BroadcastMessage

\* After unlock() a fiber locks again, goes back to read or deletes its stream.
LEMMA NextPc ==
  ASSUME NEW p
  PROVE  /\ Next_pc(p) \in {"read", "delete", "lock"}
         /\ Next_pc(p) = "lock" => p # <<>>
BY DEF Next_pc

\* The labels of the control state of a fiber.
LEMMA PcValues ==
  /\ "free" \in PCs /\ "read" \in PCs /\ "redis" \in PCs /\ "granted" \in PCs
  /\ "denied" \in PCs /\ "lock" \in PCs /\ "delay" \in PCs /\ "expired" \in PCs
  /\ "section" \in PCs /\ "full" \in PCs /\ "write" \in PCs /\ "unlock" \in PCs
  /\ "delete" \in PCs /\ "crashed" \in PCs
BY DEF PCs

-----------------------------------------------------------------------------
(* What requests, packets and sequences are made of.                         *)

\* A request names the user or the room that its handler reads.
LEMMA RequestTypes ==
  ASSUME NEW q \in Requests
  PROVE  /\ q.id \in {"ReqLogin", "ReqRoomEnter", "ReqRoomChat"}
         /\ q.id = "ReqLogin" => q.user \in Users
         /\ q.id = "ReqRoomEnter" => q.room \in Rooms
BY DEF Requests

\* Clients send requests that the switch knows (tcpCoroutine.cpp:47-87).
LEMMA ClientRequests ==
  ASSUME NEW c \in Conns
  PROVE  RequestsOf(c) \subseteq Requests
<1>1. Accounts[c] \subseteq Users /\ Doors[c] \subseteq Rooms
  BY ConstantsAssumption
<1> QED
  BY <1>1 DEF RequestsOf, Requests

\* The bound on wakeups is a natural number (fiber_mutex.c:499).
LEMMA WakeupBound == MaxWakeups \in Nat /\ 0 \in 0 .. MaxWakeups
BY ConstantsAssumption

\* The members of a room are users.
LEMMA MembersType == \A r : Members(r) \in SUBSET Users
BY DEF Members

\* array_pop_front keeps the waiters of the mutex a sequence of fibers
\* (array.c:27-50).
LEMMA PopFrontType ==
  ASSUME NEW S, NEW q \in Seq(S)
  PROVE  PopFront(q) \in Seq(S)
<1>1. CASE Len(q) <= 1
  BY <1>1 DEF PopFront
<1>2. CASE Len(q) > 1
  <2>1. q[Len(q)] \in S /\ SubSeq(q, 2, Len(q) - 1) \in Seq(S)
    BY <1>2
  <2> QED
    BY <1>2, <2>1 DEF PopFront
<1> QED
  BY <1>1, <1>2

\* The event loop makes a queue of the fibers whose events happened.
LEMMA OrdersType ==
  ASSUME NEW S \in SUBSET Conns, NEW q \in Orders(S)
  PROVE  q \in Seq(Conns)
<1>1. Cardinality(S) \in Nat
  BY ConstantsAssumption, FS_Subset, FS_CardinalityType
<1> QED
  BY <1>1 DEF Orders

\* A write leaves packets in the sockets, whatever its outcome.
LEMMA WriteType ==
  ASSUME TypeOK, NEW c \in Conns, NEW d \in Conns, NEW packet \in Packets,
         Write(c, d, packet)
  PROVE  outbox' \in [Conns -> Seq(Packets)]
<1>1. outbox[d] \in Seq(Packets)
  BY DEF TypeOK
<1>2. Append(outbox[d], packet) \in Seq(Packets)
  BY <1>1
<1> QED
  BY <1>2 DEF Write, TypeOK

\* fiber_wait_write registers one fiber on one stream (fiber_io.c:619-650).
LEMMA WaitWritableType ==
  ASSUME TypeOK, NEW c \in Conns, NEW d \in Conns, WaitWritable(c, d)
  PROVE  /\ writer' \in [Conns -> Conns \cup {None}]
         /\ blockedOn' \in [Conns -> Conns \cup {None}]
         /\ running' \in Conns \cup {None}
         /\ outbox' \in [Conns -> Seq(Packets)]
BY DEF WaitWritable, TypeOK, netVars

-----------------------------------------------------------------------------
(* Type correctness.                                                         *)

\* The server starts in a well-typed state.
LEMMA TypeInit == Init => TypeInv
BY ConstantsAssumption DEF Init, TypeInv, TypeOK, AskedInv, PlanInv, Busy, PCs, Plans

\* Every step of the server keeps the types, and keeps a fiber in an operation
\* provided with sections, a user and a room.
LEMMA TypeStep == TypeInv /\ [Next]_vars => TypeInv'
<1> SUFFICES ASSUME TypeInv, [Next]_vars PROVE TypeInv'
  OBVIOUS
<1> USE DEF TypeInv, roomVars, mutexVars, writeVars, opVars, userVars, netVars
<1>0. CASE UNCHANGED vars
  BY <1>0 DEF vars, TypeOK, AskedInv, PlanInv
<1>1. CASE Poll
  <2>1. UNCHANGED <<rooms, roomKeys, mutex, waiters, wakeups, running,
                    writer, blockedOn, killed, pc, todo, targets, snap,
                    asked, currentUserID, currentRoomNumber, inbox, outbox,
                    hungup, sends, accepts>>
    BY <1>1 DEF Poll
  <2>2. ready' \in Seq(Conns)
    <3>1. PICK S \in SUBSET Conns : ready' \in Orders(S)
      BY <1>1 DEF Poll
    <3> QED
      BY <3>1, OrdersType
  <2>3. TypeOK'
    BY <2>1, <2>2 DEF TypeOK
  <2>4. AskedInv'
    BY <1>1 DEF TypeOK, AskedInv, Poll
  <2>5. PlanInv'
    BY <1>1 DEF TypeOK, PlanInv, Busy, Poll
  <2> QED
    BY <2>3, <2>4, <2>5
<1>2. CASE Resume
  <2>1. UNCHANGED <<rooms, roomKeys, mutex, waiters, killed, todo, targets,
                    snap, asked, currentUserID, currentRoomNumber, inbox,
                    outbox, hungup, sends, accepts>>
    BY <1>2 DEF Resume, ResumeWriter, ResumeWaiter, ResumeOther, MayRetry
  <2>2. ready' \in Seq(Conns)
    BY <1>2 DEF TypeOK, Resume, ResumeWriter, ResumeWaiter, ResumeOther, MayRetry
  <2>3. running' \in Conns \cup {None}
    BY <1>2 DEF TypeOK, Resume, ResumeWriter, ResumeWaiter, ResumeOther, MayRetry
  <2>4. writer' \in [Conns -> Conns \cup {None}]
    BY <1>2 DEF TypeOK, Resume, ResumeWriter, ResumeWaiter, ResumeOther, MayRetry
  <2>5. blockedOn' \in [Conns -> Conns \cup {None}]
    BY <1>2 DEF TypeOK, Resume, ResumeWriter, ResumeWaiter, ResumeOther, MayRetry
  <2>6. wakeups' \in [Conns -> 0 .. MaxWakeups]
    <3>1. ASSUME NEW c \in Conns, MayRetry(c) PROVE wakeups[c] + 1 \in 0 .. MaxWakeups
      BY SMTT(30), <3>1, WakeupBound DEF TypeOK, MayRetry
    <3>2. Head(ready) \in Conns
      BY <1>2 DEF TypeOK, Resume
    <3> QED
      BY <1>2, <3>1, <3>2, WakeupBound
      DEF TypeOK, Resume, ResumeWriter, ResumeWaiter, ResumeOther
  <2>7. pc' \in [Conns -> PCs]
    BY ZenonT(30), <1>2, PcValues
    DEF TypeOK, Resume, ResumeWriter, ResumeWaiter, ResumeOther, MayRetry
  <2>8. TypeOK'
    BY <2>1, <2>2, <2>3, <2>4, <2>5, <2>6, <2>7 DEF TypeOK
  <2>9. AskedInv'
    BY ZenonT(30), <1>2
    DEF TypeOK, AskedInv, Resume, ResumeWriter, ResumeWaiter, ResumeOther, MayRetry
  <2>10. PlanInv'
    BY ZenonT(30), <1>2
    DEF TypeOK, PlanInv, Busy, Resume, ResumeWriter, ResumeWaiter, ResumeOther,
        MayRetry
  <2> QED
    BY <2>8, <2>9, <2>10
<1>3. ASSUME NEW c \in Conns, Timer(c) PROVE TypeInv'
  <2>1. UNCHANGED <<rooms, roomKeys, mutex, waiters, wakeups, running,
                    ready, writer, blockedOn, killed, todo, targets, snap,
                    asked, currentUserID, currentRoomNumber, inbox, outbox,
                    hungup, sends, accepts>>
    BY <1>3 DEF Timer
  <2>2. pc' \in [Conns -> PCs]
    BY <1>3, PcValues DEF TypeOK, Timer
  <2>3. TypeOK'
    BY <2>1, <2>2 DEF TypeOK
  <2>4. AskedInv'
    BY <1>3 DEF TypeOK, AskedInv, Timer
  <2>5. PlanInv'
    BY <1>3 DEF TypeOK, PlanInv, Busy, Timer
  <2> QED
    BY <2>3, <2>4, <2>5
<1>4. ASSUME NEW c \in Conns, Accept(c) PROVE TypeInv'
  <2>1. UNCHANGED <<rooms, roomKeys, mutex, waiters, wakeups, running,
                    ready, writer, blockedOn, killed, todo, targets, snap,
                    asked, currentUserID, currentRoomNumber, inbox, outbox,
                    hungup, sends>>
    BY <1>4 DEF Accept
  <2>2. accepts' \in Nat
    BY <1>4 DEF TypeOK, Accept
  <2>3. pc' \in [Conns -> PCs]
    BY <1>4, PcValues DEF TypeOK, Accept
  <2>4. TypeOK'
    BY <2>1, <2>2, <2>3 DEF TypeOK
  <2>5. AskedInv'
    BY <1>4 DEF TypeOK, AskedInv, Accept
  <2>6. PlanInv'
    BY <1>4 DEF TypeOK, PlanInv, Busy, Accept
  <2> QED
    BY <2>4, <2>5, <2>6
<1>5. ASSUME NEW c \in Conns, ClientSend(c) PROVE TypeInv'
  <2>1. UNCHANGED <<rooms, roomKeys, mutex, waiters, wakeups, running,
                    ready, writer, blockedOn, killed, pc, todo, targets,
                    snap, asked, currentUserID, currentRoomNumber, outbox,
                    hungup, accepts>>
    BY <1>5 DEF ClientSend
  <2>2. sends' \in [Conns -> Nat]
    BY SMTT(30), <1>5 DEF TypeOK, ClientSend
  <2>3. inbox' \in [Conns -> Seq(Requests)]
    <3>1. PICK p \in Requests : inbox' = [inbox EXCEPT ![c] = Append(@, p)]
      BY <1>5, ClientRequests DEF ClientSend
    <3>2. Append(inbox[c], p) \in Seq(Requests)
      BY <3>1 DEF TypeOK
    <3> QED
      BY <3>1, <3>2 DEF TypeOK
  <2>4. TypeOK'
    BY <2>1, <2>2, <2>3 DEF TypeOK
  <2>5. AskedInv'
    BY <1>5 DEF TypeOK, AskedInv, ClientSend
  <2>6. PlanInv'
    BY <1>5 DEF TypeOK, PlanInv, Busy, ClientSend
  <2> QED
    BY <2>4, <2>5, <2>6
<1>6. ASSUME NEW c \in Conns, ClientRead(c) PROVE TypeInv'
  <2>1. UNCHANGED <<rooms, roomKeys, mutex, waiters, wakeups, running,
                    ready, writer, blockedOn, killed, pc, todo, targets,
                    snap, asked, currentUserID, currentRoomNumber, inbox,
                    hungup, sends, accepts>>
    BY <1>6 DEF ClientRead
  <2>2. outbox' \in [Conns -> Seq(Packets)]
    BY SMTT(30), <1>6 DEF TypeOK, ClientRead
  <2>3. TypeOK'
    BY <2>1, <2>2 DEF TypeOK
  <2>4. AskedInv'
    BY <1>6 DEF TypeOK, AskedInv, ClientRead
  <2>5. PlanInv'
    BY <1>6 DEF TypeOK, PlanInv, Busy, ClientRead
  <2> QED
    BY <2>3, <2>4, <2>5
<1>7. ASSUME NEW c \in Conns, Disconnect(c) PROVE TypeInv'
  <2>1. UNCHANGED <<rooms, roomKeys, mutex, waiters, wakeups, running,
                    ready, writer, blockedOn, killed, pc, todo, targets,
                    snap, asked, currentUserID, currentRoomNumber, inbox,
                    sends, accepts>>
    BY <1>7 DEF Disconnect
  <2>2. hungup' \in [Conns -> BOOLEAN]
    BY <1>7 DEF TypeOK, Disconnect
  <2>3. outbox' \in [Conns -> Seq(Packets)]
    BY <1>7 DEF TypeOK, Disconnect
  <2>4. TypeOK'
    BY <2>1, <2>2, <2>3 DEF TypeOK
  <2>5. AskedInv'
    BY <1>7 DEF TypeOK, AskedInv, Disconnect
  <2>6. PlanInv'
    BY <1>7 DEF TypeOK, PlanInv, Busy, Disconnect
  <2> QED
    BY <2>4, <2>5, <2>6
<1>8. ASSUME NEW c \in Conns, RedisReply(c) PROVE TypeInv'
  <2>1. UNCHANGED <<rooms, roomKeys, mutex, waiters, wakeups, running,
                    ready, writer, blockedOn, killed, todo, targets, snap,
                    asked, currentUserID, currentRoomNumber, inbox, outbox,
                    hungup, sends, accepts>>
    BY <1>8 DEF RedisReply
  <2>2. pc' \in [Conns -> PCs]
    BY <1>8, PcValues DEF TypeOK, RedisReply
  <2>3. TypeOK'
    BY <2>1, <2>2 DEF TypeOK
  <2>4. AskedInv'
    BY <1>8 DEF TypeOK, AskedInv, RedisReply
  <2>5. PlanInv'
    BY <1>8 DEF TypeOK, PlanInv, Busy, RedisReply
  <2> QED
    BY <2>3, <2>4, <2>5
<1>9. ASSUME NEW c \in Conns, Read(c) PROVE TypeInv'
  <2>1. UNCHANGED <<rooms, roomKeys, mutex, waiters, ready, writer,
                    blockedOn, killed, targets, snap, currentUserID, outbox,
                    hungup, sends, accepts>>
    BY <1>9 DEF Read, ReqLogin, ReqRoomEnter, ReqRoomChat, StartOp, Ignore, BackToRead
  <2>2. asked' \in [Conns -> Users \cup {None}]
    <3>1. Head(inbox[c]) \in Requests
      BY <1>9 DEF Read, TypeOK
    <3> QED
      BY <1>9, <3>1, RequestTypes DEF TypeOK, Read, ReqLogin, ReqRoomEnter, ReqRoomChat
  <2>3. pc' \in [Conns -> PCs]
    BY <1>9, PcValues
    DEF TypeOK, Read, ReqLogin, ReqRoomEnter, ReqRoomChat, StartOp, Ignore, BackToRead
  <2>4. running' \in Conns \cup {None}
    BY <1>9
    DEF TypeOK, Read, ReqLogin, ReqRoomEnter, ReqRoomChat, StartOp, Ignore, BackToRead
  <2>5. todo' \in [Conns -> Plans]
    BY <1>9, FirstPlans
    DEF TypeOK, Read, ReqLogin, ReqRoomEnter, ReqRoomChat, StartOp, Ignore, BackToRead
  <2>6. wakeups' \in [Conns -> 0 .. MaxWakeups]
    BY <1>9, WakeupBound
    DEF TypeOK, Read, ReqLogin, ReqRoomEnter, ReqRoomChat, StartOp, Ignore, BackToRead
  <2>7. currentRoomNumber' \in [Conns -> Rooms \cup {None}]
    <3>1. Head(inbox[c]) \in Requests
      BY <1>9 DEF Read, TypeOK
    <3> QED
      BY <1>9, <3>1, RequestTypes DEF TypeOK, Read, ReqLogin, ReqRoomEnter, ReqRoomChat
  <2>8. inbox' \in [Conns -> Seq(Requests)]
    BY <1>9
    DEF TypeOK, Read, ReqLogin, ReqRoomEnter, ReqRoomChat, StartOp, Ignore, BackToRead
  <2>9. TypeOK'
    BY <2>1, <2>2, <2>3, <2>4, <2>5, <2>6, <2>7, <2>8 DEF TypeOK
  <2>10. AskedInv'
    <3>1. Head(inbox[c]) \in Requests
      BY <1>9 DEF Read, TypeOK
    <3>2. None \notin Users
      BY ConstantsAssumption
    <3> QED
      BY <1>9, <3>1, <3>2, RequestTypes
      DEF TypeOK, AskedInv, Read, ReqLogin, ReqRoomEnter, ReqRoomChat, StartOp, Ignore
  <2>11. PlanInv'
    <3>1. Head(inbox[c]) \in Requests
      BY <1>9 DEF Read, TypeOK
    <3>2. None \notin Rooms
      BY ConstantsAssumption
    <3>3. CASE ReqLogin(c, Head(inbox[c]))
      BY <1>9, <3>3 DEF TypeOK, PlanInv, Busy, Read, ReqLogin
    <3>4. CASE ReqRoomEnter(c, Head(inbox[c]))
      BY <1>9, <3>1, <3>2, <3>4, RequestTypes, FirstPlans
      DEF TypeOK, PlanInv, Busy, Read, ReqRoomEnter, StartOp, Ignore
    <3>5. CASE ReqRoomChat(c, Head(inbox[c]))
      BY SMTT(30), <1>9, <3>5, FirstPlans
      DEF TypeOK, PlanInv, Busy, Read, ReqRoomChat, StartOp, Ignore
    <3> QED
      BY <1>9, <3>3, <3>4, <3>5 DEF Read
  <2> QED
    BY <2>9, <2>10, <2>11
<1>10. ASSUME NEW c \in Conns, ReadFailed(c) PROVE TypeInv'
  <2>1. UNCHANGED <<rooms, roomKeys, mutex, waiters, ready, writer,
                    blockedOn, killed, targets, snap, asked, currentUserID,
                    currentRoomNumber, inbox, outbox, hungup, sends, accepts>>
    BY <1>10 DEF ReadFailed, StartOp
  <2>2. pc' \in [Conns -> PCs]
    BY <1>10, PcValues DEF TypeOK, ReadFailed, StartOp
  <2>3. todo' \in [Conns -> Plans]
    BY <1>10, FirstPlans DEF TypeOK, ReadFailed, StartOp
  <2>4. wakeups' \in [Conns -> 0 .. MaxWakeups]
    BY <1>10, WakeupBound DEF TypeOK, ReadFailed, StartOp
  <2>5. running' \in Conns \cup {None}
    BY <1>10 DEF TypeOK, ReadFailed, StartOp
  <2>6. TypeOK'
    BY <2>1, <2>2, <2>3, <2>4, <2>5 DEF TypeOK
  <2>7. AskedInv'
    BY <1>10 DEF TypeOK, AskedInv, ReadFailed, StartOp
  <2>8. PlanInv'
    BY SMTT(30), <1>10, FirstPlans DEF TypeOK, PlanInv, Busy, ReadFailed, StartOp
  <2> QED
    BY <2>6, <2>7, <2>8
<1>11. ASSUME NEW c \in Conns, Answer(c) PROVE TypeInv'
  <2>1. UNCHANGED <<rooms, roomKeys, mutex, waiters, wakeups, ready, killed,
                    todo, targets, snap, currentRoomNumber, inbox, hungup,
                    sends, accepts>>
    BY <1>11 DEF Answer, Write, WaitWritable, BackToRead
  <2>2. outbox' \in [Conns -> Seq(Packets)]
    <3>1. [kind |-> IF pc[c] = "granted" THEN "LoginSuccess" ELSE "LoginFailed",
           users |-> {}] \in Packets
      BY DEF Packets, Kinds
    <3> QED
      BY <1>11, <3>1, WriteType, WaitWritableType DEF Answer
  <2>3. currentUserID' \in [Conns -> Users \cup {None}]
    BY <1>11 DEF TypeOK, Answer, Write, WaitWritable, BackToRead
  <2>4. asked' \in [Conns -> Users \cup {None}]
    BY <1>11 DEF TypeOK, Answer, Write, WaitWritable, BackToRead
  <2>5. pc' \in [Conns -> PCs]
    BY <1>11, PcValues DEF TypeOK, Answer, Write, WaitWritable, BackToRead
  <2>6. running' \in Conns \cup {None}
    BY <1>11 DEF TypeOK, Answer, Write, WaitWritable, BackToRead
  <2>7. writer' \in [Conns -> Conns \cup {None}]
    BY <1>11 DEF TypeOK, Answer, Write, WaitWritable, BackToRead
  <2>8. blockedOn' \in [Conns -> Conns \cup {None}]
    BY <1>11 DEF TypeOK, Answer, Write, WaitWritable, BackToRead
  <2>9. TypeOK'
    BY <2>1, <2>2, <2>3, <2>4, <2>5, <2>6, <2>7, <2>8 DEF TypeOK
  <2>10. AskedInv'
    BY <1>11 DEF TypeOK, AskedInv, Answer, Write, WaitWritable, BackToRead
  <2>11. PlanInv'
    <3>1. asked[c] # None
      BY <1>11 DEF AskedInv, Answer
    <3> QED
      BY <1>11, <3>1 DEF TypeOK, PlanInv, Busy, Answer, Write, WaitWritable
  <2> QED
    BY <2>9, <2>10, <2>11
<1>12. ASSUME NEW c \in Conns, Delete(c) PROVE TypeInv'
  <2>1. UNCHANGED <<rooms, roomKeys, mutex, waiters, wakeups, targets, snap,
                    asked, accepts>>
    BY <1>12 DEF Delete
  <2>2. pc' \in [Conns -> PCs]
    BY <1>12, PcValues DEF TypeOK, Delete
  <2>3. running' \in Conns \cup {None}
    BY <1>12 DEF TypeOK, Delete
  <2>4. killed' \in [Conns -> BOOLEAN]
    BY <1>12 DEF TypeOK, Delete
  <2>5. ready' \in Seq(Conns)
    BY <1>12 DEF TypeOK, Delete
  <2>6. writer' \in [Conns -> Conns \cup {None}]
    BY <1>12 DEF TypeOK, Delete
  <2>7. blockedOn' \in [Conns -> Conns \cup {None}]
    BY <1>12 DEF TypeOK, Delete
  <2>8. todo' \in [Conns -> Plans]
    BY <1>12, FirstPlans DEF TypeOK, Delete
  <2>9. currentUserID' \in [Conns -> Users \cup {None}]
    BY <1>12 DEF TypeOK, Delete
  <2>10. currentRoomNumber' \in [Conns -> Rooms \cup {None}]
    BY <1>12 DEF TypeOK, Delete
  <2>11. inbox' \in [Conns -> Seq(Requests)]
    BY <1>12 DEF TypeOK, Delete
  <2>12. outbox' \in [Conns -> Seq(Packets)]
    BY <1>12 DEF TypeOK, Delete
  <2>13. hungup' \in [Conns -> BOOLEAN]
    BY <1>12 DEF TypeOK, Delete
  <2>14. sends' \in [Conns -> Nat]
    BY <1>12 DEF TypeOK, Delete
  <2>15. TypeOK'
    BY <2>1, <2>2, <2>3, <2>4, <2>5, <2>6, <2>7, <2>8, <2>9, <2>10, <2>11, <2>12,
       <2>13, <2>14
    DEF TypeOK
  <2>16. AskedInv'
    BY <1>12 DEF TypeOK, AskedInv, Delete
  <2>17. PlanInv'
    BY <1>12 DEF TypeOK, PlanInv, Busy, Delete
  <2> QED
    BY <2>15, <2>16, <2>17
<1>13. ASSUME NEW c \in Conns, Lock(c) PROVE TypeInv'
  <2>1. UNCHANGED <<rooms, roomKeys, ready, writer, blockedOn, killed, todo,
                    targets, snap, asked, currentUserID, currentRoomNumber,
                    inbox, outbox, hungup, sends, accepts>>
    BY <1>13 DEF Lock
  <2>2. mutex' \in Conns \cup {None}
    BY <1>13 DEF TypeOK, Lock
  <2>3. pc' \in [Conns -> PCs]
    BY <1>13, PcValues DEF TypeOK, Lock
  <2>4. wakeups' \in [Conns -> 0 .. MaxWakeups]
    BY <1>13, WakeupBound DEF TypeOK, Lock
  <2>5. waiters' \in Seq(Conns)
    <3>1. Append(waiters, c) \in Seq(Conns)
      BY DEF TypeOK
    <3> QED
      BY <1>13, <3>1 DEF TypeOK, Lock
  <2>6. running' \in Conns \cup {None}
    BY <1>13 DEF TypeOK, Lock
  <2>7. TypeOK'
    BY <2>1, <2>2, <2>3, <2>4, <2>5, <2>6 DEF TypeOK
  <2>8. AskedInv'
    BY <1>13 DEF TypeOK, AskedInv, Lock
  <2>9. PlanInv'
    BY <1>13 DEF TypeOK, PlanInv, Busy, Lock
  <2> QED
    BY <2>7, <2>8, <2>9
<1>14. ASSUME NEW c \in Conns, Unlock(c) PROVE TypeInv'
  <2>1. UNCHANGED <<rooms, roomKeys, wakeups, writer, blockedOn, killed,
                    targets, asked, currentUserID, currentRoomNumber, inbox,
                    outbox, hungup, sends, accepts>>
    BY <1>14 DEF Unlock, RunOn, Wake, PopFront, BackToRead
  <2>2. mutex' \in Conns \cup {None}
    BY <1>14 DEF TypeOK, Unlock, RunOn, Wake, PopFront, BackToRead
  <2>3. waiters' \in Seq(Conns)
    BY <1>14, PopFrontType DEF TypeOK, Unlock
  <2>4. ready' \in Seq(Conns)
    BY <1>14 DEF TypeOK, Unlock, RunOn, Wake, PopFront, BackToRead
  <2>5. todo' \in [Conns -> Plans]
    BY <1>14, TailOfPlan DEF TypeOK, PlanInv, Busy, Unlock
  <2>6. pc' \in [Conns -> PCs]
    BY <1>14, NextPc, PcValues DEF TypeOK, Unlock
  <2>7. snap' \in [Conns -> SUBSET Users]
    BY <1>14 DEF TypeOK, Unlock, RunOn, Wake, PopFront, BackToRead
  <2>8. running' \in Conns \cup {None}
    BY <1>14 DEF TypeOK, Unlock, RunOn, Wake, PopFront, BackToRead
  <2>9. TypeOK'
    BY <2>1, <2>2, <2>3, <2>4, <2>5, <2>6, <2>7, <2>8 DEF TypeOK
  <2>10. AskedInv'
    BY <1>14, NextPc DEF TypeOK, AskedInv, Unlock
  <2>11. PlanInv'
    BY <1>14, NextPc DEF TypeOK, PlanInv, Busy, Unlock
  <2> QED
    BY <2>9, <2>10, <2>11
<1>15. ASSUME NEW c \in Conns, Insert(c) PROVE TypeInv'
  <2>1. currentRoomNumber[c] \in Rooms /\ currentUserID[c] \in Users
    BY <1>15 DEF TypeOK, PlanInv, Insert, InSection
  <2>2. UNCHANGED <<mutex, waiters, wakeups, running, ready, writer,
                    blockedOn, killed, todo, targets, snap, asked,
                    currentUserID, currentRoomNumber, inbox, outbox, hungup,
                    sends, accepts>>
    BY <1>15 DEF Insert, InSection, GoTo
  <2>3. rooms' \in [Rooms -> [Users -> Conns \cup {None}]]
    <3>1. [rooms[currentRoomNumber[c]] EXCEPT ![currentUserID[c]] = c]
            \in [Users -> Conns \cup {None}]
      BY <2>1 DEF TypeOK
    <3> QED
      BY <1>15, <2>1, <3>1 DEF TypeOK, Insert
  <2>4. roomKeys' \in SUBSET Rooms
    BY <1>15, <2>1 DEF TypeOK, Insert
  <2>5. pc' \in [Conns -> PCs]
    BY <1>15, PcValues DEF TypeOK, Insert, InSection, GoTo
  <2>6. TypeOK'
    BY <2>2, <2>3, <2>4, <2>5 DEF TypeOK
  <2>7. AskedInv'
    BY <1>15 DEF TypeOK, AskedInv, Insert, InSection, GoTo
  <2>8. PlanInv'
    BY <1>15 DEF TypeOK, PlanInv, Busy, Insert, InSection, GoTo
  <2> QED
    BY <2>6, <2>7, <2>8
<1>16. ASSUME NEW c \in Conns, RefuseEntry(c) PROVE TypeInv'
  <2>1. UNCHANGED <<rooms, roomKeys, mutex, waiters, wakeups, ready, killed,
                    targets, snap, asked, currentUserID, currentRoomNumber,
                    inbox, hungup, sends, accepts>>
    BY <1>16 DEF RefuseEntry, Write, WaitWritable, GoTo
  <2>2. outbox' \in [Conns -> Seq(Packets)]
    <3>1. [kind |-> "RoomFull", users |-> {}] \in Packets
      BY DEF Packets, Kinds
    <3> QED
      BY <1>16, <3>1, WriteType, WaitWritableType DEF RefuseEntry
  <2>3. todo' \in [Conns -> Plans]
    BY <1>16, FirstPlans DEF TypeOK, RefuseEntry, Write, WaitWritable, GoTo
  <2>4. pc' \in [Conns -> PCs]
    BY <1>16, PcValues DEF TypeOK, RefuseEntry, Write, WaitWritable, GoTo
  <2>5. writer' \in [Conns -> Conns \cup {None}]
    BY <1>16 DEF TypeOK, RefuseEntry, Write, WaitWritable, GoTo
  <2>6. blockedOn' \in [Conns -> Conns \cup {None}]
    BY <1>16 DEF TypeOK, RefuseEntry, Write, WaitWritable, GoTo
  <2>7. running' \in Conns \cup {None}
    BY <1>16 DEF TypeOK, RefuseEntry, Write, WaitWritable, GoTo
  <2>8. TypeOK'
    BY <2>1, <2>2, <2>3, <2>4, <2>5, <2>6, <2>7 DEF TypeOK
  <2>9. AskedInv'
    BY <1>16 DEF TypeOK, AskedInv, RefuseEntry, Write, WaitWritable, GoTo
  <2>10. PlanInv'
    BY <1>16, FirstPlans
    DEF TypeOK, PlanInv, Busy, RefuseEntry, Write, WaitWritable, GoTo
  <2> QED
    BY <2>8, <2>9, <2>10
<1>17. ASSUME NEW c \in Conns, Erase(c) PROVE TypeInv'
  <2>1. currentRoomNumber[c] \in Rooms /\ currentUserID[c] \in Users
    BY <1>17 DEF TypeOK, PlanInv, Erase, InSection
  <2>2. UNCHANGED <<mutex, waiters, wakeups, running, ready, writer,
                    blockedOn, killed, todo, targets, snap, asked,
                    currentUserID, currentRoomNumber, inbox, outbox, hungup,
                    sends, accepts>>
    BY <1>17 DEF Erase, InSection, GoTo
  <2>3. rooms' \in [Rooms -> [Users -> Conns \cup {None}]]
    <3>1. [rooms[currentRoomNumber[c]] EXCEPT ![currentUserID[c]] = None]
            \in [Users -> Conns \cup {None}]
      BY <2>1 DEF TypeOK
    <3> QED
      BY <1>17, <2>1, <3>1 DEF TypeOK, Erase
  <2>4. roomKeys' \in SUBSET Rooms
    BY <1>17, <2>1 DEF TypeOK, Erase
  <2>5. pc' \in [Conns -> PCs]
    BY <1>17, PcValues DEF TypeOK, Erase, InSection, GoTo
  <2>6. TypeOK'
    BY <2>2, <2>3, <2>4, <2>5 DEF TypeOK
  <2>7. AskedInv'
    BY <1>17 DEF TypeOK, AskedInv, Erase, InSection, GoTo
  <2>8. PlanInv'
    BY <1>17 DEF TypeOK, PlanInv, Busy, Erase, InSection, GoTo
  <2> QED
    BY <2>6, <2>7, <2>8
<1>18. ASSUME NEW c \in Conns, Snapshot(c) PROVE TypeInv'
  <2>1. todo[c] \in Plans /\ todo[c] # <<>> /\ Head(todo[c]) = "snapshot"
    BY <1>18 DEF TypeOK, Snapshot, InSection
  <2>2. Tail(todo[c]) \in Plans /\ Tail(todo[c]) # <<>>
    BY <2>1, TailOfPlan
  <2>3. UNCHANGED <<rooms, roomKeys, mutex, waiters, wakeups, running,
                    ready, writer, blockedOn, killed, targets, asked,
                    currentUserID, currentRoomNumber, inbox, outbox, hungup,
                    sends, accepts>>
    BY <1>18 DEF Snapshot, InSection, GoTo
  <2>4. snap' \in [Conns -> SUBSET Users]
    <3>1. PICK S \in SUBSET Users : snap' \in {snap, [snap EXCEPT ![c] = S]}
      <4>1. SUBSET Members(currentRoomNumber[c]) \subseteq SUBSET Users
        BY MembersType
      <4> QED
        BY <1>18, <4>1 DEF Snapshot
    <3> QED
      BY <3>1 DEF TypeOK
  <2>5. todo' \in [Conns -> Plans]
    BY <1>18, <2>2 DEF TypeOK, Snapshot
  <2>6. pc' \in [Conns -> PCs]
    BY <1>18, PcValues DEF TypeOK, Snapshot, InSection, GoTo
  <2>7. TypeOK'
    BY <2>3, <2>4, <2>5, <2>6 DEF TypeOK
  <2>8. AskedInv'
    BY <1>18 DEF TypeOK, AskedInv, Snapshot, InSection, GoTo
  <2>9. PlanInv'
    BY <1>18, <2>1, <2>2 DEF TypeOK, PlanInv, Busy, Snapshot, GoTo
  <2> QED
    BY <2>7, <2>8, <2>9
<1>19. ASSUME NEW c \in Conns, StartBroadcast(c) PROVE TypeInv'
  <2>1. UNCHANGED <<rooms, roomKeys, mutex, waiters, wakeups, running,
                    ready, writer, blockedOn, killed, todo, snap, asked,
                    currentUserID, currentRoomNumber, inbox, outbox, hungup,
                    sends, accepts>>
    BY <1>19 DEF StartBroadcast, InSection, GoTo
  <2>2. targets' \in [Conns -> SUBSET Users]
    <3>1. PICK S \in SUBSET Users : targets' \in {targets, [targets EXCEPT ![c] = S]}
      BY <1>19, MembersType DEF StartBroadcast
    <3> QED
      BY <3>1 DEF TypeOK
  <2>3. pc' \in [Conns -> PCs]
    BY <1>19, PcValues DEF TypeOK, StartBroadcast, InSection, GoTo
  <2>4. TypeOK'
    BY <2>1, <2>2, <2>3 DEF TypeOK
  <2>5. AskedInv'
    BY <1>19 DEF TypeOK, AskedInv, StartBroadcast, InSection, GoTo
  <2>6. PlanInv'
    BY <1>19 DEF TypeOK, PlanInv, Busy, Kinds, StartBroadcast, InSection, GoTo
  <2> QED
    BY <2>4, <2>5, <2>6
<1>20. ASSUME NEW c \in Conns, Broadcast(c) PROVE TypeInv'
  <2>1. PICK u \in targets[c] : BroadcastTo(c, u)
    BY <1>20 DEF Broadcast
  <2> DEFINE d == rooms[currentRoomNumber[c]][u]
  <2>2. d \in Conns /\ Notification(c) \in Packets
    <3>1. currentRoomNumber[c] \in Rooms /\ currentUserID[c] \in Users /\ u \in Users
      BY <1>20, <2>1 DEF TypeOK, PlanInv, Busy, Broadcast
    <3>2. d \in Conns
      BY <2>1, <3>1 DEF TypeOK, BroadcastTo
    <3>3. Head(todo[c]) \in Kinds
      BY <1>20 DEF PlanInv, Broadcast
    <3> QED
      BY <3>1, <3>2, <3>3 DEF TypeOK, Notification, Packets
  <2>3. UNCHANGED <<rooms, roomKeys, mutex, waiters, wakeups, ready, killed,
                    todo, snap, asked, currentUserID, currentRoomNumber,
                    inbox, hungup, sends, accepts>>
    BY <1>20 DEF Broadcast, BroadcastTo, Write, WaitWritable, GoTo
  <2>4. targets' \in [Conns -> SUBSET Users]
    <3>1. targets[c] \ {u} \in SUBSET Users
      BY DEF TypeOK
    <3>2. targets' = targets \/ targets' = [targets EXCEPT ![c] = @ \ {u}]
      BY <2>1 DEF BroadcastTo
    <3> QED
      BY <3>1, <3>2 DEF TypeOK
  <2>5. pc' \in [Conns -> PCs]
    <3>1. pc' = pc \/ \E l \in PCs : pc' = [pc EXCEPT ![c] = l]
      BY <2>1, PcValues DEF BroadcastTo, WaitWritable, GoTo
    <3> QED
      BY <3>1 DEF TypeOK
  <2>6. running' \in Conns \cup {None}
    BY <1>20, <2>1, <2>2, WriteType, WaitWritableType
    DEF TypeOK, Broadcast, BroadcastTo, writeVars
  <2>7. writer' \in [Conns -> Conns \cup {None}]
    BY <1>20, <2>1, <2>2, WriteType, WaitWritableType
    DEF TypeOK, Broadcast, BroadcastTo, writeVars
  <2>8. blockedOn' \in [Conns -> Conns \cup {None}]
    BY <1>20, <2>1, <2>2, WriteType, WaitWritableType
    DEF TypeOK, Broadcast, BroadcastTo, writeVars
  <2>9. outbox' \in [Conns -> Seq(Packets)]
    BY <1>20, <2>1, <2>2, WriteType, WaitWritableType
    DEF TypeOK, Broadcast, BroadcastTo, writeVars
  <2>10. TypeOK'
    BY <2>3, <2>4, <2>5, <2>6, <2>7, <2>8, <2>9 DEF TypeOK
  <2>11. AskedInv'
    BY <1>20 DEF TypeOK, AskedInv, Broadcast, BroadcastTo, Write, WaitWritable, GoTo
  <2>12. PlanInv'
    BY <1>20
    DEF TypeOK, PlanInv, Busy, Broadcast, BroadcastTo, Write, WaitWritable, GoTo
  <2> QED
    BY <2>10, <2>11, <2>12
<1> QED
  BY <1>0, <1>1, <1>2, <1>3, <1>4, <1>5, <1>6, <1>7, <1>8, <1>9, <1>10, <1>11, <1>12,
     <1>13, <1>14, <1>15, <1>16, <1>17, <1>18, <1>19, <1>20
  DEF Next, FiberStep, Environment

\* Every variable keeps its type, whatever the number of connections, users and
\* rooms, and whatever the bounds.
THEOREM TypeCorrect == Spec => []TypeOK
<1>1. TypeInv => TypeOK
  BY DEF TypeInv
<1> QED
  BY <1>1, TypeInit, TypeStep, PTL DEF Spec

-----------------------------------------------------------------------------
(* One operation at a time.                                                  *)

\* The owner of room_mutex_ is the one fiber inside a critical section.
Holding == {"section", "full", "write", "unlock", "crashed"}
MutexInv == \A c \in Conns : mutex = c <=> pc[c] \in Holding

\* Between two sections of an operation the mutex is free, but its fiber still
\* runs; a fiber that waits for the mutex has not begun.
TurnInv ==
  \A c \in Conns :
    /\ pc[c] \in {"delay", "expired"} => todo[c] \in Operations
    /\ pc[c] = "lock" /\ todo[c] \notin Operations => running = c /\ mutex = None

TurnsInv == TypeInv /\ MutexInv /\ TurnInv

\* The server starts with room_mutex_ free.
LEMMA TurnsInit == Init => TurnsInv
BY TypeInit, ConstantsAssumption DEF TurnsInv, Init, MutexInv, TurnInv, Holding

\* The turns imply that only one fiber is inside an operation of RoomManager.
LEMMA Exclusion == TurnsInv => OneOperationAtATime
BY ZenonT(30), ConstantsAssumption DEF TurnsInv, TypeInv, TypeOK, MutexInv, TurnInv, Holding,
   OneOperationAtATime, Begun

\* Every step keeps the mutex with the one fiber that is inside a section, and
\* the processor with the one that is between two sections.
LEMMA TurnsStep == TurnsInv /\ [Next]_vars => TurnsInv'
<1> SUFFICES ASSUME TurnsInv, [Next]_vars PROVE MutexInv' /\ TurnInv'
  BY TypeStep DEF TurnsInv
<1> None \notin Conns
  BY ConstantsAssumption
<1> USE DEF TurnsInv, TypeInv, roomVars, mutexVars, writeVars, opVars, userVars, netVars
<1>0. CASE UNCHANGED <<mutex, running, pc, todo>>
  BY <1>0 DEF MutexInv, TurnInv
<1>1. CASE Resume
  <2>1. MutexInv'
    BY ZenonT(30), <1>1
    DEF TypeOK, MutexInv, Holding, Resume, ResumeWriter, ResumeWaiter, ResumeOther,
        MayRetry
  <2>2. TurnInv'
    BY <1>1
    DEF TypeOK, TurnInv, Holding, Resume, ResumeWriter, ResumeWaiter, ResumeOther,
        MayRetry
  <2> QED
    BY <2>1, <2>2
<1>2. ASSUME NEW c \in Conns, Timer(c) PROVE MutexInv' /\ TurnInv'
  <2>1. MutexInv'
    BY <1>2 DEF TypeOK, MutexInv, Holding, Timer
  <2>2. TurnInv'
    BY <1>2 DEF TypeOK, TurnInv, Holding, Timer
  <2> QED
    BY <2>1, <2>2
<1>3. ASSUME NEW c \in Conns, Accept(c) PROVE MutexInv' /\ TurnInv'
  <2>1. MutexInv'
    BY <1>3 DEF TypeOK, MutexInv, Holding, Accept, Live
  <2>2. TurnInv'
    BY <1>3 DEF TypeOK, TurnInv, Holding, Accept, Live
  <2> QED
    BY <2>1, <2>2
<1>4. ASSUME NEW c \in Conns, RedisReply(c) PROVE MutexInv' /\ TurnInv'
  <2>1. MutexInv'
    BY <1>4 DEF TypeOK, MutexInv, Holding, RedisReply
  <2>2. TurnInv'
    BY <1>4 DEF TypeOK, TurnInv, Holding, RedisReply
  <2> QED
    BY <2>1, <2>2
<1>5. ASSUME NEW c \in Conns, running = c, Read(c) PROVE MutexInv' /\ TurnInv'
  <2>1. EnterRoom \in Operations /\ BroadcastMessage \in Operations
    BY DEF Operations
  <2>2. MutexInv'
    BY <1>5, <2>1
    DEF TypeOK, MutexInv, Holding, Read, ReqLogin, ReqRoomEnter, ReqRoomChat, StartOp,
        Ignore, BackToRead
  <2>3. TurnInv'
    BY SMTT(30), <1>5, <2>1
    DEF TypeOK, TurnInv, Holding, Read, ReqLogin, ReqRoomEnter, ReqRoomChat, StartOp,
        Ignore, BackToRead
  <2> QED
    BY <2>2, <2>3
<1>6. ASSUME NEW c \in Conns, running = c, ReadFailed(c) PROVE MutexInv' /\ TurnInv'
  <2>1. LeaveRoom \in Operations
    BY DEF Operations
  <2>2. MutexInv'
    BY ZenonT(30), <1>6, <2>1 DEF TypeOK, MutexInv, Holding, ReadFailed, StartOp
  <2>3. TurnInv'
    BY ZenonT(30), <1>6, <2>1 DEF TypeOK, TurnInv, Holding, ReadFailed, StartOp
  <2> QED
    BY <2>2, <2>3
<1>7. ASSUME NEW c \in Conns, running = c, Answer(c) PROVE MutexInv' /\ TurnInv'
  <2>1. MutexInv'
    BY <1>7 DEF TypeOK, MutexInv, Holding, Answer, Write, WaitWritable, BackToRead
  <2>2. TurnInv'
    BY <1>7 DEF TypeOK, TurnInv, Holding, Answer, Write, WaitWritable, BackToRead
  <2> QED
    BY <2>1, <2>2
<1>8. ASSUME NEW c \in Conns, running = c, Delete(c) PROVE MutexInv' /\ TurnInv'
  <2>1. MutexInv'
    BY <1>8 DEF TypeOK, MutexInv, Holding, Delete
  <2>2. TurnInv'
    BY <1>8 DEF TypeOK, TurnInv, Holding, Delete
  <2> QED
    BY <2>1, <2>2
<1>9. ASSUME NEW c \in Conns, running = c, Lock(c) PROVE MutexInv' /\ TurnInv'
  <2>1. MutexInv'
    BY <1>9 DEF TypeOK, MutexInv, Holding, Lock
  <2>2. TurnInv'
    BY <1>9 DEF TypeOK, TurnInv, Holding, Lock
  <2> QED
    BY <2>1, <2>2
<1>10. ASSUME NEW c \in Conns, running = c, Unlock(c) PROVE MutexInv' /\ TurnInv'
  <2>1. /\ Tail(todo[c]) \in Plans \ Operations
        /\ Next_pc(Tail(todo[c])) \in {"read", "delete", "lock"}
        /\ Next_pc(Tail(todo[c])) = "lock" => Tail(todo[c]) # <<>>
    BY <1>10, TailOfPlan, NextPc DEF TypeInv, TypeOK, PlanInv, Busy, Unlock
  <2>2. MutexInv'
    BY <1>10, <2>1
    DEF TypeOK, MutexInv, Holding, Unlock, RunOn, Wake, PopFront, BackToRead
  <2>3. TurnInv'
    BY <1>10, <2>1
    DEF TypeOK, TurnInv, Holding, Unlock, RunOn, Wake, PopFront, BackToRead
  <2> QED
    BY <2>2, <2>3
<1>11. ASSUME NEW c \in Conns, running = c, Insert(c) PROVE MutexInv' /\ TurnInv'
  <2>1. MutexInv'
    BY <1>11 DEF TypeOK, MutexInv, Holding, Insert, InSection, GoTo
  <2>2. TurnInv'
    BY <1>11 DEF TypeOK, TurnInv, Holding, Insert, InSection, GoTo
  <2> QED
    BY <2>1, <2>2
<1>12. ASSUME NEW c \in Conns, running = c, RefuseEntry(c) PROVE MutexInv' /\ TurnInv'
  <2>1. MutexInv'
    BY <1>12 DEF TypeOK, MutexInv, Holding, RefuseEntry, Write, WaitWritable, GoTo
  <2>2. TurnInv'
    BY ZenonT(30), <1>12 DEF TypeOK, TurnInv, Holding, RefuseEntry, Write, WaitWritable, GoTo
  <2> QED
    BY <2>1, <2>2
<1>13. ASSUME NEW c \in Conns, running = c, Erase(c) PROVE MutexInv' /\ TurnInv'
  <2>1. MutexInv'
    BY <1>13 DEF TypeOK, MutexInv, Holding, Erase, InSection, GoTo
  <2>2. TurnInv'
    BY <1>13 DEF TypeOK, TurnInv, Holding, Erase, InSection, GoTo
  <2> QED
    BY <2>1, <2>2
<1>14. ASSUME NEW c \in Conns, running = c, Snapshot(c) PROVE MutexInv' /\ TurnInv'
  <2>1. MutexInv'
    BY <1>14 DEF TypeOK, MutexInv, Holding, Snapshot, InSection, GoTo
  <2>2. TurnInv'
    BY <1>14 DEF TypeOK, TurnInv, Holding, Snapshot, InSection, GoTo
  <2> QED
    BY <2>1, <2>2
<1>15. ASSUME NEW c \in Conns, running = c, StartBroadcast(c) PROVE MutexInv' /\ TurnInv'
  <2>1. MutexInv'
    BY <1>15 DEF TypeOK, MutexInv, Holding, StartBroadcast, InSection, GoTo
  <2>2. TurnInv'
    BY <1>15 DEF TypeOK, TurnInv, Holding, StartBroadcast, InSection, GoTo
  <2> QED
    BY <2>1, <2>2
<1>16. ASSUME NEW c \in Conns, running = c, Broadcast(c) PROVE MutexInv' /\ TurnInv'
  <2>1. MutexInv'
    BY ZenonT(30), <1>16
    DEF TypeOK, MutexInv, Holding, Broadcast, BroadcastTo, Write, WaitWritable, GoTo
  <2>2. TurnInv'
    BY SMTT(30), <1>16
    DEF TypeOK, TurnInv, Holding, Broadcast, BroadcastTo, Write, WaitWritable, GoTo
  <2> QED
    BY <2>1, <2>2
<1> QED
  BY <1>0, <1>1, <1>2, <1>3, <1>4, <1>5, <1>6, <1>7, <1>8, <1>9, <1>10, <1>11, <1>12,
     <1>13, <1>14, <1>15, <1>16
  DEF Next, FiberStep, Environment, vars, Poll, ClientSend, ClientRead, Disconnect

\* However the fibers are scheduled, the operations of RoomManager, each made of
\* several critical sections, follow one another.
THEOREM OneAtATime == Spec => []OneOperationAtATime
<1> QED
  BY TurnsInit, TurnsStep, Exclusion, PTL DEF Spec

-----------------------------------------------------------------------------
(* The rooms while an operation is under way.                                *)

\* Only EnterRoom and LeaveRoom change rooms_ (RoomManager.cpp:18, 28-32).
LEMMA RoomChanges ==
  ASSUME [Next]_vars
  PROVE  \/ UNCHANGED roomVars
         \/ \E c \in Conns : FiberStep(c) /\ (Insert(c) \/ Erase(c))
<1> USE DEF Write, WaitWritable
<1>1. ASSUME NEW c \in Conns, FiberStep(c)
      PROVE  UNCHANGED roomVars \/ Insert(c) \/ Erase(c)
  BY <1>1 DEF FiberStep, Read, ReadFailed, Answer, Delete, Lock, Unlock, RefuseEntry,
     Snapshot, StartBroadcast, Broadcast
<1>2. ASSUME NEW c \in Conns, Environment(c) PROVE UNCHANGED roomVars
  BY <1>2 DEF Environment, Accept, ClientSend, ClientRead, Disconnect, RedisReply, Timer
<1>3. CASE Poll \/ Resume \/ UNCHANGED vars
  BY <1>3 DEF Poll, Resume, vars
<1> QED
  BY <1>1, <1>2, <1>3 DEF Next

\* What fiber c works with in an operation.
Local(c) == <<pc[c], todo[c], targets[c], snap[c], currentRoomNumber[c]>>

\* A step of one fiber leaves the locals of another alone.
LEMMA OthersStep ==
  ASSUME TypeOK, NEW c \in Conns, NEW d \in Conns, d # c, FiberStep(d)
  PROVE  UNCHANGED Local(c)
<1> USE DEF Local, TypeOK, opVars, userVars
<1>1. CASE Read(d)
  BY <1>1 DEF Read, ReqLogin, ReqRoomEnter, ReqRoomChat, StartOp, Ignore
<1>2. CASE ReadFailed(d) \/ Answer(d)
  BY <1>2 DEF ReadFailed, StartOp, Answer, WaitWritable
<1>3. CASE Delete(d)
  BY <1>3 DEF Delete
<1>4. CASE Lock(d) \/ Unlock(d)
  BY <1>4 DEF Lock, Unlock
<1>5. CASE Insert(d) \/ Erase(d)
  BY <1>5 DEF Insert, Erase, GoTo
<1>6. CASE RefuseEntry(d) \/ Snapshot(d) \/ StartBroadcast(d)
  BY <1>6 DEF RefuseEntry, Snapshot, StartBroadcast, GoTo, WaitWritable
<1>7. CASE Broadcast(d)
  BY <1>7 DEF Broadcast, BroadcastTo, GoTo, WaitWritable
<1> QED
  BY <1>1, <1>2, <1>3, <1>4, <1>5, <1>6, <1>7 DEF FiberStep

\* Nobody but c puts c into an operation, or disturbs it in one.
LEMMA Undisturbed ==
  ASSUME TurnsInv, [Next]_vars, NEW c \in Conns, ~FiberStep(c), Begun(c)'
  PROVE  Begun(c) /\ UNCHANGED roomVars /\ UNCHANGED Local(c)
<1> USE DEF TurnsInv, TypeInv
<1>1. Begun(c) /\ UNCHANGED Local(c)
  <2> USE DEF Begun, Local, opVars, userVars
  <2>1. ASSUME NEW d \in Conns, FiberStep(d) PROVE Begun(c) /\ UNCHANGED Local(c)
    BY <2>1, OthersStep
  <2>2. ASSUME NEW d \in Conns, Environment(d) PROVE Begun(c) /\ UNCHANGED Local(c)
    BY <2>2 DEF TypeOK, Environment, Accept, Live, ClientSend, ClientRead, Disconnect,
       RedisReply, Timer
  <2>3. CASE Poll \/ UNCHANGED vars
    BY <2>3 DEF Poll, vars
  <2>4. CASE Resume
    <3>1. running # c
      BY <2>4, ConstantsAssumption DEF Resume
    <3>2. pc[c] = "lock" \/ pc[c] = "expired" => todo[c] \in Operations
      BY <3>1 DEF TurnInv
    <3> QED
      BY <2>4, <3>2 DEF TypeOK, Resume, ResumeWriter, ResumeWaiter, ResumeOther
  <2> QED
    BY <2>1, <2>2, <2>3, <2>4 DEF Next
<1>2. ASSUME NEW d \in Conns, d # c, FiberStep(d)
      PROVE  ~Insert(d) /\ ~Erase(d)
  <2>1. OneOperationAtATime
    BY Exclusion
  <2> QED
    BY <1>1, <1>2, <2>1 DEF OneOperationAtATime, Begun, Insert, Erase, InSection
<1>3. UNCHANGED roomVars
  BY <1>2, RoomChanges
<1> QED
  BY <1>1, <1>3

-----------------------------------------------------------------------------
(* Who is in a room after EnterRoom and LeaveRoom.                           *)

\* EnterRoom adds at most the user of the fiber (RoomManager.cpp:11-18).
LEMMA InsertMembers ==
  ASSUME TypeInv, NEW c \in Conns, Insert(c),
         NEW r, r = currentRoomNumber[c], NEW u, u = currentUserID[c]
  PROVE  /\ r \in Rooms /\ u \in Users
         /\ \/ IsFull(r) /\ UNCHANGED roomVars
            \/ /\ ~IsFull(r)
               /\ roomKeys' = roomKeys \cup {r}
               /\ Members(r)' = Members(r) \cup {u}
               /\ \A q \in Rooms \ {r} : Members(q)' = Members(q)
<1>1. r \in Rooms /\ u \in Users
  BY DEF TypeInv, TypeOK, PlanInv, Insert, InSection
<1>2. c # None
  BY ConstantsAssumption
<1>3. CASE ~IsFull(r)
  <2>1. \A q \in Rooms, v \in Users :
          rooms'[q][v] = IF q = r /\ v = u THEN c ELSE rooms[q][v]
    BY <1>1, <1>3 DEF TypeInv, TypeOK, Insert
  <2>2. Members(r)' = Members(r) \cup {u}
    BY <1>1, <1>2, <2>1 DEF Members
  <2>3. ASSUME NEW q \in Rooms \ {r} PROVE Members(q)' = Members(q)
    BY <2>1 DEF Members
  <2> QED
    BY <1>1, <1>3, <2>2, <2>3 DEF Insert
<1>4. CASE IsFull(r)
  BY <1>1, <1>4 DEF Insert
<1> QED
  BY <1>3, <1>4

\* LeaveRoom removes the user of the fiber (RoomManager.cpp:28-32).
LEMMA EraseMembers ==
  ASSUME TypeInv, NEW c \in Conns, Erase(c),
         NEW r, r = currentRoomNumber[c], NEW u, u = currentUserID[c]
  PROVE  /\ r \in Rooms /\ u \in Users
         /\ roomKeys' = IF Members(r) \ {u} = {} THEN roomKeys \ {r}
                                                 ELSE roomKeys \cup {r}
         /\ Members(r)' = Members(r) \ {u}
         /\ \A q \in Rooms \ {r} : Members(q)' = Members(q)
<1>1. r \in Rooms /\ u \in Users
  BY DEF TypeInv, TypeOK, PlanInv, Erase, InSection
<1>2. \A q \in Rooms, v \in Users :
        rooms'[q][v] = IF q = r /\ v = u THEN None ELSE rooms[q][v]
  BY <1>1 DEF TypeInv, TypeOK, Erase
<1>3. Members(r)' = Members(r) \ {u}
  BY <1>1, <1>2 DEF Members
<1>4. ASSUME NEW q \in Rooms \ {r} PROVE Members(q)' = Members(q)
  BY <1>2 DEF Members
<1> QED
  BY <1>1, <1>3, <1>4 DEF Erase

-----------------------------------------------------------------------------
(* Capacity.                                                                 *)

\* A room has finitely many members.
LEMMA MembersFinite == \A r : IsFiniteSet(Members(r)) /\ Cardinality(Members(r)) \in Nat
BY ConstantsAssumption, MembersType, FS_Subset, FS_CardinalityType

\* The test of the size and the insertion are one step (RoomManager.cpp:9-18).
LEMMA CapacityStep ==
  ASSUME TypeInv, RoomCapacity, [Next]_vars
  PROVE  RoomCapacity'
<1>1. CASE UNCHANGED roomVars
  BY <1>1 DEF RoomCapacity, Members, roomVars
<1>2. ASSUME NEW c \in Conns, Insert(c) PROVE RoomCapacity'
  <2>1. PICK r, u : r = currentRoomNumber[c] /\ u = currentUserID[c]
    OBVIOUS
  <2>2. CASE UNCHANGED roomVars
    BY <1>1, <2>2
  <2>3. CASE ~IsFull(r) /\ Members(r)' = Members(r) \cup {u}
              /\ \A q \in Rooms \ {r} : Members(q)' = Members(q)
    <3>1. Cardinality(Members(r) \cup {u}) <= RoomSize
      <4>1. Cardinality(Members(r) \cup {u})
              \in {Cardinality(Members(r)), Cardinality(Members(r)) + 1}
        BY MembersFinite, FS_AddElement
      <4>2. Cardinality(Members(r)) < RoomSize /\ Cardinality(Members(r)) \in Nat
        BY <2>3, MembersFinite DEF IsFull, RoomSize
      <4> QED
        BY <4>1, <4>2 DEF RoomSize
    <3> QED
      BY <2>3, <3>1 DEF RoomCapacity
  <2> QED
    BY <1>2, <2>1, <2>2, <2>3, InsertMembers
<1>3. ASSUME NEW c \in Conns, Erase(c) PROVE RoomCapacity'
  <2>1. PICK r, u : r = currentRoomNumber[c] /\ u = currentUserID[c]
    OBVIOUS
  <2>2. Cardinality(Members(r) \ {u}) <= Cardinality(Members(r))
    BY MembersFinite, FS_Subset
  <2>3. Cardinality(Members(r) \ {u}) \in Nat
    BY MembersFinite, FS_Subset, FS_CardinalityType
  <2>4. r \in Rooms /\ Members(r)' = Members(r) \ {u}
        /\ \A q \in Rooms \ {r} : Members(q)' = Members(q)
    BY <1>3, <2>1, EraseMembers
  <2> QED
    BY <2>2, <2>3, <2>4, MembersFinite DEF RoomCapacity, RoomSize
<1> QED
  BY <1>1, <1>2, <1>3, RoomChanges

\* No room ever has more than two members, even when every fiber enters at once
\* and sleeps in the middle of its operation.
THEOREM Capacity == Spec => []RoomCapacity
<1>1. Init => RoomCapacity
  <2> SUFFICES ASSUME Init, NEW r \in Rooms PROVE Cardinality(Members(r)) <= RoomSize
    BY DEF RoomCapacity
  <2>1. Members(r) = {}
    BY DEF Init, Members
  <2> QED
    BY <2>1, FS_EmptySet DEF RoomSize
<1>2. TypeInv /\ RoomCapacity /\ [Next]_vars => RoomCapacity'
  BY CapacityStep
<1> QED
  BY <1>1, <1>2, TypeInit, TypeStep, PTL DEF Spec

-----------------------------------------------------------------------------
(* Broadcasts.                                                               *)

\* The keys of rooms_ are the rooms that have somebody in them.
KeysInv == \A r \in Rooms : r \in roomKeys <=> Members(r) # {}

\* LeaveRoom erases the room with its last member (RoomManager.cpp:30-32).
LEMMA KeysStep ==
  ASSUME TypeInv, KeysInv, [Next]_vars
  PROVE  KeysInv'
<1>1. CASE UNCHANGED roomVars
  BY <1>1 DEF KeysInv, Members, roomVars
<1>2. ASSUME NEW c \in Conns, Insert(c) PROVE KeysInv'
  <2>1. PICK r, u : r = currentRoomNumber[c] /\ u = currentUserID[c]
    OBVIOUS
  <2> QED
    BY <1>1, <1>2, <2>1, InsertMembers DEF KeysInv
<1>3. ASSUME NEW c \in Conns, Erase(c) PROVE KeysInv'
  <2>1. PICK r, u : r = currentRoomNumber[c] /\ u = currentUserID[c]
    OBVIOUS
  <2> QED
    BY <1>3, <2>1, EraseMembers DEF KeysInv
<1> QED
  BY <1>1, <1>2, <1>3, RoomChanges

\* A fiber that walks through a room has members left to visit, and a fiber that
\* carries a copied list of user IDs has the current one.
CarriesList(c) ==
  \/ pc[c] \in {"lock", "section", "write"} /\ todo[c] # <<>> /\ Head(todo[c]) = "list"
  \/ pc[c] = "unlock" /\ Head(todo[c]) = "snapshot"
ListInv == \A c \in Conns : CarriesList(c) => snap[c] = Members(currentRoomNumber[c])

RoomsInv == TurnsInv /\ KeysInv /\ RoomCapacity /\ IterationStable /\ ListInv

\* No step erases a member that a broadcast still has to visit
\* (RoomManager.cpp:101-107).
LEMMA IterationStep ==
  ASSUME RoomsInv, [Next]_vars
  PROVE  IterationStable'
<1> USE DEF RoomsInv, TurnsInv, TypeInv
<1> SUFFICES ASSUME NEW c \in Conns, pc'[c] = "write"
             PROVE  targets'[c] # {} /\ targets'[c] \subseteq Members(currentRoomNumber[c])'
  BY DEF IterationStable
<1>1. CASE ~FiberStep(c)
  <2>1. Begun(c) /\ UNCHANGED roomVars /\ UNCHANGED Local(c)
    BY <1>1, Undisturbed DEF Begun
  <2> QED
    BY <2>1 DEF IterationStable, Local, roomVars, Members
<1>2. CASE StartBroadcast(c)
  <2>1. /\ UNCHANGED <<rooms, currentRoomNumber>>
        /\ currentRoomNumber[c] \in roomKeys
        /\ targets' = [targets EXCEPT ![c] = Members(currentRoomNumber[c])]
    BY <1>2 DEF TypeOK, StartBroadcast, GoTo, roomVars, userVars
  <2>2. Members(currentRoomNumber[c]) # {}
    BY <2>1 DEF KeysInv, TypeOK
  <2> QED
    BY <2>1, <2>2 DEF TypeOK, Members
<1>3. CASE Broadcast(c)
  <2>1. UNCHANGED <<rooms, currentRoomNumber>> /\ pc[c] = "write"
    BY <1>3 DEF Broadcast, roomVars, userVars
  <2>2. PICK u \in targets[c] : BroadcastTo(c, u)
    BY <1>3 DEF Broadcast
  <2>3. \/ targets' = targets
        \/ targets' = [targets EXCEPT ![c] = @ \ {u}] /\ targets[c] \ {u} # {}
    BY <2>2 DEF TypeOK, BroadcastTo, GoTo
  <2> QED
    BY <2>1, <2>3 DEF TypeOK, IterationStable, Members
<1>4. CASE FiberStep(c) /\ ~StartBroadcast(c) /\ ~Broadcast(c)
  <2>1. CASE Read(c)
    BY <2>1 DEF TypeOK, Read, ReqLogin, ReqRoomEnter, ReqRoomChat, StartOp, Ignore
  <2>2. CASE ReadFailed(c) \/ Answer(c) \/ Delete(c)
    BY <2>2 DEF TypeOK, ReadFailed, StartOp, Answer, WaitWritable, Delete
  <2>3. CASE Lock(c)
    BY <2>3 DEF TypeOK, Lock
  <2>4. CASE Unlock(c)
    <3>1. pc'[c] \in {"read", "delete", "lock"}
      BY <2>4, NextPc DEF TypeOK, Unlock
    <3> QED
      BY <3>1
  <2>5. CASE Insert(c) \/ Erase(c) \/ Snapshot(c)
    BY <2>5 DEF TypeOK, Insert, Erase, Snapshot, GoTo
  <2>6. CASE RefuseEntry(c)
    BY <2>6 DEF TypeOK, RefuseEntry, WaitWritable, GoTo
  <2> QED
    BY <1>4, <2>1, <2>2, <2>3, <2>4, <2>5, <2>6 DEF FiberStep
<1> QED
  BY <1>1, <1>2, <1>3, <1>4

\* No step makes a copied user list stale before it is sent (RoomManager.cpp:53-76).
LEMMA ListStep ==
  ASSUME RoomsInv, [Next]_vars
  PROVE  ListInv'
<1> USE DEF RoomsInv, TurnsInv, TypeInv
<1> SUFFICES ASSUME NEW c \in Conns, CarriesList(c)'
             PROVE  snap'[c] = Members(currentRoomNumber[c])'
  BY DEF ListInv
<1>1. CASE ~FiberStep(c)
  <2>1. \A p \in Operations : p # <<>> /\ Head(p) # "list"
    BY DEF Operations, EnterRoom, LeaveRoom, BroadcastMessage
  <2>2. Begun(c)'
    BY <2>1 DEF CarriesList, Begun
  <2>3. UNCHANGED roomVars /\ UNCHANGED Local(c)
    BY <1>1, <2>2, Undisturbed
  <2> QED
    BY <2>3 DEF ListInv, CarriesList, Local, roomVars, Members
<1>2. CASE Lock(c)
  <2>1. /\ UNCHANGED <<rooms, currentRoomNumber, snap, todo>>
        /\ pc[c] = "lock" /\ pc'[c] \in {"lock", "section"}
    BY <1>2 DEF TypeOK, Lock, roomVars, userVars, opVars
  <2> QED
    BY <2>1 DEF ListInv, CarriesList, Members
<1>3. CASE Unlock(c)
  <2>1. todo[c] \in Plans /\ todo[c] # <<>> /\ pc[c] = "unlock"
    BY <1>3 DEF TypeOK, PlanInv, Busy, Unlock
  <2>2. pc'[c] \in {"read", "delete", "lock"} /\ todo'[c] = Tail(todo[c])
    BY <1>3, NextPc DEF TypeOK, Unlock
  <2>3. Tail(todo[c]) # <<>> /\ Head(Tail(todo[c])) = "list"
    BY <2>2 DEF CarriesList
  <2>4. Head(todo[c]) = "snapshot"
    BY <2>1, <2>3, TailOfPlan
  <2>5. snap'[c] = snap[c] /\ UNCHANGED <<rooms, currentRoomNumber>>
    BY <1>3, <2>4 DEF TypeOK, Unlock, roomVars, userVars
  <2> QED
    BY <2>1, <2>4, <2>5 DEF ListInv, CarriesList, Members
<1>4. CASE Snapshot(c)
  <2>1. /\ todo[c] \in Plans /\ todo[c] # <<>> /\ Head(todo[c]) = "snapshot"
        /\ pc'[c] = "unlock" /\ UNCHANGED <<rooms, currentRoomNumber>>
    BY <1>4 DEF TypeOK, Snapshot, InSection, GoTo, roomVars, userVars
  <2>2. Head(todo'[c]) = "snapshot"
    BY <2>1 DEF CarriesList
  <2>3. currentRoomNumber[c] \in roomKeys
    BY <1>4, <2>1, <2>2, TailOfPlan DEF TypeOK, Snapshot
  <2>4. PICK S \in SUBSET Members(currentRoomNumber[c]) :
          /\ S = Members(currentRoomNumber[c]) \/ Cardinality(S) = 2
          /\ snap' = [snap EXCEPT ![c] = S]
    BY <1>4, <2>3 DEF Snapshot
  <2>5. S = Members(currentRoomNumber[c])
    <3>1. Cardinality(Members(currentRoomNumber[c])) <= 2
      BY <2>3 DEF TypeOK, RoomCapacity, RoomSize
    <3> QED
      BY <2>4, <3>1, MembersFinite, FS_Subset
  <2> QED
    BY <2>1, <2>4, <2>5 DEF TypeOK, Members
<1>5. CASE StartBroadcast(c)
  <2>1. /\ UNCHANGED <<rooms, currentRoomNumber, snap, todo>>
        /\ pc[c] = "section" /\ pc'[c] \in {"write", "unlock"}
        /\ todo[c] # <<>> /\ Head(todo[c]) \in {"list", "joined", "left", "chat"}
    BY <1>5 DEF TypeOK, StartBroadcast, InSection, GoTo, roomVars, userVars
  <2> QED
    BY <2>1 DEF ListInv, CarriesList, Members
<1>6. CASE Broadcast(c)
  <2>1. /\ UNCHANGED <<rooms, currentRoomNumber, snap, todo>>
        /\ pc[c] = "write" /\ pc'[c] \in {"write", "unlock", "crashed"}
    BY <1>6 DEF TypeOK, Broadcast, BroadcastTo, WaitWritable, GoTo, roomVars, userVars
  <2>2. Head(todo[c]) \in Kinds
    BY <2>1 DEF PlanInv
  <2> QED
    BY <2>1, <2>2 DEF ListInv, CarriesList, Members, Kinds
<1>7. CASE Read(c)
  BY SMTT(30), <1>7 DEF TypeOK, CarriesList, Read, ReqLogin, ReqRoomEnter, ReqRoomChat, StartOp,
     Ignore, EnterRoom, BroadcastMessage
<1>8. CASE ReadFailed(c)
  BY <1>8 DEF TypeOK, CarriesList, ReadFailed, StartOp, LeaveRoom
<1>9. CASE Answer(c) \/ Delete(c)
  BY <1>9 DEF TypeOK, CarriesList, Answer, WaitWritable, Delete
<1>10. CASE Insert(c) \/ Erase(c)
  BY <1>10 DEF TypeOK, CarriesList, Insert, Erase, InSection, GoTo, opVars
<1>11. CASE RefuseEntry(c)
  BY <1>11 DEF TypeOK, CarriesList, RefuseEntry, WaitWritable, GoTo
<1> QED
  BY <1>1, <1>2, <1>3, <1>4, <1>5, <1>6, <1>7, <1>8, <1>9, <1>10, <1>11
  DEF FiberStep

\* The server starts without rooms.
LEMMA RoomsInit == Init => RoomsInv
<1> SUFFICES ASSUME Init PROVE RoomsInv
  OBVIOUS
<1>1. \A r \in Rooms : Members(r) = {}
  BY DEF Init, Members
<1>2. RoomCapacity
  BY <1>1, FS_EmptySet DEF RoomCapacity, RoomSize
<1>3. KeysInv
  BY <1>1 DEF Init, KeysInv
<1>4. IterationStable /\ ListInv
  BY DEF Init, IterationStable, ListInv, CarriesList
<1> QED
  BY <1>2, <1>3, <1>4, TurnsInit DEF RoomsInv

\* Every step keeps all that is known about the rooms.
LEMMA RoomsStep == RoomsInv /\ [Next]_vars => RoomsInv'
BY TurnsStep, KeysStep, CapacityStep, IterationStep, ListStep DEF RoomsInv, TurnsInv

\* A broadcast that sleeps inside its loop finds the members it has not visited
\* still there when it wakes up: its iterator is never invalidated.
THEOREM StableIteration == Spec => []IterationStable
<1>1. RoomsInv => IterationStable
  BY DEF RoomsInv
<1> QED
  BY <1>1, RoomsInit, RoomsStep, PTL DEF Spec

\* The user list that is sent in one critical section is the membership although
\* it was copied in an earlier one.
THEOREM CurrentList == Spec => []ListIsCurrent
<1>1. RoomsInv => ListIsCurrent
  <2> SUFFICES ASSUME RoomsInv, NEW c \in Conns, pc[c] = "write", Head(todo[c]) = "list"
               PROVE  snap[c] = Members(currentRoomNumber[c])
    BY DEF ListIsCurrent
  <2>1. todo[c] # <<>>
    BY DEF RoomsInv, TurnsInv, TypeInv, PlanInv, Busy
  <2> QED
    BY <2>1 DEF RoomsInv, ListInv, CarriesList
<1> QED
  BY <1>1, RoomsInit, RoomsStep, PTL DEF Spec

=============================================================================
