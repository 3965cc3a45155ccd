--------------------------- MODULE ChatRoomsProofs ---------------------------
(* The chat server implements RoomService, for any number of connections,      *)
(* users and rooms: each step of a fiber is one step of the service or none,   *)
(* because the sections of two operations never mix.                           *)
EXTENDS ChatRooms, ChatServerProofs

-------------------------------------------------------------------------------
(* What else holds of a fiber in an operation.                                 *)

\* Only a fiber inside the loop of Broadcast has members left to write to.
TargetsInv == \A c \in Conns : targets[c] # {} => pc[c] \in {"write", "crashed"}

\* Once it was refused a fiber gives room_mutex_ back.
RefusalInv == \A c \in Conns : todo[c] = <<"insert">> => pc[c] = "unlock"

ServiceInv == RoomsInv /\ TargetsInv /\ RefusalInv

\* Which operation begins with a section, and that insert is never a rest.
LEMMA PlanHeads ==
  ASSUME NEW p \in Plans, p # <<>>
  PROVE  /\ Head(p) = "insert" => p \in {EnterRoom, <<"insert">>}
         /\ Head(p) = "erase" => p = LeaveRoom
         /\ Head(p) = "chat" => p = BroadcastMessage
         /\ Head(p) \in Kinds => Head(p) \in {"list", "joined", "left", "chat"}
         /\ Tail(p) # <<"insert">>
<1> USE DEF Plans, Operations, EnterRoom, LeaveRoom, BroadcastMessage, Kinds
<1>1. CASE p = <<"insert", "snapshot", "list", "joined">>
  BY <1>1
<1>2. CASE p = <<"erase", "left", "snapshot", "list", "delete">>
  BY <1>2
<1>3. CASE p = <<"chat">>
  BY <1>3
<1>4. CASE p = <<"insert">>
  BY <1>4
<1>5. CASE p = <<"snapshot", "list", "joined">>
  BY <1>5
<1>6. CASE p = <<"list", "joined">>
  BY <1>6
<1>7. CASE p = <<"joined">>
  BY <1>7
<1>8. CASE p = <<"left", "snapshot", "list", "delete">>
  BY <1>8
<1>9. CASE p = <<"snapshot", "list", "delete">>
  BY <1>9
<1>10. CASE p = <<"list", "delete">>
  BY <1>10
<1>11. CASE p = <<"delete">>
  BY <1>11
<1> QED
  BY <1>1, <1>2, <1>3, <1>4, <1>5, <1>6, <1>7, <1>8, <1>9, <1>10, <1>11

\* What the sections of an operation leave to be told (RoomManager.cpp:8-110).
LEMMA BroadcastsOf ==
  ASSUME NEW p \in Plans, p # <<>>
  PROVE  /\ p = EnterRoom => Broadcasts(Tail(p)) = <<"list", "joined">>
         /\ p = LeaveRoom => Broadcasts(Tail(p)) = <<"left", "list">>
         /\ p = BroadcastMessage => Broadcasts(p) = <<"chat">>
         /\ Head(p) \in {"list", "joined", "left", "chat"} =>
              Broadcasts(p) # <<>> /\ Broadcasts(Tail(p)) = Tail(Broadcasts(p))
         /\ Head(p) = "snapshot" =>
              /\ Broadcasts(Tail(p)) = Broadcasts(p)
              /\ Broadcasts(p) # <<>>
              /\ Broadcasts(Tail(Tail(p))) = Tail(Broadcasts(p))
         /\ Tail(p) = <<>> \/ Head(Tail(p)) = "delete" => Broadcasts(Tail(p)) = <<>>
<1> USE DEF Plans, Operations, EnterRoom, LeaveRoom, BroadcastMessage, Broadcasts
<1>1. CASE p = <<"insert", "snapshot", "list", "joined">>
  BY <1>1
<1>2. CASE p = <<"erase", "left", "snapshot", "list", "delete">>
  BY <1>2
<1>3. CASE p = <<"chat">>
  BY <1>3
<1>4. CASE p = <<"insert">>
  BY <1>4
<1>5. CASE p = <<"snapshot", "list", "joined">>
  BY <1>5
<1>6. CASE p = <<"list", "joined">>
  BY <1>6
<1>7. CASE p = <<"joined">>
  BY <1>7
<1>8. CASE p = <<"left", "snapshot", "list", "delete">>
  BY <1>8
<1>9. CASE p = <<"snapshot", "list", "delete">>
  BY <1>9
<1>10. CASE p = <<"list", "delete">>
  BY <1>10
<1>11. CASE p = <<"delete">>
  BY <1>11
<1> QED
  BY <1>1, <1>2, <1>3, <1>4, <1>5, <1>6, <1>7, <1>8, <1>9, <1>10, <1>11

-------------------------------------------------------------------------------
(* The additional invariants.                                                  *)

\* Nobody gets members to write to but through StartBroadcast.
LEMMA TargetsStep ==
  ASSUME ServiceInv, [Next]_vars
  PROVE  TargetsInv'
<1> USE DEF ServiceInv, RoomsInv, TurnsInv, TypeInv
<1> SUFFICES ASSUME NEW c \in Conns, targets'[c] # {}
             PROVE  pc'[c] \in {"write", "crashed"}
  BY DEF TargetsInv
<1> USE DEF TypeOK, TargetsInv, opVars
<1>1. ASSUME NEW d \in Conns, d # c, FiberStep(d) PROVE pc'[c] \in {"write", "crashed"}
  BY <1>1, OthersStep DEF Local
<1>2. ASSUME NEW d \in Conns, Environment(d) PROVE pc'[c] \in {"write", "crashed"}
  BY <1>2 DEF Environment, Accept, Live, ClientSend, ClientRead, Disconnect, RedisReply,
     Timer
<1>3. CASE Poll \/ Resume \/ UNCHANGED vars
  BY <1>3 DEF Poll, Resume, ResumeWriter, ResumeWaiter, ResumeOther, vars
<1>4. CASE FiberStep(c)
  <2>1. CASE Read(c)
    BY <2>1 DEF Read, ReqLogin, ReqRoomEnter, ReqRoomChat, StartOp, Ignore
  <2>2. CASE ReadFailed(c) \/ Answer(c) \/ Delete(c)
    BY <2>2 DEF ReadFailed, StartOp, Answer, WaitWritable, Delete
  <2>3. CASE Lock(c) \/ Unlock(c)
    BY <2>3 DEF Lock, Unlock
  <2>4. CASE Insert(c) \/ Erase(c) \/ Snapshot(c)
    BY <2>4 DEF Insert, Erase, Snapshot, InSection, GoTo
  <2>5. CASE RefuseEntry(c)
    BY <2>5 DEF RefuseEntry, WaitWritable, GoTo
  <2>6. CASE StartBroadcast(c)
    BY <2>6 DEF StartBroadcast, InSection, GoTo
  <2>7. CASE Broadcast(c)
    BY <2>7 DEF Broadcast, BroadcastTo, WaitWritable, GoTo
  <2> QED
    BY <1>4, <2>1, <2>2, <2>3, <2>4, <2>5, <2>6, <2>7 DEF FiberStep
<1> QED
  BY <1>1, <1>2, <1>3, <1>4 DEF Next

\* A refusal is over with the section it happened in (RoomManager.cpp:11-15).
LEMMA RefusalStep ==
  ASSUME ServiceInv, [Next]_vars
  PROVE  RefusalInv'
<1> USE DEF ServiceInv, RoomsInv, TurnsInv, TypeInv
<1> SUFFICES ASSUME NEW c \in Conns, todo'[c] = <<"insert">>
             PROVE  pc'[c] = "unlock"
  BY DEF RefusalInv
<1> USE DEF TypeOK, RefusalInv, opVars
<1>0. <<>> # <<"insert">> /\ \A p \in Operations : p # <<"insert">>
  BY DEF Operations, EnterRoom, LeaveRoom, BroadcastMessage
<1>1. ASSUME NEW d \in Conns, d # c, FiberStep(d) PROVE pc'[c] = "unlock"
  BY <1>1, OthersStep DEF Local
<1>2. ASSUME NEW d \in Conns, Environment(d) PROVE pc'[c] = "unlock"
  BY <1>2 DEF Environment, Accept, Live, ClientSend, ClientRead, Disconnect, RedisReply,
     Timer
<1>3. CASE Poll \/ Resume \/ UNCHANGED vars
  BY <1>3 DEF Poll, Resume, ResumeWriter, ResumeWaiter, ResumeOther, vars
<1>4. CASE FiberStep(c)
  <2>0. EnterRoom # <<"insert">> /\ LeaveRoom # <<"insert">>
        /\ BroadcastMessage # <<"insert">>
    BY <1>0 DEF Operations
  <2>1. CASE Read(c)
    BY ZenonT(30), <2>0, <2>1 DEF Read, ReqLogin, ReqRoomEnter, ReqRoomChat, StartOp, Ignore
  <2>2. CASE ReadFailed(c) \/ Answer(c) \/ Delete(c)
    BY <1>0, <2>0, <2>2 DEF ReadFailed, StartOp, Answer, WaitWritable, Delete
  <2>3. CASE Lock(c)
    BY <2>3 DEF Lock
  <2>4. CASE Unlock(c)
    <3>1. todo[c] \in Plans /\ todo[c] # <<>> /\ todo'[c] = Tail(todo[c])
      BY <2>4 DEF PlanInv, Busy, Unlock
    <3> QED
      BY <3>1, PlanHeads
  <2>5. CASE Insert(c) \/ Erase(c) \/ Snapshot(c) \/ StartBroadcast(c)
    BY <2>5 DEF Insert, Erase, Snapshot, StartBroadcast, InSection, GoTo
  <2>6. CASE RefuseEntry(c)
    BY <2>6 DEF RefuseEntry, WaitWritable, GoTo
  <2>7. CASE Broadcast(c)
    BY <2>7 DEF Broadcast, BroadcastTo, WaitWritable, GoTo
  <2> QED
    BY <1>4, <2>1, <2>2, <2>3, <2>4, <2>5, <2>6, <2>7 DEF FiberStep
<1> QED
  BY <1>1, <1>2, <1>3, <1>4 DEF Next

\* The server starts with nobody to be told.
LEMMA ServiceInit == Init => ServiceInv
<1> SUFFICES ASSUME Init PROVE TargetsInv /\ RefusalInv
  BY RoomsInit DEF ServiceInv
<1>1. <<>> # <<"insert">>
  OBVIOUS
<1> QED
  BY <1>1 DEF Init, TargetsInv, RefusalInv

LEMMA ServiceStep == ServiceInv /\ [Next]_vars => ServiceInv'
BY RoomsStep, TargetsStep, RefusalStep DEF ServiceInv

-------------------------------------------------------------------------------
(* Who is served.                                                              *)

\* At most one fiber is served, and it has the mutex or, between two sections,
\* the processor.
LEMMA OneServed ==
  ASSUME TurnsInv, NEW c \in Conns, Served(c)
  PROVE  /\ \A d \in Conns : Served(d) => d = c
         /\ mutex # None => mutex = c
         /\ mutex = None => running = c
<1> USE DEF TurnsInv, TypeInv, TypeOK
<1>1. ASSUME NEW d \in Conns, Served(d)
      PROVE  mutex = d \/ (mutex = None /\ running = d)
  BY <1>1 DEF MutexInv, TurnInv, Served, Holding
<1> QED
  BY <1>1, ConstantsAssumption

\* The one fiber that is served is the one that the refinement mapping picks.
LEMMA TheServed ==
  ASSUME NEW c \in Conns, Served(c), \A d \in Conns : Served(d) => d = c
  PROVE  ServedFiber = c
BY DEF ServedFiber

LEMMA TheServedNext ==
  ASSUME NEW c \in Conns, Served(c)', \A d \in Conns : Served(d)' => d = c
  PROVE  ServedFiber' = c
BY DEF ServedFiber

LEMMA NobodyServed ==
  ASSUME \A d \in Conns : ~Served(d)
  PROVE  ServedFiber = None
BY DEF ServedFiber

LEMMA NobodyServedNext ==
  ASSUME \A d \in Conns : ~Served(d)'
  PROVE  ServedFiber' = None
BY DEF ServedFiber

-------------------------------------------------------------------------------
(* How steps of the server look to its clients.                                *)

\* What the clients see of fiber c when it is served.
Face(c) == <<currentRoomNumber[c], BroadcastsLeft(c), targets[c]>>

\* A step that neither begins nor ends a service, and leaves what is seen of the
\* one under way alone, is no step of RoomService.
LEMMA NothingSeen ==
  ASSUME TurnsInv, UNCHANGED rooms,
         \A c \in Conns : Served(c)' <=> Served(c),
         \A c \in Conns : Served(c) => UNCHANGED Face(c)
  PROVE  UNCHANGED Service!vars
<1>1. [r \in Rooms |-> Members(r)]' = [r \in Rooms |-> Members(r)]
  BY DEF Members
<1>2. CASE \E c \in Conns : Served(c)
  <2>1. PICK c \in Conns : Served(c)
    BY <1>2
  <2>2. \A d \in Conns : Served(d) => d = c
    BY <2>1, OneServed
  <2>3. ServedFiber = c /\ ServedFiber' = c
    BY <2>1, <2>2, TheServed, TheServedNext
  <2>4. c # None
    BY ConstantsAssumption
  <2>5. UNCHANGED <<currentRoomNumber[c], BroadcastsLeft(c), targets[c]>>
    BY <2>1 DEF Face
  <2> QED
    BY <1>1, <2>3, <2>4, <2>5 DEF Service!vars
<1>3. CASE \A c \in Conns : ~Served(c)
  <2>1. ServedFiber = None /\ ServedFiber' = None
    BY <1>3, NobodyServed, NobodyServedNext
  <2> QED
    BY <1>1, <2>1 DEF Service!vars
<1> QED
  BY <1>2, <1>3

\* The environment and the scheduler do nothing that the service is made of.
LEMMA EnvironmentUnseen ==
  ASSUME ServiceInv, \/ Poll \/ Resume \/ UNCHANGED vars
                     \/ \E d \in Conns : Environment(d)
  PROVE  UNCHANGED Service!vars
<1> USE DEF ServiceInv, RoomsInv, TurnsInv, TypeInv, TypeOK
<1>1. UNCHANGED rooms
  BY DEF Poll, Resume, vars, roomVars, Environment, Accept, ClientSend, ClientRead,
     Disconnect, RedisReply, Timer
<1>2. ASSUME NEW c \in Conns
      PROVE  /\ Served(c)' <=> Served(c)
             /\ Served(c) => UNCHANGED Face(c)
  <2> USE DEF Served, Face, BroadcastsLeft, opVars, userVars
  <2>1. CASE Poll \/ UNCHANGED vars
    BY <2>1 DEF Poll, vars
  <2>2. CASE Resume
    <3>1. running # c
      BY <2>2, ConstantsAssumption DEF Resume
    <3>2. pc[c] \in {"lock", "delay", "expired"} => todo[c] \in Operations
      BY <3>1 DEF TurnInv
    <3> QED
      BY <2>2, <3>2 DEF Resume, ResumeWriter, ResumeWaiter, ResumeOther
  <2>3. ASSUME NEW d \in Conns, Environment(d)
        PROVE  (Served(c)' <=> Served(c)) /\ (Served(c) => UNCHANGED Face(c))
    BY ZenonT(30), <2>3 DEF Environment, Accept, Live, ClientSend, ClientRead, Disconnect, RedisReply,
       Timer
  <2> QED
    BY <2>1, <2>2, <2>3
<1> QED
  BY <1>1, <1>2, NothingSeen

\* Of a step of fiber c the clients see what changes for c, when they are not
\* served by another.
LEMMA OthersUnseen ==
  ASSUME TurnsInv, NEW c \in Conns, FiberStep(c), NEW d \in Conns, d # c
  PROVE  (Served(d)' <=> Served(d)) /\ UNCHANGED Face(d)
<1>1. UNCHANGED Local(d)
  BY OthersStep DEF TurnsInv, TypeInv
<1> QED
  BY <1>1 DEF Local, Served, Face, BroadcastsLeft

\* A step of fiber c that changes nothing about its own service is not seen.
LEMMA OwnStepUnseen ==
  ASSUME TurnsInv, NEW c \in Conns, FiberStep(c), UNCHANGED rooms,
         Served(c)' <=> Served(c), Served(c) => UNCHANGED Face(c)
  PROVE  UNCHANGED Service!vars
<1>1. ASSUME NEW d \in Conns
      PROVE  (Served(d)' <=> Served(d)) /\ (Served(d) => UNCHANGED Face(d))
  BY <1>1, OthersUnseen
<1> QED
  BY <1>1, NothingSeen

\* A fiber inside a section is the only one that can be served.
LEMMA AloneInSection ==
  ASSUME TurnsInv, NEW c \in Conns, FiberStep(c), pc[c] \in Holding
  PROVE  \A d \in Conns \ {c} : ~Served(d) /\ ~Served(d)'
<1> SUFFICES ASSUME NEW d \in Conns \ {c} PROVE ~Served(d) /\ ~Served(d)'
  OBVIOUS
<1>1. mutex = c /\ c # None
  BY ConstantsAssumption DEF TurnsInv, MutexInv
<1>2. ~Served(d)
  BY <1>1, OneServed
<1> QED
  BY <1>2, OthersUnseen

\* The variables of the service while fiber c is served, and when nobody is.
LEMMA Mapped ==
  ASSUME NEW c \in Conns
  PROVE  /\ Served(c) /\ (\A d \in Conns \ {c} : ~Served(d)) =>
              /\ ServedFiber = c /\ ServedFiber # None
         /\ Served(c)' /\ (\A d \in Conns \ {c} : ~Served(d)') =>
              /\ ServedFiber' = c /\ ServedFiber' # None
         /\ (\A d \in Conns : ~Served(d)) => ServedFiber = None
         /\ (\A d \in Conns : ~Served(d)') => ServedFiber' = None
<1>1. c # None
  BY ConstantsAssumption
<1>2. ASSUME Served(c), \A d \in Conns \ {c} : ~Served(d) PROVE ServedFiber = c
  BY <1>2, TheServed
<1>3. ASSUME Served(c)', \A d \in Conns \ {c} : ~Served(d)' PROVE ServedFiber' = c
  BY <1>3, TheServedNext
<1> QED
  BY <1>1, <1>2, <1>3, NobodyServed, NobodyServedNext

-------------------------------------------------------------------------------
(* The steps that clients see.                                                 *)

\* RoomService counts members the way the server does.
LEMMA SameCount == \A S : Service!Cardinality(S) = Cardinality(S)
BY DEF Service!Cardinality, Cardinality, Service!IsFiniteSet, IsFiniteSet

\* EnterRoom changes the membership in its first section (RoomManager.cpp:9-18).
LEMMA InsertIsEnter ==
  ASSUME ServiceInv, NEW c \in Conns, FiberStep(c), Insert(c)
  PROVE  [Service!Next]_(Service!vars)
<1> USE DEF ServiceInv, RoomsInv, TurnsInv, TypeInv, TypeOK
<1>1. PICK r, u : r = currentRoomNumber[c] /\ u = currentUserID[c]
  OBVIOUS
<1>2. /\ pc[c] = "section" /\ todo[c] \in Plans /\ todo[c] # <<>>
      /\ Head(todo[c]) = "insert" /\ UNCHANGED <<todo, targets, currentRoomNumber>>
  BY DEF Insert, InSection, opVars, userVars
<1>3. todo[c] = EnterRoom /\ EnterRoom \in Operations /\ EnterRoom # <<"insert">>
  BY <1>2, PlanHeads DEF RefusalInv, Operations, EnterRoom
<1>4. ~Served(c)
  BY <1>2, <1>3 DEF Served
<1>5. \A d \in Conns \ {c} : ~Served(d) /\ ~Served(d)'
  BY <1>2, AloneInSection DEF Holding
<1>6. CASE IsFull(r)
  <2>1. pc'[c] = "full" /\ UNCHANGED rooms
    BY <1>1, <1>6 DEF Insert, GoTo, roomVars
  <2> QED
    BY <1>4, <2>1, OwnStepUnseen DEF Served
<1>7. CASE ~IsFull(r)
  <2>1. /\ r \in Rooms /\ u \in Users
        /\ Members(r)' = Members(r) \cup {u}
        /\ \A q \in Rooms \ {r} : Members(q)' = Members(q)
    BY <1>1, <1>7, InsertMembers
  <2>2. pc'[c] = "unlock"
    BY <1>1, <1>7 DEF Insert, GoTo
  <2>3. Served(c)'
    BY <1>2, <1>3, <2>2 DEF Served
  <2>4. ServedFiber = None /\ ServedFiber' = c /\ c # None
    BY <1>4, <1>5, <2>3, Mapped
  <2>5. [q \in Rooms |-> Members(q)]' =
          [[q \in Rooms |-> Members(q)] EXCEPT ![r] = @ \cup {u}]
    BY <2>1
  <2>6. Cardinality(Members(r)) < RoomSize
    BY <1>7, MembersFinite DEF IsFull, RoomSize
  <2>7. BroadcastsLeft(c)' = <<"list", "joined">> /\ targets'[c] = {}
    BY <1>2, <1>3, <2>2, BroadcastsOf DEF BroadcastsLeft, TargetsInv
  <2>8. Service!Enter(c, u, r)
    BY <1>1, <1>2, <2>1, <2>4, <2>5, <2>6, <2>7, SameCount
    DEF Service!Enter, Service!Serve
  <2> QED
    BY <2>1, <2>8 DEF Service!Next
<1> QED
  BY <1>6, <1>7

\* LeaveRoom changes the membership in its first section (RoomManager.cpp:26-34).
LEMMA EraseIsLeave ==
  ASSUME ServiceInv, NEW c \in Conns, FiberStep(c), Erase(c)
  PROVE  [Service!Next]_(Service!vars)
<1> USE DEF ServiceInv, RoomsInv, TurnsInv, TypeInv, TypeOK
<1>1. PICK r, u : r = currentRoomNumber[c] /\ u = currentUserID[c]
  OBVIOUS
<1>2. /\ pc[c] = "section" /\ todo[c] \in Plans /\ todo[c] # <<>> /\ pc'[c] = "unlock"
      /\ Head(todo[c]) = "erase" /\ UNCHANGED <<todo, targets, currentRoomNumber>>
  BY DEF Erase, InSection, GoTo, opVars, userVars
<1>3. todo[c] = LeaveRoom /\ LeaveRoom \in Operations /\ LeaveRoom # <<"insert">>
  BY <1>2, PlanHeads DEF Operations, LeaveRoom
<1>4. ~Served(c) /\ Served(c)'
  BY <1>2, <1>3 DEF Served
<1>5. \A d \in Conns \ {c} : ~Served(d) /\ ~Served(d)'
  BY <1>2, AloneInSection DEF Holding
<1>6. ServedFiber = None /\ ServedFiber' = c /\ c # None
  BY <1>4, <1>5, Mapped
<1>7. /\ r \in Rooms /\ u \in Users
      /\ Members(r)' = Members(r) \ {u}
      /\ \A q \in Rooms \ {r} : Members(q)' = Members(q)
  BY SMTT(30), <1>1, EraseMembers
<1>8. [q \in Rooms |-> Members(q)]' =
        [[q \in Rooms |-> Members(q)] EXCEPT ![r] = @ \ {u}]
  BY <1>7
<1>9. BroadcastsLeft(c)' = <<"left", "list">> /\ targets'[c] = {}
  BY <1>2, <1>3, BroadcastsOf DEF BroadcastsLeft, TargetsInv
<1>10. Service!Leave(c, u, r)
  BY <1>1, <1>2, <1>6, <1>7, <1>8, <1>9 DEF Service!Leave, Service!Serve
<1> QED
  BY <1>7, <1>10 DEF Service!Next

\* SendUserListToAll skips the list of a room that is gone (RoomManager.cpp:55-58).
LEMMA SnapshotIsNotice ==
  ASSUME ServiceInv, NEW c \in Conns, FiberStep(c), Snapshot(c)
  PROVE  [Service!Next]_(Service!vars)
<1> USE DEF ServiceInv, RoomsInv, TurnsInv, TypeInv, TypeOK
<1>1. PICK r : r = currentRoomNumber[c]
  OBVIOUS
<1>2. /\ pc[c] = "section" /\ todo[c] \in Plans /\ todo[c] # <<>> /\ pc'[c] = "unlock"
      /\ Head(todo[c]) = "snapshot" /\ UNCHANGED <<rooms, targets, currentRoomNumber>>
  BY DEF Snapshot, InSection, GoTo, opVars, userVars, roomVars
<1>3. \A p \in Operations : Head(p) # "snapshot"
  BY DEF Operations, EnterRoom, LeaveRoom, BroadcastMessage
<1>4. todo[c] # <<"insert">> /\ Tail(todo[c]) # <<"insert">>
  <2>1. todo[c] # <<"insert">>
    BY <1>2
  <2>2. Tail(todo[c]) # <<"insert">>
    BY <1>2, PlanHeads
  <2> QED
    BY <2>1, <2>2
<1>5. Served(c) /\ Served(c)'
  <2>1. todo'[c] \in {todo[c], Tail(todo[c])}
    BY DEF Snapshot
  <2> QED
    BY <1>2, <1>3, <1>4, <2>1 DEF Served
<1>6. CASE r \in roomKeys
  <2>1. todo'[c] = todo[c]
    BY <1>1, <1>6 DEF Snapshot
  <2>2. UNCHANGED Face(c)
    BY <1>2, <2>1, BroadcastsOf DEF Face, BroadcastsLeft
  <2> QED
    BY <1>2, <1>5, <2>2, OwnStepUnseen
<1>7. CASE r \notin roomKeys
  <2>1. \A d \in Conns \ {c} : ~Served(d) /\ ~Served(d)'
    BY <1>2, AloneInSection DEF Holding
  <2>2. ServedFiber = c /\ ServedFiber' = c /\ c # None
    BY <1>5, <2>1, Mapped
  <2>3. r \in Rooms /\ Members(r) = {}
    BY <1>1, <1>2, <1>7 DEF PlanInv, KeysInv
  <2>4. [q \in Rooms |-> Members(q)]' = [q \in Rooms |-> Members(q)]
    BY <1>2 DEF Members
  <2>5. todo'[c] = Tail(todo[c])
    BY <1>1, <1>7 DEF Snapshot
  <2>6. /\ BroadcastsLeft(c) # <<>> /\ BroadcastsLeft(c)' = Tail(BroadcastsLeft(c))
        /\ targets[c] = {} /\ targets'[c] = {}
    BY <1>2, <2>5, BroadcastsOf DEF BroadcastsLeft, TargetsInv
  <2>7. Service!StartNotice
    BY <1>1, <1>2, <2>2, <2>3, <2>4, <2>6 DEF Service!StartNotice
  <2> QED
    BY <2>7 DEF Service!Next
<1> QED
  BY <1>6, <1>7

\* Broadcast finds the room and starts to tell its members, or finds nobody
\* (RoomManager.cpp:94-101); a chat message is served from here on.
LEMMA StartIsChatOrNotice ==
  ASSUME ServiceInv, NEW c \in Conns, FiberStep(c), StartBroadcast(c)
  PROVE  [Service!Next]_(Service!vars)
<1> USE DEF ServiceInv, RoomsInv, TurnsInv, TypeInv, TypeOK
<1>1. PICK r : r = currentRoomNumber[c]
  OBVIOUS
<1>2. /\ pc[c] = "section" /\ todo[c] \in Plans /\ todo[c] # <<>>
      /\ Head(todo[c]) \in {"list", "joined", "left", "chat"}
      /\ UNCHANGED <<rooms, todo, currentRoomNumber>>
  BY DEF StartBroadcast, InSection, roomVars, userVars
<1>3. targets[c] = {} /\ r \in Rooms
  BY <1>1, <1>2 DEF TargetsInv, PlanInv
<1>4. \/ /\ Members(r) # {} /\ pc'[c] = "write" /\ targets'[c] = Members(r)
      \/ /\ Members(r) = {} /\ pc'[c] = "unlock" /\ targets'[c] = {}
  BY <1>1, <1>2, <1>3 DEF StartBroadcast, GoTo, KeysInv
<1>5. todo[c] # <<"insert">>
  BY <1>2, PlanHeads
<1>6. Served(c)'
  BY <1>2, <1>4, <1>5 DEF Served
<1>7. \A d \in Conns \ {c} : ~Served(d) /\ ~Served(d)'
  BY <1>2, AloneInSection DEF Holding
<1>8. ServedFiber' = c /\ c # None
  BY <1>6, <1>7, Mapped
<1>9. [q \in Rooms |-> Members(q)]' = [q \in Rooms |-> Members(q)]
  BY <1>2 DEF Members
<1>10. BroadcastsLeft(c)' =
         IF Members(r) = {} THEN Broadcasts(Tail(todo[c])) ELSE Broadcasts(todo[c])
  BY <1>2, <1>4 DEF BroadcastsLeft
<1>11. CASE Head(todo[c]) = "chat"
  <2>1. todo[c] = BroadcastMessage
    BY <1>2, <1>11, PlanHeads
  <2>2. ServedFiber = None
    <3>1. ~Served(c)
      BY <1>2, <2>1 DEF Served, Operations
    <3> QED
      BY <1>7, <3>1, Mapped
  <2>3. /\ Broadcasts(todo[c]) = <<"chat">>
        /\ Broadcasts(Tail(todo[c])) = <<>>
    <3>1. Tail(todo[c]) = <<>>
      BY <2>1 DEF BroadcastMessage
    <3> QED
      BY <1>2, <2>1, <3>1, BroadcastsOf
  <2>4. Service!Chat(c, r)
    BY <1>1, <1>2, <1>3, <1>4, <1>8, <1>9, <1>10, <2>2, <2>3
    DEF Service!Chat, Service!Serve
  <2> QED
    BY <1>3, <2>4 DEF Service!Next
<1>12. CASE Head(todo[c]) # "chat"
  <2>1. todo[c] \notin Operations
    BY SMTT(30), <1>2, <1>12 DEF Operations, EnterRoom, LeaveRoom, BroadcastMessage
  <2>2. ServedFiber = c
    BY <1>2, <1>7, <2>1, Mapped DEF Served
  <2>3. /\ BroadcastsLeft(c) # <<>>
        /\ BroadcastsLeft(c)' =
             IF Members(r) = {} THEN Tail(BroadcastsLeft(c)) ELSE BroadcastsLeft(c)
    BY <1>2, <1>10, BroadcastsOf DEF BroadcastsLeft
  <2>4. Service!StartNotice
    BY <1>1, <1>2, <1>3, <1>4, <1>8, <1>9, <2>2, <2>3 DEF Service!StartNotice
  <2> QED
    BY <2>4 DEF Service!Next
<1> QED
  BY <1>11, <1>12

\* Each write of the loop tells one member, and the last one ends the broadcast
\* (RoomManager.cpp:101-107).
LEMMA BroadcastIsTell ==
  ASSUME ServiceInv, NEW c \in Conns, FiberStep(c), Broadcast(c)
  PROVE  [Service!Next]_(Service!vars)
<1> USE DEF ServiceInv, RoomsInv, TurnsInv, TypeInv, TypeOK
<1>1. PICK u \in targets[c] : BroadcastTo(c, u)
  BY DEF Broadcast
<1>2. /\ pc[c] = "write" /\ todo[c] \in Plans /\ todo[c] # <<>>
      /\ UNCHANGED <<rooms, todo, currentRoomNumber>>
  BY DEF Broadcast, PlanInv, Busy, roomVars, userVars
<1>3. Served(c)
  BY <1>2 DEF Served
<1>4. CASE targets' = targets /\ pc'[c] \in {"write", "crashed"}
  <2>1. Served(c)' /\ UNCHANGED Face(c)
    BY <1>2, <1>4 DEF Served, Face, BroadcastsLeft
  <2> QED
    BY <1>2, <1>3, <2>1, OwnStepUnseen
<1>5. CASE /\ targets' = [targets EXCEPT ![c] = @ \ {u}]
           /\ pc'[c] = IF targets[c] \ {u} = {} THEN "unlock" ELSE "write"
  <2>1. todo[c] # <<"insert">> /\ Head(todo[c]) \in {"list", "joined", "left", "chat"}
    BY <1>2, PlanHeads DEF RefusalInv, PlanInv
  <2>2. Served(c)'
    BY <1>2, <1>5, <2>1 DEF Served
  <2>3. \A d \in Conns \ {c} : ~Served(d) /\ ~Served(d)'
    BY <1>2, AloneInSection DEF Holding
  <2>4. ServedFiber = c /\ ServedFiber' = c /\ c # None
    BY <1>3, <2>2, <2>3, Mapped
  <2>5. [q \in Rooms |-> Members(q)]' = [q \in Rooms |-> Members(q)]
    BY <1>2 DEF Members
  <2>6. /\ u \in Users /\ targets'[c] = targets[c] \ {u}
        /\ BroadcastsLeft(c)' = IF targets'[c] = {} THEN Tail(BroadcastsLeft(c))
                                                    ELSE BroadcastsLeft(c)
    BY <1>2, <1>5, <2>1, BroadcastsOf DEF BroadcastsLeft
  <2>7. Service!Tell(u)
    BY <1>1, <1>2, <2>4, <2>5, <2>6 DEF Service!Tell
  <2> QED
    BY <2>6, <2>7 DEF Service!Next
<1>6. \/ targets' = targets /\ pc'[c] \in {"write", "crashed"}
      \/ /\ targets' = [targets EXCEPT ![c] = @ \ {u}]
         /\ pc'[c] = IF targets[c] \ {u} = {} THEN "unlock" ELSE "write"
  BY <1>1, <1>2 DEF BroadcastTo, WaitWritable, GoTo
<1> QED
  BY <1>4, <1>5, <1>6

\* unlock() ends the service after the last section, and between two sections it
\* lets nobody else in (RoomManager.cpp:8-39).
LEMMA UnlockIsFinish ==
  ASSUME ServiceInv, NEW c \in Conns, FiberStep(c), Unlock(c)
  PROVE  [Service!Next]_(Service!vars)
<1> USE DEF ServiceInv, RoomsInv, TurnsInv, TypeInv, TypeOK
<1>1. /\ pc[c] = "unlock" /\ todo[c] \in Plans /\ todo[c] # <<>>
      /\ pc'[c] = Next_pc(Tail(todo[c])) /\ todo'[c] = Tail(todo[c])
      /\ UNCHANGED <<rooms, targets, currentRoomNumber>>
  BY DEF Unlock, PlanInv, Busy, roomVars, userVars
<1>2. targets[c] = {}
  BY <1>1 DEF TargetsInv
<1>3. Tail(todo[c]) \in Plans \ Operations
  BY <1>1, TailOfPlan
<1>4. CASE todo[c] = <<"insert">>
  <2>1. Tail(todo[c]) = <<>>
    BY <1>4
  <2>2. ~Served(c) /\ ~Served(c)'
    BY <1>1, <1>4, <2>1 DEF Served, Next_pc
  <2> QED
    BY <1>1, <2>2, OwnStepUnseen
<1>5. CASE todo[c] # <<"insert">> /\ Next_pc(Tail(todo[c])) = "lock"
  <2>1. Served(c) /\ Served(c)'
    BY <1>1, <1>3, <1>5 DEF Served
  <2>2. UNCHANGED Face(c)
    BY <1>1, <1>5 DEF Face, BroadcastsLeft
  <2> QED
    BY <1>1, <2>1, <2>2, OwnStepUnseen
<1>6. CASE todo[c] # <<"insert">> /\ Next_pc(Tail(todo[c])) # "lock"
  <2>1. Served(c) /\ ~Served(c)'
    BY <1>1, <1>6, NextPc DEF Served
  <2>2. Tail(todo[c]) = <<>> \/ Head(Tail(todo[c])) = "delete"
    BY <1>6 DEF Next_pc
  <2>3. BroadcastsLeft(c) = <<>>
    BY <1>1, <2>2, BroadcastsOf DEF BroadcastsLeft
  <2>4. \A d \in Conns \ {c} : ~Served(d) /\ ~Served(d)'
    BY <1>1, AloneInSection DEF Holding
  <2>5. ServedFiber = c /\ ServedFiber' = None /\ c # None
    BY <2>1, <2>4, Mapped
  <2>6. [q \in Rooms |-> Members(q)]' = [q \in Rooms |-> Members(q)]
    BY <1>1 DEF Members
  <2>7. Service!Finish
    BY <1>2, <2>3, <2>5, <2>6 DEF Service!Finish
  <2> QED
    BY <2>7 DEF Service!Next
<1> QED
  BY <1>4, <1>5, <1>6

\* To read, to log in, to wait for room_mutex_ or to be refused is not seen.
LEMMA QuietSteps ==
  ASSUME ServiceInv, NEW c \in Conns, FiberStep(c),
         \/ Read(c) \/ ReadFailed(c) \/ Answer(c) \/ Delete(c) \/ Lock(c)
         \/ RefuseEntry(c)
  PROVE  UNCHANGED Service!vars
<1> USE DEF ServiceInv, RoomsInv, TurnsInv, TypeInv, TypeOK
<1>1. UNCHANGED rooms
  BY DEF Read, ReadFailed, Answer, Write, WaitWritable, Delete, Lock, RefuseEntry, roomVars
<1>2. CASE Lock(c)
  <2>1. (Served(c)' <=> Served(c)) /\ UNCHANGED Face(c)
    BY <1>2 DEF Lock, Served, Face, BroadcastsLeft, opVars, userVars
  <2> QED
    BY <1>1, <2>1, OwnStepUnseen
<1>3. CASE ~Lock(c)
  <2>1. ~Served(c)
    BY <1>3 DEF Read, ReadFailed, Answer, Delete, RefuseEntry, Served
  <2>2. EnterRoom \in Operations /\ LeaveRoom \in Operations
        /\ BroadcastMessage \in Operations
    BY DEF Operations
  <2>3. ~Served(c)'
    <3>1. CASE Read(c)
      BY <2>2, <3>1
      DEF Read, ReqLogin, ReqRoomEnter, ReqRoomChat, StartOp, Ignore, Served
    <3>2. CASE ReadFailed(c)
      BY <2>2, <3>2 DEF ReadFailed, StartOp, Served
    <3>3. CASE Answer(c) \/ Delete(c)
      BY ZenonT(30), <3>3 DEF Answer, WaitWritable, Delete, Served
    <3>4. CASE RefuseEntry(c)
      BY <3>4 DEF RefuseEntry, WaitWritable, GoTo, Served
    <3> QED
      BY <1>3, <3>1, <3>2, <3>3, <3>4
  <2> QED
    BY <1>1, <2>1, <2>3, OwnStepUnseen
<1> QED
  BY <1>2, <1>3

\* Clients cannot tell the server from one that serves a request at a time: every
\* step of the server is a step of RoomService or changes nothing of it.
THEOREM RoomsAreServed == Spec => ImplementsRoomService
<1>1. Init => Service!Init
  <2> SUFFICES ASSUME Init PROVE Service!Init
    OBVIOUS
  <2>1. \A c \in Conns : ~Served(c)
    BY DEF Init, Served
  <2>2. ServedFiber = None
    BY <2>1, NobodyServed
  <2>3. [r \in Rooms |-> Members(r)] = [r \in Rooms |-> {}]
    BY DEF Init, Members
  <2> QED
    BY <2>2, <2>3 DEF Service!Init
<1>2. ServiceInv /\ [Next]_vars => [Service!Next]_(Service!vars)
  <2> SUFFICES ASSUME ServiceInv, [Next]_vars PROVE [Service!Next]_(Service!vars)
    OBVIOUS
  <2>1. ASSUME NEW c \in Conns, FiberStep(c) PROVE [Service!Next]_(Service!vars)
    BY <2>1, InsertIsEnter, EraseIsLeave, SnapshotIsNotice, StartIsChatOrNotice,
       BroadcastIsTell, UnlockIsFinish, QuietSteps
    DEF FiberStep
  <2> QED
    BY <2>1, EnvironmentUnseen DEF Next
<1> QED
  BY <1>1, <1>2, ServiceInit, ServiceStep, PTL DEF Spec, Service!Spec, ImplementsRoomService
===============================================================================
