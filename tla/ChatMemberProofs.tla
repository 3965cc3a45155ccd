--------------------------- MODULE ChatMemberProofs ---------------------------
(* Proofs about who is listed in a room, for clients that keep to a discipline *)
(* which the server does not enforce.                                          *)
EXTENDS ChatServerProofs

-------------------------------------------------------------------------------
\* No two clients use one account, a client asks for one room only, and it either
\* has one account or does not log in any more once it has asked for the room.
Discipline ==
  /\ \A c, d \in Conns : c # d => Accounts[c] \cap Accounts[d] = {}
  /\ \A c \in Conns : \A r, s \in Doors[c] : r = s
  /\ Relogin => \A c \in Conns : \A u, v \in Accounts[c] : u = v

(* The parts of the inductive invariant.                                       *)

RequestsFrom(c) ==
  [id : {"ReqLogin"}, user : Accounts[c]] \cup [id : {"ReqRoomEnter"}, room : Doors[c]]
    \cup [id : {"ReqRoomChat"}]

\* What a connection knows about its client comes from its client.
AccountInv ==
  \A c \in Conns :
    /\ asked[c] \in Accounts[c] \cup {None}
    /\ currentUserID[c] \in Accounts[c] \cup {None}
    /\ currentRoomNumber[c] \in Doors[c] \cup {None}
    /\ inbox[c] \in Seq(RequestsFrom(c))

\* A login that is under way was sent before the client asked for a room.
LoginInv ==
  ~Relogin =>
    \A c \in Conns :
      currentRoomNumber[c] # None =>
        /\ pc[c] \notin {"redis", "granted", "denied"}
        /\ \A i \in 1 .. Len(inbox[c]) : inbox[c][i].id # "ReqLogin"

\* Between LeaveRoom's first section and the end of the fiber nothing is left of
\* it in rooms_.
Leaving == {<<"left", "snapshot", "list", "delete">>,
            <<"snapshot", "list", "delete">>, <<"list", "delete">>, <<"delete">>}
HasLeft(c) ==
  pc[c] = "delete" \/ todo[c] \in Leaving \/ (todo[c] = LeaveRoom /\ pc[c] = "unlock")
GoneInv == \A c \in Conns : HasLeft(c) => \A r \in Rooms, u \in Users : rooms[r][u] # c

OwnInv == TypeInv /\ AccountInv /\ LoginInv /\ GoneInv /\ MemberIsItself

-------------------------------------------------------------------------------
(* Requests and plans.                                                         *)

\* A request of a client names an account and a room of that client.
LEMMA OwnRequests ==
  ASSUME NEW c \in Conns, NEW q \in RequestsFrom(c)
  PROVE  /\ q.id = "ReqLogin" => q.user \in Accounts[c]
         /\ q.id = "ReqRoomEnter" => q.room \in Doors[c]
BY DEF RequestsFrom

\* The client at c sends such requests.
LEMMA SentRequests ==
  ASSUME NEW c \in Conns
  PROVE  /\ RequestsOf(c) \subseteq RequestsFrom(c)
         /\ \A q \in RequestsOf(c) :
              q.id = "ReqLogin" => Relogin \/ currentRoomNumber[c] = None
BY DEF RequestsOf, RequestsFrom

\* The sections of LeaveRoom follow its first one, and no other operation has them.
LEMMA LeavingPlans ==
  ASSUME NEW p \in Plans, p # <<>>
  PROVE  /\ Tail(p) \in Leaving => p = LeaveRoom \/ p \in Leaving
         /\ Next_pc(Tail(p)) = "delete" => Tail(p) \in Leaving
         /\ Tail(p) # LeaveRoom
<1> USE DEF Plans, Operations, EnterRoom, LeaveRoom, BroadcastMessage, Leaving, Next_pc
<1>1. CASE p = <<"insert", "snapshot", "list", "joined">>
  BY <1>1
<1>2. CASE p = <<"erase", "left", "snapshot", "list", "delete">>
  BY <1>2
<1>3. CASE p \in {<<"chat">>, <<"insert">>, <<"joined">>, <<"delete">>}
  BY <1>3
<1>4. CASE p = <<"snapshot", "list", "joined">>
  BY <1>4
<1>5. CASE p = <<"list", "joined">>
  BY <1>5
<1>6. CASE p = <<"left", "snapshot", "list", "delete">>
  BY <1>6
<1>7. CASE p = <<"snapshot", "list", "delete">>
  BY <1>7
<1>8. CASE p = <<"list", "delete">>
  BY <1>8
<1> QED
  BY <1>1, <1>2, <1>3, <1>4, <1>5, <1>6, <1>7, <1>8

\* No section of EnterRoom or of a chat is one that follows LeaveRoom's first.
LEMMA OtherPlans ==
  /\ EnterRoom \notin Leaving \cup {LeaveRoom}
  /\ BroadcastMessage \notin Leaving \cup {LeaveRoom}
  /\ <<"insert">> \notin Leaving \cup {LeaveRoom} /\ <<>> \notin Leaving \cup {LeaveRoom}
  /\ LeaveRoom \notin Leaving /\ LeaveRoom # <<>> /\ Head(LeaveRoom) = "erase"
  /\ \A p \in Leaving : p # <<>> /\ Head(p) # "insert" /\ Head(p) # "erase"
BY DEF EnterRoom, LeaveRoom, BroadcastMessage, Leaving

-------------------------------------------------------------------------------
(* The steps keep the invariant.                                               *)

userState == <<asked, currentUserID, currentRoomNumber, inbox>>

\* Who reads, answers, deletes or sends.
LEMMA UserChanges ==
  ASSUME [Next]_vars
  PROVE  \/ UNCHANGED userState
         \/ \E c \in Conns : /\ FiberStep(c)
                             /\ Read(c) \/ Answer(c) \/ Delete(c)
         \/ \E c \in Conns : ClientSend(c)
<1> USE DEF userState, userVars, netVars
<1>1. ASSUME NEW c \in Conns, FiberStep(c)
      PROVE  UNCHANGED userState \/ Read(c) \/ Answer(c) \/ Delete(c)
  BY <1>1 DEF FiberStep, ReadFailed, Lock, Unlock, Insert, RefuseEntry, Erase, Snapshot,
     StartBroadcast, Broadcast, WaitWritable
<1>2. ASSUME NEW c \in Conns, Environment(c) PROVE UNCHANGED userState \/ ClientSend(c)
  BY <1>2 DEF Environment, Accept, ClientRead, Disconnect, RedisReply, Timer
<1>3. CASE Poll \/ Resume \/ UNCHANGED vars
  BY <1>3 DEF Poll, Resume, vars
<1> QED
  BY <1>1, <1>2, <1>3 DEF Next

\* A connection keeps to the accounts and rooms of its client.
LEMMA AccountStep ==
  ASSUME TypeInv, AccountInv, [Next]_vars
  PROVE  AccountInv'
<1> USE DEF TypeInv, TypeOK, userVars, netVars
<1>1. CASE UNCHANGED userState
  BY <1>1 DEF AccountInv, userState, RequestsFrom
<1>2. ASSUME NEW c \in Conns, Read(c) PROVE AccountInv'
  <2>1. Head(inbox[c]) \in RequestsFrom(c)
    BY <1>2 DEF AccountInv, Read
  <2>2. /\ currentUserID' = currentUserID
        /\ inbox' = [inbox EXCEPT ![c] = <<>>]
        /\ asked'[c] \in Accounts[c] \cup {None}
        /\ currentRoomNumber'[c] \in Doors[c] \cup {None}
        /\ \A d \in Conns \ {c} : asked'[d] = asked[d]
                                  /\ currentRoomNumber'[d] = currentRoomNumber[d]
    BY <1>2, <2>1, OwnRequests DEF AccountInv, Read, ReqLogin, ReqRoomEnter, ReqRoomChat
  <2>3. ASSUME NEW d \in Conns
        PROVE  /\ asked'[d] \in Accounts[d] \cup {None}
               /\ currentUserID'[d] \in Accounts[d] \cup {None}
               /\ currentRoomNumber'[d] \in Doors[d] \cup {None}
               /\ inbox'[d] \in Seq(RequestsFrom(d))
    BY <2>2 DEF AccountInv
  <2> QED
    BY <2>3 DEF AccountInv
<1>3. ASSUME NEW c \in Conns, Answer(c) PROVE AccountInv'
  BY <1>3 DEF AccountInv, RequestsFrom, Answer, WaitWritable
<1>4. ASSUME NEW c \in Conns, Delete(c) PROVE AccountInv'
  <2>1. /\ asked' = asked /\ currentUserID' = [currentUserID EXCEPT ![c] = None]
        /\ currentRoomNumber' = [currentRoomNumber EXCEPT ![c] = None]
        /\ inbox' = [inbox EXCEPT ![c] = <<>>]
    BY <1>4 DEF Delete
  <2>2. ASSUME NEW d \in Conns
        PROVE  /\ asked'[d] \in Accounts[d] \cup {None}
               /\ currentUserID'[d] \in Accounts[d] \cup {None}
               /\ currentRoomNumber'[d] \in Doors[d] \cup {None}
               /\ inbox'[d] \in Seq(RequestsFrom(d))
    BY <2>1 DEF AccountInv
  <2> QED
    BY <2>2 DEF AccountInv
<1>5. ASSUME NEW c \in Conns, ClientSend(c) PROVE AccountInv'
  <2>1. PICK p \in RequestsFrom(c) : inbox' = [inbox EXCEPT ![c] = Append(@, p)]
    BY <1>5, SentRequests DEF ClientSend
  <2>2. Append(inbox[c], p) \in Seq(RequestsFrom(c))
    BY <2>1 DEF AccountInv
  <2>3. UNCHANGED <<asked, currentUserID, currentRoomNumber>>
    BY <1>5 DEF ClientSend
  <2> QED
    BY <2>1, <2>2, <2>3 DEF AccountInv, RequestsFrom
<1> QED
  BY <1>1, <1>2, <1>3, <1>4, <1>5, UserChanges

\* A login is only read while the connection has no room, and no request is read
\* while Redis is asked.
LEMMA LoginStep ==
  ASSUME TypeInv, LoginInv, [Next]_vars
  PROVE  LoginInv'
<1> USE DEF TypeInv, TypeOK, userVars, netVars
<1> SUFFICES ASSUME ~Relogin, NEW c \in Conns, currentRoomNumber'[c] # None
             PROVE  /\ pc'[c] \notin {"redis", "granted", "denied"}
                    /\ \A i \in 1 .. Len(inbox'[c]) : inbox'[c][i].id # "ReqLogin"
  BY DEF LoginInv
<1>1. CASE Read(c)
  <2>1. Len(inbox'[c]) = 0
    BY <1>1 DEF Read
  <2>2. CASE ReqLogin(c, Head(inbox[c]))
    <3>1. inbox[c] # <<>> /\ inbox[c][1].id = "ReqLogin" /\ 1 \in 1 .. Len(inbox[c])
      BY <1>1, <2>2 DEF Read, ReqLogin
    <3>2. currentRoomNumber'[c] = None
      BY <2>2, <3>1 DEF LoginInv, ReqLogin
    <3> QED
      BY <3>2
  <2>3. CASE ReqRoomEnter(c, Head(inbox[c])) \/ ReqRoomChat(c, Head(inbox[c]))
    BY <1>1, <2>1, <2>3 DEF Read, ReqRoomEnter, ReqRoomChat, StartOp, Ignore
  <2> QED
    BY <1>1, <2>2, <2>3 DEF Read
<1>2. CASE ClientSend(c)
  <2>1. PICK p \in RequestsOf(c) : inbox' = [inbox EXCEPT ![c] = Append(@, p)]
    BY <1>2 DEF ClientSend
  <2>2. UNCHANGED <<pc, currentRoomNumber>>
    BY <1>2 DEF ClientSend
  <2>3. p.id # "ReqLogin"
    BY <2>1, <2>2, SentRequests
  <2>4. /\ inbox[c] \in Seq(Requests) /\ inbox'[c] = Append(inbox[c], p)
        /\ Len(inbox'[c]) = Len(inbox[c]) + 1
    BY <2>1
  <2>5. \A i \in 1 .. Len(inbox'[c]) :
          inbox'[c][i] = IF i = Len(inbox[c]) + 1 THEN p ELSE inbox[c][i]
    BY <2>4
  <2>6. \A i \in 1 .. Len(inbox'[c]) : i = Len(inbox[c]) + 1 \/ i \in 1 .. Len(inbox[c])
    BY <2>4
  <2> QED
    BY <2>2, <2>3, <2>5, <2>6 DEF LoginInv
<1>3. CASE ~Read(c) /\ ~ClientSend(c)
  <2>1. /\ currentRoomNumber'[c] = currentRoomNumber[c]
        /\ inbox'[c] \in {inbox[c], <<>>}
    <3>1. CASE UNCHANGED userState
      BY <3>1 DEF userState
    <3>2. ASSUME NEW d \in Conns, Read(d) PROVE <2>1
      BY <1>3, <3>2 DEF Read, ReqLogin, ReqRoomEnter, ReqRoomChat
    <3>3. ASSUME NEW d \in Conns, Answer(d) \/ Delete(d) \/ ClientSend(d) PROVE <2>1
      BY ZenonT(30), <1>3, <3>3 DEF Answer, WaitWritable, Delete, ClientSend
    <3> QED
      BY <3>1, <3>2, <3>3, UserChanges
  <2>2. pc'[c] \in {"redis", "granted", "denied"} => pc[c] \in {"redis", "granted", "denied"}
    <3>1. ASSUME NEW d \in Conns, d # c, FiberStep(d) PROVE <2>2
      BY <3>1, OthersStep DEF Local
    <3>2. ASSUME FiberStep(c) PROVE <2>2
      <4> USE DEF WaitWritable, GoTo
      <4>1. CASE ReadFailed(c) \/ Answer(c) \/ Delete(c) \/ Lock(c)
        BY ZenonT(30), <4>1 DEF ReadFailed, StartOp, Answer, Delete, Lock
      <4>2. CASE Unlock(c)
        BY <4>2, NextPc DEF Unlock
      <4>3. CASE Insert(c) \/ RefuseEntry(c) \/ Erase(c) \/ Snapshot(c) \/ StartBroadcast(c)
        BY <4>3 DEF Insert, RefuseEntry, Erase, Snapshot, StartBroadcast
      <4>4. CASE Broadcast(c)
        BY <4>4 DEF Broadcast, BroadcastTo
      <4> QED
        BY <1>3, <3>2, <4>1, <4>2, <4>3, <4>4 DEF FiberStep
    <3>3. ASSUME NEW d \in Conns, Environment(d) PROVE <2>2
      BY <3>3 DEF Environment, Accept, ClientSend, ClientRead, Disconnect, RedisReply, Timer
    <3>4. CASE Poll \/ Resume \/ UNCHANGED vars
      BY <3>4 DEF Poll, Resume, ResumeWriter, ResumeWaiter, ResumeOther, vars
    <3> QED
      BY <3>1, <3>2, <3>3, <3>4 DEF Next
  <2>3. \A i \in 1 .. Len(inbox'[c]) : i \in 1 .. Len(inbox[c]) /\ inbox'[c] = inbox[c]
    BY <2>1
  <2> QED
    BY <2>1, <2>2, <2>3 DEF LoginInv
<1> QED
  BY <1>1, <1>2, <1>3

\* An entry changes only by EnterRoom, which enters the fiber itself, and by
\* LeaveRoom, which leaves nothing there (RoomManager.cpp:18, 28).
LEMMA EntryChanges ==
  ASSUME TypeInv, [Next]_vars, NEW r \in Rooms, NEW u \in Users,
         rooms'[r][u] # rooms[r][u]
  PROVE  \E c \in Conns :
           /\ FiberStep(c) /\ r = currentRoomNumber[c] /\ u = currentUserID[c]
           /\ \/ Insert(c) /\ rooms'[r][u] = c
              \/ Erase(c) /\ rooms'[r][u] = None
<1>1. PICK c \in Conns : FiberStep(c) /\ (Insert(c) \/ Erase(c))
  BY RoomChanges DEF roomVars
<1>2. rooms \in [Rooms -> [Users -> Conns \cup {None}]]
  BY DEF TypeInv, TypeOK
<1>3. CASE Insert(c)
  <2>1. rooms' = [rooms EXCEPT ![currentRoomNumber[c]][currentUserID[c]] = c]
    BY <1>3 DEF Insert, roomVars
  <2>2. r = currentRoomNumber[c] /\ u = currentUserID[c] /\ rooms'[r][u] = c
    BY <1>2, <2>1
  <2> QED
    BY <1>1, <1>3, <2>2
<1>4. CASE Erase(c)
  <2>1. rooms' = [rooms EXCEPT ![currentRoomNumber[c]][currentUserID[c]] = None]
    BY <1>4 DEF Erase
  <2>2. r = currentRoomNumber[c] /\ u = currentUserID[c] /\ rooms'[r][u] = None
    BY <1>2, <2>1
  <2> QED
    BY <1>1, <1>4, <2>2
<1> QED
  BY <1>1, <1>3, <1>4

\* In a room or not, a connection of its own is not None.
LEMMA OwnEntry ==
  ASSUME MemberIsItself, NEW r \in Rooms, NEW u \in Users, NEW c \in Conns,
         rooms[r][u] = c
  PROVE  /\ pc[c] # "free" /\ currentUserID[c] = u /\ currentRoomNumber[c] = r
         /\ currentUserID[c] # None /\ currentRoomNumber[c] # None
BY ConstantsAssumption DEF MemberIsItself, Live

\* Two connections never stand for the same user.
LEMMA OwnUsers ==
  ASSUME Discipline, AccountInv, NEW c \in Conns, NEW d \in Conns,
         currentUserID[c] # None, currentUserID[c] = currentUserID[d]
  PROVE  c = d
BY DEF Discipline, AccountInv

\* After its first section LeaveRoom runs to its end without a new entry, and
\* before it erases the only entry there is.
LEMMA GoneStep ==
  ASSUME Discipline, OwnInv, [Next]_vars
  PROVE  GoneInv'
<1> USE DEF OwnInv
<1>0. None \notin Conns \cup Users \cup Rooms
  BY ConstantsAssumption
<1> SUFFICES ASSUME NEW c \in Conns, HasLeft(c)', NEW r \in Rooms, NEW u \in Users,
                    rooms'[r][u] = c
             PROVE  FALSE
  BY DEF GoneInv
<1>1. CASE FiberStep(c) /\ Erase(c)
  <2>1. rooms'[r][u] # rooms[r][u] => rooms'[r][u] = None
    <3>1. ~Insert(c)
      BY <1>1, OtherPlans DEF Insert, Erase, InSection
    <3>2. running = c
      BY <1>1 DEF FiberStep
    <3> QED
      BY <3>1, <3>2, EntryChanges DEF FiberStep
  <2>2. rooms[r][u] = c
    BY <1>0, <2>1
  <2>3. currentUserID[c] = u /\ currentRoomNumber[c] = r
    BY <2>2, OwnEntry
  <2>4. rooms'[r][u] = None
    BY <1>1, <2>3 DEF TypeInv, TypeOK, Erase
  <2> QED
    BY <1>0, <2>4
<1>2. CASE FiberStep(c) /\ Insert(c)
  <2> USE DEF TypeInv, TypeOK
  <2>1. /\ pc'[c] \in {"full", "unlock"} /\ todo'[c] = todo[c] /\ todo[c] # <<>>
        /\ Head(todo[c]) = "insert"
    BY <1>2 DEF Insert, InSection, GoTo, opVars
  <2> QED
    BY <2>1, OtherPlans DEF HasLeft
<1>3. CASE ~(FiberStep(c) /\ (Insert(c) \/ Erase(c)))
  <2>1. rooms[r][u] = c
    BY <1>0, <1>3, EntryChanges
  <2>2. ~HasLeft(c)
    BY <2>1 DEF GoneInv
  <2>3. currentUserID[c] # None /\ currentRoomNumber[c] # None
    BY <2>1, OwnEntry
  <2> USE DEF TypeInv, TypeOK
  <2>4. ASSUME NEW d \in Conns, d # c, FiberStep(d) PROVE FALSE
    BY <2>2, <2>4, OthersStep DEF HasLeft, Local
  <2>5. ASSUME NEW d \in Conns, Environment(d) PROVE FALSE
    BY <2>2, <2>5
    DEF HasLeft, Environment, Accept, ClientSend, ClientRead, Disconnect, RedisReply, Timer,
        opVars
  <2>6. CASE Poll \/ Resume \/ UNCHANGED vars
    BY <2>2, <2>6
    DEF HasLeft, Poll, Resume, ResumeWriter, ResumeWaiter, ResumeOther, vars, opVars
  <2>7. CASE FiberStep(c)
    <3> USE DEF HasLeft
    <3>1. CASE Read(c)
      BY <2>2, <3>1, OtherPlans
      DEF Read, ReqLogin, ReqRoomEnter, ReqRoomChat, StartOp, Ignore
    <3>2. CASE ReadFailed(c)
      BY <2>2, <2>3, <3>2, OtherPlans DEF ReadFailed, StartOp
    <3>3. CASE Answer(c)
      BY <2>2, <3>3 DEF Answer, WaitWritable, opVars
    <3>4. CASE Delete(c)
      BY <2>2, <3>4 DEF Delete
    <3>5. CASE Lock(c)
      BY <2>2, <3>5 DEF Lock, opVars
    <3>6. CASE Unlock(c)
      <4>1. /\ todo[c] \in Plans /\ todo[c] # <<>> /\ todo'[c] = Tail(todo[c])
            /\ pc[c] = "unlock" /\ pc'[c] = Next_pc(Tail(todo[c]))
        BY <3>6 DEF Unlock, PlanInv, Busy
      <4> QED
        BY <2>2, <4>1, LeavingPlans
    <3>7. CASE RefuseEntry(c)
      BY <2>2, <3>7, OtherPlans DEF RefuseEntry, WaitWritable, GoTo, opVars
    <3>8. CASE Snapshot(c)
      <4>1. /\ todo[c] \in Plans /\ todo[c] # <<>> /\ pc'[c] = "unlock"
            /\ todo'[c] \in {todo[c], Tail(todo[c])} /\ Head(todo[c]) = "snapshot"
        BY <3>8 DEF Snapshot, InSection, GoTo
      <4>2. todo[c] # LeaveRoom /\ todo[c] \notin Leaving
        BY <2>2, <4>1, OtherPlans
      <4>3. Tail(todo[c]) \notin Leaving /\ Tail(todo[c]) # LeaveRoom
        BY <4>1, <4>2, LeavingPlans
      <4> QED
        BY <4>1, <4>2, <4>3
    <3>9. CASE StartBroadcast(c)
      <4>1. todo'[c] = todo[c] /\ todo[c] # LeaveRoom /\ pc'[c] # "delete"
        BY <3>9, OtherPlans DEF StartBroadcast, InSection, GoTo
      <4> QED
        BY <2>2, <4>1
    <3>10. CASE Broadcast(c)
      <4>1. todo'[c] = todo[c] /\ pc[c] = "write" /\ pc'[c] # "delete"
        BY <3>10 DEF Broadcast, BroadcastTo, WaitWritable, GoTo, opVars
      <4>2. todo[c] # LeaveRoom
        BY <4>1, OtherPlans DEF PlanInv, Kinds
      <4> QED
        BY <2>2, <4>1, <4>2
    <3> QED
      BY <1>3, <2>7, <3>1, <3>2, <3>3, <3>4, <3>5, <3>6, <3>7, <3>8, <3>9, <3>10
      DEF FiberStep
  <2> QED
    BY <2>4, <2>5, <2>6, <2>7 DEF Next
<1> QED
  BY <1>1, <1>2, <1>3

\* While a connection stands behind an entry it changes neither its user nor its
\* room and does not end.
LEMMA MemberStep ==
  ASSUME Discipline, OwnInv, [Next]_vars
  PROVE  MemberIsItself'
<1> USE DEF OwnInv
<1>0. None \notin Conns \cup Users \cup Rooms
  BY ConstantsAssumption
<1> SUFFICES ASSUME NEW r \in Rooms, NEW u \in Users, NEW c \in Conns,
                    rooms'[r][u] = c
             PROVE  pc'[c] # "free" /\ currentUserID'[c] = u /\ currentRoomNumber'[c] = r
  <2>1. rooms' \in [Rooms -> [Users -> Conns \cup {None}]]
    BY TypeStep DEF TypeInv, TypeOK
  <2> QED
    BY <2>1 DEF MemberIsItself, Live
<1>1. CASE rooms[r][u] # c
  <2>1. /\ FiberStep(c) /\ Insert(c)
        /\ r = currentRoomNumber[c] /\ u = currentUserID[c]
    BY <1>0, <1>1, EntryChanges
  <2> QED
    BY <2>1 DEF TypeInv, TypeOK, Insert, GoTo, userVars
<1>2. CASE rooms[r][u] = c
  <2>1. pc[c] # "free" /\ currentUserID[c] = u /\ currentRoomNumber[c] = r /\ ~HasLeft(c)
    BY <1>2, OwnEntry DEF GoneInv
  <2> USE DEF TypeInv, TypeOK
  <2>2. CASE UNCHANGED userState
    <3>1. pc'[c] # "free"
      <4>1. ASSUME NEW d \in Conns, d # c, FiberStep(d) PROVE pc'[c] = pc[c]
        BY <4>1, OthersStep DEF Local
      <4>2. ASSUME FiberStep(c) PROVE pc'[c] # "free"
        <5> USE DEF WaitWritable, GoTo
        <5>1. CASE Read(c)
          BY <2>1, <5>1 DEF Read, ReqLogin, ReqRoomEnter, ReqRoomChat, StartOp, Ignore
        <5>2. CASE ReadFailed(c) \/ Answer(c) \/ Delete(c) \/ Lock(c)
          BY <2>1, <5>2 DEF ReadFailed, StartOp, Answer, Delete, Lock, HasLeft
        <5>3. CASE Unlock(c)
          BY <5>3, NextPc DEF Unlock
        <5>4. CASE Insert(c) \/ RefuseEntry(c) \/ Erase(c) \/ Snapshot(c)
                     \/ StartBroadcast(c)
          BY <2>1, <5>4 DEF Insert, RefuseEntry, Erase, Snapshot, StartBroadcast
        <5>5. CASE Broadcast(c)
          BY <2>1, <5>5 DEF Broadcast, BroadcastTo
        <5> QED
          BY <4>2, <5>1, <5>2, <5>3, <5>4, <5>5 DEF FiberStep
      <4>3. ASSUME NEW d \in Conns, Environment(d) PROVE pc'[c] # "free"
        BY <2>1, <4>3
        DEF Environment, Accept, ClientSend, ClientRead, Disconnect, RedisReply, Timer
      <4>4. CASE Poll \/ Resume \/ UNCHANGED vars
        BY <2>1, <4>4 DEF Poll, Resume, ResumeWriter, ResumeWaiter, ResumeOther, vars
      <4> QED
        BY <2>1, <4>1, <4>2, <4>3, <4>4 DEF Next
    <3> QED
      BY <2>1, <2>2, <3>1 DEF userState
  <2>3. ASSUME NEW d \in Conns, Read(d)
        PROVE  pc'[c] # "free" /\ currentUserID'[c] = u /\ currentRoomNumber'[c] = r
    <3>1. currentUserID'[c] = u /\ pc'[c] # "free"
      BY <2>1, <2>3
      DEF Read, ReqLogin, ReqRoomEnter, ReqRoomChat, StartOp, Ignore
    <3>2. currentRoomNumber'[c] = r
      <4>1. currentRoomNumber'[c] \in Doors[c] \cup {None} /\ r \in Doors[c]
        BY <1>0, <2>1, AccountStep DEF AccountInv
      <4>2. currentRoomNumber'[c] # None
        <5>1. Head(inbox[d]) \in Requests
          BY <2>3 DEF Read
        <5> QED
          BY <1>0, <2>1, <2>3, <5>1, RequestTypes
          DEF Read, ReqLogin, ReqRoomEnter, ReqRoomChat
      <4> QED
        BY <4>1, <4>2 DEF Discipline
    <3> QED
      BY <3>1, <3>2
  <2>4. ASSUME NEW d \in Conns, Answer(d)
        PROVE  pc'[c] # "free" /\ currentUserID'[c] = u /\ currentRoomNumber'[c] = r
    <3>1. currentRoomNumber'[c] = r /\ pc'[c] # "free"
      BY <2>1, <2>4 DEF Answer, WaitWritable, userVars
    <3>2. CASE d # c
      BY <2>1, <2>4, <3>1, <3>2 DEF Answer, WaitWritable, userVars
    <3>3. CASE d = c
      <4>1. Relogin
        BY <1>0, <2>1, <2>4, <3>3 DEF LoginInv, Answer
      <4>2. pc[c] \in {"granted", "denied"} => asked[c] # None
        BY DEF AskedInv
      <4>3. asked[c] = u
        <5>1. asked[c] \in Accounts[c] /\ u \in Accounts[c]
          BY <1>0, <2>1, <2>4, <3>3, <4>2 DEF AccountInv, Answer
        <5> QED
          BY <4>1, <5>1 DEF Discipline
      <4> QED
        BY <2>1, <2>4, <3>1, <3>3, <4>3 DEF Answer, WaitWritable, userVars
    <3> QED
      BY <3>2, <3>3
  <2>5. ASSUME NEW d \in Conns, Delete(d)
        PROVE  pc'[c] # "free" /\ currentUserID'[c] = u /\ currentRoomNumber'[c] = r
    <3>1. d # c
      BY <2>1, <2>5 DEF Delete, HasLeft
    <3> QED
      BY <2>1, <2>5, <3>1 DEF Delete
  <2>6. ASSUME NEW d \in Conns, ClientSend(d)
        PROVE  pc'[c] # "free" /\ currentUserID'[c] = u /\ currentRoomNumber'[c] = r
    BY <2>1, <2>6 DEF ClientSend, userVars
  <2> QED
    BY <2>2, <2>3, <2>4, <2>5, <2>6, UserChanges
<1> QED
  BY <1>1, <1>2

\* At the start there are no entries.
LEMMA OwnInit == Init => OwnInv
<1> SUFFICES ASSUME Init PROVE AccountInv /\ LoginInv /\ GoneInv /\ MemberIsItself
  BY TypeInit DEF OwnInv
<1>1. AccountInv /\ LoginInv
  BY DEF Init, AccountInv, LoginInv
<1>2. GoneInv /\ MemberIsItself
  BY ConstantsAssumption DEF Init, GoneInv, MemberIsItself
<1> QED
  BY <1>1, <1>2

\* Every step keeps all that is known about the entries of disciplined clients.
LEMMA OwnStep == Discipline /\ OwnInv /\ [Next]_vars => OwnInv'
BY TypeStep, AccountStep, LoginStep, GoneStep, MemberStep DEF OwnInv

\* With disciplined clients, an entry of a step's new state that was somebody else's
\* before cannot be: nobody else has the account (RoomManager.cpp:18, 28).
LEMMA OwnChanges ==
  ASSUME Discipline, OwnInv, [Next]_vars, NEW r \in Rooms, NEW u \in Users,
         rooms[r][u] # None, rooms'[r][u] # rooms[r][u]
  PROVE  running = rooms[r][u]
<1>1. PICK c \in Conns : FiberStep(c) /\ u = currentUserID[c]
  BY EntryChanges DEF OwnInv
<1>2. rooms[r][u] \in Conns
  BY DEF OwnInv, TypeInv, TypeOK
<1>3. currentUserID[rooms[r][u]] = u /\ u # None
  BY <1>2, OwnEntry DEF OwnInv
<1>4. rooms[r][u] = c
  BY <1>1, <1>2, <1>3, OwnUsers DEF OwnInv
<1> QED
  BY <1>1, <1>4 DEF FiberStep

-------------------------------------------------------------------------------
\* For disciplined clients the table of a room is right at every moment, however the
\* fibers are scheduled and whenever clients hang up: an entry names a connection
\* that is there, serves that user and is in that room.
THEOREM OwnEntries == ASSUME Discipline PROVE Spec => []MemberIsItself
<1>1. OwnInv /\ [Next]_vars => OwnInv'
  BY OwnStep
<1>2. OwnInv => MemberIsItself
  BY DEF OwnInv
<1> QED
  BY <1>1, <1>2, OwnInit, PTL DEF Spec

\* Such a connection alone takes its entry away: nobody's refusal, leaving or
\* clean-up touches the entry of another.
THEOREM OwnRemoval == ASSUME Discipline PROVE Spec => OnlyMyselfRemovesMe
<1> DEFINE Keeps ==
      \A r \in Rooms, u \in Users :
        rooms[r][u] # None /\ rooms'[r][u] # rooms[r][u] => running = rooms[r][u]
<1>1. OwnInv /\ [Next]_vars => OwnInv'
  BY OwnStep
<1>2. OwnInv /\ [Next]_vars => [Keeps]_vars
  BY OwnChanges
<1> HIDE DEF Keeps
<1>3. Spec => [][Keeps]_vars
  BY <1>1, <1>2, OwnInit, PTL DEF Spec
<1> QED
  BY <1>3 DEF Keeps, OnlyMyselfRemovesMe

\* And no room of theirs ever keeps a stream that has been deleted: Broadcast never
\* writes to one (RoomManager.cpp:101-107).
THEOREM OwnStreams == ASSUME Discipline PROVE Spec => []NoDeletedMember
<1>1. OwnInv /\ [Next]_vars => OwnInv'
  BY OwnStep
<1>2. OwnInv => NoDeletedMember
  BY DEF OwnInv, MemberIsItself, NoDeletedMember
<1> QED
  BY <1>1, <1>2, OwnInit, PTL DEF Spec

===============================================================================
