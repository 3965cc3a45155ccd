--------------------------- MODULE ChatMutexProofs ---------------------------
(* Proofs about the fibers that wait for room_mutex_ and the queues they are *)
(* in, for any number of connections.                                        *)
EXTENDS ChatServerProofs, QueueTheorems

-----------------------------------------------------------------------------
(* The parts of the inductive invariant.                                     *)

\* A fiber that sleeps for a socket is in the middle of a write, and a socket
\* knows only fibers that do sleep for it.
WriteInv ==
  /\ \A c \in Conns : blockedOn[c] # None =>
       running # c /\ pc[c] \in {"granted", "denied", "full", "write"}
  /\ \A d \in Conns : writer[d] # None => blockedOn[writer[d]] = d

\* A fiber is in one place at a time: it runs, is ready or waits for the mutex.
QueueInv ==
  /\ NoTwice(ready) /\ running \notin Items(ready)
  /\ NoTwice(waiters)
  /\ \A c \in Items(waiters) :
       pc[c] = "lock" /\ running # c /\ c \notin Items(ready)

\* Who is about to lock is in one of those places, so it is not forgotten.
WaitInv ==
  \A c \in Conns :
    pc[c] = "lock" => running = c \/ c \in Items(ready) \cup Items(waiters)

\* Somebody who is not in the array is on the way to try.
OnTheWay ==
  \E c \in Conns : \/ pc[c] = "lock" /\ (running = c \/ c \in Items(ready))
                   \/ pc[c] \in {"delay", "expired"}
WakeInv == mutex = None /\ waiters # <<>> => OnTheWay

WakeupInv == TypeInv /\ WriteInv /\ QueueInv /\ WaitInv /\ WakeInv

-----------------------------------------------------------------------------
(* What the steps do to the queues.                                          *)

\* array_pop_front takes out the first waiter and no other (array.c:27-50).
LEMMA PopFrontItems ==
  ASSUME NEW S, NEW q \in Seq(S), q # <<>>, NoTwice(q)
  PROVE  /\ PopFront(q) \in Seq(S) /\ NoTwice(PopFront(q))
         /\ Items(q) = Items(PopFront(q)) \cup {Head(q)}
         /\ Head(q) \notin Items(PopFront(q))
<1> DEFINE n == Len(q)
<1>1. n \in Nat \ {0} /\ Head(q) = q[1] /\ \A i \in 1 .. n : q[i] \in S
  OBVIOUS
<1>2. PopFront(q) \in Seq(S)
  BY PopFrontType
<1>3. CASE n <= 1
  <2>1. PopFront(q) = <<>> /\ 1 .. n = {1}
    BY <1>1, <1>3 DEF PopFront
  <2>2. Items(q) = {Head(q)}
    BY <1>1, <2>1 DEF Items
  <2> QED
    BY <1>2, <2>1, <2>2, EmptyQueue
<1>4. CASE n > 1
  <2> DEFINE r == PopFront(q)
             at(i) == IF i = 1 THEN n ELSE i
  <2>1. /\ Len(r) = n - 1
        /\ \A i \in 1 .. n - 1 : r[i] = q[at(i)]
    <3>1. r = <<q[n]>> \o SubSeq(q, 2, n - 1)
      BY <1>4, <1>1 DEF PopFront
    <3>2. SubSeq(q, 2, n - 1) \in Seq(S) /\ Len(SubSeq(q, 2, n - 1)) = n - 2
          /\ \A i \in 1 .. n - 2 : SubSeq(q, 2, n - 1)[i] = q[i + 1]
      <4>1. 2 \in Int /\ n - 1 \in Int /\ \A i \in 2 .. n - 1 : q[i] \in S
        BY <1>1
      <4>2. /\ SubSeq(q, 2, n - 1) \in Seq(S)
            /\ Len(SubSeq(q, 2, n - 1)) = IF 2 <= n - 1 THEN (n - 1) - 2 + 1 ELSE 0
            /\ \A i \in 1 .. (n - 1) - 2 + 1 : SubSeq(q, 2, n - 1)[i] = q[2 + i - 1]
        BY <4>1, SubSeqProperties
      <4>3. (n - 1) - 2 + 1 = n - 2 /\ \A i \in 1 .. n - 2 : 2 + i - 1 = i + 1
        BY <1>1
      <4> QED
        BY <4>2, <4>3, <1>1, <1>4
    <3>3. q[n] \in S /\ <<q[n]>> \in Seq(S) /\ Len(<<q[n]>>) = 1
      BY <1>1
    <3>4. Len(r) = n - 1
      BY <3>1, <3>2, <3>3, <1>1, <1>4
    <3>5. ASSUME NEW i \in 1 .. n - 1 PROVE r[i] = q[at(i)]
      <4>1. CASE i = 1
        BY <4>1, <3>1, <3>2, <3>3, <1>4
      <4>2. CASE i # 1
        <5>1. i - 1 \in 1 .. n - 2 /\ i \in 1 + 1 .. 1 + (n - 2)
          BY <4>2, <1>1
        <5>2. r[i] = SubSeq(q, 2, n - 1)[i - 1]
          BY <3>1, <3>2, <3>3, <5>1
        <5> QED
          BY <5>1, <5>2, <3>2, <4>2
      <4> QED
        BY <4>1, <4>2
    <3> QED
      BY <3>4, <3>5
  <2>2. /\ \A i \in 1 .. n - 1 : at(i) \in 1 .. n /\ at(i) # 1
        /\ \A i, j \in 1 .. n - 1 : at(i) = at(j) => i = j
        /\ \A i \in 1 .. n : i = 1 \/ \E j \in 1 .. n - 1 : at(j) = i
    <3>1. ASSUME NEW i \in 1 .. n, i # 1 PROVE \E j \in 1 .. n - 1 : at(j) = i
      <4>1. CASE i = n
        <5>1. at(1) = i /\ 1 \in 1 .. n - 1
          BY <4>1, <1>4, <1>1
        <5> QED
          BY <5>1
      <4>2. CASE i # n
        <5>1. at(i) = i /\ i \in 1 .. n - 1
          BY <3>1, <4>2, <1>1
        <5> QED
          BY <5>1
      <4> QED
        BY <4>1, <4>2
    <3> QED
      BY <3>1, <1>1, <1>4
  <2>3. NoTwice(r)
    <3> SUFFICES ASSUME NEW i \in 1 .. n - 1, NEW j \in 1 .. n - 1, r[i] = r[j]
                 PROVE  i = j
      BY <2>1 DEF NoTwice
    <3> HIDE DEF at, n, r
    <3>1. q[at(i)] = q[at(j)] /\ at(i) \in 1 .. n /\ at(j) \in 1 .. n
      BY <2>1, <2>2
    <3>2. at(i) = at(j)
      BY <3>1 DEF NoTwice, n
    <3> QED
      BY <3>2, <2>2
  <2>4. Items(q) = Items(r) \cup {Head(q)}
    <3>1. ASSUME NEW y \in Items(q) PROVE y \in Items(r) \cup {Head(q)}
      <4>1. PICK i \in 1 .. n : y = q[i]
        BY <3>1 DEF Items
      <4>2. CASE i = 1
        BY <4>1, <4>2, <1>1
      <4>3. CASE i # 1
        <5>1. PICK j \in 1 .. n - 1 : at(j) = i
          BY <4>3, <2>2
        <5> QED
          BY <4>1, <5>1, <2>1 DEF Items
      <4> QED
        BY <4>2, <4>3
    <3>2. Head(q) \in Items(q)
      BY ItemsType
    <3>3. ASSUME NEW y \in Items(r) PROVE y \in Items(q)
      <4>1. PICK i \in 1 .. n - 1 : y = r[i]
        BY <3>3, <2>1 DEF Items
      <4>2. y = q[at(i)] /\ at(i) \in 1 .. n
        BY <4>1, <2>1, <2>2
      <4> HIDE DEF at
      <4> QED
        BY <4>2 DEF Items
    <3> QED
      BY <3>1, <3>2, <3>3
  <2>5. Head(q) \notin Items(r)
    <3>1. Head(q) = q[1] /\ 1 \in 1 .. n
      BY <1>1
    <3> SUFFICES ASSUME NEW i \in 1 .. n - 1, r[i] = q[1] PROVE FALSE
      BY <2>1, <3>1 DEF Items
    <3> HIDE DEF at, n, r
    <3>2. q[at(i)] = q[1] /\ at(i) \in 1 .. n /\ at(i) # 1
      BY <2>1, <2>2
    <3> QED
      BY <3>1, <3>2 DEF NoTwice, n
  <2> QED
    BY <1>2, <2>3, <2>4, <2>5
<1> QED
  BY <1>1, <1>3, <1>4

\* Queued and Items say the same.
LEMMA QueuedItems == \A c : Queued(c) <=> c \in Items(ready)
BY DEF Queued, Items

\* A step of fiber c that is neither about a socket nor about the mutex.
Plain(c) ==
  /\ UNCHANGED <<writer, blockedOn, ready, mutex, waiters>>
  /\ running' \in {c, None}
  /\ \A d \in Conns \ {c} : pc'[d] = pc[d]
  /\ pc[c] \notin {"lock", "delay", "expired"}
  /\ pc'[c] = "lock" => running' = c

\* A step that happens while fiber c sleeps in something that no queue is for.
Outside(c) ==
  /\ UNCHANGED <<writer, blockedOn, ready, mutex, waiters, running>>
  /\ \A d \in Conns \ {c} : pc'[d] = pc[d]
  /\ \/ pc'[c] = pc[c]
     \/ /\ pc[c] \in {"free", "redis", "delay"} /\ pc'[c] # "lock"
        /\ pc[c] = "delay" => pc'[c] = "expired"

\* The steps of a fiber, as far as the queues are concerned.
LEMMA StepKinds ==
  ASSUME TypeInv, NEW c \in Conns, FiberStep(c)
  PROVE  \/ Plain(c) \/ Lock(c) \/ Unlock(c) \/ Delete(c)
         \/ \E d \in Conns : /\ WaitWritable(c, d)
                             /\ pc[c] \in {"granted", "denied", "full", "write"}
<1> USE DEF TypeInv, TypeOK, roomVars, mutexVars, writeVars, opVars, userVars, netVars,
        Plain, BackToRead
<1>0. running = c
  BY DEF FiberStep
<1>1. CASE Read(c)
  BY <1>0, <1>1 DEF Read, ReqLogin, ReqRoomEnter, ReqRoomChat, StartOp, Ignore
<1>2. CASE ReadFailed(c)
  BY <1>0, <1>2 DEF ReadFailed, StartOp
<1>3. CASE Answer(c)
  BY <1>0, <1>3 DEF Answer
<1>4. CASE Insert(c)
  BY <1>0, <1>4 DEF Insert, InSection, GoTo
<1>5. CASE Erase(c)
  BY <1>0, <1>5 DEF Erase, InSection, GoTo
<1>6. CASE Snapshot(c)
  BY <1>0, <1>6 DEF Snapshot, InSection, GoTo
<1>7. CASE StartBroadcast(c)
  BY <1>0, <1>7 DEF StartBroadcast, InSection, GoTo
<1>8. CASE RefuseEntry(c)
  BY <1>0, <1>8 DEF RefuseEntry, GoTo
<1>9. CASE Broadcast(c)
  <2>1. PICK u \in targets[c] : BroadcastTo(c, u)
    BY <1>9 DEF Broadcast
  <2>2. currentRoomNumber[c] \in Rooms /\ u \in Users /\ pc[c] = "write"
    BY <1>9 DEF Broadcast, PlanInv, Busy
  <2>3. rooms[currentRoomNumber[c]][u] \in Conns
    BY <2>1, <2>2 DEF BroadcastTo
  <2> QED
    BY <1>0, <1>9, <2>1, <2>2, <2>3 DEF Broadcast, BroadcastTo, GoTo
<1> QED
  BY <1>1, <1>2, <1>3, <1>4, <1>5, <1>6, <1>7, <1>8, <1>9 DEF FiberStep

\* The steps of clients, of Redis and of time.
LEMMA OutsideKinds ==
  ASSUME TypeInv, NEW c \in Conns, Environment(c)
  PROVE  Outside(c)
<1> USE DEF TypeInv, TypeOK, roomVars, mutexVars, writeVars, opVars, userVars, netVars,
        Outside
<1>1. CASE Accept(c)
  BY <1>1 DEF Accept, Live
<1>2. CASE ClientSend(c) \/ ClientRead(c) \/ Disconnect(c)
  BY <1>2 DEF ClientSend, ClientRead, Disconnect
<1>3. CASE RedisReply(c)
  BY <1>3 DEF RedisReply
<1>4. CASE Timer(c)
  BY <1>4 DEF Timer
<1> QED
  BY <1>1, <1>2, <1>3, <1>4 DEF Environment

\* Every step is one of these.
LEMMA AllSteps ==
  ASSUME TypeInv, [Next]_vars
  PROVE  \/ UNCHANGED vars \/ Poll \/ Resume
         \/ \E c \in Conns :
              \/ Outside(c)
              \/ /\ running = c
                 /\ \/ Plain(c) \/ Lock(c) \/ Unlock(c) \/ Delete(c)
                    \/ \E d \in Conns : /\ WaitWritable(c, d)
                                        /\ pc[c] \in {"granted", "denied", "full", "write"}
<1>1. ASSUME NEW c \in Conns, FiberStep(c)
      PROVE  /\ running = c
             /\ \/ Plain(c) \/ Lock(c) \/ Unlock(c) \/ Delete(c)
                \/ \E d \in Conns : /\ WaitWritable(c, d)
                                    /\ pc[c] \in {"granted", "denied", "full", "write"}
  <2>1. running = c
    BY <1>1 DEF FiberStep
  <2> QED
    BY <2>1, <1>1, StepKinds
<1>2. ASSUME NEW c \in Conns, Environment(c) PROVE Outside(c)
  BY <1>2, OutsideKinds
<1> QED
  BY <1>1, <1>2 DEF Next

-----------------------------------------------------------------------------
(* The steps keep the invariant.                                             *)

\* fe->fiber_w is cleared when its fiber wakes up or the stream is closed
\* (fiber_io.c:619-650).
LEMMA WriteStep ==
  ASSUME TypeInv, WriteInv, [Next]_vars
  PROVE  WriteInv'
<1> USE DEF TypeInv, TypeOK, writeVars, mutexVars, roomVars, opVars
<1>0. None \notin Conns
  BY ConstantsAssumption
<1>1. CASE UNCHANGED vars
  BY <1>1 DEF WriteInv, vars
<1>2. CASE Poll
  BY <1>2 DEF WriteInv, Poll
<1>3. CASE Resume
  <2>1. Head(ready) \in Conns
    BY <1>3 DEF Resume
  <2>2. CASE ResumeWriter(Head(ready))
    BY <1>0, <1>3, <2>1, <2>2 DEF WriteInv, Resume, ResumeWriter
  <2>3. CASE ResumeWaiter(Head(ready))
    BY ZenonT(30), <1>0, <1>3, <2>1, <2>3 DEF WriteInv, Resume, ResumeWaiter, MayRetry
  <2>4. CASE ResumeOther(Head(ready))
    BY <1>0, <1>3, <2>1, <2>4 DEF WriteInv, Resume, ResumeOther
  <2> QED
    BY <1>3, <2>2, <2>3, <2>4 DEF Resume
<1>4. ASSUME NEW c \in Conns, Outside(c) PROVE WriteInv'
  BY <1>4 DEF WriteInv, Outside
<1>5. ASSUME NEW c \in Conns, running = c, Plain(c) PROVE WriteInv'
  BY <1>0, <1>5 DEF WriteInv, Plain
<1>6. ASSUME NEW c \in Conns, running = c, Lock(c) \/ Unlock(c) PROVE WriteInv'
  BY ZenonT(30), <1>0, <1>6 DEF WriteInv, Lock, Unlock, RunOn, BackToRead
<1>7. ASSUME NEW c \in Conns, running = c, Delete(c) PROVE WriteInv'
  BY <1>0, <1>7 DEF WriteInv, Delete
<1>8. ASSUME NEW c \in Conns, running = c, NEW d \in Conns, WaitWritable(c, d),
             pc[c] \in {"granted", "denied", "full", "write"}
      PROVE  WriteInv'
  BY <1>0, <1>8 DEF WriteInv, WaitWritable
<1> QED
  BY <1>1, <1>2, <1>3, <1>4, <1>5, <1>6, <1>7, <1>8, AllSteps

\* A fiber that goes to one of the places leaves the one it was in, and only a
\* fiber with nothing to do but to lock gets into mutex->waiters.
LEMMA QueueStep ==
  ASSUME TypeInv, WriteInv, QueueInv, [Next]_vars
  PROVE  QueueInv'
<1> USE DEF TypeInv, TypeOK, writeVars, mutexVars, roomVars, opVars
<1>0. None \notin Conns
  BY ConstantsAssumption
<1>a. Items(ready) \subseteq Conns /\ Items(waiters) \subseteq Conns
  BY ItemsType
<1>1. CASE UNCHANGED vars
  BY <1>1 DEF QueueInv, vars
<1>2. CASE Poll
  <2> DEFINE S == {c \in Conns : IOReady(c)}
  <2>1. IsFiniteSet(S)
    BY ConstantsAssumption, FS_Subset
  <2>2. ready' \in Orders(S)
    BY <1>2 DEF Poll
  <2>3. Items(ready') = S /\ NoTwice(ready')
    BY <2>1, <2>2, OrderItems DEF Orders
  <2>4. \A c \in Items(waiters) : c \notin S
    BY <1>a DEF QueueInv, WriteInv, IOReady
  <2>5. UNCHANGED <<waiters, pc, running>> /\ running = None
    BY <1>2 DEF Poll
  <2> QED
    BY <1>0, <2>3, <2>4, <2>5 DEF QueueInv
<1>3. CASE Resume
  <2> DEFINE c == Head(ready)
  <2>1. /\ ready # <<>> /\ ready' = Tail(ready) /\ UNCHANGED waiters
        /\ running = None
    BY <1>3 DEF Resume
  <2>2. /\ c \in Conns /\ Items(ready) = Items(ready') \cup {c}
        /\ NoTwice(ready') /\ c \notin Items(ready')
    BY <2>1, TailItems DEF QueueInv
  <2>3. running' \in {c, None} /\ \A d \in Conns \ {c} : pc'[d] = pc[d]
    BY <1>3, <2>2 DEF Resume, ResumeWriter, ResumeWaiter, ResumeOther
  <2> QED
    BY <1>0, <1>a, <2>1, <2>2, <2>3 DEF QueueInv
<1>4. ASSUME NEW c \in Conns, Outside(c) PROVE QueueInv'
  BY <1>a, <1>4 DEF QueueInv, Outside
<1>5. ASSUME NEW c \in Conns, running = c, Plain(c) PROVE QueueInv'
  BY <1>0, <1>a, <1>5 DEF QueueInv, Plain
<1>6. ASSUME NEW c \in Conns, running = c, Lock(c) PROVE QueueInv'
  <2>1. UNCHANGED ready /\ pc[c] = "lock"
    BY <1>6 DEF Lock
  <2>2. CASE mutex = None
    BY <1>a, <1>6, <2>1, <2>2 DEF QueueInv, Lock
  <2>3. CASE mutex # None
    <3>1. waiters' = Append(waiters, c) /\ running' = None /\ UNCHANGED pc
      BY <1>6, <2>3 DEF Lock
    <3>2. c \notin Items(waiters) /\ c \notin Items(ready)
      BY <1>6 DEF QueueInv
    <3>3. Items(waiters') = Items(waiters) \cup {c} /\ NoTwice(waiters')
      BY <3>1, <3>2, AppendItems DEF QueueInv
    <3> QED
      BY <1>0, <1>a, <2>1, <3>1, <3>2, <3>3 DEF QueueInv
  <2> QED
    BY <2>2, <2>3
<1>7. ASSUME NEW c \in Conns, running = c, Unlock(c) PROVE QueueInv'
  <2>1. /\ waiters' = PopFront(waiters) /\ ready' = Wake(ready)
        /\ running' \in {c, None} /\ pc[c] = "unlock"
        /\ \A d \in Conns \ {c} : pc'[d] = pc[d]
    BY <1>7 DEF Unlock, RunOn, BackToRead
  <2>2. c \notin Items(waiters) /\ c \notin Items(ready)
    BY <1>7 DEF QueueInv
  <2>3. CASE waiters = <<>>
    <3>1. waiters' = waiters /\ ready' = ready
      BY <2>1, <2>3 DEF PopFront, Wake
    <3> QED
      BY <1>0, <1>a, <2>1, <2>2, <3>1 DEF QueueInv
  <2>4. CASE waiters # <<>>
    <3> DEFINE w == Head(waiters)
    <3>1. /\ NoTwice(waiters') /\ Items(waiters) = Items(waiters') \cup {w}
          /\ w \notin Items(waiters')
      BY <2>1, <2>4, PopFrontItems DEF QueueInv
    <3>2. w \in Conns /\ w \notin Items(ready) /\ w # c
      BY <1>a, <2>2, <3>1 DEF QueueInv
    <3>3. ready' = Append(ready, w)
      BY <2>1, <2>4 DEF Wake
    <3>4. Items(ready') = Items(ready) \cup {w} /\ NoTwice(ready')
      <4>1. ready \in Seq(Conns) /\ NoTwice(ready)
        BY DEF QueueInv
      <4> HIDE DEF w, TypeInv, TypeOK
      <4> QED
        BY <3>2, <3>3, <4>1, AppendItems
    <3>5. running' \notin Items(ready')
      BY <1>0, <1>a, <2>1, <2>2, <3>2, <3>4
    <3>6. ASSUME NEW d \in Items(waiters')
          PROVE  pc'[d] = "lock" /\ running' # d /\ d \notin Items(ready')
      <4>1. d \in Items(waiters) /\ d # w
        BY <3>1, <3>6
      <4>2. d \in Conns /\ d # c /\ pc[d] = "lock" /\ d \notin Items(ready)
        BY <1>a, <2>2, <4>1 DEF QueueInv
      <4> QED
        BY <1>0, <2>1, <3>4, <4>1, <4>2
    <3> QED
      BY <3>1, <3>4, <3>5, <3>6 DEF QueueInv
  <2> QED
    BY <2>3, <2>4
<1>8. ASSUME NEW c \in Conns, running = c, Delete(c) PROVE QueueInv'
  <2> DEFINE w == writer[c]
  <2>1. /\ ready' = IF w = None \/ w \in Items(ready) THEN ready ELSE Append(ready, w)
        /\ running' = None /\ UNCHANGED waiters /\ pc[c] = "delete"
        /\ \A d \in Conns \ {c} : pc'[d] = pc[d]
    BY <1>8, QueuedItems DEF Delete
  <2>2. ASSUME w # None PROVE w \in Conns /\ w \notin Items(waiters)
    <3>1. w \in Conns /\ blockedOn[w] = c
      BY <2>2 DEF WriteInv
    <3>2. pc[w] # "lock"
      BY <1>0, <3>1 DEF WriteInv
    <3> QED
      BY <3>1, <3>2 DEF QueueInv
  <2>3. /\ Items(ready') \subseteq Items(ready) \cup ({w} \ {None})
        /\ NoTwice(ready')
    BY <2>1, <2>2, AppendItems DEF QueueInv
  <2> QED
    BY <1>0, <1>a, <1>8, <2>1, <2>2, <2>3 DEF QueueInv
<1>9. ASSUME NEW c \in Conns, running = c, NEW d \in Conns, WaitWritable(c, d)
      PROVE  QueueInv'
  BY <1>0, <1>a, <1>9 DEF QueueInv, WaitWritable
<1> QED
  BY <1>1, <1>2, <1>3, <1>4, <1>5, <1>6, <1>7, <1>8, <1>9, AllSteps

\* What the mutex does to its two queues, once for all.
LEMMA UnlockQueues ==
  ASSUME TypeInv, QueueInv, NEW c \in Conns, running = c, Unlock(c)
  PROVE  /\ Items(waiters) \cup Items(ready) = Items(waiters') \cup Items(ready')
         /\ Items(ready) \subseteq Items(ready')
         /\ waiters # <<>> => Head(waiters) \in Conns \cap Items(ready')
         /\ waiters = <<>> => waiters' = <<>>
<1> USE DEF TypeInv, TypeOK
<1>1. waiters' = PopFront(waiters) /\ ready' = Wake(ready)
  BY DEF Unlock, RunOn
<1>2. CASE waiters = <<>>
  BY <1>1, <1>2 DEF PopFront, Wake
<1>3. CASE waiters # <<>>
  <2>1. Items(waiters) = Items(waiters') \cup {Head(waiters)}
    BY <1>1, <1>3, PopFrontItems DEF QueueInv
  <2>2. Head(waiters) \in Conns
    BY <1>3
  <2>3. Items(ready') = Items(ready) \cup {Head(waiters)}
    BY SMTT(30), <1>1, <1>3, <2>2, AppendItems DEF Wake
  <2> QED
    BY <1>3, <2>1, <2>2, <2>3
<1> QED
  BY <1>2, <1>3

\* A closed stream makes a fiber ready and forgets none that is.
LEMMA DeleteQueues ==
  ASSUME TypeInv, NEW c \in Conns, Delete(c)
  PROVE  Items(ready) \subseteq Items(ready')
<1> USE DEF TypeInv, TypeOK
<1>1. \/ ready' = ready
      \/ writer[c] \in Conns /\ ready' = Append(ready, writer[c])
  BY DEF Delete
<1>2. ready \in Seq(Conns)
  OBVIOUS
<1> HIDE DEF TypeInv, TypeOK
<1>3. ASSUME NEW w \in Conns, ready' = Append(ready, w)
      PROVE  Items(ready) \subseteq Items(ready')
  <2>1. Items(ready') = Items(ready) \cup {w}
    BY <1>2, <1>3, AppendItems
  <2> QED
    BY <2>1
<1> QED
  BY <1>1, <1>3

\* A fiber that wants the mutex is put somewhere whenever it is taken out of a
\* place: into mutex->waiters before it sleeps, into the ready ring by unlock.
LEMMA WaitStep ==
  ASSUME TypeInv, QueueInv, WaitInv, [Next]_vars
  PROVE  WaitInv'
<1> USE DEF TypeInv, TypeOK, writeVars, mutexVars, roomVars, opVars
<1>0. None \notin Conns
  BY ConstantsAssumption
<1>1. CASE UNCHANGED vars
  BY <1>1 DEF WaitInv, vars
<1>2. CASE Poll
  BY <1>2, EmptyQueue DEF WaitInv, Poll
<1>3. CASE Resume
  <2> DEFINE c == Head(ready)
  <2>1. /\ ready # <<>> /\ ready' = Tail(ready) /\ UNCHANGED waiters
        /\ running = None
    BY <1>3 DEF Resume
  <2>2. c \in Conns /\ Items(ready) = Items(ready') \cup {c}
    BY <2>1, TailItems
  <2>3. \A d \in Conns \ {c} : pc'[d] = pc[d]
    BY <1>3, <2>2 DEF Resume, ResumeWriter, ResumeWaiter, ResumeOther
  <2>4. pc'[c] = "lock" => running' = c
    BY <1>3, <2>2 DEF Resume, ResumeWriter, ResumeWaiter, ResumeOther
  <2> QED
    BY <1>0, <2>1, <2>2, <2>3, <2>4 DEF WaitInv
<1>4. ASSUME NEW c \in Conns, Outside(c) PROVE WaitInv'
  BY <1>4 DEF WaitInv, Outside
<1>5. ASSUME NEW c \in Conns, running = c, Plain(c) PROVE WaitInv'
  BY <1>5 DEF WaitInv, Plain
<1>6. ASSUME NEW c \in Conns, running = c, Lock(c) PROVE WaitInv'
  <2>1. UNCHANGED ready /\ \A d \in Conns \ {c} : pc'[d] = pc[d]
    BY <1>6 DEF Lock
  <2>2. CASE mutex = None
    <3>1. UNCHANGED waiters /\ pc'[c] = "section"
      BY <1>6, <2>2 DEF Lock
    <3> QED
      BY <1>6, <2>1, <3>1 DEF WaitInv
  <2>3. CASE mutex # None
    <3>1. Items(waiters') = Items(waiters) \cup {c}
      <4>1. waiters \in Seq(Conns) /\ waiters' = Append(waiters, c)
        BY <1>6, <2>3 DEF Lock
      <4> HIDE DEF TypeInv, TypeOK
      <4> QED
        BY <4>1, AppendItems
    <3> QED
      BY <1>6, <2>1, <3>1 DEF WaitInv
  <2> QED
    BY <2>2, <2>3
<1>7. ASSUME NEW c \in Conns, running = c, Unlock(c) PROVE WaitInv'
  <2>1. /\ \A d \in Conns \ {c} : pc'[d] = pc[d]
        /\ pc'[c] = "lock" => running' = c
    BY <1>7, NextPc DEF Unlock, RunOn
  <2> QED
    BY <1>7, <2>1, UnlockQueues DEF WaitInv
<1>8. ASSUME NEW c \in Conns, running = c, Delete(c) PROVE WaitInv'
  <2>1. /\ UNCHANGED waiters /\ pc'[c] = "free"
        /\ \A d \in Conns \ {c} : pc'[d] = pc[d]
    BY <1>8 DEF Delete
  <2> QED
    BY <1>8, <2>1, DeleteQueues DEF WaitInv
<1>9. ASSUME NEW c \in Conns, running = c, NEW d \in Conns, WaitWritable(c, d),
             pc[c] \in {"granted", "denied", "full", "write"}
      PROVE  WaitInv'
  BY <1>9 DEF WaitInv, WaitWritable
<1> QED
  BY <1>1, <1>2, <1>3, <1>4, <1>5, <1>6, <1>7, <1>8, <1>9, AllSteps

\* Whoever is on the way to try stays on the way until it has tried; if it gets
\* the mutex it will wake the next one, and if it does not, somebody else has it.
LEMMA WakeStep ==
  ASSUME TypeInv, QueueInv, WakeInv, [Next]_vars
  PROVE  WakeInv'
<1> USE DEF TypeInv, TypeOK, writeVars, mutexVars, roomVars, opVars
<1>0. None \notin Conns
  BY ConstantsAssumption
<1>1. CASE UNCHANGED vars
  BY <1>1 DEF WakeInv, OnTheWay, vars
<1>2. CASE Poll
  BY <1>2, EmptyQueue DEF WakeInv, OnTheWay, Poll
<1>3. CASE Resume
  <2> DEFINE c == Head(ready)
  <2>1. /\ ready # <<>> /\ ready' = Tail(ready) /\ UNCHANGED <<mutex, waiters>>
        /\ running = None
    BY <1>3 DEF Resume
  <2>2. c \in Conns /\ Items(ready) = Items(ready') \cup {c}
    BY <2>1, TailItems
  <2>3. \A d \in Conns \ {c} : pc'[d] = pc[d]
    BY <1>3, <2>2 DEF Resume, ResumeWriter, ResumeWaiter, ResumeOther
  <2>4. pc[c] \in {"lock", "delay", "expired"} =>
          (pc'[c] = "lock" /\ running' = c) \/ pc'[c] \in {"delay", "expired"}
    BY <1>3, <2>2 DEF Resume, ResumeWriter, ResumeWaiter, ResumeOther
  <2> QED
    BY <1>0, <2>1, <2>2, <2>3, <2>4 DEF WakeInv, OnTheWay
<1>4. ASSUME NEW c \in Conns, Outside(c) PROVE WakeInv'
  BY <1>4 DEF WakeInv, OnTheWay, Outside
<1>5. ASSUME NEW c \in Conns, running = c, Plain(c) PROVE WakeInv'
  BY <1>5 DEF WakeInv, OnTheWay, Plain
<1>6. ASSUME NEW c \in Conns, running = c, Lock(c) PROVE WakeInv'
  <2>1. mutex' # None
    BY <1>0, <1>6 DEF Lock
  <2> QED
    BY <2>1 DEF WakeInv
<1>7. ASSUME NEW c \in Conns, running = c, Unlock(c) PROVE WakeInv'
  <2>1. pc[c] = "unlock" /\ \A d \in Conns \ {c} : pc'[d] = pc[d]
    BY <1>7 DEF Unlock
  <2>2. ASSUME waiters' # <<>> PROVE OnTheWay'
    <3>1. waiters # <<>> /\ Head(waiters) \in Conns \cap Items(ready')
      BY <1>7, <2>2, UnlockQueues
    <3>2. Head(waiters) \in Items(waiters)
      BY <3>1, ItemsType
    <3>3. pc[Head(waiters)] = "lock" /\ Head(waiters) # c
      BY <2>1, <3>2 DEF QueueInv
    <3> QED
      BY <2>1, <3>1, <3>3 DEF OnTheWay
  <2> QED
    BY <2>2 DEF WakeInv
<1>8. ASSUME NEW c \in Conns, running = c, Delete(c) PROVE WakeInv'
  <2>1. /\ UNCHANGED <<mutex, waiters>> /\ pc[c] = "delete"
        /\ \A d \in Conns \ {c} : pc'[d] = pc[d]
    BY <1>8 DEF Delete
  <2> QED
    BY <1>8, <2>1, DeleteQueues DEF WakeInv, OnTheWay
<1>9. ASSUME NEW c \in Conns, running = c, NEW d \in Conns, WaitWritable(c, d),
             pc[c] \in {"granted", "denied", "full", "write"}
      PROVE  WakeInv'
  BY <1>9 DEF WakeInv, OnTheWay, WaitWritable
<1> QED
  BY <1>1, <1>2, <1>3, <1>4, <1>5, <1>6, <1>7, <1>8, <1>9, AllSteps

\* At the start nobody sleeps or waits.
LEMMA WakeupInit == Init => WakeupInv
<1> SUFFICES ASSUME Init PROVE WriteInv /\ QueueInv /\ WaitInv /\ WakeInv
  BY TypeInit DEF WakeupInv
<1> QED
  BY EmptyQueue DEF Init, WriteInv, QueueInv, WaitInv, WakeInv

\* Every step keeps all that is known about the queues.
LEMMA WakeupStep == WakeupInv /\ [Next]_vars => WakeupInv'
BY TypeStep, WriteStep, QueueStep, WaitStep, WakeStep DEF WakeupInv

\* room_mutex_ does not stay free with everybody asleep: a fiber that waits for it
\* is woken, or somebody else is awake who will take it and wake the next one.
THEOREM Wakeups == Spec => []NoLostWakeup
<1>1. WakeupInv => NoLostWakeup
  <2> SUFFICES ASSUME WakeupInv, mutex = None, NEW c \in Conns, pc[c] = "lock"
               PROVE  OnTheWay
    BY QueuedItems DEF NoLostWakeup, OnTheWay
  <2>1. CASE c \in Items(waiters)
    <3>1. waiters # <<>>
      BY <2>1, EmptyQueue
    <3> QED
      BY <3>1 DEF WakeupInv, WakeInv
  <2>2. CASE c \notin Items(waiters)
    BY <2>2 DEF WakeupInv, WaitInv, OnTheWay
  <2> QED
    BY <2>1, <2>2
<1> QED
  BY <1>1, WakeupInit, WakeupStep, PTL DEF Spec

\* A fiber is in one place at a time: the ready ring and the array of room_mutex_
\* hold it at most once together, so no wakeup is spent on a fiber that runs.
THEOREM OnePlace == Spec => []QueueInv
<1>1. WakeupInv => QueueInv
  BY DEF WakeupInv
<1> QED
  BY <1>1, WakeupInit, WakeupStep, PTL DEF Spec

=============================================================================
