-------------------------- MODULE SharedObjectsProofs --------------------------
(* Proofs about the objects that fibers of several threads share: the           *)
(* fiber_mutex, the fiber_event, the deadlock check, and the mailbox with its    *)
(* condition variable.  There are any number of threads, fibers and mutexes.     *)
EXTENDS SharedObjects, QueueTheorems, WellFoundedInduction

-------------------------------------------------------------------------------
(* Arrays and rings.                                                           *)

\* FiberThreads speaks of the same elements.
LEMMA ElementsAreItems ==
  ASSUME NEW S, NEW q \in Seq(S)
  PROVE  Elements(q) = Items(q) /\ DOMAIN q = 1 .. Len(q)
BY DEF Elements, Items

\* The place at which something is.
LEMMA PositionOf ==
  ASSUME NEW S, NEW q \in Seq(S), NEW x \in Items(q)
  PROVE  Position(q, x) \in 1 .. Len(q) /\ q[Position(q, x)] = x
BY ElementsAreItems DEF Position, Items

\* ring_detach takes one element out and leaves the others.
LEMMA DetachItems ==
  ASSUME NEW S, NEW q \in Seq(S), NEW x, NoTwice(q)
  PROVE  /\ Detach(q, x) \in Seq(S) /\ NoTwice(Detach(q, x))
         /\ Items(Detach(q, x)) = Items(q) \ {x}
<1>1. CASE x \in Items(q)
  <2> DEFINE k == Position(q, x)
  <2>1. k \in 1 .. Len(q) /\ q[k] = x
    BY <1>1, PositionOf
  <2>2. Detach(q, x) = SubSeq(q, 1, k - 1) \o SubSeq(q, k + 1, Len(q))
    BY <1>1, ElementsAreItems DEF Detach, RemoveAt
  <2> HIDE DEF k
  <2> QED
    BY ZenonT(30), <2>1, <2>2, RemoveItems
<1>2. CASE x \notin Items(q)
  BY <1>2, ElementsAreItems DEF Detach
<1> QED
  BY <1>1, <1>2

\* array_delete fills the gap with the last element: nothing else is lost.
LEMMA DeleteAtItems ==
  ASSUME NEW S, NEW q \in Seq(S), NEW k \in 1 .. Len(q)
  PROVE  LET r == DeleteAt(q, k)
         IN  /\ r \in Seq(S)
             /\ Items(q) = Items(r) \cup {q[k]}
             /\ NoTwice(q) => NoTwice(r) /\ q[k] \notin Items(r)
<1> DEFINE n == Len(q)
           r == DeleteAt(q, k)
<1>1. n \in Nat \ {0} /\ \A i \in 1 .. n : q[i] \in S
  OBVIOUS
<1>2. /\ r \in Seq(S) /\ Len(r) = n - 1
      /\ \A i \in 1 .. n - 1 : r[i] = IF i = k THEN q[n] ELSE q[i]
  <2>1. CASE k = n
    <3>1. r = SubSeq(q, 1, n - 1)
      BY <2>1 DEF DeleteAt, Front
    <3>2. Len(q) = n
      OBVIOUS
    <3> HIDE DEF n
    <3>3. SubSeq(q, 1, n - 1) \in Seq(S) /\ Len(SubSeq(q, 1, n - 1)) = n - 1
      BY <1>1, <3>2
    <3>4. \A i \in 1 .. n - 1 : SubSeq(q, 1, n - 1)[i] = q[i]
      BY <1>1, <3>2
    <3> QED
      BY <2>1, <3>1, <3>3, <3>4, <1>1
  <2>2. CASE k # n
    <3> DEFINE p == [q EXCEPT ![k] = q[n]]
    <3>1. r = SubSeq(p, 1, n - 1)
      BY <2>2 DEF DeleteAt, Last
    <3>2. p \in Seq(S) /\ Len(p) = n /\ \A i \in 1 .. n : p[i] = IF i = k THEN q[n] ELSE q[i]
      BY <1>1
    <3> HIDE DEF p
    <3>3. SubSeq(p, 1, n - 1) \in Seq(S) /\ Len(SubSeq(p, 1, n - 1)) = n - 1
      BY <1>1, <3>2
    <3>4. \A i \in 1 .. n - 1 : SubSeq(p, 1, n - 1)[i] = p[i]
      BY <1>1, <3>2
    <3> QED
      BY <1>1, <3>1, <3>2, <3>3, <3>4
  <2> QED
    BY <2>1, <2>2
<1> HIDE DEF r, n
<1>3. Items(q) = Items(r) \cup {q[k]}
  <2>1. ASSUME NEW i \in 1 .. n PROVE q[i] \in Items(r) \cup {q[k]}
    <3>1. CASE i = k
      BY <3>1
    <3>2. CASE i # k /\ i # n
      <4>1. i \in 1 .. n - 1 /\ r[i] = q[i]
        BY <3>2, <1>1, <1>2
      <4> QED
        BY <4>1, <1>2 DEF Items
    <3>3. CASE i # k /\ i = n
      <4>1. k \in 1 .. n - 1 /\ r[k] = q[n]
        BY <3>3, <1>1, <1>2 DEF n
      <4> QED
        BY <3>3, <4>1, <1>2 DEF Items
    <3> QED
      BY <3>1, <3>2, <3>3
  <2>2. ASSUME NEW i \in 1 .. n - 1 PROVE r[i] \in Items(q)
    <3>1. i \in 1 .. n /\ n \in 1 .. n /\ r[i] \in {q[i], q[n]}
      BY <1>1, <1>2
    <3> QED
      BY <3>1 DEF Items, n
  <2> QED
    BY <2>1, <2>2, <1>2 DEF Items, n
<1>4. ASSUME NoTwice(q) PROVE NoTwice(r) /\ q[k] \notin Items(r)
  <2>1. \A i, j \in 1 .. n : q[i] = q[j] => i = j
    BY <1>4 DEF NoTwice, n
  <2>2. \A i \in 1 .. n - 1 : i \in 1 .. n /\ i # n /\ n \in 1 .. n
    BY <1>1
  <2>3. k \in 1 .. n
    BY DEF n
  <2>4. \A i \in 1 .. n - 1 : r[i] # q[k]
    BY <2>1, <2>2, <2>3, <1>2
  <2>5. ASSUME NEW i \in 1 .. n - 1, NEW j \in 1 .. n - 1, r[i] = r[j]
        PROVE  i = j
    BY <2>1, <2>2, <2>3, <2>5, <1>2
  <2> QED
    BY <2>4, <2>5, <1>2 DEF NoTwice, Items
<1> QED
  BY <1>2, <1>3, <1>4 DEF r

\* array_pop_front takes the first element out.
LEMMA PopFrontItems ==
  ASSUME NEW S, NEW q \in Seq(S), q # <<>>
  PROVE  /\ PopFront(q) \in Seq(S) /\ FirstOf(q) \in S /\ FirstOf(q) = Head(q)
         /\ Items(q) = Items(PopFront(q)) \cup {FirstOf(q)}
         /\ NoTwice(q) => NoTwice(PopFront(q)) /\ FirstOf(q) \notin Items(PopFront(q))
<1>1. 1 \in 1 .. Len(q) /\ Head(q) = q[1] /\ q[1] \in S
  OBVIOUS
<1> QED
  BY <1>1, DeleteAtItems DEF PopFront, FirstOf

\* array_delete_obj takes one element out if it is there.
LEMMA DeleteObjItems ==
  ASSUME NEW S, NEW q \in Seq(S), NEW x, NoTwice(q)
  PROVE  /\ DeleteObj(q, x) \in Seq(S) /\ NoTwice(DeleteObj(q, x))
         /\ Items(DeleteObj(q, x)) = Items(q) \ {x}
<1>1. CASE x \in Items(q)
  <2> DEFINE k == Position(q, x)
  <2>1. k \in 1 .. Len(q) /\ q[k] = x
    BY <1>1, PositionOf
  <2>2. DeleteObj(q, x) = DeleteAt(q, k)
    BY <1>1, ElementsAreItems DEF DeleteObj
  <2> HIDE DEF k
  <2> QED
    BY <2>1, <2>2, DeleteAtItems
<1>2. CASE x \notin Items(q)
  BY <1>2, ElementsAreItems DEF DeleteObj
<1> QED
  BY <1>1, <1>2

-------------------------------------------------------------------------------
(* The scheduler.                                                              *)

InRing(f) == f \in Items(ready[Home[f]])

\* A fiber is in a ready ring once at most.
SchedInv ==
  /\ running \in [Threads -> Fibers \cup {None}]
  /\ ready \in [Threads -> Seq(Fibers)]
  /\ \A t \in Threads : NoTwice(ready[t])

LEMMA SuspendedMeans ==
  ASSUME SchedInv, NEW f \in Fibers
  PROVE  /\ Runs(f) <=> running[Home[f]] = f
         /\ Suspended(f) <=> ~Runs(f) /\ ~InRing(f)
<1>1. Home[f] \in Threads /\ ready[Home[f]] \in Seq(Fibers)
  BY ThreadsAssumption DEF SchedInv
<1>2. Elements(ready[Home[f]]) = Items(ready[Home[f]])
  BY <1>1, ElementsAreItems
<1> QED
  BY <1>2 DEF Suspended, Runs, InRing

LEMMA SchedStart ==
  ASSUME ThreadsInit
  PROVE  SchedInv /\ \A f \in Fibers : ~Runs(f) /\ ~InRing(f)
<1>1. SchedInv
  BY EmptyQueue DEF ThreadsInit, SchedInv
<1>2. \A f \in Fibers : Home[f] \in Threads /\ f # None
  BY ThreadsAssumption DEF Clients
<1> QED
  BY <1>1, <1>2, EmptyQueue DEF ThreadsInit, Runs, InRing

\* acl_fiber_ready changes one fiber.
LEMMA ReadyStep ==
  ASSUME SchedInv, NEW f \in Fibers, MakeReady(f), UNCHANGED running
  PROVE  /\ SchedInv'
         /\ \A g \in Fibers :
              /\ Runs(g)' <=> Runs(g)
              /\ InRing(g)' <=> InRing(g) \/ g = f
<1> DEFINE t == Home[f]
           q == Detach(ready[t], f)
<1>1. t \in Threads /\ \A g \in Fibers : Home[g] \in Threads
  BY ThreadsAssumption
<1>2. ready' = [ready EXCEPT ![t] = Append(q, f)]
  BY DEF MakeReady
<1>3. /\ q \in Seq(Fibers) /\ NoTwice(q)
      /\ Items(q) = Items(ready[t]) \ {f}
  BY <1>1, DetachItems DEF SchedInv
<1> HIDE DEF q, t
<1>4. /\ Append(q, f) \in Seq(Fibers) /\ NoTwice(Append(q, f))
      /\ Items(Append(q, f)) = Items(ready[t]) \cup {f}
  BY <1>3, AppendItems
<1>5. \A u \in Threads : ready'[u] = IF u = t THEN Append(q, f) ELSE ready[u]
  BY <1>1, <1>2 DEF SchedInv
<1>6. SchedInv'
  BY <1>1, <1>2, <1>4, <1>5 DEF SchedInv
<1>7. ASSUME NEW g \in Fibers PROVE InRing(g)' <=> InRing(g) \/ g = f
  BY <1>1, <1>4, <1>5 DEF InRing, t
<1> QED
  BY <1>6, <1>7 DEF Runs

\* A thread takes the first fiber out of its ring.
LEMMA ResumeStep ==
  ASSUME SchedInv, NEW t \in Threads, ResumeOn(t)
  PROVE  /\ SchedInv'
         /\ \A g \in Fibers :
              /\ Runs(g)' => Runs(g) \/ InRing(g)
              /\ InRing(g)' => InRing(g)
              /\ Runs(g) => Runs(g)'
              /\ InRing(g) => Runs(g)' \/ InRing(g)'
              /\ ~(Runs(g) /\ InRing(g)) => ~(Runs(g)' /\ InRing(g)')
<1> DEFINE h == Head(ready[t])
           q == Tail(ready[t])
<1>1. /\ h \in Fibers /\ q \in Seq(Fibers)
      /\ Items(ready[t]) = Items(q) \cup {h}
      /\ NoTwice(q) /\ h \notin Items(q)
  BY TailItems DEF SchedInv, ResumeOn
<1>2. /\ running[t] = None
      /\ \A u \in Threads : /\ running'[u] = IF u = t THEN h ELSE running[u]
                            /\ ready'[u] = IF u = t THEN q ELSE ready[u]
      /\ running' = [running EXCEPT ![t] = h] /\ ready' = [ready EXCEPT ![t] = q]
  BY DEF SchedInv, ResumeOn
<1> HIDE DEF h, q
<1>3. SchedInv'
  BY <1>1, <1>2 DEF SchedInv
<1>4. ASSUME NEW g \in Fibers
      PROVE  /\ Runs(g)' => Runs(g) \/ InRing(g)
             /\ InRing(g)' => InRing(g)
             /\ Runs(g) => Runs(g)'
             /\ InRing(g) => Runs(g)' \/ InRing(g)'
             /\ ~(Runs(g) /\ InRing(g)) => ~(Runs(g)' /\ InRing(g)')
  <2>1. Home[g] \in Threads /\ g # None
    BY ThreadsAssumption DEF Clients
  <2>2. CASE Home[g] = t
    BY <1>1, <1>2, <2>1, <2>2 DEF Runs, InRing
  <2>3. CASE Home[g] # t
    BY <1>2, <2>1, <2>3 DEF Runs, InRing
  <2> QED
    BY <2>2, <2>3
<1> QED
  BY <1>3, <1>4

\* The running fiber switches away.
LEMMA SwitchStep ==
  ASSUME SchedInv, NEW f \in Fibers, Runs(f), SwitchAway(f), UNCHANGED ready
  PROVE  /\ SchedInv'
         /\ ~Runs(f)'
         /\ \A g \in Fibers : g # f => (Runs(g)' <=> Runs(g))
         /\ \A g \in Fibers : InRing(g)' <=> InRing(g)
<1>1. \A g \in Fibers : Home[g] \in Threads /\ g # None
  BY ThreadsAssumption DEF Clients
<1>2. \A u \in Threads : running'[u] = IF u = Home[f] THEN None ELSE running[u]
  BY <1>1 DEF SchedInv, SwitchAway
<1>3. running' \in [Threads -> Fibers \cup {None}]
  BY <1>1 DEF SchedInv, SwitchAway
<1>4. SchedInv'
  BY <1>3 DEF SchedInv
<1>5. ASSUME NEW g \in Fibers, g # f PROVE Runs(g)' <=> Runs(g)
  BY <1>1, <1>2, <1>5 DEF Runs
<1> QED
  BY <1>1, <1>2, <1>4, <1>5 DEF Runs, InRing

\* Nothing changes for the scheduler.
LEMMA SchedSame ==
  ASSUME UNCHANGED <<running, ready>>
  PROVE  /\ SchedInv => SchedInv'
         /\ \A g \in Fibers : (Runs(g)' <=> Runs(g)) /\ (InRing(g)' <=> InRing(g))
BY DEF SchedInv, Runs, InRing

-------------------------------------------------------------------------------
(* The fiber_event.                                                            *)

Inside == {"own", "in", "pop", "free"}
Calling == {"own", "enter", "pop", "free", "wake"}
Called(c) == \E d \in Clients : popped[d] = c

\* What event->tid is compared with.
TidOf(c) == IF c \in Fibers THEN Home[c] ELSE c

\* The fibers of a thread are in a call one after the other.
TurnInv ==
  \A c, d \in Clients :
    TidOf(c) = TidOf(d) /\ pc[c] \in Calling /\ pc[d] \in Calling => c = d

\* Between the check of notify and the release of the event nobody changes what was
\* checked, and a free event belongs to nobody.
OwnerInv ==
  /\ ~atomic => owner = None /\ tid = None
  /\ owner # None => owner \in base /\ tid = TidOf(owner)
  /\ \A c \in Clients : pc[c] = "own" => atomic /\ owner = None /\ tid = None
  /\ \A c, d \in Clients : pc[c] = "own" /\ pc[d] = "own" => c = d
  /\ \A c \in Clients :
       pc[c] \in {"pop", "free"} => atomic /\ owner = TheEvent!BaseOf(c) /\ tid = TidOf(c)
  /\ \A c \in Clients : ll = c <=> pc[c] = "free"

\* When nobody notifies what he cannot be told from the owner of, one client is
\* inside, it has set `atomic', and it is the one that the event is noted for.
InsideInv ==
  object = "event" =>
    /\ \A c \in Clients : pc[c] \in Inside => atomic
    /\ \A c, d \in Clients : pc[c] \in Inside /\ pc[d] \in Inside => c = d
    /\ owner # None => pc[owner] \in Inside
    /\ \A c \in Solos : tid = c => pc[c] \in Inside

\* A client in the ring sleeps without a signal, and so does one that notify has
\* taken out of it, once.
CalledInv ==
  /\ NoTwice(waiters)
  /\ \A c \in Items(waiters) : pc[c] = "asleep" /\ signals[c] = 0 /\ ~Called(c)
  /\ \A c \in Clients : Called(c) => pc[c] = "asleep" /\ signals[c] = 0
  /\ \A c \in Clients : signals[c] = 1 => pc[c] = "asleep"
  /\ \A c, d \in Clients : popped[c] = popped[d] /\ popped[c] # None => c = d
  /\ \A c \in Clients : popped[c] # None => pc[c] \in {"free", "wake"}
  /\ \A c \in Clients : pc[c] = "wake" => popped[c] # None
  /\ \A c \in Clients : pc[c] = "free" /\ popped[c] = None => waiters = <<>>

\* Somebody who is not in the ring is going to look.
ComingInv ==
  ~atomic /\ waiters # <<>> =>
    \E c \in Clients :
      pc[c] \in {"enter", "wake"} \/ (pc[c] = "asleep" /\ signals[c] = 1)

EventInv ==
  TheEvent!TypeOK /\ TurnInv /\ OwnerInv /\ InsideInv /\ CalledInv /\ ComingInv

LEMMA EventClients == TheEvent!Clients = Clients
BY DEF TheEvent!Clients, Clients

\* The numbers of threads tell a thread without fibers from the others.
LEMMA TidTypes ==
  /\ \A c \in Clients : TidOf(c) \in Threads \cup Solos /\ TidOf(c) # None
  /\ \A c \in Solos : TidOf(c) = c /\ c \notin Fibers
  /\ \A c \in Fibers : TidOf(c) \in Threads /\ TidOf(c) \notin Solos
BY ThreadsAssumption DEF TidOf, Clients

LEMMA AloneMeans ==
  ASSUME NEW c \in Clients, TheEvent!Alone(c)
  PROVE  \A d \in Clients : TidOf(d) = TidOf(c) /\ pc[d] \in Calling => d = c
BY EventClients DEF TheEvent!Alone, TidOf, Calling

LEMMA EventSteps ==
  ASSUME TheEvent!Next
  PROVE  \E c \in Clients :
           \/ TheEvent!Cas(c) \/ TheEvent!NoteOwner(c) \/ TheEvent!Wait(c)
           \/ TheEvent!Try(c) \/ TheEvent!Wakes(c) \/ TheEvent!GetBase(c)
           \/ TheEvent!Notify(c) \/ TheEvent!NotifyFails(c)
           \/ TheEvent!Pop(c) \/ TheEvent!Free(c) \/ TheEvent!Wake(c)
BY EventClients DEF TheEvent!Next, TheEvent!GoesOn

LEMMA EventStart == ASSUME TheEvent!Init PROVE EventInv
<1> USE EventClients DEF TheEvent!Init
<1>1. None \notin Clients /\ Solos \subseteq Clients
  BY ThreadsAssumption DEF Clients
<1>2. TheEvent!TypeOK
  <2>1. waiters \in Seq(TheEvent!Clients)
    OBVIOUS
  <2> QED
    BY <2>1 DEF TheEvent!TypeOK, TheEvent!PCs
<1>3. TurnInv /\ OwnerInv /\ InsideInv
  BY <1>1 DEF TurnInv, OwnerInv, InsideInv, Inside, Calling
<1>4. CalledInv
  BY <1>1, EmptyQueue DEF CalledInv, Called
<1> QED
  BY <1>2, <1>3, <1>4 DEF EventInv, ComingInv

\* Every step keeps to the types.
LEMMA EventTypes ==
  ASSUME TheEvent!TypeOK, CalledInv, TheEvent!Next
  PROVE  TheEvent!TypeOK'
<1> USE EventClients
<1>1. PICK c \in Clients :
        \/ TheEvent!Cas(c) \/ TheEvent!NoteOwner(c) \/ TheEvent!Wait(c)
        \/ TheEvent!Try(c) \/ TheEvent!Wakes(c) \/ TheEvent!GetBase(c)
        \/ TheEvent!Notify(c) \/ TheEvent!NotifyFails(c)
        \/ TheEvent!Pop(c) \/ TheEvent!Free(c) \/ TheEvent!Wake(c)
  BY EventSteps
<1>2. waiters \in Seq(Clients) /\ c \in Clients
  BY DEF TheEvent!TypeOK
<1>3. Append(waiters, c) \in Seq(Clients)
  BY <1>2, AppendItems
<1>4. waiters # <<>> => Head(waiters) \in Clients /\ Tail(waiters) \in Seq(Clients)
  BY <1>2, TailItems
<1>5. CASE TheEvent!Cas(c)
  BY <1>5 DEF TheEvent!TypeOK, TheEvent!PCs, TheEvent!Cas, TheEvent!GoTo
<1>6. CASE TheEvent!Wait(c)
  BY <1>6 DEF TheEvent!TypeOK, TheEvent!PCs, TheEvent!Wait, TheEvent!GoTo, TheEvent!eventVars
<1>7. CASE TheEvent!Try(c)
  BY <1>3, <1>7 DEF TheEvent!TypeOK, TheEvent!PCs, TheEvent!Try, TheEvent!GoTo, TheEvent!BaseOf
<1>8. CASE TheEvent!Wakes(c)
  BY <1>8 DEF TheEvent!TypeOK, TheEvent!PCs, TheEvent!Wakes, TheEvent!GoTo, TheEvent!eventVars
<1>9. CASE TheEvent!NoteOwner(c)
  BY <1>9 DEF TheEvent!TypeOK, TheEvent!PCs, TheEvent!NoteOwner, TheEvent!GoTo, TheEvent!BaseOf
<1>10. CASE TheEvent!Notify(c) \/ TheEvent!NotifyFails(c)
  BY <1>10
     DEF TheEvent!TypeOK, TheEvent!PCs, TheEvent!Notify, TheEvent!NotifyFails,
         TheEvent!GoTo, TheEvent!eventVars
<1>11. CASE TheEvent!Pop(c)
  BY <1>2, <1>4, <1>11 DEF TheEvent!TypeOK, TheEvent!PCs, TheEvent!Pop, TheEvent!GoTo
<1>12. CASE TheEvent!Free(c)
  BY <1>12 DEF TheEvent!TypeOK, TheEvent!PCs, TheEvent!Free, TheEvent!GoTo
<1>13. CASE TheEvent!Wake(c)
  <2>1. popped[c] \in Clients /\ signals[popped[c]] = 0
    BY <1>13 DEF CalledInv, Called, TheEvent!TypeOK, TheEvent!Wake, TheEvent!At
  <2> QED
    BY <2>1, <1>13 DEF TheEvent!TypeOK, TheEvent!PCs, TheEvent!Wake, TheEvent!GoTo, TheEvent!eventVars
<1>14. CASE TheEvent!GetBase(c)
  BY <1>14 DEF TheEvent!TypeOK, TheEvent!PCs, TheEvent!GetBase, TheEvent!eventVars
<1> QED
  BY <1>1, <1>5, <1>6, <1>7, <1>8, <1>9, <1>10, <1>11, <1>12, <1>13, <1>14

\* A call begins only when the thread is in no other.
LEMMA EventTurns ==
  ASSUME TheEvent!TypeOK, TurnInv, TheEvent!Next
  PROVE  TurnInv'
<1> USE EventClients DEF TheEvent!At, TheEvent!GoTo, Calling
<1>1. PICK c \in Clients :
        \/ TheEvent!Cas(c) \/ TheEvent!NoteOwner(c) \/ TheEvent!Wait(c)
        \/ TheEvent!Try(c) \/ TheEvent!Wakes(c) \/ TheEvent!GetBase(c)
        \/ TheEvent!Notify(c) \/ TheEvent!NotifyFails(c)
        \/ TheEvent!Pop(c) \/ TheEvent!Free(c) \/ TheEvent!Wake(c)
  BY EventSteps
<1>2. pc \in [Clients -> TheEvent!PCs]
  BY DEF TheEvent!TypeOK
<1>3. CASE TheEvent!Cas(c) \/ TheEvent!Wait(c) \/ TheEvent!Wakes(c) \/ TheEvent!Notify(c)
  <2>1. TheEvent!Alone(c) /\ \E x \in Calling : pc' = [pc EXCEPT ![c] = x]
    BY <1>3 DEF TheEvent!Cas, TheEvent!Wait, TheEvent!Wakes, TheEvent!Notify
  <2>2. \A d \in Clients : TidOf(d) = TidOf(c) /\ pc[d] \in Calling => d = c
    BY <2>1, AloneMeans
  <2>3. \A d \in Clients : d # c => pc'[d] = pc[d]
    BY <1>2, <2>1
  <2> QED
    BY <2>2, <2>3 DEF TurnInv, TidOf
<1>4. CASE ~(TheEvent!Cas(c) \/ TheEvent!Wait(c) \/ TheEvent!Wakes(c) \/ TheEvent!Notify(c))
  <2>1. \A d \in Clients : pc'[d] \in Calling => pc[d] \in Calling
    <3>1. CASE TheEvent!NoteOwner(c) \/ TheEvent!NotifyFails(c) \/ TheEvent!GetBase(c)
      BY <1>2, <3>1 DEF TheEvent!NoteOwner, TheEvent!NotifyFails, TheEvent!GetBase
    <3>2. CASE TheEvent!Try(c)
      BY <1>2, <3>2 DEF TheEvent!Try
    <3>3. CASE TheEvent!Pop(c) \/ TheEvent!Free(c) \/ TheEvent!Wake(c)
      BY <1>2, <3>3 DEF TheEvent!Pop, TheEvent!Free, TheEvent!Wake
    <3> QED
      BY <1>1, <1>4, <3>1, <3>2, <3>3
  <2> QED
    BY <2>1 DEF TurnInv, TidOf
<1> QED
  BY <1>3, <1>4

\* Who has passed the check of notify is alone with the event until it is free.
LEMMA OneFreesIt ==
  ASSUME TurnInv, OwnerInv, NEW c \in Clients, pc[c] \in {"pop", "free"}
  PROVE  \A d \in Clients : pc[d] \in {"own", "pop", "free"} => d = c
BY TidTypes DEF TurnInv, OwnerInv, Calling

\* The owner: by each step in turn.
LEMMA EventOwners ==
  ASSUME TheEvent!TypeOK, TurnInv, OwnerInv, TheEvent!Next
  PROVE  OwnerInv'
<1> USE EventClients DEF TheEvent!At, TheEvent!GoTo
<1>1. PICK c \in Clients :
        \/ TheEvent!Cas(c) \/ TheEvent!NoteOwner(c) \/ TheEvent!Wait(c)
        \/ TheEvent!Try(c) \/ TheEvent!Wakes(c) \/ TheEvent!GetBase(c)
        \/ TheEvent!Notify(c) \/ TheEvent!NotifyFails(c)
        \/ TheEvent!Pop(c) \/ TheEvent!Free(c) \/ TheEvent!Wake(c)
  BY EventSteps
<1>2. /\ None \notin Clients /\ Fibers \subseteq Clients /\ pc \in [Clients -> TheEvent!PCs]
      /\ base \subseteq Fibers /\ owner \in Fibers \cup {None}
  BY ThreadsAssumption DEF TheEvent!TypeOK, Clients
<1>3. CASE TheEvent!Cas(c)
  BY <1>2, <1>3 DEF TheEvent!Cas, OwnerInv, TheEvent!BaseOf, TidOf
<1>4. CASE TheEvent!Wait(c)
  BY <1>2, <1>4 DEF TheEvent!Wait, TheEvent!eventVars, OwnerInv, TheEvent!BaseOf, TidOf
<1>5. CASE TheEvent!Try(c)
  <2>1. CASE atomic
    BY <1>2, <1>5, <2>1 DEF TheEvent!Try, OwnerInv, TheEvent!BaseOf, TidOf
  <2>2. CASE ~atomic
    <3>1. /\ \A d \in Clients : pc[d] \notin {"own", "pop", "free"}
          /\ atomic' /\ owner' = TheEvent!BaseOf(c) /\ tid' = TidOf(c) /\ ll' = ll /\ base' = base
          /\ pc' = [pc EXCEPT ![c] = "in"]
      BY <1>2, <1>5, <2>2 DEF TheEvent!Try, OwnerInv, TidOf
    <3> QED
      BY <1>2, <3>1 DEF OwnerInv, TheEvent!BaseOf, TidOf
  <2> QED
    BY <2>1, <2>2
<1>6. CASE TheEvent!Wakes(c)
  BY <1>2, <1>6 DEF TheEvent!Wakes, TheEvent!eventVars, OwnerInv, TheEvent!BaseOf, TidOf
<1>7. CASE TheEvent!NoteOwner(c)
  <2>1. /\ pc[c] = "own" /\ atomic /\ atomic' /\ ll' = ll /\ base' = base
        /\ owner' = TheEvent!BaseOf(c) /\ tid' = TidOf(c)
        /\ pc' = [pc EXCEPT ![c] = "in"]
    BY <1>2, <1>7 DEF TheEvent!NoteOwner, OwnerInv, TidOf
  <2>2. \A d \in Clients : d # c => pc[d] \notin {"own", "pop", "free"}
    BY <2>1, OneFreesIt DEF OwnerInv
  <2> QED
    BY <1>2, <2>1, <2>2 DEF OwnerInv, TheEvent!BaseOf, TidOf
<1>8. CASE TheEvent!Notify(c)
  <2>1. /\ owner = TheEvent!BaseOf(c) /\ (owner = None => tid = TidOf(c))
        /\ UNCHANGED <<atomic, ll, owner, tid, base>>
        /\ pc[c] \in {"in", "out"} /\ pc' = [pc EXCEPT ![c] = "pop"]
    BY <1>2, <1>8
       DEF TheEvent!Notify, TheEvent!Stranger, TheEvent!MayNotify, TheEvent!eventVars, TidOf
  <2>2. tid = TidOf(c) /\ atomic
    BY <1>2, <2>1, TidTypes DEF OwnerInv, TheEvent!BaseOf
  <2> QED
    BY <1>2, <2>1, <2>2 DEF OwnerInv, TheEvent!BaseOf, TidOf
<1>9. CASE TheEvent!NotifyFails(c)
  BY <1>2, <1>9 DEF TheEvent!NotifyFails, TheEvent!eventVars, OwnerInv, TheEvent!BaseOf, TidOf
<1>10. CASE TheEvent!Pop(c)
  BY <1>2, <1>10 DEF TheEvent!Pop, OwnerInv, TheEvent!BaseOf, TidOf
<1>11. CASE TheEvent!Free(c)
  <2>1. /\ pc[c] = "free" /\ ~atomic' /\ owner' = None /\ tid' = None /\ ll' = None
        /\ base' = base /\ \E x \in {"out", "wake"} : pc' = [pc EXCEPT ![c] = x]
    BY <1>11 DEF TheEvent!Free
  <2>2. \A d \in Clients : pc'[d] \notin {"own", "pop", "free"}
    BY <1>2, <2>1, OneFreesIt
  <2> QED
    BY <1>2, <2>1, <2>2 DEF OwnerInv, TheEvent!BaseOf, TidOf
<1>12. CASE TheEvent!Wake(c)
  BY <1>2, <1>12 DEF TheEvent!Wake, TheEvent!eventVars, OwnerInv, TheEvent!BaseOf, TidOf
<1>13. CASE TheEvent!GetBase(c)
  BY <1>2, <1>13 DEF TheEvent!GetBase, TheEvent!eventVars, OwnerInv, TheEvent!BaseOf, TidOf
<1> QED
  BY <1>1, <1>3, <1>4, <1>5, <1>6, <1>7, <1>8, <1>9, <1>10, <1>11, <1>12, <1>13

\* One client is inside: by each step in turn.
LEMMA EventExclusion ==
  ASSUME TheEvent!TypeOK, OwnerInv, InsideInv, TheEvent!Next, UNCHANGED object
  PROVE  InsideInv'
<1> SUFFICES ASSUME object = "event" PROVE InsideInv'
  BY DEF InsideInv
<1> USE EventClients DEF InsideInv, Inside, TheEvent!At, TheEvent!GoTo
<1>1. PICK c \in Clients :
        \/ TheEvent!Cas(c) \/ TheEvent!NoteOwner(c) \/ TheEvent!Wait(c)
        \/ TheEvent!Try(c) \/ TheEvent!Wakes(c) \/ TheEvent!GetBase(c)
        \/ TheEvent!Notify(c) \/ TheEvent!NotifyFails(c)
        \/ TheEvent!Pop(c) \/ TheEvent!Free(c) \/ TheEvent!Wake(c)
  BY EventSteps
<1>2. /\ None \notin Clients /\ Clients = Fibers \cup Solos
      /\ pc \in [Clients -> TheEvent!PCs] /\ owner \in Fibers \cup {None} /\ base \subseteq Fibers
  BY ThreadsAssumption DEF TheEvent!TypeOK, Clients
<1>3. CASE TheEvent!Cas(c)
  BY <1>2, <1>3 DEF TheEvent!Cas
<1>4. CASE TheEvent!Wait(c)
  BY <1>2, <1>4 DEF TheEvent!Wait, TheEvent!eventVars
<1>5. CASE TheEvent!Try(c)
  <2>1. CASE atomic
    BY <1>2, <1>5, <2>1 DEF TheEvent!Try
  <2>2. CASE ~atomic
    <3>1. /\ atomic' /\ owner' = TheEvent!BaseOf(c) /\ tid' = TidOf(c)
          /\ pc' = [pc EXCEPT ![c] = "in"]
      BY <1>2, <1>5, <2>2 DEF TheEvent!Try, TidOf
    <3> QED
      BY <1>2, <2>2, <3>1, TidTypes DEF TheEvent!BaseOf
  <2> QED
    BY <2>1, <2>2
<1>6. CASE TheEvent!Wakes(c)
  BY <1>2, <1>6 DEF TheEvent!Wakes, TheEvent!eventVars
<1>7. CASE TheEvent!NoteOwner(c)
  <2>1. /\ pc[c] = "own" /\ atomic' = atomic /\ owner' = TheEvent!BaseOf(c) /\ tid' = TidOf(c)
        /\ pc' = [pc EXCEPT ![c] = "in"]
    BY <1>2, <1>7 DEF TheEvent!NoteOwner, TidOf
  <2> QED
    BY <1>2, <2>1, TidTypes DEF TheEvent!BaseOf
<1>8. CASE TheEvent!Notify(c)
  <2>1. /\ owner = TheEvent!BaseOf(c) /\ (owner = None => tid = TidOf(c))
        /\ UNCHANGED <<atomic, owner, tid>>
        /\ pc[c] = "in" \/ (pc[c] = "out" /\ (c \in base \/ c \in Solos))
        /\ pc' = [pc EXCEPT ![c] = "pop"]
    BY <1>2, <1>8
       DEF TheEvent!Notify, TheEvent!Stranger, TheEvent!MayNotify, TheEvent!eventVars, TidOf
  <2>2. pc[c] = "in"
    BY <1>2, <2>1, TidTypes DEF TheEvent!BaseOf
  <2> QED
    BY <1>2, <2>1, <2>2
<1>9. CASE TheEvent!NotifyFails(c)
  <2>1. /\ ~(owner = TheEvent!BaseOf(c) /\ (owner = None => tid = TidOf(c)))
        /\ UNCHANGED <<atomic, owner, tid>>
        /\ pc[c] = "in" /\ pc' = [pc EXCEPT ![c] = "out"]
    BY <1>2, <1>9 DEF TheEvent!NotifyFails, TheEvent!MayNotify, TheEvent!eventVars, TidOf
  <2>2. owner # c /\ (c \in Solos => tid # c)
    BY <1>2, <2>1, TidTypes DEF OwnerInv, TheEvent!BaseOf
  <2> QED
    BY <1>2, <2>1, <2>2
<1>10. CASE TheEvent!Pop(c)
  BY <1>2, <1>10 DEF TheEvent!Pop
<1>11. CASE TheEvent!Free(c)
  BY <1>2, <1>11 DEF TheEvent!Free
<1>12. CASE TheEvent!Wake(c)
  BY <1>2, <1>12 DEF TheEvent!Wake, TheEvent!eventVars
<1>13. CASE TheEvent!GetBase(c)
  BY <1>2, <1>13 DEF TheEvent!GetBase, TheEvent!eventVars
<1> QED
  BY <1>1, <1>3, <1>4, <1>5, <1>6, <1>7, <1>8, <1>9, <1>10, <1>11, <1>12, <1>13

\* Clients are called once, and only while they sleep.
LEMMA EventCalls ==
  ASSUME TheEvent!TypeOK, OwnerInv, CalledInv, TheEvent!Next
  PROVE  CalledInv'
<1> USE EventClients DEF TheEvent!At, TheEvent!GoTo
<1>1. PICK c \in Clients :
        \/ TheEvent!Cas(c) \/ TheEvent!NoteOwner(c) \/ TheEvent!Wait(c)
        \/ TheEvent!Try(c) \/ TheEvent!Wakes(c) \/ TheEvent!GetBase(c)
        \/ TheEvent!Notify(c) \/ TheEvent!NotifyFails(c)
        \/ TheEvent!Pop(c) \/ TheEvent!Free(c) \/ TheEvent!Wake(c)
  BY EventSteps
<1>2. /\ None \notin Clients /\ c # None /\ pc \in [Clients -> TheEvent!PCs]
      /\ waiters \in Seq(Clients) /\ Items(waiters) \subseteq Clients
      /\ signals \in [Clients -> {0, 1}] /\ popped \in [Clients -> Clients \cup {None}]
  BY ThreadsAssumption, ItemsType DEF TheEvent!TypeOK
<1>3. CASE TheEvent!Cas(c)
  BY <1>2, <1>3 DEF TheEvent!Cas, CalledInv, Called
<1>4. CASE TheEvent!Wait(c)
  BY <1>2, <1>4 DEF TheEvent!Wait, TheEvent!eventVars, CalledInv, Called
<1>5. CASE TheEvent!Try(c)
  <2>1. CASE atomic
    <3>1. waiters' = Append(waiters, c) /\ UNCHANGED <<signals, popped>>
          /\ pc' = [pc EXCEPT ![c] = "asleep"] /\ pc[c] = "enter"
      BY <1>5, <2>1 DEF TheEvent!Try
    <3>2. c \notin Items(waiters) /\ ~Called(c) /\ signals[c] = 0
      BY <1>2, <3>1 DEF CalledInv
    <3>3. Items(waiters') = Items(waiters) \cup {c} /\ NoTwice(waiters')
      BY <1>2, <3>1, <3>2, AppendItems DEF CalledInv
    <3>4. \A d \in Clients : ~(pc[d] = "free")
      BY <1>5, <1>2 DEF TheEvent!Try, OwnerInv
    <3> QED
      BY <1>2, <3>1, <3>2, <3>3, <3>4 DEF CalledInv, Called
  <2>2. CASE ~atomic
    <3>1. pc' = [pc EXCEPT ![c] = "in"] /\ UNCHANGED <<waiters, signals, popped>>
          /\ pc[c] = "enter"
      BY <1>5, <2>2 DEF TheEvent!Try
    <3> QED
      BY <1>2, <3>1 DEF CalledInv, Called
  <2> QED
    BY <2>1, <2>2
<1>6. CASE TheEvent!Wakes(c)
  BY <1>2, <1>6 DEF TheEvent!Wakes, TheEvent!eventVars, CalledInv, Called
<1>7. CASE TheEvent!NoteOwner(c)
  BY <1>2, <1>7 DEF TheEvent!NoteOwner, CalledInv, Called
<1>8. CASE TheEvent!Notify(c) \/ TheEvent!NotifyFails(c)
  <2>1. /\ pc[c] \in {"in", "out"} /\ UNCHANGED <<waiters, signals, popped>>
        /\ \E x \in {"pop", "out"} : pc' = [pc EXCEPT ![c] = x]
    BY <1>8
       DEF TheEvent!Notify, TheEvent!NotifyFails, TheEvent!Stranger, TheEvent!eventVars
  <2>2. \A d \in Clients : pc'[d] = pc[d] \/ (d = c /\ pc'[d] \in {"pop", "out"})
    BY <1>2, <2>1
  <2> QED
    BY <1>2, <2>1, <2>2 DEF CalledInv, Called
<1>9. CASE TheEvent!Pop(c)
  <2>1. /\ pc[c] = "pop" /\ pc' = [pc EXCEPT ![c] = "free"] /\ UNCHANGED signals
        /\ popped[c] = None
    BY <1>2, <1>9 DEF TheEvent!Pop, CalledInv
  <2>2. CASE waiters = <<>>
    <3>1. waiters' = waiters /\ popped' = [popped EXCEPT ![c] = None]
      BY <1>9, <2>2 DEF TheEvent!Pop
    <3>2. popped' = popped
      BY <1>2, <2>1, <3>1
    <3>3. \A d \in Clients :
            /\ Called(d)' <=> Called(d)
            /\ popped'[d] = popped[d] /\ signals'[d] = signals[d]
            /\ pc'[d] = IF d = c THEN "free" ELSE pc[d]
      BY <1>2, <2>1, <3>2 DEF Called
    <3> QED
      BY <1>2, <2>1, <2>2, <3>1, <3>3 DEF CalledInv
  <2>3. CASE waiters # <<>>
    <3> DEFINE h == Head(waiters)
    <3>1. waiters' = Tail(waiters) /\ popped' = [popped EXCEPT ![c] = h]
      BY <1>9, <2>3 DEF TheEvent!Pop
    <3>2. /\ h \in Clients /\ Items(waiters) = Items(waiters') \cup {h}
          /\ NoTwice(waiters') /\ h \notin Items(waiters')
      BY <1>2, <2>3, <3>1, TailItems DEF CalledInv
    <3> HIDE DEF h
    <3>3. pc[h] = "asleep" /\ signals[h] = 0 /\ ~Called(h)
      BY <3>2 DEF CalledInv
    <3>4. \A d \in Clients : popped'[d] = IF d = c THEN h ELSE popped[d]
      BY <1>2, <3>1
    <3>5. \A d \in Clients : Called(d)' <=> Called(d) \/ d = h
      BY <1>2, <2>1, <3>2, <3>4 DEF Called
    <3>6. \A d \in Clients :
            signals'[d] = signals[d] /\ pc'[d] = IF d = c THEN "free" ELSE pc[d]
      BY <1>2, <2>1
    <3>7. ASSUME NEW d \in Clients, NEW e \in Clients,
                 popped'[d] = popped'[e], popped'[d] # None
          PROVE  d = e
      BY <3>3, <3>4, <3>7 DEF CalledInv, Called
    <3>8. \A d \in Items(waiters') : pc'[d] = "asleep" /\ signals'[d] = 0 /\ ~Called(d)'
      BY <1>2, <2>1, <3>2, <3>5, <3>6 DEF CalledInv
    <3>9. \A d \in Clients : Called(d)' => pc'[d] = "asleep" /\ signals'[d] = 0
      BY <2>1, <3>3, <3>5, <3>6 DEF CalledInv
    <3> QED
      BY <1>2, <2>1, <2>3, <3>2, <3>4, <3>6, <3>7, <3>8, <3>9 DEF CalledInv
  <2> QED
    BY <2>2, <2>3
<1>10. CASE TheEvent!Free(c)
  BY <1>2, <1>10 DEF TheEvent!Free, OwnerInv, CalledInv, Called
<1>11. CASE TheEvent!Wake(c)
  <2> DEFINE h == popped[c]
  <2>1. /\ pc[c] = "wake" /\ pc' = [pc EXCEPT ![c] = "out"] /\ UNCHANGED waiters
        /\ h \in Clients /\ pc[h] = "asleep" /\ signals[h] = 0
        /\ h \notin Items(waiters)
    BY <1>2, <1>11 DEF TheEvent!Wake, TheEvent!eventVars, CalledInv, Called
  <2>2. /\ \A d \in Clients : signals'[d] = IF d = h THEN 1 ELSE signals[d]
        /\ \A d \in Clients : popped'[d] = IF d = c THEN None ELSE popped[d]
    BY <1>2, <1>11, <2>1 DEF TheEvent!Wake
  <2>3. \A d \in Clients : Called(d)' => Called(d) /\ d # h
    BY <1>2, <2>1, <2>2 DEF Called, CalledInv
  <2> HIDE DEF h
  <2> QED
    BY <1>2, <2>1, <2>2, <2>3 DEF CalledInv
<1>12. CASE TheEvent!GetBase(c)
  BY <1>12 DEF TheEvent!GetBase, TheEvent!eventVars, CalledInv, Called
<1> QED
  BY <1>1, <1>3, <1>4, <1>5, <1>6, <1>7, <1>8, <1>9, <1>10, <1>11, <1>12

\* The event does not stay free without anybody on the way.
LEMMA EventComes ==
  ASSUME TheEvent!TypeOK, OwnerInv, CalledInv, ComingInv, TheEvent!Next
  PROVE  ComingInv'
<1> USE EventClients DEF TheEvent!At, TheEvent!GoTo, ComingInv
<1>1. PICK c \in Clients :
        \/ TheEvent!Cas(c) \/ TheEvent!NoteOwner(c) \/ TheEvent!Wait(c)
        \/ TheEvent!Try(c) \/ TheEvent!Wakes(c) \/ TheEvent!GetBase(c)
        \/ TheEvent!Notify(c) \/ TheEvent!NotifyFails(c)
        \/ TheEvent!Pop(c) \/ TheEvent!Free(c) \/ TheEvent!Wake(c)
  BY EventSteps
<1>2. /\ None \notin Clients /\ pc \in [Clients -> TheEvent!PCs]
      /\ signals \in [Clients -> {0, 1}] /\ popped \in [Clients -> Clients \cup {None}]
  BY ThreadsAssumption DEF TheEvent!TypeOK
<1>3. CASE TheEvent!Cas(c)
  BY <1>3 DEF TheEvent!Cas
<1>4. CASE TheEvent!Wait(c)
  BY <1>2, <1>4 DEF TheEvent!Wait, TheEvent!eventVars
<1>5. CASE TheEvent!Try(c)
  BY <1>5 DEF TheEvent!Try
<1>6. CASE TheEvent!Wakes(c)
  BY <1>2, <1>6 DEF TheEvent!Wakes, TheEvent!eventVars
<1>7. CASE TheEvent!NoteOwner(c)
  BY <1>2, <1>7 DEF TheEvent!NoteOwner
<1>8. CASE TheEvent!Notify(c) \/ TheEvent!NotifyFails(c)
  BY <1>2, <1>8
     DEF TheEvent!Notify, TheEvent!NotifyFails, TheEvent!Stranger, TheEvent!eventVars
<1>9. CASE TheEvent!Pop(c)
  BY <1>2, <1>9 DEF TheEvent!Pop, OwnerInv
<1>10. CASE TheEvent!Free(c)
  BY <1>2, <1>10 DEF TheEvent!Free, OwnerInv, CalledInv
<1>11. CASE TheEvent!Wake(c)
  <2>1. popped[c] \in Clients /\ pc[popped[c]] = "asleep" /\ signals[popped[c]] = 0
    BY <1>2, <1>11 DEF TheEvent!Wake, CalledInv, Called
  <2>2. pc'[popped[c]] = "asleep" /\ signals'[popped[c]] = 1
    BY <1>2, <1>11, <2>1 DEF TheEvent!Wake
  <2> QED
    BY <2>1, <2>2
<1>12. CASE TheEvent!GetBase(c)
  BY <1>12 DEF TheEvent!GetBase, TheEvent!eventVars
<1> QED
  BY <1>1, <1>3, <1>4, <1>5, <1>6, <1>7, <1>8, <1>9, <1>10, <1>11, <1>12

LEMMA EventKeeps ==
  ASSUME EventInv, TheEvent!Next, UNCHANGED object
  PROVE  EventInv'
BY EventTypes, EventTurns, EventOwners, EventExclusion, EventCalls, EventComes DEF EventInv

\* What the invariant says of the event.
LEMMA EventSafe ==
  ASSUME EventInv
  PROVE  TheEvent!NoLostWakeup /\ TheEvent!SignalsAreExpected /\ TheEvent!NeverCorrupt
<1>1. waiters \in Seq(Clients)
  BY EventClients DEF EventInv, TheEvent!TypeOK
<1>2. TheEvent!Waiting = Items(waiters)
  BY <1>1 DEF TheEvent!Waiting, Items
<1>3. TheEvent!NoLostWakeup
  BY EventClients DEF EventInv, ComingInv, TheEvent!NoLostWakeup
<1>4. TheEvent!SignalsAreExpected
  BY <1>2, EventClients
     DEF EventInv, CalledInv, Called, TheEvent!SignalsAreExpected
<1>5. TheEvent!NeverCorrupt
  BY EventClients DEF EventInv, OwnerInv, TheEvent!NeverCorrupt
<1> QED
  BY <1>3, <1>4, <1>5

-------------------------------------------------------------------------------
(* The deadlock check.                                                         *)

\* A set of places has a first and a last one: fewest are before it, or after it.
LEMMA LeastSet ==
  ASSUME NEW n \in Nat, NEW F \in SUBSET SUBSET (1 .. n), F # {}
  PROVE  \E A \in F : \A B \in F : ~(B \subseteq A /\ B # A)
<1> DEFINE U == 1 .. n
<1>1. IsFiniteSet(U)
  BY FS_Interval
<1>2. F \subseteq FiniteSubsetsOf(U)
  BY <1>1, FS_Subset DEF FiniteSubsetsOf
<1>3. PICK A \in F : \A B \in F : ~(<<B, A>> \in StrictSubsetOrdering(U))
  BY <1>2, FS_StrictSubsetOrderingWellFounded, WFMin
<1> QED
  BY <1>3 DEF StrictSubsetOrdering

LEMMA FirstPlace ==
  ASSUME NEW n \in Nat, NEW T \in SUBSET (1 .. n), T # {}
  PROVE  \E i \in T : \A j \in T : i <= j
<1> DEFINE Before(i) == {k \in T : k < i}
           F == {Before(i) : i \in T}
<1>1. PICK A \in F : \A B \in F : ~(B \subseteq A /\ B # A)
  <2>1. F \in SUBSET SUBSET (1 .. n) /\ F # {}
    OBVIOUS
  <2> HIDE DEF F
  <2> QED
    BY SMTT(30), <2>1, LeastSet
<1>2. PICK i \in T : A = Before(i)
  OBVIOUS
<1>3. ASSUME NEW j \in T, j < i PROVE FALSE
  <2>1. \A k \in T : k \in Nat
    OBVIOUS
  <2>2. \A k \in T : k < j => k < i
    BY <1>3, <2>1
  <2>3. Before(j) \subseteq Before(i)
    BY <2>2
  <2>4. j \in Before(i) /\ j \notin Before(j)
    BY <1>3, <2>1
  <2>5. Before(j) \in {Before(k) : k \in T}
    OBVIOUS
  <2> HIDE DEF Before
  <2> QED
    BY <1>1, <1>2, <2>3, <2>4, <2>5
<1>4. \A j \in T : i <= j
  BY <1>3
<1> QED
  BY <1>4

LEMMA LastPlace ==
  ASSUME NEW n \in Nat, NEW T \in SUBSET (1 .. n), T # {}
  PROVE  \E i \in T : \A j \in T : j <= i
<1> DEFINE After(i) == {k \in T : i < k}
           F == {After(i) : i \in T}
<1>1. PICK A \in F : \A B \in F : ~(B \subseteq A /\ B # A)
  <2>1. F \in SUBSET SUBSET (1 .. n) /\ F # {}
    OBVIOUS
  <2> HIDE DEF F
  <2> QED
    BY SMTT(30), <2>1, LeastSet
<1>2. PICK i \in T : A = After(i)
  OBVIOUS
<1>3. ASSUME NEW j \in T, i < j PROVE FALSE
  <2>1. \A k \in T : k \in Nat
    OBVIOUS
  <2>2. \A k \in T : j < k => i < k
    BY <1>3, <2>1
  <2>3. After(j) \subseteq After(i)
    BY <2>2
  <2>4. j \in After(i) /\ j \notin After(j)
    BY <1>3, <2>1
  <2>5. After(j) \in {After(k) : k \in T}
    OBVIOUS
  <2> HIDE DEF After
  <2> QED
    BY <1>1, <1>2, <2>3, <2>4, <2>5
<1>4. \A j \in T : j <= i
  BY <1>3
<1> QED
  BY <1>4

\* A client that has just got a mutex is alone with it until it has noted that.
NotingInv ==
  \A c \in Clients :
    pc[c] # "out" =>
      /\ wanted[c] \in Check!M /\ threadLock[wanted[c]] = c
      /\ pc[c] = "tried" => wanted[c] \in tried
      /\ pc[c] = "fiber" => owner[wanted[c]] = c

\* When it has, the mutex says who has it; ->fiber does if it was taken with lock.
NotedInv ==
  /\ \A m \in Check!M : owner[m] # None => owner[m] = threadLock[m]
  /\ \A m \in Check!M, c \in Clients :
       threadLock[m] = c /\ ~(pc[c] # "out" /\ wanted[c] = m) =>
         owner[m] = c /\ (m \notin tried => fiber[m] = c)

\* Every client waits in the array of the mutex it wants.
CheckInv ==
  /\ Check!TypeOK /\ NotingInv /\ NotedInv
  /\ \A m \in Check!M : \A c \in waiters[m] : wanted[c] = m /\ pc[c] = "out"

LEMMA CheckStart == ASSUME Check!Init PROVE CheckInv
BY ThreadsAssumption DEF Check!Init, Check!TypeOK, CheckInv, NotingInv, NotedInv

LEMMA CheckKeeps ==
  ASSUME CheckInv, Check!Next
  PROVE  CheckInv'
<1> USE DEF CheckInv, Check!TypeOK, NotingInv, NotedInv, Check!GoTo
<1>0. None \notin Check!M /\ None \notin Clients
  BY SharedAssumption, ThreadsAssumption
<1>1. PICK c \in Clients :
        \/ Check!Retry(c) \/ Check!NoteOwner(c) \/ Check!NoteFiber(c)
        \/ \E m \in Check!M : Check!Lock(c, m) \/ Check!TryLock(c, m) \/ Check!Unlock(c, m)
  BY DEF Check!Next
<1>2. ASSUME NEW m \in Check!M, Check!Take(c, m), pc[c] = "out",
             \A k \in Check!M : c \notin waiters[k],
             \/ pc' = [pc EXCEPT ![c] = "owner"] /\ UNCHANGED tried
             \/ pc' = [pc EXCEPT ![c] = "tried"] /\ tried' = tried \cup {m}
      PROVE  CheckInv'
  <2>1. /\ threadLock[m] = None /\ threadLock' = [threadLock EXCEPT ![m] = c]
        /\ wanted' = [wanted EXCEPT ![c] = m] /\ UNCHANGED <<owner, fiber, waiters>>
    BY <1>2 DEF Check!Take
  <2>2. Check!TypeOK'
    BY <1>2, <2>1
  <2>3. NotingInv'
    BY <1>0, <1>2, <2>1
  <2>4. NotedInv'
    BY <1>0, <1>2, <2>1
  <2> QED
    BY <1>2, <2>1, <2>2, <2>3, <2>4
<1>3. ASSUME NEW m \in Check!M, Check!Enqueue(c, m), pc[c] = "out",
             \A k \in Check!M : k # m => c \notin waiters[k]
      PROVE  CheckInv'
  BY <1>3 DEF Check!Enqueue
<1>4. CASE Check!Retry(c)
  <2>1. PICK m \in Check!M :
          wanted[c] = m /\ c \notin waiters[m] /\ Check!Attempt(c, m)
    BY <1>4 DEF Check!Retry
  <2>2. (\A k \in Check!M : c \notin waiters[k]) /\ pc[c] = "out"
    BY <1>4, <2>1 DEF Check!Retry
  <2> QED
    BY <2>1, <2>2, <1>2, <1>3 DEF Check!Attempt
<1>5. ASSUME NEW m \in Check!M, Check!Lock(c, m) \/ Check!TryLock(c, m) PROVE CheckInv'
  <2>1. wanted[c] = None
    BY <1>5 DEF Check!Lock, Check!TryLock
  <2>2. (\A k \in Check!M : c \notin waiters[k]) /\ pc[c] = "out"
    BY <1>0, <2>1
  <2> QED
    BY <2>2, <1>5, <1>2, <1>3 DEF Check!Lock, Check!TryLock, Check!Attempt
<1>6. ASSUME NEW m \in Check!M, Check!Unlock(c, m) PROVE CheckInv'
  <2>1. /\ wanted[c] = None /\ threadLock[m] = c /\ UNCHANGED <<wanted, pc>>
        /\ threadLock' = [threadLock EXCEPT ![m] = None]
        /\ owner' = [owner EXCEPT ![m] = None] /\ fiber' = [fiber EXCEPT ![m] = None]
        /\ tried' = tried \ {m}
        /\ waiters' \in [Check!M -> SUBSET Clients]
        /\ \A k \in Check!M : waiters'[k] \subseteq waiters[k]
    BY <1>6 DEF Check!Unlock
  <2>2. Check!TypeOK'
    BY <2>1
  <2>3. NotingInv'
    BY <1>0, <2>1
  <2>4. NotedInv'
    BY <1>0, <2>1
  <2> QED
    BY <2>1, <2>2, <2>3, <2>4
<1>7. CASE Check!NoteOwner(c)
  <2> DEFINE m == wanted[c]
  <2>1. /\ m \in Check!M /\ threadLock[m] = c
        /\ owner' = [owner EXCEPT ![m] = c]
        /\ UNCHANGED <<threadLock, fiber, waiters, tried>>
        /\ \/ pc[c] = "owner" /\ pc' = [pc EXCEPT ![c] = "fiber"] /\ UNCHANGED wanted
           \/ /\ pc[c] = "tried" /\ pc' = [pc EXCEPT ![c] = "out"]
              /\ wanted' = [wanted EXCEPT ![c] = None] /\ m \in tried
    BY <1>7 DEF Check!NoteOwner
  <2> HIDE DEF m
  <2>2. m = wanted[c] /\ \A k \in Check!M : c \notin waiters[k]
    BY <2>1 DEF m
  <2>3. Check!TypeOK'
    BY <2>1
  <2>4. NotingInv'
    BY <1>0, <2>1, <2>2
  <2>5. NotedInv'
    BY <1>0, <2>1, <2>2
  <2> QED
    BY <2>1, <2>2, <2>3, <2>4, <2>5
<1>8. CASE Check!NoteFiber(c)
  <2> DEFINE m == wanted[c]
  <2>1. /\ m \in Check!M /\ threadLock[m] = c /\ owner[m] = c
        /\ fiber' = [fiber EXCEPT ![m] = c]
        /\ UNCHANGED <<threadLock, owner, waiters, tried>>
        /\ pc[c] = "fiber" /\ pc' = [pc EXCEPT ![c] = "out"]
        /\ wanted' = [wanted EXCEPT ![c] = None]
    BY <1>8 DEF Check!NoteFiber
  <2> HIDE DEF m
  <2>2. m = wanted[c] /\ \A k \in Check!M : c \notin waiters[k]
    BY <2>1 DEF m
  <2>3. Check!TypeOK'
    BY <2>1
  <2>4. NotingInv'
    BY <1>0, <2>1, <2>2
  <2>5. NotedInv'
    BY <1>0, <2>1, <2>2
  <2> QED
    BY <2>1, <2>2, <2>3, <2>4, <2>5
<1> QED
  BY <1>1, <1>4, <1>5, <1>6, <1>7, <1>8

\* What the check finds out about a client that waits, and about an owner.
LEMMA WaitingForIs ==
  ASSUME NEW o, Check!WaitsAt(o) # {}
  PROVE  Check!WaitingFor(o) \in Check!M /\ o \in waiters[Check!WaitingFor(o)]
<1>1. Check!WaitsAt(o) \in SUBSET (1 .. Len(Mutexes)) /\ Len(Mutexes) \in Nat
  BY SharedAssumption DEF Check!WaitsAt
<1>2. \E i \in Check!WaitsAt(o) : \A j \in Check!WaitsAt(o) : j <= i
  BY <1>1, LastPlace
<1> QED
  BY <1>2 DEF Check!WaitingFor, Check!WaitsAt, Check!M

LEMMA FiberOfIs ==
  ASSUME CheckInv, NEW o \in Check!Owners,
         \A m \in Check!Waited : owner[m] = o => fiber[m] = o
  PROVE  Check!FiberOf(o) = o
<1>1. PICK m \in Check!Waited : o = owner[m]
  BY DEF Check!Owners
<1>2. PICK i \in DOMAIN Mutexes : Mutexes[i] = m
  BY DEF Check!Waited, Check!M
<1>3. i \in Check!HoldsAt(o)
  BY <1>1, <1>2 DEF Check!HoldsAt
<1>4. Check!HoldsAt(o) \in SUBSET (1 .. Len(Mutexes)) /\ Len(Mutexes) \in Nat
  BY SharedAssumption DEF Check!HoldsAt
<1>5. \E k \in Check!HoldsAt(o) : \A j \in Check!HoldsAt(o) : k <= j
  BY <1>3, <1>4, FirstPlace
<1> QED
  BY <1>5 DEF Check!FiberOf, Check!HoldsAt

\* A deadlock is found in every order of the table: the last of its owners in that
\* order waits for one that has been entered.
LEMMA DeadlocksAreFound ==
  ASSUME CheckInv
  PROVE  Check!NoMissedDeadlock
<1> SUFFICES ASSUME NEW S \in Check!Deadlocks, Check!TakenWithLock(S),
                    NEW order \in Check!Orders(Check!Owners)
             PROVE  Check!Reports(order)
  BY DEF Check!NoMissedDeadlock
<1>1. /\ S \in (SUBSET Clients) \ {{}} /\ Check!Deadlocked(S)
      /\ None \notin S
  BY ThreadsAssumption DEF Check!Deadlocks
<1> DEFINE O == S \cap Check!Owners
           n == Cardinality(Check!Owners)
<1>2. IsFiniteSet(Check!Owners)
  <2>1. IsFiniteSet(Clients \cup {None})
    BY SharedAssumption, FS_AddElement
  <2>2. Check!Owners \in SUBSET (Clients \cup {None})
    BY DEF Check!Owners, Check!Waited, CheckInv, Check!TypeOK
  <2> QED
    BY <2>1, <2>2, FS_Subset
<1>3. n \in Nat /\ order \in [1 .. n -> Check!Owners] /\ order \in Injection(1 .. n, Check!Owners)
  <2>1. n \in Nat
    BY <1>2, FS_CardinalityType
  <2>2. Check!Cardinality(Check!Owners) = n
    BY DEF Check!Cardinality, Cardinality
  <2> QED
    BY <2>1, <2>2 DEF Check!Orders, Check!IsInjective, Injection, IsInjective
<1>4. \A o \in Check!Owners : \E i \in 1 .. n : order[i] = o
  <2>1. Cardinality(1 .. n) = n
    BY <1>3, FS_Interval
  <2>2. order \in Surjection(1 .. n, Check!Owners)
    BY <1>2, <1>3, <2>1, FS_Injection
  <2> QED
    BY <2>2 DEF Surjection
<1>5. ASSUME NEW m \in Check!Waited, threadLock[m] \in S
      PROVE  owner[m] = threadLock[m] /\ fiber[m] = threadLock[m]
  <2>1. m \in Check!M /\ m \notin tried /\ threadLock[m] \in Clients
    BY <1>1, <1>5 DEF Check!Waited, Check!TakenWithLock
  <2>2. pc[threadLock[m]] = "out"
    BY <1>1, <1>5 DEF Check!Deadlocked, CheckInv
  <2> QED
    BY <2>1, <2>2 DEF CheckInv, NotedInv
<1>6. ASSUME NEW o \in S
      PROVE  /\ Check!Visited(o)
             /\ fiber[Check!WaitingFor(o)] \in O
  <2>1. PICK m \in Check!M : o \in waiters[m] /\ threadLock[m] \in S
    BY <1>1 DEF Check!Deadlocked
  <2>2. m \in Check!Waited /\ owner[m] \in O /\ fiber[m] = owner[m]
    BY <2>1, <1>5 DEF Check!Waited, Check!Owners
  <2>3. Check!WaitsAt(o) # {}
    BY <2>1 DEF Check!WaitsAt, Check!M
  <2>4. Check!WaitingFor(o) = m
    BY <2>1, <2>3, WaitingForIs DEF CheckInv
  <2> QED
    BY <1>1, <2>2, <2>3, <2>4 DEF Check!Visited
<1>7. ASSUME NEW o \in O
       PROVE  Check!FiberOf(o) = o
  <2>1. ASSUME NEW m \in Check!Waited, owner[m] = o
        PROVE  fiber[m] = o
    <3>1. m \in Check!M /\ threadLock[m] = o
      BY <1>1, <2>1 DEF Check!Waited, CheckInv, NotedInv
    <3> QED
      BY <1>5, <3>1
  <2> QED
    BY <2>1, FiberOfIs
<1> DEFINE T == {i \in 1 .. n : order[i] \in O}
<1>8. T \in SUBSET (1 .. n) /\ T # {}
  <2>1. PICK o \in S : TRUE
    BY <1>1
  <2>2. fiber[Check!WaitingFor(o)] \in O
    BY <2>1, <1>6
  <2> QED
    BY <2>2, <1>4
<1>9. PICK i \in T : \A j \in T : j <= i
  BY <1>3, <1>8, LastPlace
<1> DEFINE p == fiber[Check!WaitingFor(order[i])]
<1>10. p \in O /\ Check!Visited(order[i])
  BY <1>6, <1>9
<1>11. PICK j \in 1 .. n : order[j] = p
  BY <1>4, <1>10
<1>12. j \in 1 .. i /\ Check!Visited(order[j]) /\ Check!FiberOf(order[j]) = p
  BY <1>3, <1>6, <1>7, <1>9, <1>10, <1>11
<1>13. Check!Finds(order, i)
  BY <1>10, <1>12 DEF Check!Finds
<1> QED
  BY <1>3, <1>9, <1>13 DEF Check!Reports

-------------------------------------------------------------------------------
(* The fiber_mutex: its steps, as far as the proofs look at them.              *)

MutexTakes(c) ==
  /\ pc[c] \in {"out", "again", "append", "blocked"} /\ Runs(c)
  /\ threadLock = None /\ threadLock' = c
  /\ GoTo(c, "in")
  /\ UNCHANGED <<running, ready, mbox, lock, waiters, popped>>

MutexEnqueues(f) ==
  /\ pc[f] \in {"out", "again", "append"} /\ Runs(f)
  /\ threadLock # None /\ lock = None
  /\ waiters' = Append(waiters, f)
  /\ GoTo(f, "queue")
  /\ UNCHANGED <<running, ready, mbox, threadLock, lock, popped>>

MutexMoves(c, label) ==
  /\ Runs(c)
  /\ \/ pc[c] \in {"out", "again"} /\ label = "append" /\ c \in Fibers
     \/ pc[c] \in {"queued", "delay"} /\ label = "again" /\ c \in Fibers
     \/ pc[c] = "out" /\ label = "blocked" /\ c \in Solos
  /\ GoTo(c, label)
  /\ UNCHANGED <<running, ready, mbox, threadLock, lock, waiters, popped>>

MutexSwitches(f, label) ==
  /\ Runs(f) /\ SwitchAway(f)
  /\ \/ pc[f] = "queue" /\ label = "queued"
     \/ pc[f] = "queued" /\ label = "delay"
     \/ pc[f] \in {"out", "in"} /\ label = pc[f]
  /\ GoTo(f, label)
  /\ UNCHANGED <<ready, mbox, threadLock, lock, waiters, popped>>

\* Only a kill makes a fiber ready that waits for the mutex.
MutexReadies(f) ==
  /\ Suspended(f) /\ (pc[f] \in {"out", "in", "delay"} \/ object = "killed mutex")
  /\ MakeReady(f)
  /\ UNCHANGED <<running, mbox, threadLock, lock, waiters, popped, pc>>

MutexPops(c) ==
  /\ pc[c] = "in" /\ Runs(c) /\ lock = None /\ lock' = c
  /\ popped' = [popped EXCEPT ![c] = FirstOf(waiters)]
  /\ waiters' = PopFront(waiters)
  /\ GoTo(c, "popped")
  /\ UNCHANGED <<running, ready, mbox, threadLock>>

MutexReleases(c) ==
  /\ pc[c] = "popped" /\ Runs(c)
  /\ threadLock' = None /\ lock' = None
  /\ GoTo(c, IF popped[c] = None THEN "out" ELSE "wake")
  /\ UNCHANGED <<running, ready, mbox, waiters, popped>>

MutexWakes(c) ==
  /\ pc[c] = "wake" /\ Runs(c)
  /\ LET f == popped[c] IN
       \/ SameThread(c, f) /\ MakeReady(f) /\ UNCHANGED mbox
       \/ /\ ~SameThread(c, f)
          /\ mbox' = [mbox EXCEPT ![Home[f]] = Append(@, f)]
          /\ UNCHANGED ready
  /\ popped' = [popped EXCEPT ![c] = None]
  /\ GoTo(c, "out")
  /\ UNCHANGED <<running, threadLock, lock, waiters>>

MutexResumes(t) ==
  ResumeOn(t) /\ UNCHANGED <<mbox, threadLock, lock, waiters, popped, pc>>

MutexDelivers(t) ==
  /\ running[t] = None /\ mbox[t] # <<>>
  /\ MakeReady(Head(mbox[t]))
  /\ mbox' = [mbox EXCEPT ![t] = Tail(@)]
  /\ UNCHANGED <<running, threadLock, lock, waiters, popped, pc>>

MutexRests == UNCHANGED <<running, ready, mbox, threadLock, lock, waiters, popped, pc>>

MutexMove ==
  \/ \E c \in Clients :
       \/ MutexTakes(c) \/ MutexPops(c) \/ MutexReleases(c) \/ MutexWakes(c)
       \/ \E label \in Mutex!PCs : MutexMoves(c, label)
  \/ \E f \in Fibers :
       \/ MutexEnqueues(f) \/ MutexReadies(f)
       \/ \E label \in Mutex!PCs : MutexSwitches(f, label)
  \/ \E t \in Threads : MutexResumes(t) \/ MutexDelivers(t)
  \/ MutexRests

\* FiberMutex uses the operators of FiberThreads.
LEMMA MutexUses ==
  /\ Mutex!Clients = Clients
  /\ \A c, label : Mutex!At(c, label) <=> Runs(c) /\ pc[c] = label
  /\ \A c, label : Mutex!GoTo(c, label) <=> GoTo(c, label)
  /\ \A f : Mutex!Suspended(f) <=> Suspended(f)
  /\ \A c, f : Mutex!SameThread(c, f) <=> SameThread(c, f)
  /\ \A f : Mutex!MakeReady(f) <=> MakeReady(f)
  /\ \A f : Mutex!SwitchAway(f) <=> SwitchAway(f)
  /\ \A t : Mutex!ResumeOn(t) <=> ResumeOn(t)
  /\ \A q : Mutex!FirstOf(q) = FirstOf(q) /\ Mutex!PopFront(q) = PopFront(q)
<1>1. Mutex!Clients = Clients
  BY DEF Mutex!Clients, Clients
<1>2. \A c, label : Mutex!At(c, label) <=> Runs(c) /\ pc[c] = label
  BY DEF Mutex!At, Mutex!Runs, Runs
<1>3. \A c, label : Mutex!GoTo(c, label) <=> GoTo(c, label)
  BY DEF Mutex!GoTo, GoTo
<1>4. \A f : Mutex!Suspended(f) <=> Suspended(f)
  BY DEF Mutex!Suspended, Suspended, Mutex!Runs, Runs, Mutex!Elements, Elements
<1>5. \A c, f : Mutex!SameThread(c, f) <=> SameThread(c, f)
  BY DEF Mutex!SameThread, SameThread
<1>6. \A q, f : Mutex!Detach(q, f) = Detach(q, f)
  BY DEF Mutex!Detach, Detach, Mutex!Elements, Elements, Mutex!RemoveAt, RemoveAt,
         Mutex!Position, Position
<1>7. \A f : Mutex!MakeReady(f) <=> MakeReady(f)
  BY <1>6 DEF Mutex!MakeReady, MakeReady
<1>8. \A f : Mutex!SwitchAway(f) <=> SwitchAway(f)
  BY DEF Mutex!SwitchAway, SwitchAway
<1>9. \A t : Mutex!ResumeOn(t) <=> ResumeOn(t)
  BY DEF Mutex!ResumeOn, ResumeOn
<1>10. \A q : Mutex!FirstOf(q) = FirstOf(q)
  BY DEF Mutex!FirstOf, FirstOf
<1>11. \A q, i : Mutex!DeleteAt(q, i) = DeleteAt(q, i)
  BY DEF Mutex!DeleteAt, DeleteAt, Mutex!Front, Front, Mutex!Last, Last
<1>12. \A q : Mutex!PopFront(q) = PopFront(q)
  BY <1>11 DEF Mutex!PopFront, PopFront
<1> QED
  BY <1>1, <1>2, <1>3, <1>4, <1>5, <1>7, <1>8, <1>9, <1>10, <1>12

LEMMA MutexMoved ==
  ASSUME pc \in [Clients -> Mutex!PCs], Mutex!Next
  PROVE  MutexMove
<1> USE MutexUses DEF Mutex!schedVars, Mutex!mutexVars
<1>1. /\ \A f \in Fibers : f \in Clients
      /\ \A s \in Solos : s \in Clients /\ s \notin Fibers /\ Runs(s)
  BY ThreadsAssumption DEF Clients, Runs
<1>2. ASSUME NEW c \in Clients, Mutex!Take(c), Runs(c),
             pc[c] \in {"out", "again", "append", "blocked"}
      PROVE  MutexMove
  BY <1>2 DEF Mutex!Take, MutexTakes, MutexMove
<1>3. ASSUME NEW f \in Fibers, Mutex!Enqueue(f), Runs(f), lock = None,
             pc[f] \in {"out", "again", "append"}
      PROVE  MutexMove
  BY <1>3 DEF Mutex!Enqueue, MutexEnqueues, MutexMove
<1>4. ASSUME NEW f \in Fibers, Mutex!LockStep(f) PROVE MutexMove
  <2>1. CASE Mutex!LockOnce(f)
    BY <1>1, <1>2, <1>3, <2>1 DEF Mutex!LockOnce, Mutex!Trying
  <2>2. CASE Mutex!FirstTry(f)
    <3>1. Runs(f) /\ pc[f] \in {"out", "again"}
      BY <2>2 DEF Mutex!FirstTry, Mutex!Trying
    <3>2. CASE Mutex!Take(f)
      BY <1>1, <1>2, <3>1, <3>2
    <3>3. CASE ~Mutex!Take(f)
      <4>1. MutexMoves(f, "append")
        BY <2>2, <3>1, <3>3 DEF Mutex!FirstTry, MutexMoves
      <4> QED
        BY <1>1, <4>1 DEF MutexMove, Mutex!PCs
    <3> QED
      BY <3>2, <3>3
  <2>3. CASE Mutex!AppendAndTry(f)
    BY <1>1, <1>2, <1>3, <2>3 DEF Mutex!AppendAndTry
  <2>4. CASE Mutex!Switch(f)
    <3>1. MutexSwitches(f, "queued")
      BY <2>4 DEF Mutex!Switch, MutexSwitches
    <3> QED
      BY <3>1 DEF MutexMove, Mutex!PCs
  <2>5. CASE Mutex!Woken(f) /\ Mutex!Patience(f)
    <3>1. MutexMoves(f, "again")
      BY <2>5 DEF Mutex!Woken, MutexMoves
    <3> QED
      BY <1>1, <3>1 DEF MutexMove, Mutex!PCs
  <2>6. CASE Mutex!Woken(f) /\ ~Mutex!Patience(f)
    <3>1. MutexSwitches(f, "delay")
      BY <2>6 DEF Mutex!Woken, MutexSwitches
    <3> QED
      BY <3>1 DEF MutexMove, Mutex!PCs
  <2>7. CASE Mutex!DelayEnds(f)
    <3>1. MutexMoves(f, "again")
      BY <2>7 DEF Mutex!DelayEnds, MutexMoves
    <3> QED
      BY <1>1, <3>1 DEF MutexMove, Mutex!PCs
  <2> QED
    BY <1>4, <2>1, <2>2, <2>3, <2>4, <2>5, <2>6, <2>7 DEF Mutex!LockStep
<1>5. ASSUME NEW f \in Fibers, Mutex!Timer(f) \/ Mutex!Event(f) PROVE MutexMove
  <2>1. MutexReadies(f)
    BY <1>5 DEF Mutex!Timer, Mutex!Event, MutexReadies
  <2> QED
    BY <2>1 DEF MutexMove
<1>6. ASSUME NEW f \in Fibers, Mutex!SleepElsewhere(f)
      PROVE  MutexMove
  <2>1. Runs(f) /\ pc[f] \in {"out", "in"} /\ SwitchAway(f)
        /\ UNCHANGED <<ready, mbox, threadLock, lock, waiters, popped, pc>>
    BY <1>6 DEF Mutex!SleepElsewhere
  <2>2. GoTo(f, pc[f])
    BY <1>6, <2>1 DEF GoTo
  <2>3. MutexSwitches(f, pc[f])
    BY <2>1, <2>2 DEF MutexSwitches
  <2> QED
    BY <2>1, <2>3 DEF MutexMove, Mutex!PCs
<1>7. ASSUME NEW f \in Fibers, NEW g \in Fibers, Mutex!KillFiber(f, g) PROVE MutexMove
  <2>1. object = "killed mutex"
    BY <1>7 DEF Mutex!KillFiber
  <2>2. CASE Suspended(g)
    <3>1. MutexReadies(g)
      BY <1>7, <2>1, <2>2 DEF Mutex!KillFiber, Mutex!Cancel, MutexReadies
    <3> QED
      BY <3>1 DEF MutexMove
  <2>3. CASE ~Suspended(g)
    <3>1. MutexRests
      BY <1>7, <2>3 DEF Mutex!KillFiber, Mutex!Cancel, MutexRests
    <3> QED
      BY <3>1 DEF MutexMove
  <2> QED
    BY <2>2, <2>3
<1>8. ASSUME NEW s \in Solos, Mutex!SoloLock(s) \/ Mutex!SoloTakes(s) PROVE MutexMove
  <2>1. CASE Mutex!Take(s)
    BY <1>1, <1>2, <1>8, <2>1 DEF Mutex!SoloLock, Mutex!SoloTakes
  <2>2. CASE ~Mutex!Take(s)
    <3>1. MutexMoves(s, "blocked")
      BY <1>1, <1>8, <2>2 DEF Mutex!SoloLock, Mutex!SoloTakes, MutexMoves
    <3> QED
      BY <1>1, <3>1 DEF MutexMove, Mutex!PCs
  <2> QED
    BY <2>1, <2>2
<1>9. ASSUME NEW c \in Clients, Mutex!TryLock(c) PROVE MutexMove
  BY <1>9 DEF Mutex!TryLock, MutexTakes, MutexMove
<1>10. ASSUME NEW c \in Clients, Mutex!Unlock(c) PROVE MutexMove
  <2>1. CASE Mutex!UnlockPop(c)
    BY <2>1 DEF Mutex!UnlockPop, MutexPops, MutexMove
  <2>2. CASE Mutex!UnlockRelease(c)
    BY <2>2 DEF Mutex!UnlockRelease, MutexReleases, MutexMove
  <2>3. CASE Mutex!UnlockWake(c)
    <3>1. MutexWakes(c)
      BY <2>3 DEF Mutex!UnlockWake, MutexWakes
    <3> QED
      BY <3>1 DEF MutexMove
  <2> QED
    BY <1>10, <2>1, <2>2, <2>3 DEF Mutex!Unlock
<1>11. ASSUME NEW t \in Threads, Mutex!Resume(t) \/ Mutex!Deliver(t) PROVE MutexMove
  BY <1>11 DEF Mutex!Resume, Mutex!Deliver, MutexResumes, MutexDelivers, MutexMove
<1> QED
  BY <1>4, <1>5, <1>6, <1>7, <1>8, <1>9, <1>10, <1>11 DEF Mutex!Next

(* The parts of the inductive invariant.                                       *)

\* Who has the mutex, who its inner lock, and who is about to wake a fiber.
HolderInv ==
  /\ \A c \in Clients : threadLock = c <=> pc[c] \in {"in", "popped"}
  /\ \A c \in Clients : lock = c <=> pc[c] = "popped"
  /\ \A c \in Clients : popped[c] # None => pc[c] \in {"popped", "wake"}
  /\ \A c \in Clients : pc[c] = "wake" => popped[c] # None
  /\ \A f \in Fibers : pc[f] \in {"again", "append", "queue", "popped", "wake"} => Runs(f)

\* A wakeup is on its way to fiber f.
Sent(f) == f \in Items(mbox[Home[f]]) \/ \E c \in Clients : popped[c] = f

\* Who waits and is not in the array is going to run.
WokenInv ==
  \A f \in Fibers :
    /\ pc[f] = "queue" => f \in Items(waiters) \/ Sent(f) \/ InRing(f)
    /\ pc[f] = "queued" => f \in Items(waiters) \/ Sent(f) \/ InRing(f) \/ Runs(f)

\* If nobody is killed, a waiter is in one place: in the array, in one message, or
\* popped by one unlock.
Awaited(f) == f \in Items(waiters) \/ Sent(f)
PlaceInv ==
  /\ NoTwice(waiters)
  /\ \A t \in Threads : NoTwice(mbox[t])
  /\ \A f \in Fibers : ~(Runs(f) /\ InRing(f))
  /\ \A t \in Threads : \A f \in Items(mbox[t]) : t = Home[f]
  /\ \A f \in Items(waiters) : ~Sent(f)
  /\ \A c, d \in Clients : popped[c] = popped[d] /\ popped[c] # None => c = d
  /\ \A c \in Clients : popped[c] # None => popped[c] \notin Items(mbox[Home[popped[c]]])
  /\ \A f \in Fibers :
       Awaited(f) => pc[f] = "queue" \/ (pc[f] = "queued" /\ ~Runs(f) /\ ~InRing(f))

\* Somebody who is not in the array tries soon if the mutex is free.
OnceInv ==
  /\ \A c \in Clients : pc[c] = "popped" /\ popped[c] = None => waiters = <<>>
  /\ threadLock = None /\ waiters # <<>> =>
       \/ \E f \in Fibers :
            pc[f] \in {"again", "append", "queue", "queued", "delay"} /\ f \notin Items(waiters)
       \/ \E s \in Solos : pc[s] = "blocked"

\* The types of what MutexMove speaks of.
MutexTypes ==
  /\ SchedInv
  /\ mbox \in [Threads -> Seq(Fibers)]
  /\ threadLock \in Clients \cup {None} /\ lock \in Clients \cup {None}
  /\ waiters \in Seq(Fibers)
  /\ popped \in [Clients -> Fibers \cup {None}]
  /\ pc \in [Clients -> Mutex!PCs]

MutexInv ==
  /\ Mutex!TypeOK /\ MutexTypes
  /\ HolderInv /\ WokenInv
  /\ object # "killed mutex" => PlaceInv
  /\ object = "once mutex" => OnceInv

-------------------------------------------------------------------------------
LEMMA MutexStart == ASSUME Mutex!Init PROVE MutexInv
<1>1. ThreadsInit
  BY MutexUses DEF Mutex!Init, Mutex!ThreadsInit, ThreadsInit
<1>2. SchedInv /\ \A f \in Fibers : ~Runs(f) /\ ~InRing(f)
  BY <1>1, SchedStart
<1>3. \A t \in Threads : mbox[t] = <<>>
  BY <1>1 DEF ThreadsInit
<1>4. /\ \A c \in Clients : pc[c] = "out" /\ popped[c] = None
      /\ waiters = <<>> /\ threadLock = None /\ lock = None /\ None \notin Clients
      /\ \A f \in Fibers : f \in Clients /\ Home[f] \in Threads
  BY <1>1, MutexUses, ThreadsAssumption DEF Mutex!Init, ThreadsInit, Clients
<1>5. MutexTypes
  <2>1. /\ mbox \in [Threads -> Seq(Fibers)] /\ pc \in [Clients -> Mutex!PCs]
        /\ waiters \in Seq(Fibers)
    BY <1>1, <1>4 DEF ThreadsInit, Mutex!PCs
  <2>2. popped \in [Clients -> Fibers \cup {None}]
    BY MutexUses DEF Mutex!Init
  <2> QED
    BY <1>2, <1>4, <2>1, <2>2 DEF MutexTypes
<1>6. Mutex!TypeOK
  <2>1. canceled \subseteq Fibers /\ fiber \in Fibers \cup {None}
        /\ wakeups \in [Fibers -> 0 .. MaxWakeups]
    BY <1>1, SharedAssumption DEF Mutex!Init, ThreadsInit
  <2> QED
    BY <1>5, <2>1, MutexUses DEF Mutex!TypeOK, MutexTypes, SchedInv
<1>7. \A f \in Fibers : ~Sent(f) /\ ~(f \in Items(waiters))
  BY <1>3, <1>4, EmptyQueue, ThreadsAssumption DEF Sent, Clients
<1>8. HolderInv
  BY <1>4 DEF HolderInv
<1>9. WokenInv
  BY <1>4 DEF WokenInv
<1>10. PlaceInv
  BY <1>2, <1>3, <1>4, <1>7, EmptyQueue DEF PlaceInv, Awaited
<1>11. OnceInv
  BY <1>4 DEF OnceInv
<1> QED
  BY <1>5, <1>6, <1>8, <1>9, <1>10, <1>11 DEF MutexInv

\* The steps keep to the types.
LEMMA MutexMoveTypes ==
  ASSUME MutexTypes, HolderInv, MutexMove
  PROVE  MutexTypes'
<1> USE DEF MutexTypes
<1>1. /\ \A f \in Fibers : Home[f] \in Threads /\ f \in Clients
      /\ None \notin Clients
  BY ThreadsAssumption DEF Clients
<1>2. ASSUME UNCHANGED <<running, ready>> PROVE SchedInv'
  BY <1>2, SchedSame
<1>3. ASSUME NEW c \in Clients, MutexTakes(c) PROVE MutexTypes'
  BY <1>2, <1>3 DEF MutexTakes, GoTo, Mutex!PCs
<1>4. ASSUME NEW c \in Clients, MutexPops(c) PROVE MutexTypes'
  <2>1. FirstOf(waiters) \in Fibers \cup {None} /\ PopFront(waiters) \in Seq(Fibers)
    <3>1. CASE waiters = <<>>
      BY <3>1 DEF FirstOf, PopFront
    <3>2. CASE waiters # <<>>
      BY <3>2, PopFrontItems
    <3> QED
      BY <3>1, <3>2
  <2> QED
    BY <1>2, <1>4, <2>1 DEF MutexPops, GoTo, Mutex!PCs
<1>5. ASSUME NEW c \in Clients, MutexReleases(c) PROVE MutexTypes'
  BY <1>2, <1>5 DEF MutexReleases, GoTo, Mutex!PCs
<1>6. ASSUME NEW c \in Clients, MutexWakes(c) PROVE MutexTypes'
  <2> DEFINE f == popped[c]
  <2>1. f \in Fibers
    BY <1>6 DEF MutexWakes, HolderInv
  <2>2. popped' \in [Clients -> Fibers \cup {None}] /\ pc' \in [Clients -> Mutex!PCs]
    BY <1>6 DEF MutexWakes, GoTo, Mutex!PCs
  <2>3. CASE SameThread(c, f)
    <3>1. SchedInv'
      BY <1>6, <2>1, <2>3, ReadyStep DEF MutexWakes
    <3> QED
      BY <1>6, <2>2, <2>3, <3>1 DEF MutexWakes
  <2>4. CASE ~SameThread(c, f)
    <3>1. mbox' = [mbox EXCEPT ![Home[f]] = Append(@, f)] /\ UNCHANGED <<running, ready>>
      BY <1>6, <2>4 DEF MutexWakes
    <3>2. mbox' \in [Threads -> Seq(Fibers)]
      BY <1>1, <2>1, <3>1
    <3> QED
      BY <1>2, <1>6, <2>2, <3>1, <3>2 DEF MutexWakes
  <2> QED
    BY <2>3, <2>4
<1>7. ASSUME NEW c \in Clients, NEW label \in Mutex!PCs, MutexMoves(c, label)
      PROVE  MutexTypes'
  BY <1>2, <1>7 DEF MutexMoves, GoTo
<1>8. ASSUME NEW f \in Fibers, MutexEnqueues(f) PROVE MutexTypes'
  <2>1. Append(waiters, f) \in Seq(Fibers)
    BY AppendItems
  <2>2. pc' \in [Clients -> Mutex!PCs]
    BY <1>8 DEF MutexEnqueues, GoTo, Mutex!PCs
  <2> QED
    BY <1>2, <1>8, <2>1, <2>2 DEF MutexEnqueues
<1>9. ASSUME NEW f \in Fibers, MutexReadies(f) PROVE MutexTypes'
  <2>1. SchedInv'
    BY <1>9, ReadyStep DEF MutexReadies
  <2> QED
    BY <1>9, <2>1 DEF MutexReadies
<1>10. ASSUME NEW f \in Fibers, NEW label \in Mutex!PCs, MutexSwitches(f, label)
       PROVE  MutexTypes'
  <2>1. SchedInv'
    BY <1>10, SwitchStep DEF MutexSwitches
  <2> QED
    BY <1>10, <2>1 DEF MutexSwitches, GoTo
<1>11. ASSUME NEW t \in Threads, MutexResumes(t) PROVE MutexTypes'
  <2>1. SchedInv'
    BY <1>11, ResumeStep DEF MutexResumes
  <2> QED
    BY <1>11, <2>1 DEF MutexResumes
<1>12. ASSUME NEW t \in Threads, MutexDelivers(t) PROVE MutexTypes'
  <2>1. Head(mbox[t]) \in Fibers /\ Tail(mbox[t]) \in Seq(Fibers)
    BY <1>12 DEF MutexDelivers
  <2>2. SchedInv'
    BY <1>12, <2>1, ReadyStep DEF MutexDelivers
  <2> QED
    BY <1>12, <2>1, <2>2 DEF MutexDelivers
<1>13. CASE MutexRests
  BY <1>2, <1>13 DEF MutexRests
<1> QED
  BY <1>3, <1>4, <1>5, <1>6, <1>7, <1>8, <1>9, <1>10, <1>11, <1>12, <1>13 DEF MutexMove

LEMMA MutexOtherTypes ==
  ASSUME Mutex!TypeOK, MutexTypes', Mutex!Next
  PROVE  Mutex!TypeOK'
<1> USE MutexUses DEF Mutex!schedVars, Mutex!mutexVars
<1> DEFINE Rest == canceled \subseteq Fibers /\ fiber \in Fibers \cup {None}
                     /\ wakeups \in [Fibers -> 0 .. MaxWakeups]
<1>1. Rest
  BY DEF Mutex!TypeOK
<1>2. ASSUME NEW c \in Clients, Mutex!Take(c) PROVE Rest'
  BY <1>1, <1>2, SharedAssumption DEF Mutex!Take
<1>3. ASSUME NEW f \in Fibers, Mutex!Enqueue(f) PROVE Rest'
  BY <1>1, <1>3 DEF Mutex!Enqueue
<1>4. ASSUME NEW f \in Fibers, Mutex!LockStep(f) PROVE Rest'
  <2>1. f \in Clients
    BY DEF Clients
  <2>2. CASE Mutex!LockOnce(f) \/ Mutex!FirstTry(f) \/ Mutex!AppendAndTry(f)
    BY <1>1, <1>2, <1>3, <2>1, <2>2
       DEF Mutex!LockOnce, Mutex!FirstTry, Mutex!AppendAndTry
  <2>3. CASE Mutex!Woken(f)
    <3>1. UNCHANGED <<canceled, fiber>>
      BY <2>3 DEF Mutex!Woken
    <3>2. wakeups' \in [Fibers -> 0 .. MaxWakeups]
      <4>1. CASE Mutex!Patience(f)
        <5>1. wakeups[f] \in 0 .. MaxWakeups /\ wakeups[f] < MaxWakeups
          BY <1>1, <4>1 DEF Mutex!Patience
        <5>2. wakeups[f] + 1 \in 0 .. MaxWakeups
          BY <5>1, SharedAssumption
        <5> QED
          BY <1>1, <2>3, <4>1, <5>2 DEF Mutex!Woken
      <4>2. CASE ~Mutex!Patience(f)
        BY <1>1, <2>3, <4>2, SharedAssumption DEF Mutex!Woken
      <4> QED
        BY <4>1, <4>2
    <3> QED
      BY <1>1, <3>1, <3>2
  <2>4. CASE Mutex!Switch(f) \/ Mutex!DelayEnds(f)
    BY <1>1, <2>4 DEF Mutex!Switch, Mutex!DelayEnds
  <2> QED
    BY <1>4, <2>2, <2>3, <2>4 DEF Mutex!LockStep
<1>5. ASSUME NEW f \in Fibers, Mutex!Timer(f) \/ Mutex!Event(f) \/ Mutex!SleepElsewhere(f)
      PROVE  Rest'
  BY <1>1, <1>5 DEF Mutex!Timer, Mutex!Event, Mutex!SleepElsewhere
<1>6. ASSUME NEW f \in Fibers, NEW g \in Fibers, Mutex!KillFiber(f, g) PROVE Rest'
  BY <1>1, <1>6 DEF Mutex!KillFiber, Mutex!Cancel
<1>7. ASSUME NEW s \in Solos, Mutex!SoloLock(s) \/ Mutex!SoloTakes(s) PROVE Rest'
  BY <1>1, <1>2, <1>7 DEF Mutex!SoloLock, Mutex!SoloTakes, Clients
<1>8. ASSUME NEW c \in Clients, Mutex!TryLock(c) \/ Mutex!Unlock(c) PROVE Rest'
  BY <1>1, <1>8
     DEF Mutex!TryLock, Mutex!Unlock, Mutex!UnlockPop, Mutex!UnlockRelease, Mutex!UnlockWake
<1>9. ASSUME NEW t \in Threads, Mutex!Resume(t) \/ Mutex!Deliver(t) PROVE Rest'
  BY <1>1, <1>9 DEF Mutex!Resume, Mutex!ResumeOn, Mutex!Deliver
<1>10. Rest'
  BY <1>4, <1>5, <1>6, <1>7, <1>8, <1>9 DEF Mutex!Next
<1> QED
  BY <1>10 DEF Mutex!TypeOK, MutexTypes, SchedInv

\* The mutex and its inner lock have one holder.
LEMMA MutexHolders ==
  ASSUME MutexTypes, HolderInv, MutexMove
  PROVE  HolderInv'
<1> USE DEF HolderInv
<1>1. /\ None \notin Clients /\ \A f \in Fibers : f \in Clients /\ Home[f] \in Threads
      /\ pc \in [Clients -> Mutex!PCs] /\ popped \in [Clients -> Fibers \cup {None}]
      /\ SchedInv /\ mbox \in [Threads -> Seq(Fibers)] /\ waiters \in Seq(Fibers)
  BY ThreadsAssumption DEF Clients, MutexTypes
<1>2. UNCHANGED running => \A f \in Fibers : Runs(f)' <=> Runs(f)
  BY DEF Runs
<1>3. ASSUME NEW c \in Clients, MutexTakes(c) PROVE HolderInv'
  BY <1>1, <1>2, <1>3 DEF MutexTakes, GoTo
<1>4. ASSUME NEW c \in Clients, MutexPops(c) PROVE HolderInv'
  BY <1>1, <1>2, <1>4 DEF MutexPops, GoTo
<1>5. ASSUME NEW c \in Clients, MutexReleases(c) PROVE HolderInv'
  BY <1>1, <1>2, <1>5 DEF MutexReleases, GoTo
<1>6. ASSUME NEW c \in Clients, MutexWakes(c) PROVE HolderInv'
  BY <1>1, <1>2, <1>6 DEF MutexWakes, GoTo
<1>7. ASSUME NEW c \in Clients, NEW label \in Mutex!PCs, MutexMoves(c, label)
      PROVE  HolderInv'
  BY <1>1, <1>2, <1>7 DEF MutexMoves, GoTo
<1>8. ASSUME NEW f \in Fibers, MutexEnqueues(f) PROVE HolderInv'
  BY <1>1, <1>2, <1>8 DEF MutexEnqueues, GoTo
<1>9. ASSUME NEW f \in Fibers, MutexReadies(f) PROVE HolderInv'
  BY <1>2, <1>9 DEF MutexReadies
<1>10. ASSUME NEW f \in Fibers, NEW label \in Mutex!PCs, MutexSwitches(f, label)
       PROVE  HolderInv'
  <2>1. \A g \in Fibers : g # f => (Runs(g)' <=> Runs(g))
    BY <1>1, <1>10, SwitchStep DEF MutexSwitches
  <2> QED
    BY <1>1, <1>10, <2>1 DEF MutexSwitches, GoTo
<1>11. ASSUME NEW t \in Threads, MutexResumes(t) PROVE HolderInv'
  <2>1. \A g \in Fibers : Runs(g) => Runs(g)'
    BY <1>1, <1>11, ResumeStep DEF MutexResumes
  <2> QED
    BY <1>11, <2>1 DEF MutexResumes
<1>12. ASSUME NEW t \in Threads, MutexDelivers(t) PROVE HolderInv'
  BY <1>2, <1>12 DEF MutexDelivers
<1>13. CASE MutexRests
  BY <1>2, <1>13 DEF MutexRests
<1> QED
  BY <1>3, <1>4, <1>5, <1>6, <1>7, <1>8, <1>9, <1>10, <1>11, <1>12, <1>13 DEF MutexMove

\* What unlock, and the mailbox of a thread, do with the wakeup of one fiber.
LEMMA SentByPop ==
  ASSUME MutexTypes, HolderInv, NEW c \in Clients, MutexPops(c)
  PROVE  /\ \A g \in Fibers : g \in Items(waiters) => g \in Items(waiters)' \/ Sent(g)'
         /\ \A g \in Fibers : Sent(g) => Sent(g)'
         /\ \A d \in Clients : d # c => popped'[d] = popped[d]
         /\ popped[c] = None
         /\ waiters = <<>> => popped'[c] = None /\ waiters' = waiters
         /\ waiters # <<>> =>
              /\ popped'[c] \in Fibers
              /\ Items(waiters) = Items(waiters') \cup {popped'[c]}
              /\ NoTwice(waiters) => NoTwice(waiters') /\ popped'[c] \notin Items(waiters')
<1>1. /\ waiters \in Seq(Fibers) /\ popped \in [Clients -> Fibers \cup {None}]
      /\ \A f \in Fibers : f # None
  BY ThreadsAssumption DEF MutexTypes, Clients
<1>2. /\ popped' = [popped EXCEPT ![c] = FirstOf(waiters)] /\ waiters' = PopFront(waiters)
      /\ UNCHANGED mbox /\ popped[c] = None
  BY <1>1 DEF MutexPops, HolderInv
<1>3. popped'[c] = FirstOf(waiters) /\ \A d \in Clients : d # c => popped'[d] = popped[d]
  BY <1>1, <1>2
<1>4. waiters = <<>> => popped'[c] = None /\ waiters' = waiters
  BY <1>2, <1>3 DEF FirstOf, PopFront
<1>5. ASSUME waiters # <<>>
      PROVE  /\ popped'[c] \in Fibers
             /\ Items(waiters) = Items(waiters') \cup {popped'[c]}
             /\ NoTwice(waiters) => NoTwice(waiters') /\ popped'[c] \notin Items(waiters')
  BY <1>1, <1>2, <1>3, <1>5, PopFrontItems
<1>6. \A g \in Fibers : Sent(g) => Sent(g)'
  BY <1>1, <1>2, <1>3 DEF Sent
<1>7. \A g \in Fibers : g = popped'[c] => Sent(g)'
  BY DEF Sent
<1> QED
  BY <1>2, <1>3, <1>4, <1>5, <1>6, <1>7, EmptyQueue

LEMMA SentByWake ==
  ASSUME MutexTypes, HolderInv, NEW c \in Clients, MutexWakes(c)
  PROVE  /\ popped[c] \in Fibers
         /\ \A d \in Clients : popped'[d] = IF d = c THEN None ELSE popped[d]
         /\ \/ /\ SameThread(c, popped[c]) /\ MakeReady(popped[c])
               /\ UNCHANGED mbox
            \/ /\ ~SameThread(c, popped[c])
               /\ UNCHANGED ready
               /\ mbox' = [mbox EXCEPT ![Home[popped[c]]] = Append(@, popped[c])]
               /\ \A t \in Threads :
                    /\ Items(mbox'[t]) = IF t = Home[popped[c]]
                                         THEN Items(mbox[t]) \cup {popped[c]}
                                         ELSE Items(mbox[t])
                    /\ NoTwice(mbox[t]) /\ popped[c] \notin Items(mbox[t]) => NoTwice(mbox'[t])
                    /\ t # Home[popped[c]] => mbox'[t] = mbox[t]
<1> DEFINE f == popped[c]
<1>1. f \in Fibers
  BY DEF MutexTypes, MutexWakes, HolderInv
<1>2. \A d \in Clients : popped'[d] = IF d = c THEN None ELSE popped[d]
  BY DEF MutexTypes, MutexWakes
<1>3. ASSUME ~SameThread(c, f)
      PROVE  /\ UNCHANGED ready
             /\ mbox' = [mbox EXCEPT ![Home[f]] = Append(@, f)]
             /\ \A t \in Threads :
                  /\ Items(mbox'[t]) = IF t = Home[f] THEN Items(mbox[t]) \cup {f}
                                                      ELSE Items(mbox[t])
                  /\ NoTwice(mbox[t]) /\ f \notin Items(mbox[t]) => NoTwice(mbox'[t])
                  /\ t # Home[f] => mbox'[t] = mbox[t]
  <2>1. mbox' = [mbox EXCEPT ![Home[f]] = Append(@, f)] /\ UNCHANGED ready
    BY <1>3 DEF MutexWakes
  <2>2. \A t \in Threads : mbox'[t] = IF t = Home[f] THEN Append(mbox[t], f) ELSE mbox[t]
    BY <2>1 DEF MutexTypes
  <2>3. \A t \in Threads :
          /\ Items(Append(mbox[t], f)) = Items(mbox[t]) \cup {f}
          /\ NoTwice(mbox[t]) /\ f \notin Items(mbox[t]) => NoTwice(Append(mbox[t], f))
    <3> TAKE t \in Threads
    <3>1. mbox[t] \in Seq(Fibers)
      BY DEF MutexTypes
    <3> HIDE DEF f
    <3> QED
      BY <1>1, <3>1, AppendItems
  <2> HIDE DEF f
  <2>4. ASSUME NEW t \in Threads
        PROVE  /\ Items(mbox'[t]) = IF t = Home[f] THEN Items(mbox[t]) \cup {f}
                                                   ELSE Items(mbox[t])
               /\ NoTwice(mbox[t]) /\ f \notin Items(mbox[t]) => NoTwice(mbox'[t])
               /\ t # Home[f] => mbox'[t] = mbox[t]
    <3>1. CASE t = Home[f]
      <4>1. mbox'[t] = Append(mbox[t], f)
        BY <2>2, <3>1
      <4> QED
        BY <2>3, <3>1, <4>1
    <3>2. CASE t # Home[f]
      <4>1. mbox'[t] = mbox[t]
        BY <2>2, <3>2
      <4> QED
        BY <3>2, <4>1
    <3> QED
      BY <3>1, <3>2
  <2> QED
    BY <2>1, <2>4
<1>4. SameThread(c, f) => MakeReady(f) /\ UNCHANGED mbox
  BY DEF MutexWakes
<1> QED
  BY <1>1, <1>2, <1>3, <1>4

LEMMA SentByDelivery ==
  ASSUME MutexTypes, NEW t \in Threads, MutexDelivers(t)
  PROVE  LET h == Head(mbox[t])
         IN  /\ h \in Fibers /\ h \in Items(mbox[t])
             /\ mbox'[t] = Tail(mbox[t])
             /\ Items(mbox[t]) = Items(mbox'[t]) \cup {h}
             /\ NoTwice(mbox[t]) => NoTwice(mbox'[t]) /\ h \notin Items(mbox'[t])
             /\ \A u \in Threads : u # t => mbox'[u] = mbox[u]
<1>1. mbox[t] \in Seq(Fibers) /\ mbox[t] # <<>>
  BY DEF MutexTypes, MutexDelivers
<1>2. mbox'[t] = Tail(mbox[t]) /\ \A u \in Threads : u # t => mbox'[u] = mbox[u]
  BY DEF MutexTypes, MutexDelivers
<1> QED
  BY <1>1, <1>2, TailItems

\* Nobody is forgotten: by each step in turn.
LEMMA MutexWoken ==
  ASSUME MutexTypes, HolderInv, WokenInv, MutexMove
  PROVE  WokenInv'
<1> USE DEF WokenInv
<1>1. /\ \A f \in Fibers : f \in Clients /\ Home[f] \in Threads
      /\ pc \in [Clients -> Mutex!PCs] /\ popped \in [Clients -> Fibers \cup {None}]
      /\ SchedInv /\ mbox \in [Threads -> Seq(Fibers)] /\ waiters \in Seq(Fibers)
  BY ThreadsAssumption DEF Clients, MutexTypes
<1>2. UNCHANGED <<running, ready>> =>
        \A f \in Fibers : (Runs(f)' <=> Runs(f)) /\ (InRing(f)' <=> InRing(f))
  BY SchedSame
<1>3. UNCHANGED <<mbox, popped>> => \A f \in Fibers : Sent(f)' <=> Sent(f)
  BY DEF Sent
<1>4. ASSUME NEW c \in Clients, MutexTakes(c) PROVE WokenInv'
  BY <1>1, <1>2, <1>3, <1>4 DEF MutexTakes, GoTo
<1>5. ASSUME NEW c \in Clients, MutexPops(c) PROVE WokenInv'
  BY <1>1, <1>2, <1>5, SentByPop DEF MutexPops, GoTo
<1>6. ASSUME NEW c \in Clients, MutexReleases(c) PROVE WokenInv'
  BY <1>1, <1>2, <1>3, <1>6 DEF MutexReleases, GoTo
<1>7. ASSUME NEW c \in Clients, MutexWakes(c) PROVE WokenInv'
  <2> DEFINE h == popped[c]
  <2>1. h \in Fibers /\ \A d \in Clients : popped'[d] = IF d = c THEN None ELSE popped[d]
    BY <1>7, SentByWake
  <2>2. UNCHANGED <<running, waiters>> /\ pc' = [pc EXCEPT ![c] = "out"]
    BY <1>7 DEF MutexWakes, GoTo
  <2>3. CASE SameThread(c, h)
    <3>1. MakeReady(h) /\ UNCHANGED mbox
      BY <1>7, <2>3, SentByWake
    <3>2. \A g \in Fibers : (Runs(g)' <=> Runs(g)) /\ (InRing(g)' <=> InRing(g) \/ g = h)
      BY <1>1, <2>1, <2>2, <3>1, ReadyStep
    <3>3. \A g \in Fibers : g # h /\ Sent(g) => Sent(g)'
      BY <2>1, <3>1 DEF Sent
    <3> QED
      BY <1>1, <2>1, <2>2, <3>2, <3>3
  <2>4. CASE ~SameThread(c, h)
    <3>1. UNCHANGED ready
      BY <1>7, <2>4, SentByWake
    <3>2. \A t \in Threads : Items(mbox'[t]) = IF t = Home[h] THEN Items(mbox[t]) \cup {h}
                                                             ELSE Items(mbox[t])
      BY <1>7, <2>4, SentByWake
    <3>3. \A g \in Fibers : Sent(g) => Sent(g)'
      <4> SUFFICES ASSUME NEW g \in Fibers, Sent(g) PROVE Sent(g)'
        OBVIOUS
      <4>1. CASE g = h
        BY <1>1, <2>1, <3>2, <4>1 DEF Sent
      <4>2. CASE g # h
        BY <1>1, <2>1, <3>2, <4>2 DEF Sent
      <4> QED
        BY <4>1, <4>2
    <3> QED
      BY <1>1, <1>2, <2>2, <3>1, <3>3
  <2> QED
    BY <2>3, <2>4
<1>8. ASSUME NEW c \in Clients, NEW label \in Mutex!PCs, MutexMoves(c, label)
      PROVE  WokenInv'
  BY <1>1, <1>2, <1>3, <1>8 DEF MutexMoves, GoTo
<1>9. ASSUME NEW f \in Fibers, MutexEnqueues(f) PROVE WokenInv'
  <2>1. Items(waiters') = Items(waiters) \cup {f}
    BY <1>1, <1>9, AppendItems DEF MutexEnqueues
  <2> QED
    BY <1>1, <1>2, <1>3, <1>9, <2>1 DEF MutexEnqueues, GoTo
<1>10. ASSUME NEW f \in Fibers, MutexReadies(f) PROVE WokenInv'
  <2>1. \A g \in Fibers : (Runs(g)' <=> Runs(g)) /\ (InRing(g) => InRing(g)')
    BY <1>1, <1>10, ReadyStep DEF MutexReadies
  <2> QED
    BY <1>3, <1>10, <2>1 DEF MutexReadies
<1>11. ASSUME NEW f \in Fibers, NEW label \in Mutex!PCs, MutexSwitches(f, label)
       PROVE  WokenInv'
  <2>1. /\ \A g \in Fibers : g # f => (Runs(g)' <=> Runs(g))
        /\ \A g \in Fibers : InRing(g)' <=> InRing(g)
    BY <1>1, <1>11, SwitchStep DEF MutexSwitches
  <2>2. \A g \in Fibers : g # f => pc'[g] = pc[g]
    BY <1>1, <1>11 DEF MutexSwitches, GoTo
  <2>3. /\ pc'[f] = label /\ UNCHANGED <<mbox, popped, waiters>>
        /\ label \in {"queue", "queued"} => label = "queued" /\ pc[f] = "queue"
    BY <1>1, <1>11 DEF MutexSwitches, GoTo
  <2> QED
    BY <1>3, <2>1, <2>2, <2>3
<1>12. ASSUME NEW t \in Threads, MutexResumes(t) PROVE WokenInv'
  <2>1. \A g \in Fibers : /\ Runs(g) => Runs(g)'
                          /\ InRing(g) => Runs(g)' \/ InRing(g)'
                          /\ Runs(g)' /\ pc[g] = "queue" => Runs(g)
    BY <1>1, <1>12, ResumeStep DEF MutexResumes, HolderInv
  <2>2. \A g \in Fibers : pc[g] = "queue" => (InRing(g)' <=> InRing(g))
    <3> TAKE g \in Fibers
    <3>1. CASE pc[g] = "queue"
      <4>1. running[Home[g]] = g /\ g # None /\ running[t] = None /\ ready' = [ready EXCEPT ![t] = Tail(@)]
        BY <1>12, <3>1, ThreadsAssumption DEF HolderInv, Runs, MutexResumes, ResumeOn, Clients
      <4>2. ready'[Home[g]] = ready[Home[g]]
        BY <1>1, <4>1 DEF SchedInv
      <4> QED
        BY <4>2 DEF InRing
    <3> QED
      BY <3>1
  <2> QED
    BY <1>3, <1>12, <2>1, <2>2 DEF MutexResumes
<1>13. ASSUME NEW t \in Threads, MutexDelivers(t) PROVE WokenInv'
  <2> DEFINE h == Head(mbox[t])
  <2>1. /\ h \in Fibers /\ Items(mbox[t]) = Items(mbox'[t]) \cup {h}
        /\ \A u \in Threads : u # t => mbox'[u] = mbox[u]
    BY <1>1, <1>13, SentByDelivery
  <2>2. MakeReady(h) /\ UNCHANGED <<running, waiters, popped, pc>>
    BY <1>13 DEF MutexDelivers
  <2> HIDE DEF h
  <2>3. \A g \in Fibers : (Runs(g)' <=> Runs(g)) /\ (InRing(g)' <=> InRing(g) \/ g = h)
    BY <1>1, <2>1, <2>2, ReadyStep
  <2>4. \A g \in Fibers : g # h /\ Sent(g) => Sent(g)'
    <3> SUFFICES ASSUME NEW g \in Fibers, g # h, Sent(g) PROVE Sent(g)'
      OBVIOUS
    <3>1. g \in Items(mbox[Home[g]]) => g \in Items(mbox'[Home[g]])
      BY <1>1, <2>1
    <3> QED
      BY <2>2, <3>1 DEF Sent
  <2> QED
    BY <2>2, <2>3, <2>4
<1>14. CASE MutexRests
  BY <1>2, <1>3, <1>14 DEF MutexRests
<1> QED
  BY <1>4, <1>5, <1>6, <1>7, <1>8, <1>9, <1>10, <1>11, <1>12, <1>13, <1>14 DEF MutexMove

\* Nobody waits in two places, and nobody who does something else: by each step in
\* turn.  A fiber that runs and is not about to switch is not waited for.
LEMMA MutexPlaces ==
  ASSUME MutexTypes, HolderInv, PlaceInv, MutexMove, object # "killed mutex"
  PROVE  PlaceInv'
<1>1. /\ \A f \in Fibers : f \in Clients /\ Home[f] \in Threads /\ f # None
      /\ pc \in [Clients -> Mutex!PCs] /\ popped \in [Clients -> Fibers \cup {None}]
      /\ SchedInv /\ mbox \in [Threads -> Seq(Fibers)] /\ waiters \in Seq(Fibers)
  BY ThreadsAssumption DEF Clients, MutexTypes
<1>2. /\ NoTwice(waiters)
      /\ \A t \in Threads : NoTwice(mbox[t])
      /\ \A f \in Fibers : ~(Runs(f) /\ InRing(f))
      /\ \A t \in Threads : \A f \in Items(mbox[t]) : t = Home[f]
      /\ \A f \in Items(waiters) : f \in Fibers /\ ~Sent(f)
      /\ \A c, d \in Clients : popped[c] = popped[d] /\ popped[c] # None => c = d
      /\ \A c \in Clients : popped[c] # None => popped[c] \notin Items(mbox[Home[popped[c]]])
      /\ \A f \in Fibers :
           Awaited(f) => pc[f] = "queue" \/ (pc[f] = "queued" /\ ~Runs(f) /\ ~InRing(f))
  BY <1>1, ItemsType DEF PlaceInv
<1>3. /\ UNCHANGED <<running, ready>> =>
           \A f \in Fibers : (Runs(f)' <=> Runs(f)) /\ (InRing(f)' <=> InRing(f))
      /\ UNCHANGED <<mbox, popped>> => \A f \in Fibers : Sent(f)' <=> Sent(f)
      /\ UNCHANGED <<mbox, popped, waiters>> => \A f \in Fibers : Awaited(f)' <=> Awaited(f)
  BY SchedSame DEF Sent, Awaited
<1>4. \A c \in Clients :
        c \in Fibers /\ pc[c] # "queue" /\ (pc[c] = "queued" => Runs(c)) => ~Awaited(c)
  BY <1>2
<1>5. ASSUME NEW c \in Clients, UNCHANGED <<running, ready, mbox, waiters, popped>>,
             c \in Fibers => ~Awaited(c), \A d \in Clients : d # c => pc'[d] = pc[d]
      PROVE  PlaceInv'
  <2>1. \A f \in Fibers :
          Awaited(f)' => pc'[f] = "queue" \/ (pc'[f] = "queued" /\ ~Runs(f)' /\ ~InRing(f)')
    BY <1>1, <1>2, <1>3, <1>5
  <2>2. \A f \in Items(waiters') : ~Sent(f)'
    BY <1>2, <1>3, <1>5
  <2> QED
    BY <1>2, <1>3, <1>5, <2>1, <2>2 DEF PlaceInv
<1>6. ASSUME NEW c \in Clients, MutexTakes(c) PROVE PlaceInv'
  BY <1>1, <1>4, <1>5, <1>6 DEF MutexTakes, GoTo
<1>7. ASSUME NEW c \in Clients, MutexReleases(c) PROVE PlaceInv'
  BY <1>1, <1>4, <1>5, <1>7 DEF MutexReleases, GoTo
<1>8. ASSUME NEW c \in Clients, NEW label \in Mutex!PCs, MutexMoves(c, label)
      PROVE  PlaceInv'
  BY <1>1, <1>4, <1>5, <1>8 DEF MutexMoves, GoTo
<1>9. ASSUME NEW f \in Fibers, MutexEnqueues(f) PROVE PlaceInv'
  <2>1. ~Awaited(f)
    BY <1>1, <1>4, <1>9 DEF MutexEnqueues
  <2>2. /\ Items(waiters') = Items(waiters) \cup {f} /\ NoTwice(waiters')
    <3>1. waiters' = Append(waiters, f) /\ f \notin Items(waiters)
      BY <1>9, <2>1 DEF MutexEnqueues, Awaited
    <3> QED
      BY <1>1, <1>2, <3>1, AppendItems
  <2>3. UNCHANGED <<running, ready, mbox, popped>>
        /\ \A d \in Clients : pc'[d] = IF d = f THEN "queue" ELSE pc[d]
    BY <1>1, <1>9 DEF MutexEnqueues, GoTo
  <2>4. \A g \in Items(waiters') : ~Sent(g)'
    BY <1>2, <1>3, <2>1, <2>2, <2>3 DEF Awaited
  <2>5. \A g \in Fibers : g # f /\ Awaited(g)' => Awaited(g)
    BY <1>3, <2>2, <2>3 DEF Awaited
  <2>6. \A g \in Fibers :
          Awaited(g)' => pc'[g] = "queue" \/ (pc'[g] = "queued" /\ ~Runs(g)' /\ ~InRing(g)')
    BY <1>1, <1>2, <1>3, <2>3, <2>5
  <2> QED
    BY <1>2, <1>3, <2>2, <2>3, <2>4, <2>6 DEF PlaceInv
<1>10. ASSUME NEW f \in Fibers, NEW label \in Mutex!PCs, MutexSwitches(f, label)
       PROVE  PlaceInv'
  <2>1. /\ ~Runs(f)'
        /\ \A g \in Fibers : g # f => (Runs(g)' <=> Runs(g))
        /\ \A g \in Fibers : InRing(g)' <=> InRing(g)
    BY <1>1, <1>10, SwitchStep DEF MutexSwitches
  <2>2. /\ UNCHANGED <<mbox, waiters, popped>> /\ Runs(f)
        /\ \A d \in Clients : pc'[d] = IF d = f THEN label ELSE pc[d]
        /\ pc[f] = "queue" => label = "queued"
    BY <1>1, <1>10 DEF MutexSwitches, GoTo
  <2>3. \A g \in Items(waiters') : ~Sent(g)'
    BY <1>2, <1>3, <2>2
  <2>4. \A g \in Fibers : ~(Runs(g)' /\ InRing(g)')
    BY <1>2, <2>1
  <2>5. \A g \in Fibers :
          Awaited(g)' => pc'[g] = "queue" \/ (pc'[g] = "queued" /\ ~Runs(g)' /\ ~InRing(g)')
    BY ZenonT(30), <1>1, <1>2, <1>3, <2>1, <2>2
  <2> QED
    BY <1>2, <2>2, <2>3, <2>4, <2>5 DEF PlaceInv
<1>11. ASSUME NEW f \in Fibers, MutexReadies(f) PROVE PlaceInv'
  <2>1. ~Awaited(f) /\ ~Runs(f)
    BY <1>1, <1>4, <1>11, SuspendedMeans DEF MutexReadies
  <2>2. UNCHANGED <<running, mbox, waiters, popped, pc>>
        /\ \A g \in Fibers : (Runs(g)' <=> Runs(g)) /\ (InRing(g)' <=> InRing(g) \/ g = f)
    BY <1>1, <1>11, ReadyStep DEF MutexReadies
  <2>3. \A g \in Items(waiters') : ~Sent(g)'
    BY <1>2, <1>3, <2>2
  <2>4. \A g \in Fibers :
          Awaited(g)' => pc'[g] = "queue" \/ (pc'[g] = "queued" /\ ~Runs(g)' /\ ~InRing(g)')
    BY <1>2, <1>3, <2>1, <2>2
  <2> QED
    BY <1>2, <2>1, <2>2, <2>3, <2>4 DEF PlaceInv
<1>12. ASSUME NEW c \in Clients, MutexPops(c) PROVE PlaceInv'
  <2> DEFINE h == popped'[c]
  <2>1. /\ UNCHANGED <<running, ready, mbox>> /\ pc[c] = "in"
        /\ \A d \in Clients : d # c => pc'[d] = pc[d]
    BY <1>1, <1>12 DEF MutexPops, GoTo
  <2>2. /\ \A d \in Clients : d # c => popped'[d] = popped[d]
        /\ popped[c] = None
        /\ waiters = <<>> => h = None /\ waiters' = waiters
        /\ waiters # <<>> =>
             /\ h \in Fibers
             /\ Items(waiters) = Items(waiters') \cup {h}
             /\ NoTwice(waiters) => NoTwice(waiters') /\ h \notin Items(waiters')
    BY <1>12, SentByPop
  <2>3. c \in Fibers => ~Awaited(c)
    BY <1>4, <2>1
  <2>4. CASE waiters = <<>>
    <3>1. UNCHANGED waiters /\ \A d \in Clients : popped'[d] = popped[d]
      BY <2>2, <2>4
    <3>2. UNCHANGED popped
      BY <1>1, <1>12, <3>1 DEF MutexPops
    <3> QED
      BY <1>5, <2>1, <2>3, <3>1, <3>2
  <2>5. CASE waiters # <<>>
    <3>1. /\ h \in Fibers /\ NoTwice(waiters') /\ h \notin Items(waiters')
          /\ Items(waiters) = Items(waiters') \cup {h} /\ ~Sent(h)
      BY <1>2, <2>2, <2>5
    <3>2. \A d \in Clients : popped'[d] = IF d = c THEN h ELSE popped[d]
      BY <2>2
    <3> HIDE DEF h
    <3>3. \A g \in Fibers : Sent(g)' <=> Sent(g) \/ g = h
      BY <1>1, <2>1, <2>2, <3>1, <3>2 DEF Sent
    <3>4. \A g \in Fibers : Awaited(g)' <=> Awaited(g)
      BY <3>1, <3>3 DEF Awaited
    <3>5. \A g \in Items(waiters') : ~Sent(g)'
      BY <1>2, <3>1, <3>3
    <3>6. \A b, d \in Clients : popped'[b] = popped'[d] /\ popped'[b] # None => b = d
      BY <1>1, <1>2, <3>1, <3>2 DEF Sent
    <3>7. \A d \in Clients : popped'[d] # None => popped'[d] \notin Items(mbox'[Home[popped'[d]]])
      BY <1>1, <1>2, <2>1, <3>1, <3>2 DEF Sent
    <3>8. \A g \in Fibers :
            Awaited(g)' => pc'[g] = "queue" \/ (pc'[g] = "queued" /\ ~Runs(g)' /\ ~InRing(g)')
      BY <1>1, <1>2, <1>3, <2>1, <2>3, <3>4
    <3> QED
      BY <1>2, <1>3, <2>1, <3>1, <3>5, <3>6, <3>7, <3>8 DEF PlaceInv
  <2> QED
    BY <2>4, <2>5
<1>13. ASSUME NEW c \in Clients, MutexWakes(c) PROVE PlaceInv'
  <2>0. PICK h \in Fibers : h = popped[c]
    BY <1>13, SentByWake
  <2>1. popped[c] = h /\ \A d \in Clients : popped'[d] = IF d = c THEN None ELSE popped[d]
    BY <1>13, <2>0, SentByWake
  <2>2. /\ UNCHANGED <<running, waiters>> /\ Runs(c) /\ pc[c] = "wake"
        /\ \A d \in Clients : pc'[d] = IF d = c THEN "out" ELSE pc[d]
    BY <1>1, <1>13 DEF MutexWakes, GoTo
  <2>3. /\ Sent(h) /\ Awaited(h) /\ h # c /\ h \notin Items(mbox[Home[h]]) /\ h \notin Items(waiters)
        /\ \A d \in Clients : d # c => popped[d] # h
    BY <1>1, <1>2, <2>1, <2>2 DEF Awaited, Sent
  <2>4. c \in Fibers => ~Awaited(c)
    BY <1>4, <2>2
  <2>5. \A b, d \in Clients : popped'[b] = popped'[d] /\ popped'[b] # None => b = d
    BY <1>2, <2>1
  <2>6. CASE SameThread(c, h)
    <3>1. MakeReady(h) /\ UNCHANGED mbox
      BY <1>13, <2>1, <2>6, SentByWake
    <3>2. \A g \in Fibers : (Runs(g)' <=> Runs(g)) /\ (InRing(g)' <=> InRing(g) \/ g = h)
      BY <1>1, <2>1, <2>2, <3>1, ReadyStep
    <3>3. ~Runs(h)
      BY <2>1, <2>2, <2>3, <2>6 DEF Runs, SameThread
    <3>4. /\ ~Sent(h)'
          /\ \A g \in Fibers : g # h => (Sent(g)' <=> Sent(g))
      BY <1>1, <2>1, <2>3, <3>1 DEF Sent
    <3>5. \A g \in Fibers : Awaited(g)' => g # h /\ Awaited(g)
      BY <2>2, <2>3, <3>4 DEF Awaited
    <3>6. \A g \in Items(waiters') : ~Sent(g)'
      BY <1>2, <2>2, <2>3, <3>4
    <3>7. \A g \in Fibers : ~(Runs(g)' /\ InRing(g)')
      BY <1>2, <3>2, <3>3
    <3>8. \A d \in Clients : popped'[d] # None => popped'[d] \notin Items(mbox'[Home[popped'[d]]])
      BY <1>2, <2>1, <3>1
    <3>9. \A g \in Fibers :
            Awaited(g)' => pc'[g] = "queue" \/ (pc'[g] = "queued" /\ ~Runs(g)' /\ ~InRing(g)')
      BY <1>1, <1>2, <2>2, <2>4, <3>2, <3>5
    <3> QED
      BY <1>2, <2>2, <2>5, <3>1, <3>6, <3>7, <3>8, <3>9 DEF PlaceInv
  <2>7. CASE ~SameThread(c, h)
    <3>1. /\ UNCHANGED ready
          /\ \A t \in Threads :
               /\ Items(mbox'[t]) = IF t = Home[h] THEN Items(mbox[t]) \cup {h} ELSE Items(mbox[t])
               /\ NoTwice(mbox[t]) /\ h \notin Items(mbox[t]) => NoTwice(mbox'[t])
               /\ t # Home[h] => mbox'[t] = mbox[t]
      BY <1>13, <2>1, <2>7, SentByWake
    <3>2. \A t \in Threads : NoTwice(mbox'[t]) /\ \A f \in Items(mbox'[t]) : t = Home[f]
      BY <1>2, <2>3, <3>1
    <3>3. \A g \in Fibers : Sent(g)' <=> Sent(g)
      <4> SUFFICES ASSUME NEW g \in Fibers PROVE Sent(g)' <=> Sent(g)
        OBVIOUS
      <4>1. CASE g = h
        BY <1>1, <2>1, <2>3, <3>1, <4>1 DEF Sent
      <4>2. CASE g # h
        <5>1. (g \in Items(mbox'[Home[g]])) <=> (g \in Items(mbox[Home[g]]))
          BY <1>1, <3>1, <4>2
        <5>2. \A d \in Clients : popped'[d] = g <=> popped[d] = g
          BY <1>1, <2>1, <4>2
        <5> QED
          BY <5>1, <5>2 DEF Sent
      <4> QED
        BY <4>1, <4>2
    <3>4. \A g \in Fibers : Awaited(g)' <=> Awaited(g)
      BY <2>2, <3>3 DEF Awaited
    <3>5. \A g \in Items(waiters') : ~Sent(g)'
      BY <1>2, <2>2, <3>3
    <3>6. \A d \in Clients : popped'[d] # None => popped'[d] \notin Items(mbox'[Home[popped'[d]]])
      <4> SUFFICES ASSUME NEW d \in Clients, popped'[d] # None
                   PROVE  popped'[d] \notin Items(mbox'[Home[popped'[d]]])
        OBVIOUS
      <4>1. d # c /\ popped'[d] = popped[d] /\ popped[d] # h /\ popped[d] \in Fibers
        BY <1>1, <2>1, <2>3
      <4>2. popped[d] \notin Items(mbox[Home[popped[d]]]) /\ Home[popped[d]] \in Threads
        BY <1>1, <1>2, <4>1
      <4>3. popped[d] \notin Items(mbox'[Home[popped[d]]])
        BY <3>1, <4>1, <4>2
      <4> QED
        BY <4>1, <4>3
    <3>7. \A g \in Fibers :
            Awaited(g)' => pc'[g] = "queue" \/ (pc'[g] = "queued" /\ ~Runs(g)' /\ ~InRing(g)')
      BY <1>1, <1>2, <1>3, <2>2, <2>4, <3>1, <3>4
    <3> QED
      BY <1>2, <1>3, <2>2, <2>5, <3>1, <3>2, <3>5, <3>6, <3>7 DEF PlaceInv
  <2> QED
    BY <2>6, <2>7
<1>14. ASSUME NEW t \in Threads, MutexResumes(t) PROVE PlaceInv'
  <2>1. /\ UNCHANGED <<mbox, waiters, popped, pc>>
        /\ \A g \in Fibers :
             /\ Runs(g)' => Runs(g) \/ InRing(g)
             /\ InRing(g)' => InRing(g)
             /\ ~(Runs(g) /\ InRing(g)) => ~(Runs(g)' /\ InRing(g)')
    BY <1>1, <1>14, ResumeStep DEF MutexResumes
  <2>2. \A g \in Items(waiters') : ~Sent(g)'
    BY <1>2, <1>3, <2>1
  <2>3. \A g \in Fibers :
          Awaited(g)' => pc'[g] = "queue" \/ (pc'[g] = "queued" /\ ~Runs(g)' /\ ~InRing(g)')
    BY <1>2, <1>3, <2>1
  <2> QED
    BY <1>2, <2>1, <2>2, <2>3 DEF PlaceInv
<1>15. ASSUME NEW t \in Threads, MutexDelivers(t) PROVE PlaceInv'
  <2>0. PICK h \in Fibers : h = Head(mbox[t])
    BY <1>15, SentByDelivery
  <2>1. /\ h \in Fibers /\ h \in Items(mbox[t])
        /\ Items(mbox[t]) = Items(mbox'[t]) \cup {h}
        /\ NoTwice(mbox'[t]) /\ h \notin Items(mbox'[t])
        /\ \A u \in Threads : u # t => mbox'[u] = mbox[u]
    BY <1>2, <1>15, <2>0, SentByDelivery
  <2>2. MakeReady(h) /\ UNCHANGED <<running, waiters, popped, pc>> /\ running[t] = None
    BY <1>15, <2>0 DEF MutexDelivers
  <2>3. \A g \in Fibers : (Runs(g)' <=> Runs(g)) /\ (InRing(g)' <=> InRing(g) \/ g = h)
    BY <1>1, <2>1, <2>2, ReadyStep
  <2>4. Home[h] = t /\ Sent(h) /\ ~Runs(h)
    BY <1>1, <1>2, <2>1, <2>2 DEF Sent, Runs
  <2>5. ~Awaited(h)'
    BY <1>1, <1>2, <2>1, <2>2, <2>4 DEF Awaited, Sent
  <2>6. \A g \in Fibers : Sent(g)' => Sent(g)
    <3> SUFFICES ASSUME NEW g \in Fibers, Sent(g)' PROVE Sent(g)
      OBVIOUS
    <3>1. g \in Items(mbox'[Home[g]]) => g \in Items(mbox[Home[g]])
      BY <1>1, <2>1
    <3> QED
      BY <2>2, <3>1 DEF Sent
  <2>7. \A g \in Fibers : Awaited(g)' => Awaited(g) /\ g # h
    BY <2>2, <2>5, <2>6 DEF Awaited
  <2>8. \A u \in Threads : NoTwice(mbox'[u]) /\ \A f \in Items(mbox'[u]) : u = Home[f]
    BY <1>2, <2>1
  <2>9. \A g \in Items(waiters') : ~Sent(g)'
    BY <1>2, <2>2, <2>6
  <2>10. \A d \in Clients : popped'[d] # None => popped'[d] \notin Items(mbox'[Home[popped'[d]]])
    <3> SUFFICES ASSUME NEW d \in Clients, popped[d] # None
                 PROVE  popped[d] \notin Items(mbox'[Home[popped[d]]])
      BY <2>2
    <3>1. popped[d] \in Fibers /\ Home[popped[d]] \in Threads
      BY <1>1
    <3> QED
      BY <1>2, <2>1, <3>1
  <2>11. \A g \in Fibers :
           Awaited(g)' => pc'[g] = "queue" \/ (pc'[g] = "queued" /\ ~Runs(g)' /\ ~InRing(g)')
    BY <1>2, <2>2, <2>3, <2>7
  <2>12. \A g \in Fibers : ~(Runs(g)' /\ InRing(g)')
    BY <1>2, <2>3, <2>4
  <2> QED
    BY <1>2, <2>2, <2>8, <2>9, <2>10, <2>11, <2>12 DEF PlaceInv
<1>16. CASE MutexRests
  <2>1. /\ UNCHANGED <<mbox, popped, waiters, pc>>
        /\ \A f \in Fibers : /\ Runs(f)' <=> Runs(f)
                             /\ InRing(f)' <=> InRing(f)
                             /\ Awaited(f)' <=> Awaited(f)
                             /\ Sent(f)' <=> Sent(f)
    BY <1>3, <1>16 DEF MutexRests
  <2> QED
    BY <1>2, <2>1 DEF PlaceInv
<1> QED
  BY <1>6, <1>7, <1>8, <1>9, <1>10, <1>11, <1>12, <1>13, <1>14, <1>15, <1>16 DEF MutexMove

\* Somebody tries soon: unlock pops a waiter before it gives the mutex back, and
\* nobody joins the array in between.
LEMMA MutexOnce ==
  ASSUME MutexTypes, HolderInv, PlaceInv, OnceInv, MutexMove
  PROVE  OnceInv'
<1> DEFINE Busy == {"again", "append", "queue", "queued", "delay"}
           Seeks == \/ \E f \in Fibers : pc[f] \in Busy /\ f \notin Items(waiters)
                    \/ \E s \in Solos : pc[s] = "blocked"
<1>1. /\ \A f \in Fibers : f \in Clients /\ f # None
      /\ \A s \in Solos : s \in Clients /\ s \notin Fibers
      /\ None \notin Clients
      /\ pc \in [Clients -> Mutex!PCs] /\ popped \in [Clients -> Fibers \cup {None}]
      /\ waiters \in Seq(Fibers)
  BY ThreadsAssumption DEF Clients, MutexTypes
<1>2. /\ \A c \in Clients : pc[c] = "popped" /\ popped[c] = None => waiters = <<>>
      /\ threadLock = None /\ waiters # <<>> => Seeks
  BY DEF OnceInv
<1>3. /\ \A c \in Clients : threadLock = c <=> pc[c] \in {"in", "popped"}
      /\ \A c \in Clients : lock = c <=> pc[c] = "popped"
  BY DEF HolderInv
<1>4. ASSUME UNCHANGED <<threadLock, waiters, popped>>, NEW c \in Clients,
             \A d \in Clients : d # c => pc'[d] = pc[d], pc'[c] # "popped",
             c \in Fibers /\ pc[c] \in Busy => pc'[c] \in Busy,
             c \in Solos => pc[c] # "blocked"
      PROVE  OnceInv'
  <2>1. \A d \in Clients : pc'[d] = "popped" => pc[d] = "popped"
    BY <1>4
  <2>2. Seeks => Seeks'
    BY <1>1, <1>4
  <2> QED
    BY <1>2, <1>4, <2>1, <2>2 DEF OnceInv
<1>5. ASSUME UNCHANGED <<threadLock, waiters, popped, pc>> PROVE OnceInv'
  BY <1>5 DEF OnceInv
<1>6. ASSUME NEW c \in Clients, MutexTakes(c) PROVE OnceInv'
  <2>1. /\ threadLock' = c /\ UNCHANGED <<waiters, popped>>
        /\ \A d \in Clients : pc'[d] = "popped" => pc[d] = "popped"
    BY <1>1, <1>6 DEF MutexTakes, GoTo
  <2> QED
    BY <1>1, <1>2, <2>1 DEF OnceInv
<1>7. ASSUME NEW f \in Fibers, MutexEnqueues(f) PROVE OnceInv'
  <2>1. /\ threadLock' # None /\ UNCHANGED popped /\ lock = None
        /\ \A d \in Clients : pc'[d] = "popped" => pc[d] = "popped"
    BY <1>1, <1>7 DEF MutexEnqueues, GoTo
  <2> QED
    BY <1>1, <1>3, <2>1 DEF OnceInv
<1>8. ASSUME NEW c \in Clients, NEW label \in Mutex!PCs, MutexMoves(c, label)
      PROVE  OnceInv'
  BY <1>1, <1>4, <1>8 DEF MutexMoves, GoTo
<1>9. ASSUME NEW f \in Fibers, NEW label \in Mutex!PCs, MutexSwitches(f, label)
      PROVE  OnceInv'
  BY <1>1, <1>4, <1>9 DEF MutexSwitches, GoTo
<1>10. ASSUME NEW c \in Clients, MutexPops(c) PROVE OnceInv'
  <2>1. threadLock' = c
    BY <1>3, <1>10 DEF MutexPops
  <2>2. /\ \A d \in Clients : d # c => popped'[d] = popped[d] /\ pc'[d] = pc[d]
        /\ waiters = <<>> => waiters' = waiters
        /\ waiters # <<>> => popped'[c] \in Fibers
    BY <1>1, <1>10, SentByPop DEF MutexPops, GoTo
  <2>3. \A d \in Clients : d # c => pc'[d] # "popped"
    BY <1>1, <1>3, <1>10, <2>2 DEF MutexPops
  <2> QED
    BY <1>1, <2>1, <2>2, <2>3 DEF OnceInv
<1>11. ASSUME NEW c \in Clients, MutexReleases(c) PROVE OnceInv'
  <2>1. /\ UNCHANGED <<waiters, popped, mbox>> /\ pc[c] = "popped"
        /\ \A d \in Clients : d # c => pc'[d] = pc[d]
        /\ pc'[c] # "popped"
    BY <1>1, <1>11 DEF MutexReleases, GoTo
  <2>2. ASSUME waiters # <<>> PROVE Seeks'
    <3> DEFINE h == popped[c]
    <3>1. h \in Fibers
      BY <1>1, <1>2, <2>1, <2>2
    <3>2. Sent(h) /\ Awaited(h)
      BY DEF Sent, Awaited
    <3>3. pc[h] \in {"queue", "queued"} /\ h \notin Items(waiters)
      BY <3>1, <3>2 DEF PlaceInv
    <3>4. pc'[h] \in Busy /\ h \notin Items(waiters')
      BY <1>1, <2>1, <3>1, <3>3
    <3> QED
      BY <3>1, <3>4
  <2> QED
    BY <1>2, <2>1, <2>2 DEF OnceInv
<1>12. ASSUME NEW c \in Clients, MutexWakes(c) PROVE OnceInv'
  <2>1. /\ UNCHANGED <<waiters, threadLock>> /\ pc[c] = "wake"
        /\ \A d \in Clients : pc'[d] = IF d = c THEN "out" ELSE pc[d]
        /\ \A d \in Clients : d # c => popped'[d] = popped[d]
    BY <1>1, <1>12 DEF MutexWakes, GoTo
  <2>2. Seeks => Seeks'
    BY <1>1, <2>1
  <2> QED
    BY <1>2, <2>1, <2>2 DEF OnceInv
<1>13. ASSUME NEW f \in Fibers, MutexReadies(f) PROVE OnceInv'
  BY <1>5, <1>13 DEF MutexReadies
<1>14. ASSUME NEW t \in Threads, MutexResumes(t) \/ MutexDelivers(t) PROVE OnceInv'
  BY <1>5, <1>14 DEF MutexResumes, MutexDelivers
<1>15. CASE MutexRests
  BY <1>5, <1>15 DEF MutexRests
<1> QED
  BY <1>6, <1>7, <1>8, <1>9, <1>10, <1>11, <1>12, <1>13, <1>14, <1>15 DEF MutexMove

\* A step of the mutex keeps its invariant.
LEMMA MutexKeeps ==
  ASSUME MutexInv, Mutex!Next, UNCHANGED object
  PROVE  MutexInv'
<1>1. MutexTypes /\ HolderInv /\ WokenInv /\ Mutex!TypeOK
  BY DEF MutexInv
<1>2. MutexMove
  BY <1>1, MutexMoved DEF MutexTypes
<1>3. MutexTypes' /\ HolderInv' /\ WokenInv'
  BY <1>1, <1>2, MutexMoveTypes, MutexHolders, MutexWoken
<1>4. Mutex!TypeOK'
  BY <1>1, <1>3, MutexOtherTypes
<1>5. object # "killed mutex" => PlaceInv'
  BY <1>1, <1>2, MutexPlaces DEF MutexInv
<1>6. object = "once mutex" => OnceInv'
  BY <1>1, <1>2, MutexOnce DEF MutexInv
<1> QED
  BY <1>3, <1>4, <1>5, <1>6 DEF MutexInv

\* What the runs check of the mutex.
LEMMA MutexSafe ==
  ASSUME MutexInv
  PROVE  /\ Mutex!TypeOK /\ Mutex!NobodyIsForgotten
         /\ object # "killed mutex" => Mutex!WakeupsAreForWaiters
         /\ object = "once mutex" => Mutex!NoLostWakeup
<1>1. /\ \A f \in Fibers : f \in Clients /\ Home[f] \in Threads
      /\ MutexTypes /\ HolderInv /\ WokenInv /\ waiters \in Seq(Fibers)
      /\ mbox \in [Threads -> Seq(Fibers)] /\ SchedInv
  BY ThreadsAssumption DEF MutexInv, MutexTypes, Clients
<1>2. \A q \in Seq(Fibers) : Mutex!Elements(q) = Items(q)
  <2> TAKE q \in Seq(Fibers)
  <2>1. Mutex!Elements(q) = Elements(q)
    BY DEF Mutex!Elements, Elements
  <2> QED
    BY <2>1, ElementsAreItems
<1>3. \A f \in Fibers : Sent(f) => Mutex!WakeupInFlight(f)
  BY <1>1, <1>2, MutexUses DEF Mutex!WakeupInFlight, Sent
<1>4. \A f \in Fibers : ~Suspended(f) => Mutex!WakeupInFlight(f)
  BY MutexUses DEF Mutex!WakeupInFlight
<1>5. ASSUME NEW f \in Fibers, pc[f] \in {"queue", "queued"}, f \notin Items(waiters)
      PROVE  Mutex!WakeupInFlight(f)
  BY <1>1, <1>3, <1>4, <1>5, SuspendedMeans DEF WokenInv
<1>6. Mutex!NobodyIsForgotten
  BY <1>1, <1>2, <1>5 DEF Mutex!NobodyIsForgotten
<1>7. ASSUME PlaceInv PROVE Mutex!WakeupsAreForWaiters
  <2> SUFFICES ASSUME NEW f \in Fibers,
                      \/ f \in UNION {Mutex!Elements(mbox[t]) : t \in Threads}
                      \/ f \in {popped[c] : c \in Mutex!Clients}
               PROVE  pc[f] \in {"queue", "queued"}
    BY DEF Mutex!WakeupsAreForWaiters
  <2>0. \A g \in Fibers : Awaited(g) => pc[g] \in {"queue", "queued"}
    BY <1>7 DEF PlaceInv
  <2>1. CASE f \in {popped[c] : c \in Mutex!Clients}
    <3>1. PICK c \in Clients : popped[c] = f
      BY <2>1, MutexUses
    <3>2. Awaited(f)
      BY <3>1 DEF Awaited, Sent
    <3> QED
      BY <2>0, <3>2
  <2>2. CASE f \in UNION {Mutex!Elements(mbox[t]) : t \in Threads}
    <3>1. PICK t \in Threads : f \in Mutex!Elements(mbox[t])
      BY <2>2
    <3>2. mbox[t] \in Seq(Fibers) /\ f \in Items(mbox[t])
      BY <1>1, <1>2, <3>1
    <3>3. t = Home[f]
      BY <1>7, <3>2 DEF PlaceInv
    <3> QED
      BY <2>0, <3>2, <3>3 DEF Awaited, Sent
  <2> QED
    BY <2>1, <2>2
<1>8. ASSUME OnceInv PROVE Mutex!NoLostWakeup
  <2> SUFFICES ASSUME threadLock = None, waiters # <<>>,
                      ~\E s \in Solos : pc[s] = "blocked"
               PROVE  \E f \in Fibers : /\ Mutex!InLock(f) /\ f \notin Mutex!Elements(waiters)
                                        /\ Mutex!WakeupInFlight(f)
    BY DEF Mutex!NoLostWakeup
  <2>1. PICK f \in Fibers :
          /\ pc[f] \in {"again", "append", "queue", "queued", "delay"}
          /\ f \notin Items(waiters)
    BY <1>8 DEF OnceInv
  <2>2. Mutex!InLock(f) /\ f \notin Mutex!Elements(waiters)
    BY <1>1, <1>2, <2>1 DEF Mutex!InLock
  <2>3. Mutex!WakeupInFlight(f)
    <3>1. CASE pc[f] \in {"queue", "queued"}
      BY <1>5, <2>1, <3>1
    <3>2. CASE pc[f] \in {"again", "append"}
      <4>1. Runs(f)
        BY <1>1, <3>2 DEF HolderInv
      <4> QED
        BY <1>1, <1>4, <4>1, SuspendedMeans
    <3>3. CASE pc[f] = "delay"
      BY <3>3 DEF Mutex!WakeupInFlight
    <3> QED
      BY <2>1, <3>1, <3>2, <3>3
  <2> QED
    BY <2>2, <2>3
<1> QED
  BY <1>6, <1>7, <1>8 DEF MutexInv

-------------------------------------------------------------------------------
(* The fiber_tbox with its fiber_cond: its steps, as far as the proofs look at  *)
(* them.                                                                        *)

\* A client goes from one label to the next one, and from one job to another.
BoxGoes(c, label, work) ==
  GoTo(c, label) /\ job' = [job EXCEPT ![c] = work] /\ UNCHANGED hasty

\* What a step leaves alone that neither waits nor wakes anybody.
BoxQuiet == UNCHANGED <<mbox, waiters, timed, timers, event, popped>>

BoxMoves(c, label, work) ==
  /\ Runs(c) /\ BoxGoes(c, label, work)
  /\ UNCHANGED <<running, ready>> /\ BoxQuiet
  /\ \/ /\ owner = None /\ owner' = c
        /\ \/ pc[c] \in {"out", "locking"} /\ label = "in" /\ work = job[c]
           \/ /\ pc[c] = "relock" /\ label = IF c \in Fibers THEN "delete" ELSE "in"
              /\ work = job[c]
           \/ pc[c] = "expired" /\ label = "in"
     \/ pc[c] = "in" /\ owner' = None /\ label = "out"
     \/ /\ pc[c] = "unlock" /\ owner' = None /\ work = job[c]
        /\ label = IF c \in Fibers THEN "switch" ELSE "asleep"
     \/ pc[c] \in {"in", "out"} /\ UNCHANGED owner /\ label = pc[c]
     \/ /\ pc[c] = "asleep" /\ UNCHANGED owner /\ work = job[c]
        /\ \/ c \in Fibers /\ label = "relock"
           \/ c \in Solos /\ c \in event /\ label = "relock"
           \/ c \in Solos /\ c \notin event /\ label = "late"

BoxSwitches(f, label) ==
  /\ Runs(f) /\ SwitchAway(f) /\ BoxGoes(f, label, job[f])
  /\ \/ pc[f] \in {"out", "locking"} /\ label = "locking"
     \/ pc[f] \in {"out", "relock"} /\ label = pc[f]
     \/ pc[f] = "switch" /\ label = "asleep"
  /\ UNCHANGED <<ready, owner>> /\ BoxQuiet

BoxReadies(f) ==
  /\ Suspended(f) /\ pc[f] \in {"out", "locking", "relock"}
  /\ MakeReady(f)
  /\ UNCHANGED <<running, pc, owner, job, hasty>> /\ BoxQuiet

BoxEnlists(c) ==
  /\ Runs(c) /\ pc[c] = "in" /\ job[c] = "pop"
  /\ BoxGoes(c, "unlock", job[c])
  /\ waiters' = Append(waiters, c)
  /\ timed' = IF c \in hasty THEN timed \cup {c} ELSE timed \ {c}
  /\ timers' = IF c \in hasty /\ c \in Fibers THEN timers \cup {c} ELSE timers
  /\ event' = event \ {c}
  /\ UNCHANGED <<running, ready, mbox, owner, popped>>

BoxPops(c, work) ==
  /\ Runs(c) /\ pc[c] \in {"in", "out"} /\ job[c] \in {"notify", "announce"}
  /\ waiters # <<>>
  /\ BoxGoes(c, "wake", work)
  /\ popped' = [popped EXCEPT
       ![c] = [of |-> Head(waiters), timed |-> Head(waiters) \in timed]]
  /\ waiters' = PopFront(waiters)
  /\ UNCHANGED <<running, ready, mbox, owner, timed, timers, event>>

BoxDeletes(f, work) ==
  /\ f \in Fibers /\ Runs(f) /\ pc[f] = "delete"
  /\ BoxGoes(f, "in", work)
  /\ waiters' = DeleteObj(waiters, f)
  /\ UNCHANGED <<running, ready, mbox, owner, timed, timers, event, popped>>

BoxGivesUp(s) ==
  /\ s \in Solos /\ pc[s] = "late"
  /\ BoxGoes(s, "expired", job[s])
  /\ waiters' = DeleteObj(waiters, s)
  /\ popped' = [d \in Clients |->
       IF popped[d] # None /\ popped[d].of = s THEN None ELSE popped[d]]
  /\ UNCHANGED <<running, ready, mbox, owner, timed, timers, event>>

\* wakeup_waiter for fiber f.
BoxRouses(f, delayed) ==
  IF delayed => f \in timers
  THEN MakeReady(f) /\ timers' = timers \ {f}
  ELSE UNCHANGED <<ready, timers>>

BoxWakes(c, label) ==
  /\ Runs(c) /\ pc[c] = "wake" /\ BoxGoes(c, label, job[c])
  /\ label = IF owner = c THEN "in" ELSE "out"
  /\ popped' = [popped EXCEPT ![c] = None]
  /\ UNCHANGED <<running, owner, waiters, timed>>

BoxWakesNobody(c, label) ==
  /\ BoxWakes(c, label) /\ popped[c] = None
  /\ UNCHANGED <<ready, mbox, timers, event>>
BoxWakesSolo(c, label) ==
  /\ BoxWakes(c, label) /\ popped[c] # None /\ popped[c].of \in Solos
  /\ event' = event \cup {popped[c].of}
  /\ UNCHANGED <<ready, mbox, timers>>
BoxWakesFiber(c, label) ==
  /\ BoxWakes(c, label)
  /\ popped[c] # None /\ popped[c].of \notin Solos /\ SameThread(c, popped[c].of)
  /\ BoxRouses(popped[c].of, popped[c].timed)
  /\ UNCHANGED <<mbox, event>>
BoxSends(c, label) ==
  /\ BoxWakes(c, label)
  /\ popped[c] # None /\ popped[c].of \notin Solos /\ ~SameThread(c, popped[c].of)
  /\ mbox' = [mbox EXCEPT ![Home[popped[c].of]] = Append(@, popped[c])]
  /\ UNCHANGED <<ready, timers, event>>

BoxDelivers(t) ==
  /\ running[t] = None /\ mbox[t] # <<>>
  /\ BoxRouses(Head(mbox[t]).of, Head(mbox[t]).timed)
  /\ mbox' = [mbox EXCEPT ![t] = Tail(@)]
  /\ UNCHANGED <<running, owner, waiters, timed, event, popped, pc, job, hasty>>

BoxResumes(t) ==
  ResumeOn(t) /\ UNCHANGED <<owner, pc, job, hasty>> /\ BoxQuiet

\* A timer fires, or another fiber kills one that sleeps.
BoxRaises(f) ==
  /\ (f \in timers /\ running[Home[f]] = None) \/ Suspended(f)
  /\ MakeReady(f) /\ timers' = timers \ {f}
  /\ UNCHANGED <<running, mbox, owner, waiters, timed, event, popped, pc, job, hasty>>

BoxRests == UNCHANGED <<running, ready, owner, pc, job, hasty>> /\ BoxQuiet

BoxMove ==
  \/ \E c \in Clients, label \in TBox!PCs, work \in TBox!Jobs :
       \/ BoxMoves(c, label, work) \/ BoxPops(c, work) \/ BoxDeletes(c, work)
  \/ \E c \in Clients, label \in TBox!PCs :
       \/ BoxWakesNobody(c, label) \/ BoxWakesSolo(c, label)
       \/ BoxWakesFiber(c, label) \/ BoxSends(c, label)
  \/ \E c \in Clients : BoxEnlists(c) \/ BoxGivesUp(c)
  \/ \E f \in Fibers : BoxReadies(f) \/ BoxRaises(f)
  \/ \E f \in Fibers, label \in TBox!PCs : BoxSwitches(f, label)
  \/ \E t \in Threads : BoxDelivers(t) \/ BoxResumes(t)
  \/ BoxRests

\* FiberTBox uses the operators of FiberThreads.
LEMMA BoxUses ==
  /\ TBox!Clients = Clients
  /\ \A c, label : TBox!At(c, label) <=> Runs(c) /\ pc[c] = label
  /\ \A c, label : TBox!GoTo(c, label) <=> GoTo(c, label)
  /\ \A f : TBox!Suspended(f) <=> Suspended(f)
  /\ \A c, f : TBox!SameThread(c, f) <=> SameThread(c, f)
  /\ \A f : TBox!MakeReady(f) <=> MakeReady(f)
  /\ \A f : TBox!SwitchAway(f) <=> SwitchAway(f)
  /\ \A t : TBox!ResumeOn(t) <=> ResumeOn(t)
  /\ \A q : TBox!PopFront(q) = PopFront(q) /\ TBox!Elements(q) = Elements(q)
  /\ \A q, c : TBox!DeleteObj(q, c) = DeleteObj(q, c)
<1>1. TBox!Clients = Clients
  BY DEF TBox!Clients, Clients
<1>2. \A c, label : TBox!At(c, label) <=> Runs(c) /\ pc[c] = label
  BY DEF TBox!At, TBox!Runs, Runs
<1>3. \A c, label : TBox!GoTo(c, label) <=> GoTo(c, label)
  BY DEF TBox!GoTo, GoTo
<1>4. \A f : TBox!Suspended(f) <=> Suspended(f)
  BY DEF TBox!Suspended, Suspended, TBox!Runs, Runs, TBox!Elements, Elements
<1>5. \A c, f : TBox!SameThread(c, f) <=> SameThread(c, f)
  BY DEF TBox!SameThread, SameThread
<1>6. \A q, f : TBox!Detach(q, f) = Detach(q, f)
  BY DEF TBox!Detach, Detach, TBox!Elements, Elements, TBox!RemoveAt, RemoveAt,
         TBox!Position, Position
<1>7. \A f : TBox!MakeReady(f) <=> MakeReady(f)
  BY <1>6 DEF TBox!MakeReady, MakeReady
<1>8. \A f : TBox!SwitchAway(f) <=> SwitchAway(f)
  BY DEF TBox!SwitchAway, SwitchAway
<1>9. \A t : TBox!ResumeOn(t) <=> ResumeOn(t)
  BY DEF TBox!ResumeOn, ResumeOn
<1>10. \A q, i : TBox!DeleteAt(q, i) = DeleteAt(q, i)
  BY DEF TBox!DeleteAt, DeleteAt, TBox!Front, Front, TBox!Last, Last
<1>11. \A q : TBox!PopFront(q) = PopFront(q)
  BY <1>10 DEF TBox!PopFront, PopFront
<1>12. \A q, c : TBox!DeleteObj(q, c) = DeleteObj(q, c)
  BY <1>10 DEF TBox!DeleteObj, DeleteObj, TBox!Elements, Elements, TBox!Position, Position
<1>13. \A q : TBox!Elements(q) = Elements(q)
  BY DEF TBox!Elements, Elements
<1> QED
  BY <1>1, <1>2, <1>3, <1>4, <1>5, <1>7, <1>8, <1>9, <1>11, <1>12, <1>13

LEMMA BoxMoved ==
  ASSUME pc \in [Clients -> TBox!PCs], job \in [Clients -> TBox!Jobs], TBox!Next
  PROVE  BoxMove
<1> USE BoxUses DEF TBox!schedVars, TBox!condVars, TBox!waitVars, TBox!boxVars
<1>1. /\ \A f \in Fibers : f \in Clients
      /\ \A s \in Solos : s \in Clients /\ s \notin Fibers /\ Runs(s)
      /\ \A c \in Users : c \in Clients
      /\ \A c \in Clients : pc[c] \in TBox!PCs /\ job[c] \in TBox!Jobs
      /\ \A c, work : TBox!Do(c, work) <=> job' = [job EXCEPT ![c] = work]
      /\ UNCHANGED job => \A c : job' = [job EXCEPT ![c] = job[c]]
      /\ UNCHANGED pc => \A c : pc' = [pc EXCEPT ![c] = pc[c]]
  <2>1. /\ \A f \in Fibers : f \in Clients
        /\ \A s \in Solos : s \in Clients /\ s \notin Fibers /\ Runs(s)
        /\ \A c \in Users : c \in Clients
    BY ThreadsAssumption, SharedAssumption DEF Clients, Runs
  <2>2. \A c, work : TBox!Do(c, work) <=> job' = [job EXCEPT ![c] = work]
    BY DEF TBox!Do
  <2>3. /\ \A c \in Clients : pc[c] \in TBox!PCs /\ job[c] \in TBox!Jobs
        /\ UNCHANGED job => \A c : job' = [job EXCEPT ![c] = job[c]]
        /\ UNCHANGED pc => \A c : pc' = [pc EXCEPT ![c] = pc[c]]
    OBVIOUS
  <2> QED
    BY <2>1, <2>2, <2>3
<1>2. {"out", "locking", "in", "unlock", "switch", "asleep", "late", "expired", "relock",
       "delete", "wake"} = TBox!PCs
      /\ {"none", "push", "notify", "release", "announce", "pop", "leave"} = TBox!Jobs
  BY DEF TBox!PCs, TBox!Jobs
<1>3. ASSUME NEW c \in Clients, NEW label \in TBox!PCs, NEW work \in TBox!Jobs,
             BoxMoves(c, label, work)
      PROVE  BoxMove
  BY <1>3 DEF BoxMove
<1>4. ASSUME NEW f \in Fibers, NEW label \in TBox!PCs, BoxSwitches(f, label) PROVE BoxMove
  BY <1>4 DEF BoxMove
<1>5. ASSUME NEW c \in Clients, TBox!Start(c) PROVE BoxMove
  <2>1. PICK work \in TBox!Jobs : job' = [job EXCEPT ![c] = work]
    BY <1>1, <1>2, <1>5 DEF TBox!Start
  <2>2. BoxMoves(c, pc[c], work)
    BY <1>1, <1>5, <2>1 DEF TBox!Start, TBox!In, BoxMoves, BoxGoes, GoTo, BoxQuiet
  <2> QED
    BY <1>1, <1>3, <2>2
<1>6. ASSUME NEW c \in Clients, TBox!LockBox(c) PROVE BoxMove
  <2>1. CASE TBox!Acquire(c, "in")
    <3>1. BoxMoves(c, "in", job[c])
      BY <1>1, <1>6, <2>1
         DEF TBox!LockBox, TBox!Lock, TBox!Acquire, BoxMoves, BoxGoes, BoxQuiet
    <3> QED
      BY <1>1, <1>2, <1>3, <3>1
  <2>2. CASE ~TBox!Acquire(c, "in")
    <3>1. c \in Fibers /\ BoxSwitches(c, "locking")
      BY <1>1, <1>6, <2>2
         DEF TBox!LockBox, TBox!Lock, TBox!Block, BoxSwitches, BoxGoes, BoxQuiet
    <3> QED
      BY <1>2, <1>4, <3>1
  <2> QED
    BY <2>1, <2>2
<1>7. ASSUME NEW c \in Clients, TBox!PushBack(c) PROVE BoxMove
  <2>1. PICK work \in TBox!Jobs : job' = [job EXCEPT ![c] = work]
    BY <1>1, <1>2, <1>7 DEF TBox!PushBack
  <2>2. BoxMoves(c, pc[c], work)
    BY <1>1, <1>7, <2>1 DEF TBox!PushBack, TBox!In, BoxMoves, BoxGoes, GoTo, BoxQuiet
  <2> QED
    BY <1>1, <1>3, <2>2
<1>8. ASSUME NEW c \in Clients, TBox!Release(c) PROVE BoxMove
  <2>1. BoxMoves(c, "out", "announce")
    BY <1>1, <1>8 DEF TBox!Release, TBox!Unlock, TBox!In, BoxMoves, BoxGoes, BoxQuiet
  <2> QED
    BY <1>1, <1>2, <1>3, <2>1
<1>9. ASSUME NEW c \in Clients, TBox!Notify(c) PROVE BoxMove
  <2>1. PICK work \in TBox!Jobs : job' = [job EXCEPT ![c] = work]
    BY <1>1, <1>2, <1>9 DEF TBox!Notify
  <2>2. CASE waiters = <<>>
    <3>1. BoxMoves(c, pc[c], work)
      BY <1>1, <1>9, <2>1, <2>2 DEF TBox!Notify, TBox!In, BoxMoves, BoxGoes, GoTo, BoxQuiet
    <3> QED
      BY <1>1, <1>3, <3>1
  <2>3. CASE waiters # <<>>
    <3>1. TBox!Pop(c) /\ UNCHANGED hasty
      BY <1>9, <2>3 DEF TBox!Notify, TBox!Announced
    <3>2. job[c] \in {"notify", "announce"}
      BY <1>9 DEF TBox!Notify, TBox!In
    <3>3. BoxPops(c, work)
      BY <2>1, <3>1, <3>2 DEF TBox!Pop, BoxPops, BoxGoes
    <3> QED
      BY <1>2, <3>3 DEF BoxMove
  <2> QED
    BY <2>2, <2>3
<1>10. ASSUME NEW c \in Clients, TBox!Found(c) PROVE BoxMove
  <2>1. BoxMoves(c, "in", "leave")
    BY <1>1, <1>10 DEF TBox!Found, TBox!In, BoxMoves, BoxGoes, GoTo, BoxQuiet
  <2> QED
    BY <1>1, <1>2, <1>3, <2>1
<1>11. ASSUME NEW c \in Clients, TBox!Wait(c) PROVE BoxMove
  <2>1. BoxEnlists(c)
    <3>1. TBox!In(c, "in", "pop") /\ TBox!Enlist(c, c \in hasty) /\ UNCHANGED <<job, hasty>>
      BY <1>11 DEF TBox!Wait
    <3> QED
      BY <1>1, <3>1 DEF TBox!In, TBox!Enlist, TBox!TimersWith, BoxEnlists, BoxGoes
  <2> QED
    BY <2>1 DEF BoxMove

<1>12. ASSUME NEW c \in Clients, TBox!Wake(c), UNCHANGED <<job, hasty>> PROVE BoxMove
  <2> DEFINE label == IF owner = c THEN "in" ELSE "out"
  <2>1. BoxWakes(c, label) /\ label \in TBox!PCs
    BY <1>1, <1>2, <1>12 DEF TBox!Wake, BoxWakes, BoxGoes
  <2> HIDE DEF label
  <2>2. CASE popped[c] = None
    <3>1. BoxWakesNobody(c, label)
      BY <1>12, <2>1, <2>2 DEF TBox!Wake, BoxWakesNobody
    <3> QED
      BY <2>1, <3>1 DEF BoxMove
  <2>3. CASE popped[c] # None /\ popped[c].of \in Solos
    <3>1. BoxWakesSolo(c, label)
      BY <1>12, <2>1, <2>3 DEF TBox!Wake, TBox!WakeSolo, BoxWakesSolo
    <3> QED
      BY <2>1, <3>1 DEF BoxMove
  <2>4. CASE popped[c] # None /\ popped[c].of \notin Solos /\ SameThread(c, popped[c].of)
    <3>1. BoxWakesFiber(c, label)
      BY <1>12, <2>1, <2>4
         DEF TBox!Wake, TBox!WakeFiber, TBox!StillAsleep, TBox!TimersAfter, BoxWakesFiber,
             BoxRouses
    <3> QED
      BY <2>1, <3>1 DEF BoxMove
  <2>5. CASE popped[c] # None /\ popped[c].of \notin Solos /\ ~SameThread(c, popped[c].of)
    <3>1. BoxSends(c, label)
      BY <1>12, <2>1, <2>5 DEF TBox!Wake, TBox!Send, BoxSends
    <3> QED
      BY <2>1, <3>1 DEF BoxMove
  <2> QED
    BY <2>2, <2>3, <2>4, <2>5
<1>13. ASSUME NEW c \in Clients, TBox!CondStep(c) PROVE BoxMove
  <2>1. UNCHANGED <<job, hasty>>
    BY <1>13 DEF TBox!CondStep
  <2>2. CASE TBox!UnlockInWait(c)
    <3>1. BoxMoves(c, IF c \in Fibers THEN "switch" ELSE "asleep", job[c])
      BY <1>1, <2>1, <2>2 DEF TBox!UnlockInWait, BoxMoves, BoxGoes, BoxQuiet
    <3> QED
      BY <1>1, <1>2, <1>3, <3>1
  <2>3. CASE TBox!Woken(c) \/ TBox!SoloWoken(c)
    <3>1. BoxMoves(c, "relock", job[c])
      BY <1>1, <2>1, <2>3 DEF TBox!Woken, TBox!SoloWoken, BoxMoves, BoxGoes, BoxQuiet
    <3> QED
      BY <1>1, <1>2, <1>3, <3>1
  <2>4. CASE TBox!SoloTimeout(c)
    <3>1. BoxMoves(c, "late", job[c])
      BY <1>1, <2>1, <2>4 DEF TBox!SoloTimeout, BoxMoves, BoxGoes, BoxQuiet
    <3> QED
      BY <1>1, <1>2, <1>3, <3>1
  <2>5. CASE TBox!SoloLeave(c)
    <3>1. BoxGivesUp(c)
      BY <1>1, <2>1, <2>5 DEF TBox!SoloLeave, TBox!Wakes, BoxGivesUp, BoxGoes
    <3> QED
      BY <3>1 DEF BoxMove
  <2> QED
    BY <1>12, <1>13, <2>1, <2>2, <2>3, <2>4, <2>5 DEF TBox!CondStep
<1>14. ASSUME NEW c \in Clients, TBox!RelockBox(c) PROVE BoxMove
  <2>1. PICK work \in TBox!Jobs :
          job' = [job EXCEPT ![c] = work] /\ (pc[c] = "relock" => work = job[c])
    BY <1>1, <1>2, <1>14 DEF TBox!RelockBox
  <2>2. TBox!Relock(c) /\ UNCHANGED hasty
    BY <1>14 DEF TBox!RelockBox
  <2>3. CASE /\ Runs(c) /\ pc[c] = "relock"
             /\ TBox!Acquire(c, IF c \in Fibers THEN "delete" ELSE "in")
    <3>1. BoxMoves(c, IF c \in Fibers THEN "delete" ELSE "in", work)
      BY <2>1, <2>2, <2>3 DEF TBox!Acquire, BoxMoves, BoxGoes, BoxQuiet
    <3> QED
      BY <1>1, <1>2, <1>3, <3>1
  <2>4. CASE Runs(c) /\ pc[c] = "expired" /\ TBox!Acquire(c, "in")
    <3>1. BoxMoves(c, "in", work)
      BY <2>1, <2>2, <2>4 DEF TBox!Acquire, BoxMoves, BoxGoes, BoxQuiet
    <3> QED
      BY <1>1, <1>2, <1>3, <3>1
  <2>5. CASE c \in Fibers /\ Runs(c) /\ pc[c] = "relock" /\ TBox!Block(c) /\ UNCHANGED pc
    <3>1. BoxSwitches(c, "relock")
      BY <1>1, <2>1, <2>2, <2>5 DEF TBox!Block, BoxSwitches, BoxGoes, GoTo, BoxQuiet
    <3> QED
      BY <1>2, <1>4, <2>5, <3>1
  <2> QED
    BY <2>2, <2>3, <2>4, <2>5 DEF TBox!Relock
<1>15. ASSUME NEW c \in Clients, TBox!ReleaseBox(c) PROVE BoxMove
  <2>1. BoxMoves(c, "out", "none")
    BY <1>1, <1>15 DEF TBox!ReleaseBox, TBox!Unlock, TBox!In, BoxMoves, BoxGoes, BoxQuiet
  <2> QED
    BY <1>1, <1>2, <1>3, <2>1
<1>16. ASSUME NEW f \in Fibers, TBox!WaitReturns(f) PROVE BoxMove
  <2>1. PICK work \in TBox!Jobs : job' = [job EXCEPT ![f] = work]
    BY <1>1, <1>2, <1>16 DEF TBox!WaitReturns
  <2>2. TBox!Leave(f) /\ UNCHANGED hasty
    BY <1>16 DEF TBox!WaitReturns
  <2>3. BoxDeletes(f, work)
    BY <1>1, <2>1, <2>2 DEF TBox!Leave, TBox!Deleted, BoxDeletes, BoxGoes
  <2> QED
    BY <1>1, <2>3 DEF BoxMove
<1>17. ASSUME NEW f \in Fibers, TBox!FiberStep(f) PROVE BoxMove
  <2>1. UNCHANGED <<job, hasty>>
    BY <1>17 DEF TBox!FiberStep
  <2>2. CASE TBox!Switch(f)
    <3>1. BoxSwitches(f, "asleep")
      BY <1>1, <2>1, <2>2 DEF TBox!Switch, BoxSwitches, BoxGoes, BoxQuiet
    <3> QED
      BY <1>2, <1>4, <3>1
  <2>3. CASE TBox!MutexWakes(f)
    <3>1. BoxReadies(f)
      BY <2>1, <2>3 DEF TBox!MutexWakes, BoxReadies, BoxQuiet
    <3> QED
      BY <3>1 DEF BoxMove
  <2>4. CASE TBox!Fire(f)
    <3>1. BoxRaises(f)
      BY <2>1, <2>4 DEF TBox!Fire, BoxRaises
    <3> QED
      BY <3>1 DEF BoxMove
  <2>5. CASE pc[f] = "out" /\ TBox!SleepElsewhere(f)
    <3>1. BoxSwitches(f, "out")
      BY <1>1, <2>1, <2>5 DEF TBox!SleepElsewhere, BoxSwitches, BoxGoes, GoTo, BoxQuiet
    <3> QED
      BY <1>2, <1>4, <3>1
  <2>6. CASE pc[f] = "out" /\ TBox!Event(f)
    <3>1. BoxReadies(f)
      BY <2>1, <2>6 DEF TBox!Event, BoxReadies, BoxQuiet
    <3> QED
      BY <3>1 DEF BoxMove
  <2> QED
    BY <1>17, <2>2, <2>3, <2>4, <2>5, <2>6 DEF TBox!FiberStep
<1>18. ASSUME NEW f \in Fibers, NEW g \in Fibers, TBox!KillIdle(f, g) PROVE BoxMove
  <2>1. UNCHANGED <<running, mbox, owner, waiters, timed, event, popped, pc, job, hasty>>
    BY <1>18 DEF TBox!KillIdle, TBox!KillFiber
  <2>2. CASE Suspended(g)
    <3>1. BoxRaises(g)
      BY <1>18, <2>1, <2>2 DEF TBox!KillIdle, TBox!KillFiber, TBox!Cancel, BoxRaises
    <3> QED
      BY <3>1 DEF BoxMove
  <2>3. CASE ~Suspended(g)
    <3>1. BoxRests
      BY <1>18, <2>1, <2>3
         DEF TBox!KillIdle, TBox!KillFiber, TBox!Cancel, BoxRests, BoxQuiet
    <3> QED
      BY <3>1 DEF BoxMove
  <2> QED
    BY <2>2, <2>3
<1>19. ASSUME NEW t \in Threads, TBox!ThreadStep(t) PROVE BoxMove
  <2>1. UNCHANGED <<job, hasty>>
    BY <1>19 DEF TBox!ThreadStep
  <2>2. CASE TBox!Deliver(t)
    <3>1. BoxDelivers(t)
      BY <2>1, <2>2
         DEF TBox!Deliver, TBox!WakeFiber, TBox!StillAsleep, TBox!TimersAfter, BoxDelivers,
             BoxRouses
    <3> QED
      BY <3>1 DEF BoxMove
  <2>3. CASE TBox!Resume(t)
    <3>1. BoxResumes(t)
      BY <2>1, <2>3 DEF TBox!Resume, BoxResumes, BoxQuiet
    <3> QED
      BY <3>1 DEF BoxMove
  <2> QED
    BY <1>19, <2>2, <2>3 DEF TBox!ThreadStep
<1>20. ASSUME NEW c \in Clients, TBox!BoxStep(c) PROVE BoxMove
  BY <1>6, <1>7, <1>8, <1>9, <1>10, <1>11, <1>13, <1>14, <1>15, <1>20 DEF TBox!BoxStep
<1> QED
  BY <1>1, <1>5, <1>16, <1>17, <1>18, <1>19, <1>20 DEF TBox!Next

(* The parts of the inductive invariant.                                       *)

BoxTypes ==
  /\ SchedInv
  /\ mbox \in [Threads -> Seq(TBox!Objects)]
  /\ owner \in Clients \cup {None}
  /\ waiters \in Seq(Clients)
  /\ timed \subseteq Clients /\ timers \subseteq Fibers /\ event \subseteq Solos
  /\ popped \in [Clients -> TBox!Objects \cup {None}]
  /\ pc \in [Clients -> TBox!PCs] /\ job \in [Clients -> TBox!Jobs]

\* Who is past the mutex has it, and only a sleeping fiber is not scheduled.
PassInv ==
  /\ \A c \in Clients : pc[c] \in {"in", "unlock", "delete"} => owner = c
  /\ \A f \in Fibers : pc[f] \in {"in", "unlock", "switch", "delete", "wake"} => Runs(f)
  /\ \A s \in Solos : pc[s] \notin {"switch", "delete"}

\* Who is in the list is inside wait and pop.
Waiting == {"unlock", "switch", "asleep", "late", "relock", "delete"}
ListInv ==
  /\ NoTwice(waiters)
  /\ \A c \in Items(waiters) :
       pc[c] \in Waiting /\ job[c] = "pop" /\ (c \in timed <=> c \in hasty)

\* What a signal has popped, or sent, is the object of somebody else.
NoteInv ==
  /\ \A c \in Clients : popped[c] # None =>
       /\ pc[c] = "wake" /\ popped[c].of # c
       /\ popped[c].timed <=> popped[c].of \in hasty
  /\ \A t \in Threads : \A m \in Items(mbox[t]) :
       m.of \in Fibers /\ Home[m.of] = t /\ (m.timed <=> m.of \in hasty)

\* A thread without fibers is in the list, popped by one signal, or has its event.
Pending(c) == \E d \in Clients : popped[d] # None /\ popped[d].of = c
SoloInv ==
  /\ \A s \in Solos : s \in Items(waiters) =>
       pc[s] \in {"unlock", "asleep", "late"} /\ s \notin event /\ ~Pending(s)
  /\ \A s \in Solos : Pending(s) => pc[s] \in {"unlock", "asleep", "late"} /\ s \notin event
  /\ \A s \in Solos : pc[s] \in {"unlock", "asleep"} =>
       s \in Items(waiters) \/ Pending(s) \/ s \in event
  /\ \A c, d \in Clients :
       /\ popped[c] # None /\ popped[d] # None
       /\ popped[c].of = popped[d].of /\ popped[c].of \in Solos
       => c = d

\* A fiber that waits with a timeout is in the timer as long as it sleeps or is about
\* to, and somebody can wake it that long.
Dozing(f) ==
  \/ pc[f] \in {"unlock", "switch"}
  \/ pc[f] = "asleep" /\ ~Runs(f) /\ ~InRing(f)
TimerInv ==
  /\ \A f \in Fibers : ~(Runs(f) /\ InRing(f))
  /\ \A f \in Fibers : f \in timers <=> f \in hasty /\ Dozing(f)

Mailed(f) == \E m \in Items(mbox[Home[f]]) : m.of = f
RouseInv ==
  \A f \in Fibers : Dozing(f) => f \in Items(waiters) \/ Pending(f) \/ Mailed(f)

\* While nobody is in a hurry and somebody is in the list, each object has a client
\* that comes for it or is about to announce it.
Coming ==
  {c \in Clients : \/ job[c] = "pop" /\ c \notin Items(waiters)
                   \/ job[c] \in {"notify", "release", "announce"}}
Pushing == {c \in Clients : job[c] = "push"}
ObjectInv ==
  /\ hasty = {} /\ waiters # <<>> => box <= Cardinality(Coming)
  /\ box \in Nat /\ pushed \in 0 .. MaxPush /\ box + Cardinality(Pushing) <= pushed

BoxInv ==
  /\ BoxTypes /\ fired \subseteq Fibers /\ canceled \subseteq Fibers
  /\ hasty \in Hurries
  /\ PassInv /\ ListInv /\ NoteInv /\ SoloInv /\ TimerInv /\ RouseInv /\ ObjectInv

-------------------------------------------------------------------------------
LEMMA BoxStart == ASSUME TBox!Init PROVE BoxInv
<1> USE BoxUses
<1>1. TBox!CondInit /\ box = 0 /\ pushed = 0 /\ hasty \in Hurries
      /\ job = [c \in Clients |-> "none"]
  BY DEF TBox!Init
<1>2. ThreadsInit /\ owner = None /\ waiters = <<>> /\ timed = {} /\ timers = {}
      /\ fired = {} /\ event = {} /\ popped = [c \in Clients |-> None]
  BY <1>1 DEF TBox!CondInit, TBox!ThreadsInit, ThreadsInit
<1>3. SchedInv /\ \A f \in Fibers : ~Runs(f) /\ ~InRing(f)
  BY <1>2, SchedStart
<1>4. /\ \A t \in Threads : mbox[t] = <<>>
      /\ mbox \in [Threads -> Seq(TBox!Objects)]
      /\ canceled = {} /\ pc = [c \in Clients |-> "out"]
  BY <1>2 DEF ThreadsInit
<1>5. /\ \A f \in Fibers : f \in Clients /\ Home[f] \in Threads
      /\ \A s \in Solos : s \in Clients
      /\ \A c \in Clients : pc[c] = "out" /\ popped[c] = None /\ job[c] = "none"
  BY <1>1, <1>2, <1>4, ThreadsAssumption DEF Clients
<1>6. BoxTypes
  BY <1>1, <1>2, <1>3, <1>4 DEF BoxTypes, TBox!PCs, TBox!Jobs
<1>7. PassInv /\ ListInv /\ NoteInv
  BY <1>2, <1>4, <1>5, EmptyQueue DEF PassInv, ListInv, NoteInv
<1>8. SoloInv /\ TimerInv /\ RouseInv
  BY <1>2, <1>3, <1>4, <1>5, EmptyQueue DEF SoloInv, TimerInv, RouseInv, Dozing, Pending
<1>9. ObjectInv
  <2>1. Pushing = {}
    BY <1>5 DEF Pushing
  <2> QED
    BY <1>1, <1>2, <2>1, FS_EmptySet, SharedAssumption DEF ObjectInv
<1> QED
  BY <1>1, <1>2, <1>4, <1>6, <1>7, <1>8, <1>9 DEF BoxInv

\* What the parts of a step do.
LEMMA BoxGone ==
  ASSUME BoxTypes, NEW c \in Clients, NEW label, NEW work, BoxGoes(c, label, work)
  PROVE  /\ \A d \in Clients : pc'[d] = IF d = c THEN label ELSE pc[d]
         /\ \A d \in Clients : job'[d] = IF d = c THEN work ELSE job[d]
         /\ label \in TBox!PCs => pc' \in [Clients -> TBox!PCs]
         /\ work \in TBox!Jobs => job' \in [Clients -> TBox!Jobs]
         /\ hasty' = hasty
BY DEF BoxTypes, BoxGoes, GoTo

LEMMA BoxPopped ==
  ASSUME BoxTypes, ListInv, NEW c \in Clients, NEW work, BoxPops(c, work)
  PROVE  \E h \in Items(waiters) :
           /\ h \in Clients /\ waiters' \in Seq(Clients)
           /\ NoTwice(waiters') /\ Items(waiters') = Items(waiters) \ {h}
           /\ popped' \in [Clients -> TBox!Objects \cup {None}]
           /\ popped'[c] # None /\ popped'[c].of = h /\ (popped'[c].timed <=> h \in timed)
           /\ \A d \in Clients : d # c => popped'[d] = popped[d]
<1> DEFINE h == Head(waiters)
           obj == [of |-> h, timed |-> h \in timed]
<1>1. waiters \in Seq(Clients) /\ waiters # <<>> /\ NoTwice(waiters)
  BY DEF BoxTypes, ListInv, BoxPops
<1>2. /\ PopFront(waiters) \in Seq(Clients) /\ h \in Clients
      /\ Items(waiters) = Items(PopFront(waiters)) \cup {h}
      /\ NoTwice(PopFront(waiters)) /\ h \notin Items(PopFront(waiters))
  BY <1>1, PopFrontItems
<1>3. waiters' = PopFront(waiters) /\ popped' = [popped EXCEPT ![c] = obj]
  BY DEF BoxPops
<1> HIDE DEF h
<1>4. obj \in TBox!Objects /\ obj # None /\ obj.of = h /\ (obj.timed <=> h \in timed)
  <2>1. obj \in TBox!Objects
    BY <1>2, BoxUses DEF TBox!Objects
  <2> QED
    BY <2>1, SharedAssumption
<1> HIDE DEF obj
<1>5. /\ popped' \in [Clients -> TBox!Objects \cup {None}] /\ popped'[c] = obj
      /\ \A d \in Clients : d # c => popped'[d] = popped[d]
  BY <1>3, <1>4 DEF BoxTypes
<1>6. h \in Items(waiters) /\ Items(waiters') = Items(waiters) \ {h}
  BY <1>2, <1>3
<1> QED
  BY <1>2, <1>3, <1>4, <1>5, <1>6

LEMMA BoxRoused ==
  ASSUME SchedInv, NEW f \in Fibers, NEW delayed, BoxRouses(f, delayed), UNCHANGED running
  PROVE  /\ SchedInv'
         /\ \A g \in Fibers : (Runs(g)' <=> Runs(g)) /\ (InRing(g) => InRing(g)')
         /\ \A g \in Fibers : g # f => (InRing(g)' <=> InRing(g))
         /\ \/ (delayed => f \in timers) /\ InRing(f)' /\ timers' = timers \ {f}
            \/ delayed /\ f \notin timers /\ UNCHANGED <<ready, timers>>
<1>1. CASE delayed => f \in timers
  <2>1. MakeReady(f) /\ timers' = timers \ {f}
    BY <1>1 DEF BoxRouses
  <2> QED
    BY <1>1, <2>1, ReadyStep
<1>2. CASE ~(delayed => f \in timers)
  <2>1. UNCHANGED <<ready, timers>>
    BY <1>2 DEF BoxRouses
  <2> QED
    BY <1>2, <2>1, SchedSame
<1> QED
  BY <1>1, <1>2

LEMMA BoxSent ==
  ASSUME BoxTypes, NEW c \in Clients, NEW label, BoxSends(c, label)
  PROVE  /\ popped[c].of \in Fibers /\ mbox' \in [Threads -> Seq(TBox!Objects)]
         /\ \A t \in Threads : Items(mbox'[t]) = IF t = Home[popped[c].of]
                                                 THEN Items(mbox[t]) \cup {popped[c]}
                                                 ELSE Items(mbox[t])
<1>1. PICK obj \in TBox!Objects : obj = popped[c]
  BY DEF BoxTypes, BoxSends
<1>2. obj.of \in Fibers /\ Home[obj.of] \in Threads
  BY <1>1, BoxUses, ThreadsAssumption DEF BoxSends, TBox!Objects, Clients
<1>3. mbox' = [mbox EXCEPT ![Home[obj.of]] = Append(@, obj)]
  BY <1>1 DEF BoxSends
<1>4. \A t \in Threads : /\ mbox[t] \in Seq(TBox!Objects)
                         /\ Append(mbox[t], obj) \in Seq(TBox!Objects)
                         /\ Items(Append(mbox[t], obj)) = Items(mbox[t]) \cup {obj}
  <2> TAKE t \in Threads
  <2>1. mbox[t] \in Seq(TBox!Objects)
    BY DEF BoxTypes
  <2> QED
    BY <2>1, AppendItems
<1>5. mbox' \in [Threads -> Seq(TBox!Objects)]
      /\ \A t \in Threads : mbox'[t] = IF t = Home[obj.of] THEN Append(mbox[t], obj) ELSE mbox[t]
  BY <1>2, <1>3, <1>4 DEF BoxTypes
<1>6. \A t \in Threads : Items(mbox'[t]) = IF t = Home[obj.of]
                                           THEN Items(mbox[t]) \cup {obj} ELSE Items(mbox[t])
  BY <1>4, <1>5
<1> QED
  BY <1>1, <1>2, <1>5, <1>6

LEMMA BoxDelivered ==
  ASSUME BoxTypes, NoteInv, NEW t \in Threads, BoxDelivers(t)
  PROVE  \E m \in Items(mbox[t]) :
           /\ m.of \in Fibers /\ Home[m.of] = t /\ (m.timed <=> m.of \in hasty)
           /\ BoxRouses(m.of, m.timed) /\ UNCHANGED running /\ running[t] = None
           /\ mbox' \in [Threads -> Seq(TBox!Objects)]
           /\ Items(mbox[t]) = Items(mbox'[t]) \cup {m}
           /\ \A u \in Threads : u # t => mbox'[u] = mbox[u]
<1>1. mbox[t] \in Seq(TBox!Objects) /\ mbox[t] # <<>>
  BY DEF BoxTypes, BoxDelivers
<1>2. PICK m \in Items(mbox[t]) : m = Head(mbox[t]) /\ Items(mbox[t]) = Items(Tail(mbox[t])) \cup {m}
  BY <1>1, TailItems, ItemsType
<1>3. /\ mbox' \in [Threads -> Seq(TBox!Objects)] /\ mbox'[t] = Tail(mbox[t])
      /\ \A u \in Threads : u # t => mbox'[u] = mbox[u]
  BY <1>1, TailItems DEF BoxTypes, BoxDelivers
<1>4. m.of \in Fibers /\ Home[m.of] = t /\ (m.timed <=> m.of \in hasty)
  BY DEF NoteInv
<1>5. BoxRouses(m.of, m.timed) /\ UNCHANGED running /\ running[t] = None
  BY <1>2 DEF BoxDelivers
<1> QED
  BY <1>2, <1>3, <1>4, <1>5

\* The steps keep to the types.
LEMMA BoxMoveTypes ==
  ASSUME BoxTypes, NoteInv, ListInv, BoxMove
  PROVE  BoxTypes'
<1>1. /\ \A f \in Fibers : f \in Clients /\ Home[f] \in Threads
      /\ \A s \in Solos : s \in Clients /\ s \notin Fibers
      /\ \A c \in Clients : c \notin Solos => c \in Fibers
      /\ SchedInv /\ waiters \in Seq(Clients) /\ timed \subseteq Clients
      /\ timers \subseteq Fibers /\ event \subseteq Solos
      /\ popped \in [Clients -> TBox!Objects \cup {None}]
      /\ mbox \in [Threads -> Seq(TBox!Objects)] /\ owner \in Clients \cup {None}
      /\ pc \in [Clients -> TBox!PCs] /\ job \in [Clients -> TBox!Jobs]
  BY ThreadsAssumption DEF Clients, BoxTypes
<1>2. UNCHANGED <<running, ready>> => SchedInv'
  BY <1>1, SchedSame
<1>3. \A c \in Clients : popped[c] # None => popped[c] \in TBox!Objects /\ popped[c].of \in Clients
  BY <1>1, BoxUses DEF TBox!Objects
<1>4. {"in", "unlock", "wake", "expired"} \subseteq TBox!PCs
  BY DEF TBox!PCs
<1>5. ASSUME NEW c \in Clients, NEW label \in TBox!PCs, NEW work \in TBox!Jobs,
             BoxMoves(c, label, work)
      PROVE  BoxTypes'
  <2>1. pc' \in [Clients -> TBox!PCs] /\ job' \in [Clients -> TBox!Jobs]
    BY <1>5, BoxGone DEF BoxMoves
  <2>2. owner' \in Clients \cup {None}
    BY <1>1, <1>5 DEF BoxMoves
  <2> QED
    BY <1>1, <1>2, <1>5, <2>1, <2>2 DEF BoxTypes, BoxMoves, BoxQuiet
<1>6. ASSUME NEW c \in Clients, NEW work \in TBox!Jobs, BoxPops(c, work) PROVE BoxTypes'
  <2>1. pc' \in [Clients -> TBox!PCs] /\ job' \in [Clients -> TBox!Jobs]
    BY <1>4, <1>6, BoxGone DEF BoxPops
  <2>2. waiters' \in Seq(Clients) /\ popped' \in [Clients -> TBox!Objects \cup {None}]
    BY <1>6, BoxPopped
  <2> QED
    BY <1>1, <1>2, <1>6, <2>1, <2>2 DEF BoxTypes, BoxPops
<1>7. ASSUME NEW c \in Clients, NEW work \in TBox!Jobs, BoxDeletes(c, work) PROVE BoxTypes'
  <2>1. pc' \in [Clients -> TBox!PCs] /\ job' \in [Clients -> TBox!Jobs]
    BY <1>4, <1>7, BoxGone DEF BoxDeletes
  <2>2. waiters' \in Seq(Clients)
    BY <1>1, <1>7, DeleteObjItems DEF BoxDeletes, ListInv
  <2> QED
    BY <1>1, <1>2, <1>7, <2>1, <2>2 DEF BoxTypes, BoxDeletes
<1>8. ASSUME NEW c \in Clients, BoxGivesUp(c) PROVE BoxTypes'
  <2>1. pc' \in [Clients -> TBox!PCs] /\ job' \in [Clients -> TBox!Jobs]
    BY <1>1, <1>4, <1>8, BoxGone DEF BoxGivesUp
  <2>2. waiters' \in Seq(Clients)
    BY <1>1, <1>8, DeleteObjItems DEF BoxGivesUp, ListInv
  <2>3. popped' \in [Clients -> TBox!Objects \cup {None}]
    BY <1>1, <1>8 DEF BoxGivesUp
  <2> QED
    BY <1>1, <1>2, <1>8, <2>1, <2>2, <2>3 DEF BoxTypes, BoxGivesUp
<1>9. ASSUME NEW c \in Clients, BoxEnlists(c) PROVE BoxTypes'
  <2>1. pc' \in [Clients -> TBox!PCs] /\ job' \in [Clients -> TBox!Jobs]
    BY <1>1, <1>4, <1>9, BoxGone DEF BoxEnlists
  <2>2. waiters' \in Seq(Clients) /\ timed' \subseteq Clients /\ timers' \subseteq Fibers
        /\ event' \subseteq Solos
    BY <1>1, <1>9, AppendItems DEF BoxEnlists
  <2> QED
    BY <1>1, <1>2, <1>9, <2>1, <2>2 DEF BoxTypes, BoxEnlists
<1>10. ASSUME NEW c \in Clients, NEW label \in TBox!PCs, BoxWakes(c, label), SchedInv',
              mbox' \in [Threads -> Seq(TBox!Objects)], timers' \subseteq Fibers,
              event' \subseteq Solos
       PROVE  BoxTypes'
  <2>1. pc' \in [Clients -> TBox!PCs] /\ job' \in [Clients -> TBox!Jobs]
    BY <1>1, <1>10, BoxGone DEF BoxWakes
  <2>2. popped' \in [Clients -> TBox!Objects \cup {None}]
    BY <1>1, <1>10 DEF BoxWakes
  <2> QED
    BY <1>1, <1>10, <2>1, <2>2 DEF BoxTypes, BoxWakes
<1>11. ASSUME NEW c \in Clients, NEW label \in TBox!PCs,
              BoxWakesNobody(c, label) \/ BoxWakesSolo(c, label)
       PROVE  BoxTypes'
  <2>1. BoxWakes(c, label) /\ UNCHANGED <<ready, mbox, timers>> /\ event' \subseteq Solos
    BY <1>1, <1>11 DEF BoxWakesNobody, BoxWakesSolo
  <2>2. UNCHANGED running
    BY <2>1 DEF BoxWakes
  <2> QED
    BY <1>1, <1>2, <1>10, <2>1, <2>2
<1>12. ASSUME NEW c \in Clients, NEW label \in TBox!PCs, BoxWakesFiber(c, label)
       PROVE  BoxTypes'
  <2>1. PICK f \in Fibers : f = popped[c].of
    BY <1>1, <1>3, <1>12 DEF BoxWakesFiber
  <2>2. BoxRouses(f, popped[c].timed) /\ UNCHANGED <<running, mbox, event>>
        /\ BoxWakes(c, label)
    BY <1>12, <2>1 DEF BoxWakesFiber, BoxWakes
  <2>3. SchedInv' /\ timers' \subseteq Fibers
    BY <1>1, <2>2, BoxRoused
  <2> QED
    BY <1>1, <1>10, <2>2, <2>3
<1>13. ASSUME NEW c \in Clients, NEW label \in TBox!PCs, BoxSends(c, label) PROVE BoxTypes'
  <2>1. mbox' \in [Threads -> Seq(TBox!Objects)]
    BY <1>13, BoxSent
  <2>2. BoxWakes(c, label) /\ UNCHANGED <<running, ready, timers, event>>
    BY <1>13 DEF BoxSends, BoxWakes
  <2> QED
    BY <1>1, <1>2, <1>10, <2>1, <2>2
<1>14. ASSUME NEW f \in Fibers, BoxReadies(f) PROVE BoxTypes'
  <2>1. SchedInv'
    BY <1>1, <1>14, ReadyStep DEF BoxReadies
  <2> QED
    BY <1>1, <1>14, <2>1 DEF BoxTypes, BoxReadies, BoxQuiet
<1>15. ASSUME NEW f \in Fibers, BoxRaises(f) PROVE BoxTypes'
  <2>1. SchedInv'
    BY <1>1, <1>15, ReadyStep DEF BoxRaises
  <2>2. timers' \subseteq Fibers
    BY <1>1, <1>15 DEF BoxRaises
  <2> QED
    BY <1>1, <1>15, <2>1, <2>2 DEF BoxTypes, BoxRaises
<1>16. ASSUME NEW f \in Fibers, NEW label \in TBox!PCs, BoxSwitches(f, label)
       PROVE  BoxTypes'
  <2>1. SchedInv'
    BY <1>1, <1>16, SwitchStep DEF BoxSwitches
  <2>2. pc' \in [Clients -> TBox!PCs] /\ job' \in [Clients -> TBox!Jobs]
    BY <1>1, <1>16, BoxGone DEF BoxSwitches
  <2> QED
    BY <1>1, <1>16, <2>1, <2>2 DEF BoxTypes, BoxSwitches, BoxQuiet
<1>17. ASSUME NEW t \in Threads, BoxDelivers(t) PROVE BoxTypes'
  <2>1. PICK m \in Items(mbox[t]) :
          /\ m.of \in Fibers /\ BoxRouses(m.of, m.timed) /\ UNCHANGED running
          /\ mbox' \in [Threads -> Seq(TBox!Objects)]
    BY <1>17, BoxDelivered
  <2>2. SchedInv' /\ timers' \subseteq Fibers
    BY <1>1, <2>1, BoxRoused
  <2> QED
    BY <1>1, <1>17, <2>1, <2>2 DEF BoxTypes, BoxDelivers
<1>18. ASSUME NEW t \in Threads, BoxResumes(t) PROVE BoxTypes'
  <2>1. SchedInv'
    BY <1>1, <1>18, ResumeStep DEF BoxResumes
  <2> QED
    BY <1>1, <1>18, <2>1 DEF BoxTypes, BoxResumes, BoxQuiet
<1>19. CASE BoxRests
  BY <1>1, <1>2, <1>19 DEF BoxTypes, BoxRests, BoxQuiet
<1> QED
  BY <1>5, <1>6, <1>7, <1>8, <1>9, <1>11, <1>12, <1>13, <1>14, <1>15, <1>16, <1>17, <1>18,
     <1>19 DEF BoxMove

\* Who is past the mutex has it.
LEMMA BoxPasses ==
  ASSUME BoxTypes, PassInv, NoteInv, ListInv, BoxMove
  PROVE  PassInv'
<1>1. /\ \A f \in Fibers : f \in Clients /\ f \notin Solos
      /\ \A s \in Solos : s \in Clients /\ s \notin Fibers
      /\ None \notin Clients
      /\ SchedInv
      /\ \A c \in Clients : pc[c] \in {"in", "unlock", "delete"} => owner = c
      /\ \A f \in Fibers : pc[f] \in {"in", "unlock", "switch", "delete", "wake"} => Runs(f)
      /\ \A s \in Solos : pc[s] \notin {"switch", "delete"}
  BY ThreadsAssumption DEF Clients, BoxTypes, PassInv
<1>2. UNCHANGED running => \A f \in Fibers : Runs(f)' <=> Runs(f)
  BY DEF Runs
<1>3. ASSUME NEW c \in Clients, NEW label \in TBox!PCs, NEW work \in TBox!Jobs,
             BoxMoves(c, label, work)
      PROVE  PassInv'
  <2>1. /\ \A d \in Clients : pc'[d] = IF d = c THEN label ELSE pc[d]
        /\ UNCHANGED running /\ Runs(c)
    BY <1>3, BoxGone DEF BoxMoves
  <2>2. /\ c \in Solos => label \notin {"switch", "delete"}
        /\ label \in {"in", "unlock", "delete"} => owner' = c
        /\ \A d \in Clients : d # c /\ pc[d] \in {"in", "unlock", "delete"} => owner' = d
    BY <1>1, <1>3 DEF BoxMoves
  <2> QED
    BY <1>1, <1>2, <2>1, <2>2 DEF PassInv
<1>4. ASSUME NEW c \in Clients, NEW label, NEW work, BoxGoes(c, label, work), Runs(c),
             label \in {"in", "unlock", "delete"} => owner = c,
             label \notin {"switch", "delete"}, UNCHANGED <<running, owner>>
      PROVE  PassInv'
  <2>1. \A d \in Clients : pc'[d] = IF d = c THEN label ELSE pc[d]
    BY <1>4, BoxGone
  <2> QED
    BY <1>1, <1>2, <1>4, <2>1 DEF PassInv
<1>5. ASSUME UNCHANGED <<pc, owner>>, \A f \in Fibers : Runs(f) => Runs(f)' PROVE PassInv'
  BY <1>1, <1>5 DEF PassInv
<1>6. ASSUME NEW c \in Clients, NEW work \in TBox!Jobs, BoxPops(c, work) PROVE PassInv'
  <2>1. BoxGoes(c, "wake", work) /\ Runs(c) /\ UNCHANGED <<running, owner>>
    BY <1>6 DEF BoxPops
  <2> QED
    BY <1>4, <2>1
<1>7. ASSUME NEW c \in Clients, NEW work \in TBox!Jobs, BoxDeletes(c, work) PROVE PassInv'
  <2>1. BoxGoes(c, "in", work) /\ Runs(c) /\ owner = c /\ UNCHANGED <<running, owner>>
    BY <1>1, <1>7 DEF BoxDeletes
  <2> QED
    BY <1>4, <2>1
<1>8. ASSUME NEW c \in Clients, BoxGivesUp(c) PROVE PassInv'
  <2>1. BoxGoes(c, "expired", job[c]) /\ Runs(c) /\ UNCHANGED <<running, owner>>
    BY <1>1, <1>8 DEF BoxGivesUp, Runs
  <2> QED
    BY <1>4, <2>1
<1>9. ASSUME NEW c \in Clients, BoxEnlists(c) PROVE PassInv'
  <2>1. BoxGoes(c, "unlock", job[c]) /\ Runs(c) /\ owner = c /\ UNCHANGED <<running, owner>>
    BY <1>1, <1>9 DEF BoxEnlists
  <2> QED
    BY <1>4, <2>1
<1>10. ASSUME NEW c \in Clients, NEW label \in TBox!PCs,
              \/ BoxWakesNobody(c, label) \/ BoxWakesSolo(c, label)
              \/ BoxWakesFiber(c, label) \/ BoxSends(c, label)
       PROVE  PassInv'
  <2>1. BoxWakes(c, label)
    BY <1>10 DEF BoxWakesNobody, BoxWakesSolo, BoxWakesFiber, BoxSends
  <2>2. BoxGoes(c, label, job[c]) /\ Runs(c) /\ UNCHANGED <<running, owner>>
        /\ label = IF owner = c THEN "in" ELSE "out"
    BY <2>1 DEF BoxWakes
  <2> QED
    BY <1>4, <2>2
<1>11. ASSUME NEW f \in Fibers, BoxReadies(f) PROVE PassInv'
  <2>1. UNCHANGED <<running, pc, owner>>
    BY <1>11 DEF BoxReadies
  <2> QED
    BY <1>2, <1>5, <2>1
<1>12. ASSUME NEW f \in Fibers, BoxRaises(f) PROVE PassInv'
  <2>1. UNCHANGED <<running, pc, owner>>
    BY <1>12 DEF BoxRaises
  <2> QED
    BY <1>2, <1>5, <2>1
<1>13. ASSUME NEW f \in Fibers, NEW label \in TBox!PCs, BoxSwitches(f, label)
       PROVE  PassInv'
  <2>1. /\ \A d \in Clients : pc'[d] = IF d = f THEN label ELSE pc[d]
        /\ UNCHANGED owner /\ label \in {"locking", "out", "relock", "asleep"}
    BY <1>1, <1>13, BoxGone DEF BoxSwitches
  <2>2. \A g \in Fibers : g # f => (Runs(g)' <=> Runs(g))
    BY <1>1, <1>13, SwitchStep DEF BoxSwitches
  <2> QED
    BY <1>1, <2>1, <2>2 DEF PassInv
<1>14. ASSUME NEW t \in Threads, BoxDelivers(t) PROVE PassInv'
  <2>1. UNCHANGED <<running, pc, owner>>
    BY <1>14 DEF BoxDelivers
  <2> QED
    BY <1>2, <1>5, <2>1
<1>15. ASSUME NEW t \in Threads, BoxResumes(t) PROVE PassInv'
  <2>1. UNCHANGED <<pc, owner>> /\ \A f \in Fibers : Runs(f) => Runs(f)'
    BY <1>1, <1>15, ResumeStep DEF BoxResumes
  <2> QED
    BY <1>5, <2>1
<1>16. CASE BoxRests
  BY <1>2, <1>5, <1>16 DEF BoxRests
<1> QED
  BY <1>3, <1>6, <1>7, <1>8, <1>9, <1>10, <1>11, <1>12, <1>13, <1>14, <1>15, <1>16 DEF BoxMove

\* Who is in the list is inside wait and pop, with the right kind of object.
LEMMA BoxLists ==
  ASSUME BoxTypes, PassInv, ListInv, SoloInv, BoxMove
  PROVE  ListInv'
<1>1. /\ \A s \in Solos : s \in Clients /\ s \notin Fibers
      /\ \A c \in Clients : c \notin Solos => c \in Fibers
      /\ \A f \in Fibers : f \in Clients
      /\ waiters \in Seq(Clients) /\ NoTwice(waiters)
      /\ \A c \in Items(waiters) : c \in Clients /\ pc[c] \in Waiting /\ job[c] = "pop"
      /\ \A c \in Items(waiters) : c \in timed <=> c \in hasty
      /\ \A s \in Solos : s \in Items(waiters) => pc[s] \in {"unlock", "asleep", "late"} /\ s \notin event
  BY ThreadsAssumption, ItemsType DEF Clients, BoxTypes, ListInv, SoloInv
\* A client c goes on and the others stay; c keeps its job while it is in the list.
<1>2. ASSUME NEW c \in Clients, NEW label, NEW work, BoxGoes(c, label, work),
             waiters' \in Seq(Clients), NoTwice(waiters'), Items(waiters') \subseteq Items(waiters),
             c \in Items(waiters') => label \in Waiting /\ work = job[c], UNCHANGED timed
      PROVE  ListInv'
  <2>1. /\ \A d \in Clients : pc'[d] = IF d = c THEN label ELSE pc[d]
        /\ \A d \in Clients : job'[d] = IF d = c THEN work ELSE job[d]
        /\ hasty' = hasty
    BY <1>2, BoxGone
  <2>2. \A d \in Items(waiters') : pc'[d] \in Waiting /\ job'[d] = "pop"
    BY <1>1, <1>2, <2>1
  <2> QED
    BY <1>1, <1>2, <2>1, <2>2 DEF ListInv
<1>3. ASSUME UNCHANGED <<pc, job, hasty, waiters, timed>> PROVE ListInv'
  BY <1>3 DEF ListInv
<1>4. ASSUME NEW c \in Clients, NEW label \in TBox!PCs, NEW work \in TBox!Jobs,
             BoxMoves(c, label, work)
      PROVE  ListInv'
  <2>1. BoxGoes(c, label, work) /\ UNCHANGED <<waiters, timed>>
    BY <1>4 DEF BoxMoves, BoxQuiet
  <2>2. c \in Items(waiters) => label \in Waiting /\ work = job[c]
    BY <1>1, <1>4 DEF BoxMoves, Waiting
  <2> QED
    BY <1>1, <1>2, <2>1, <2>2
<1>5. ASSUME NEW c \in Clients, NEW work \in TBox!Jobs, BoxPops(c, work) PROVE ListInv'
  <2>1. BoxGoes(c, "wake", work) /\ UNCHANGED timed /\ c \notin Items(waiters)
    BY <1>1, <1>5 DEF BoxPops, Waiting
  <2>2. /\ waiters' \in Seq(Clients) /\ NoTwice(waiters')
        /\ Items(waiters') \subseteq Items(waiters)
    BY <1>5, BoxPopped
  <2> QED
    BY <1>2, <2>1, <2>2
<1>6. ASSUME NEW c \in Clients, NEW label, NEW work, BoxGoes(c, label, work), UNCHANGED timed,
             waiters' = DeleteObj(waiters, c)
      PROVE  ListInv'
  <2>1. waiters' \in Seq(Clients) /\ NoTwice(waiters') /\ Items(waiters') = Items(waiters) \ {c}
    BY <1>1, <1>6, DeleteObjItems
  <2> QED
    BY <1>2, <1>6, <2>1
<1>7. ASSUME NEW c \in Clients, NEW work \in TBox!Jobs, BoxDeletes(c, work) PROVE ListInv'
  BY <1>6, <1>7 DEF BoxDeletes
<1>8. ASSUME NEW c \in Clients, BoxGivesUp(c) PROVE ListInv'
  BY <1>6, <1>8 DEF BoxGivesUp
<1>9. ASSUME NEW c \in Clients, BoxEnlists(c) PROVE ListInv'
  <2>1. /\ \A d \in Clients : pc'[d] = IF d = c THEN "unlock" ELSE pc[d]
        /\ \A d \in Clients : job'[d] = job[d]
        /\ hasty' = hasty
    BY <1>9, BoxGone DEF BoxEnlists
  <2>2. waiters' = Append(waiters, c) /\ job[c] = "pop" /\ c \notin Items(waiters)
        /\ timed' = IF c \in hasty THEN timed \cup {c} ELSE timed \ {c}
    BY <1>1, <1>9 DEF BoxEnlists, Waiting
  <2>3. NoTwice(waiters') /\ Items(waiters') = Items(waiters) \cup {c}
    BY <1>1, <2>2, AppendItems
  <2>4. \A d \in Items(waiters') : pc'[d] \in Waiting /\ job'[d] = "pop"
    BY <1>1, <2>1, <2>2, <2>3 DEF Waiting
  <2>5. \A d \in Items(waiters') : d \in timed' <=> d \in hasty'
    BY <1>1, <2>1, <2>2, <2>3
  <2> QED
    BY <2>3, <2>4, <2>5 DEF ListInv
<1>10. ASSUME NEW c \in Clients, NEW label \in TBox!PCs,
              \/ BoxWakesNobody(c, label) \/ BoxWakesSolo(c, label)
              \/ BoxWakesFiber(c, label) \/ BoxSends(c, label)
       PROVE  ListInv'
  <2>1. BoxWakes(c, label)
    BY <1>10 DEF BoxWakesNobody, BoxWakesSolo, BoxWakesFiber, BoxSends
  <2>2. BoxGoes(c, label, job[c]) /\ UNCHANGED <<waiters, timed>> /\ c \notin Items(waiters)
    BY <1>1, <2>1 DEF BoxWakes, Waiting
  <2> QED
    BY <1>1, <1>2, <2>2
<1>11. ASSUME NEW f \in Fibers, BoxReadies(f) PROVE ListInv'
  BY <1>3, <1>11 DEF BoxReadies, BoxQuiet
<1>12. ASSUME NEW f \in Fibers, BoxRaises(f) PROVE ListInv'
  BY <1>3, <1>12 DEF BoxRaises
<1>13. ASSUME NEW f \in Fibers, NEW label \in TBox!PCs, BoxSwitches(f, label)
       PROVE  ListInv'
  <2>1. BoxGoes(f, label, job[f]) /\ UNCHANGED <<waiters, timed>>
    BY <1>13 DEF BoxSwitches, BoxQuiet
  <2>2. f \in Items(waiters) => label \in Waiting
    BY <1>1, <1>13 DEF BoxSwitches, Waiting
  <2> QED
    BY <1>1, <1>2, <2>1, <2>2
<1>14. ASSUME NEW t \in Threads, BoxDelivers(t) PROVE ListInv'
  BY <1>3, <1>14 DEF BoxDelivers
<1>15. ASSUME NEW t \in Threads, BoxResumes(t) PROVE ListInv'
  BY <1>3, <1>15 DEF BoxResumes, BoxQuiet
<1>16. CASE BoxRests
  BY <1>3, <1>16 DEF BoxRests, BoxQuiet
<1> QED
  BY <1>4, <1>5, <1>7, <1>8, <1>9, <1>10, <1>11, <1>12, <1>13, <1>14, <1>15, <1>16 DEF BoxMove

\* A note about an object says whose it is and whether it is in the timer.
LEMMA BoxNotes ==
  ASSUME BoxTypes, ListInv, NoteInv, BoxMove
  PROVE  NoteInv'
<1>1. /\ \A s \in Solos : s \in Clients /\ s \notin Fibers
      /\ \A f \in Fibers : f \in Clients
      /\ \A c \in Clients : popped[c] # None =>
           pc[c] = "wake" /\ popped[c].of # c /\ (popped[c].timed <=> popped[c].of \in hasty)
      /\ \A t \in Threads : \A m \in Items(mbox[t]) :
           m.of \in Fibers /\ Home[m.of] = t /\ (m.timed <=> m.of \in hasty)
      /\ popped \in [Clients -> TBox!Objects \cup {None}]
      /\ mbox \in [Threads -> Seq(TBox!Objects)]
  BY ThreadsAssumption DEF Clients, BoxTypes, NoteInv
\* Client c goes on, and no note is added.
<1>2. ASSUME NEW c \in Clients, NEW label, NEW work, BoxGoes(c, label, work),
             pc[c] # "wake" \/ popped'[c] = None, UNCHANGED mbox,
             \A d \in Clients : popped'[d] = None \/ popped'[d] = popped[d]
      PROVE  NoteInv'
  <2>1. /\ \A d \in Clients : pc'[d] = IF d = c THEN label ELSE pc[d]
        /\ hasty' = hasty
    BY <1>2, BoxGone
  <2>2. \A d \in Clients : popped'[d] # None => d # c /\ popped'[d] = popped[d]
    BY <1>1, <1>2
  <2> QED
    BY <1>1, <1>2, <2>1, <2>2 DEF NoteInv
<1>3. ASSUME UNCHANGED <<pc, hasty, mbox, popped>> PROVE NoteInv'
  BY <1>3 DEF NoteInv
<1>4. ASSUME NEW c \in Clients, NEW label \in TBox!PCs, NEW work \in TBox!Jobs,
             BoxMoves(c, label, work)
      PROVE  NoteInv'
  <2>1. BoxGoes(c, label, work) /\ pc[c] # "wake" /\ UNCHANGED <<mbox, popped>>
    BY <1>4 DEF BoxMoves, BoxQuiet
  <2> QED
    BY <1>2, <2>1
<1>5. ASSUME NEW c \in Clients, NEW work \in TBox!Jobs, BoxPops(c, work) PROVE NoteInv'
  <2>1. /\ \A d \in Clients : pc'[d] = IF d = c THEN "wake" ELSE pc[d]
        /\ UNCHANGED <<hasty, mbox>> /\ pc[c] \in {"in", "out"}
    BY <1>5, BoxGone DEF BoxPops
  <2>2. PICK h \in Items(waiters) :
          /\ popped'[c] # None /\ popped'[c].of = h /\ (popped'[c].timed <=> h \in timed)
          /\ \A d \in Clients : d # c => popped'[d] = popped[d]
    BY <1>5, BoxPopped
  <2>3. h # c /\ (h \in timed <=> h \in hasty)
    BY <2>1 DEF ListInv, Waiting
  <2> QED
    BY <1>1, <2>1, <2>2, <2>3 DEF NoteInv
<1>6. ASSUME NEW c \in Clients, NEW work \in TBox!Jobs, BoxDeletes(c, work) PROVE NoteInv'
  <2>1. BoxGoes(c, "in", work) /\ pc[c] # "wake" /\ UNCHANGED <<mbox, popped>>
    BY <1>6 DEF BoxDeletes
  <2> QED
    BY <1>2, <2>1
<1>7. ASSUME NEW c \in Clients, BoxGivesUp(c) PROVE NoteInv'
  <2>1. BoxGoes(c, "expired", job[c]) /\ pc[c] # "wake" /\ UNCHANGED mbox
    BY <1>7 DEF BoxGivesUp
  <2>2. \A d \in Clients : popped'[d] = None \/ popped'[d] = popped[d]
    BY <1>7 DEF BoxGivesUp
  <2> QED
    BY <1>2, <2>1, <2>2
<1>8. ASSUME NEW c \in Clients, BoxEnlists(c) PROVE NoteInv'
  <2>1. BoxGoes(c, "unlock", job[c]) /\ pc[c] # "wake" /\ UNCHANGED <<mbox, popped>>
    BY <1>8 DEF BoxEnlists
  <2> QED
    BY <1>2, <2>1
<1>9. ASSUME NEW c \in Clients, NEW label \in TBox!PCs, BoxWakes(c, label)
      PROVE  /\ BoxGoes(c, label, job[c]) /\ popped'[c] = None
             /\ \A d \in Clients : popped'[d] = None \/ popped'[d] = popped[d]
  BY <1>1, <1>9 DEF BoxWakes
<1>10. ASSUME NEW c \in Clients, NEW label \in TBox!PCs,
              BoxWakesNobody(c, label) \/ BoxWakesSolo(c, label) \/ BoxWakesFiber(c, label)
       PROVE  NoteInv'
  <2>1. BoxWakes(c, label) /\ UNCHANGED mbox
    BY <1>10 DEF BoxWakesNobody, BoxWakesSolo, BoxWakesFiber
  <2> QED
    BY <1>2, <1>9, <2>1
<1>11. ASSUME NEW c \in Clients, NEW label \in TBox!PCs, BoxSends(c, label) PROVE NoteInv'
  <2>1. /\ \A d \in Clients : pc'[d] = IF d = c THEN label ELSE pc[d]
        /\ popped'[c] = None /\ UNCHANGED hasty
        /\ \A d \in Clients : popped'[d] = None \/ popped'[d] = popped[d]
    BY <1>9, <1>11, BoxGone DEF BoxSends
  <2>2. PICK obj : obj = popped[c] /\ obj # None
    BY <1>11 DEF BoxSends
  <2>3. /\ obj.of \in Fibers
        /\ \A t \in Threads : Items(mbox'[t]) = IF t = Home[obj.of]
                                                THEN Items(mbox[t]) \cup {obj} ELSE Items(mbox[t])
    BY <1>11, <2>2, BoxSent
  <2>4. obj.timed <=> obj.of \in hasty
    BY <1>1, <2>2
  <2>5. \A t \in Threads : \A m \in Items(mbox'[t]) :
          m.of \in Fibers /\ Home[m.of] = t /\ (m.timed <=> m.of \in hasty')
    <3> SUFFICES ASSUME NEW t \in Threads, NEW m \in Items(mbox'[t])
                 PROVE  m.of \in Fibers /\ Home[m.of] = t /\ (m.timed <=> m.of \in hasty')
      OBVIOUS
    <3>1. m \in Items(mbox[t]) \/ (m = obj /\ t = Home[obj.of])
      BY <2>3
    <3>2. CASE m \in Items(mbox[t])
      BY <1>1, <2>1, <3>2
    <3>3. CASE m = obj /\ t = Home[obj.of]
      BY <2>1, <2>3, <2>4, <3>3
    <3> QED
      BY <3>1, <3>2, <3>3
  <2>6. \A d \in Clients : popped'[d] # None => d # c /\ popped'[d] = popped[d]
    BY <2>1
  <2> QED
    BY <1>1, <2>1, <2>5, <2>6 DEF NoteInv
<1>12. ASSUME NEW f \in Fibers, BoxReadies(f) PROVE NoteInv'
  BY <1>3, <1>12 DEF BoxReadies, BoxQuiet
<1>13. ASSUME NEW f \in Fibers, BoxRaises(f) PROVE NoteInv'
  BY <1>3, <1>13 DEF BoxRaises
<1>14. ASSUME NEW f \in Fibers, NEW label \in TBox!PCs, BoxSwitches(f, label)
       PROVE  NoteInv'
  <2>1. BoxGoes(f, label, job[f]) /\ pc[f] # "wake" /\ UNCHANGED <<mbox, popped>>
    BY <1>14 DEF BoxSwitches, BoxQuiet
  <2> QED
    BY <1>1, <1>2, <2>1
<1>15. ASSUME NEW t \in Threads, BoxDelivers(t) PROVE NoteInv'
  <2>1. /\ Items(mbox'[t]) \subseteq Items(mbox[t])
        /\ \A u \in Threads : u # t => mbox'[u] = mbox[u]
    BY <1>15, BoxDelivered
  <2>2. UNCHANGED <<pc, hasty, popped>>
    BY <1>15 DEF BoxDelivers
  <2>3. \A u \in Threads : Items(mbox'[u]) \subseteq Items(mbox[u])
    BY <2>1
  <2> QED
    BY <1>1, <2>2, <2>3 DEF NoteInv
<1>16. ASSUME NEW t \in Threads, BoxResumes(t) PROVE NoteInv'
  BY <1>3, <1>16 DEF BoxResumes, BoxQuiet
<1>17. CASE BoxRests
  BY <1>3, <1>17 DEF BoxRests, BoxQuiet
<1> QED
  BY <1>4, <1>5, <1>6, <1>7, <1>8, <1>10, <1>11, <1>12, <1>13, <1>14, <1>15, <1>16, <1>17
     DEF BoxMove

\* A thread without fibers is in one place.
LEMMA BoxSolos ==
  ASSUME BoxTypes, PassInv, ListInv, NoteInv, SoloInv, BoxMove
  PROVE  SoloInv'
<1> DEFINE Open == {"unlock", "asleep", "late"}
           Once == \A c, d \in Clients :
                     /\ popped[c] # None /\ popped[d] # None
                     /\ popped[c].of = popped[d].of /\ popped[c].of \in Solos
                     => c = d
<1>1. /\ \A s \in Solos : s \in Clients /\ s \notin Fibers
      /\ \A f \in Fibers : f \in Clients
      /\ \A c \in Clients : popped[c] # None => pc[c] = "wake" /\ popped[c].of # c
      /\ waiters \in Seq(Clients) /\ NoTwice(waiters) /\ event \subseteq Solos
      /\ popped \in [Clients -> TBox!Objects \cup {None}]
  BY ThreadsAssumption DEF Clients, BoxTypes, NoteInv, ListInv
<1>2. /\ \A s \in Solos : s \in Items(waiters) => pc[s] \in Open /\ s \notin event /\ ~Pending(s)
      /\ \A s \in Solos : Pending(s) => pc[s] \in Open /\ s \notin event
      /\ \A s \in Solos : pc[s] \in {"unlock", "asleep"} =>
           s \in Items(waiters) \/ Pending(s) \/ s \in event
      /\ Once
  BY DEF SoloInv
<1>3. UNCHANGED popped => Once' /\ \A s \in Solos : Pending(s)' <=> Pending(s)
  BY <1>2 DEF Pending
<1>4. ASSUME UNCHANGED <<pc, waiters, popped, event>> PROVE SoloInv'
  BY <1>2, <1>3, <1>4 DEF SoloInv
\* Client c goes on while the list, the events and what is popped stay the same for
\* threads without fibers.
<1>5. ASSUME NEW c \in Clients, NEW label, NEW work, BoxGoes(c, label, work),
             UNCHANGED event, Once', \A s \in Solos : Pending(s)' <=> Pending(s),
             \A s \in Solos : s \in Items(waiters') <=> s \in Items(waiters),
             c \in Solos => /\ c \in Items(waiters) \/ Pending(c) => label \in Open
                            /\ label \in {"unlock", "asleep"} => pc[c] \in {"unlock", "asleep"}
      PROVE  SoloInv'
  <2>1. \A d \in Clients : pc'[d] = IF d = c THEN label ELSE pc[d]
    BY <1>5, BoxGone
  <2>2. \A s \in Solos : pc'[s] \in {"unlock", "asleep"} => pc[s] \in {"unlock", "asleep"}
    BY <1>1, <1>5, <2>1
  <2>3. \A s \in Solos : s \in Items(waiters) \/ Pending(s) => pc'[s] \in Open
    BY <1>1, <1>2, <1>5, <2>1
  <2> QED
    BY <1>2, <1>5, <2>2, <2>3 DEF SoloInv
<1>6. ASSUME NEW c \in Clients, NEW label \in TBox!PCs, NEW work \in TBox!Jobs,
             BoxMoves(c, label, work)
      PROVE  SoloInv'
  <2>1. BoxGoes(c, label, work) /\ UNCHANGED <<waiters, popped, event>>
    BY <1>6 DEF BoxMoves, BoxQuiet
  <2>2. ASSUME c \in Solos
        PROVE  /\ c \in Items(waiters) \/ Pending(c) => label \in Open
               /\ label \in {"unlock", "asleep"} => pc[c] \in {"unlock", "asleep"}
    <3>1. c \in Items(waiters) \/ Pending(c) => pc[c] \in Open /\ c \notin event
      BY <1>2, <2>2
    <3> QED
      BY <1>1, <1>6, <2>2, <3>1 DEF BoxMoves
  <2> QED
    BY <1>3, <1>5, <2>1, <2>2
<1>7. ASSUME NEW c \in Clients, NEW work \in TBox!Jobs, BoxPops(c, work) PROVE SoloInv'
  <2>1. /\ \A d \in Clients : pc'[d] = IF d = c THEN "wake" ELSE pc[d]
        /\ UNCHANGED event /\ pc[c] \in {"in", "out"} /\ popped[c] = None
    BY <1>1, <1>7, BoxGone DEF BoxPops
  <2>2. PICK h \in Items(waiters) :
          /\ h \in Clients /\ Items(waiters') = Items(waiters) \ {h}
          /\ popped'[c] # None /\ popped'[c].of = h
          /\ \A d \in Clients : d # c => popped'[d] = popped[d]
    BY <1>7, BoxPopped
  <2>3. \A s \in Solos : Pending(s)' <=> Pending(s) \/ s = h
    BY <2>1, <2>2 DEF Pending
  <2>4. \A s \in Solos : s \in Items(waiters) \/ Pending(s) => s # c
    BY <1>2, <2>1
  <2>5. h \in Solos => ~Pending(h)
    BY <1>2
  <2>6. Once'
    BY <1>2, <2>1, <2>2, <2>5 DEF Pending
  <2>7. \A s \in Solos : s \in Items(waiters') => pc'[s] \in Open /\ s \notin event' /\ ~Pending(s)'
    BY <1>1, <1>2, <2>1, <2>2, <2>3, <2>4
  <2>8. \A s \in Solos : Pending(s)' => pc'[s] \in Open /\ s \notin event'
    BY <1>1, <1>2, <2>1, <2>3, <2>4
  <2>9. \A s \in Solos : pc'[s] \in {"unlock", "asleep"} =>
          s \in Items(waiters') \/ Pending(s)' \/ s \in event'
    BY <1>1, <1>2, <2>1, <2>2, <2>3
  <2> QED
    BY <2>6, <2>7, <2>8, <2>9 DEF SoloInv
<1>8. ASSUME NEW c \in Clients, NEW work \in TBox!Jobs, BoxDeletes(c, work) PROVE SoloInv'
  <2>1. BoxGoes(c, "in", work) /\ c \in Fibers /\ UNCHANGED <<popped, event>>
    BY <1>8 DEF BoxDeletes
  <2>2. Items(waiters') = Items(waiters) \ {c}
    BY <1>1, <1>8, DeleteObjItems DEF BoxDeletes
  <2> QED
    BY <1>1, <1>3, <1>5, <2>1, <2>2
<1>9. ASSUME NEW c \in Clients, BoxGivesUp(c) PROVE SoloInv'
  <2>1. /\ \A d \in Clients : pc'[d] = IF d = c THEN "expired" ELSE pc[d]
        /\ UNCHANGED event /\ c \in Solos
        /\ \A d \in Clients : popped'[d] = IF popped[d] # None /\ popped[d].of = c
                                           THEN None ELSE popped[d]
    BY <1>9, BoxGone DEF BoxGivesUp
  <2>2. Items(waiters') = Items(waiters) \ {c}
    BY <1>1, <1>9, DeleteObjItems DEF BoxGivesUp
  <2>3. \A s \in Solos : Pending(s)' <=> Pending(s) /\ s # c
    BY <2>1 DEF Pending
  <2>4. Once'
    BY <1>2, <2>1
  <2>5. \A s \in Solos : s \in Items(waiters') => pc'[s] \in Open /\ s \notin event' /\ ~Pending(s)'
    BY <1>1, <1>2, <2>1, <2>2, <2>3
  <2>6. \A s \in Solos : Pending(s)' => pc'[s] \in Open /\ s \notin event'
    BY <1>1, <1>2, <2>1, <2>3
  <2>7. \A s \in Solos : pc'[s] \in {"unlock", "asleep"} =>
          s \in Items(waiters') \/ Pending(s)' \/ s \in event'
    BY <1>1, <1>2, <2>1, <2>2, <2>3
  <2> QED
    BY <2>4, <2>5, <2>6, <2>7 DEF SoloInv
<1>10. ASSUME NEW c \in Clients, BoxEnlists(c) PROVE SoloInv'
  <2>1. /\ \A d \in Clients : pc'[d] = IF d = c THEN "unlock" ELSE pc[d]
        /\ UNCHANGED popped /\ event' = event \ {c} /\ pc[c] = "in"
    BY <1>10, BoxGone DEF BoxEnlists
  <2>2. Items(waiters') = Items(waiters) \cup {c}
    BY <1>1, <1>10, AppendItems DEF BoxEnlists
  <2>3. c \in Solos => ~Pending(c)
    BY <1>2, <2>1
  <2>4. \A s \in Solos : s \in Items(waiters') => pc'[s] \in Open /\ s \notin event' /\ ~Pending(s)'
    BY <1>1, <1>2, <1>3, <2>1, <2>2, <2>3
  <2>5. \A s \in Solos : Pending(s)' => pc'[s] \in Open /\ s \notin event'
    BY <1>1, <1>2, <1>3, <2>1
  <2>6. \A s \in Solos : pc'[s] \in {"unlock", "asleep"} =>
          s \in Items(waiters') \/ Pending(s)' \/ s \in event'
    BY <1>1, <1>2, <1>3, <2>1, <2>2
  <2> QED
    BY <1>3, <2>1, <2>4, <2>5, <2>6 DEF SoloInv
<1>11. ASSUME NEW c \in Clients, NEW label \in TBox!PCs, BoxWakes(c, label)
       PROVE  /\ BoxGoes(c, label, job[c]) /\ pc[c] = "wake" /\ label \in {"in", "out"}
              /\ UNCHANGED waiters /\ Once'
              /\ \A d \in Clients : popped'[d] = IF d = c THEN None ELSE popped[d]
  <2>1. \A d \in Clients : popped'[d] = IF d = c THEN None ELSE popped[d]
    BY <1>1, <1>11 DEF BoxWakes
  <2>2. Once'
    BY <1>2, <2>1
  <2> QED
    BY <1>11, <2>1, <2>2 DEF BoxWakes
<1>12. ASSUME NEW c \in Clients, NEW label \in TBox!PCs,
              BoxWakesNobody(c, label) \/ BoxWakesFiber(c, label) \/ BoxSends(c, label)
       PROVE  SoloInv'
  <2>1. BoxWakes(c, label) /\ UNCHANGED event /\ (popped[c] # None => popped[c].of \notin Solos)
    BY <1>12 DEF BoxWakesNobody, BoxWakesFiber, BoxSends
  <2>2. \A s \in Solos : Pending(s)' <=> Pending(s)
    BY <1>11, <2>1 DEF Pending
  <2>3. c \in Solos => c \notin Items(waiters) /\ ~Pending(c)
    BY <1>2, <1>11, <2>1
  <2> QED
    BY <1>5, <1>11, <2>1, <2>2, <2>3
<1>13. ASSUME NEW c \in Clients, NEW label \in TBox!PCs, BoxWakesSolo(c, label)
       PROVE  SoloInv'
  <2>1. PICK h \in Solos : h = popped[c].of
    BY <1>13 DEF BoxWakesSolo
  <2>2. BoxWakes(c, label) /\ event' = event \cup {h} /\ popped[c] # None
    BY <1>13, <2>1 DEF BoxWakesSolo
  <2>3. /\ \A d \in Clients : pc'[d] = IF d = c THEN label ELSE pc[d]
        /\ label \in {"in", "out"} /\ pc[c] = "wake" /\ UNCHANGED waiters /\ Once'
        /\ \A d \in Clients : popped'[d] = IF d = c THEN None ELSE popped[d]
    BY <1>11, <2>2, BoxGone
  <2>4. Pending(h) /\ h \notin Items(waiters) /\ h # c
    BY <1>1, <1>2, <2>1, <2>2 DEF Pending
  <2>5. \A d \in Clients : d # c /\ popped[d] # None => popped[d].of # h
    BY <1>2, <2>1, <2>2
  <2>6. \A s \in Solos : Pending(s)' <=> Pending(s) /\ s # h
    BY <2>1, <2>3, <2>5 DEF Pending
  <2>7. \A s \in Solos : s \in Items(waiters) \/ Pending(s) => s # c
    BY <1>2, <2>3
  <2>8. \A s \in Solos : s \in Items(waiters') => pc'[s] \in Open /\ s \notin event' /\ ~Pending(s)'
    BY <1>1, <1>2, <2>2, <2>3, <2>4, <2>6, <2>7
  <2>9. \A s \in Solos : Pending(s)' => pc'[s] \in Open /\ s \notin event'
    BY <1>1, <1>2, <2>2, <2>3, <2>6, <2>7
  <2>10. \A s \in Solos : pc'[s] \in {"unlock", "asleep"} =>
           s \in Items(waiters') \/ Pending(s)' \/ s \in event'
    BY <1>1, <1>2, <2>2, <2>3, <2>6
  <2> QED
    BY <2>3, <2>8, <2>9, <2>10 DEF SoloInv
<1>14. ASSUME NEW f \in Fibers, BoxReadies(f) PROVE SoloInv'
  BY <1>4, <1>14 DEF BoxReadies, BoxQuiet
<1>15. ASSUME NEW f \in Fibers, BoxRaises(f) PROVE SoloInv'
  BY <1>4, <1>15 DEF BoxRaises
<1>16. ASSUME NEW f \in Fibers, NEW label \in TBox!PCs, BoxSwitches(f, label)
       PROVE  SoloInv'
  <2>1. BoxGoes(f, label, job[f]) /\ UNCHANGED <<waiters, popped, event>> /\ f \notin Solos
    BY <1>1, <1>16 DEF BoxSwitches, BoxQuiet
  <2> QED
    BY <1>1, <1>3, <1>5, <2>1
<1>17. ASSUME NEW t \in Threads, BoxDelivers(t) PROVE SoloInv'
  BY <1>4, <1>17 DEF BoxDelivers
<1>18. ASSUME NEW t \in Threads, BoxResumes(t) PROVE SoloInv'
  BY <1>4, <1>18 DEF BoxResumes, BoxQuiet
<1>19. CASE BoxRests
  BY <1>4, <1>19 DEF BoxRests, BoxQuiet
<1> QED
  BY <1>6, <1>7, <1>8, <1>9, <1>10, <1>12, <1>13, <1>14, <1>15, <1>16, <1>17, <1>18, <1>19
     DEF BoxMove

\* The timer holds those who sleep, and those who sleep can be woken.
LEMMA BoxDozes ==
  ASSUME BoxTypes, PassInv, ListInv, NoteInv, TimerInv, RouseInv, BoxMove
  PROVE  TimerInv' /\ RouseInv'
<1>1. /\ \A s \in Solos : s \in Clients /\ s \notin Fibers
      /\ \A f \in Fibers : f \in Clients /\ f \notin Solos /\ Home[f] \in Threads /\ f # None
      /\ \A c \in Clients : c \notin Solos => c \in Fibers
      /\ SchedInv /\ waiters \in Seq(Clients) /\ NoTwice(waiters)
      /\ popped \in [Clients -> TBox!Objects \cup {None}]
      /\ \A c \in Clients : popped[c] # None => pc[c] = "wake" /\ popped[c].of # c
      /\ \A f \in Fibers : pc[f] \in {"unlock", "switch"} => Runs(f)
  BY ThreadsAssumption DEF Clients, BoxTypes, NoteInv, ListInv, PassInv
<1>2. /\ \A f \in Fibers : ~(Runs(f) /\ InRing(f))
      /\ \A f \in Fibers : f \in timers <=> f \in hasty /\ Dozing(f)
      /\ \A f \in Fibers : Dozing(f) => f \in Items(waiters) \/ Pending(f) \/ Mailed(f)
  BY DEF TimerInv, RouseInv
<1>3. /\ UNCHANGED <<running, ready>> =>
           \A f \in Fibers : (Runs(f)' <=> Runs(f)) /\ (InRing(f)' <=> InRing(f))
      /\ UNCHANGED mbox => \A f \in Fibers : Mailed(f)' <=> Mailed(f)
      /\ UNCHANGED popped => \A f \in Fibers : Pending(f)' <=> Pending(f)
  BY SchedSame DEF Mailed, Pending
\* Nobody falls asleep, and who sleeps is still in the list, popped or mailed.
<1>4. ASSUME \A f \in Fibers : Dozing(f)' => Dozing(f),
             \A f \in Fibers : Dozing(f)' /\ f \in Items(waiters) => f \in Items(waiters') \/ Pending(f)',
             \A f \in Fibers : Dozing(f)' /\ Pending(f) => Pending(f)' \/ Mailed(f)',
             \A f \in Fibers : Dozing(f)' /\ Mailed(f) => Mailed(f)'
      PROVE  RouseInv'
  BY <1>2, <1>4 DEF RouseInv
<1>5. ASSUME \A f \in Fibers : Dozing(f)' <=> Dozing(f), UNCHANGED <<timers, hasty>>,
             \A f \in Fibers : ~(Runs(f)' /\ InRing(f)')
      PROVE  TimerInv'
  BY <1>2, <1>5 DEF TimerInv
\* A running client goes on, and does not go to sleep.
<1>6. ASSUME NEW c \in Clients, NEW label, NEW work, BoxGoes(c, label, work), Runs(c),
             UNCHANGED <<running, ready>>,
             c \in Fibers => (label \in {"unlock", "switch"} <=> pc[c] \in {"unlock", "switch"})
      PROVE  /\ \A f \in Fibers : Dozing(f)' <=> Dozing(f)
             /\ \A f \in Fibers : ~(Runs(f)' /\ InRing(f)')
             /\ hasty' = hasty
  <2>1. /\ \A d \in Clients : pc'[d] = IF d = c THEN label ELSE pc[d]
        /\ hasty' = hasty
    BY <1>6, BoxGone
  <2>2. \A f \in Fibers : Dozing(f)' <=> Dozing(f)
    BY <1>1, <1>3, <1>6, <2>1 DEF Dozing
  <2> QED
    BY <1>2, <1>3, <1>6, <2>1, <2>2
<1>7. ASSUME NEW c \in Clients, NEW label \in TBox!PCs, NEW work \in TBox!Jobs,
             BoxMoves(c, label, work)
      PROVE  TimerInv' /\ RouseInv'
  <2>1. /\ BoxGoes(c, label, work) /\ Runs(c)
        /\ UNCHANGED <<running, ready, waiters, timers, popped, mbox>>
        /\ c \in Fibers => (label \in {"unlock", "switch"} <=> pc[c] \in {"unlock", "switch"})
    BY <1>1, <1>7 DEF BoxMoves, BoxQuiet
  <2>2. /\ \A f \in Fibers : Dozing(f)' <=> Dozing(f)
        /\ \A f \in Fibers : ~(Runs(f)' /\ InRing(f)')
        /\ hasty' = hasty
    BY <1>6, <2>1
  <2> QED
    BY <1>3, <1>4, <1>5, <2>1, <2>2
<1>8. ASSUME NEW c \in Clients, NEW work \in TBox!Jobs, BoxPops(c, work)
      PROVE  TimerInv' /\ RouseInv'
  <2>1. /\ BoxGoes(c, "wake", work) /\ Runs(c) /\ pc[c] \in {"in", "out"}
        /\ UNCHANGED <<running, ready, timers, mbox>>
    BY <1>8 DEF BoxPops
  <2>2. /\ \A f \in Fibers : Dozing(f)' <=> Dozing(f)
        /\ \A f \in Fibers : ~(Runs(f)' /\ InRing(f)')
        /\ hasty' = hasty
    BY <1>6, <2>1
  <2>3. PICK h \in Items(waiters) :
          /\ Items(waiters') = Items(waiters) \ {h}
          /\ popped'[c] # None /\ popped'[c].of = h
          /\ \A d \in Clients : d # c => popped'[d] = popped[d]
    BY <1>8, BoxPopped
  <2>4. popped[c] = None
    BY <1>1, <2>1
  <2>5. \A f \in Fibers : Pending(f) \/ f = h => Pending(f)'
    BY <2>3, <2>4 DEF Pending
  <2> QED
    BY <1>3, <1>4, <1>5, <2>1, <2>2, <2>3, <2>5
<1>9. ASSUME NEW c \in Clients, NEW work \in TBox!Jobs, BoxDeletes(c, work)
      PROVE  TimerInv' /\ RouseInv'
  <2>1. /\ BoxGoes(c, "in", work) /\ Runs(c) /\ pc[c] = "delete" /\ c \in Fibers
        /\ UNCHANGED <<running, ready, timers, mbox, popped>>
    BY <1>9 DEF BoxDeletes
  <2>2. /\ \A f \in Fibers : Dozing(f)' <=> Dozing(f)
        /\ \A f \in Fibers : ~(Runs(f)' /\ InRing(f)')
        /\ hasty' = hasty
    BY <1>6, <2>1
  <2>3. Items(waiters') = Items(waiters) \ {c}
    BY <1>1, <1>9, DeleteObjItems DEF BoxDeletes
  <2>4. ~Dozing(c)
    BY <2>1 DEF Dozing
  <2> QED
    BY <1>3, <1>4, <1>5, <2>1, <2>2, <2>3, <2>4
<1>10. ASSUME NEW c \in Clients, BoxGivesUp(c) PROVE TimerInv' /\ RouseInv'
  <2>1. /\ BoxGoes(c, "expired", job[c]) /\ Runs(c) /\ c \in Solos
        /\ UNCHANGED <<running, ready, timers, mbox>>
        /\ \A d \in Clients : popped'[d] = IF popped[d] # None /\ popped[d].of = c
                                           THEN None ELSE popped[d]
    BY <1>1, <1>10 DEF BoxGivesUp, Runs
  <2>2. /\ \A f \in Fibers : Dozing(f)' <=> Dozing(f)
        /\ \A f \in Fibers : ~(Runs(f)' /\ InRing(f)')
        /\ hasty' = hasty
    BY <1>1, <1>6, <2>1
  <2>3. Items(waiters') = Items(waiters) \ {c}
    BY <1>1, <1>10, DeleteObjItems DEF BoxGivesUp
  <2>4. \A f \in Fibers : Pending(f) => Pending(f)'
    <3> SUFFICES ASSUME NEW f \in Fibers, Pending(f) PROVE Pending(f)'
      OBVIOUS
    <3>1. PICK d \in Clients : popped[d] # None /\ popped[d].of = f
      BY DEF Pending
    <3>2. popped'[d] = popped[d]
      BY <1>1, <2>1, <3>1
    <3> QED
      BY <3>1, <3>2 DEF Pending
  <2> QED
    BY <1>1, <1>3, <1>4, <1>5, <2>1, <2>2, <2>3, <2>4
<1>11. ASSUME NEW c \in Clients, BoxEnlists(c) PROVE TimerInv' /\ RouseInv'
  <2>1. /\ \A d \in Clients : pc'[d] = IF d = c THEN "unlock" ELSE pc[d]
        /\ hasty' = hasty /\ Runs(c) /\ pc[c] = "in"
        /\ UNCHANGED <<running, ready, mbox, popped>>
        /\ timers' = IF c \in hasty /\ c \in Fibers THEN timers \cup {c} ELSE timers
    BY <1>11, BoxGone DEF BoxEnlists
  <2>2. Items(waiters') = Items(waiters) \cup {c}
    BY <1>1, <1>11, AppendItems DEF BoxEnlists
  <2>3. \A f \in Fibers : Dozing(f)' <=> Dozing(f) \/ f = c
    BY <1>1, <1>3, <2>1 DEF Dozing
  <2>4. c \in Fibers => ~Dozing(c)
    BY <2>1 DEF Dozing
  <2>5. \A f \in Fibers : f \in timers' <=> f \in hasty /\ Dozing(f)'
    BY <1>2, <2>1, <2>3, <2>4
  <2>6. TimerInv'
    BY <1>2, <1>3, <2>1, <2>5 DEF TimerInv
  <2>7. RouseInv'
    BY <1>2, <1>3, <2>1, <2>2, <2>3 DEF RouseInv
  <2> QED
    BY <2>6, <2>7
<1>12. ASSUME NEW c \in Clients, NEW label \in TBox!PCs, BoxWakes(c, label)
       PROVE  /\ BoxGoes(c, label, job[c]) /\ Runs(c) /\ pc[c] = "wake"
              /\ label \in {"in", "out"} /\ UNCHANGED <<running, waiters>>
              /\ \A d \in Clients : popped'[d] = IF d = c THEN None ELSE popped[d]
  BY <1>1, <1>12 DEF BoxWakes
<1>13. ASSUME NEW c \in Clients, NEW label \in TBox!PCs,
              BoxWakesNobody(c, label) \/ BoxWakesSolo(c, label)
       PROVE  TimerInv' /\ RouseInv'
  <2>1. /\ BoxWakes(c, label) /\ UNCHANGED <<ready, mbox, timers>>
        /\ popped[c] # None => popped[c].of \in Solos
    BY <1>13 DEF BoxWakesNobody, BoxWakesSolo
  <2>2. /\ \A f \in Fibers : Dozing(f)' <=> Dozing(f)
        /\ \A f \in Fibers : ~(Runs(f)' /\ InRing(f)')
        /\ hasty' = hasty
    BY <1>6, <1>12, <2>1
  <2>3. \A f \in Fibers : Pending(f) => Pending(f)'
    BY <1>1, <1>12, <2>1 DEF Pending
  <2> QED
    BY <1>3, <1>4, <1>5, <1>12, <2>1, <2>2, <2>3
<1>14. ASSUME NEW c \in Clients, NEW label \in TBox!PCs, BoxSends(c, label)
       PROVE  TimerInv' /\ RouseInv'
  <2>1. BoxWakes(c, label) /\ UNCHANGED <<ready, timers>>
    BY <1>14 DEF BoxSends
  <2>2. /\ \A f \in Fibers : Dozing(f)' <=> Dozing(f)
        /\ \A f \in Fibers : ~(Runs(f)' /\ InRing(f)')
        /\ hasty' = hasty
    BY <1>6, <1>12, <2>1
  <2>3. PICK obj : obj = popped[c]
    OBVIOUS
  <2>4. /\ obj.of \in Fibers
        /\ \A t \in Threads : Items(mbox'[t]) = IF t = Home[obj.of]
                                                THEN Items(mbox[t]) \cup {obj} ELSE Items(mbox[t])
    BY <1>14, <2>3, BoxSent
  <2>5. \A f \in Fibers : Mailed(f) => Mailed(f)'
    BY <1>1, <2>4 DEF Mailed
  <2>6. \A f \in Fibers : f = obj.of => Mailed(f)'
    BY <1>1, <2>4 DEF Mailed
  <2>7. \A f \in Fibers : Pending(f) => Pending(f)' \/ Mailed(f)'
    <3> SUFFICES ASSUME NEW f \in Fibers, Pending(f), f # obj.of PROVE Pending(f)'
      BY <2>6
    <3>1. PICK d \in Clients : popped[d] # None /\ popped[d].of = f
      BY DEF Pending
    <3>2. popped'[d] = popped[d]
      BY <1>12, <2>1, <2>3, <3>1
    <3> QED
      BY <3>1, <3>2 DEF Pending
  <2> QED
    BY <1>4, <1>5, <1>12, <2>1, <2>2, <2>5, <2>7
\* Fiber h is roused while it does not run.
<1>15. ASSUME NEW h \in Fibers, NEW delayed, BoxRouses(h, delayed), UNCHANGED <<running, hasty>>,
              delayed <=> h \in hasty, ~Runs(h), \A f \in Fibers : ~Runs(f) => pc'[f] = pc[f],
              \A f \in Fibers : Runs(f) => (pc'[f] \in {"unlock", "switch"} <=> pc[f] \in {"unlock", "switch"})
       PROVE  /\ TimerInv' /\ ~Dozing(h)'
              /\ \A f \in Fibers : Dozing(f)' => Dozing(f)
  <2>1. /\ \A g \in Fibers : (Runs(g)' <=> Runs(g)) /\ (InRing(g) => InRing(g)')
        /\ \A g \in Fibers : g # h => (InRing(g)' <=> InRing(g))
        /\ \/ (delayed => h \in timers) /\ InRing(h)' /\ timers' = timers \ {h}
           \/ delayed /\ h \notin timers /\ UNCHANGED <<ready, timers>>
    BY <1>1, <1>15, BoxRoused
  <2>2. pc[h] \notin {"unlock", "switch"}
    BY <1>1, <1>15
  <2>3. \A f \in Fibers : f # h => (Dozing(f)' <=> Dozing(f))
    BY <1>15, <2>1 DEF Dozing
  <2>4. ~Dozing(h)' /\ h \notin timers'
    <3>1. CASE (delayed => h \in timers) /\ InRing(h)' /\ timers' = timers \ {h}
      BY <1>15, <2>2, <3>1 DEF Dozing
    <3>2. CASE delayed /\ h \notin timers /\ UNCHANGED <<ready, timers>>
      <4>1. ~Dozing(h) /\ (InRing(h)' <=> InRing(h))
        BY <1>2, <1>15, <3>2 DEF InRing
      <4> QED
        BY <1>15, <2>1, <3>2, <4>1 DEF Dozing
    <3> QED
      BY <2>1, <3>1, <3>2
  <2>5. \A f \in Fibers : f \in timers' <=> f \in hasty' /\ Dozing(f)'
    BY <1>2, <1>15, <2>1, <2>3, <2>4
  <2>6. \A f \in Fibers : ~(Runs(f)' /\ InRing(f)')
    BY <1>2, <1>15, <2>1
  <2> QED
    BY <2>3, <2>4, <2>5, <2>6 DEF TimerInv
<1>16. ASSUME NEW c \in Clients, NEW label \in TBox!PCs, BoxWakesFiber(c, label)
       PROVE  TimerInv' /\ RouseInv'
  <2>1. /\ BoxWakes(c, label) /\ UNCHANGED mbox /\ popped[c] # None
        /\ popped[c] \in TBox!Objects
    BY <1>1, <1>16 DEF BoxWakesFiber
  <2>2. PICK h \in Fibers : h = popped[c].of
    BY <1>1, <1>16, <2>1, BoxUses DEF BoxWakesFiber, TBox!Objects
  <2>3. SameThread(c, h) /\ BoxRouses(h, popped[c].timed)
    BY <1>16, <2>2 DEF BoxWakesFiber
  <2>4. /\ \A d \in Clients : pc'[d] = IF d = c THEN label ELSE pc[d]
        /\ hasty' = hasty
    BY <1>12, <2>1, BoxGone
  <2>5. ~Runs(h) /\ (popped[c].timed <=> h \in hasty)
    BY <1>1, <1>12, <2>1, <2>2, <2>3 DEF Runs, SameThread, NoteInv
  <2>6. /\ TimerInv' /\ ~Dozing(h)'
        /\ \A f \in Fibers : Dozing(f)' => Dozing(f)
    BY <1>1, <1>12, <1>15, <2>1, <2>3, <2>4, <2>5
  <2>7. \A f \in Fibers : f # h /\ Pending(f) => Pending(f)'
    BY <1>12, <2>1, <2>2 DEF Pending
  <2> QED
    BY <1>3, <1>4, <1>12, <2>1, <2>6, <2>7
<1>17. ASSUME NEW t \in Threads, BoxDelivers(t) PROVE TimerInv' /\ RouseInv'
  <2>1. PICK m \in Items(mbox[t]) :
          /\ m.of \in Fibers /\ Home[m.of] = t /\ (m.timed <=> m.of \in hasty)
          /\ BoxRouses(m.of, m.timed) /\ UNCHANGED running /\ running[t] = None
          /\ Items(mbox[t]) = Items(mbox'[t]) \cup {m}
          /\ \A u \in Threads : u # t => mbox'[u] = mbox[u]
    BY <1>17, BoxDelivered
  <2>2. PICK h \in Fibers : h = m.of
    BY <2>1
  <2>3. UNCHANGED <<pc, hasty, waiters, popped>>
    BY <1>17 DEF BoxDelivers
  <2>4. ~Runs(h)
    BY <1>1, <2>1, <2>2 DEF Runs
  <2>5. /\ TimerInv' /\ ~Dozing(h)'
        /\ \A f \in Fibers : Dozing(f)' => Dozing(f)
    BY <1>15, <2>1, <2>2, <2>3, <2>4
  <2>6. \A f \in Fibers : f # h /\ Mailed(f) => Mailed(f)'
    <3> SUFFICES ASSUME NEW f \in Fibers, f # h, Mailed(f) PROVE Mailed(f)'
      OBVIOUS
    <3>1. PICK n \in Items(mbox[Home[f]]) : n.of = f
      BY DEF Mailed
    <3>2. n \in Items(mbox'[Home[f]])
      BY <1>1, <2>1, <2>2, <3>1
    <3> QED
      BY <3>1, <3>2 DEF Mailed
  <2> QED
    BY <1>3, <1>4, <2>3, <2>5, <2>6
<1>18. ASSUME NEW f \in Fibers, BoxRaises(f) PROVE TimerInv' /\ RouseInv'
  <2>1. ~Runs(f)
    BY <1>1, <1>18, SuspendedMeans DEF BoxRaises, Runs
  <2>2. /\ \A g \in Fibers : (Runs(g)' <=> Runs(g)) /\ (InRing(g)' <=> InRing(g) \/ g = f)
        /\ timers' = timers \ {f} /\ UNCHANGED <<pc, hasty, mbox, waiters, popped>>
    BY <1>1, <1>18, ReadyStep DEF BoxRaises
  <2>3. /\ \A g \in Fibers : g # f => (Dozing(g)' <=> Dozing(g))
        /\ ~Dozing(f)'
    BY <1>1, <2>1, <2>2 DEF Dozing
  <2>4. TimerInv'
    BY <1>2, <2>1, <2>2, <2>3 DEF TimerInv
  <2>5. RouseInv'
    BY <1>3, <1>4, <2>2, <2>3
  <2> QED
    BY <2>4, <2>5
<1>19. ASSUME NEW f \in Fibers, BoxReadies(f) PROVE TimerInv' /\ RouseInv'
  <2>1. ~Runs(f)
    BY <1>1, <1>19, SuspendedMeans DEF BoxReadies
  <2>2. /\ \A g \in Fibers : (Runs(g)' <=> Runs(g)) /\ (InRing(g)' <=> InRing(g) \/ g = f)
        /\ UNCHANGED <<timers, pc, hasty, mbox, waiters, popped>>
    BY <1>1, <1>19, ReadyStep DEF BoxReadies, BoxQuiet
  <2>3. \A g \in Fibers : Dozing(g)' <=> Dozing(g)
    BY <1>19, <2>2 DEF BoxReadies, Dozing
  <2>4. \A g \in Fibers : ~(Runs(g)' /\ InRing(g)')
    BY <1>2, <2>1, <2>2
  <2> QED
    BY <1>3, <1>4, <1>5, <2>2, <2>3, <2>4
<1>20. ASSUME NEW f \in Fibers, NEW label \in TBox!PCs, BoxSwitches(f, label)
       PROVE  TimerInv' /\ RouseInv'
  <2>1. /\ \A d \in Clients : pc'[d] = IF d = f THEN label ELSE pc[d]
        /\ UNCHANGED <<hasty, timers, mbox, waiters, popped>> /\ Runs(f)
    BY <1>1, <1>20, BoxGone DEF BoxSwitches, BoxQuiet
  <2>2. /\ ~Runs(f)'
        /\ \A g \in Fibers : g # f => (Runs(g)' <=> Runs(g))
        /\ \A g \in Fibers : InRing(g)' <=> InRing(g)
    BY <1>1, <1>20, SwitchStep DEF BoxSwitches
  <2>3. ~InRing(f)'
    BY <1>2, <2>1, <2>2
  <2>4. Dozing(f)' <=> Dozing(f)
    BY <1>1, <1>20, <2>1, <2>2, <2>3 DEF Dozing, BoxSwitches
  <2>5. \A g \in Fibers : Dozing(g)' <=> Dozing(g)
    BY <1>1, <2>1, <2>2, <2>4 DEF Dozing
  <2>6. \A g \in Fibers : ~(Runs(g)' /\ InRing(g)')
    BY <1>2, <2>2
  <2> QED
    BY <1>3, <1>4, <1>5, <2>1, <2>5, <2>6
<1>21. ASSUME NEW t \in Threads, BoxResumes(t) PROVE TimerInv' /\ RouseInv'
  <2>1. /\ UNCHANGED <<hasty, timers, mbox, waiters, popped, pc>>
        /\ \A g \in Fibers :
             /\ Runs(g)' => Runs(g) \/ InRing(g)
             /\ InRing(g)' => InRing(g)
             /\ Runs(g) => Runs(g)'
             /\ InRing(g) => Runs(g)' \/ InRing(g)'
             /\ ~(Runs(g) /\ InRing(g)) => ~(Runs(g)' /\ InRing(g)')
    BY <1>1, <1>21, ResumeStep DEF BoxResumes, BoxQuiet
  <2>2. \A g \in Fibers : Dozing(g)' <=> Dozing(g)
    BY <2>1 DEF Dozing
  <2>3. \A g \in Fibers : ~(Runs(g)' /\ InRing(g)')
    BY <1>2, <2>1
  <2> QED
    BY <1>3, <1>4, <1>5, <2>1, <2>2, <2>3
<1>22. CASE BoxRests
  <2>1. UNCHANGED <<running, ready, hasty, timers, mbox, waiters, popped, pc>>
    BY <1>22 DEF BoxRests, BoxQuiet
  <2>2. \A g \in Fibers : Dozing(g)' <=> Dozing(g)
    BY <1>3, <2>1 DEF Dozing
  <2> QED
    BY <1>2, <1>3, <1>4, <1>5, <2>1, <2>2
<1> QED
  BY <1>7, <1>8, <1>9, <1>10, <1>11, <1>13, <1>14, <1>16, <1>17, <1>18, <1>19, <1>20, <1>21,
     <1>22 DEF BoxMove

\* Sets of clients are finite.
LEMMA ClientSets ==
  /\ \A S \in SUBSET Clients : IsFiniteSet(S) /\ Cardinality(S) \in Nat
  /\ \A T \in SUBSET Clients : \A S \in SUBSET T : Cardinality(S) <= Cardinality(T)
  /\ \A S \in SUBSET Clients : \A c \in Clients \ S : Cardinality(S \cup {c}) = Cardinality(S) + 1
  /\ \A S \in SUBSET Clients : \A c \in S : Cardinality(S \ {c}) = Cardinality(S) - 1
<1>1. \A S \in SUBSET Clients : IsFiniteSet(S) /\ Cardinality(S) \in Nat
  BY SharedAssumption, FS_Subset, FS_CardinalityType
<1>2. \A T \in SUBSET Clients : \A S \in SUBSET T : Cardinality(S) <= Cardinality(T)
  BY <1>1, FS_Subset
<1>3. \A S \in SUBSET Clients : \A c \in Clients \ S : Cardinality(S \cup {c}) = Cardinality(S) + 1
  BY <1>1, FS_AddElement
<1>4. \A S \in SUBSET Clients : \A c \in S : Cardinality(S \ {c}) = Cardinality(S) - 1
  BY <1>1, FS_RemoveElement
<1> QED
  BY <1>1, <1>2, <1>3, <1>4

\* Each object has somebody who comes for it.
LEMMA BoxObjects ==
  ASSUME BoxTypes, ListInv, ObjectInv, TBox!Next
  PROVE  ObjectInv'
<1> USE BoxUses DEF TBox!schedVars, TBox!condVars, TBox!waitVars, TBox!boxVars
<1>1. /\ \A c \in Users : c \in Clients
      /\ \A f \in Fibers : f \in Clients
      /\ waiters \in Seq(Clients) /\ NoTwice(waiters)
      /\ \A c \in Items(waiters) : job[c] = "pop"
      /\ \A c, work : TBox!Do(c, work) => \A d \in Clients : job'[d] = IF d = c THEN work ELSE job[d]
      /\ box \in Nat /\ pushed \in 0 .. MaxPush /\ MaxPush \in Nat
  BY SharedAssumption DEF Clients, BoxTypes, ListInv, ObjectInv, TBox!Do
<1>2. /\ Coming \in SUBSET Clients /\ Coming' \in SUBSET Clients
      /\ Pushing \in SUBSET Clients /\ Pushing' \in SUBSET Clients
      /\ \A S \in SUBSET Clients : Cardinality(S) \in Nat
      /\ \A c \in Clients : c \in Coming <=>
           \/ job[c] = "pop" /\ c \notin Items(waiters)
           \/ job[c] \in {"notify", "release", "announce"}
      /\ \A c \in Clients : c \in Coming' <=>
           \/ job'[c] = "pop" /\ c \notin Items(waiters')
           \/ job'[c] \in {"notify", "release", "announce"}
      /\ \A c \in Clients : (c \in Pushing <=> job[c] = "push") /\ (c \in Pushing' <=> job'[c] = "push")
  BY ClientSets DEF Coming, Pushing
<1>3. /\ hasty = {} /\ waiters # <<>> => box <= Cardinality(Coming)
      /\ box + Cardinality(Pushing) <= pushed
  BY DEF ObjectInv
\* No object comes or goes, and nobody less comes for one.
<1>4. ASSUME UNCHANGED <<box, pushed, hasty>>, Pushing' \subseteq Pushing,
             hasty = {} /\ waiters' # <<>> => waiters # <<>> /\ Coming \subseteq Coming'
      PROVE  ObjectInv'
  <2>1. Cardinality(Pushing') <= Cardinality(Pushing)
    BY <1>2, <1>4, ClientSets
  <2>2. hasty = {} /\ waiters' # <<>> => Cardinality(Coming) <= Cardinality(Coming')
    BY <1>2, <1>4, ClientSets
  <2> HIDE <1>4
  <2>3. hasty' = {} /\ waiters' # <<>> => box' <= Cardinality(Coming')
    BY <1>1, <1>2, <1>3, <1>4, <2>2
  <2>4. box' \in Nat /\ pushed' \in 0 .. MaxPush /\ box' + Cardinality(Pushing') <= pushed'
    BY <1>1, <1>2, <1>3, <1>4, <2>1
  <2> QED
    BY <2>3, <2>4 DEF ObjectInv
<1>5. ASSUME UNCHANGED <<box, pushed, job, hasty>>,
             waiters' = waiters \/ \E c \in Clients : waiters' = DeleteObj(waiters, c)
      PROVE  ObjectInv'
  <2>1. Items(waiters') \subseteq Items(waiters) /\ (waiters' # <<>> => waiters # <<>>)
    <3>1. CASE waiters' = waiters
      BY <3>1
    <3>2. CASE waiters' # waiters
      <4>1. PICK c \in Clients : waiters' = DeleteObj(waiters, c)
        BY <1>5, <3>2
      <4>2. waiters' \in Seq(Clients) /\ Items(waiters') = Items(waiters) \ {c}
        BY <1>1, <4>1, DeleteObjItems
      <4> QED
        BY <1>1, <4>2, ItemsType
    <3> QED
      BY <3>1, <3>2
  <2>2. Coming \subseteq Coming' /\ Pushing' \subseteq Pushing
    BY <1>2, <1>5, <2>1
  <2> QED
    BY <1>4, <1>5, <2>1, <2>2
<1>6. ASSUME NEW c \in Clients, TBox!Start(c) PROVE ObjectInv'
  <2>1. UNCHANGED <<waiters, box, hasty>> /\ job[c] = "none"
    BY <1>6 DEF TBox!Start, TBox!In
  <2>2. CASE TBox!Do(c, "pop") /\ UNCHANGED pushed
    <3>1. \A d \in Clients : job'[d] = IF d = c THEN "pop" ELSE job[d]
      BY <1>1, <2>2
    <3>2. Coming \subseteq Coming' /\ Pushing' \subseteq Pushing
      BY <1>2, <2>1, <3>1
    <3> QED
      BY <1>4, <2>1, <2>2, <3>2
  <2>3. CASE pushed < MaxPush /\ pushed' = pushed + 1 /\ TBox!Do(c, "push")
    <3>1. \A d \in Clients : job'[d] = IF d = c THEN "push" ELSE job[d]
      BY <1>1, <2>3
    <3>2. Coming' = Coming /\ Pushing' = Pushing \cup {c} /\ c \notin Pushing
      BY <1>2, <2>1, <3>1
    <3>3. Cardinality(Pushing') = Cardinality(Pushing) + 1
      BY <1>2, <3>2, ClientSets
    <3>4. pushed' \in 0 .. MaxPush /\ box + Cardinality(Pushing') <= pushed'
      BY <1>1, <1>2, <1>3, <2>3, <3>3
    <3> QED
      BY <1>1, <1>3, <2>1, <3>2, <3>4 DEF ObjectInv
  <2> QED
    BY <1>6, <2>2, <2>3 DEF TBox!Start
<1>7. ASSUME NEW c \in Clients, TBox!PushBack(c) PROVE ObjectInv'
  <2>1. /\ UNCHANGED <<waiters, pushed, hasty>> /\ job[c] = "push" /\ box' = box + 1
        /\ TBox!Do(c, "notify") \/ TBox!Do(c, "release")
    BY <1>7 DEF TBox!PushBack, TBox!In
  <2>2. job'[c] \in {"notify", "release"} /\ \A d \in Clients : d # c => job'[d] = job[d]
    BY <1>1, <2>1
  <2>3. Coming' = Coming \cup {c} /\ c \notin Coming /\ Pushing' = Pushing \ {c} /\ c \in Pushing
    BY <1>2, <2>1, <2>2
  <2>4. Cardinality(Coming') = Cardinality(Coming) + 1
        /\ Cardinality(Pushing') = Cardinality(Pushing) - 1
    BY <1>2, <2>3, ClientSets
  <2>5. box' \in Nat /\ box' + Cardinality(Pushing') <= pushed
    BY <1>1, <1>2, <1>3, <2>1, <2>4
  <2>6. hasty = {} /\ waiters # <<>> => box' <= Cardinality(Coming')
    BY <1>1, <1>2, <1>3, <2>1, <2>4
  <2> QED
    BY <1>1, <2>1, <2>5, <2>6 DEF ObjectInv
<1>8. ASSUME NEW c \in Clients, TBox!Release(c) \/ TBox!ReleaseBox(c) PROVE ObjectInv'
  <2>1. /\ UNCHANGED <<waiters, box, pushed, hasty>>
        /\ \/ job[c] = "release" /\ TBox!Do(c, "announce")
           \/ job[c] = "leave" /\ TBox!Do(c, "none")
    BY <1>8 DEF TBox!Release, TBox!ReleaseBox, TBox!Unlock, TBox!In
  <2>2. /\ \A d \in Clients : d # c => job'[d] = job[d]
        /\ \/ job[c] = "release" /\ job'[c] = "announce"
           \/ job[c] = "leave" /\ job'[c] = "none"
    BY <1>1, <2>1
  <2>3. Coming \subseteq Coming' /\ Pushing' \subseteq Pushing
    BY <1>2, <2>1, <2>2
  <2> QED
    BY <1>4, <2>1, <2>3
<1>9. ASSUME NEW c \in Clients, TBox!Notify(c) PROVE ObjectInv'
  <2>1. /\ UNCHANGED <<box, pushed, hasty>>
        /\ \/ job[c] = "notify" /\ TBox!Do(c, "leave")
           \/ job[c] = "announce" /\ TBox!Do(c, "none")
    BY <1>9 DEF TBox!Notify, TBox!In
  <2>2. /\ \A d \in Clients : d # c => job'[d] = job[d]
        /\ job[c] \in {"notify", "announce"} /\ job'[c] \in {"leave", "none"}
    BY <1>1, <2>1
  <2>3. Pushing' = Pushing
    BY <1>2, <2>2
  <2>4. CASE waiters = <<>>
    <3>1. waiters' = <<>>
      BY <1>9, <2>4 DEF TBox!Notify
    <3> QED
      BY <1>4, <2>1, <2>3, <3>1
  <2>5. CASE waiters # <<>>
    <3>1. waiters' = PopFront(waiters)
      BY <1>9, <2>5 DEF TBox!Notify, TBox!Announced, TBox!Pop
    <3>2. PICK h \in Clients : /\ h \in Items(waiters)
                               /\ Items(waiters') = Items(waiters) \ {h}
      BY <1>1, <2>5, <3>1, PopFrontItems
    <3>3. job[h] = "pop" /\ h # c /\ job'[h] = "pop"
      BY <1>1, <2>2, <3>2
    <3>4. /\ c \in Coming /\ h \notin Coming \ {c}
          /\ Coming' = (Coming \ {c}) \cup {h}
      BY <1>2, <2>2, <3>2, <3>3
    <3>5. Cardinality(Coming \ {c}) = Cardinality(Coming) - 1
          /\ Cardinality(Coming') = Cardinality(Coming \ {c}) + 1
      BY <1>2, <3>4, ClientSets
    <3>6. Cardinality(Coming') = Cardinality(Coming)
      BY <1>2, <3>5
    <3> QED
      BY <1>1, <1>3, <2>1, <2>3, <2>5, <3>6 DEF ObjectInv
  <2> QED
    BY <2>4, <2>5
<1>10. ASSUME NEW c \in Clients, TBox!Found(c) PROVE ObjectInv'
  <2>1. /\ UNCHANGED <<waiters, pushed, hasty>> /\ job[c] = "pop" /\ pc[c] = "in"
        /\ box > 0 /\ box' = box - 1 /\ TBox!Do(c, "leave")
    BY <1>10 DEF TBox!Found, TBox!In
  <2>2. \A d \in Clients : job'[d] = IF d = c THEN "leave" ELSE job[d]
    BY <1>1, <2>1
  <2>3. c \notin Items(waiters)
    BY <2>1 DEF ListInv, Waiting
  <2>4. Coming' = Coming \ {c} /\ c \in Coming /\ Pushing' = Pushing
    BY <1>2, <2>1, <2>2, <2>3
  <2>5. Cardinality(Coming') = Cardinality(Coming) - 1
    BY <1>2, <2>4, ClientSets
  <2>6. box' \in Nat /\ box' + Cardinality(Pushing) <= pushed
    BY <1>1, <1>2, <1>3, <2>1
  <2>7. hasty = {} /\ waiters # <<>> => box' <= Cardinality(Coming')
    BY <1>1, <1>2, <1>3, <2>1, <2>5
  <2> QED
    BY <1>1, <2>1, <2>4, <2>6, <2>7 DEF ObjectInv
<1>11. ASSUME NEW c \in Clients, TBox!Wait(c) PROVE ObjectInv'
  <2>1. UNCHANGED <<box, pushed, job, hasty>> /\ box = 0
    BY <1>11 DEF TBox!Wait
  <2>2. Pushing' = Pushing
    BY <2>1 DEF Pushing
  <2> QED
    BY <1>1, <1>2, <1>3, <2>1, <2>2 DEF ObjectInv
<1>12. ASSUME NEW c \in Clients, TBox!LockBox(c) PROVE ObjectInv'
  BY <1>5, <1>12 DEF TBox!LockBox, TBox!Lock, TBox!Acquire, TBox!Block
<1>13. ASSUME NEW c \in Clients, TBox!CondStep(c) PROVE ObjectInv'
  <2>1. UNCHANGED <<box, pushed, job, hasty>>
    BY <1>13 DEF TBox!CondStep
  <2>2. waiters' = waiters \/ waiters' = DeleteObj(waiters, c)
    BY <1>13 DEF TBox!CondStep, TBox!Wake, TBox!UnlockInWait, TBox!Woken, TBox!SoloWoken,
                 TBox!SoloTimeout, TBox!SoloLeave
  <2> QED
    BY <1>5, <2>1, <2>2
\* Only who is in a hurry ends its pop empty-handed.
<1>14. ASSUME NEW c \in Clients, UNCHANGED <<box, pushed, hasty>>,
              (c \in hasty /\ TBox!Do(c, "leave")) \/ UNCHANGED job,
              waiters' = waiters \/ waiters' = DeleteObj(waiters, c)
       PROVE  ObjectInv'
  <2>1. CASE UNCHANGED job
    BY <1>5, <1>14, <2>1
  <2>2. CASE c \in hasty /\ TBox!Do(c, "leave")
    <3>1. \A d \in Clients : job'[d] = IF d = c THEN "leave" ELSE job[d]
      BY <1>1, <2>2
    <3>2. Pushing' \subseteq Pushing
      BY <1>2, <3>1
    <3> QED
      BY <1>4, <1>14, <2>2, <3>2
  <2> QED
    BY <1>14, <2>1, <2>2
<1>15. ASSUME NEW c \in Clients, TBox!RelockBox(c) PROVE ObjectInv'
  <2>1. UNCHANGED <<box, pushed, hasty>> /\ ((c \in hasty /\ TBox!Do(c, "leave")) \/ UNCHANGED job)
    BY <1>15 DEF TBox!RelockBox, TBox!GivesUp
  <2>2. waiters' = waiters
    BY <1>15 DEF TBox!RelockBox, TBox!Relock, TBox!Acquire, TBox!Block
  <2> QED
    BY <1>14, <2>1, <2>2
<1>16. ASSUME NEW f \in Fibers, TBox!WaitReturns(f) PROVE ObjectInv'
  <2>1. UNCHANGED <<box, pushed, hasty>> /\ ((f \in hasty /\ TBox!Do(f, "leave")) \/ UNCHANGED job)
    BY <1>16 DEF TBox!WaitReturns, TBox!GivesUp
  <2>2. waiters' = DeleteObj(waiters, f)
    BY <1>16 DEF TBox!WaitReturns, TBox!Leave, TBox!Deleted
  <2> QED
    BY <1>1, <1>14, <2>1, <2>2
<1>17. ASSUME NEW f \in Fibers, TBox!FiberStep(f) PROVE ObjectInv'
  <2>1. UNCHANGED <<box, pushed, job, hasty>>
    BY <1>17 DEF TBox!FiberStep
  <2>2. waiters' = waiters
    BY <1>17 DEF TBox!FiberStep, TBox!Switch, TBox!MutexWakes, TBox!Fire, TBox!SleepElsewhere,
                 TBox!Event
  <2> QED
    BY <1>5, <2>1, <2>2
<1>18. ASSUME NEW f \in Fibers, NEW g \in Fibers, TBox!KillIdle(f, g) PROVE ObjectInv'
  BY <1>5, <1>18 DEF TBox!KillIdle, TBox!KillFiber
<1>19. ASSUME NEW t \in Threads, TBox!ThreadStep(t) PROVE ObjectInv'
  BY <1>5, <1>19 DEF TBox!ThreadStep, TBox!Deliver, TBox!Resume
<1>20. ASSUME NEW c \in Clients, TBox!BoxStep(c) PROVE ObjectInv'
  BY <1>7, <1>8, <1>9, <1>10, <1>11, <1>12, <1>13, <1>15, <1>20 DEF TBox!BoxStep
<1> QED
  BY <1>1, <1>6, <1>16, <1>17, <1>18, <1>19, <1>20 DEF TBox!Next


\* Flags are flags of fibers, and who is in a hurry stays so.
LEMMA BoxOthers ==
  ASSUME fired \subseteq Fibers, canceled \subseteq Fibers, TBox!Next
  PROVE  fired' \subseteq Fibers /\ canceled' \subseteq Fibers /\ hasty' = hasty
<1> DEFINE Kept == fired' \subseteq Fibers /\ canceled' \subseteq Fibers /\ hasty' = hasty
<1> USE DEF TBox!schedVars, TBox!condVars, TBox!waitVars, TBox!boxVars
<1>1. ASSUME NEW c, TBox!Start(c) \/ TBox!BoxStep(c) PROVE Kept
  <2>1. CASE TBox!Start(c)
    BY <2>1 DEF TBox!Start
  <2>2. CASE TBox!LockBox(c)
    BY <2>2 DEF TBox!LockBox, TBox!Lock, TBox!Acquire, TBox!Block
  <2>3. CASE TBox!PushBack(c) \/ TBox!Found(c)
    BY <2>3 DEF TBox!PushBack, TBox!Found
  <2>4. CASE TBox!Release(c) \/ TBox!ReleaseBox(c)
    BY <2>4 DEF TBox!Release, TBox!ReleaseBox, TBox!Unlock
  <2>5. CASE TBox!Notify(c)
    BY <2>5 DEF TBox!Notify, TBox!Announced, TBox!Pop
  <2>6. CASE TBox!Wait(c)
    BY <2>6 DEF TBox!Wait, TBox!Enlist
  <2>7. CASE TBox!CondStep(c)
    BY <2>7 DEF TBox!CondStep, TBox!Wake, TBox!UnlockInWait, TBox!Woken, TBox!SoloWoken,
                TBox!SoloTimeout, TBox!SoloLeave
  <2>8. CASE TBox!RelockBox(c)
    BY <2>8 DEF TBox!RelockBox, TBox!Relock, TBox!Acquire, TBox!Block
  <2> QED
    BY <1>1, <2>1, <2>2, <2>3, <2>4, <2>5, <2>6, <2>7, <2>8 DEF TBox!BoxStep
<1>2. ASSUME NEW f \in Fibers, TBox!WaitReturns(f) \/ TBox!FiberStep(f) PROVE Kept
  <2>1. CASE TBox!WaitReturns(f)
    BY <2>1 DEF TBox!WaitReturns, TBox!Leave
  <2>2. CASE TBox!FiberStep(f)
    BY <2>2 DEF TBox!FiberStep, TBox!Switch, TBox!MutexWakes, TBox!Fire, TBox!SleepElsewhere,
                TBox!Event
  <2> QED
    BY <1>2, <2>1, <2>2
<1>3. ASSUME NEW f \in Fibers, NEW g \in Fibers, TBox!KillIdle(f, g) PROVE Kept
  BY <1>3 DEF TBox!KillIdle, TBox!KillFiber, TBox!Cancel
<1>4. ASSUME NEW t \in Threads, TBox!ThreadStep(t) PROVE Kept
  BY <1>4 DEF TBox!ThreadStep, TBox!Deliver, TBox!Resume
<1> QED
  BY <1>1, <1>2, <1>3, <1>4 DEF TBox!Next

LEMMA BoxKeeps == ASSUME BoxInv, TBox!Next PROVE BoxInv'
<1>1. /\ BoxTypes /\ fired \subseteq Fibers /\ canceled \subseteq Fibers
      /\ hasty \in Hurries
      /\ PassInv /\ ListInv /\ NoteInv /\ SoloInv /\ TimerInv /\ RouseInv /\ ObjectInv
  BY DEF BoxInv
<1>2. BoxMove
  BY <1>1, BoxMoved DEF BoxTypes
<1>3. BoxTypes'
  BY <1>1, <1>2, BoxMoveTypes
<1>4. PassInv' /\ ListInv'
  BY <1>1, <1>2, BoxPasses, BoxLists
<1>5. NoteInv' /\ SoloInv'
  BY <1>1, <1>2, BoxNotes, BoxSolos
<1>6. TimerInv' /\ RouseInv'
  BY <1>1, <1>2, BoxDozes
<1>7. ObjectInv'
  BY <1>1, BoxObjects
<1>8. fired' \subseteq Fibers /\ canceled' \subseteq Fibers /\ hasty' \in Hurries
  BY <1>1, BoxOthers
<1> QED
  BY <1>3, <1>4, <1>5, <1>6, <1>7, <1>8 DEF BoxInv

LEMMA BoxSafe ==
  ASSUME BoxInv
  PROVE  /\ TBox!TypeOK /\ TBox!WaitersAreWaiting /\ TBox!PoppedAreWoken
         /\ TBox!TimersAreForWaiters /\ TBox!NoIdleObject
<1>1. /\ BoxTypes /\ fired \subseteq Fibers /\ canceled \subseteq Fibers
      /\ hasty \in Hurries
      /\ PassInv /\ ListInv /\ NoteInv /\ SoloInv /\ TimerInv /\ RouseInv /\ ObjectInv
  BY DEF BoxInv
<1>2. /\ \A f \in Fibers : f \in Clients /\ Home[f] \in Threads /\ f \notin Solos
      /\ \A s \in Solos : s \in Clients /\ s \notin Fibers
      /\ \A c \in Clients : c \notin Solos => c \in Fibers
      /\ waiters \in Seq(Clients) /\ NoTwice(waiters)
  BY <1>1, ThreadsAssumption DEF Clients, BoxTypes, ListInv
<1>3. TBox!TypeOK
  <2>1. Cardinality(Pushing) \in Nat
    BY ClientSets DEF Pushing
  <2>2. box \in 0 .. MaxPush /\ pushed \in 0 .. MaxPush
    <3>1. box \in Nat /\ pushed \in 0 .. MaxPush /\ box + Cardinality(Pushing) <= pushed
      BY <1>1 DEF ObjectInv
    <3> QED
      BY <2>1, <3>1, SharedAssumption
  <2>3. TBox!CondTypeOK
    BY <1>1, BoxUses DEF TBox!CondTypeOK, BoxTypes, SchedInv
  <2> QED
    BY <1>1, <2>2, <2>3, BoxUses DEF TBox!TypeOK, BoxTypes
<1>4. TBox!WaitersAreWaiting
  <2>1. TBox!Elements(waiters) = Items(waiters)
    BY <1>2, BoxUses, ElementsAreItems
  <2>2. Cardinality(Items(waiters)) = Len(waiters)
    BY <1>2, CountItems
  <2>3. TBox!Cardinality(Items(waiters)) = Cardinality(Items(waiters))
    BY DEF TBox!Cardinality, Cardinality
  <2> QED
    BY <1>1, <2>1, <2>2, <2>3 DEF TBox!WaitersAreWaiting, ListInv, Waiting
<1>5. TBox!PoppedAreWoken
  <2> SUFFICES ASSUME NEW c \in Clients, pc[c] = "asleep", c \notin Items(waiters),
                      ~Pending(c)
               PROVE  IF c \in Solos THEN c \in event
                      ELSE ~Suspended(c) \/ \E m \in TBox!Elements(mbox[Home[c]]) : m.of = c
    BY <1>2, BoxUses, ElementsAreItems DEF TBox!PoppedAreWoken, TBox!Wakes, Pending
  <2>1. CASE c \in Solos
    BY <1>1, <2>1 DEF SoloInv
  <2>2. CASE c \notin Solos /\ Suspended(c)
    <3>1. c \in Fibers /\ Dozing(c)
      BY <1>1, <1>2, <2>2, SuspendedMeans DEF Dozing, BoxTypes
    <3>2. Mailed(c)
      BY <1>1, <3>1 DEF RouseInv
    <3>3. mbox[Home[c]] \in Seq(TBox!Objects)
      BY <1>1, <1>2, <3>1 DEF BoxTypes
    <3>4. TBox!Elements(mbox[Home[c]]) = Items(mbox[Home[c]])
      BY <3>3, BoxUses, ElementsAreItems
    <3> QED
      BY <2>2, <3>2, <3>4 DEF Mailed
  <2> QED
    BY <2>1, <2>2
<1>6. TBox!TimersAreForWaiters
  BY <1>1 DEF TBox!TimersAreForWaiters, TimerInv, Dozing, BoxTypes
<1>7. TBox!NoIdleObject
  <2> SUFFICES ASSUME hasty = {}, NEW c \in Clients, TBox!Sleeping(c)
               PROVE  box <= TBox!Cardinality(TBox!OnTheWay)
    BY BoxUses DEF TBox!NoIdleObject
  <2>1. waiters # <<>>
    <3>1. c \in Items(waiters)
      BY <1>2, BoxUses, ElementsAreItems DEF TBox!Sleeping
    <3> QED
      BY <3>1, EmptyQueue
  <2>2. Coming \subseteq TBox!OnTheWay
    BY <1>2, BoxUses, ElementsAreItems
       DEF Coming, TBox!OnTheWay, TBox!Sleeping, TBox!ReturnsNull
  <2>3. TBox!OnTheWay \in SUBSET Clients
    BY BoxUses DEF TBox!OnTheWay
  <2>4. Coming \in SUBSET Clients
    BY DEF Coming
  <2>5. /\ Cardinality(Coming) <= Cardinality(TBox!OnTheWay)
        /\ Cardinality(Coming) \in Nat /\ Cardinality(TBox!OnTheWay) \in Nat
    BY <2>2, <2>3, <2>4, ClientSets
  <2>6. box \in Nat /\ box <= Cardinality(Coming)
    BY <1>1, <2>1 DEF ObjectInv
  <2>7. TBox!Cardinality(TBox!OnTheWay) = Cardinality(TBox!OnTheWay)
    BY DEF TBox!Cardinality, Cardinality
  <2> QED
    BY <2>5, <2>6, <2>7
<1> QED
  BY <1>3, <1>4, <1>5, <1>6, <1>7

\* Who is in no hurry leaves pop with an object.
LEMMA BoxPopStep ==
  ASSUME job \in [Clients -> TBox!Jobs], TBox!Next
  PROVE  TBox!PopTakesObject
<1> SUFFICES ASSUME NEW c \in Clients, job[c] = "pop", job'[c] # "pop", c \notin hasty
             PROVE  box' = box - 1
  BY BoxUses DEF TBox!PopTakesObject
<1> USE DEF TBox!schedVars, TBox!condVars, TBox!waitVars, TBox!boxVars
<1>1. \A d, work : job' = [job EXCEPT ![d] = work] /\ (job[d] # "pop" \/ d \in hasty) => job'[c] = job[c]
  <2> SUFFICES ASSUME NEW d, NEW work, job' = [job EXCEPT ![d] = work],
                      job[d] # "pop" \/ d \in hasty
               PROVE  job'[c] = job[c]
    OBVIOUS
  <2>1. d # c
    OBVIOUS
  <2> QED
    BY <2>1
<1>2. \A d, work : TBox!Do(d, work) => job[d] = "pop" /\ d \notin hasty
  BY <1>1 DEF TBox!Do
<1>3. job' # job
  OBVIOUS
<1>4. ASSUME NEW d, TBox!Start(d) \/ TBox!BoxStep(d) PROVE box' = box - 1
  <2>1. ~TBox!Start(d)
    BY <1>2 DEF TBox!Start, TBox!In
  <2>2. ~TBox!LockBox(d) /\ ~TBox!Wait(d) /\ ~TBox!CondStep(d)
    BY <1>3 DEF TBox!LockBox, TBox!Wait, TBox!CondStep
  <2>3. ~TBox!PushBack(d) /\ ~TBox!Release(d) /\ ~TBox!ReleaseBox(d) /\ ~TBox!Notify(d)
    BY <1>2 DEF TBox!PushBack, TBox!Release, TBox!ReleaseBox, TBox!Notify, TBox!In
  <2>4. ~TBox!RelockBox(d)
    BY <1>2, <1>3 DEF TBox!RelockBox, TBox!GivesUp
  <2>5. TBox!Found(d)
    BY <1>4, <2>1, <2>2, <2>3, <2>4 DEF TBox!BoxStep
  <2> QED
    BY <2>5 DEF TBox!Found
<1>5. ASSUME NEW f, TBox!WaitReturns(f) \/ TBox!FiberStep(f) PROVE FALSE
  <2>1. ~TBox!WaitReturns(f)
    BY <1>2, <1>3 DEF TBox!WaitReturns, TBox!GivesUp
  <2>2. ~TBox!FiberStep(f)
    BY <1>3 DEF TBox!FiberStep
  <2> QED
    BY <1>5, <2>1, <2>2
<1>6. \A f, g, t : ~TBox!KillIdle(f, g) /\ ~TBox!ThreadStep(t)
  BY <1>3 DEF TBox!KillIdle, TBox!ThreadStep
<1> QED
  BY <1>4, <1>5, <1>6 DEF TBox!Next


-------------------------------------------------------------------------------
(* All of them.                                                                *)

SharedInv ==
  /\ object \in {"try mutex", "once mutex", "killed mutex",
                "event", "demo event", "mutexes", "tbox"}
  /\ IsMutex => MutexInv
  /\ IsEvent => EventInv
  /\ object = "mutexes" => CheckInv
  /\ object = "tbox" => BoxInv

LEMMA SharedStart == ASSUME Init PROVE SharedInv
<1>1. CASE IsMutex /\ Mutex!Init
  BY <1>1, MutexStart DEF SharedInv, IsMutex, IsEvent
<1>2. CASE IsEvent /\ TheEvent!Init
  BY <1>2, EventStart DEF SharedInv, IsMutex, IsEvent
<1>3. CASE object = "mutexes" /\ Check!Init
  BY <1>3, CheckStart DEF SharedInv, IsMutex, IsEvent
<1>4. CASE object = "tbox" /\ TBox!Init
  BY <1>4, BoxStart DEF SharedInv, IsMutex, IsEvent
<1> QED
  BY <1>1, <1>2, <1>3, <1>4 DEF Init

\* Nothing is lost while nothing happens.
LEMMA MutexRest == ASSUME MutexInv, UNCHANGED vars PROVE MutexInv'
<1> USE DEF vars, schedVars, mutexVars, eventVars, checkVars, boxVars
<1>1. MutexTypes /\ HolderInv /\ WokenInv /\ Mutex!TypeOK
  BY DEF MutexInv
<1>2. MutexMove
  BY DEF MutexMove, MutexRests
<1>3. MutexTypes' /\ HolderInv' /\ WokenInv'
  BY <1>1, <1>2, MutexMoveTypes, MutexHolders, MutexWoken
<1>4. Mutex!TypeOK'
  BY <1>1 DEF Mutex!TypeOK
<1>5. object # "killed mutex" => PlaceInv'
  BY <1>1, <1>2, MutexPlaces DEF MutexInv
<1>6. object = "once mutex" => OnceInv'
  BY <1>1, <1>2, MutexOnce DEF MutexInv
<1> QED
  BY <1>3, <1>4, <1>5, <1>6 DEF MutexInv

LEMMA EventRest == ASSUME EventInv, UNCHANGED vars PROVE EventInv'
<1> USE DEF vars, schedVars, mutexVars, eventVars, checkVars, boxVars
<1>1. TheEvent!TypeOK /\ TurnInv /\ OwnerInv /\ InsideInv /\ CalledInv /\ ComingInv
  BY DEF EventInv
<1>2. TheEvent!TypeOK'
  BY <1>1 DEF TheEvent!TypeOK
<1>3. TurnInv' /\ OwnerInv' /\ InsideInv'
  BY <1>1 DEF TurnInv, OwnerInv, InsideInv, TidOf, TheEvent!BaseOf
<1>4. CalledInv'
  BY <1>1 DEF CalledInv, Called
<1>5. ComingInv'
  BY <1>1 DEF ComingInv
<1> QED
  BY <1>2, <1>3, <1>4, <1>5 DEF EventInv

LEMMA BoxRest == ASSUME BoxInv, UNCHANGED vars PROVE BoxInv'
<1> USE DEF vars, schedVars, mutexVars, eventVars, checkVars, boxVars
<1>1. /\ BoxTypes /\ fired \subseteq Fibers /\ canceled \subseteq Fibers
      /\ hasty \in Hurries
      /\ PassInv /\ ListInv /\ NoteInv /\ SoloInv /\ TimerInv /\ RouseInv /\ ObjectInv
  BY DEF BoxInv
<1>2. BoxMove
  BY DEF BoxMove, BoxRests, BoxQuiet
<1>3. BoxTypes' /\ PassInv' /\ ListInv'
  BY <1>1, <1>2, BoxMoveTypes, BoxPasses, BoxLists
<1>4. NoteInv' /\ SoloInv' /\ TimerInv' /\ RouseInv'
  BY <1>1, <1>2, BoxNotes, BoxSolos, BoxDozes
<1>5. ObjectInv'
  BY <1>1 DEF ObjectInv, Coming, Pushing
<1>6. fired' \subseteq Fibers /\ canceled' \subseteq Fibers /\ hasty' \in Hurries
  BY <1>1
<1> QED
  BY <1>3, <1>4, <1>5, <1>6 DEF BoxInv

LEMMA SharedKeeps == ASSUME SharedInv, [Next]_vars PROVE SharedInv'
<1>0. object \in {"try mutex", "once mutex", "killed mutex",
                 "event", "demo event", "mutexes", "tbox"}
  BY DEF SharedInv
<1>1. CASE OnMutex(Mutex!Next)
  <2>1. IsMutex /\ Mutex!Next /\ UNCHANGED object /\ MutexInv
    BY <1>1 DEF OnMutex, SharedInv
  <2>2. MutexInv'
    BY <2>1, MutexKeeps
  <2> QED
    BY <1>0, <2>1, <2>2 DEF SharedInv, IsMutex, IsEvent
<1>2. CASE OnEvent(TheEvent!Next)
  <2>1. IsEvent /\ TheEvent!Next /\ UNCHANGED object /\ EventInv
    BY <1>2 DEF OnEvent, SharedInv
  <2>2. EventInv'
    BY <2>1, EventKeeps
  <2> QED
    BY <1>0, <2>1, <2>2 DEF SharedInv, IsMutex, IsEvent
<1>3. CASE OnMutexes(Check!Next)
  <2>1. object = "mutexes" /\ Check!Next /\ UNCHANGED object /\ CheckInv
    BY <1>3 DEF OnMutexes, SharedInv
  <2>2. CheckInv'
    BY <2>1, CheckKeeps
  <2> QED
    BY <1>0, <2>1, <2>2 DEF SharedInv, IsMutex, IsEvent
<1>4. CASE OnTBox(TBox!Next)
  <2>1. object = "tbox" /\ TBox!Next /\ UNCHANGED object /\ BoxInv
    BY <1>4 DEF OnTBox, SharedInv
  <2>2. BoxInv'
    BY <2>1, BoxKeeps
  <2> QED
    BY <1>0, <2>1, <2>2 DEF SharedInv, IsMutex, IsEvent
<1>5. CASE UNCHANGED vars
  <2>1. /\ UNCHANGED <<object, pc, owner, threadLock, fiber, waiters, wanted, tried>>
        /\ (IsMutex' <=> IsMutex) /\ (IsEvent' <=> IsEvent)
    BY <1>5 DEF vars, mutexVars, checkVars, IsMutex, IsEvent
  <2>2. IsMutex => MutexInv'
    BY <1>5, MutexRest DEF SharedInv
  <2>3. IsEvent => EventInv'
    BY <1>5, EventRest DEF SharedInv
  <2>4. object = "mutexes" => CheckInv'
    BY <2>1 DEF SharedInv, CheckInv, Check!TypeOK, NotingInv, NotedInv
  <2>5. object = "tbox" => BoxInv'
    BY <1>5, BoxRest DEF SharedInv
  <2> QED
    BY <1>0, <2>1, <2>2, <2>3, <2>4, <2>5 DEF SharedInv
<1> QED
  BY <1>1, <1>2, <1>3, <1>4, <1>5 DEF Next

LEMMA SharedInvariant == Spec => []SharedInv
<1>1. Init => SharedInv
  BY SharedStart
<1>2. SharedInv /\ [Next]_vars => SharedInv'
  BY SharedKeeps
<1> QED
  BY <1>1, <1>2, PTL DEF Spec

-------------------------------------------------------------------------------
(* What the runs check, for any number of threads, fibers and mutexes.         *)

\* The variables hold what the code may put into them: a fiber that runs or is
\* ready is a fiber of that thread's ring, the count of wakeups stays within its bound,
\* and no more objects are in the mailbox than have been pushed
\* (fiber_mutex.c:482-504, fiber_event.c:150-195, fiber_tbox.hpp:81-152).
THEOREM SharedTypes == Spec => []TypeOK
<1>1. SharedInv => TypeOK
  BY MutexSafe, BoxSafe DEF SharedInv, TypeOK, EventInv, CheckInv
<1> QED
  BY <1>1, SharedInvariant, PTL

\* While a mutex or an event is free and clients are in its list, somebody who is
\* not is on the way to try: unlock takes the waiter out and releases in one
\* section, and who was woken is out of the array until it has tried again
\* (fiber_mutex.c:482-504, 603-619, fiber_event.c:150-195, 241-263).
THEOREM WakeupsAreNotLost == Spec => []NoLostWakeup
<1>1. SharedInv => NoLostWakeup
  BY MutexSafe, EventSafe DEF SharedInv, NoLostWakeup, IsMutex
<1> QED
  BY <1>1, SharedInvariant, PTL

\* Whoever left the array of a mutex without having tried is woken, also when
\* fibers are killed while they wait (fiber_mutex.c:525-532, 613-619).
THEOREM WaitersAreRemembered == Spec => []NobodyIsForgotten
<1>1. SharedInv => NobodyIsForgotten
  BY MutexSafe DEF SharedInv, NobodyIsForgotten
<1> QED
  BY <1>1, SharedInvariant, PTL

\* Where no fiber is killed, the wakeup of an unlock, also when it is a message to
\* another thread, finds its fiber still waiting for that mutex; the one of a notify
\* finds a client that sleeps for that event, whoever notifies
\* (fiber_mutex.c:528-532, 613-619, fiber_event.c:155-167, 243-263).
THEOREM WakeupsAreExpected == Spec => []WakeupsAreForWaiters
<1>1. SharedInv => WakeupsAreForWaiters
  BY MutexSafe, EventSafe DEF SharedInv, WakeupsAreForWaiters
<1> QED
  BY <1>1, SharedInvariant, PTL

\* A notify that has passed its check meets an event that is taken, whether or not the
\* one who calls it has got it: until it is set free nobody else passes the check
\* (fiber_event.c:222-263).
THEOREM EventsAreNotCorrupt == Spec => []NeverCorrupt
<1>1. SharedInv => NeverCorrupt
  BY EventSafe DEF SharedInv, NeverCorrupt
<1> QED
  BY <1>1, SharedInvariant, PTL

\* check_deadlock2 reports every deadlock among any number of fibers and mutexes, if
\* its mutexes were taken with lock, in whatever order the table of owners is read and
\* while other fibers have a mutex without its ->owner or ->fiber
\* (fiber_mutex.c:236-271, 562-599).
THEOREM DeadlocksAreReported == Spec => []NoMissedDeadlock
<1>1. SharedInv => NoMissedDeadlock
  BY DeadlocksAreFound DEF SharedInv, NoMissedDeadlock
<1> QED
  BY <1>1, SharedInvariant, PTL

\* The list of the condition variable never holds an object of a client that has
\* left wait, nor one twice: signal reads memory that is still allocated
\* (fiber_cond.c:157-159, 201-208, 249-262).
THEOREM ListedAreWaiting == Spec => []WaitersAreWaiting
<1>1. SharedInv => WaitersAreWaiting
  BY BoxSafe DEF SharedInv, WaitersAreWaiting
<1> QED
  BY <1>1, SharedInvariant, PTL

\* A sleeper that a signal has taken out of the list is woken by the signal, its
\* message, its descriptor or its timer (fiber_cond.c:249-291, sync_timer.c:70-85).
THEOREM PoppedWillWake == Spec => []PoppedAreWoken
<1>1. SharedInv => PoppedAreWoken
  BY BoxSafe DEF SharedInv, PoppedAreWoken
<1> QED
  BY <1>1, SharedInvariant, PTL

\* A fiber is in the timer only while it sleeps in wait or is about to, although a
\* signal, a message, a timeout and a kill race to wake it
\* (sync_timer.c:74-83, fiber_io.c:207-233).
THEOREM TimersAreUsed == Spec => []TimersAreForWaiters
<1>1. SharedInv => TimersAreForWaiters
  BY BoxSafe DEF SharedInv, TimersAreForWaiters
<1> QED
  BY <1>1, SharedInvariant, PTL

\* While somebody sleeps in a pop without a timeout there are no more objects than
\* clients on their way to take or announce one (fiber_tbox.hpp:81-152).
THEOREM ObjectsAreClaimed == Spec => []NoIdleObject
<1>1. SharedInv => NoIdleObject
  BY BoxSafe DEF SharedInv, NoIdleObject
<1> QED
  BY <1>1, SharedInvariant, PTL

\* A pop without a timeout ends with an object, also in a killed fiber
\* (fiber_tbox.hpp:142).
THEOREM PopsReturnObjects == Spec => PopReturnsObject
<1>1. SharedInv /\ [Next]_vars => [object = "tbox" => TBox!PopTakesObject]_vars
  <2> SUFFICES ASSUME SharedInv, Next, object = "tbox"
               PROVE  TBox!PopTakesObject
    OBVIOUS
  <2>1. TBox!Next
    BY DEF Next, OnMutex, OnEvent, OnMutexes, OnTBox, IsMutex, IsEvent
  <2>2. job \in [Clients -> TBox!Jobs]
    BY DEF SharedInv, BoxInv, BoxTypes
  <2> QED
    BY <2>1, <2>2, BoxPopStep
<1> QED
  BY <1>1, SharedInvariant, PTL DEF Spec, PopReturnsObject

-------------------------------------------------------------------------------
(* The mutex, the event and the mutex of the mailbox implement a lock.          *)

\* A step moves one client.
OneMoves == UNCHANGED pc \/ \E c \in Clients : \E label : GoTo(c, label)

LEMMA SharedMove == ASSUME SharedInv, Next PROVE OneMoves /\ object' = object
<1>1. CASE OnMutex(Mutex!Next)
  <2>1. Mutex!Next /\ pc \in [Clients -> Mutex!PCs] /\ object' = object
    BY <1>1 DEF OnMutex, SharedInv, MutexInv, MutexTypes
  <2>2. MutexMove
    BY <2>1, MutexMoved
  <2>3. OneMoves
    BY <2>2, ThreadsAssumption
       DEF OneMoves, Clients, MutexMove, MutexTakes, MutexPops, MutexReleases, MutexWakes,
           MutexMoves, MutexEnqueues, MutexReadies, MutexSwitches, MutexResumes,
           MutexDelivers, MutexRests
  <2> QED
    BY <2>1, <2>3
<1>2. CASE OnEvent(TheEvent!Next)
  <2>1. object' = object /\ TheEvent!Next
    BY <1>2 DEF OnEvent
  <2>2. \E c \in Clients : UNCHANGED pc \/ \E label : GoTo(c, label)
    BY <2>1, EventSteps
       DEF GoTo, TheEvent!GoTo, TheEvent!Cas, TheEvent!NoteOwner, TheEvent!Wait,
           TheEvent!Try, TheEvent!Wakes, TheEvent!GetBase, TheEvent!Notify,
           TheEvent!NotifyFails, TheEvent!Pop, TheEvent!Free, TheEvent!Wake
  <2> QED
    BY <2>1, <2>2 DEF OneMoves
<1>3. CASE OnMutexes(Check!Next)
  <2>1. object' = object /\ Check!Next
    BY <1>3 DEF OnMutexes
  <2>2. \E c \in Clients : UNCHANGED pc \/ \E label : GoTo(c, label)
    BY <2>1
       DEF GoTo, Check!GoTo, Check!Next, Check!Retry, Check!Lock, Check!TryLock,
           Check!Attempt, Check!Enqueue, Check!NoteOwner, Check!NoteFiber, Check!Unlock
  <2> QED
    BY <2>1, <2>2 DEF OneMoves
<1>4. CASE OnTBox(TBox!Next)
  <2>1. /\ TBox!Next /\ object' = object
        /\ pc \in [Clients -> TBox!PCs] /\ job \in [Clients -> TBox!Jobs]
    BY <1>4 DEF OnTBox, SharedInv, BoxInv, BoxTypes
  <2>2. BoxMove
    BY <2>1, BoxMoved
  <2>3. OneMoves
    BY SMTT(30), <2>2
       DEF OneMoves, Clients, BoxGoes, BoxMove, BoxMoves, BoxPops, BoxDeletes, BoxWakes,
           BoxWakesNobody, BoxWakesSolo, BoxWakesFiber, BoxSends, BoxEnlists, BoxGivesUp,
           BoxReadies, BoxRaises, BoxSwitches, BoxDelivers, BoxResumes, BoxRests
  <2> QED
    BY <2>1, <2>3
<1> QED
  BY <1>1, <1>2, <1>3, <1>4 DEF Next

\* Who is inside is alone.
OneInside == DOMAIN pc = Clients /\ \A c, d \in Holders : c = d

LEMMA OneHolder == SharedInv => OneInside
<1> SUFFICES ASSUME SharedInv
             PROVE  DOMAIN pc = Clients /\ \A c, d \in Holders : c = d
  BY DEF OneInside
<1>1. CASE IsMutex
  <2>1. pc \in [Clients -> Mutex!PCs] /\ HolderInv
        /\ object # "event" /\ object # "demo event"
    BY <1>1 DEF SharedInv, MutexInv, MutexTypes, IsMutex
  <2>2. Holders = {c \in DOMAIN pc : pc[c] \in {"in", "popped"}}
    BY <2>1 DEF Holders
  <2>3. DOMAIN pc = Clients
    BY <2>1
  <2>4. ASSUME NEW c \in Holders PROVE threadLock = c
    <3>1. c \in Clients /\ pc[c] \in {"in", "popped"}
      BY <2>2, <2>3
    <3> QED
      BY <2>1, <3>1 DEF HolderInv
  <2> QED
    BY <2>3, <2>4
<1>2. CASE IsEvent
  <2>1. pc \in [Clients -> TheEvent!PCs] /\ InsideInv
    BY <1>2, EventClients DEF SharedInv, EventInv, TheEvent!TypeOK
  <2> QED
    BY <1>2, <2>1 DEF InsideInv, Inside, Holders, IsEvent
<1>3. CASE object = "mutexes"
  BY <1>3 DEF SharedInv, CheckInv, Check!TypeOK, Holders
<1>4. CASE object = "tbox"
  <2>1. pc \in [Clients -> TBox!PCs] /\ \A c \in Clients : pc[c] = "in" => owner = c
    BY <1>4 DEF SharedInv, BoxInv, BoxTypes, PassInv
  <2> QED
    BY <1>4, <2>1 DEF TBox!PCs, Holders
<1> QED
  BY <1>1, <1>2, <1>3, <1>4 DEF SharedInv, IsMutex, IsEvent

\* At most one client is inside a mutex or the mutex of the mailbox, whatever wakes the
\* others; and inside an event, as long as a fiber that has never waited for one notifies
\* only what it has got (fiber_mutex.c:482-504, fiber_event.c:124-195, 222-263,
\* fiber_tbox.hpp:81-152).
THEOREM SharedObjectsAreLocks == Spec => ImplementsLock
<1>1. Init => ALock!Init
  <2> SUFFICES ASSUME Init PROVE Holders = {}
    BY DEF ALock!Init
  <2>1. pc = [c \in Clients |-> "out"]
    BY EventClients, BoxUses, MutexUses
       DEF Init, ThreadsInit, Mutex!Init, Mutex!ThreadsInit, TheEvent!Init, Check!Init,
           TBox!Init, TBox!CondInit, TBox!ThreadsInit
  <2> QED
    BY <2>1 DEF Holders
<1>2. SharedInv /\ OneInside /\ OneInside' /\ [Next]_vars => [ALock!Next]_Holders
  <2> SUFFICES ASSUME SharedInv, OneInside, OneInside', [Next]_vars
               PROVE  \/ Holders' = Holders
                      \/ \E c \in Clients : \/ Holders = {} /\ Holders' = {c}
                                            \/ Holders = {c} /\ Holders' = {}
    BY DEF ALock!Next, ALock!Acquire, ALock!Release
  <2>1. DOMAIN pc = Clients /\ \A c, d \in Holders : c = d
    BY DEF OneInside
  <2>2. (DOMAIN pc = Clients)' /\ \A c, d \in Holders' : c = d
    BY DEF OneInside
  <2>3. CASE UNCHANGED <<pc, object>>
    BY <2>3 DEF Holders
  <2>4. ASSUME NEW c \in Clients, NEW label, GoTo(c, label), object' = object
        PROVE  \/ Holders' = Holders
               \/ Holders = {} /\ Holders' = {c}
               \/ Holders = {c} /\ Holders' = {}
    <3>1. \A d \in Clients : d # c => pc'[d] = pc[d]
      BY <2>4 DEF GoTo
    <3>2. /\ Holders \subseteq Clients /\ Holders' \subseteq Clients
          /\ \A d \in Clients : d # c => (d \in Holders' <=> d \in Holders)
      BY <2>1, <2>2, <2>4, <3>1 DEF Holders
    <3> QED
      BY <2>1, <2>2, <3>2
  <2> QED
    BY <2>3, <2>4, SharedMove DEF OneMoves, vars
<1> QED
  BY <1>1, <1>2, OneHolder, SharedInvariant, PTL DEF Spec, ImplementsLock, ALock!Spec
================================================================================
