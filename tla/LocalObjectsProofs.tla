-------------------------- MODULE LocalObjectsProofs --------------------------
(* Proofs about the synchronisation objects for the fibers of one thread, for  *)
(* any number of fibers: a fiber is in one place at a time (it runs, is in the *)
(* ready ring or waits in one list), from which the fiber_lock, the rwlock,    *)
(* the semaphore and the mailbox get what they promise.                        *)
EXTENDS LocalObjects, QueueTheorems

-------------------------------------------------------------------------------
\* The scheduler.

\* The fibers that are not suspended.
Awake == Items(ready) \cup ({running} \ {None})

SchedInv ==
  /\ running \in Fibers \cup {None}
  /\ ready \in Seq(Fibers) /\ NoTwice(ready)
  /\ canceled \subseteq Fibers
  /\ running \notin Items(ready)

\* The elements of a list are its items.
LEMMA ElementsAreItems == \A q : Elements(q) = Items(q)
BY DEF Elements, Items

\* Who is suspended is not awake.
LEMMA SuspendedIsNotAwake ==
  ASSUME NEW f \in Fibers
  PROVE  Suspended(f) <=> f \notin Awake
BY FibersAssumption DEF Suspended, Elements, Items, Awake

\* acl_fiber_switch to the next fiber of the ring (fiber_schedule.c).
LEMMA ResumeStep ==
  ASSUME SchedInv, Resume
  PROVE  SchedInv' /\ Awake' = Awake
<1>1. /\ Head(ready) \in Fibers /\ Tail(ready) \in Seq(Fibers)
      /\ Items(ready) = Items(Tail(ready)) \cup {Head(ready)}
      /\ NoTwice(Tail(ready)) /\ Head(ready) \notin Items(Tail(ready))
  BY TailItems DEF SchedInv, Resume
<1> QED
  BY <1>1, FibersAssumption DEF SchedInv, Resume, Awake

\* The event loop makes fibers ready that sleep in it.
LEMMA PollStep ==
  ASSUME SchedInv, NEW S \in SUBSET Fibers, Poll(S)
  PROVE  SchedInv' /\ Awake = {} /\ Awake' \subseteq S /\ UNCHANGED running
<1>1. PICK T \in (SUBSET S) \ {{}} : ready' \in Orders(T)
  BY DEF Poll
<1>2. IsFiniteSet(T) /\ T \subseteq Fibers
  BY <1>1, FibersAssumption, FS_Subset
<1>3. /\ ready' \in [1 .. Cardinality(T) -> T]
      /\ \A f \in T : \E i \in 1 .. Cardinality(T) : ready'[i] = f
  BY <1>1 DEF Orders
<1>4. ready' \in Seq(T) /\ Items(ready') = T /\ NoTwice(ready')
  BY <1>2, <1>3, OrderItems
<1>5. running = None /\ running' = None /\ ready = <<>> /\ canceled' = canceled
  BY DEF Poll
<1>6. ready' \in Seq(Fibers)
  BY <1>2, <1>4
<1>7. Awake = {} /\ Awake' = T
  BY <1>4, <1>5, EmptyQueue DEF Awake
<1>8. SchedInv'
  BY <1>2, <1>4, <1>5, <1>6, FibersAssumption DEF SchedInv
<1> QED
  BY <1>5, <1>7, <1>8

\* A fiber goes to sleep.
LEMMA SleepStep ==
  ASSUME SchedInv, NEW f \in Fibers, Sleep(f)
  PROVE  SchedInv' /\ Awake' = Awake \ {f} /\ UNCHANGED canceled
<1>1. None \notin Items(ready)
  BY ItemsType, FibersAssumption DEF SchedInv
<1> QED
  BY <1>1, FibersAssumption DEF SchedInv, Sleep, Awake

\* acl_fiber_kill makes a suspended fiber ready.
LEMMA KillStep ==
  ASSUME SchedInv, NEW f \in Fibers, NEW g \in Fibers, Kill(f, g)
  PROVE  /\ SchedInv' /\ Awake' = Awake \cup {g}
         /\ canceled' = canceled \cup {g} /\ UNCHANGED running
<1>1. CASE Suspended(g)
  <2>1. g \notin Awake
    BY <1>1, SuspendedIsNotAwake
  <2>2. /\ Append(ready, g) \in Seq(Fibers)
        /\ Items(Append(ready, g)) = Items(ready) \cup {g}
        /\ NoTwice(Append(ready, g))
    BY <2>1, AppendItems DEF SchedInv, Awake
  <2> QED
    BY <1>1, <2>1, <2>2, FibersAssumption DEF SchedInv, Kill, Awake
<1>2. CASE ~Suspended(g)
  <2>1. g \in Awake
    BY <1>2, SuspendedIsNotAwake
  <2> QED
    BY <1>2, <2>1, FibersAssumption DEF SchedInv, Kill, Awake
<1> QED
  BY <1>1, <1>2

\* acl_fiber_yield by f, after the queue q has become ready.
LEMMA YieldStep ==
  ASSUME SchedInv, NEW f \in Fibers, f \in Awake, NEW q \in Seq(Fibers), NoTwice(q),
         f \notin Items(q), YieldWith(f, q), UNCHANGED canceled
  PROVE  SchedInv' /\ Awake' = Items(q) \cup {f}
<1>1. /\ Append(q, f) \in Seq(Fibers)
      /\ Items(Append(q, f)) = Items(q) \cup {f} /\ NoTwice(Append(q, f))
  BY AppendItems
<1>2. Items(Append(q, f)) \subseteq Fibers
  BY <1>1, ItemsType
<1>3. running' = None /\ ready' = Append(q, f)
  BY DEF YieldWith
<1>4. SchedInv'
  BY <1>1, <1>2, <1>3, FibersAssumption DEF SchedInv
<1>5. None \notin Items(q)
  BY <1>1, <1>2, FibersAssumption
<1> QED
  BY <1>1, <1>3, <1>4 DEF Awake

\* A suspended fiber is made ready by the running one, which yields or goes on.
LEMMA WakeStep ==
  ASSUME SchedInv, NEW f \in Fibers, running = f, NEW g \in Fibers, g \notin Awake,
         UNCHANGED canceled,
         \/ YieldWith(f, Append(ready, g))
         \/ ready' = Append(ready, g) /\ UNCHANGED running
  PROVE  SchedInv' /\ Awake' = Awake \cup {g}
<1>1. /\ Append(ready, g) \in Seq(Fibers)
      /\ Items(Append(ready, g)) = Items(ready) \cup {g}
      /\ NoTwice(Append(ready, g)) /\ f \notin Items(Append(ready, g))
  BY AppendItems, FibersAssumption DEF SchedInv, Awake
<1>2. f \in Awake /\ Awake = Items(ready) \cup {f}
  BY FibersAssumption DEF Awake
<1>3. CASE YieldWith(f, Append(ready, g))
  BY <1>1, <1>2, <1>3, YieldStep
<1>4. CASE ready' = Append(ready, g) /\ UNCHANGED running
  BY <1>1, <1>2, <1>4, FibersAssumption DEF SchedInv, Awake
<1> QED
  BY <1>3, <1>4

\* Nothing changes for the scheduler.
LEMMA SameFibers ==
  ASSUME SchedInv, UNCHANGED fiberVars
  PROVE  SchedInv' /\ Awake' = Awake
BY DEF SchedInv, fiberVars, Awake

-------------------------------------------------------------------------------
\* The lists of those that wait.

\* Who waits in a list is at the label of its wait and suspended.
WaitsIn(list, label) ==
  /\ list \in Seq(Fibers) /\ NoTwice(list)
  /\ \A f \in Items(list) : pc[f] = label /\ f \notin Awake

\* ring_detach takes one fiber out of a list.
LEMMA DetachItems ==
  ASSUME NEW q \in Seq(Fibers), NoTwice(q), NEW g \in Fibers
  PROVE  /\ Detach(q, g) \in Seq(Fibers) /\ NoTwice(Detach(q, g))
         /\ Items(Detach(q, g)) = Items(q) \ {g}
<1>1. CASE g \in Items(q)
  <2>1. \E i \in 1 .. Len(q) : q[i] = g
    BY <1>1 DEF Items
  <2> DEFINE k == Position(q, g)
  <2>2. k \in 1 .. Len(q) /\ q[k] = g
    BY <2>1 DEF Position
  <2>3. Detach(q, g) = SubSeq(q, 1, k - 1) \o SubSeq(q, k + 1, Len(q))
    BY <1>1, ElementsAreItems DEF Detach
  <2> HIDE DEF k
  <2> QED
    BY ZenonT(30), <2>2, <2>3, RemoveItems
<1>2. CASE g \notin Items(q)
  BY <1>2, ElementsAreItems DEF Detach
<1> QED
  BY <1>1, <1>2

\* FIRST_FIBER and what is left of the list when it is made ready.
LEMMA FirstItems ==
  ASSUME NEW q \in Seq(Fibers), NoTwice(q)
  PROVE  /\ Rest(q) \in Seq(Fibers) /\ NoTwice(Rest(q))
         /\ Items(Rest(q)) = Items(q) \ {First(q)}
         /\ q = <<>> => First(q) = None /\ Rest(q) = <<>>
         /\ q # <<>> => First(q) \in Fibers /\ First(q) \in Items(q)
<1>1. CASE q = <<>>
  BY <1>1, EmptyQueue DEF First, Rest
<1>2. CASE q # <<>>
  <2>1. /\ Head(q) \in Fibers /\ Tail(q) \in Seq(Fibers)
        /\ Items(q) = Items(Tail(q)) \cup {Head(q)}
        /\ NoTwice(Tail(q)) /\ Head(q) \notin Items(Tail(q))
    BY <1>2, TailItems
  <2> QED
    BY <1>2, <2>1 DEF First, Rest
<1> QED
  BY <1>1, <1>2

-------------------------------------------------------------------------------
\* The fiber_lock.

\* The lock uses the scheduler and its lists as they are.
LEMMA LockUses ==
  ASSUME NEW f, NEW g, NEW q, NEW S
  PROVE  /\ (TheLock!Sleep(f) <=> Sleep(f)) /\ (TheLock!Kill(f, g) <=> Kill(f, g))
         /\ (TheLock!Resume <=> Resume) /\ (TheLock!Poll(S) <=> Poll(S))
         /\ (TheLock!YieldWith(f, q) <=> YieldWith(f, q))
         /\ TheLock!Readied(f) = Readied(f)
         /\ TheLock!First(q) = First(q) /\ TheLock!Rest(q) = Rest(q)
         /\ TheLock!Detach(q, g) = Detach(q, g)
         /\ (TheLock!Suspended(f) <=> Suspended(f))
         /\ TheLock!fiberVars = fiberVars
<1>1. /\ (TheLock!Sleep(f) <=> Sleep(f)) /\ (TheLock!Resume <=> Resume)
      /\ (TheLock!YieldWith(f, q) <=> YieldWith(f, q))
      /\ TheLock!fiberVars = fiberVars
  BY DEF TheLock!Sleep, Sleep, TheLock!Resume, Resume, TheLock!YieldWith, YieldWith,
         TheLock!fiberVars, fiberVars
<1>2. /\ TheLock!Readied(f) = Readied(f)
      /\ TheLock!First(q) = First(q) /\ TheLock!Rest(q) = Rest(q)
  BY DEF TheLock!Readied, Readied, TheLock!First, First, TheLock!Rest, Rest
<1>3. TheLock!Elements(q) = Elements(q) /\ TheLock!Position(q, g) = Position(q, g)
  BY DEF TheLock!Elements, Elements, TheLock!Position, Position
<1>4. TheLock!Detach(q, g) = Detach(q, g)
  BY <1>3 DEF TheLock!Detach, Detach
<1>5. \A h : TheLock!Suspended(h) <=> Suspended(h)
  BY DEF TheLock!Elements, Elements, TheLock!Suspended, Suspended
<1>6. TheLock!Kill(f, g) <=> Kill(f, g)
  BY <1>5 DEF TheLock!Kill, Kill
<1>7. TheLock!Poll(S) <=> Poll(S)
  <2>1. ASSUME NEW T PROVE TheLock!Orders(T) = Orders(T)
    BY DEF TheLock!Orders, Orders, TheLock!Cardinality, Cardinality
  <2> QED
    BY <2>1 DEF TheLock!Poll, Poll
<1> QED
  BY <1>1, <1>2, <1>4, <1>5, <1>6, <1>7

\* The owner is inside, or it has been woken with the lock handed to it and is
\* not suspended; nobody else is inside, and nobody waits for a free lock.
LockInv ==
  /\ pc \in [Fibers -> {"out", "in", "queued"}]
  /\ WaitsIn(waiting, "queued")
  /\ owner \in Fibers \cup {None} /\ owner \notin Items(waiting)
  /\ owner = None => waiting = <<>>
  /\ \A f \in Fibers : pc[f] = "in" => owner = f
  /\ owner # None /\ pc[owner] # "in" => pc[owner] = "queued" /\ owner \in Awake

\* Every step of the lock keeps this (fiber_lock.c:57-124).
LEMMA LockKeeps ==
  ASSUME SchedInv, LockInv, TheLock!EventLoop \/ \E f \in Fibers : TheLock!FiberStep(f)
  PROVE  SchedInv' /\ LockInv'
<1> USE DEF WaitsIn
<1>0. None \notin Fibers
  BY FibersAssumption
<1>1. CASE TheLock!EventLoop
  <2>1. UNCHANGED <<owner, waiting, pc>>
    BY <1>1 DEF TheLock!EventLoop
  <2>2. CASE Resume
    BY <2>1, <2>2, ResumeStep DEF LockInv
  <2>3. CASE Poll(TheLock!Asleep)
    <3>1. \A f \in TheLock!Asleep : f \in Fibers /\ pc[f] # "queued"
      BY DEF TheLock!Asleep
    <3>2. SchedInv' /\ Awake = {} /\ Awake' \subseteq TheLock!Asleep
      BY <2>3, <3>1, PollStep
    <3> QED
      BY <2>1, <3>1, <3>2 DEF LockInv
  <2> QED
    BY <1>1, <2>2, <2>3, LockUses DEF TheLock!EventLoop
<1> SUFFICES ASSUME NEW f \in Fibers, TheLock!FiberStep(f) PROVE SchedInv' /\ LockInv'
  BY <1>1
<1>2. CASE TheLock!LockFree(f)
  <2>1. SchedInv' /\ Awake' = Awake
    BY <1>2, SameFibers DEF TheLock!LockFree, TheLock!fiberVars, fiberVars
  <2> QED
    BY <1>0, <1>2, <2>1, EmptyQueue DEF LockInv, TheLock!LockFree, TheLock!GoTo
<1>3. CASE TheLock!LockBusy(f)
  <2>1. SchedInv' /\ Awake' = Awake \ {f}
    BY <1>3, SleepStep, LockUses DEF TheLock!LockBusy
  <2>2. f \notin Items(waiting)
    BY <1>3 DEF LockInv, TheLock!LockBusy
  <2>3. /\ waiting' = Append(waiting, f) /\ waiting' \in Seq(Fibers) /\ NoTwice(waiting')
        /\ Items(waiting') = Items(waiting) \cup {f}
    BY <1>3, <2>2, AppendItems DEF LockInv, TheLock!LockBusy
  <2> QED
    BY <1>0, <1>3, <2>1, <2>3 DEF LockInv, TheLock!LockBusy, TheLock!GoTo
<1>4. CASE TheLock!LockReturns(f)
  <2>1. SchedInv' /\ Awake' = Awake /\ f \in Awake
    BY <1>0, <1>4, SameFibers
    DEF TheLock!LockReturns, TheLock!fiberVars, fiberVars, Awake
  <2> QED
    BY <1>0, <1>4, <2>1 DEF LockInv, TheLock!LockReturns, TheLock!GoTo
<1>5. CASE TheLock!Unlock(f)
  <2>1. /\ waiting' \in Seq(Fibers) /\ NoTwice(waiting')
        /\ Items(waiting') = Items(waiting) \ {owner'}
        /\ waiting = <<>> => owner' = None /\ waiting' = <<>>
        /\ waiting # <<>> => owner' \in Fibers /\ owner' \in Items(waiting)
    <3>1. owner' = First(waiting) /\ waiting' = Rest(waiting)
      BY <1>5, LockUses DEF TheLock!Unlock
    <3> QED
      BY <3>1, FirstItems DEF LockInv
  <2>2. /\ running = f /\ pc[f] = "in" /\ pc' = [pc EXCEPT ![f] = "out"]
        /\ canceled' = canceled
    BY <1>5 DEF TheLock!Unlock, TheLock!GoTo
  <2>3. CASE waiting = <<>>
    <3>1. SchedInv' /\ Awake' = Awake
      BY <1>5, <2>3, SameFibers DEF TheLock!Unlock, fiberVars
    <3> QED
      BY <1>0, <2>1, <2>2, <2>3, <3>1 DEF LockInv
  <2>4. CASE waiting # <<>>
    <3>1. owner' \notin Awake /\ pc[owner'] = "queued" /\ owner' # f
      BY <2>1, <2>2, <2>4 DEF LockInv
    <3>2. YieldWith(f, Append(ready, owner'))
      BY ZenonT(30), <1>0, <1>5, <2>1, <2>4, LockUses DEF TheLock!Unlock, Readied
    <3>3. SchedInv' /\ Awake' = Awake \cup {owner'}
      BY <2>1, <2>2, <2>4, <3>1, <3>2, WakeStep
    <3> QED
      BY <1>0, <2>1, <2>2, <2>4, <3>1, <3>3 DEF LockInv
  <2> QED
    BY <2>3, <2>4
<1>6. CASE TheLock!SleepElsewhere(f)
  <2>1. SchedInv' /\ Awake' = Awake \ {f}
    BY <1>6, SleepStep, LockUses DEF TheLock!SleepElsewhere
  <2> QED
    BY <1>0, <1>6, <2>1 DEF LockInv, TheLock!SleepElsewhere
<1>7. ASSUME NEW g \in Fibers, TheLock!KillFiber(f, g) PROVE SchedInv' /\ LockInv'
  <2>1. SchedInv' /\ Awake' = Awake \cup {g}
    BY <1>7, KillStep, LockUses DEF TheLock!KillFiber
  <2>2. /\ waiting' \in Seq(Fibers) /\ NoTwice(waiting')
        /\ Items(waiting') = Items(waiting) \ {g}
    BY <1>7, DetachItems, LockUses DEF LockInv, TheLock!KillFiber
  <2>3. waiting = <<>> => waiting' = <<>>
    BY <2>2, ItemsType, EmptyQueue
  <2> QED
    BY <1>0, <1>7, <2>1, <2>2, <2>3 DEF LockInv, TheLock!KillFiber
<1> QED
  BY <1>2, <1>3, <1>4, <1>5, <1>6, <1>7 DEF TheLock!FiberStep

-------------------------------------------------------------------------------
\* The fiber_rwlock.

\* The readers that the count stands for: those inside, and those that were woken
\* and will go in; a killed one never will.  In the same way the writers.
Reading ==
  {f \in Fibers : \/ pc[f] = "reads"
                  \/ pc[f] = "rqueued" /\ f \notin Items(rwaiting) \cup canceled}
Writing ==
  {f \in Fibers : \/ pc[f] = "writes"
                  \/ pc[f] = "wqueued" /\ f \notin Items(wwaiting) \cup canceled}

\* The count may be too high, as kills make it, but never too low.
RWInv ==
  /\ pc \in [Fibers -> TheRWLock!PCs]
  /\ WaitsIn(rwaiting, "rqueued") /\ WaitsIn(wwaiting, "wqueued")
  /\ readers \in Nat /\ Cardinality(Reading) <= readers
  /\ writer \in Fibers \cup {None} /\ Writing \subseteq {writer}
  /\ writer # None => readers = 0

\* Without kills it is exact, and somebody has the lock whom the waiters wait for:
\* readers may also wait for a writer that waits.
NobodyKilledRW ==
  /\ canceled = {}
  /\ Cardinality(Reading) = readers
  /\ Writing = {writer} \ {None}
  /\ rwaiting # <<>> => writer # None \/ wwaiting # <<>>
  /\ wwaiting # <<>> => writer # None \/ readers # 0

\* The rwlock uses the scheduler and its lists as they are.
LEMMA RWUses ==
  ASSUME NEW f, NEW g, NEW q, NEW S
  PROVE  /\ (TheRWLock!Sleep(f) <=> Sleep(f)) /\ (KilledRWLock!Kill(f, g) <=> Kill(f, g))
         /\ (TheRWLock!Resume <=> Resume) /\ (TheRWLock!Poll(S) <=> Poll(S))
         /\ (TheRWLock!YieldWith(f, q) <=> YieldWith(f, q))
         /\ TheRWLock!Readied(f) = Readied(f)
         /\ KilledRWLock!Detach(q, g) = Detach(q, g)
         /\ TheRWLock!Cardinality(S) = Cardinality(S)
<1>1. /\ (TheRWLock!Sleep(f) <=> Sleep(f)) /\ (TheRWLock!Resume <=> Resume)
      /\ (TheRWLock!YieldWith(f, q) <=> YieldWith(f, q))
      /\ TheRWLock!Readied(f) = Readied(f)
  BY DEF TheRWLock!Sleep, Sleep, TheRWLock!Resume, Resume, TheRWLock!YieldWith,
         YieldWith, TheRWLock!Readied, Readied
<1>2. /\ KilledRWLock!Elements(q) = Elements(q)
      /\ KilledRWLock!Position(q, g) = Position(q, g)
  BY DEF KilledRWLock!Elements, Elements, KilledRWLock!Position, Position
<1>3. KilledRWLock!Detach(q, g) = Detach(q, g)
  BY <1>2 DEF KilledRWLock!Detach, Detach
<1>4. KilledRWLock!Kill(f, g) <=> Kill(f, g)
  BY DEF KilledRWLock!Elements, Elements, KilledRWLock!Suspended, Suspended,
         KilledRWLock!Kill, Kill
<1>5. ASSUME NEW T PROVE TheRWLock!Cardinality(T) = Cardinality(T)
  BY DEF TheRWLock!Cardinality, Cardinality
<1>6. TheRWLock!Poll(S) <=> Poll(S)
  <2>1. ASSUME NEW T PROVE TheRWLock!Orders(T) = Orders(T)
    BY <1>5 DEF TheRWLock!Orders, Orders
  <2> QED
    BY <2>1 DEF TheRWLock!Poll, Poll
<1> QED
  BY <1>1, <1>3, <1>4, <1>5, <1>6

\* Those that are counted can be counted.
LEMMA ReadingIsFinite ==
  /\ IsFiniteSet(Reading) /\ Cardinality(Reading) \in Nat
  /\ Cardinality(Reading) = 0 <=> Reading = {}
<1>1. Reading \subseteq Fibers
  BY DEF Reading
<1> QED
  BY <1>1, FibersAssumption, FS_Subset, FS_CardinalityType, FS_EmptySet

RWStays ==
  /\ SchedInv' /\ RWInv'
  /\ NobodyKilledRW => NobodyKilledRW'

\* The event loop.
LEMMA RWEventLoop ==
  ASSUME SchedInv, RWInv, TheRWLock!EventLoop
  PROVE  RWStays
<1>1. UNCHANGED <<readers, writer, rwaiting, wwaiting, pc>>
  BY DEF TheRWLock!EventLoop, TheRWLock!lockVars
<1>2. UNCHANGED canceled /\ SchedInv' /\ \A f \in Fibers :
        pc[f] \in {"rqueued", "wqueued"} => (f \in Awake' => f \in Awake)
  <2>1. CASE Resume
    BY <2>1, ResumeStep DEF Resume
  <2>2. CASE Poll(TheRWLock!Asleep)
    <3>1. /\ TheRWLock!Asleep \subseteq Fibers
          /\ \A f \in TheRWLock!Asleep : pc[f] \notin {"rqueued", "wqueued"}
      BY DEF TheRWLock!Asleep
    <3>2. UNCHANGED canceled
      BY <2>2 DEF Poll
    <3> QED
      BY <2>2, <3>1, <3>2, PollStep
  <2> QED
    BY <2>1, <2>2, RWUses DEF TheRWLock!EventLoop
<1>3. Reading' = Reading /\ Writing' = Writing
  BY <1>1, <1>2 DEF Reading, Writing
<1>4. WaitsIn(rwaiting, "rqueued")' /\ WaitsIn(wwaiting, "wqueued")'
  <2>1. Items(rwaiting) \subseteq Fibers /\ Items(wwaiting) \subseteq Fibers
    BY ItemsType DEF RWInv, WaitsIn
  <2> QED
    BY <1>1, <1>2, <2>1 DEF RWInv, WaitsIn
<1> QED
  BY <1>1, <1>2, <1>3, <1>4 DEF RWStays, RWInv, NobodyKilledRW

\* A step after which nobody else is awake or in another list, and the same
\* fibers are accounted for by the same count, keeps the invariant.
LEMMA RLockSteps ==
  ASSUME SchedInv, RWInv, NEW f \in Fibers,
         TheRWLock!RLockFree(f) \/ TheRWLock!RLockBusy(f)
  PROVE  RWStays
<1> USE DEF TheRWLock!At, TheRWLock!GoTo, TheRWLock!PCs
<1>0. None \notin Fibers
  BY FibersAssumption
<1>1. CASE TheRWLock!RLockFree(f)
  <2>1. SchedInv' /\ Awake' = Awake /\ UNCHANGED canceled
    BY <1>1, SameFibers DEF TheRWLock!RLockFree, TheRWLock!fiberVars, fiberVars
  <2>2. Writing' = Writing /\ Reading' = Reading \cup {f} /\ f \notin Reading
    BY <1>1, <2>1 DEF RWInv, TheRWLock!RLockFree, Reading, Writing
  <2>3. Cardinality(Reading') = Cardinality(Reading) + 1
    BY <2>2, ReadingIsFinite, FS_AddElement
  <2>4. WaitsIn(rwaiting, "rqueued")' /\ WaitsIn(wwaiting, "wqueued")'
    BY <1>1, <2>1 DEF RWInv, TheRWLock!RLockFree, WaitsIn
  <2>5. /\ writer = None /\ wwaiting = <<>> /\ readers' = readers + 1
        /\ UNCHANGED <<writer, rwaiting, wwaiting>> /\ pc' \in [Fibers -> TheRWLock!PCs]
    BY <1>1 DEF RWInv, TheRWLock!RLockFree, TheRWLock!CanRead
  <2>6. RWInv'
    BY <2>2, <2>3, <2>4, <2>5, ReadingIsFinite DEF RWInv
  <2>7. NobodyKilledRW => NobodyKilledRW'
    BY <2>1, <2>2, <2>3, <2>5 DEF NobodyKilledRW
  <2> QED
    BY <2>1, <2>6, <2>7 DEF RWStays
<1>2. CASE TheRWLock!RLockBusy(f)
  <2>1. SchedInv' /\ Awake' = Awake \ {f} /\ UNCHANGED canceled
    BY <1>2, SleepStep, RWUses DEF TheRWLock!RLockBusy
  <2>2. f \in Awake /\ f \notin Items(rwaiting) /\ f \notin Items(wwaiting)
    BY <1>0, <1>2 DEF RWInv, WaitsIn, TheRWLock!RLockBusy, Awake
  <2>3. /\ rwaiting' \in Seq(Fibers) /\ NoTwice(rwaiting') /\ rwaiting' # <<>>
        /\ Items(rwaiting') = Items(rwaiting) \cup {f}
    <3>1. rwaiting' = Append(rwaiting, f) /\ rwaiting \in Seq(Fibers) /\ NoTwice(rwaiting)
      BY <1>2 DEF RWInv, WaitsIn, TheRWLock!RLockBusy
    <3> QED
      BY <2>2, <3>1, AppendItems
  <2>4. Writing' = Writing /\ Reading' = Reading
    BY <1>2, <2>1, <2>3 DEF RWInv, TheRWLock!RLockBusy, Reading, Writing
  <2>5. WaitsIn(rwaiting, "rqueued")' /\ WaitsIn(wwaiting, "wqueued")'
    BY <1>2, <2>1, <2>2, <2>3 DEF RWInv, TheRWLock!RLockBusy, WaitsIn
  <2>6. /\ writer # None \/ wwaiting # <<>>
        /\ UNCHANGED <<readers, writer, wwaiting>> /\ pc' \in [Fibers -> TheRWLock!PCs]
    BY <1>2 DEF RWInv, TheRWLock!RLockBusy, TheRWLock!CanRead
  <2>7. RWInv'
    BY <2>4, <2>5, <2>6 DEF RWInv
  <2>8. NobodyKilledRW => NobodyKilledRW'
    BY <2>1, <2>4, <2>6 DEF NobodyKilledRW
  <2> QED
    BY <2>1, <2>7, <2>8 DEF RWStays
<1> QED
  BY <1>1, <1>2

\* wlock.
LEMMA WLockSteps ==
  ASSUME SchedInv, RWInv, NEW f \in Fibers,
         TheRWLock!WLockFree(f) \/ TheRWLock!WLockBusy(f)
  PROVE  RWStays
<1> USE DEF TheRWLock!At, TheRWLock!GoTo, TheRWLock!PCs
<1>0. None \notin Fibers
  BY FibersAssumption
<1>1. CASE TheRWLock!WLockFree(f)
  <2>1. SchedInv' /\ Awake' = Awake /\ UNCHANGED canceled
    BY <1>1, SameFibers DEF TheRWLock!WLockFree, TheRWLock!fiberVars, fiberVars
  <2>2. Reading' = Reading /\ Writing' = Writing \cup {f}
    BY <1>1, <2>1 DEF RWInv, TheRWLock!WLockFree, Reading, Writing
  <2>3. Writing = {}
    BY <1>0, <1>1 DEF RWInv, TheRWLock!WLockFree, TheRWLock!CanWrite, Writing
  <2>4. WaitsIn(rwaiting, "rqueued")' /\ WaitsIn(wwaiting, "wqueued")'
    BY <1>1, <2>1 DEF RWInv, TheRWLock!WLockFree, WaitsIn
  <2>5. /\ readers = 0 /\ writer' = f /\ pc' \in [Fibers -> TheRWLock!PCs]
        /\ UNCHANGED <<readers, rwaiting, wwaiting>>
    BY <1>1 DEF RWInv, TheRWLock!WLockFree, TheRWLock!CanWrite
  <2>6. RWInv'
    BY <2>2, <2>3, <2>4, <2>5 DEF RWInv
  <2>7. NobodyKilledRW => NobodyKilledRW'
    BY <1>0, <2>1, <2>2, <2>3, <2>5 DEF NobodyKilledRW
  <2> QED
    BY <2>1, <2>6, <2>7 DEF RWStays
<1>2. CASE TheRWLock!WLockBusy(f)
  <2>1. SchedInv' /\ Awake' = Awake \ {f} /\ UNCHANGED canceled
    BY <1>2, SleepStep, RWUses DEF TheRWLock!WLockBusy
  <2>2. f \in Awake /\ f \notin Items(rwaiting) /\ f \notin Items(wwaiting)
    BY <1>0, <1>2 DEF RWInv, WaitsIn, TheRWLock!WLockBusy, Awake
  <2>3. /\ wwaiting' \in Seq(Fibers) /\ NoTwice(wwaiting') /\ wwaiting' # <<>>
        /\ Items(wwaiting') = Items(wwaiting) \cup {f}
    <3>1. wwaiting' = Append(wwaiting, f) /\ wwaiting \in Seq(Fibers) /\ NoTwice(wwaiting)
      BY <1>2 DEF RWInv, WaitsIn, TheRWLock!WLockBusy
    <3> QED
      BY <2>2, <3>1, AppendItems
  <2>4. Writing' = Writing /\ Reading' = Reading
    BY <1>2, <2>1, <2>3 DEF RWInv, TheRWLock!WLockBusy, Reading, Writing
  <2>5. WaitsIn(rwaiting, "rqueued")' /\ WaitsIn(wwaiting, "wqueued")'
    BY <1>2, <2>1, <2>2, <2>3 DEF RWInv, TheRWLock!WLockBusy, WaitsIn
  <2>6. /\ writer # None \/ readers # 0
        /\ UNCHANGED <<readers, writer, rwaiting>> /\ pc' \in [Fibers -> TheRWLock!PCs]
    BY <1>2 DEF RWInv, TheRWLock!WLockBusy, TheRWLock!CanWrite
  <2>7. RWInv'
    BY <2>4, <2>5, <2>6 DEF RWInv
  <2>8. NobodyKilledRW => NobodyKilledRW'
    BY <2>1, <2>3, <2>4, <2>6 DEF NobodyKilledRW
  <2> QED
    BY <2>1, <2>7, <2>8 DEF RWStays
<1> QED
  BY <1>1, <1>2

\* A woken fiber goes on; fibers sleep with or without the lock.
LEMMA RWOtherSteps ==
  ASSUME SchedInv, RWInv, NEW f \in Fibers,
         TheRWLock!LockReturns(f) \/ TheRWLock!SleepElsewhere(f)
  PROVE  RWStays
<1> USE DEF TheRWLock!At, TheRWLock!GoTo, TheRWLock!PCs, TheRWLock!lockVars
<1>0. None \notin Fibers
  BY FibersAssumption
<1>1. CASE TheRWLock!LockReturns(f)
  <2>1. SchedInv' /\ Awake' = Awake /\ UNCHANGED canceled
    BY <1>1, SameFibers DEF TheRWLock!LockReturns, TheRWLock!fiberVars, fiberVars
  <2>2. f \in Awake /\ f \notin Items(rwaiting) /\ f \notin Items(wwaiting)
    BY <1>0, <1>1 DEF RWInv, WaitsIn, TheRWLock!LockReturns, Awake
  <2>3. /\ pc[f] \in {"rqueued", "wqueued"}
        /\ f \in canceled => pc' = [pc EXCEPT ![f] = "out"]
        /\ f \notin canceled /\ pc[f] = "rqueued" => pc' = [pc EXCEPT ![f] = "reads"]
        /\ f \notin canceled /\ pc[f] = "wqueued" => pc' = [pc EXCEPT ![f] = "writes"]
        /\ UNCHANGED <<readers, writer, rwaiting, wwaiting>>
    BY <1>1 DEF TheRWLock!LockReturns
  <2>4. /\ pc' \in [Fibers -> TheRWLock!PCs]
        /\ \A g \in Fibers \ {f} : pc'[g] = pc[g]
    BY <2>3 DEF RWInv
  <2>5. Writing' = Writing /\ Reading' = Reading
    BY <2>1, <2>2, <2>3, <2>4 DEF RWInv, Reading, Writing
  <2>6. WaitsIn(rwaiting, "rqueued")' /\ WaitsIn(wwaiting, "wqueued")'
    <3>1. Items(rwaiting) \subseteq Fibers \ {f} /\ Items(wwaiting) \subseteq Fibers \ {f}
      BY <2>2, ItemsType DEF RWInv, WaitsIn
    <3> QED
      BY <2>1, <2>3, <2>4, <3>1 DEF RWInv, WaitsIn
  <2>7. RWInv'
    BY <2>3, <2>4, <2>5, <2>6 DEF RWInv
  <2>8. NobodyKilledRW => NobodyKilledRW'
    BY <2>1, <2>3, <2>5 DEF NobodyKilledRW
  <2> QED
    BY <2>1, <2>7, <2>8 DEF RWStays
<1>2. CASE TheRWLock!SleepElsewhere(f)
  <2>1. SchedInv' /\ Awake' = Awake \ {f} /\ UNCHANGED canceled
    BY <1>2, SleepStep, RWUses DEF TheRWLock!SleepElsewhere
  <2>2. UNCHANGED <<readers, writer, rwaiting, wwaiting, pc>>
    BY <1>2 DEF TheRWLock!SleepElsewhere
  <2>3. Writing' = Writing /\ Reading' = Reading
    BY <2>1, <2>2 DEF Reading, Writing
  <2> QED
    BY <2>1, <2>2, <2>3 DEF RWStays, RWInv, NobodyKilledRW, WaitsIn
<1> QED
  BY <1>1, <1>2

\* A reader leaves; the last one hands the lock to the first writer that waits.
LEMMA RUnlockStep ==
  ASSUME SchedInv, RWInv, NEW f \in Fibers, TheRWLock!RUnlock(f)
  PROVE  RWStays
<1> USE DEF TheRWLock!At, TheRWLock!GoTo, TheRWLock!PCs
<1>0. None \notin Fibers
  BY FibersAssumption
<1>1. /\ running = f /\ pc[f] = "reads" /\ pc' = [pc EXCEPT ![f] = "out"]
      /\ readers' = readers - 1 /\ UNCHANGED <<canceled, rwaiting>>
      /\ pc' \in [Fibers -> TheRWLock!PCs]
  BY DEF RWInv, TheRWLock!RUnlock
<1>2. f \in Reading /\ Reading' = Reading \ {f}
  BY <1>1 DEF RWInv, Reading
<1>3. Cardinality(Reading) # 0 /\ Cardinality(Reading') = Cardinality(Reading) - 1
  BY <1>2, ReadingIsFinite, FS_RemoveElement
<1>4. readers >= 1 /\ readers' \in Nat /\ Cardinality(Reading') <= readers' /\ writer = None
  BY <1>1, <1>3, ReadingIsFinite DEF RWInv
<1>5. Writing = {} /\ f \in Awake
  BY <1>0, <1>1, <1>4 DEF RWInv, Writing, Awake
<1>6. CASE readers = 1 /\ wwaiting # <<>>
  <2> DEFINE g == Head(wwaiting)
  <2>1. /\ writer' = g /\ wwaiting' = Tail(wwaiting)
        /\ TheRWLock!YieldWith(f, TheRWLock!Readied(g))
    BY <1>6 DEF TheRWLock!RUnlock, TheRWLock!LastReader
  <2>2. /\ g \in Fibers /\ wwaiting' \in Seq(Fibers) /\ NoTwice(wwaiting')
        /\ Items(wwaiting) = Items(wwaiting') \cup {g} /\ g \notin Items(wwaiting')
    BY <1>6, <2>1, TailItems DEF RWInv, WaitsIn
  <2> HIDE DEF g
  <2>3. pc[g] = "wqueued" /\ g \notin Awake /\ g # f
    BY <1>1, <2>2 DEF RWInv, WaitsIn
  <2>4. YieldWith(f, Append(ready, g))
    BY <1>0, <2>1, <2>2, RWUses DEF Readied
  <2>5. SchedInv' /\ Awake' = Awake \cup {g}
    BY <1>1, <2>2, <2>3, <2>4, WakeStep
  <2>6. Writing' = {g} \ canceled
    BY <1>1, <1>5, <2>2, <2>3 DEF RWInv, Writing
  <2>7. WaitsIn(rwaiting, "rqueued")' /\ WaitsIn(wwaiting, "wqueued")'
    <3>1. g \notin Items(rwaiting)
      BY <2>3 DEF RWInv, WaitsIn
    <3>2. Items(rwaiting) \subseteq Fibers /\ Items(wwaiting') \subseteq Fibers
      BY <2>2, ItemsType DEF RWInv, WaitsIn
    <3> QED
      BY <1>1, <2>2, <2>5, <3>1, <3>2 DEF RWInv, WaitsIn
  <2>8. readers' = 0
    BY <1>1, <1>6
  <2>9. RWInv'
    BY <1>1, <1>4, <2>1, <2>2, <2>6, <2>7, <2>8 DEF RWInv
  <2>10. NobodyKilledRW => NobodyKilledRW'
    BY <1>0, <1>1, <1>3, <2>1, <2>2, <2>6 DEF NobodyKilledRW
  <2> QED
    BY <2>5, <2>9, <2>10 DEF RWStays
<1>7. CASE ~(readers = 1 /\ wwaiting # <<>>)
  <2>1. UNCHANGED <<writer, wwaiting, running, ready>>
    BY <1>7 DEF TheRWLock!RUnlock, TheRWLock!LastReader
  <2>2. SchedInv' /\ Awake' = Awake
    BY <1>1, <2>1, SameFibers DEF fiberVars
  <2>3. Writing' = {}
    BY <1>1, <1>5, <2>1 DEF RWInv, Writing
  <2>4. WaitsIn(rwaiting, "rqueued")' /\ WaitsIn(wwaiting, "wqueued")'
    BY <1>1, <2>1, <2>2 DEF RWInv, WaitsIn
  <2>5. RWInv'
    BY <1>1, <1>4, <2>1, <2>3, <2>4 DEF RWInv
  <2>6. wwaiting # <<>> => readers' # 0
    BY <1>1, <1>4, <1>7
  <2>7. NobodyKilledRW => NobodyKilledRW'
    BY <1>1, <1>3, <1>4, <2>1, <2>3, <2>6 DEF NobodyKilledRW
  <2> QED
    BY <2>2, <2>5, <2>7 DEF RWStays
<1> QED
  BY <1>6, <1>7

\* A writer hands the lock to all readers that wait, or else to the next writer.
LEMMA WUnlockStep ==
  ASSUME SchedInv, RWInv, NEW f \in Fibers, TheRWLock!WUnlock(f)
  PROVE  RWStays
<1> USE DEF TheRWLock!At, TheRWLock!GoTo, TheRWLock!PCs
<1>0. None \notin Fibers
  BY FibersAssumption
<1>1. /\ running = f /\ pc[f] = "writes" /\ pc' = [pc EXCEPT ![f] = "out"]
      /\ UNCHANGED canceled /\ pc' \in [Fibers -> TheRWLock!PCs]
  BY DEF RWInv, TheRWLock!WUnlock
<1>2. f \in Writing /\ writer = f /\ Writing = {f} /\ readers = 0 /\ Reading = {}
  <2>1. f \in Writing
    BY <1>1 DEF Writing
  <2> QED
    BY <1>0, <2>1, ReadingIsFinite DEF RWInv
<1>3. f \in Awake /\ f \notin Items(rwaiting) /\ f \notin Items(wwaiting)
  BY <1>0, <1>1 DEF RWInv, WaitsIn, Awake
<1>4. CASE /\ rwaiting # <<>> /\ readers' = Len(rwaiting) /\ rwaiting' = <<>>
           /\ writer' = None /\ TheRWLock!YieldWith(f, ready \o rwaiting)
           /\ UNCHANGED wwaiting
  <2>1. /\ rwaiting \in Seq(Fibers) /\ NoTwice(rwaiting) /\ ready \in Seq(Fibers)
        /\ NoTwice(ready) /\ Items(ready) \cap Items(rwaiting) = {}
        /\ f \notin Items(ready)
    BY <1>0, <1>1 DEF RWInv, WaitsIn, SchedInv, Awake
  <2>2. /\ ready \o rwaiting \in Seq(Fibers) /\ NoTwice(ready \o rwaiting)
        /\ Items(ready \o rwaiting) = Items(ready) \cup Items(rwaiting)
    BY <2>1, ConcatItems
  <2>3. YieldWith(f, ready \o rwaiting)
    BY <1>4, RWUses
  <2>4. SchedInv' /\ Awake' = Awake \cup Items(rwaiting)
    <3>1. SchedInv' /\ Awake' = Items(ready \o rwaiting) \cup {f}
      BY <1>1, <1>3, <2>1, <2>2, <2>3, YieldStep
    <3> QED
      BY <1>0, <1>1, <2>2, <3>1 DEF Awake
  <2>5. Items(rwaiting) \subseteq Fibers /\ \A g \in Items(rwaiting) : pc[g] = "rqueued"
    BY <2>1, ItemsType DEF RWInv, WaitsIn
  <2>6. Reading' = Items(rwaiting) \ canceled
    <3>1. ASSUME NEW g \in Fibers PROVE g \in Reading' <=> g \in Items(rwaiting) \ canceled
      BY <1>1, <1>2, <1>3, <1>4, <2>5, <3>1, EmptyQueue DEF Reading, RWInv
    <3>2. Reading' \subseteq Fibers
      BY DEF Reading
    <3> QED
      BY <2>5, <3>1, <3>2
  <2>7. /\ readers' \in Nat /\ Cardinality(Reading') <= readers'
        /\ canceled = {} => Cardinality(Reading') = readers'
    <3>1. IsFiniteSet(Items(rwaiting)) /\ Cardinality(Items(rwaiting)) = readers'
      BY <1>4, <2>1, CountItems
    <3>2. readers' \in Nat
      BY <1>4, <2>1
    <3>3. Cardinality(Reading') <= Cardinality(Items(rwaiting))
      BY <2>6, <3>1, FS_Subset
    <3> QED
      BY <2>6, <3>1, <3>2, <3>3
  <2>8. Writing' = {}
    BY <1>1, <1>2, <1>4 DEF RWInv, Writing
  <2>9. WaitsIn(rwaiting, "rqueued")' /\ WaitsIn(wwaiting, "wqueued")'
    <3>1. Items(wwaiting) \subseteq Fibers /\ Items(wwaiting) \cap Items(rwaiting) = {}
      BY ItemsType DEF RWInv, WaitsIn
    <3>2. WaitsIn(wwaiting, "wqueued")'
      BY <1>1, <1>3, <1>4, <2>4, <3>1 DEF RWInv, WaitsIn
    <3> QED
      BY <1>4, <3>2, EmptyQueue DEF WaitsIn
  <2>10. RWInv'
    BY <1>1, <1>4, <2>7, <2>8, <2>9 DEF RWInv
  <2>11. readers' # 0
    BY <1>4, <2>1
  <2>12. NobodyKilledRW => NobodyKilledRW'
    BY <1>1, <1>4, <2>7, <2>8, <2>11 DEF NobodyKilledRW
  <2> QED
    BY <2>4, <2>10, <2>12 DEF RWStays
<1>5. CASE /\ rwaiting = <<>> /\ wwaiting # <<>>
           /\ writer' = Head(wwaiting) /\ wwaiting' = Tail(wwaiting)
           /\ TheRWLock!YieldWith(f, TheRWLock!Readied(Head(wwaiting)))
           /\ UNCHANGED <<readers, rwaiting>>
  <2> DEFINE g == Head(wwaiting)
  <2>1. /\ g \in Fibers /\ wwaiting' \in Seq(Fibers) /\ NoTwice(wwaiting')
        /\ Items(wwaiting) = Items(wwaiting') \cup {g} /\ g \notin Items(wwaiting')
        /\ writer' = g /\ TheRWLock!YieldWith(f, TheRWLock!Readied(g))
    BY <1>5, TailItems DEF RWInv, WaitsIn
  <2> HIDE DEF g
  <2>2. pc[g] = "wqueued" /\ g \notin Awake /\ g # f
    BY <1>1, <2>1 DEF RWInv, WaitsIn
  <2>3. YieldWith(f, Append(ready, g))
    BY <1>0, <2>1, RWUses DEF Readied
  <2>4. SchedInv' /\ Awake' = Awake \cup {g}
    BY <1>1, <2>1, <2>2, <2>3, WakeStep
  <2>5. Writing' = {g} \ canceled /\ Reading' = {}
    BY <1>1, <1>2, <1>5, <2>1, <2>2 DEF RWInv, Writing, Reading
  <2>6. WaitsIn(rwaiting, "rqueued")' /\ WaitsIn(wwaiting, "wqueued")'
    <3>1. Items(wwaiting') \subseteq Fibers
      BY <2>1, ItemsType
    <3>2. WaitsIn(wwaiting, "wqueued")'
      BY <1>1, <2>1, <2>4, <3>1 DEF RWInv, WaitsIn
    <3> QED
      BY <1>5, <3>2, EmptyQueue DEF RWInv, WaitsIn
  <2>7. Cardinality(Reading') = 0 /\ readers' = 0
    BY <1>2, <1>5, <2>5, FS_EmptySet
  <2>8. RWInv'
    BY <1>1, <2>1, <2>5, <2>6, <2>7 DEF RWInv
  <2>9. NobodyKilledRW => NobodyKilledRW'
    BY <1>0, <1>1, <2>1, <2>5, <2>7 DEF NobodyKilledRW
  <2> QED
    BY <2>4, <2>8, <2>9 DEF RWStays
<1>6. CASE /\ rwaiting = <<>> /\ wwaiting = <<>> /\ writer' = None
           /\ UNCHANGED <<running, ready, readers, rwaiting, wwaiting>>
  <2>1. SchedInv' /\ Awake' = Awake
    BY <1>1, <1>6, SameFibers DEF fiberVars
  <2>2. Writing' = {} /\ Reading' = {}
    BY <1>1, <1>2, <1>6 DEF RWInv, Writing, Reading
  <2>3. WaitsIn(rwaiting, "rqueued")' /\ WaitsIn(wwaiting, "wqueued")'
    BY <1>6, EmptyQueue DEF RWInv, WaitsIn
  <2>4. Cardinality(Reading') = 0 /\ readers' = 0
    BY <1>2, <1>6, <2>2, FS_EmptySet
  <2>5. RWInv'
    BY <1>1, <1>6, <2>2, <2>3, <2>4 DEF RWInv
  <2>6. NobodyKilledRW => NobodyKilledRW'
    BY <1>0, <1>1, <1>6, <2>2, <2>4 DEF NobodyKilledRW
  <2> QED
    BY <2>1, <2>5, <2>6 DEF RWStays
<1> QED
  BY <1>4, <1>5, <1>6 DEF TheRWLock!WUnlock, TheRWLock!ReadersNext, TheRWLock!Woken

\* A killed waiter leaves its list and is not counted on any more.
LEMMA RWKillStep ==
  ASSUME SchedInv, RWInv, NEW f \in Fibers, NEW g \in Fibers,
         KilledRWLock!KillFiber(f, g)
  PROVE  SchedInv' /\ RWInv'
<1>1. SchedInv' /\ Awake' = Awake \cup {g} /\ canceled' = canceled \cup {g}
  BY KillStep, RWUses DEF KilledRWLock!KillFiber
<1>2. /\ rwaiting' = Detach(rwaiting, g) /\ wwaiting' = Detach(wwaiting, g)
      /\ UNCHANGED <<readers, writer, pc>>
  BY RWUses DEF KilledRWLock!KillFiber
<1>3. /\ rwaiting' \in Seq(Fibers) /\ NoTwice(rwaiting')
      /\ Items(rwaiting') = Items(rwaiting) \ {g}
      /\ wwaiting' \in Seq(Fibers) /\ NoTwice(wwaiting')
      /\ Items(wwaiting') = Items(wwaiting) \ {g}
  BY <1>2, DetachItems DEF RWInv, WaitsIn
<1>4. Reading' \subseteq Reading /\ Writing' \subseteq Writing
  BY <1>1, <1>2, <1>3 DEF Reading, Writing
<1>5. Cardinality(Reading') <= Cardinality(Reading) /\ Cardinality(Reading') \in Nat
  BY <1>4, ReadingIsFinite, FS_Subset, FS_CardinalityType
<1>6. WaitsIn(rwaiting, "rqueued")' /\ WaitsIn(wwaiting, "wqueued")'
  BY <1>1, <1>2, <1>3 DEF RWInv, WaitsIn
<1>7. RWInv'
  BY <1>2, <1>4, <1>5, <1>6, ReadingIsFinite DEF RWInv
<1> QED
  BY <1>1, <1>7

\* Up to kills the two instances of the rwlock are the same.
LEMMA RWSame ==
  ASSUME NEW f
  PROVE  /\ KilledRWLock!EventLoop => TheRWLock!EventLoop
         /\ KilledRWLock!FiberStep(f) =>
              \/ TheRWLock!RLockFree(f) \/ TheRWLock!RLockBusy(f)
              \/ TheRWLock!WLockFree(f) \/ TheRWLock!WLockBusy(f)
              \/ TheRWLock!LockReturns(f) \/ TheRWLock!RUnlock(f)
              \/ TheRWLock!WUnlock(f) \/ TheRWLock!SleepElsewhere(f)
              \/ \E g \in Fibers : KilledRWLock!KillFiber(f, g)
<1> USE DEF TheRWLock!lockVars, KilledRWLock!lockVars, TheRWLock!fiberVars,
            KilledRWLock!fiberVars, TheRWLock!At, KilledRWLock!At, TheRWLock!GoTo,
            KilledRWLock!GoTo
<1>1. KilledRWLock!EventLoop => TheRWLock!EventLoop
  <2>1. KilledRWLock!Asleep = TheRWLock!Asleep
    BY DEF KilledRWLock!Asleep, TheRWLock!Asleep, KilledRWLock!Suspended,
           TheRWLock!Suspended, KilledRWLock!Elements, TheRWLock!Elements
  <2>2. ASSUME NEW T PROVE KilledRWLock!Orders(T) = TheRWLock!Orders(T)
    BY DEF TheRWLock!Orders, KilledRWLock!Orders, TheRWLock!Cardinality,
           KilledRWLock!Cardinality
  <2>3. KilledRWLock!Poll(KilledRWLock!Asleep) => TheRWLock!Poll(TheRWLock!Asleep)
    BY <2>1, <2>2 DEF TheRWLock!Poll, KilledRWLock!Poll
  <2>4. KilledRWLock!Resume => TheRWLock!Resume
    BY DEF TheRWLock!Resume, KilledRWLock!Resume
  <2> QED
    BY <2>3, <2>4 DEF TheRWLock!EventLoop, KilledRWLock!EventLoop
<1>2. KilledRWLock!CanRead = TheRWLock!CanRead /\ KilledRWLock!CanWrite = TheRWLock!CanWrite
  BY DEF KilledRWLock!CanRead, TheRWLock!CanRead, KilledRWLock!CanWrite, TheRWLock!CanWrite
<1>3. /\ KilledRWLock!Sleep(f) => TheRWLock!Sleep(f)
      /\ \A q : KilledRWLock!YieldWith(f, q) => TheRWLock!YieldWith(f, q)
      /\ \A g : KilledRWLock!Readied(g) = TheRWLock!Readied(g)
  BY DEF KilledRWLock!Sleep, TheRWLock!Sleep, KilledRWLock!YieldWith,
         TheRWLock!YieldWith, KilledRWLock!Readied, TheRWLock!Readied
<1>4. /\ KilledRWLock!RLockFree(f) => TheRWLock!RLockFree(f)
      /\ KilledRWLock!RLockBusy(f) => TheRWLock!RLockBusy(f)
      /\ KilledRWLock!WLockFree(f) => TheRWLock!WLockFree(f)
      /\ KilledRWLock!WLockBusy(f) => TheRWLock!WLockBusy(f)
  BY <1>2, <1>3 DEF KilledRWLock!RLockFree, TheRWLock!RLockFree, KilledRWLock!RLockBusy,
    TheRWLock!RLockBusy, KilledRWLock!WLockFree, TheRWLock!WLockFree,
    KilledRWLock!WLockBusy, TheRWLock!WLockBusy
<1>5. KilledRWLock!LockReturns(f) => TheRWLock!LockReturns(f)
  BY DEF KilledRWLock!LockReturns, TheRWLock!LockReturns
<1>6. KilledRWLock!RUnlock(f) => TheRWLock!RUnlock(f)
  BY <1>3 DEF KilledRWLock!RUnlock, TheRWLock!RUnlock, KilledRWLock!LastReader,
    TheRWLock!LastReader
<1>7. KilledRWLock!WUnlock(f) => TheRWLock!WUnlock(f)
  BY <1>3 DEF KilledRWLock!WUnlock, TheRWLock!WUnlock, KilledRWLock!ReadersNext,
    TheRWLock!ReadersNext, KilledRWLock!Woken, TheRWLock!Woken
<1>8. KilledRWLock!SleepElsewhere(f) => TheRWLock!SleepElsewhere(f)
  BY <1>3 DEF KilledRWLock!SleepElsewhere, TheRWLock!SleepElsewhere
<1> QED
  BY <1>1, <1>4, <1>5, <1>6, <1>7, <1>8 DEF KilledRWLock!FiberStep

\* Every step of the rwlock keeps the invariant; who is counted exactly stays
\* counted exactly as long as nobody is killed (fiber_lock.c:149-284).
LEMMA RWKeeps ==
  ASSUME SchedInv, RWInv, TheRWLock!EventLoop \/ \E f \in Fibers : TheRWLock!FiberStep(f)
  PROVE  RWStays
<1>1. CASE TheRWLock!EventLoop
  BY <1>1, RWEventLoop
<1>2. ASSUME NEW f \in Fibers, TheRWLock!FiberStep(f) PROVE RWStays
  <2>1. ASSUME NEW g \in Fibers PROVE ~TheRWLock!KillFiber(f, g)
    BY DEF TheRWLock!KillFiber
  <2> QED
    BY <1>2, <2>1, RLockSteps, WLockSteps, RWOtherSteps, RUnlockStep, WUnlockStep
    DEF TheRWLock!FiberStep
<1> QED
  BY <1>1, <1>2

LEMMA KilledRWKeeps ==
  ASSUME SchedInv, RWInv,
         KilledRWLock!EventLoop \/ \E f \in Fibers : KilledRWLock!FiberStep(f)
  PROVE  SchedInv' /\ RWInv'
<1>1. CASE KilledRWLock!EventLoop
  BY <1>1, RWSame, RWEventLoop DEF RWStays
<1>2. ASSUME NEW f \in Fibers, KilledRWLock!FiberStep(f) PROVE SchedInv' /\ RWInv'
  BY <1>2, RWSame, RLockSteps, WLockSteps, RWOtherSteps, RUnlockStep, WUnlockStep,
     RWKillStep DEF RWStays
<1> QED
  BY <1>1, <1>2

-------------------------------------------------------------------------------
\* The semaphore, and the mailbox on top of it.

\* Fibers that were given a permit and have not returned from wait yet, and those
\* that hold one.
Given == {f \in Fibers : pc[f] = "queued" /\ f \notin Items(waiting) \cup canceled}
Holding == Given \cup {f \in Fibers : pc[f] = "in"}

SemInv ==
  /\ pc \in [Fibers -> {"out", "in", "queued"}]
  /\ WaitsIn(waiting, "queued")
  /\ num \in Nat
  /\ num > 0 => waiting = <<>>

\* The semaphore uses the scheduler and its lists as they are.
LEMMA SemUses ==
  ASSUME NEW f, NEW g, NEW q, NEW S
  PROVE  /\ (TheSem!Sleep(f) <=> Sleep(f)) /\ (KilledSem!Kill(f, g) <=> Kill(f, g))
         /\ (TheSem!Resume <=> Resume) /\ (TheSem!Poll(S) <=> Poll(S))
         /\ (TheSem!YieldWith(f, q) <=> YieldWith(f, q))
         /\ TheSem!WithWoken = Readied(First(waiting))
         /\ TheSem!Rest(q) = Rest(q)
         /\ KilledSem!Detach(q, g) = Detach(q, g)
<1>1. /\ (TheSem!Sleep(f) <=> Sleep(f)) /\ (TheSem!Resume <=> Resume)
      /\ (TheSem!YieldWith(f, q) <=> YieldWith(f, q)) /\ TheSem!Rest(q) = Rest(q)
      /\ TheSem!WithWoken = Readied(First(waiting))
  BY DEF TheSem!Sleep, Sleep, TheSem!Resume, Resume, TheSem!YieldWith, YieldWith,
         TheSem!Rest, Rest, TheSem!WithWoken, TheSem!Readied, Readied, TheSem!First, First
<1>2. KilledSem!Elements(q) = Elements(q) /\ KilledSem!Position(q, g) = Position(q, g)
  BY DEF KilledSem!Elements, Elements, KilledSem!Position, Position
<1>3. KilledSem!Detach(q, g) = Detach(q, g)
  BY <1>2 DEF KilledSem!Detach, Detach
<1>4. KilledSem!Kill(f, g) <=> Kill(f, g)
  BY DEF KilledSem!Elements, Elements, KilledSem!Suspended, Suspended,
         KilledSem!Kill, Kill
<1>5. TheSem!Poll(S) <=> Poll(S)
  <2>1. ASSUME NEW T PROVE TheSem!Orders(T) = Orders(T)
    BY DEF TheSem!Orders, Orders, TheSem!Cardinality, Cardinality
  <2> QED
    BY <2>1 DEF TheSem!Poll, Poll
<1> QED
  BY <1>1, <1>3, <1>4, <1>5

\* The event loop and a fiber that sleeps for something else leave the permits
\* alone.
LEMMA SemIdleSteps ==
  ASSUME SchedInv, SemInv,
         TheSem!EventLoop \/ \E f \in Fibers : TheSem!SleepElsewhere(f)
  PROVE  /\ SchedInv' /\ SemInv'
         /\ Given' = Given /\ Holding' = Holding /\ UNCHANGED <<canceled, num>>
<1>1. CASE TheSem!EventLoop
  <2>1. UNCHANGED <<num, waiting, pc>>
    BY <1>1 DEF TheSem!EventLoop, TheSem!semVars
  <2>2. UNCHANGED canceled /\ SchedInv' /\ \A f \in Fibers :
          pc[f] = "queued" => (f \in Awake' => f \in Awake)
    <3>1. CASE Resume
      BY <3>1, ResumeStep DEF Resume
    <3>2. CASE Poll(TheSem!Asleep)
      <4>1. TheSem!Asleep \subseteq Fibers /\ \A f \in TheSem!Asleep : pc[f] # "queued"
        BY DEF TheSem!Asleep
      <4>2. UNCHANGED canceled
        BY <3>2 DEF Poll
      <4> QED
        BY <3>2, <4>1, <4>2, PollStep
    <3> QED
      BY <1>1, <3>1, <3>2, SemUses DEF TheSem!EventLoop
  <2>3. Items(waiting) \subseteq Fibers
    BY ItemsType DEF SemInv, WaitsIn
  <2> QED
    BY <2>1, <2>2, <2>3 DEF SemInv, WaitsIn, Given, Holding
<1>2. ASSUME NEW f \in Fibers, TheSem!SleepElsewhere(f)
      PROVE  /\ SchedInv' /\ SemInv'
             /\ Given' = Given /\ Holding' = Holding /\ UNCHANGED <<canceled, num>>
  <2>1. SchedInv' /\ Awake' = Awake \ {f} /\ UNCHANGED <<canceled, num, waiting, pc>>
    BY <1>2, SleepStep, SemUses DEF TheSem!SleepElsewhere, TheSem!semVars
  <2> QED
    BY <2>1 DEF SemInv, WaitsIn, Given, Holding
<1> QED
  BY <1>1, <1>2

\* wait takes a permit, or queues.
LEMMA SemWaitStep ==
  ASSUME SchedInv, SemInv, NEW f \in Fibers, TheSem!WaitFree(f)
  PROVE  /\ SchedInv' /\ SemInv' /\ UNCHANGED canceled
         /\ num > 0 /\ num' = num - 1 /\ Given' = Given
         /\ f \notin Holding /\ Holding' = Holding \cup {f}
<1>1. SchedInv' /\ Awake' = Awake /\ UNCHANGED <<canceled, waiting>>
  BY SameFibers DEF TheSem!WaitFree, TheSem!fiberVars, fiberVars
<1>2. /\ pc[f] = "out" /\ num > 0 /\ num' = num - 1 /\ pc' = [pc EXCEPT ![f] = "in"]
  BY DEF TheSem!WaitFree, TheSem!At, TheSem!GoTo, TheSem!PermitLeft
<1>3. waiting = <<>> /\ num' \in Nat
  BY <1>2 DEF SemInv
<1> QED
  BY <1>1, <1>2, <1>3, EmptyQueue DEF SemInv, WaitsIn, Given, Holding

LEMMA SemQueueStep ==
  ASSUME SchedInv, SemInv, NEW f \in Fibers, TheSem!WaitBusy(f)
  PROVE  /\ SchedInv' /\ SemInv'
         /\ Given' = Given /\ Holding' = Holding /\ UNCHANGED <<canceled, num>>
<1>1. SchedInv' /\ Awake' = Awake \ {f} /\ UNCHANGED <<canceled, num>>
  BY SleepStep, SemUses DEF TheSem!WaitBusy
<1>2. /\ running = f /\ pc[f] = "out" /\ ~(num > 0) /\ waiting' = Append(waiting, f)
      /\ pc' = [pc EXCEPT ![f] = "queued"]
  BY DEF TheSem!WaitBusy, TheSem!At, TheSem!GoTo, TheSem!PermitLeft, TheSem!Queued
<1>3. waiting \in Seq(Fibers) /\ NoTwice(waiting) /\ f \notin Items(waiting)
  BY <1>2 DEF SemInv, WaitsIn
<1>4. /\ waiting' \in Seq(Fibers) /\ NoTwice(waiting')
      /\ Items(waiting') = Items(waiting) \cup {f}
  BY <1>2, <1>3, AppendItems
<1> QED
  BY <1>1, <1>2, <1>4 DEF SemInv, WaitsIn, Given, Holding

\* Back from the switch, with the permit or cancelled.
LEMMA SemReturnStep ==
  ASSUME SchedInv, SemInv, NEW f \in Fibers, TheSem!WaitReturns(f)
  PROVE  /\ SchedInv' /\ SemInv' /\ UNCHANGED <<canceled, num>>
         /\ f \notin canceled => f \in Given
         /\ f \in canceled => f \notin Given
         /\ Given' = Given \ {f} /\ Holding' = Holding
<1>1. SchedInv' /\ Awake' = Awake /\ UNCHANGED <<canceled, waiting, num>>
  BY SameFibers DEF TheSem!WaitReturns, TheSem!fiberVars, fiberVars, TheSem!semVars
<1>2. /\ running = f /\ pc[f] = "queued"
      /\ pc' = [pc EXCEPT ![f] = IF f \in canceled THEN "out" ELSE "in"]
  BY DEF TheSem!WaitReturns, TheSem!At, TheSem!GoTo
<1>3. f \in Awake /\ f \notin Items(waiting)
  BY <1>2, FibersAssumption DEF SemInv, WaitsIn, Awake
<1>4. Items(waiting) \subseteq Fibers
  BY ItemsType DEF SemInv, WaitsIn
<1> QED
  BY <1>1, <1>2, <1>3, <1>4 DEF SemInv, WaitsIn, Given, Holding

\* post: one permit more, or one fiber that is given it.
LEMMA SemPostStep ==
  ASSUME SchedInv, SemInv, NEW f \in Fibers, TheSem!Post(f) \/ KilledSem!Post(f),
         pc[f] # "queued", pc' = pc \/ pc' = [pc EXCEPT ![f] = "out"]
  PROVE  /\ SchedInv' /\ SemInv' /\ UNCHANGED canceled
         /\ \/ num' = num + 1 /\ Given' = Given
            \/ \E g \in Fibers \ Holding : num' = num /\ Given' = Given \cup ({g} \ canceled)
<1>0. None \notin Fibers
  BY FibersAssumption
<1>1. /\ running = f /\ num' = (IF waiting = <<>> THEN num + 1 ELSE num)
      /\ waiting' = Rest(waiting) /\ UNCHANGED canceled
      /\ waiting = <<>> => ready' = Readied(First(waiting)) /\ UNCHANGED running
      /\ \/ ready' = Readied(First(waiting)) /\ UNCHANGED running
         \/ YieldWith(f, Readied(First(waiting)))
  <2>1. CASE TheSem!Post(f)
    BY <2>1, SemUses DEF TheSem!Post, TheSem!Posted
  <2>2. CASE KilledSem!Post(f)
    <3>1. /\ KilledSem!WithWoken = TheSem!WithWoken
          /\ KilledSem!Rest(waiting) = TheSem!Rest(waiting)
      BY DEF KilledSem!WithWoken, TheSem!WithWoken, KilledSem!Readied, TheSem!Readied,
             KilledSem!First, TheSem!First, KilledSem!Rest, TheSem!Rest
    <3> QED
      BY <2>2, <3>1, SemUses DEF KilledSem!Post, KilledSem!Posted
  <2> QED
    BY <2>1, <2>2
<1>2. /\ waiting \in Seq(Fibers) /\ NoTwice(waiting) /\ Items(waiting) \subseteq Fibers
      /\ \A h \in Items(waiting) : pc[h] = "queued" /\ h \notin Awake
  BY ItemsType DEF SemInv, WaitsIn
<1>3. /\ waiting' \in Seq(Fibers) /\ NoTwice(waiting')
      /\ Items(waiting') = Items(waiting) \ {First(waiting)}
      /\ waiting = <<>> => First(waiting) = None /\ waiting' = <<>>
      /\ waiting # <<>> => First(waiting) \in Fibers /\ First(waiting) \in Items(waiting)
  BY <1>1, <1>2, FirstItems
<1>4. /\ pc' \in [Fibers -> {"out", "in", "queued"}]
      /\ \A h \in Fibers : (pc'[h] = "queued" <=> pc[h] = "queued")
  BY DEF SemInv
<1>5. CASE waiting = <<>>
  <2>1. SchedInv' /\ Awake' = Awake
    BY <1>1, <1>3, <1>5, SameFibers DEF Readied, fiberVars
  <2>2. Given' = Given
    BY <1>1, <1>3, <1>4, <1>5 DEF Given
  <2>3. SemInv'
    BY <1>1, <1>3, <1>4, <1>5, EmptyQueue DEF SemInv, WaitsIn
  <2> QED
    BY <1>1, <1>5, <2>1, <2>2, <2>3
<1>6. CASE waiting # <<>>
  <2> DEFINE g == First(waiting)
  <2>1. g \in Fibers /\ g \in Items(waiting) /\ g # None
    BY <1>0, <1>3, <1>6
  <2>2. Readied(g) = Append(ready, g)
    BY <2>1 DEF Readied
  <2> HIDE DEF g
  <2>3. SchedInv' /\ Awake' = Awake \cup {g}
    BY <1>1, <1>2, <2>1, <2>2, WakeStep DEF g
  <2>4. ~(num > 0) /\ num' = num
    BY <1>1, <1>6 DEF SemInv
  <2>5. Given' = Given \cup ({g} \ canceled)
    BY <1>1, <1>2, <1>3, <1>4, <2>1 DEF Given, g
  <2>6. SemInv'
    BY <1>2, <1>3, <1>4, <2>3, <2>4 DEF SemInv, WaitsIn, g
  <2>7. g \notin Holding
    BY <1>2, <2>1 DEF Holding, Given
  <2> QED
    BY <1>1, <2>1, <2>3, <2>4, <2>5, <2>6, <2>7
<1> QED
  BY <1>5, <1>6

\* A killed waiter is given nothing any more.
LEMMA SemKillStep ==
  ASSUME SchedInv, SemInv, NEW f \in Fibers, NEW g \in Fibers, KilledSem!KillFiber(f, g)
  PROVE  /\ SchedInv' /\ SemInv' /\ UNCHANGED num
         /\ Given' \subseteq Given /\ Holding' \subseteq Holding
<1>1. SchedInv' /\ Awake' = Awake \cup {g} /\ canceled' = canceled \cup {g}
  BY KillStep, SemUses DEF KilledSem!KillFiber
<1>2. waiting' = Detach(waiting, g) /\ UNCHANGED <<num, pc>>
  BY SemUses DEF KilledSem!KillFiber
<1>3. /\ waiting' \in Seq(Fibers) /\ NoTwice(waiting')
      /\ Items(waiting') = Items(waiting) \ {g}
  BY <1>2, DetachItems DEF SemInv, WaitsIn
<1>4. waiting = <<>> => waiting' = <<>>
  BY <1>3, ItemsType, EmptyQueue
<1> QED
  BY <1>1, <1>2, <1>3, <1>4 DEF SemInv, WaitsIn, Given, Holding

\* Up to kills and the yield in post, the instances of the semaphore are the same.
LEMMA KilledSemSame ==
  ASSUME NEW f, NEW g
  PROVE  /\ KilledSem!EventLoop => TheSem!EventLoop
         /\ KilledSem!WaitFree(f) => TheSem!WaitFree(f)
         /\ KilledSem!WaitBusy(f) => TheSem!WaitBusy(f)
         /\ KilledSem!WaitReturns(f) => TheSem!WaitReturns(f)
         /\ KilledSem!SleepElsewhere(f) => TheSem!SleepElsewhere(f)
<1> USE DEF TheSem!semVars, KilledSem!semVars, TheSem!fiberVars, KilledSem!fiberVars,
            TheSem!At, KilledSem!At, TheSem!GoTo, KilledSem!GoTo
<1>1. KilledSem!EventLoop => TheSem!EventLoop
  <2>1. KilledSem!Asleep = TheSem!Asleep
    BY DEF KilledSem!Asleep, TheSem!Asleep, KilledSem!Suspended, TheSem!Suspended,
           KilledSem!Elements, TheSem!Elements
  <2>2. ASSUME NEW T PROVE KilledSem!Orders(T) = TheSem!Orders(T)
    BY DEF TheSem!Orders, KilledSem!Orders, TheSem!Cardinality, KilledSem!Cardinality
  <2>3. KilledSem!Poll(KilledSem!Asleep) => TheSem!Poll(TheSem!Asleep)
    BY <2>1, <2>2 DEF TheSem!Poll, KilledSem!Poll
  <2>4. KilledSem!Resume => TheSem!Resume
    BY DEF TheSem!Resume, KilledSem!Resume
  <2> QED
    BY <2>3, <2>4 DEF TheSem!EventLoop, KilledSem!EventLoop
<1>2. KilledSem!Sleep(f) => TheSem!Sleep(f)
  BY DEF KilledSem!Sleep, TheSem!Sleep
<1>3. /\ KilledSem!WaitFree(f) => TheSem!WaitFree(f)
      /\ KilledSem!WaitBusy(f) => TheSem!WaitBusy(f)
  BY <1>2 DEF KilledSem!WaitFree, TheSem!WaitFree, KilledSem!PermitLeft, TheSem!PermitLeft,
     KilledSem!WaitBusy, TheSem!WaitBusy, KilledSem!Queued, TheSem!Queued
<1>4. /\ KilledSem!WaitReturns(f) => TheSem!WaitReturns(f)
      /\ KilledSem!SleepElsewhere(f) => TheSem!SleepElsewhere(f)
  BY <1>2 DEF KilledSem!WaitReturns, TheSem!WaitReturns, KilledSem!SleepElsewhere,
     TheSem!SleepElsewhere
<1> QED
  BY <1>1, <1>3, <1>4

\* The semaphore inside the mailbox is a semaphore.
LEMMA SBoxSame ==
  ASSUME NEW f, NEW g
  PROVE  /\ TheSBox!Sem!EventLoop => TheSem!EventLoop
         /\ TheSBox!Sem!WaitFree(f) => TheSem!WaitFree(f)
         /\ TheSBox!Sem!WaitBusy(f) => TheSem!WaitBusy(f)
         /\ TheSBox!Sem!WaitReturns(f) => TheSem!WaitReturns(f)
         /\ TheSBox!Sem!SleepElsewhere(f) => TheSem!SleepElsewhere(f)
         /\ TheSBox!Sem!Post(f) => TheSem!Post(f)
         /\ ~TheSBox!Sem!KillFiber(f, g)
<1> USE DEF TheSem!semVars, TheSBox!Sem!semVars, TheSem!fiberVars, TheSBox!Sem!fiberVars,
            TheSem!At, TheSBox!Sem!At, TheSem!GoTo, TheSBox!Sem!GoTo
<1>1. TheSBox!Sem!EventLoop => TheSem!EventLoop
  <2>1. TheSBox!Sem!Asleep = TheSem!Asleep
    BY DEF TheSBox!Sem!Asleep, TheSem!Asleep, TheSBox!Sem!Suspended, TheSem!Suspended,
           TheSBox!Sem!Elements, TheSem!Elements
  <2>2. ASSUME NEW T PROVE TheSBox!Sem!Orders(T) = TheSem!Orders(T)
    BY DEF TheSem!Orders, TheSBox!Sem!Orders, TheSem!Cardinality, TheSBox!Sem!Cardinality
  <2>3. TheSBox!Sem!Poll(TheSBox!Sem!Asleep) => TheSem!Poll(TheSem!Asleep)
    BY <2>1, <2>2 DEF TheSem!Poll, TheSBox!Sem!Poll
  <2>4. TheSBox!Sem!Resume => TheSem!Resume
    BY DEF TheSem!Resume, TheSBox!Sem!Resume
  <2> QED
    BY <2>3, <2>4 DEF TheSem!EventLoop, TheSBox!Sem!EventLoop
<1>2. TheSBox!Sem!Sleep(f) => TheSem!Sleep(f)
  BY DEF TheSBox!Sem!Sleep, TheSem!Sleep
<1>3. /\ TheSBox!Sem!WaitFree(f) => TheSem!WaitFree(f)
      /\ TheSBox!Sem!WaitBusy(f) => TheSem!WaitBusy(f)
  BY <1>2 DEF TheSBox!Sem!WaitFree, TheSem!WaitFree, TheSBox!Sem!PermitLeft, TheSem!PermitLeft,
     TheSBox!Sem!WaitBusy, TheSem!WaitBusy, TheSBox!Sem!Queued, TheSem!Queued
<1>4. /\ TheSBox!Sem!WaitReturns(f) => TheSem!WaitReturns(f)
      /\ TheSBox!Sem!SleepElsewhere(f) => TheSem!SleepElsewhere(f)
  BY <1>2 DEF TheSBox!Sem!WaitReturns, TheSem!WaitReturns, TheSBox!Sem!SleepElsewhere,
     TheSem!SleepElsewhere
<1>5. TheSBox!Sem!Post(f) => TheSem!Post(f)
  BY DEF TheSBox!Sem!Post, TheSem!Post, TheSBox!Sem!Posted, TheSem!Posted, TheSBox!Sem!WithWoken, TheSem!WithWoken,
    TheSBox!Sem!Readied, TheSem!Readied, TheSBox!Sem!First, TheSem!First, TheSBox!Sem!Rest, TheSem!Rest,
    TheSBox!Sem!YieldWith, TheSem!YieldWith
<1>6. ~TheSBox!Sem!KillFiber(f, g)
  BY DEF TheSBox!Sem!KillFiber
<1> QED
  BY <1>1, <1>3, <1>4, <1>5, <1>6


LEMMA KilledSBoxSame ==
  ASSUME NEW f, NEW g
  PROVE  /\ KilledSBox!Sem!EventLoop => TheSem!EventLoop
         /\ KilledSBox!Sem!WaitFree(f) => TheSem!WaitFree(f)
         /\ KilledSBox!Sem!WaitBusy(f) => TheSem!WaitBusy(f)
         /\ KilledSBox!Sem!WaitReturns(f) => TheSem!WaitReturns(f)
         /\ KilledSBox!Sem!SleepElsewhere(f) => TheSem!SleepElsewhere(f)
         /\ KilledSBox!Sem!Post(f) => KilledSem!Post(f)
         /\ KilledSBox!Sem!KillFiber(f, g) => KilledSem!KillFiber(f, g)
<1> USE DEF TheSem!semVars, KilledSBox!Sem!semVars, TheSem!fiberVars, KilledSBox!Sem!fiberVars,
            TheSem!At, KilledSBox!Sem!At, TheSem!GoTo, KilledSBox!Sem!GoTo
<1>1. KilledSBox!Sem!EventLoop => TheSem!EventLoop
  <2>1. KilledSBox!Sem!Asleep = TheSem!Asleep
    BY DEF KilledSBox!Sem!Asleep, TheSem!Asleep, KilledSBox!Sem!Suspended, TheSem!Suspended,
           KilledSBox!Sem!Elements, TheSem!Elements
  <2>2. ASSUME NEW T PROVE KilledSBox!Sem!Orders(T) = TheSem!Orders(T)
    BY DEF TheSem!Orders, KilledSBox!Sem!Orders, TheSem!Cardinality, KilledSBox!Sem!Cardinality
  <2>3. KilledSBox!Sem!Poll(KilledSBox!Sem!Asleep) => TheSem!Poll(TheSem!Asleep)
    BY <2>1, <2>2 DEF TheSem!Poll, KilledSBox!Sem!Poll
  <2>4. KilledSBox!Sem!Resume => TheSem!Resume
    BY DEF TheSem!Resume, KilledSBox!Sem!Resume
  <2> QED
    BY <2>3, <2>4 DEF TheSem!EventLoop, KilledSBox!Sem!EventLoop
<1>2. KilledSBox!Sem!Sleep(f) => TheSem!Sleep(f)
  BY DEF KilledSBox!Sem!Sleep, TheSem!Sleep
<1>3. /\ KilledSBox!Sem!WaitFree(f) => TheSem!WaitFree(f)
      /\ KilledSBox!Sem!WaitBusy(f) => TheSem!WaitBusy(f)
  BY <1>2 DEF KilledSBox!Sem!WaitFree, TheSem!WaitFree, KilledSBox!Sem!PermitLeft, TheSem!PermitLeft,
     KilledSBox!Sem!WaitBusy, TheSem!WaitBusy, KilledSBox!Sem!Queued, TheSem!Queued
<1>4. /\ KilledSBox!Sem!WaitReturns(f) => TheSem!WaitReturns(f)
      /\ KilledSBox!Sem!SleepElsewhere(f) => TheSem!SleepElsewhere(f)
  BY <1>2 DEF KilledSBox!Sem!WaitReturns, TheSem!WaitReturns, KilledSBox!Sem!SleepElsewhere,
     TheSem!SleepElsewhere
<1>5. KilledSBox!Sem!Post(f) => KilledSem!Post(f)
  BY DEF KilledSBox!Sem!Post, KilledSem!Post, KilledSBox!Sem!Posted, KilledSem!Posted, KilledSBox!Sem!WithWoken, KilledSem!WithWoken,
    KilledSBox!Sem!Readied, KilledSem!Readied, KilledSBox!Sem!First, KilledSem!First, KilledSBox!Sem!Rest, KilledSem!Rest,
    KilledSBox!Sem!YieldWith, KilledSem!YieldWith
<1>6. KilledSBox!Sem!KillFiber(f, g) => KilledSem!KillFiber(f, g)
  BY DEF KilledSBox!Sem!KillFiber, KilledSem!KillFiber, KilledSBox!Sem!Kill, KilledSem!Kill, KilledSBox!Sem!Detach, KilledSem!Detach,
    KilledSBox!Sem!Position, KilledSem!Position, KilledSBox!Sem!Elements, KilledSem!Elements, KilledSBox!Sem!Suspended,
    KilledSem!Suspended
<1> QED
  BY <1>1, <1>3, <1>4, <1>5, <1>6

\* Those that are given permits can be counted.
LEMMA HoldingIsFinite ==
  ASSUME NEW S, S = Given \/ S = Holding
  PROVE  IsFiniteSet(S) /\ Cardinality(S) \in Nat
<1>1. S \subseteq Fibers
  BY DEF Given, Holding
<1> QED
  BY <1>1, FibersAssumption, FS_Subset, FS_CardinalityType

\* Who gives its permit back holds it no more, and one fiber that waits may get it.
LEMMA SemBackStep ==
  ASSUME SchedInv, SemInv, NEW f \in Fibers, pc[f] = "in",
         pc' = [pc EXCEPT ![f] = "out"], TheSem!Post(f) \/ KilledSem!Post(f)
  PROVE  /\ SchedInv' /\ SemInv' /\ UNCHANGED canceled
         /\ num' + Cardinality(Holding') <= num + Cardinality(Holding)
         /\ canceled = {} => num' + Cardinality(Holding') = num + Cardinality(Holding)
<1>1. /\ SchedInv' /\ SemInv' /\ UNCHANGED canceled
      /\ \/ num' = num + 1 /\ Given' = Given
         \/ \E g \in Fibers \ Holding : num' = num /\ Given' = Given \cup ({g} \ canceled)
  BY SemPostStep
<1>2. /\ f \in Holding /\ f \notin Given
      /\ \A h \in Fibers : pc'[h] = "in" <=> pc[h] = "in" /\ h # f
  BY DEF SemInv, Holding, Given
<1>3. /\ IsFiniteSet(Holding) /\ Cardinality(Holding) \in Nat /\ num \in Nat
      /\ IsFiniteSet(Holding \ {f})
      /\ Cardinality(Holding \ {f}) = Cardinality(Holding) - 1
  BY <1>2, HoldingIsFinite, FS_RemoveElement DEF SemInv
<1>4. CASE num' = num + 1 /\ Given' = Given
  <2>1. Holding' = Holding \ {f}
    BY <1>2, <1>4 DEF Holding
  <2> QED
    BY <1>1, <1>3, <1>4, <2>1
<1>5. ASSUME NEW g \in Fibers \ Holding, num' = num, Given' = Given \cup ({g} \ canceled)
      PROVE  /\ num' + Cardinality(Holding') <= num + Cardinality(Holding)
             /\ canceled = {} =>
                  num' + Cardinality(Holding') = num + Cardinality(Holding)
  <2>1. Holding' = (Holding \ {f}) \cup ({g} \ canceled)
    BY <1>2, <1>5 DEF Holding
  <2>2. CASE g \in canceled
    <3>1. Holding' = Holding \ {f}
      BY <2>1, <2>2
    <3> QED
      BY <1>3, <1>5, <2>2, <3>1
  <2>3. CASE g \notin canceled
    <3>1. Holding' = (Holding \ {f}) \cup {g} /\ g \notin Holding \ {f}
      BY <2>1, <2>3
    <3>2. Cardinality(Holding') = Cardinality(Holding \ {f}) + 1
      BY <3>1, <1>3, FS_AddElement
    <3> QED
      BY <1>3, <1>5, <3>2
  <2> QED
    BY <2>2, <2>3
<1> QED
  BY <1>1, <1>4, <1>5

\* Every step of the semaphore keeps the invariant and the sum of the permits
\* that are left and that are held; a kill can only make it less (fiber_sem.c:69-178).
LEMMA SemKeeps ==
  ASSUME SchedInv, SemInv,
         \/ TheSem!EventLoop \/ \E f \in Fibers : TheSem!FiberStep(f)
         \/ KilledSem!EventLoop \/ \E f \in Fibers : KilledSem!FiberStep(f)
  PROVE  /\ SchedInv' /\ SemInv'
         /\ num' + Cardinality(Holding') <= num + Cardinality(Holding)
         /\ TheSem!EventLoop \/ (\E f \in Fibers : TheSem!FiberStep(f)) =>
              /\ UNCHANGED canceled
              /\ canceled = {} =>
                   num' + Cardinality(Holding') = num + Cardinality(Holding)
<1> DEFINE sum == num + Cardinality(Holding)
           Kept == /\ SchedInv' /\ SemInv' /\ UNCHANGED canceled /\ sum' <= sum
                   /\ canceled = {} => sum' = sum
<1>0. /\ num \in Nat /\ Cardinality(Holding) \in Nat /\ IsFiniteSet(Holding)
      /\ sum \in Nat
  BY HoldingIsFinite DEF SemInv
<1>1. ASSUME TheSem!EventLoop \/ \E f \in Fibers : TheSem!SleepElsewhere(f) PROVE Kept
  BY <1>0, <1>1, SemIdleSteps
<1>2. ASSUME NEW f \in Fibers, TheSem!WaitFree(f) PROVE Kept
  <2>1. /\ SchedInv' /\ SemInv' /\ UNCHANGED canceled /\ num' = num - 1
        /\ f \notin Holding /\ Holding' = Holding \cup {f}
    BY <1>2, SemWaitStep
  <2>2. Cardinality(Holding') = Cardinality(Holding) + 1
    BY <1>0, <2>1, FS_AddElement
  <2> QED
    BY <1>0, <2>1, <2>2
<1>3. ASSUME NEW f \in Fibers, TheSem!WaitBusy(f) \/ TheSem!WaitReturns(f) PROVE Kept
  BY <1>0, <1>3, SemQueueStep, SemReturnStep
<1>4. ASSUME NEW f \in Fibers, TheSem!PostBack(f) \/ KilledSem!PostBack(f) PROVE Kept
  <2>1. /\ pc[f] = "in" /\ pc' = [pc EXCEPT ![f] = "out"]
        /\ TheSem!Post(f) \/ KilledSem!Post(f)
    BY <1>4 DEF TheSem!PostBack, KilledSem!PostBack, TheSem!At, KilledSem!At,
                TheSem!GoTo, KilledSem!GoTo
  <2> QED
    BY <2>1, SemBackStep
<1>5. ASSUME NEW f \in Fibers, TheSem!FiberStep(f) PROVE Kept
  <2>1. ASSUME NEW g PROVE ~TheSem!KillFiber(f, g)
    BY DEF TheSem!KillFiber
  <2> HIDE DEF Kept
  <2> QED
    BY <1>1, <1>2, <1>3, <1>4, <1>5, <2>1 DEF TheSem!FiberStep
<1>6. ASSUME NEW f \in Fibers, NEW g \in Fibers, KilledSem!KillFiber(f, g)
      PROVE  SchedInv' /\ SemInv' /\ sum' <= sum
  <2>1. SchedInv' /\ SemInv' /\ num' = num /\ Holding' \subseteq Holding
    BY <1>6, SemKillStep
  <2>2. Cardinality(Holding') <= Cardinality(Holding) /\ Cardinality(Holding') \in Nat
    BY <1>0, <2>1, FS_Subset, FS_CardinalityType
  <2> QED
    BY <1>0, <2>1, <2>2
<1>7. ASSUME NEW f \in Fibers, KilledSem!FiberStep(f)
      PROVE  SchedInv' /\ SemInv' /\ sum' <= sum
  <2>1. \/ TheSem!WaitFree(f) \/ TheSem!WaitBusy(f) \/ TheSem!WaitReturns(f)
        \/ KilledSem!PostBack(f) \/ TheSem!SleepElsewhere(f)
        \/ \E g \in Fibers : KilledSem!KillFiber(f, g)
    BY <1>7, KilledSemSame DEF KilledSem!FiberStep
  <2> QED
    BY <1>1, <1>2, <1>3, <1>4, <1>6, <2>1
<1>8. KilledSem!EventLoop => TheSem!EventLoop
  BY KilledSemSame
<1> QED
  BY <1>1, <1>5, <1>7, <1>8

\* There is an object for each permit, those given to fibers that have not run yet
\* included.
BoxInv ==
  /\ sbox \in Seq(1 .. 3) /\ pushed \in 0 .. 3
  /\ num + Cardinality(Given) <= Len(sbox)

BoxExact == canceled = {} /\ num + Cardinality(Given) = Len(sbox)

\* pop of an object that is counted, when wait returns or at once.
LEMMA PopStep ==
  ASSUME SchedInv, SemInv, BoxInv, NEW f \in Fibers, sbox # <<>>, sbox' = Tail(sbox),
         UNCHANGED pushed,
         TheSem!WaitFree(f) \/ (TheSem!WaitReturns(f) /\ f \notin canceled)
  PROVE  SchedInv' /\ SemInv' /\ BoxInv' /\ (BoxExact => BoxExact')
<1>1. /\ sbox' \in Seq(1 .. 3) /\ Len(sbox') = Len(sbox) - 1 /\ Len(sbox) \in Nat
  BY DEF BoxInv
<1>2. /\ num \in Nat /\ IsFiniteSet(Given) /\ Cardinality(Given) \in Nat
      /\ num' \in Nat /\ Cardinality(Given') \in Nat
  <2>1. num \in Nat /\ num' \in Nat
    BY SemWaitStep, SemReturnStep DEF SemInv
  <2>2. Given' \subseteq Given
    BY SemWaitStep, SemReturnStep
  <2> QED
    BY <2>1, <2>2, HoldingIsFinite, FS_Subset, FS_CardinalityType
<1>3. /\ SchedInv' /\ SemInv' /\ UNCHANGED canceled
      /\ num' + Cardinality(Given') = num + Cardinality(Given) - 1
  <2>1. CASE TheSem!WaitFree(f)
    BY <1>2, <2>1, SemWaitStep
  <2>2. CASE TheSem!WaitReturns(f) /\ f \notin canceled
    <3>1. /\ SchedInv' /\ SemInv' /\ UNCHANGED <<canceled, num>>
          /\ f \in Given /\ Given' = Given \ {f}
      BY <2>2, SemReturnStep
    <3>2. Cardinality(Given') = Cardinality(Given) - 1
      BY <1>2, <3>1, FS_RemoveElement
    <3> QED
      BY <1>2, <3>1, <3>2
  <2> QED
    BY <2>1, <2>2
<1>4. BoxInv'
  BY <1>1, <1>2, <1>3 DEF BoxInv
<1>5. BoxExact => BoxExact'
  BY <1>1, <1>2, <1>3 DEF BoxExact
<1> QED
  BY <1>3, <1>4, <1>5

\* push adds one object and one permit.
LEMMA PushStep ==
  ASSUME SchedInv, SemInv, BoxInv, NEW f \in Fibers, pushed < 3, pushed' = pushed + 1,
         sbox' = Append(sbox, pushed'), pc[f] = "out", UNCHANGED pc,
         TheSem!Post(f) \/ KilledSem!Post(f)
  PROVE  SchedInv' /\ SemInv' /\ BoxInv' /\ (BoxExact => BoxExact')
<1>1. /\ sbox' \in Seq(1 .. 3) /\ Len(sbox') = Len(sbox) + 1 /\ Len(sbox) \in Nat
      /\ pushed' \in 0 .. 3
  BY DEF BoxInv
<1>2. /\ SchedInv' /\ SemInv' /\ UNCHANGED canceled
      /\ \/ num' = num + 1 /\ Given' = Given
         \/ \E g \in Fibers \ Holding : num' = num /\ Given' = Given \cup ({g} \ canceled)
  BY SemPostStep
<1>3. num \in Nat /\ IsFiniteSet(Given) /\ Cardinality(Given) \in Nat
  BY HoldingIsFinite DEF SemInv
<1>4. CASE num' = num + 1 /\ Given' = Given
  BY <1>1, <1>2, <1>3, <1>4 DEF BoxInv, BoxExact
<1>5. ASSUME NEW g \in Fibers \ Holding, num' = num, Given' = Given \cup ({g} \ canceled)
      PROVE  /\ num' + Cardinality(Given') <= Len(sbox')
             /\ BoxExact => num' + Cardinality(Given') = Len(sbox')
  <2>1. CASE g \in canceled
    <3>1. Given' = Given
      BY <1>5, <2>1
    <3>2. num' + Cardinality(Given') = num + Cardinality(Given)
      BY <1>5, <3>1
    <3>3. canceled # {}
      BY <2>1
    <3> QED
      BY <1>1, <1>3, <3>2, <3>3 DEF BoxInv, BoxExact
  <2>2. CASE g \notin canceled
    <3>1. Given' = Given \cup {g} /\ g \notin Given
      BY <1>5, <2>2 DEF Holding
    <3>2. Cardinality(Given') = Cardinality(Given) + 1
      BY <1>3, <3>1, FS_AddElement
    <3> QED
      BY <1>1, <1>3, <1>5, <3>2 DEF BoxInv, BoxExact
  <2> QED
    BY <2>1, <2>2
<1>6. BoxInv' /\ (BoxExact => BoxExact')
  BY <1>1, <1>2, <1>4, <1>5 DEF BoxInv, BoxExact
<1> QED
  BY <1>2, <1>6

\* A step that touches neither the objects nor what is counted for them.
LEMMA BoxIdleStep ==
  ASSUME SchedInv, SemInv, BoxInv, UNCHANGED <<sbox, pushed, num>>,
         SchedInv', SemInv', Given' \subseteq Given
  PROVE  /\ BoxInv'
         /\ UNCHANGED canceled /\ Given' = Given => (BoxExact => BoxExact')
<1>1. IsFiniteSet(Given) /\ Cardinality(Given) \in Nat /\ num \in Nat /\ num' = num
  BY HoldingIsFinite DEF SemInv
<1>2. Cardinality(Given') <= Cardinality(Given) /\ Cardinality(Given') \in Nat
  BY <1>1, FS_Subset, FS_CardinalityType
<1>3. Len(sbox) \in Nat /\ sbox' = sbox
  BY DEF BoxInv
<1>4. BoxInv'
  BY <1>1, <1>2, <1>3 DEF BoxInv
<1>5. UNCHANGED canceled /\ Given' = Given => (BoxExact => BoxExact')
  BY <1>1, <1>3 DEF BoxExact
<1> QED
  BY <1>4, <1>5

\* A fiber is done with its object.
LEMMA DoneStep ==
  ASSUME SchedInv, SemInv, BoxInv, NEW f \in Fibers, TheSBox!Done(f) \/ KilledSBox!Done(f)
  PROVE  SchedInv' /\ SemInv' /\ BoxInv' /\ (BoxExact => BoxExact')
<1>1. /\ UNCHANGED <<running, ready, canceled, num, waiting, sbox, pushed>>
      /\ pc[f] = "in" /\ pc' = [pc EXCEPT ![f] = "out"]
  BY DEF TheSBox!Done, KilledSBox!Done, TheSBox!semVars, KilledSBox!semVars,
         TheSBox!boxVars, KilledSBox!boxVars, TheSBox!Sem!At, KilledSBox!Sem!At,
         TheSBox!Sem!GoTo, KilledSBox!Sem!GoTo
<1>2. SchedInv' /\ Awake' = Awake
  BY <1>1, SameFibers DEF fiberVars
<1>3. SemInv' /\ Given' = Given
  BY <1>1, <1>2 DEF SemInv, WaitsIn, Given
<1> QED
  BY <1>1, <1>2, <1>3, BoxIdleStep

\* Every step of the mailbox keeps an object for each permit; without kills it
\* keeps exactly one (fiber_sem.hpp:46-77).
LEMMA BoxKeeps ==
  ASSUME SchedInv, SemInv, BoxInv,
         \/ TheSBox!EventLoop \/ \E f \in Fibers : TheSBox!FiberStep(f)
         \/ KilledSBox!EventLoop \/ \E f \in Fibers : KilledSBox!FiberStep(f)
  PROVE  /\ SchedInv' /\ SemInv' /\ BoxInv'
         /\ TheSBox!EventLoop \/ (\E f \in Fibers : TheSBox!FiberStep(f)) =>
              (BoxExact => BoxExact')
<1> DEFINE Kept == SchedInv' /\ SemInv' /\ BoxInv' /\ (BoxExact => BoxExact')
<1>1. ASSUME \/ TheSem!EventLoop
             \/ \E f \in Fibers :
                  \/ TheSem!SleepElsewhere(f) \/ TheSem!WaitBusy(f)
                  \/ TheSem!WaitReturns(f) /\ f \in canceled,
             UNCHANGED <<sbox, pushed>>
      PROVE  Kept
  <2>1. SchedInv' /\ SemInv' /\ UNCHANGED <<canceled, num>> /\ Given' = Given
    BY <1>1, SemIdleSteps, SemQueueStep, SemReturnStep
  <2> QED
    BY <1>1, <2>1, BoxIdleStep
<1>2. ASSUME NEW f \in Fibers, TheSem!WaitFree(f) \/ (TheSem!WaitReturns(f) /\ f \notin canceled),
             sbox # <<>>, sbox' = Tail(sbox), UNCHANGED pushed
      PROVE  Kept
  BY <1>2, PopStep
<1>3. ASSUME NEW f \in Fibers, pushed < 3, pushed' = pushed + 1,
             sbox' = Append(sbox, pushed'), pc[f] = "out", UNCHANGED pc,
             TheSem!Post(f) \/ KilledSem!Post(f)
      PROVE  Kept
  BY <1>3, PushStep
<1>4. ASSUME NEW f \in Fibers, TheSBox!Done(f) \/ KilledSBox!Done(f) PROVE Kept
  BY <1>4, DoneStep
<1> HIDE DEF Kept
<1>5. TheSBox!EventLoop => Kept
  BY <1>1, SBoxSame DEF TheSBox!EventLoop, TheSBox!boxVars
<1>6. KilledSBox!EventLoop => Kept
  BY <1>1, KilledSBoxSame DEF KilledSBox!EventLoop, KilledSBox!boxVars
<1>7. ASSUME NEW f \in Fibers, TheSBox!FiberStep(f) PROVE Kept
  <2>1. CASE TheSBox!PopNow(f)
    BY <1>2, <2>1, SBoxSame DEF TheSBox!PopNow, TheSBox!TakeFront
  <2>2. CASE TheSBox!PopWaits(f) \/ TheSBox!SleepElsewhere(f)
    BY <1>1, <2>2, SBoxSame DEF TheSBox!PopWaits, TheSBox!SleepElsewhere, TheSBox!boxVars
  <2>3. CASE TheSBox!PopReturns(f)
    BY <1>1, <1>2, <2>3, SBoxSame
    DEF TheSBox!PopReturns, TheSBox!TakeFront, TheSBox!boxVars
  <2>4. CASE TheSBox!Push(f)
    BY <1>3, <2>4, SBoxSame DEF TheSBox!Push, TheSBox!Announce, TheSBox!Sem!At
  <2>5. ASSUME NEW g PROVE ~TheSBox!KillFiber(f, g)
    BY SBoxSame DEF TheSBox!KillFiber
  <2> QED
    BY <1>4, <1>7, <2>1, <2>2, <2>3, <2>4, <2>5 DEF TheSBox!FiberStep
<1>8. ASSUME NEW f \in Fibers, KilledSBox!FiberStep(f) PROVE SchedInv' /\ SemInv' /\ BoxInv'
  <2>1. CASE KilledSBox!PopNow(f)
    BY <1>2, <2>1, KilledSBoxSame DEF KilledSBox!PopNow, KilledSBox!TakeFront, Kept
  <2>2. CASE KilledSBox!PopWaits(f) \/ KilledSBox!SleepElsewhere(f)
    BY <1>1, <2>2, KilledSBoxSame
    DEF KilledSBox!PopWaits, KilledSBox!SleepElsewhere, KilledSBox!boxVars, Kept
  <2>3. CASE KilledSBox!PopReturns(f)
    BY <1>1, <1>2, <2>3, KilledSBoxSame
    DEF KilledSBox!PopReturns, KilledSBox!TakeFront, KilledSBox!boxVars, Kept
  <2>4. CASE KilledSBox!Push(f)
    <3>1. pushed < 3
      BY <2>4 DEF KilledSBox!Push, BoxInv
    <3> QED
      BY <1>3, <2>4, <3>1, KilledSBoxSame
      DEF KilledSBox!Push, KilledSBox!Announce, KilledSBox!Sem!At, Kept
  <2>5. ASSUME NEW g \in Fibers, KilledSBox!KillFiber(f, g)
        PROVE  SchedInv' /\ SemInv' /\ BoxInv'
    <3>1. KilledSem!KillFiber(f, g) /\ UNCHANGED <<sbox, pushed>>
      BY <2>5, KilledSBoxSame DEF KilledSBox!KillFiber, KilledSBox!boxVars
    <3>2. SchedInv' /\ SemInv' /\ UNCHANGED num /\ Given' \subseteq Given
      BY <3>1, SemKillStep
    <3> QED
      BY <3>1, <3>2, BoxIdleStep
  <2> QED
    BY <1>4, <1>8, <2>1, <2>2, <2>3, <2>4, <2>5 DEF KilledSBox!FiberStep, Kept
<1> QED
  BY <1>5, <1>6, <1>7, <1>8 DEF Kept

-------------------------------------------------------------------------------
\* The choice of an object and the theorems.

LocalInv ==
  /\ SchedInv
  /\ object = "lock" => LockInv
  /\ object \in {"rwlock", "killed rwlock"} => RWInv
  /\ object = "rwlock" => NobodyKilledRW
  /\ object \in {"sem", "killed sem", "sbox", "killed sbox"} => SemInv
  /\ object = "sem" => canceled = {} /\ num + Cardinality(Holding) = 1
  /\ object = "killed sem" => num + Cardinality(Holding) <= 2
  /\ object \in {"sbox", "killed sbox"} => BoxInv
  /\ object = "sbox" => BoxExact

\* A semaphore that nobody has used yet.
LEMMA SemAtFirst ==
  ASSUME pc = [f \in Fibers |-> "out"], waiting = <<>>, num \in Nat
  PROVE  SemInv /\ Cardinality(Given) = 0 /\ Cardinality(Holding) = 0
<1>1. Given = {} /\ Holding = {}
  BY DEF Given, Holding
<1>2. SemInv
  BY EmptyQueue DEF SemInv, WaitsIn
<1> QED
  BY <1>1, <1>2, FS_EmptySet

\* At first nobody runs, waits or holds anything.
LEMMA LocalInit == Init => LocalInv
<1> SUFFICES ASSUME Init PROVE LocalInv
  OBVIOUS
<1> USE DEF NoQueue, NoLock, NoRWLock, NoSem, NoBox
<1>1. \/ object = "lock" /\ TheLock!Init
      \/ object = "rwlock" /\ TheRWLock!Init
      \/ object = "killed rwlock" /\ KilledRWLock!Init
      \/ object = "sem" /\ TheSem!Init
      \/ object = "killed sem" /\ KilledSem!Init
      \/ object = "sbox" /\ TheSBox!Init
      \/ object = "killed sbox" /\ KilledSBox!Init
  BY DEF Init
<1>2. running = None /\ ready = <<>> /\ canceled = {} /\ pc = [f \in Fibers |-> "out"]
  BY <1>1 DEF TheLock!Init, TheRWLock!Init, KilledRWLock!Init, TheSem!Init,
    KilledSem!Init, TheSBox!Init, KilledSBox!Init, TheSBox!Sem!Init, KilledSBox!Sem!Init,
    TheLock!FibersInit, TheRWLock!FibersInit, KilledRWLock!FibersInit,
    TheSem!FibersInit, KilledSem!FibersInit, TheSBox!Sem!FibersInit,
    KilledSBox!Sem!FibersInit
<1>3. SchedInv /\ <<>> \in Seq(Fibers) /\ <<>> \in Seq(1 .. 3) /\ Len(<<>>) = 0
  BY <1>2, EmptyQueue DEF SchedInv
<1>4. CASE object = "lock"
  <2>1. owner = None /\ waiting = <<>>
    BY <1>1, <1>4 DEF TheLock!Init
  <2> QED
    BY <1>2, <1>3, <1>4, <2>1, EmptyQueue, FibersAssumption DEF LocalInv, LockInv, WaitsIn
<1>5. CASE object \in {"rwlock", "killed rwlock"}
  <2>1. readers = 0 /\ writer = None /\ rwaiting = <<>> /\ wwaiting = <<>>
    BY <1>1, <1>5 DEF TheRWLock!Init, KilledRWLock!Init
  <2>2. Reading = {} /\ Writing = {} /\ Cardinality(Reading) = 0
    BY <1>2, FS_EmptySet DEF Reading, Writing
  <2>3. RWInv
    BY <1>2, <1>3, <2>1, <2>2, EmptyQueue DEF RWInv, WaitsIn, TheRWLock!PCs
  <2>4. NobodyKilledRW
    BY <1>2, <2>1, <2>2 DEF NobodyKilledRW
  <2> QED
    BY <1>3, <1>5, <2>3, <2>4 DEF LocalInv
<1>6. CASE object = "sem"
  <2>1. num = 1 /\ waiting = <<>>
    BY <1>1, <1>6 DEF TheSem!Init
  <2>2. SemInv /\ Cardinality(Holding) = 0
    BY <1>2, <2>1, SemAtFirst
  <2> QED
    BY <1>2, <1>3, <1>6, <2>1, <2>2 DEF LocalInv
<1>7. CASE object = "killed sem"
  <2>1. num = 2 /\ waiting = <<>>
    BY <1>1, <1>7 DEF KilledSem!Init
  <2>2. SemInv /\ Cardinality(Holding) = 0
    BY <1>2, <2>1, SemAtFirst
  <2>3. num + Cardinality(Holding) <= 2
    BY <2>1, <2>2
  <2> QED
    BY <1>3, <1>7, <2>2, <2>3 DEF LocalInv
<1>8. CASE object \in {"sbox", "killed sbox"}
  <2>1. num = 0 /\ waiting = <<>> /\ sbox = <<>> /\ pushed = 0
    BY <1>1, <1>8 DEF TheSBox!Init, KilledSBox!Init, TheSBox!Sem!Init, KilledSBox!Sem!Init
  <2>2. SemInv /\ Cardinality(Given) = 0
    BY <1>2, <2>1, SemAtFirst
  <2>3. BoxInv /\ BoxExact
    BY <1>2, <1>3, <2>1, <2>2 DEF BoxInv, BoxExact
  <2> QED
    BY <1>3, <1>8, <2>2, <2>3 DEF LocalInv
<1> QED
  BY <1>1, <1>4, <1>5, <1>6, <1>7, <1>8

\* Every step keeps the invariant.
LEMMA LocalStep ==
  ASSUME LocalInv, [Next]_vars
  PROVE  LocalInv'
<1> USE DEF OnLock, OnRWLock, OnSem, OnSBox
<1>1. CASE UNCHANGED vars
  <2>1. /\ UNCHANGED <<object, pc, waiting, fiberVars, lockVars, rwVars, semVars, boxVars>>
        /\ UNCHANGED <<running, ready, canceled>>
    BY <1>1 DEF vars, fiberVars
  <2>2. (SchedInv => SchedInv') /\ Awake' = Awake
    BY <2>1 DEF SchedInv, Awake
  <2>3. LockInv => LockInv'
    BY <2>1, <2>2 DEF LockInv, WaitsIn, lockVars
  <2>4. (RWInv => RWInv') /\ (NobodyKilledRW => NobodyKilledRW')
    BY <2>1, <2>2 DEF RWInv, NobodyKilledRW, WaitsIn, Reading, Writing, rwVars
  <2>5. Given' = Given /\ Holding' = Holding /\ num' = num
    BY <2>1 DEF Given, Holding, semVars
  <2>6. SemInv => SemInv'
    BY <2>1, <2>2, <2>5 DEF SemInv, WaitsIn
  <2>7. (BoxInv => BoxInv') /\ (BoxExact => BoxExact')
    BY <2>1, <2>5 DEF BoxInv, BoxExact, boxVars
  <2>8. /\ num + Cardinality(Holding) = 1 => num' + Cardinality(Holding') = 1
        /\ num + Cardinality(Holding) <= 2 => num' + Cardinality(Holding') <= 2
    BY <2>5
  <2> QED
    BY <2>1, <2>2, <2>3, <2>4, <2>6, <2>7, <2>8 DEF LocalInv
<1>2. CASE OnLock("lock", TheLock!EventLoop \/ \E f \in Fibers : TheLock!FiberStep(f))
  BY <1>2, LockKeeps DEF LocalInv
<1>3. CASE OnRWLock("rwlock", TheRWLock!EventLoop
                                \/ \E f \in Fibers : TheRWLock!FiberStep(f))
  BY <1>3, RWKeeps DEF LocalInv, RWStays
<1>4. CASE OnRWLock("killed rwlock", KilledRWLock!EventLoop
                                       \/ \E f \in Fibers : KilledRWLock!FiberStep(f))
  BY <1>4, KilledRWKeeps DEF LocalInv
<1>5. CASE OnSem("sem", TheSem!EventLoop \/ \E f \in Fibers : TheSem!FiberStep(f))
  BY <1>5, SemKeeps DEF LocalInv
<1>6. CASE OnSem("killed sem", KilledSem!EventLoop
                                 \/ \E f \in Fibers : KilledSem!FiberStep(f))
  <2>1. /\ object = "killed sem" /\ object' = object /\ SchedInv' /\ SemInv'
        /\ num' + Cardinality(Holding') <= num + Cardinality(Holding)
    BY <1>6, SemKeeps DEF LocalInv
  <2>2. /\ num \in Nat /\ num' \in Nat
        /\ Cardinality(Holding) \in Nat
    BY <1>6, <2>1, HoldingIsFinite DEF LocalInv, SemInv
  <2>3. Cardinality(Holding') \in Nat
    <3>1. Holding' \subseteq Fibers
      BY DEF Holding, Given
    <3> QED
      BY <3>1, FibersAssumption, FS_Subset, FS_CardinalityType
  <2>4. num + Cardinality(Holding) <= 2
    BY <1>6 DEF LocalInv
  <2>5. num' + Cardinality(Holding') <= 2
    <3>1. \A k, l, m, n \in Nat : k + l <= m + n /\ m + n <= 2 => k + l <= 2
      OBVIOUS
    <3> QED
      BY <2>1, <2>2, <2>3, <2>4, <3>1
  <2> QED
    BY <2>1, <2>5 DEF LocalInv
<1>7. CASE OnSBox("sbox", TheSBox!EventLoop \/ \E f \in Fibers : TheSBox!FiberStep(f))
  BY <1>7, BoxKeeps DEF LocalInv
<1>8. CASE OnSBox("killed sbox", KilledSBox!EventLoop
                                   \/ \E f \in Fibers : KilledSBox!FiberStep(f))
  BY <1>8, BoxKeeps DEF LocalInv
<1> QED
  BY <1>1, <1>2, <1>3, <1>4, <1>5, <1>6, <1>7, <1>8 DEF Next, EventLoop, FiberStep

\* So it always holds.
LEMMA LocalSafe == Spec => []LocalInv
<1> QED
  BY LocalInit, LocalStep, PTL DEF Spec

\* The variables of the code hold what they may hold.
THEOREM LocalTypes == Spec => []TypeOK
<1>1. LocalInv => TypeOK
  <2> SUFFICES ASSUME LocalInv PROVE TypeOK
    OBVIOUS
  <2>1. running \in Fibers \cup {None} /\ ready \in Seq(Fibers) /\ canceled \subseteq Fibers
    BY DEF LocalInv, SchedInv
  <2>2. CASE object = "lock"
    BY <2>1, <2>2 DEF LocalInv, LockInv, WaitsIn, TypeOK, TheLock!TypeOK
  <2>3. CASE object \in {"rwlock", "killed rwlock"}
    BY <2>1, <2>3 DEF LocalInv, RWInv, WaitsIn, TypeOK, TheRWLock!TypeOK
  <2>4. CASE object \in {"sem", "killed sem"}
    BY <2>1, <2>4 DEF LocalInv, SemInv, WaitsIn, TypeOK, TheSem!TypeOK
  <2>5. CASE object \in {"sbox", "killed sbox"}
    BY <2>1, <2>5
    DEF LocalInv, SemInv, BoxInv, WaitsIn, TypeOK, TheSBox!TypeOK, TheSBox!Sem!TypeOK
  <2>6. CASE object \notin {"lock", "rwlock", "killed rwlock", "sem", "killed sem",
                            "sbox", "killed sbox"}
    BY <2>6 DEF TypeOK
  <2> QED
    BY <2>2, <2>3, <2>4, <2>5, <2>6
<1> QED
  BY <1>1, LocalSafe, PTL

\* A fiber_lock that nobody has is one that nobody waits for, whoever is killed; so is
\* a fiber_rwlock whose waiters are not killed (fiber_lock.c:102-124, 238-284).
THEOREM NobodyWaitsForFree == Spec => []FreeMeansNobodyWaits
<1>1. LocalInv => FreeMeansNobodyWaits
  <2> SUFFICES ASSUME LocalInv PROVE FreeMeansNobodyWaits
    OBVIOUS
  <2>1. object = "lock" => TheLock!FreeMeansNobodyWaits
    BY DEF LocalInv, LockInv, TheLock!FreeMeansNobodyWaits
  <2>2. object = "rwlock" => TheRWLock!FreeMeansNobodyWaits
    BY DEF LocalInv, NobodyKilledRW, TheRWLock!FreeMeansNobodyWaits
  <2> QED
    BY <2>1, <2>2 DEF FreeMeansNobodyWaits
<1> QED
  BY <1>1, LocalSafe, PTL

\* Who the fiber_lock was handed to is going to take it, killed or not
\* (fiber_lock.c:74-84, 119-122).
THEOREM GrantsAreNoticed == Spec => []GrantIsNoticed
<1>1. LocalInv => GrantIsNoticed
  <2> SUFFICES ASSUME LocalInv, object = "lock", NEW f \in Fibers, owner = f, pc[f] # "in"
               PROVE  pc[f] = "queued" /\ ~TheLock!Suspended(f)
                        /\ f \notin TheLock!Elements(waiting)
    BY DEF GrantIsNoticed, TheLock!GrantIsNoticed
  <2>1. pc[f] = "queued" /\ f \in Awake /\ f \notin Items(waiting)
    BY FibersAssumption DEF LocalInv, LockInv
  <2>2. ~TheLock!Suspended(f)
    BY <2>1, SuspendedIsNotAwake, LockUses
  <2>3. TheLock!Elements(waiting) = Items(waiting)
    BY DEF TheLock!Elements, Items
  <2> QED
    BY <2>1, <2>2, <2>3
<1> QED
  BY <1>1, LocalSafe, PTL

\* The count of the rwlock is the number of readers inside and woken, and its
\* writer is the one inside or woken, however many were woken at once, as long as
\* nobody who waits is killed (fiber_lock.c:256-284).
THEOREM CountsAreExact == Spec => []CountIsExact
<1>1. LocalInv => CountIsExact
  <2> SUFFICES ASSUME LocalInv, object = "rwlock" PROVE TheRWLock!CountIsExact
    BY DEF CountIsExact
  <2>1. /\ canceled = {} /\ Cardinality(Reading) = readers
        /\ Writing = {writer} \ {None}
    BY DEF LocalInv, NobodyKilledRW
  <2>2. /\ TheRWLock!Elements(rwaiting) = Items(rwaiting)
        /\ TheRWLock!Elements(wwaiting) = Items(wwaiting)
    BY DEF TheRWLock!Elements, Items
  <2>3. /\ TheRWLock!Inside("reads") \cup TheRWLock!Granted("rqueued", rwaiting) = Reading
        /\ TheRWLock!Inside("writes") \cup TheRWLock!Granted("wqueued", wwaiting) = Writing
    BY <2>1, <2>2 DEF TheRWLock!Inside, TheRWLock!Granted, Reading, Writing
  <2>4. TheRWLock!Cardinality(Reading) = Cardinality(Reading)
    BY RWUses
  <2> QED
    BY <2>1, <2>3, <2>4 DEF TheRWLock!CountIsExact
<1> QED
  BY <1>1, LocalSafe, PTL

\* What the semaphores call given and holding.
LEMMA SemSets ==
  /\ TheSem!Inside \cup TheSem!Granted = Holding
  /\ KilledSem!Inside \cup KilledSem!Granted = Holding
  /\ TheSBox!Sem!Granted = Given
  /\ \A S : TheSem!Cardinality(S) = Cardinality(S)
  /\ \A S : KilledSem!Cardinality(S) = Cardinality(S)
  /\ \A S : TheSBox!Cardinality(S) = Cardinality(S)
<1>1. \A q : /\ TheSem!Elements(q) = Items(q) /\ KilledSem!Elements(q) = Items(q)
             /\ TheSBox!Sem!Elements(q) = Items(q)
  BY DEF TheSem!Elements, KilledSem!Elements, TheSBox!Sem!Elements, Items
<1>2. TheSem!Inside \cup TheSem!Granted = Holding
  BY <1>1 DEF TheSem!Inside, TheSem!Granted, Holding, Given
<1>3. KilledSem!Inside \cup KilledSem!Granted = Holding
  BY <1>1 DEF KilledSem!Inside, KilledSem!Granted, Holding, Given
<1>4. TheSBox!Sem!Granted = Given
  BY <1>1 DEF TheSBox!Sem!Granted, Given
<1>5. ASSUME NEW S PROVE /\ TheSem!Cardinality(S) = Cardinality(S)
                         /\ KilledSem!Cardinality(S) = Cardinality(S)
                         /\ TheSBox!Cardinality(S) = Cardinality(S)
  BY DEF TheSem!Cardinality, KilledSem!Cardinality, TheSBox!Cardinality, Cardinality
<1> QED
  BY <1>2, <1>3, <1>4, <1>5

\* post neither makes nor loses a permit; kills never make one
\* (fiber_sem.c:164-178).
THEOREM PermitsAreConserved == Spec => []PermitsConserved
<1>1. LocalInv => PermitsConserved
  BY SemSets
  DEF LocalInv, PermitsConserved, TheSem!PermitsConserved, KilledSem!NeverTooMany
<1> QED
  BY <1>1, LocalSafe, PTL

\* Nobody waits while a permit is left (fiber_sem.c:75-99, 166-172).
THEOREM PermitsAreUsed == Spec => []NoIdlePermit
<1>1. LocalInv => NoIdlePermit
  BY DEF LocalInv, SemInv, NoIdlePermit, TheSem!NoIdlePermit
<1> QED
  BY <1>1, LocalSafe, PTL

\* pop never takes the front of an empty list (fiber_sem.hpp:58-77).
THEOREM FrontsExist == Spec => []FrontExists
<1>1. LocalInv => FrontExists
  BY SemSets DEF LocalInv, BoxInv, FrontExists, TheSBox!FrontExists
<1> QED
  BY <1>1, LocalSafe, PTL

\* Nobody waits for the mailbox while it has an object that nobody is on the way
\* to take, as long as nobody is killed (fiber_sem.hpp:58-77).
THEOREM ObjectsAreUsed == Spec => []NoIdleObject
<1>1. LocalInv => NoIdleObject
  <2> SUFFICES ASSUME LocalInv, object = "sbox", Len(sbox) > Cardinality(Given)
               PROVE  waiting = <<>>
    BY SemSets DEF NoIdleObject, TheSBox!NoIdleObject
  <2>1. SemInv /\ num + Cardinality(Given) = Len(sbox)
    BY DEF LocalInv, BoxExact
  <2>2. num \in Nat /\ Cardinality(Given) \in Nat
    BY <2>1, HoldingIsFinite DEF SemInv
  <2>3. num > 0
    BY <2>1, <2>2
  <2> QED
    BY <2>1, <2>3 DEF SemInv
<1> QED
  BY <1>1, LocalSafe, PTL

-------------------------------------------------------------------------------
\* The locks implement what a lock is to its users.

\* The fiber_lock is a lock: a hand-over is a release and, when the woken fiber
\* runs, an acquisition (fiber_lock.c:57-124).
THEOREM FiberLockIsALock == Spec => ImplementsLock
<1> DEFINE inside == Inside("in", {"lock"})
<1>1. Init => ALock!Init
  <2> SUFFICES ASSUME Init PROVE inside = {}
    BY DEF ALock!Init
  <2>1. object = "lock" => pc = [f \in Fibers |-> "out"]
    BY DEF Init, TheLock!Init
  <2> QED
    BY <2>1 DEF Inside
<1>2. LocalInv /\ [Next]_vars => [ALock!Next]_inside
  <2> SUFFICES ASSUME LocalInv, [Next]_vars
               PROVE  \/ inside' = inside
                      \/ \E f \in Fibers : \/ inside = {} /\ inside' = {f}
                                           \/ inside = {f} /\ inside' = {}
    BY DEF ALock!Next, ALock!Acquire, ALock!Release
  <2>1. UNCHANGED vars \/ (Next /\ object' = object)
    BY DEF Next, EventLoop, FiberStep, OnLock, OnRWLock, OnSem, OnSBox
  <2>2. CASE UNCHANGED vars
    BY <2>2 DEF vars, Inside
  <2>3. CASE object' = object /\ object # "lock"
    BY <2>3 DEF Inside
  <2>4. CASE Next /\ object' = object /\ object = "lock"
    <3> USE DEF TheLock!GoTo
    <3>1. inside = {f \in Fibers : pc[f] = "in"} /\ inside' = {f \in Fibers : pc'[f] = "in"}
      BY <2>4 DEF Inside
    <3>2. /\ pc \in [Fibers -> {"out", "in", "queued"}]
          /\ \A f \in Fibers : pc[f] = "in" => owner = f
      BY <2>4 DEF LocalInv, LockInv
    <3>3. TheLock!EventLoop \/ \E f \in Fibers : TheLock!FiberStep(f)
      BY <2>4 DEF Next, EventLoop, FiberStep, OnLock, OnRWLock, OnSem, OnSBox
    <3>4. CASE TheLock!EventLoop
      BY <3>1, <3>4 DEF TheLock!EventLoop
    <3>5. ASSUME NEW f \in Fibers, TheLock!FiberStep(f)
          PROVE  \/ inside' = inside
                 \/ inside = {} /\ inside' = {f}
                 \/ inside = {f} /\ inside' = {}
      <4>1. CASE TheLock!LockFree(f)
        BY <3>1, <3>2, <4>1, FibersAssumption DEF TheLock!LockFree
      <4>2. CASE TheLock!LockReturns(f)
        BY <3>1, <3>2, <4>2 DEF TheLock!LockReturns
      <4>3. CASE TheLock!Unlock(f)
        BY <3>1, <3>2, <4>3 DEF TheLock!Unlock
      <4>4. CASE TheLock!LockBusy(f)
        BY <3>1, <3>2, <4>4 DEF TheLock!LockBusy
      <4>5. CASE TheLock!SleepElsewhere(f) \/ \E g \in Fibers : TheLock!KillFiber(f, g)
        BY <3>1, <4>5 DEF TheLock!SleepElsewhere, TheLock!KillFiber
      <4> QED
        BY <3>5, <4>1, <4>2, <4>3, <4>4, <4>5 DEF TheLock!FiberStep
    <3> QED
      BY <3>3, <3>4, <3>5
  <2> QED
    BY <2>1, <2>2, <2>3, <2>4
<1> QED
  BY <1>1, <1>2, LocalSafe, PTL DEF Spec, ImplementsLock, ALock!Spec

\* Nobody reads while somebody else writes, whatever the kills do to the count.
LEMMA RWExclusion ==
  ASSUME RWInv
  PROVE  /\ Reading # {} => Writing = {}
         /\ \A f \in Writing : Writing = {f} /\ Reading = {}
<1>1. ASSUME NEW f \in Writing PROVE Writing = {f} /\ Reading = {}
  <2>1. writer = f /\ Writing = {f}
    BY <1>1 DEF RWInv
  <2>2. readers = 0
    BY <2>1, FibersAssumption DEF RWInv, Writing
  <2> QED
    BY <2>1, <2>2, ReadingIsFinite DEF RWInv
<1> QED
  BY <1>1

\* The fiber_rwlock is a readers-writers lock, with kills and without
\* (fiber_lock.c:149-284).
THEOREM FiberRWLockIsAnRWLock == Spec => ImplementsRWLock
<1> DEFINE choices == {"rwlock", "killed rwlock"}
           reads == Inside("reads", choices)
           writes == Inside("writes", choices)
<1>1. Init => ARWLock!Init
  <2> SUFFICES ASSUME Init PROVE reads = {} /\ writes = {}
    BY DEF ARWLock!Init
  <2>1. object \in choices => pc = [f \in Fibers |-> "out"]
    BY DEF Init, TheRWLock!Init, KilledRWLock!Init
  <2> QED
    BY <2>1 DEF Inside
<1>2. LocalInv /\ [Next]_vars => [ARWLock!Next]_(ARWLock!vars)
  <2> SUFFICES ASSUME LocalInv, [Next]_vars
               PROVE  \/ reads' = reads /\ writes' = writes
                      \/ \E f \in Fibers : \/ ARWLock!StartRead(f) \/ ARWLock!EndRead(f)
                                           \/ ARWLock!StartWrite(f) \/ ARWLock!EndWrite(f)
    BY DEF ARWLock!Next, ARWLock!vars
  <2>1. UNCHANGED vars \/ (Next /\ object' = object)
    BY DEF Next, EventLoop, FiberStep, OnLock, OnRWLock, OnSem, OnSBox
  <2>2. CASE UNCHANGED vars
    BY <2>2 DEF vars, Inside
  <2>3. CASE object' = object /\ object \notin choices
    BY <2>3 DEF Inside
  <2>4. CASE Next /\ object' = object /\ object \in choices
    <3> USE DEF TheRWLock!GoTo, TheRWLock!At
    <3>1. /\ reads = {f \in Fibers : pc[f] = "reads"}
          /\ reads' = {f \in Fibers : pc'[f] = "reads"}
          /\ writes = {f \in Fibers : pc[f] = "writes"}
          /\ writes' = {f \in Fibers : pc'[f] = "writes"}
      BY <2>4 DEF Inside
    <3>2. SchedInv /\ RWInv
      BY <2>4 DEF LocalInv
    <3>3. /\ pc \in [Fibers -> TheRWLock!PCs]
          /\ reads \subseteq Reading /\ writes \subseteq Writing
      BY <3>1, <3>2 DEF RWInv, Reading, Writing
    <3>4. \/ UNCHANGED pc
          \/ \E f \in Fibers :
               \/ TheRWLock!RLockFree(f) \/ TheRWLock!RLockBusy(f)
               \/ TheRWLock!WLockFree(f) \/ TheRWLock!WLockBusy(f)
               \/ TheRWLock!LockReturns(f) \/ TheRWLock!RUnlock(f) \/ TheRWLock!WUnlock(f)
      <4>1. CASE TheRWLock!EventLoop \/ \E f \in Fibers : TheRWLock!FiberStep(f)
        BY <4>1 DEF TheRWLock!EventLoop, TheRWLock!FiberStep, TheRWLock!SleepElsewhere,
                    TheRWLock!KillFiber
      <4>2. CASE KilledRWLock!EventLoop \/ \E f \in Fibers : KilledRWLock!FiberStep(f)
        BY <4>2, RWSame DEF TheRWLock!EventLoop, TheRWLock!SleepElsewhere,
                            KilledRWLock!KillFiber
      <4> QED
        BY <2>4, <4>1, <4>2 DEF Next, EventLoop, FiberStep, OnLock, OnRWLock, OnSem, OnSBox
    <3>5. CASE UNCHANGED pc
      BY <3>1, <3>5
    <3>6. ASSUME NEW f \in Fibers,
                 \/ TheRWLock!RLockFree(f) \/ TheRWLock!RLockBusy(f)
                 \/ TheRWLock!WLockFree(f) \/ TheRWLock!WLockBusy(f)
                 \/ TheRWLock!LockReturns(f) \/ TheRWLock!RUnlock(f) \/ TheRWLock!WUnlock(f)
          PROVE  \/ reads' = reads /\ writes' = writes
                 \/ f \notin reads /\ writes = {} /\ reads' = reads \cup {f} /\ writes' = writes
                 \/ reads = {} /\ writes = {} /\ writes' = {f} /\ reads' = reads
                 \/ f \in reads /\ reads' = reads \ {f} /\ writes' = writes
                 \/ writes = {f} /\ writes' = {} /\ reads' = reads
      <4>1. CASE TheRWLock!RLockFree(f)
        <5>1. Writing = {}
          BY <3>2, <4>1, FibersAssumption
          DEF TheRWLock!RLockFree, TheRWLock!CanRead, RWInv, Writing
        <5> QED
          BY <3>1, <3>3, <4>1, <5>1 DEF TheRWLock!RLockFree
      <4>2. CASE TheRWLock!WLockFree(f)
        <5>1. Writing = {}
          BY <3>2, <4>2, FibersAssumption
          DEF TheRWLock!WLockFree, TheRWLock!CanWrite, RWInv, Writing
        <5>2. Reading = {}
          BY <3>2, <4>2, ReadingIsFinite
          DEF TheRWLock!WLockFree, TheRWLock!CanWrite, RWInv
        <5> QED
          BY <3>1, <3>3, <4>2, <5>1, <5>2 DEF TheRWLock!WLockFree
      <4>3. CASE TheRWLock!RLockBusy(f) \/ TheRWLock!WLockBusy(f)
        BY ZenonT(30), <3>1, <3>3, <4>3 DEF TheRWLock!RLockBusy, TheRWLock!WLockBusy
      <4>4. CASE TheRWLock!LockReturns(f)
        <5>1. /\ pc[f] \in {"rqueued", "wqueued"} /\ running = f
              /\ f \in canceled => pc' = [pc EXCEPT ![f] = "out"]
              /\ f \notin canceled /\ pc[f] = "rqueued" => pc' = [pc EXCEPT ![f] = "reads"]
              /\ f \notin canceled /\ pc[f] = "wqueued" => pc' = [pc EXCEPT ![f] = "writes"]
          BY <4>4 DEF TheRWLock!LockReturns
        <5>2. f \notin Items(rwaiting) /\ f \notin Items(wwaiting)
          BY <3>2, <5>1, FibersAssumption DEF RWInv, WaitsIn, Awake
        <5>3. CASE f \in canceled
          BY ZenonT(30), <3>1, <3>3, <5>1, <5>3
        <5>4. CASE f \notin canceled /\ pc[f] = "rqueued"
          <6>1. f \in Reading /\ Writing = {}
            BY <3>2, <5>2, <5>4, RWExclusion DEF Reading
          <6> QED
            BY <3>1, <3>3, <5>1, <5>4, <6>1
        <5>5. CASE f \notin canceled /\ pc[f] = "wqueued"
          <6>1. f \in Writing /\ Writing = {f} /\ Reading = {}
            BY <3>2, <5>2, <5>5, RWExclusion DEF Writing
          <6>2. reads = {} /\ writes = {}
            BY <3>1, <3>3, <5>5, <6>1
          <6> QED
            BY <3>1, <3>3, <5>1, <5>5, <6>2
        <5> QED
          BY <5>1, <5>3, <5>4, <5>5
      <4>5. CASE TheRWLock!RUnlock(f)
        BY <3>1, <3>3, <4>5 DEF TheRWLock!RUnlock
      <4>6. CASE TheRWLock!WUnlock(f)
        <5>1. pc[f] = "writes" /\ pc' = [pc EXCEPT ![f] = "out"]
          BY <4>6 DEF TheRWLock!WUnlock
        <5>2. f \in Writing /\ Writing = {f}
          BY <3>2, <5>1, RWExclusion DEF Writing
        <5> QED
          BY ZenonT(30), <3>1, <3>3, <5>1, <5>2
      <4> QED
        BY <3>6, <4>1, <4>2, <4>3, <4>4, <4>5, <4>6
    <3> QED
      BY <3>4, <3>5, <3>6
      DEF ARWLock!StartRead, ARWLock!EndRead, ARWLock!StartWrite, ARWLock!EndWrite
  <2> QED
    BY <2>1, <2>2, <2>3, <2>4
<1> QED
  BY <1>1, <1>2, LocalSafe, PTL DEF Spec, ImplementsRWLock, ARWLock!Spec

===============================================================================
