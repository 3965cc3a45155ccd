----------------------------- MODULE LocalObjects -----------------------------
(* The synchronisation objects for the fibers of one thread, each as a program *)
(* uses it: main() of SyncObjectsAcl asks which object to try and then runs    *)
(* fibers that use this one object.  The choice stands for the whole           *)
(* behaviour; the variables of the other objects keep their initial values.    *)
EXTENDS Fibers

VARIABLES
  object,                                  \* the choice
  pc,
  owner, waiting,                          \* of the fiber_lock
  readers, writer, rwaiting, wwaiting,     \* of the fiber_rwlock
  num,                                     \* of the semaphore; and `waiting'
  sbox, pushed                             \* of the mailbox; with the semaphore

Objects == {"lock", "rwlock", "killed rwlock", "sem", "killed sem",
            "sbox", "killed sbox"}

lockVars == <<owner>>
rwVars == <<readers, writer, rwaiting, wwaiting>>
semVars == <<num>>
boxVars == <<sbox, pushed>>
vars == <<fiberVars, object, pc, waiting, lockVars, rwVars, semVars, boxVars>>

\* Fibers are killed while they wait for a lock; for the other objects, kills
\* are a case of their own, in which less holds.
TheLock == INSTANCE FiberLock
TheRWLock == INSTANCE FiberRWLock WITH Kills <- FALSE
KilledRWLock == INSTANCE FiberRWLock WITH Kills <- TRUE
TheSem == INSTANCE FiberSem WITH Permits <- 1, Async <- FALSE, Kills <- FALSE
KilledSem == INSTANCE FiberSem WITH Permits <- 2, Async <- TRUE, Kills <- TRUE
TheSBox == INSTANCE FiberSBox WITH MaxPush <- 3, Async <- FALSE, Kills <- FALSE
KilledSBox == INSTANCE FiberSBox WITH MaxPush <- 2, Async <- TRUE, Kills <- TRUE

NoLock == owner = None
NoRWLock == readers = 0 /\ writer = None /\ rwaiting = <<>> /\ wwaiting = <<>>
NoSem == num = 0
NoBox == sbox = <<>> /\ pushed = 0
NoQueue == waiting = <<>>

Init ==
  \/ object = "lock" /\ TheLock!Init /\ NoRWLock /\ NoSem /\ NoBox
  \/ object = "rwlock" /\ TheRWLock!Init /\ NoLock /\ NoQueue /\ NoSem /\ NoBox
  \/ object = "killed rwlock" /\ KilledRWLock!Init /\ NoLock /\ NoQueue /\ NoSem /\ NoBox
  \/ object = "sem" /\ TheSem!Init /\ NoLock /\ NoRWLock /\ NoBox
  \/ object = "killed sem" /\ KilledSem!Init /\ NoLock /\ NoRWLock /\ NoBox
  \/ object = "sbox" /\ TheSBox!Init /\ NoLock /\ NoRWLock
  \/ object = "killed sbox" /\ KilledSBox!Init /\ NoLock /\ NoRWLock

\* A step A on one kind of object leaves the variables of the others alone.
OnLock(choice, A) ==
  object = choice /\ A /\ UNCHANGED <<object, rwVars, semVars, boxVars>>
OnRWLock(choice, A) ==
  object = choice /\ A /\ UNCHANGED <<object, waiting, lockVars, semVars, boxVars>>
OnSem(choice, A) ==
  object = choice /\ A /\ UNCHANGED <<object, lockVars, rwVars, boxVars>>
OnSBox(choice, A) ==
  object = choice /\ A /\ UNCHANGED <<object, lockVars, rwVars>>

EventLoop ==
  \/ OnLock("lock", TheLock!EventLoop)
  \/ OnRWLock("rwlock", TheRWLock!EventLoop)
  \/ OnRWLock("killed rwlock", KilledRWLock!EventLoop)
  \/ OnSem("sem", TheSem!EventLoop)
  \/ OnSem("killed sem", KilledSem!EventLoop)
  \/ OnSBox("sbox", TheSBox!EventLoop)
  \/ OnSBox("killed sbox", KilledSBox!EventLoop)

FiberStep(f) ==
  \/ OnLock("lock", TheLock!FiberStep(f))
  \/ OnRWLock("rwlock", TheRWLock!FiberStep(f))
  \/ OnRWLock("killed rwlock", KilledRWLock!FiberStep(f))
  \/ OnSem("sem", TheSem!FiberStep(f))
  \/ OnSem("killed sem", KilledSem!FiberStep(f))
  \/ OnSBox("sbox", TheSBox!FiberStep(f))
  \/ OnSBox("killed sbox", KilledSBox!FiberStep(f))

Next == EventLoop \/ \E f \in Fibers : FiberStep(f)

Spec == Init /\ [][Next]_vars

-------------------------------------------------------------------------------
\* The state is made of what the variables of the code may hold.
TypeOK ==
  /\ object = "lock" => TheLock!TypeOK
  /\ object \in {"rwlock", "killed rwlock"} => TheRWLock!TypeOK
  /\ object \in {"sem", "killed sem"} => TheSem!TypeOK
  /\ object \in {"sbox", "killed sbox"} => TheSBox!TypeOK

Inside(label, choices) ==
  IF object \in choices THEN {f \in Fibers : pc[f] = label} ELSE {}

\* The fiber_lock is a lock: a hand-over is a release and, when the woken fiber
\* runs, an acquisition, with nobody inside in between; who is killed while it
\* waits stays outside (fiber_lock.c:74-84, 102-124).
ALock == INSTANCE Lock WITH Clients <- Fibers, holders <- Inside("in", {"lock"})
ImplementsLock == ALock!Spec

\* Readers and a writer are never inside together, through hand-overs to several
\* woken readers, queues on both sides and kills (fiber_lock.c:149-284).
ARWLock ==
  INSTANCE RWLock WITH
    Clients <- Fibers,
    reading <- Inside("reads", {"rwlock", "killed rwlock"}),
    writing <- Inside("writes", {"rwlock", "killed rwlock"})
ImplementsRWLock == ARWLock!Spec

\* Nobody waits for a fiber_lock that is free: an unlock that meets a killed waiter,
\* a trylock or a late arrival never leaves it to nobody while somebody is in its
\* list; nor for a free rwlock whose waiters are not killed (fiber_lock.c:102-124,
\* 238-284).
FreeMeansNobodyWaits ==
  /\ object = "lock" => TheLock!FreeMeansNobodyWaits
  /\ object = "rwlock" => TheRWLock!FreeMeansNobodyWaits

\* A fiber that the lock was handed to takes it, also when it is killed before it
\* runs (fiber_lock.c:74-84, 119-122).
GrantIsNoticed == object = "lock" => TheLock!GrantIsNoticed

\* The count and the writer account for those inside and those that were woken:
\* no reader is counted twice or forgotten, as long as nobody who waits is killed
\* (fiber_lock.c:256-284).
CountIsExact == object = "rwlock" => TheRWLock!CountIsExact

\* Permits are neither made nor lost while post counts one up and down again and
\* hands it to a fiber that runs only later (fiber_sem.c:164-178); kills may lose
\* some, but never make any.
PermitsConserved ==
  /\ object = "sem" => TheSem!PermitsConserved
  /\ object = "killed sem" => KilledSem!NeverTooMany

\* Nobody waits while a permit is left (fiber_sem.c:75-99, 166-172).
NoIdlePermit == object \in {"sem", "killed sem"} => TheSem!NoIdlePermit

\* pop of a mailbox never takes from an empty list (fiber_sem.hpp:58-77).
FrontExists == object \in {"sbox", "killed sbox"} => TheSBox!FrontExists

\* Nobody waits while the mailbox has more objects than fibers on their way to
\* take one, as long as nobody is killed (fiber_sem.hpp:58-77).
NoIdleObject == object = "sbox" => TheSBox!NoIdleObject

-------------------------------------------------------------------------------
Unlock(f) ==
  \/ OnLock("lock", TheLock!Unlock(f))
  \/ OnRWLock("rwlock", TheRWLock!RUnlock(f) \/ TheRWLock!WUnlock(f))
  \/ OnSem("sem", TheSem!PostBack(f))

SleepElsewhere(f) ==
  \/ OnLock("lock", TheLock!SleepElsewhere(f))
  \/ OnRWLock("rwlock", TheRWLock!SleepElsewhere(f))
  \/ OnSem("sem", TheSem!SleepElsewhere(f))

WakesUp(f) == EventLoop /\ running = None /\ f \in Elements(ready')

\* The ready ring is first in, first out; what a fiber sleeps for happens; who is
\* inside leaves some time, however often it sleeps in between; and no fiber runs
\* for ever without a switch.
FairSpec ==
  /\ Spec
  /\ WF_vars(EventLoop)
  /\ \A f \in Fibers :
       /\ WF_vars(FiberStep(f)) /\ WF_vars(SleepElsewhere(f))
       /\ SF_vars(WakesUp(f)) /\ SF_vars(Unlock(f))

\* Everybody who waits for a lock or a permit gets an answer, whoever keeps
\* coming: unlock passes nobody over, and neither readers nor writers starve
\* (fiber_lock.c:102-124, 238-284, fiber_sem.c:164-178).
Waits(f) ==
  object \in {"lock", "rwlock", "sem"} /\ pc[f] \in {"queued", "rqueued", "wqueued"}
WaitersAreServed == \A f \in Fibers : Waits(f) ~> ~Waits(f)

===============================================================================
