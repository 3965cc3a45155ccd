------------------------------ MODULE FiberMutex ------------------------------
(* ACL_FIBER_MUTEX (lib_fiber/c/src/sync/fiber_mutex.c): a mutex for fibers of *)
(* several threads and for threads without fibers.  thread_lock is the mutex   *)
(* itself; mutex->lock guards the array of waiting fibers.  unlock wakes one   *)
(* of them, which then has to try again: by FIBER_READY on its own thread, by  *)
(* a message to the sync_waiter of another one.                                *)
EXTENDS FiberThreads

CONSTANTS
  MaxWakeups, \* wakeups after which a waiter sleeps (5 in the code)
  MaxPending  \* bound on the array and the messages when a fiber is killed again

VARIABLES
  lockTry,          \* mutex->flags has FIBER_MUTEX_F_LOCK_TRY; never changes
  victims,          \* fibers that others of their thread may kill; never changes
  threadLock,       \* who has mutex->thread_lock, or None
  lock,             \* who has mutex->lock, or None
  fiber,            \* mutex->fiber
  waiters,          \* mutex->waiters
  popped,           \* popped[c]: the waiter that the unlock of c wakes
  wakeups           \* the counter of the lock loop

mutexVars == <<threadLock, lock, fiber, waiters>>

PCs == {"out", "again", "append", "queue", "queued", "delay", "blocked",
        "in", "popped", "wake"}

TypeOK ==
  /\ running \in [Threads -> Fibers \cup {None}]
  /\ ready \in [Threads -> Seq(Fibers)]
  /\ mbox \in [Threads -> Seq(Fibers)]
  /\ canceled \subseteq Fibers
  /\ threadLock \in Clients \cup {None} /\ lock \in Clients \cup {None}
  /\ fiber \in Fibers \cup {None}
  /\ waiters \in Seq(Fibers)
  /\ popped \in [Clients -> Fibers \cup {None}]
  /\ wakeups \in [Fibers -> 0 .. MaxWakeups]
  /\ pc \in [Clients -> PCs]

Init ==
  /\ ThreadsInit
  /\ threadLock = None /\ lock = None /\ fiber = None /\ waiters = <<>>
  /\ popped = [c \in Clients |-> None]
  /\ wakeups = [f \in Fibers |-> 0]

-------------------------------------------------------------------------------
\* acl_fiber_mutex_lock notes the fiber once the lock has been taken.
Take(c) ==
  /\ threadLock = None /\ threadLock' = c
  /\ fiber' = IF c \in Fibers THEN c ELSE None
  /\ wakeups' = IF c \in Fibers THEN [wakeups EXCEPT ![c] = 0] ELSE wakeups
  /\ GoTo(c, "in")
  /\ UNCHANGED <<schedVars, lock, waiters, popped>>

Enqueue(f) ==
  /\ threadLock # None
  /\ waiters' = Append(waiters, f)
  /\ GoTo(f, "queue")
  /\ UNCHANGED <<schedVars, threadLock, lock, fiber, popped, wakeups>>

Trying(f) == At(f, "out") \/ At(f, "again")

\* fiber_mutex_lock_once: both trylocks fail or succeed together under lock.
LockOnce(f) == ~lockTry /\ Trying(f) /\ lock = None /\ (Take(f) \/ Enqueue(f))

\* fiber_mutex_lock_try: the first trylock is made without lock.
FirstTry(f) ==
  /\ lockTry /\ Trying(f)
  /\ \/ Take(f)
     \/ /\ threadLock # None /\ GoTo(f, "append")
        /\ UNCHANGED <<schedVars, mutexVars, popped, wakeups>>

\* The fiber is in the array when it tries again; if it succeeds it leaves it.
AppendOnly(f) ==   \* mutant: no second trylock
  /\ At(f, "append") /\ lock = None
  /\ waiters' = Append(waiters, f)
  /\ GoTo(f, "queue")
  /\ UNCHANGED <<schedVars, threadLock, lock, fiber, popped, wakeups>>
AppendAndStay(f) ==   \* mutant: no array_delete after a successful trylock
  /\ At(f, "append") /\ lock = None
  /\ waiters' = Append(waiters, f)
  /\ \/ threadLock = None /\ threadLock' = f /\ fiber' = f /\ GoTo(f, "in")
     \/ threadLock # None /\ GoTo(f, "queue") /\ UNCHANGED <<threadLock, fiber>>
  /\ UNCHANGED <<schedVars, lock, popped, wakeups>>
AppendAndTry(f) == At(f, "append") /\ lock = None /\ (Take(f) \/ Enqueue(f))

Switch(f) ==
  /\ At(f, "queue")
  /\ SwitchAway(f)
  /\ GoTo(f, "queued")
  /\ UNCHANGED <<ready, mbox, canceled, mutexVars, popped, wakeups>>

PatienceOffByOne(f) == wakeups[f] <= MaxWakeups   \* mutant: `wakeup++ > 5'
Patience(f) == wakeups[f] < MaxWakeups

\* Back from the switch, whoever caused it: try again, now and then after a
\* delay of 100 ms.
Woken(f) ==
  /\ At(f, "queued")
  /\ IF Patience(f)
     THEN /\ wakeups' = [wakeups EXCEPT ![f] = @ + 1]
          /\ GoTo(f, "again")
          /\ UNCHANGED running
     ELSE /\ wakeups' = [wakeups EXCEPT ![f] = 0]
          /\ GoTo(f, "delay")
          /\ SwitchAway(f)
  /\ UNCHANGED <<ready, mbox, canceled, mutexVars, popped>>

Timer(f) ==
  /\ pc[f] = "delay" /\ Suspended(f)
  /\ MakeReady(f)
  /\ UNCHANGED <<running, mbox, canceled, mutexVars, popped, wakeups, pc>>

DelayEnds(f) ==
  /\ At(f, "delay") /\ GoTo(f, "again")
  /\ UNCHANGED <<schedVars, mutexVars, popped, wakeups>>

\* A thread without fibers blocks in pthread_mutex_lock when it is too late.
SoloLock(s) ==
  /\ pc[s] = "out" /\ (lockTry \/ lock = None)
  /\ \/ Take(s)
     \/ /\ threadLock # None /\ GoTo(s, "blocked")
        /\ UNCHANGED <<schedVars, mutexVars, popped, wakeups>>
SoloTakes(s) == pc[s] = "blocked" /\ Take(s)

\* acl_fiber_mutex_trylock does not set mutex->fiber; a failure changes nothing.
TryLock(c) ==
  /\ At(c, "out")
  /\ threadLock = None /\ threadLock' = c
  /\ GoTo(c, "in")
  /\ UNCHANGED <<schedVars, lock, fiber, waiters, popped, wakeups>>

UnlockPop(c) ==
  /\ At(c, "in") /\ lock = None
  /\ lock' = c
  /\ popped' = [popped EXCEPT ![c] = FirstOf(waiters)]
  /\ waiters' = PopFront(waiters)
  /\ GoTo(c, "popped")
  /\ UNCHANGED <<schedVars, threadLock, fiber, wakeups>>

UnlockRelease(c) ==
  /\ At(c, "popped")
  /\ threadLock' = None /\ fiber' = None /\ lock' = None
  /\ GoTo(c, IF popped[c] = None THEN "out" ELSE "wake")
  /\ UNCHANGED <<schedVars, waiters, popped, wakeups>>

\* FIBER_READY on this thread, sync_waiter_wakeup for another one.
UnlockWake(c) ==
  /\ At(c, "wake")
  /\ LET f == popped[c] IN
       IF SameThread(c, f)
       THEN MakeReady(f) /\ UNCHANGED mbox
       ELSE mbox' = [mbox EXCEPT ![Home[f]] = Append(@, f)] /\ UNCHANGED ready
  /\ popped' = [popped EXCEPT ![c] = None]
  /\ GoTo(c, "out")
  /\ UNCHANGED <<running, canceled, mutexVars, wakeups>>

\* A killed waiter stays in the array, and enters it again when it finds the mutex
\* taken.
KillFiber(f, g) ==
  /\ g \in victims /\ (At(f, "out") \/ At(f, "in"))
  /\ g \in canceled => Len(waiters) + Len(mbox[Home[g]]) < MaxPending
  /\ Cancel(f, g)
  /\ UNCHANGED <<running, mbox, mutexVars, popped, wakeups, pc>>

\* Anything else a fiber waits for, with or without the mutex.
SleepElsewhere(f) ==
  /\ At(f, "out") \/ At(f, "in")
  /\ SwitchAway(f)
  /\ UNCHANGED <<ready, mbox, canceled, mutexVars, popped, wakeups, pc>>

-------------------------------------------------------------------------------
Resume(t) ==
  /\ ResumeOn(t)
  /\ UNCHANGED <<mbox, canceled, mutexVars, popped, wakeups, pc>>

DeliverFirst(t) ==   \* mutant: the messages that come together are lost
  /\ running[t] = None /\ mbox[t] # <<>>
  /\ MakeReady(Head(mbox[t]))
  /\ mbox' = [mbox EXCEPT ![t] = <<>>]
  /\ UNCHANGED <<running, canceled, mutexVars, popped, wakeups, pc>>

\* The fiber_waiting of thread t takes a message.
Deliver(t) ==
  /\ running[t] = None /\ mbox[t] # <<>>
  /\ MakeReady(Head(mbox[t]))
  /\ mbox' = [mbox EXCEPT ![t] = Tail(@)]
  /\ UNCHANGED <<running, canceled, mutexVars, popped, wakeups, pc>>

\* What a fiber sleeps for has happened.
Event(f) ==
  /\ running[Home[f]] = None /\ pc[f] \in {"out", "in"} /\ Suspended(f)
  /\ MakeReady(f)
  /\ UNCHANGED <<running, mbox, canceled, mutexVars, popped, wakeups, pc>>

LockStep(f) ==
  \/ LockOnce(f) \/ FirstTry(f) \/ AppendAndTry(f) \/ Switch(f)
  \/ Woken(f) \/ DelayEnds(f)
Unlock(c) == UnlockPop(c) \/ UnlockRelease(c) \/ UnlockWake(c)

Next ==
  /\ UNCHANGED <<lockTry, victims>>
  /\ \/ \E t \in Threads : Resume(t) \/ Deliver(t)
     \/ \E f \in Fibers : LockStep(f) \/ Timer(f) \/ Event(f) \/ SleepElsewhere(f)
     \/ \E f, g \in Fibers : KillFiber(f, g)
     \/ \E s \in Solos : SoloLock(s) \/ SoloTakes(s)
     \/ \E c \in Clients : TryLock(c) \/ Unlock(c)

-------------------------------------------------------------------------------
InLock(f) == pc[f] \in {"again", "append", "queue", "queued", "delay"}

\* Something is going to let fiber f run.
WakeupInFlight(f) ==
  ~Suspended(f) \/ pc[f] = "delay" \/ f \in Elements(mbox[Home[f]])
    \/ \E c \in Clients : popped[c] = f

\* While the mutex is free and fibers are in the array, somebody who is not is
\* on the way to try, and will wake the next one in turn
\* (fiber_mutex.c:482, 525-532, 603-619).
NoLostWakeup ==
  threadLock = None /\ waiters # <<>> =>
    \/ \E f \in Fibers : InLock(f) /\ f \notin Elements(waiters) /\ WakeupInFlight(f)
    \/ \E s \in Solos : pc[s] = "blocked"

\* Whoever left the array without having tried is woken.
NobodyIsForgotten ==
  \A f \in Fibers :
    pc[f] \in {"queue", "queued"} /\ f \notin Elements(waiters) => WakeupInFlight(f)

\* Wakeups reach fibers that wait for the mutex, never one that waits for
\* something else by now (fiber_mutex.c:528-532, 613-619).
WakeupsAreForWaiters ==
  \A f \in Fibers :
    f \in (UNION {Elements(mbox[t]) : t \in Threads}) \cup {popped[c] : c \in Clients}
      => pc[f] \in {"queue", "queued"}

===============================================================================
