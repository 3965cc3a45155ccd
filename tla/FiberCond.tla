------------------------------ MODULE FiberCond ------------------------------
(* ACL_FIBER_COND (lib_fiber/c/src/sync/fiber_cond.c, sync_timer.c): wait with *)
(* or without a timeout, and signal, for fibers of several threads and for     *)
(* threads without fibers.  Two things wake a waiter, its timer and a signal;  *)
(* the mutex it must then lock again is the lock of FiberMutex, of which only  *)
(* the owner is kept here.                                                     *)
EXTENDS FiberThreads

CONSTANT
  MaxMail     \* bound on the messages that wait for a thread

VARIABLES
  owner,      \* of the mutex, or None
  waiters,    \* cond->waiters: each client has one SYNC_OBJ while it waits
  timed,      \* clients that wait with a timeout (obj->delay >= 0)
  timers,     \* fibers whose `me' is in a node of the timer cache
  fired,      \* fibers with the flag FIBER_F_TIMER
  event,      \* threads whose event_in is readable
  popped      \* popped[c]: the object of the waiter that the signal of c wakes

condVars == <<waiters, timed, timers, fired, event, popped>>

PCs == {"out", "locking", "in", "unlock", "switch", "asleep", "late",
        "expired", "relock", "delete", "wake"}

\* A SYNC_OBJ: whose it is, and whether obj->delay >= 0.
Objects == [of : Clients, timed : BOOLEAN]

CondTypeOK ==
  /\ running \in [Threads -> Fibers \cup {None}]
  /\ ready \in [Threads -> Seq(Fibers)]
  /\ mbox \in [Threads -> Seq(Objects)]
  /\ canceled \subseteq Fibers
  /\ owner \in Clients \cup {None}
  /\ waiters \in Seq(Clients)
  /\ timed \subseteq Clients /\ timers \subseteq Fibers /\ fired \subseteq Fibers
  /\ event \subseteq Solos
  /\ popped \in [Clients -> Objects \cup {None}]
  /\ pc \in [Clients -> PCs]

CondInit ==
  /\ ThreadsInit
  /\ owner = None /\ waiters = <<>>
  /\ timed = {} /\ timers = {} /\ fired = {} /\ event = {}
  /\ popped = [c \in Clients |-> None]

-------------------------------------------------------------------------------
\* FIBER_LOCK: at once, or asleep until the mutex looks free; then try again.
\* The sleep of a lock that takes long clears FIBER_F_TIMER (acl_fiber_delay).
Acquire(c, next) ==
  /\ owner = None /\ owner' = c
  /\ GoTo(c, next)
  /\ UNCHANGED <<schedVars, condVars>>

Block(f) ==
  /\ owner # None
  /\ SwitchAway(f)
  /\ fired' \in {fired, fired \ {f}}
  /\ UNCHANGED <<ready, canceled, mbox, owner, waiters, timed, timers, event,
                 popped>>

Lock(c) ==
  \/ (At(c, "out") \/ At(c, "locking")) /\ Acquire(c, "in")
  \/ c \in Fibers /\ (At(c, "out") \/ At(c, "locking")) /\ Block(c) /\ GoTo(c, "locking")

Relock(c) ==
  \/ At(c, "relock") /\ Acquire(c, IF c \in Fibers THEN "delete" ELSE "in")
  \/ At(c, "expired") /\ Acquire(c, "in")
  \/ c \in Fibers /\ At(c, "relock") /\ Block(c) /\ UNCHANGED pc

\* The mutex wakes the fibers that wait for it.
MutexWakes(f) ==
  /\ owner = None /\ Suspended(f) /\ pc[f] \in {"locking", "relock"}
  /\ MakeReady(f)
  /\ UNCHANGED <<running, canceled, mbox, owner, condVars, pc>>

Unlock(c) ==
  /\ At(c, "in") /\ owner' = None /\ GoTo(c, "out")
  /\ UNCHANGED <<schedVars, condVars>>

-------------------------------------------------------------------------------
TimersOfAll(c, delayed) ==   \* mutant: also for threads without fibers
  IF delayed THEN timers \cup {c} ELSE timers
TimersWith(c, delayed) ==
  IF delayed /\ c \in Fibers THEN timers \cup {c} ELSE timers

\* wait, its first section: the object and the timer come before the unlock.
Enlist(c, delayed) ==
  /\ At(c, "in")
  /\ waiters' = Append(waiters, c)
  /\ timed' = IF delayed THEN timed \cup {c} ELSE timed \ {c}
  /\ timers' = TimersWith(c, delayed)
  /\ event' = event \ {c}
  /\ GoTo(c, "unlock")
  /\ UNCHANGED <<schedVars, owner, fired, popped>>

UnlockInWait(c) ==
  /\ At(c, "unlock") /\ owner' = None
  /\ GoTo(c, IF c \in Fibers THEN "switch" ELSE "asleep")
  /\ UNCHANGED <<schedVars, condVars>>

Switch(f) ==
  /\ At(f, "switch") /\ SwitchAway(f)
  /\ GoTo(f, "asleep")
  /\ UNCHANGED <<ready, canceled, mbox, owner, condVars>>

Woken(f) ==
  /\ f \in Fibers /\ At(f, "asleep") /\ GoTo(f, "relock")
  /\ UNCHANGED <<schedVars, owner, condVars>>

DeletedUnlessFired(c) ==   \* mutant: the timer is thought to have deleted it
  IF c \in fired THEN waiters ELSE DeleteObj(waiters, c)
Deleted(c) == DeleteObj(waiters, c)

\* With the mutex, the object is deleted in case no signal has popped it.
Leave(f) ==
  /\ f \in Fibers /\ At(f, "delete")
  /\ waiters' = Deleted(f)
  /\ fired' = fired \ {f}
  /\ GoTo(f, "in")
  /\ UNCHANGED <<schedVars, owner, timed, timers, event, popped>>

\* What wait then returns to fiber f.
Outcome(f) ==
  IF f \in fired THEN "timeout" ELSE IF f \in canceled THEN "canceled" ELSE "ok"

Wakes(d, c) == popped[d] # None /\ popped[d].of = c

\* A thread sleeps on its descriptor and deletes its object before the lock; a
\* signal that comes later goes to a descriptor nobody reads.
SoloWoken(s) ==
  /\ s \in Solos /\ pc[s] = "asleep" /\ s \in event
  /\ GoTo(s, "relock")
  /\ UNCHANGED <<schedVars, owner, waiters, timed, timers, fired, event, popped>>

SoloTimeout(s) ==
  /\ s \in Solos /\ pc[s] = "asleep" /\ s \in timed /\ s \notin event
  /\ GoTo(s, "late")
  /\ UNCHANGED <<schedVars, owner, waiters, timed, timers, fired, event, popped>>

SoloLeave(s) ==
  /\ s \in Solos /\ pc[s] = "late"
  /\ waiters' = DeleteObj(waiters, s)
  /\ popped' = [d \in Clients |-> IF Wakes(d, s) THEN None ELSE popped[d]]
  /\ GoTo(s, "expired")
  /\ UNCHANGED <<schedVars, owner, timed, timers, fired, event>>

-------------------------------------------------------------------------------
\* signal pops the first waiter, with or without the mutex; nobody is no error.
Pop(c) ==
  /\ At(c, "out") \/ At(c, "in")
  /\ waiters # <<>>
  /\ popped' = [popped EXCEPT
       ![c] = [of |-> Head(waiters), timed |-> Head(waiters) \in timed]]
  /\ waiters' = PopFront(waiters)
  /\ GoTo(c, "wake")
  /\ UNCHANGED <<schedVars, owner, timed, timers, fired, event>>

StillAsleepDelayed(f, delayed) ==   \* mutant: `obj->delay > 0' is the test
  delayed /\ f \in timers
\* wakeup_waiter: a fiber with a timeout that is not in the timer any more has
\* been woken by it.
StillAsleep(f, delayed) == delayed => f \in timers
TimersAfterKept(f) == timers   \* mutant: made ready, but not taken out
TimersAfter(f) == timers \ {f}
WakeFiber(f, delayed) ==
  IF StillAsleep(f, delayed)
  THEN /\ MakeReady(f)
       /\ timers' = TimersAfter(f)
  ELSE UNCHANGED <<ready, timers>>

WakeSolo(obj) ==
  /\ event' = event \cup {obj.of}
  /\ UNCHANGED <<ready, mbox, timers>>

Send(obj) ==
  /\ Len(mbox[Home[obj.of]]) < MaxMail
  /\ mbox' = [mbox EXCEPT ![Home[obj.of]] = Append(@, obj)]
  /\ UNCHANGED <<ready, timers, event>>

Wake(c) ==
  /\ At(c, "wake")
  /\ LET obj == popped[c] IN
       IF obj = None THEN UNCHANGED <<ready, mbox, timers, event>>
       ELSE IF obj.of \in Solos THEN WakeSolo(obj)
       ELSE IF SameThread(c, obj.of)
            THEN WakeFiber(obj.of, obj.timed) /\ UNCHANGED <<mbox, event>>
            ELSE Send(obj)
  /\ popped' = [popped EXCEPT ![c] = None]
  /\ GoTo(c, IF owner = c THEN "in" ELSE "out")
  /\ UNCHANGED <<running, canceled, owner, waiters, timed, fired>>

\* fiber_waiting
Deliver(t) ==
  /\ running[t] = None /\ mbox[t] # <<>>
  /\ WakeFiber(Head(mbox[t]).of, Head(mbox[t]).timed)
  /\ mbox' = [mbox EXCEPT ![t] = Tail(@)]
  /\ UNCHANGED <<running, canceled, owner, waiters, timed, fired, event, popped,
                 pc>>

\* wakeup_timers
Fire(f) ==
  /\ running[Home[f]] = None /\ f \in timers
  /\ fired' = fired \cup {f}
  /\ timers' = timers \ {f}
  /\ MakeReady(f)
  /\ UNCHANGED <<running, canceled, mbox, owner, waiters, timed, event, popped,
                 pc>>

-------------------------------------------------------------------------------
Resume(t) == ResumeOn(t) /\ UNCHANGED <<canceled, mbox, owner, condVars, pc>>

\* The ready ring takes a killed fiber out of the timer.
KillFiber(f, g) ==
  /\ (At(f, "out") \/ At(f, "in"))
  /\ Cancel(f, g)
  /\ timers' = IF Suspended(g) THEN timers \ {g} ELSE timers
  /\ UNCHANGED <<running, mbox, owner, waiters, timed, fired, event, popped,
                 pc>>

\* Anything else a fiber waits for, with or without the mutex.
SleepElsewhere(f) ==
  /\ At(f, "out") \/ At(f, "in")
  /\ SwitchAway(f)
  /\ UNCHANGED <<ready, canceled, mbox, owner, condVars, pc>>

Event(f) ==
  /\ running[Home[f]] = None /\ pc[f] \in {"out", "in"} /\ Suspended(f)
  /\ MakeReady(f)
  /\ UNCHANGED <<running, canceled, mbox, owner, condVars, pc>>

-------------------------------------------------------------------------------
\* The list holds at most one object for each client, and only for clients that are
\* inside wait: signal would use an object that has been freed
\* (fiber_cond.c:157-159, 201-208, 249-262).
WaitersAreWaiting ==
  /\ Cardinality(Elements(waiters)) = Len(waiters)
  /\ \A c \in Elements(waiters) :
       pc[c] \in {"unlock", "switch", "asleep", "late", "relock", "delete"}

\* A sleeper whom a signal has popped is going to be woken: by the signal, by
\* its message, or by the timer it still has (fiber_cond.c:249-291,
\* sync_timer.c:70-85).
PoppedAreWoken ==
  \A c \in Clients :
    pc[c] = "asleep" /\ c \notin Elements(waiters) =>
      \/ \E d \in Clients : Wakes(d, c)
      \/ IF c \in Solos THEN c \in event
         ELSE ~Suspended(c) \/ \E m \in Elements(mbox[Home[c]]) : m.of = c

\* No timer is left behind for a fiber that has been woken otherwise; it would
\* end a later sleep of the fiber (sync_timer.c:74-83, fiber_io.c:207-233).
TimersAreForWaiters == \A f \in timers : pc[f] \in {"unlock", "switch", "asleep"}

===============================================================================
