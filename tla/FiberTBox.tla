------------------------------- MODULE FiberTBox -------------------------------
(* fiber_tbox (lib_fiber/cpp/include/fiber/fiber_tbox.hpp): a mailbox between  *)
(* fibers and threads, a list guarded by a fiber_mutex and announced by a      *)
(* fiber_cond.  push appends and notifies; pop waits until there is an object, *)
(* but with wait_ms >= 0 gives up as soon as one wait fails.                   *)
EXTENDS FiberCond

CONSTANTS
  Users,    \* the clients that use the mailbox, the others do nothing
  Hurries,  \* the sets of clients that may be the ones that pop with wait_ms >= 0
  MaxPush   \* bound on the objects pushed in a behaviour

VARIABLES
  box,      \* the number of objects in tbox_
  pushed,   \* the number of pushes begun
  job,      \* what each client is doing with the box
  hasty     \* the clients that pop with wait_ms >= 0, always the same ones

boxVars == <<box, pushed, job, hasty>>
waitVars == <<schedVars, pc, owner, condVars>>
vars == <<waitVars, boxVars>>

Jobs == {"none", "push", "notify", "release", "announce", "pop", "leave"}

TypeOK ==
  /\ CondTypeOK
  /\ box \in 0 .. MaxPush /\ pushed \in 0 .. MaxPush
  /\ job \in [Clients -> Jobs] /\ hasty \in Hurries

Init ==
  /\ CondInit
  /\ box = 0 /\ pushed = 0
  /\ job = [c \in Clients |-> "none"] /\ hasty \in Hurries

In(c, label, work) == At(c, label) /\ job[c] = work
Do(c, work) == job' = [job EXCEPT ![c] = work]

-------------------------------------------------------------------------------
Start(c) ==
  /\ In(c, "out", "none")
  /\ \/ Do(c, "pop") /\ UNCHANGED pushed
     \/ pushed < MaxPush /\ pushed' = pushed + 1 /\ Do(c, "push")
  /\ UNCHANGED <<waitVars, box, hasty>>

LockBox(c) ==
  job[c] \in {"push", "pop"} /\ Lock(c) /\ UNCHANGED boxVars

PushBack(c) ==
  /\ In(c, "in", "push")
  /\ box' = box + 1
  /\ Do(c, "notify") \/ Do(c, "release")
  /\ UNCHANGED <<waitVars, pushed, hasty>>

\* With notify_first the mutex is unlocked last, else before the notify.
Release(c) ==
  /\ In(c, "in", "release") /\ Unlock(c)
  /\ Do(c, "announce") /\ UNCHANGED <<box, pushed, hasty>>

AnnouncedIfFirst(c) ==   \* mutant: only the first object is announced
  IF box = 1 THEN Pop(c) ELSE UNCHANGED waitVars
Announced(c) == Pop(c)

Notify(c) ==
  /\ \/ In(c, "in", "notify") /\ Do(c, "leave")
     \/ In(c, "out", "announce") /\ Do(c, "none")
  /\ IF waiters = <<>> THEN UNCHANGED waitVars ELSE Announced(c)
  /\ UNCHANGED <<box, pushed, hasty>>

Found(c) ==
  /\ In(c, "in", "pop") /\ box > 0
  /\ box' = box - 1
  /\ Do(c, "leave")
  /\ UNCHANGED <<waitVars, pushed, hasty>>

Wait(c) ==
  /\ In(c, "in", "pop") /\ box = 0
  /\ Enlist(c, c \in hasty)
  /\ UNCHANGED boxVars

\* The rest of signal, and of wait before it locks the mutex again.
CondStep(c) ==
  /\ \/ Wake(c) \/ UnlockInWait(c) \/ Woken(c)
     \/ SoloWoken(c) \/ SoloTimeout(c) \/ SoloLeave(c)
  /\ UNCHANGED boxVars

GivesUpAlways(c) == c \in Clients   \* mutant: wait_ms is not looked at
\* A failed wait ends pop, but only one that has a timeout.
GivesUp(c) == c \in hasty
RelockBox(c) ==
  /\ Relock(c)
  /\ IF pc[c] = "expired" /\ GivesUp(c) THEN Do(c, "leave") ELSE UNCHANGED job
  /\ UNCHANGED <<box, pushed, hasty>>

WaitReturns(f) ==
  /\ Leave(f)
  /\ IF Outcome(f) # "ok" /\ GivesUp(f) THEN Do(f, "leave") ELSE UNCHANGED job
  /\ UNCHANGED <<box, pushed, hasty>>

ReleaseBox(c) ==
  /\ In(c, "in", "leave") /\ Unlock(c)
  /\ Do(c, "none") /\ UNCHANGED <<box, pushed, hasty>>

BoxStep(c) ==
  \/ LockBox(c) \/ PushBack(c) \/ Release(c) \/ Notify(c)
  \/ Found(c) \/ Wait(c) \/ CondStep(c) \/ RelockBox(c) \/ ReleaseBox(c)

FiberStep(f) ==
  /\ Switch(f) \/ MutexWakes(f) \/ Fire(f)
       \/ (pc[f] = "out" /\ job[f] = "none" /\ (SleepElsewhere(f) \/ Event(f)))
  /\ UNCHANGED boxVars

ThreadStep(t) == (Deliver(t) \/ Resume(t)) /\ UNCHANGED boxVars

\* A fiber kills another while it does nothing with the box.
KillIdle(f, g) ==
  /\ In(f, "out", "none") /\ KillFiber(f, g)
  /\ UNCHANGED boxVars

Next ==
  \/ \E c \in Users : Start(c) \/ BoxStep(c)
  \/ \E f \in Fibers \cap Users : WaitReturns(f) \/ FiberStep(f)
  \/ \E f, g \in Fibers \cap Users : KillIdle(f, g)
  \/ \E t \in Threads : ThreadStep(t)

-------------------------------------------------------------------------------
\* In pop, in the list, and with nothing that would make it look again.
Sleeping(c) ==
  /\ job[c] = "pop" /\ c \in Elements(waiters)
  /\ \/ pc[c] \in {"unlock", "switch"}
     \/ pc[c] = "asleep" /\ (c \in Fibers => Suspended(c))

ReturnsNull(c) ==
  c \in hasty /\ (c \in fired \/ c \in canceled \/ pc[c] \in {"late", "expired"})

\* Those who will take an object or announce one.
OnTheWay ==
  {c \in Clients : \/ job[c] = "pop" /\ ~Sleeping(c) /\ ~ReturnsNull(c)
                   \/ job[c] \in {"notify", "release", "announce"}}

\* Among clients that pop without a timeout: while somebody sleeps in pop, there are
\* no more objects than clients on their way to take or to announce one: "Signal the
\* cond which will wakeup one waiter" (fiber_cond.h:52, fiber_tbox.hpp:81-152).
NoIdleObject ==
  hasty = {} /\ (\E c \in Clients : Sleeping(c)) => box <= Cardinality(OnTheWay)

\* A pop without a timeout does not end empty-handed, not even for a killed fiber
\* (fiber_tbox.hpp:142).
PopTakesObject ==
  \A c \in Clients :
    job[c] = "pop" /\ job'[c] # "pop" /\ c \notin hasty => box' = box - 1

===============================================================================
