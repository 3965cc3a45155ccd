------------------------------- MODULE FiberSem -------------------------------
(* ACL_FIBER_SEM (lib_fiber/c/src/sync/fiber_sem.c): a semaphore for the       *)
(* fibers of one thread.  post gives its permit to the first fiber that waits; *)
(* unless the semaphore is asynchronous it then lets the others run.           *)
EXTENDS Fibers

CONSTANTS
  Permits,    \* the initial value
  Async,      \* ACL_FIBER_SEM_F_ASYNC
  Kills       \* may fibers kill each other?

VARIABLES
  num,        \* sem->num
  waiting,    \* sem->waiting
  pc          \* a fiber is `out', `in' with a permit, or `queued' in wait

semVars == <<num, waiting>>

TypeOK ==
  /\ running \in Fibers \cup {None}
  /\ ready \in Seq(Fibers)
  /\ canceled \subseteq Fibers
  /\ num \in Nat
  /\ waiting \in Seq(Fibers)
  /\ pc \in [Fibers -> {"out", "in", "queued"}]

Init ==
  /\ FibersInit
  /\ num = Permits /\ waiting = <<>>
  /\ pc = [f \in Fibers |-> "out"]

At(f, label) == running = f /\ pc[f] = label
GoTo(f, label) == pc' = [pc EXCEPT ![f] = label]

-------------------------------------------------------------------------------
PermitLeft == num > 0

\* wait and trywait of a semaphore with a permit left.
WaitFree(f) ==
  /\ At(f, "out") /\ PermitLeft
  /\ num' = num - 1
  /\ GoTo(f, "in")
  /\ UNCHANGED <<fiberVars, waiting>>

Queued(f) == Append(waiting, f)

\* A cancelled fiber does not start to wait; trywait does not wait either.
WaitBusy(f) ==
  /\ At(f, "out") /\ ~PermitLeft /\ f \notin canceled
  /\ waiting' = Queued(f)
  /\ GoTo(f, "queued")
  /\ Sleep(f)
  /\ UNCHANGED num

\* Back from the switch.
WaitReturns(f) ==
  /\ At(f, "queued")
  /\ GoTo(f, IF f \in canceled THEN "out" ELSE "in")
  /\ UNCHANGED <<fiberVars, semVars>>

\* post: the permit goes to num or to the first waiter, never to both.
PostedTwice == num + 1   \* mutant: num is not decreased for the waiter
Posted == IF waiting = <<>> THEN num + 1 ELSE num

WithWoken == Readied(First(waiting))

Post(f) ==
  /\ running = f
  /\ num' = Posted
  /\ waiting' = Rest(waiting)
  /\ IF Async \/ waiting = <<>>
     THEN ready' = WithWoken /\ UNCHANGED running
     ELSE YieldWith(f, WithWoken)
  /\ UNCHANGED canceled

\* The holder of a permit gives it back.
PostBack(f) == At(f, "in") /\ Post(f) /\ GoTo(f, "out")

\* A killed waiter leaves the list at once: acl_fiber_ready detaches it.
KillFiber(f, g) ==
  /\ Kills /\ pc[f] # "queued"
  /\ Kill(f, g)
  /\ waiting' = Detach(waiting, g)
  /\ UNCHANGED <<num, pc>>

SleepElsewhere(f) == pc[f] # "queued" /\ Sleep(f) /\ UNCHANGED <<semVars, pc>>

-------------------------------------------------------------------------------
Asleep == {f \in Fibers : Suspended(f) /\ pc[f] # "queued"}

EventLoop == (Resume \/ Poll(Asleep)) /\ UNCHANGED <<semVars, pc>>

FiberStep(f) ==
  \/ WaitFree(f) \/ WaitBusy(f) \/ WaitReturns(f) \/ PostBack(f)
  \/ SleepElsewhere(f)
  \/ \E g \in Fibers : KillFiber(f, g)

-------------------------------------------------------------------------------
Inside == {f \in Fibers : pc[f] = "in"}

\* Fibers that were given a permit and have not returned from wait yet.
Granted ==
  {f \in Fibers : pc[f] = "queued" /\ f \notin Elements(waiting) /\ f \notin canceled}

\* Permits are neither made nor lost while post counts one up and down again and
\* hands it to a fiber that runs only later (fiber_sem.c:164-178).
PermitsConserved == num + Cardinality(Inside \cup Granted) = Permits

\* Kills may lose permits but never make any: no more fibers than permits are
\* inside (SyncObjectsAcl/fiber_sem_ex.cpp:5).
NeverTooMany == num + Cardinality(Inside \cup Granted) <= Permits

\* Nobody waits while a permit is left (fiber_sem.c:75-99, 166-172).
NoIdlePermit == num > 0 => waiting = <<>>

===============================================================================
