------------------------------- MODULE FiberLock -------------------------------
(* ACL_FIBER_LOCK (lib_fiber/c/src/sync/fiber_lock.c): a lock for the fibers   *)
(* of one thread, handed by unlock to the first fiber that waits.              *)
(*                                                                             *)
(* A step is what a fiber does between two points where it may switch.  A     *)
(* fiber is `out', `in' the part the lock protects, or `queued' in __lock.     *)
EXTENDS Fibers

VARIABLES
  owner,      \* lk->owner
  waiting,    \* lk->waiting
  pc

TypeOK ==
  /\ running \in Fibers \cup {None}
  /\ ready \in Seq(Fibers)
  /\ canceled \subseteq Fibers
  /\ owner \in Fibers \cup {None}
  /\ waiting \in Seq(Fibers)
  /\ pc \in [Fibers -> {"out", "in", "queued"}]

Init ==
  /\ FibersInit
  /\ owner = None /\ waiting = <<>>
  /\ pc = [f \in Fibers |-> "out"]

GoTo(f, label) == pc' = [pc EXCEPT ![f] = label]

-------------------------------------------------------------------------------
\* lock of a free lock, and trylock, which answers -1 then.
LockFree(f) ==
  /\ running = f /\ pc[f] = "out" /\ owner = None
  /\ owner' = f
  /\ GoTo(f, "in")
  /\ UNCHANGED <<fiberVars, waiting>>

\* The fiber waits; a fiber that has the lock already fails an assertion.
LockBusy(f) ==
  /\ running = f /\ pc[f] = "out" /\ owner \notin {None, f}
  /\ waiting' = Append(waiting, f)
  /\ GoTo(f, "queued")
  /\ Sleep(f)
  /\ UNCHANGED owner

\* __lock goes on after the switch: it returns 0 to the owner and -1 to a fiber
\* that was killed while it waited.
LockReturnsCanceledFirst(f) ==   \* mutant: a killed owner is told -1, too
  /\ running = f /\ pc[f] = "queued"
  /\ GoTo(f, IF owner = f /\ f \notin canceled THEN "in" ELSE "out")
  /\ UNCHANGED <<fiberVars, owner, waiting>>
LockAlwaysReturns0(f) ==   \* mutant: nobody looks at the owner again
  /\ running = f /\ pc[f] = "queued"
  /\ GoTo(f, "in")
  /\ UNCHANGED <<fiberVars, owner, waiting>>
LockReturns(f) ==
  /\ running = f /\ pc[f] = "queued"
  /\ GoTo(f, IF owner = f THEN "in" ELSE "out")
  /\ UNCHANGED <<fiberVars, owner, waiting>>

\* unlock hands the lock over and then lets the others run.  By anybody but the
\* owner it is fatal.
UnlockKeepsWaiter(f) ==   \* mutant: the lock is set free whoever waits
  /\ running = f /\ pc[f] = "in" /\ owner = f
  /\ owner' = None
  /\ GoTo(f, "out")
  /\ UNCHANGED <<fiberVars, waiting>>
Unlock(f) ==
  /\ running = f /\ pc[f] = "in" /\ owner = f
  /\ owner' = First(waiting)
  /\ waiting' = Rest(waiting)
  /\ GoTo(f, "out")
  /\ IF waiting = <<>> THEN UNCHANGED <<running, ready>>
                       ELSE YieldWith(f, Readied(First(waiting)))
  /\ UNCHANGED canceled

\* A killed waiter leaves the list at once: acl_fiber_ready detaches it.
KillFiber(f, g) ==
  /\ pc[f] # "queued"
  /\ Kill(f, g)
  /\ waiting' = Detach(waiting, g)
  /\ UNCHANGED <<owner, pc>>

\* Anything else a fiber waits for, with or without the lock.
SleepElsewhere(f) == pc[f] # "queued" /\ Sleep(f) /\ UNCHANGED <<owner, waiting, pc>>

-------------------------------------------------------------------------------
Asleep == {f \in Fibers : Suspended(f) /\ pc[f] # "queued"}

EventLoop == (Resume \/ Poll(Asleep)) /\ UNCHANGED <<owner, waiting, pc>>

FiberStep(f) ==
  \/ LockFree(f) \/ LockBusy(f) \/ LockReturns(f) \/ Unlock(f)
  \/ SleepElsewhere(f)
  \/ \E g \in Fibers : KillFiber(f, g)

-------------------------------------------------------------------------------
\* Nobody waits for a lock that is free: an unlock that meets a killed waiter, a
\* trylock or a late arrival never leaves the lock without an owner while the
\* list has somebody in it (fiber_lock.c:102-124).
FreeMeansNobodyWaits == owner = None => waiting = <<>>

\* A fiber that the lock was handed to is on its way to take it, also when it is
\* killed in between: it is not in a waiting list and it is ready or running
\* (fiber_lock.c:74-84, 119-122).
GrantIsNoticed ==
  \A f \in Fibers :
    owner = f /\ pc[f] # "in" =>
      pc[f] = "queued" /\ ~Suspended(f) /\ f \notin Elements(waiting)

===============================================================================
