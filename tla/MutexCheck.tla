------------------------------ MODULE MutexCheck ------------------------------
(* The deadlock check of fiber_mutex (lib_fiber/c/src/sync/fiber_mutex.c,      *)
(* acl_fiber_mutex_deadlock) run at any moment on the mutexes of one thread.   *)
(*                                                                             *)
(* The check knows the owners of the mutexes that somebody waits for.  It     *)
(* walks through them in the order of a hash table, enters the ones that wait  *)
(* in a second table and reports a deadlock when the fiber that one waits for  *)
(* is in that table already.                                                   *)
EXTENDS Naturals, Sequences, FiniteSets, SequencesExt

CONSTANTS
  Fibers,
  Users,      \* the fibers that use mutexes, a bound
  Mutexes,    \* all mutexes, each once, in the order of the ring __locks
  None

VARIABLES
  threadLock, \* threadLock[m]: who has mutex->thread_lock, or None
  owner,      \* owner[m]: mutex->owner, a fiber or None for 0
  fiber,      \* fiber[m]: mutex->fiber, not set by trylock
  waiters,    \* waiters[m]: the fibers in mutex->waiters
  wanted,     \* wanted[f]: the mutex of the call that fiber f is in
  tried,      \* the mutexes that were taken with trylock (of the properties only)
  pc          \* "out", or where a fiber is that has just got the mutex

M == {Mutexes[i] : i \in DOMAIN Mutexes}

TypeOK ==
  /\ threadLock \in [M -> Fibers \cup {None}]
  /\ owner \in [M -> Fibers \cup {None}]
  /\ fiber \in [M -> Fibers \cup {None}]
  /\ waiters \in [M -> SUBSET Fibers]
  /\ wanted \in [Fibers -> M \cup {None}]
  /\ tried \subseteq M
  /\ pc \in [Fibers -> {"out", "owner", "fiber", "tried"}]

Init ==
  /\ threadLock = [m \in M |-> None]
  /\ owner = [m \in M |-> None] /\ fiber = [m \in M |-> None]
  /\ waiters = [m \in M |-> {}]
  /\ wanted = [f \in Fibers |-> None]
  /\ tried = {}
  /\ pc = [f \in Fibers |-> "out"]

-------------------------------------------------------------------------------
GoTo(f, label) == pc' = [pc EXCEPT ![f] = label]

\* Another fiber runs only when this one sleeps or is in no call.
Alone(f) == \A g \in Fibers \ {f} : pc[g] = "out"

Take(f, m) ==
  /\ threadLock[m] = None
  /\ threadLock' = [threadLock EXCEPT ![m] = f]
  /\ wanted' = [wanted EXCEPT ![f] = m]
  /\ UNCHANGED <<owner, fiber, waiters>>

Enqueue(f, m) ==
  /\ threadLock[m] # None
  /\ waiters' = [waiters EXCEPT ![m] = @ \cup {f}]
  /\ wanted' = [wanted EXCEPT ![f] = m]
  /\ UNCHANGED <<threadLock, owner, fiber, tried, pc>>

Attempt(f, m) ==
  \/ Take(f, m) /\ GoTo(f, "owner") /\ UNCHANGED tried
  \/ Enqueue(f, m)

Lock(f, m) == wanted[f] = None /\ Alone(f) /\ Attempt(f, m)

\* A woken waiter tries again.
Retry(f) ==
  /\ pc[f] = "out" /\ Alone(f)
  /\ \E m \in M : wanted[f] = m /\ f \notin waiters[m] /\ Attempt(f, m)

TryLock(f, m) ==
  /\ wanted[f] = None /\ Alone(f)
  /\ Take(f, m) /\ GoTo(f, "tried") /\ tried' = tried \cup {m}

\* lock and trylock write mutex->owner, and lock mutex->fiber after it.
NoteOwner(f) ==
  /\ pc[f] \in {"owner", "tried"}
  /\ owner' = [owner EXCEPT ![wanted[f]] = f]
  /\ \/ pc[f] = "owner" /\ GoTo(f, "fiber") /\ UNCHANGED wanted
     \/ pc[f] = "tried" /\ GoTo(f, "out") /\ wanted' = [wanted EXCEPT ![f] = None]
  /\ UNCHANGED <<threadLock, fiber, waiters, tried>>

NoteFiberOnce(f) ==   \* mutant: noted with the first mutex only
  /\ pc[f] = "fiber"
  /\ fiber' = [fiber EXCEPT ![wanted[f]] = IF \E m \in M : fiber[m] = f THEN @ ELSE f]
  /\ GoTo(f, "out")
  /\ wanted' = [wanted EXCEPT ![f] = None]
  /\ UNCHANGED <<threadLock, owner, waiters, tried>>
NoteFiber(f) ==
  /\ pc[f] = "fiber"
  /\ fiber' = [fiber EXCEPT ![wanted[f]] = f]
  /\ GoTo(f, "out")
  /\ wanted' = [wanted EXCEPT ![f] = None]
  /\ UNCHANGED <<threadLock, owner, waiters, tried>>

\* Some waiter leaves the array (FiberMutex says which).
Unlock(f, m) ==
  /\ wanted[f] = None /\ Alone(f) /\ threadLock[m] = f
  /\ threadLock' = [threadLock EXCEPT ![m] = None]
  /\ owner' = [owner EXCEPT ![m] = None]
  /\ fiber' = [fiber EXCEPT ![m] = None]
  /\ tried' = tried \ {m}
  /\ \/ waiters[m] = {} /\ UNCHANGED waiters
     \/ \E g \in waiters[m] : waiters' = [waiters EXCEPT ![m] = @ \ {g}]
  /\ UNCHANGED <<wanted, pc>>

Next ==
  \E f \in Fibers \cap Users :
    \/ Retry(f) \/ NoteOwner(f) \/ NoteFiber(f)
    \/ \E m \in M : Lock(f, m) \/ TryLock(f, m) \/ Unlock(f, m)

-------------------------------------------------------------------------------
\* The mutexes the check looks at, and the keys of the table of owners.
Waited == {m \in M : waiters[m] # {}}
Owners == {owner[m] : m \in Waited}

\* MUTEX_OWNER: ->waiting is the last mutex in the ring that the owner waits
\* for, ->fiber is what its first mutex in the ring says.
WaitsAt(o) == {i \in DOMAIN Mutexes : o \in waiters[Mutexes[i]]}
WaitingFor(o) == Mutexes[CHOOSE i \in WaitsAt(o) : \A j \in WaitsAt(o) : j <= i]
HoldsAt(o) ==
  {i \in DOMAIN Mutexes : Mutexes[i] \in Waited /\ owner[Mutexes[i]] = o}
FiberOf(o) == fiber[Mutexes[CHOOSE i \in HoldsAt(o) : \A j \in HoldsAt(o) : i <= j]]

\* The owners that are not skipped.
Visited(o) == WaitsAt(o) # {} /\ fiber[WaitingFor(o)] # None

\* The walk along `order' stops at its i-th owner.
Finds(order, i) ==
  /\ Visited(order[i])
  /\ \E j \in 1 .. i :
       Visited(order[j]) /\ FiberOf(order[j]) = fiber[WaitingFor(order[i])]

\* check_deadlock2 for one order of the table of owners.
Reports(order) == \E i \in DOMAIN order : Finds(order, i)

\* The orders in which a hash table may list S.
Orders(S) == {q \in [1 .. Cardinality(S) -> S] : IsInjective(q)}

-------------------------------------------------------------------------------
\* Every fiber of S waits for a mutex that a fiber of S has.
Deadlocked(S) ==
  \A f \in S : \E m \in M : f \in waiters[m] /\ threadLock[m] \in S

Deadlocks == {S \in (SUBSET Fibers) \ {{}} : Deadlocked(S)}

\* None of the mutexes waited for that the fibers of S have was taken with trylock.
TakenWithLock(S) == \A m \in Waited : threadLock[m] \in S => m \notin tried

\* No deadlock goes unreported, whatever the order of the table, as long as its
\* mutexes were taken with lock (fiber_mutex.c:236-271, 590-599).
NoMissedDeadlock ==
  \A S \in Deadlocks :
    TakenWithLock(S) => \A order \in Orders(Owners) : Reports(order)

\* What is reported is a deadlock: "true means there is a deadlock"
\* (fiber_mutex.hpp:55, fiber_mutex.c:256-263).
ReportMeansDeadlock ==
  (\E order \in Orders(Owners) : Reports(order)) => Deadlocks # {}

===============================================================================
