------------------------------ MODULE FiberSBox ------------------------------
(* fiber_sbox (lib_fiber/cpp/include/fiber/fiber_sem.hpp): a mailbox for the   *)
(* fibers of one thread, a list of objects and a semaphore that counts them.   *)
(* push appends and posts; pop waits and then takes the front without looking  *)
(* whether there is one.  A fiber is `in' once pop has returned an object.     *)
EXTENDS Naturals, Sequences, FiniteSets

CONSTANTS Fibers, None, Async, Kills,
          MaxPush   \* bound on the objects pushed in a behaviour

VARIABLES running, ready, canceled, num, waiting, pc,
          sbox,     \* sbox_, objects numbered in the order of their push
          pushed    \* the number of objects pushed

Sem == INSTANCE FiberSem WITH Permits <- 0

semVars == <<running, ready, canceled, num, waiting>>
boxVars == <<sbox, pushed>>

TypeOK == Sem!TypeOK /\ sbox \in Seq(1 .. MaxPush) /\ pushed \in 0 .. MaxPush

Init == Sem!Init /\ sbox = <<>> /\ pushed = 0

-------------------------------------------------------------------------------
TakeFront == sbox # <<>> /\ sbox' = Tail(sbox) /\ UNCHANGED pushed

\* pop when an object is counted.
PopNow(f) == Sem!WaitFree(f) /\ TakeFront

PopWaits(f) == Sem!WaitBusy(f) /\ UNCHANGED boxVars

PopReturnsUnchecked(f) ==   \* mutant: the result of wait is ignored
  Sem!WaitReturns(f) /\ TakeFront

\* wait returns: -1 to a cancelled fiber, which leaves the list alone.
PopReturns(f) ==
  /\ Sem!WaitReturns(f)
  /\ IF f \in canceled THEN UNCHANGED boxVars ELSE TakeFront

\* The fiber is done with the object.
Done(f) == Sem!At(f, "in") /\ Sem!GoTo(f, "out") /\ UNCHANGED <<semVars, boxVars>>

PostIfEmpty(f) ==   \* mutant: only the first object of a box is announced
  IF sbox = <<>> THEN Sem!Post(f) ELSE UNCHANGED semVars
Announce(f) == Sem!Post(f)

\* push_back, then post, which may let the woken fiber run.
Push(f) ==
  /\ Sem!At(f, "out") /\ pushed < MaxPush
  /\ pushed' = pushed + 1
  /\ sbox' = Append(sbox, pushed')
  /\ Announce(f)
  /\ UNCHANGED pc

KillFiber(f, g) == Sem!KillFiber(f, g) /\ UNCHANGED boxVars
SleepElsewhere(f) == Sem!SleepElsewhere(f) /\ UNCHANGED boxVars
EventLoop == Sem!EventLoop /\ UNCHANGED boxVars

FiberStep(f) ==
  \/ PopNow(f) \/ PopWaits(f) \/ PopReturns(f) \/ Done(f) \/ Push(f)
  \/ SleepElsewhere(f)
  \/ \E g \in Fibers : KillFiber(f, g)

-------------------------------------------------------------------------------
\* pop never takes from an empty list: there is an object for each permit, the
\* ones given to fibers that have not run yet included (fiber_sem.hpp:58-77).
FrontExists == num + Cardinality(Sem!Granted) <= Len(sbox)

\* Nobody waits while the box has more objects than fibers on their way to take
\* one (fiber_sem.hpp:58-77).
NoIdleObject == Len(sbox) > Cardinality(Sem!Granted) => waiting = <<>>

===============================================================================
