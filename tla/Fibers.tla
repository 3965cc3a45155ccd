-------------------------------- MODULE Fibers --------------------------------
(* The fibers of one thread, as the synchronisation objects of lib_fiber use   *)
(* them.  A fiber runs until it switches; one that is neither running nor in   *)
(* the ready ring is suspended: it sits in the list of the object it waits for *)
(* or sleeps in the event loop.  Its ring entry `me' is in one list at a time. *)
EXTENDS Naturals, Sequences, FiniteSets

CONSTANTS Fibers, None

ASSUME FibersAssumption == IsFiniteSet(Fibers) /\ None \notin Fibers

VARIABLES
  running,    \* the fiber that runs, or None when the event loop does
  ready,      \* the ready ring of the thread
  canceled    \* fibers with one of the flags FIBER_F_CANCELED

fiberVars == <<running, ready, canceled>>

FibersInit == running = None /\ ready = <<>> /\ canceled = {}

Elements(list) == {list[i] : i \in 1 .. Len(list)}
Suspended(f) == running # f /\ f \notin Elements(ready)

\* The place of an entry in the only list it is in.
Position(list, f) == CHOOSE i \in 1 .. Len(list) : list[i] = f

\* ring_detach
Detach(list, f) ==
  IF f \in Elements(list)
  THEN SubSeq(list, 1, Position(list, f) - 1)
         \o SubSeq(list, Position(list, f) + 1, Len(list))
  ELSE list

\* FIRST_FIBER
First(list) == IF list = <<>> THEN None ELSE Head(list)
Rest(list) == IF list = <<>> THEN <<>> ELSE Tail(list)

\* FIBER_READY for a suspended fiber or for none.
Readied(f) == IF f = None THEN ready ELSE Append(ready, f)

\* acl_fiber_switch: the next fiber of the ready ring is resumed.
Resume ==
  /\ running = None /\ ready # <<>>
  /\ running' = Head(ready)
  /\ ready' = Tail(ready)
  /\ UNCHANGED canceled

\* acl_fiber_yield by f, when the ready ring is q.  It does nothing with an empty
\* ring, but all its callers have just made somebody ready.
YieldWith(f, q) == running' = None /\ ready' = Append(q, f)

\* The orders in which the event loop may report the fibers of S.
Orders(S) == {q \in [1 .. Cardinality(S) -> S] :
                \A f \in S : \E i \in 1 .. Cardinality(S) : q[i] = f}

\* The event loop polls when no fiber is ready; the events of some of the
\* fibers that sleep in it have happened.
Poll(sleeping) ==
  /\ running = None /\ ready = <<>>
  /\ \E S \in (SUBSET sleeping) \ {{}} : ready' \in Orders(S)
  /\ UNCHANGED <<running, canceled>>

\* The running fiber goes to sleep in the event loop.
Sleep(f) ==
  /\ running = f
  /\ running' = None
  /\ UNCHANGED <<ready, canceled>>

\* acl_fiber_kill(g) by fiber f, be it the first or not.
Kill(f, g) ==
  /\ running = f
  /\ canceled' = canceled \cup {g}
  /\ ready' = IF Suspended(g) THEN Append(ready, g) ELSE ready
  /\ UNCHANGED running

===============================================================================
