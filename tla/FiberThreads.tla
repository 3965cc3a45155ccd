---------------------------- MODULE FiberThreads ----------------------------
(* The fibers of several threads, with the mailbox through which other threads *)
(* wake them.  Each thread runs one fiber at a time; a fiber that neither runs *)
(* nor is in the ready ring of its thread is suspended.  Threads without       *)
(* fibers (var_hook_sys_api is 0 there) run on their own.                      *)
EXTENDS Naturals, Sequences, FiniteSets, SequencesExt

CONSTANTS
  Threads,    \* threads that run fibers
  Fibers,
  Home,       \* Home[f]: the thread of fiber f
  Solos,      \* threads without fibers
  None

Clients == Fibers \cup Solos

ASSUME ThreadsAssumption ==
  /\ Home \in [Fibers -> Threads]
  /\ None \notin Clients
  /\ Fibers \cap Solos = {} /\ Threads \cap Solos = {} /\ None \notin Threads

VARIABLES
  running,    \* running[t]: the fiber that runs, or None
  ready,      \* ready[t]: the ready ring
  canceled,   \* killed fibers
  mbox,       \* mbox[t]: wakeups sent to the fiber_waiting of thread t
  pc

schedVars == <<running, ready, canceled, mbox>>

Elements(list) == {list[i] : i \in DOMAIN list}

ThreadsInit ==
  /\ running = [t \in Threads |-> None]
  /\ ready = [t \in Threads |-> <<>>] /\ mbox = [t \in Threads |-> <<>>]
  /\ canceled = {}
  /\ pc = [c \in Clients |-> "out"]

Runs(c) == c \in Fibers => running[Home[c]] = c
At(c, label) == Runs(c) /\ pc[c] = label
GoTo(c, label) == pc' = [pc EXCEPT ![c] = label]
Suspended(f) == ~Runs(f) /\ f \notin Elements(ready[Home[f]])
SameThread(c, f) == c \in Fibers /\ Home[c] = Home[f]

Position(list, x) == CHOOSE i \in DOMAIN list : list[i] = x

\* ring_detach
Detach(list, f) ==
  IF f \in Elements(list) THEN RemoveAt(list, Position(list, f)) ELSE list

\* acl_fiber_ready: a fiber that is in the ring moves to its end.
MakeReady(f) == ready' = [ready EXCEPT ![Home[f]] = Append(Detach(@, f), f)]

\* acl_fiber_switch, away from a fiber and to the next one.
SwitchAway(f) == running' = [running EXCEPT ![Home[f]] = None]
ResumeOn(t) ==
  /\ running[t] = None /\ ready[t] # <<>>
  /\ running' = [running EXCEPT ![t] = Head(ready[t])]
  /\ ready' = [ready EXCEPT ![t] = Tail(@)]

\* acl_fiber_kill by a fiber of the same thread, be it the first or not.
Cancel(f, g) ==
  /\ Home[f] = Home[g]
  /\ canceled' = canceled \cup {g}
  /\ IF Suspended(g) THEN MakeReady(g) ELSE UNCHANGED ready

\* array_pop_front and array_delete of an array that keeps no order: the last
\* item takes the place of the one that goes.
FirstOf(list) == IF list = <<>> THEN None ELSE Head(list)
DeleteAt(list, i) ==
  IF i = Len(list) THEN Front(list)
  ELSE SubSeq([list EXCEPT ![i] = Last(list)], 1, Len(list) - 1)
PopFront(list) == IF list = <<>> THEN <<>> ELSE DeleteAt(list, 1)
DeleteObj(list, c) ==
  IF c \in Elements(list)
  THEN DeleteAt(list, Position(list, c))
  ELSE list

===============================================================================
