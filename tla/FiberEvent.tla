------------------------------ MODULE FiberEvent ------------------------------
(* ACL_FIBER_EVENT (lib_fiber/c/src/sync/fiber_event.c): in spite of its name a *)
(* lock, taken by wait and given back by notify, for fibers and threads alike. *)
(* `atomic' is the lock; __ll_lock guards the owner and the ring of waiters,    *)
(* each of which sleeps on a descriptor of its own (its FIBER_BASE).            *)
EXTENDS Naturals, Sequences, FiniteSets

CONSTANTS
  Fibers, Threads,   \* the clients: fibers, and threads without fibers
  Tid,               \* Tid[c]: the thread of client c
  None

Clients == Fibers \cup Threads

VARIABLES
  atomic,     \* has somebody taken the event?
  ll,         \* who is in a section of __ll_lock, or None
  owner,      \* event->owner: a client with a FIBER_BASE, or None
  tid,        \* event->tid
  waiters,    \* event->waiters
  base,       \* fibers that have a FIBER_BASE; it stays with them
  signals,    \* signals[c]: wakeups in the descriptor of c
  popped,     \* popped[c]: the waiter that the notify of c wakes
  anyone,     \* may a fiber without FIBER_BASE notify when it has not waited?  Never changes
  pc

eventVars == <<atomic, ll, owner, tid, waiters>>

PCs == {"out", "enter", "asleep", "own", "in", "pop", "free", "wake"}

TypeOK ==
  /\ atomic \in BOOLEAN
  /\ ll \in Clients \cup {None}
  /\ owner \in Fibers \cup {None}
  /\ tid \in {Tid[c] : c \in Clients} \cup {None}
  /\ waiters \in Seq(Clients)
  /\ base \subseteq Fibers
  /\ signals \in [Clients -> {0, 1}]
  /\ popped \in [Clients -> Clients \cup {None}]
  /\ pc \in [Clients -> PCs]

Init ==
  /\ atomic = FALSE /\ ll = None /\ owner = None /\ tid = None /\ waiters = <<>>
  /\ base = {}
  /\ signals = [c \in Clients |-> 0]
  /\ popped = [c \in Clients |-> None]
  /\ pc = [c \in Clients |-> "out"]

Waiting == {waiters[i] : i \in DOMAIN waiters}
At(c, label) == pc[c] = label
GoTo(c, label) == pc' = [pc EXCEPT ![c] = label]

\* What event->owner is compared with; a thread has no FIBER_BASE any more when
\* wait returns.
BaseOf(c) == IF c \in base THEN c ELSE None

\* The fibers of a thread give way only while they sleep or are not in a call.
Alone(c) ==
  \A d \in Clients \ {c} :
    Tid[d] = Tid[c] => pc[d] \in {"out", "asleep", "in"}

-------------------------------------------------------------------------------
\* wait and trywait of a free event: the owner is noted in a second step.
Cas(c) ==
  /\ At(c, "out") /\ Alone(c) /\ ~atomic
  /\ atomic' = TRUE
  /\ GoTo(c, "own")
  /\ UNCHANGED <<ll, owner, tid, waiters, base, signals, popped>>

NoteOwner(c) ==
  /\ At(c, "own") /\ ll = None
  /\ owner' = BaseOf(c) /\ tid' = Tid[c]
  /\ GoTo(c, "in")
  /\ UNCHANGED <<atomic, ll, waiters, base, signals, popped>>

\* wait of a taken event: fbase_alloc, fbase_event_open.
Wait(c) ==
  /\ At(c, "out") /\ Alone(c) /\ atomic
  /\ base' = base \cup ({c} \cap Fibers)
  /\ GoTo(c, "enter")
  /\ UNCHANGED <<eventVars, signals, popped>>

\* One round of the loop of wait, in one section: the client is in the ring
\* unless it gets the event.
Try(c) ==
  /\ At(c, "enter") /\ ll = None
  /\ IF atomic
     THEN /\ waiters' = Append(waiters, c)
          /\ GoTo(c, "asleep")
          /\ UNCHANGED <<atomic, owner, tid>>
     ELSE /\ atomic' = TRUE /\ owner' = BaseOf(c) /\ tid' = Tid[c]
          /\ GoTo(c, "in")
          /\ UNCHANGED waiters
  /\ UNCHANGED <<ll, base, signals, popped>>

\* fbase_event_wait returns.
Wakes(c) ==
  /\ At(c, "asleep") /\ Alone(c) /\ signals[c] = 1
  /\ signals' = [signals EXCEPT ![c] = 0]
  /\ GoTo(c, "enter")
  /\ UNCHANGED <<eventVars, base, popped>>

\* A fiber waits for some other event: a FIBER_BASE serves all of them.
GetBase(f) ==
  /\ f \in Fibers \ base
  /\ pc[f] \in {"out", "in"} /\ Alone(f)
  /\ base' = base \cup {f}
  /\ UNCHANGED <<eventVars, signals, popped, pc>>

\* The checks at the beginning of notify.
MayNotifyUntied(c) ==   \* mutant: the thread is not looked at
  owner = BaseOf(c)
MayNotify(c) ==
  owner = BaseOf(c) /\ (owner = None => tid = Tid[c])

\* Who has not got the event may call notify as well.
Stranger(c) == At(c, "out") /\ (c \in Fibers \ base => anyone)

Notify(c) ==
  /\ At(c, "in") \/ Stranger(c)
  /\ Alone(c) /\ MayNotify(c)
  /\ GoTo(c, "pop")
  /\ UNCHANGED <<eventVars, base, signals, popped>>

\* "isn't owner": who was let in goes away without giving the event back.  To a
\* stranger nothing happens.
NotifyFails(c) ==
  /\ At(c, "in") /\ Alone(c) /\ ~MayNotify(c)
  /\ GoTo(c, "out")
  /\ UNCHANGED <<eventVars, base, signals, popped>>

\* The first waiter is chosen and the event set free in one section.
PopUnlocked(c) ==   \* mutant: the ring has a section of its own
  /\ At(c, "pop") /\ ll = None
  /\ popped' = [popped EXCEPT ![c] = IF waiters = <<>> THEN None ELSE Head(waiters)]
  /\ waiters' = IF waiters = <<>> THEN <<>> ELSE Tail(waiters)
  /\ GoTo(c, "free")
  /\ UNCHANGED <<atomic, ll, owner, tid, base, signals>>
Pop(c) ==
  /\ At(c, "pop") /\ ll = None
  /\ ll' = c
  /\ popped' = [popped EXCEPT ![c] = IF waiters = <<>> THEN None ELSE Head(waiters)]
  /\ waiters' = IF waiters = <<>> THEN <<>> ELSE Tail(waiters)
  /\ GoTo(c, "free")
  /\ UNCHANGED <<atomic, owner, tid, base, signals>>

\* An event that is free already ("atomic corrupt") stays so, and nobody is woken.
Free(c) ==
  /\ At(c, "free")
  /\ owner' = None /\ tid' = None /\ atomic' = FALSE /\ ll' = None
  /\ IF atomic
     THEN GoTo(c, IF popped[c] = None THEN "out" ELSE "wake") /\ UNCHANGED popped
     ELSE GoTo(c, "out") /\ popped' = [popped EXCEPT ![c] = None]
  /\ UNCHANGED <<waiters, base, signals>>

\* fbase_event_wakeup
Wake(c) ==
  /\ At(c, "wake")
  /\ signals' = [signals EXCEPT ![popped[c]] = @ + 1]
  /\ popped' = [popped EXCEPT ![c] = None]
  /\ GoTo(c, "out")
  /\ UNCHANGED <<eventVars, base>>

-------------------------------------------------------------------------------
\* What a call that has begun does next.
GoesOn(c) == NoteOwner(c) \/ Try(c) \/ Wakes(c) \/ Pop(c) \/ Free(c) \/ Wake(c)

Next ==
  \E c \in Clients :
    Cas(c) \/ Wait(c) \/ Notify(c) \/ NotifyFails(c) \/ GoesOn(c) \/ GetBase(c)

-------------------------------------------------------------------------------
\* While the event is free and clients are in the ring, one that is not in it is
\* on its way to try (fiber_event.c:150-195, 241-263).
NoLostWakeup ==
  ~atomic /\ waiters # <<>> =>
    \E c \in Clients :
      \/ pc[c] \in {"enter", "wake"}
      \/ pc[c] = "asleep" /\ signals[c] = 1

\* A descriptor is written to once for each sleep and never for a client that
\* does not sleep: the next sleep would end early (fiber_event.c:155-167, 243-263).
SignalsAreExpected ==
  \A c \in Clients :
    signals[c] = 1 \/ (\E d \in Clients : popped[d] = c) =>
      pc[c] = "asleep" /\ c \notin Waiting

\* Notify never comes to an event that is free already, which it calls corrupt
\* (fiber_event.c:228-239, 253-259).
NeverCorrupt == \A c \in Clients : pc[c] = "free" => atomic

===============================================================================
