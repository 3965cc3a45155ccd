----------------------------- MODULE SharedObjects -----------------------------
(* The synchronisation objects for fibers of several threads and for threads   *)
(* without fibers: the mutex in both of its variants, the event, several       *)
(* mutexes with the deadlock check, and the mailbox with its condition          *)
(* variable, each as a program uses it (main() of SyncObjectsAcl asks which).   *)
EXTENDS FiberThreads

CONSTANTS
  MaxWakeups,   \* wakeups after which a waiter of a mutex sleeps (5 in the code)
  MaxPending,   \* bound on its waiters and messages when a fiber is killed again
  Victims,      \* the fibers that may be killed while they use a mutex
  Mutexes,      \* the mutexes that the deadlock check looks at, a sequence
  Users,        \* the clients that use the mailbox, or the mutexes of the check
  Hurries,      \* the sets of clients that may be the ones that pop with a timeout
  MaxMail,      \* bound on the messages that wait for a thread
  MaxPush       \* bound on the objects pushed into the mailbox

VARIABLES
  object,                                               \* the choice
  waiters, popped, owner,                     \* of several of the next
  threadLock, lock, fiber, wakeups,           \* of the fiber_mutex
  atomic, ll, tid, base, signals,             \* of the fiber_event
  wanted, tried,       \* of the check, with the locks, owners and waiters per mutex
  timed, timers, fired, event,                \* of the fiber_cond
  box, pushed, job, hasty                     \* of the fiber_tbox

mutexVars == <<threadLock, lock, fiber, wakeups>>
eventVars == <<atomic, ll, tid, base, signals>>
checkVars == <<wanted, tried>>
boxVars == <<timed, timers, fired, event, box, pushed, job, hasty>>
vars ==
  <<schedVars, pc, object, waiters, popped, owner, mutexVars, eventVars, checkVars, boxVars>>

\* The mutex with FIBER_MUTEX_F_LOCK_TRY and without; kills are a case of its own.
Mutex ==
  INSTANCE FiberMutex WITH
    lockTry <- object = "try mutex",
    victims <- IF object = "killed mutex" THEN Victims ELSE {}

\* The event as its documentation has it, and as the demo uses it.
IsEvent == object \in {"event", "demo event"}

TheEvent ==
  INSTANCE FiberEvent WITH
    Threads <- Solos,
    anyone <- object = "demo event",
    Tid <- [c \in Clients |-> IF c \in Fibers THEN Home[c] ELSE c]

\* Here the clients are fibers of one thread.
Check == INSTANCE MutexCheck WITH Fibers <- Clients

TBox == INSTANCE FiberTBox

ASSUME SharedAssumption ==
  /\ Mutexes \in Seq(Check!M)
  /\ None \notin Check!M /\ None \notin TBox!Objects
  /\ MaxWakeups \in Nat /\ MaxPush \in Nat
  /\ Users \subseteq Clients
  /\ IsFiniteSet(Clients)

IsMutex == object \in {"try mutex", "once mutex", "killed mutex"}

NoLock == threadLock = None /\ lock = None /\ fiber = None /\ wakeups = <<>>
NoCheck == wanted = None /\ tried = {}
NoEvent == atomic = FALSE /\ ll = None /\ tid = None /\ base = {} /\ signals = <<>>
NoBox ==
  /\ timed = {} /\ timers = {} /\ fired = {} /\ event = {}
  /\ box = 0 /\ pushed = 0 /\ job = None /\ hasty = {}

Init ==
  \/ IsMutex /\ Mutex!Init /\ NoEvent /\ owner = None /\ NoCheck /\ NoBox
  \/ IsEvent /\ ThreadsInit /\ TheEvent!Init /\ NoLock /\ NoCheck /\ NoBox
  \/ /\ object = "mutexes" /\ ThreadsInit /\ Check!Init /\ popped = <<>>
     /\ lock = None /\ wakeups = <<>> /\ NoEvent /\ NoBox
  \/ object = "tbox" /\ TBox!Init /\ NoLock /\ NoEvent /\ NoCheck

\* A step A on one kind of object leaves the variables of the others alone.
OnMutex(A) ==
  IsMutex /\ UNCHANGED <<object, owner, eventVars, checkVars, boxVars>> /\ A
OnEvent(A) ==
  IsEvent /\ A /\ UNCHANGED <<object, schedVars, mutexVars, checkVars, boxVars>>
OnMutexes(A) ==
  /\ object = "mutexes" /\ A
  /\ UNCHANGED <<object, schedVars, popped, lock, wakeups, eventVars, boxVars>>
OnTBox(A) == object = "tbox" /\ A /\ UNCHANGED <<object, mutexVars, eventVars, checkVars>>

Next ==
  \/ OnMutex(Mutex!Next)
  \/ OnEvent(TheEvent!Next)
  \/ OnMutexes(Check!Next)
  \/ OnTBox(TBox!Next)

Spec == Init /\ [][Next]_vars

-------------------------------------------------------------------------------
\* The state is made of what the variables of the code may hold.
TypeOK ==
  /\ IsMutex => Mutex!TypeOK
  /\ IsEvent => TheEvent!TypeOK
  /\ object = "mutexes" => Check!TypeOK
  /\ object = "tbox" => TBox!TypeOK

\* Fibers of several threads and threads without fibers exclude each other
\* (SyncObjectsAcl/fiber_mutex_ex.cpp:12-16); so do those that wait for an event,
\* also when threads, and fibers that have waited for some event, notify what they have
\* not got.  In the demo, where fibers do so that have not waited, they do not
\* (fiber_event.c:124-134, 228-239, fiber_event.h:60-61).
Holders ==
  CASE object = "event" -> {c \in DOMAIN pc : pc[c] \in {"own", "in", "pop", "free"}}
    [] object = "demo event" -> {}
    [] OTHER -> {c \in DOMAIN pc : pc[c] \in {"in", "popped"}}
ALock == INSTANCE Lock WITH holders <- Holders
ImplementsLock == ALock!Spec

\* While a mutex or an event is free and clients are in its list, somebody who is
\* not is on the way to try, and will wake the next one in turn
\* (fiber_mutex.c:482, 603-619, fiber_event.c:150-195, 241-263).
NoLostWakeup ==
  /\ object = "once mutex" => Mutex!NoLostWakeup
  /\ IsEvent => TheEvent!NoLostWakeup

\* Whoever left the array of a mutex without having tried is woken
\* (fiber_mutex.c:525-532, 613-619).
NobodyIsForgotten == IsMutex => Mutex!NobodyIsForgotten

\* Wakeups reach clients that wait, and never one that waits for something else by
\* now (fiber_mutex.c:528-532, 613-619, fiber_event.c:155-167, 243-263).
WakeupsAreForWaiters ==
  /\ IsMutex /\ object # "killed mutex" => Mutex!WakeupsAreForWaiters
  /\ IsEvent => TheEvent!SignalsAreExpected

\* Whoever notifies, notify never finds an event "corrupt" that it was allowed to free
\* (fiber_event.c:228-239, 253-259).
NeverCorrupt == IsEvent => TheEvent!NeverCorrupt

\* No deadlock among fibers that took their mutexes with lock goes unreported, whatever
\* the order of the table, while others are about to note what they have or use trylock
\* (fiber_mutex.c:236-271, 590-599).
NoMissedDeadlock == object = "mutexes" => Check!NoMissedDeadlock

\* What is reported is a deadlock: "true means there is a deadlock"
\* (fiber_mutex.hpp:55, fiber_mutex.c:256-263).
ReportMeansDeadlock == object = "mutexes" => Check!ReportMeansDeadlock

\* The list of the condition variable holds at most one object for each client, and
\* only for clients that are inside wait: signal would use an object that has been
\* freed (fiber_cond.c:157-159, 201-208, 249-262).
WaitersAreWaiting == object = "tbox" => TBox!WaitersAreWaiting

\* A sleeper whom a signal has popped is going to be woken: by the signal, by its
\* message, or by the timer it still has (fiber_cond.c:249-291, sync_timer.c:70-85).
PoppedAreWoken == object = "tbox" => TBox!PoppedAreWoken

\* No timer is left behind for a fiber that has been woken otherwise; it would end a
\* later sleep of the fiber (sync_timer.c:74-83, fiber_io.c:207-233).
TimersAreForWaiters == object = "tbox" => TBox!TimersAreForWaiters

\* Among clients that pop without a timeout: while somebody sleeps in pop, there are
\* no more objects than clients on their way to take or to announce one: "Signal the
\* cond which will wakeup one waiter" (fiber_cond.h:52, fiber_tbox.hpp:81-152).
NoIdleObject == object = "tbox" => TBox!NoIdleObject

\* A pop without a timeout does not end empty-handed, not even for a killed fiber
\* (fiber_tbox.hpp:142).
PopReturnsObject == [][object = "tbox" => TBox!PopTakesObject]_vars

-------------------------------------------------------------------------------
\* Threads go on, timers fire, mail is read (the descriptor of fiber_waiting is
\* polled with the others, whoever else is busy), clients go on with a wait begun,
\* and who has the object gives it back.  Nobody has to ask for it.
FairSpec ==
  /\ Spec
  /\ \A t \in Threads :
       /\ WF_vars(OnMutex(Mutex!Resume(t)))
       /\ SF_vars(OnMutex(Mutex!Deliver(t)))
  /\ \A f \in Fibers :
       /\ WF_vars(pc[f] # "out" /\ OnMutex(Mutex!LockStep(f)))
       /\ WF_vars(OnMutex(Mutex!Timer(f)))
       /\ WF_vars(OnMutex(Mutex!Event(f)))
       /\ WF_vars(OnMutex(Mutex!SleepElsewhere(f)))
  /\ \A c \in Clients :
       /\ SF_vars(OnMutex(Mutex!Unlock(c)))
       /\ SF_vars(OnEvent(TheEvent!GoesOn(c)))

\* A mutex or an event that is given back does not stay free while somebody waits
\* for it (fiber_mutex.c:482-504, 525-537, fiber_event.c:150-195).
IdleWhileWanted ==
  \/ IsEvent /\ ~atomic /\ waiters # <<>>
  \/ IsMutex /\ object # "killed mutex" /\ threadLock = None /\ waiters # <<>>
FreeIsTaken == IdleWhileWanted ~> ~IdleWhileWanted

===============================================================================
