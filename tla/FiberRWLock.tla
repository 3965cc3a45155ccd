------------------------------ MODULE FiberRWLock ------------------------------
(* ACL_FIBER_RWLOCK (lib_fiber/c/src/sync/fiber_lock.c): a readers-writers     *)
(* lock for the fibers of one thread.  A new reader queues behind waiting      *)
(* writers; the last reader hands the lock to the first writer, a writer to    *)
(* all readers that wait or else to the next writer.                           *)
(*                                                                             *)
(* unlock detaches the head of a list, which does nothing (a head is its own   *)
(* parent); it is acl_fiber_ready that takes the woken fiber out of the list.  *)
EXTENDS Fibers

CONSTANT Kills   \* may fibers kill each other?

VARIABLES
  readers,    \* lk->readers, a count
  writer,     \* lk->writer
  rwaiting, wwaiting,
  pc

lockVars == <<readers, writer, rwaiting, wwaiting>>

PCs == {"out", "reads", "writes", "rqueued", "wqueued"}

TypeOK ==
  /\ running \in Fibers \cup {None}
  /\ ready \in Seq(Fibers)
  /\ canceled \subseteq Fibers
  /\ readers \in Nat
  /\ writer \in Fibers \cup {None}
  /\ rwaiting \in Seq(Fibers) /\ wwaiting \in Seq(Fibers)
  /\ pc \in [Fibers -> PCs]

Init ==
  /\ FibersInit
  /\ readers = 0 /\ writer = None
  /\ rwaiting = <<>> /\ wwaiting = <<>>
  /\ pc = [f \in Fibers |-> "out"]

At(f, label) == running = f /\ pc[f] = label
GoTo(f, label) == pc' = [pc EXCEPT ![f] = label]

-------------------------------------------------------------------------------
CanRead == writer = None /\ wwaiting = <<>>
CanWriteAmongReaders == writer = None   \* mutant: readers do not count
CanWrite == writer = None /\ readers = 0

\* rlock and tryrlock of a lock that is free for readers.
RLockFree(f) ==
  /\ At(f, "out") /\ CanRead
  /\ readers' = readers + 1
  /\ GoTo(f, "reads")
  /\ UNCHANGED <<fiberVars, writer, rwaiting, wwaiting>>

RLockBusy(f) ==
  /\ At(f, "out") /\ ~CanRead
  /\ rwaiting' = Append(rwaiting, f)
  /\ GoTo(f, "rqueued")
  /\ Sleep(f)
  /\ UNCHANGED <<readers, writer, wwaiting>>

\* wlock and trywlock of a free lock.
WLockFree(f) ==
  /\ At(f, "out") /\ CanWrite
  /\ writer' = f
  /\ GoTo(f, "writes")
  /\ UNCHANGED <<fiberVars, readers, rwaiting, wwaiting>>

WLockBusy(f) ==
  /\ At(f, "out") /\ ~CanWrite
  /\ wwaiting' = Append(wwaiting, f)
  /\ GoTo(f, "wqueued")
  /\ Sleep(f)
  /\ UNCHANGED <<readers, writer, rwaiting>>

\* Back from the switch: a cancelled fiber is told -1, whether it was handed the
\* lock before or not.
LockReturns(f) ==
  /\ running = f /\ pc[f] \in {"rqueued", "wqueued"}
  /\ GoTo(f, CASE f \in canceled -> "out"
               [] f \notin canceled /\ pc[f] = "rqueued" -> "reads"
               [] f \notin canceled /\ pc[f] = "wqueued" -> "writes")
  /\ UNCHANGED <<fiberVars, lockVars>>

LastReader == readers = 1

RUnlock(f) ==
  /\ At(f, "reads")
  /\ readers' = readers - 1
  /\ IF LastReader /\ wwaiting # <<>>
     THEN /\ writer' = Head(wwaiting)
          /\ wwaiting' = Tail(wwaiting)
          /\ YieldWith(f, Readied(Head(wwaiting)))
     ELSE UNCHANGED <<writer, wwaiting, running, ready>>
  /\ GoTo(f, "out")
  /\ UNCHANGED <<canceled, rwaiting>>

\* Who is next after a writer: the readers that wait, if there are any.
ReadersAfterWriters ==   \* mutant: the next writer goes first
  rwaiting # <<>> /\ wwaiting = <<>>
ReadersNext == rwaiting # <<>>

CountedOnce == 1   \* mutant: the count grows once for all woken readers
Woken == Len(rwaiting)

WUnlock(f) ==
  /\ At(f, "writes")
  /\ \/ /\ ReadersNext
        /\ readers' = Woken /\ rwaiting' = <<>> /\ writer' = None
        /\ YieldWith(f, ready \o rwaiting)
        /\ UNCHANGED wwaiting
     \/ /\ ~ReadersNext /\ wwaiting # <<>>
        /\ writer' = Head(wwaiting) /\ wwaiting' = Tail(wwaiting)
        /\ YieldWith(f, Readied(Head(wwaiting)))
        /\ UNCHANGED <<readers, rwaiting>>
     \/ /\ ~ReadersNext /\ wwaiting = <<>>
        /\ writer' = None
        /\ UNCHANGED <<running, ready, readers, rwaiting, wwaiting>>
  /\ GoTo(f, "out")
  /\ UNCHANGED canceled

KillFiber(f, g) ==
  /\ Kills /\ pc[f] \in {"out", "reads", "writes"}
  /\ Kill(f, g)
  /\ rwaiting' = Detach(rwaiting, g)
  /\ wwaiting' = Detach(wwaiting, g)
  /\ UNCHANGED <<readers, writer, pc>>

SleepElsewhere(f) ==
  pc[f] \in {"out", "reads", "writes"} /\ Sleep(f) /\ UNCHANGED <<lockVars, pc>>

-------------------------------------------------------------------------------
Asleep == {f \in Fibers : Suspended(f) /\ pc[f] \in {"out", "reads", "writes"}}

EventLoop == (Resume \/ Poll(Asleep)) /\ UNCHANGED <<lockVars, pc>>

FiberStep(f) ==
  \/ RLockFree(f) \/ RLockBusy(f) \/ WLockFree(f) \/ WLockBusy(f)
  \/ LockReturns(f) \/ RUnlock(f) \/ WUnlock(f) \/ SleepElsewhere(f)
  \/ \E g \in Fibers : KillFiber(f, g)

-------------------------------------------------------------------------------
Inside(label) == {f \in Fibers : pc[f] = label}

\* A fiber that was woken and does not know yet that it has the lock.
Granted(label, list) ==
  {f \in Fibers : pc[f] = label /\ f \notin Elements(list)}

\* The count and the writer account for those inside and those that were woken:
\* no reader is counted twice or forgotten when several are woken at once.
CountIsExact ==
  /\ readers = Cardinality(Inside("reads") \cup Granted("rqueued", rwaiting))
  /\ {writer} \ {None} = Inside("writes") \cup Granted("wqueued", wwaiting)

\* Nobody waits for a lock that nobody has: the header says that a reader waits
\* for write locks to be released (fiber_lock.h:72-79).
FreeMeansNobodyWaits ==
  readers = 0 /\ writer = None => rwaiting = <<>> /\ wwaiting = <<>>

===============================================================================
