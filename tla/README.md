# A verification of CPP-Socket-acl in TLA+

The repository is a set of small network programs built on the acl framework: a
chat server whose connections are fibers (`ChatServerAcl`), its clients, echo
servers, demos of the fiber synchronisation objects, and examples of Redis,
MySQL and HTTP access. The chat server is where the pieces meet: cooperative
fibers, a mutex for fibers, sockets whose reads and writes put fibers to sleep,
a store shared by all connections and pointers that outlive what they point to.
Beside it stand the synchronisation objects themselves, which `SyncObjectsAcl`
tries one by one, and the Redis client that `RedisServerAcl` uses.

Paths below are relative to the repository; `lib_fiber` stands for
`acl/lib_fiber/c/src`.

## 1. Inventory

| Part | State it keeps | Operations | Modelled in |
|---|---|---|---|
| **Connection fiber** `ChatServerAcl/tcpCoroutine.cpp` | `buf`, `currentUserID`, `currentRoomNumber`, the `socket_stream` | accept; read and switch on the packet ID; login, enter, chat; clean-up | `ChatServer` |
| **RoomManager** `ChatServerAcl/RoomManager.cpp` | `rooms_`, `room_mutex_` | EnterRoom, LeaveRoom, SendUserListToAll, BroadcastMessage, Broadcast | `ChatServer`; its promise `RoomService`, the refinement `ChatRooms` |
| **Packets** `ChatServerAcl/PacketDefinition.*` | none | serialise, deserialise | kinds and user IDs only |
| **Scheduler** `lib_fiber/fiber.c`, `fiber_io.c`, `hook/` | running fiber, ready ring, per socket one `fiber_r` and one `fiber_w`, timers | switch, yield, ready, delay, kill, wait_read, wait_write, close | `ChatServer`; `Fibers` (one thread), `FiberThreads` (several) |
| **fiber_lock** `lib_fiber/sync/fiber_lock.c` | owner, waiting list | lock, trylock, unlock | `FiberLock`, against `Lock` |
| **RWLOCK** `lib_fiber/sync/fiber_lock.c` | count of readers, writer, two waiting lists | rlock, tryrlock, runlock, wlock, trywlock, wunlock | `FiberRWLock`, against `RWLock` |
| **fiber_sem, fiber_sbox** `lib_fiber/sync/fiber_sem.c`, `fiber_sem.hpp` | count, waiting list; list of objects | wait, trywait, post; push, pop | `FiberSem`, `FiberSBox` |
| **fiber_mutex** `lib_fiber/sync/fiber_mutex.c`, `sync_waiter.c` | owner, unordered array of waiters, thread mutexes; a mailbox per thread | lock in two variants, trylock, unlock; the deadlock check | `FiberMutex`, against `Lock`; `MutexCheck`; a smaller copy in `ChatServer` |
| **fiber_event** `lib_fiber/sync/fiber_event.c` | an atomic flag, owner, ring of waiters | wait, trywait, notify | `FiberEvent`, against `Lock` |
| **fiber_cond, fiber_tbox** `lib_fiber/sync/fiber_cond.c`, `sync_timer.c`, `fiber_tbox.hpp` | list of waiting objects, timers, a mailbox per thread; list of objects | wait, timed wait, signal; push, pop | `FiberCond`, `FiberTBox` |
| **SyncObjectsAcl** `main.cpp` and one file per object | locals of each demo | choose an object, use it | `LocalObjects`, `SharedObjects` |
| **Redis client** `acl/lib_acl_cpp/src/redis/redis_client.cpp` | one connection | run with one retry, open, close | `RedisClient`, with one caller; in `ChatServer` its answer only |
| **RedisServerAcl** | none beyond a connection | menu of commands | as the caller of `RedisClient` |
| **WinForms client** `WinFormsClient/Form1.cs` | stream, receiver tasks, list boxes | connect, login, enter, chat, receive, close | as the environment of the server |
| **Echo servers, console client** `TCPServerAcl`, `TCPCoroutineServerAcl`, `CppConsoleClient` | a 256-byte buffer | read, echo | no |
| **MySQLServerAcl, HttpAcl** | none beyond a connection | SQL statements, two routes | no |

How they interact. A client's bytes arrive in the socket of its stream; the
event loop makes the fiber that sleeps in `conn->read` ready; the fiber handles
one packet and calls RoomManager, which all fibers share behind `room_mutex_`;
RoomManager writes to the streams of *other* fibers, and each such write may put
the writing fiber to sleep, with the mutex, until that client reads. A login
goes to Redis through one `redis` object shared by all fibers.

What is hard, and what must hold:

* `EnterRoom` and `LeaveRoom` take and drop `room_mutex_` three or four times.
  That operations do not mix rests on how the *scheduler* works: `unlock()`
  neither hands the mutex over nor yields. (`OneOperationAtATime`, `ListIsCurrent`)
* `Broadcast` sleeps inside a range-for over `rooms_[roomNumber]`. (`IterationStable`)
* A room has two places. (`RoomCapacity`)
* A woken waiter may find the mutex taken again, queues again, and after five
  times sleeps outside the queue. (`NoLostWakeup`, `RequestsAreServed`)
* A `FILE_EVENT` has room for one waiting writer. (`MutexIsReleased`)
* `rooms_` holds raw pointers that are removed by user ID and room number, both
  of which the client may change. (`MemberIsItself`, `OnlyMyselfRemovesMe`,
  `NoDeletedMember`)
* Closing a stream cancels a fiber of another connection that waits on it.
  (`IterationStable` and `OneOperationAtATime` in the run `any_accounts`)
* A read returns whatever has arrived. (`EveryRequestIsRead`)
* Being refused leaves a trace: `currentRoomNumber`. (`ChatOnlyFromMembers`)
* Every object of the fiber library hands over, or announces, to a fiber that runs
  only later, and may be killed or woken otherwise in between. (`GrantIsNoticed`,
  `PermitsConserved`, `CountIsExact`, `FrontExists`, `NobodyIsForgotten`)
* A waiter is in a list and asleep in two steps, and what would wake it may happen
  between them, on another thread. (`NoLostWakeup`, `PoppedAreWoken`,
  `NoIdleObject`, `FreeIsTaken`)
* A timer and a signal may both end one wait. (`TimersAreForWaiters`,
  `WaitersAreWaiting`)
* A request to Redis is repeated when no answer came, while the first may still be
  carried out. (`AnswersMatch`, `CarriedOut`)

`PROJECT.json` lists these and all other hazards at their lines, with the
properties that cover them or the reason why none does yet.

## 2. Plan

| | Modules | Checked | Proved |
|---|---|---|---|
| 1 | `ChatServer`, `ChatServerMC` | done | every safety property of the passing runs: `ChatServerProofs`, `ChatMutexProofs` (wakeups), `ChatMemberProofs` (membership under a discipline) |
| 2 | `RoomService` (abstract), `ChatRooms` (refinement) | done | the refinement: `ChatRoomsProofs` |
| 3 | `Fibers`, `FiberLock`, `FiberRWLock`, `FiberSem`, `FiberSBox`; `Lock`, `RWLock` (abstract); `LocalObjects` | done | every safety property and both refinements: `LocalObjectsProofs` |
| 4 | `FiberThreads`, `FiberMutex`, `FiberEvent`, `FiberCond`, `FiberTBox`, `MutexCheck`; `SharedObjects`, `SharedObjectsMC` | done | every safety property and the refinement: `SharedObjectsProofs` |
| 5 | `RedisClient`, `RedisClientProofs` | done for one caller | four theorems, all its properties |
| 6 | `PacketStream`, `ChatClient`: framing, text answers between packets, receiver tasks | open | |

`QueueTheorems` has the facts about lists and sets that the proofs of rows 1, 3 and
4 share.

No module uses a RECURSIVE operator. The modules of
rows 3 and 4 have no specification of their own: they are put together by
`LocalObjects` and `SharedObjects` (section 4).

## 3. The model of the chat server

### Steps

Fibers run on one thread and give way only where they sleep. A step of
`ChatServer` is what the running fiber does up to the next point where the
state of others decides what follows: taking the mutex, the body of one critical
section, one write, one unlock. `running` keeps the fiber between these
steps; no other fiber runs while it is set. Only the environment (clients,
Redis, timers) acts in between.

| Code | Model |
|---|---|
| `acl_fiber_switch`: head of the ready ring (`fiber.c:863`) | `Resume`: `ResumeWriter`, `ResumeWaiter`, `ResumeOther` by what the fiber slept for |
| `fiber_io_loop`, `event_process` (`fiber_io.c:245`) | `Poll`: all fibers whose event has happened become ready, in any order |
| `fiber_wait_read` | `pc = "read"` and `running = None`; `IOReady` |
| `fiber_wait_write`: `fe->fiber_w = curr`, switch, `fe->fiber_w = NULL` (`fiber_io.c:619`) | `WaitWritable` sets `writer[d]` and `blockedOn[c]`; `ResumeWriter` clears `writer[d]`, whoever is there |
| `fiber_file_close`: kill the fiber that waits on the stream (`fiber_io.c:840`) | `Delete`: `killed`, and the fiber becomes ready |
| `fiber_mutex_lock_once` (`fiber_mutex.c:457`) | `Lock`, `ResumeWaiter` with `wakeups`, `Timer` for `acl_fiber_delay(100)` |
| `acl_fiber_mutex_unlock` (`fiber_mutex.c:585`), `array_pop_front` | `Unlock`, `Wake`, `PopFront`, `RunOn` |
| accept and `go` (`tcpCoroutine.cpp:27-31`) | `Accept(c)` |
| `conn->read` and the switch (`tcpCoroutine.cpp:36-88`) | `Read` with `ReqLogin`, `ReqRoomEnter`, `ReqRoomChat`; `ReadFailed` |
| `cmd.get` and the comparison (`tcpCoroutine.cpp:52-54`) | `pc = "redis"`, then `RedisReply`, then `Answer` |
| `delete conn` (`tcpCoroutine.cpp:93`) | `Delete(c)` |
| `EnterRoom` | sections `insert`, `snapshot`, `list`, `joined` |
| `LeaveRoom` and the clean-up after it | sections `erase`, `left`, `snapshot`, `list`, then `delete` |
| `BroadcastMessage` | section `chat` |
| `SendUserListToAll` | `Snapshot`, then a broadcast of `list` |
| `Broadcast` | `StartBroadcast`, then `Broadcast` once for each member |

`rooms[r][u]` is the pointer stored in `rooms_[r][u]`, `None` when there is no
entry; `roomKeys` are the keys of `rooms_`, since `rooms_[r]` creates one and
LeaveRoom erases an empty one. `todo[c]` is what is left of the operation of
fiber `c`; `targets[c]` is the rest of the loop of `Broadcast`, `snap[c]` the
strings `userID1` and `userID2`.

A member of `Conns` is an *address*: the `socket_stream` allocated there and its
fiber. After `Delete` it is free and `Accept` may use it again, as an allocator
does; a pointer left in `rooms_` then denotes the new stream. Writing to a free
address is undefined behaviour: the bytes are lost or the process crashes
(`pc = "crashed"`, `running` is never reset, no fiber runs again). The same holds of
a write that fails because its fiber was cancelled: `wait_write` then frees the
`FILE_EVENT` of the socket it was to wait for (`hook/fiber_write.c:38-41`), which may
belong to a connection that is still open. `FreesEvent` is that case, and again the
bytes are lost or the process crashes; what else a freed `FILE_EVENT` may
lead to is not bounded by the source.

### What is abstracted, and what is not yet there

* A packet is its kind and user IDs. Chat text, layout and sizes are left out;
  no packet is torn by the 256-byte read. (Several packets in one read *are*
  modelled.) Room number -1 and the empty user ID are not among the values
  clients use, and an unknown packet ID, which changes nothing, is not sent.
* Redis gives either answer, or none. That includes a crossing of answers on the
  connection that the fibers share.
* The accept fiber is not scheduled like the others: `Accept` may happen at any
  moment when no fiber runs. This adds behaviours and removes none.
* An unordered map is walked in any order.
* A socket has room for `OutCap` packets; the bytes for a client that has
  closed are dropped and its socket counts as writable. A write is all or
  nothing, and one of a cancelled fiber may be lost.
* A connection only ends when the client closes it. A lost connection that the
  server does not notice is a client that stops reading.

### Bounds

`InCap` requests in flight and `OutCap` packets not yet read, per connection;
`MaxAccepts` connections in a behaviour; `MaxSends[c]` requests per connection;
`MaxWakeups` retries before a waiter sleeps (1 in the runs instead of 5, so that
sleeping waiters occur within a few steps). With `OutCap = 1` a second write to a
client that does not read already puts the writer to sleep, which is what all
the interesting cases need. Two connections with three requests each are enough for a
login under a second ID after a room was entered, so that a deleted stream stays in the
room and the other connection writes to it; with two accepts (`MaxAccepts`) one
connection may also come back to the address of its own deleted stream. Three connections
are enough for two waiters at once, for one refusal, and for a cancelled writer that
goes on to a third socket. That somebody else writes to a stream whose address was given to
a third connection is beyond the instances; the theorems hold for any bounds.

`CHECK_DEADLOCK FALSE` in all configurations: clients may stop sending and are
then waited for, and a behaviour ends when the bounds are used up.

### What the chat server promises: `RoomService`

`RoomService` is the room manager as a client sees it: one request is served at a
time; it changes the membership at once and never beyond two; then each notice
goes to everybody in the room, and reaches each once, before the next request is
served. `ChatRooms` maps `ChatServer` to it: the client that is served is the one
whose fiber is inside an operation and past its first section, `notices` are the
broadcasts left in `todo`, `untold` is `targets`. `ImplementsRoomService` says that under
this mapping every step of `ChatServer`, with all its locking, queueing, sleeping,
cancelling and crashing, is a step of `RoomService` or a stutter. It needs that
the mutex is taken several times by one operation without anybody coming in
between, that nobody enters or leaves while a broadcast sleeps, and that a crash
leaves everything as it is.

## 4. The synchronisation objects and the Redis client

### One object at a time

A program of `SyncObjectsAcl` uses one object, and the objects do not interact, except
where one is built on another (`FiberSBox` on `FiberSem`, `FiberTBox` on
`FiberCond`). So they are modules of operations, without a specification each,
and two modules make systems of them:

* `LocalObjects`: objects for the fibers of one thread. `object` says which one
  `main()` was asked for, and stays; a step is a step of the fibers with this object.
* `SharedObjects`: objects for fibers of several threads and for threads without
  fibers, in the same way.

Both are sums: a property of one object says nothing in the other cases. In
`SharedObjects` the three cases with a fiber_mutex are one instance of `FiberMutex`,
whose parameters `lockTry` and `victims` depend on `object`, and the two with a
fiber_event one of `FiberEvent`. In each case the fibers use the object in any order
and sleep elsewhere with or without it; where sections 5 and 8 name no exception they are also
killed, once or again. The demos are some of these orders.

A fiber_event can be given back by somebody who has not got it. `notify` compares the
`FIBER_BASE` of the caller with the one noted, and when both are NULL the threads
(`fiber_event.c:228-239`). A `FIBER_BASE` is allocated when a fiber first waits for an event
that is taken, any event (`GetBase`), and then stays. So the case `"event"` has as callers
of notify whoever is inside, all threads without fibers, and all fibers with a
`FIBER_BASE`; they are refused unless they are the one noted. The case `"demo event"`
(`anyone`) adds the fibers without one, as `fiber_event_ex.cpp:22-26` has it: those
may free the event under its owner. In that case the event is not a lock, and
`ImplementsLock` says nothing of it; the wakeups are as exact as before
(`NoLostWakeup`, `WakeupsAreForWaiters`, `FreeIsTaken`), and `NeverCorrupt` holds in both.

### Fibers of one thread: `Fibers`

`running`, `ready`, `canceled`. `Resume` is `acl_fiber_switch` taking the head of the
ready ring; `Poll` is a pass of the event loop, which makes any of the sleepers whose
event or timer has come ready, in any order; `Kill` marks a fiber and makes it
ready. Between two switches a fiber runs alone, so a step is the code between two
switches.

| Code | Model |
|---|---|
| `__lock` (`fiber_lock.c:35`), success of trylock | `FiberLock`: `LockFree`, `LockBusy` up to the switch, `LockReturns` from it on |
| `acl_fiber_lock_unlock` (`:103`) | `Unlock`: hands the lock to the first in the list |
| `__rlock`, `__wlock` (`:146`, `:192`) | `FiberRWLock`: `RLockFree`, `RLockBusy`, `WLockFree`, `WLockBusy`, `LockReturns` |
| `acl_fiber_rwlock_runlock`, `wunlock` (`:238`, `:250`) | `RUnlock`: a writer next; `WUnlock`: all readers, or a writer |
| `acl_fiber_sem_wait`, `post` (`fiber_sem.c:61`, `:152`) | `FiberSem`: `WaitFree`, `WaitBusy`, `WaitReturns`; `Post` yields unless `Async` |
| `fiber_sbox::push`, `pop` (`fiber_sem.hpp:58`) | `FiberSBox`: `Push`; `PopNow`, `PopWaits`, `PopReturns` |

### Fibers of several threads: `FiberThreads`

Each thread of `Threads` has its `running` fiber, its `ready` ring and the mailbox
`mbox` of its `fiber_waiting`; the members of `Solos` are threads without fibers.
Here a step is one access to what threads share. A fiber wakes another of its
thread by `MakeReady`, one of another thread by a message, which `Deliver` takes
whenever that thread is in its event loop.

| Code | Model |
|---|---|
| `fiber_mutex_lock_once`, `_try` (`fiber_mutex.c:457`, `:508`) | `FiberMutex`: `LockOnce`; `FirstTry`, `AppendAndTry`; then `Switch`, `Woken`, `DelayEnds` |
| `acl_fiber_mutex_unlock` (`:585`) | `UnlockPop`, `UnlockRelease`, `UnlockWake` |
| lock, trylock, unlock as the check sees them (`:457-622`) | `MutexCheck`: `Lock`, `Retry`, `TryLock`, then `NoteOwner` and `NoteFiber`, two steps, for `mutex->owner` and `mutex->fiber`; `Unlock` |
| `acl_fiber_mutex_deadlock` (`:134-310`) | `MutexCheck!Reports` in any state, for every order in which the hash table may list the owners |
| `acl_fiber_event_wait`, `notify` (`fiber_event.c:118`, `:222`) | `FiberEvent`: `Cas`, `NoteOwner`, `Wait`, `Try`, `Wakes`; `Notify` or `NotifyFails`, `Pop`, `Free` (with "atomic corrupt"), `Wake`; `GetBase` for other events |
| `fiber_cond_timedwait`, `thread_cond_timedwait` (`fiber_cond.c:116`, `:180`) | `FiberCond`: `Enlist`, `UnlockInWait`, `Switch`, `Woken`, `Relock`, `Leave`; `SoloWoken`, `SoloTimeout`, `SoloLeave` |
| `acl_fiber_cond_signal`, `wakeup_waiter` (`fiber_cond.c:244`, `sync_timer.c:70`) | `Pop`, `Wake`, `WakeFiber`, `Send`, `Deliver` |
| `wakeup_timers` (`fiber_io.c:207`) | `Fire` |
| `fiber_tbox::push`, `pop` (`fiber_tbox.hpp:81`, `:124`) | `FiberTBox`: `PushBack`, `Notify`, `Release`; `Found`, `Wait`, `RelockBox`, `WaitReturns` |

What is abstracted:

* `mbox_send` is one step, and so is reading a message; a mailbox is polled with the
  other descriptors, so `Deliver` may happen whenever no fiber of the thread runs.
* The mutex of a condition variable is reduced to its owner. That it is a lock
  is what the cases `"try mutex"` and `"once mutex"` show. A fiber that waits for
  it is made ready at any time while it is free.
* A try that fails changes nothing and is left out; so is a notify that is refused to
  somebody who is not inside. With `FIBER_FLAG_USE_FATAL`, the default in C++, a refused
  notify ends the process, which is not modelled: the others would just stop.
* The deadlock check looks at one state, which may be any state between the steps of lock,
  trylock and unlock of the fibers of one thread, as a check run by a second thread
  finds it. That it reads arrays of another thread without their lock is
  undefined behaviour that is not modelled, nor are mutexes of several threads at once.
* Descriptors of a fiber_event can always be read and written.
* `MaxMail` bounds the messages of a thread in `FiberCond`, `MaxPush` the objects of a
  mailbox.
* `Users` are the clients that push and pop, or that use the mutexes of the check; `Hurries` the sets of clients that pop with a
  timeout, one of which is chosen at the start; `Victims` are the fibers that others may
  kill in the case `"killed mutex"`; `MaxWakeups` is the number of wakeups after which a
  waiter of the mutex sleeps. `MaxPending` bounds the entries in the array of the mutex
  and the messages before a fiber is killed again: each kill lets it queue once more.

`SharedAssumption` asks that the clients are a finite set, that the `Users` are clients and
that `None` is neither a mutex nor an object of the mailbox; nothing is asked of `Victims`,
`Hurries`, `MaxMail` and `MaxPending`.

Bounds: the objects of row 3 have none except `MaxPush` of the mailbox (3, and 2 with
kills), as three fibers already make two waiters behind an owner and a third that
comes and goes. `SharedObjects` has two fibers on one thread, so that a wakeup meets a
ready ring that is not empty, one on a second, so that messages are sent, and a thread
without fibers; a waiter sleeps after one wakeup instead of five (`MaxWakeups = 1`); one
fiber may be killed; the `fiber_tbox` is used by the two fibers of one thread and the
thread without fibers, and either nobody is in a hurry or one fiber and that thread are;
a mailbox of a
thread holds two messages and `fiber_tbox` two objects, one more than the
waiter that is being woken needs. The theorems hold for any of these.

### `RedisClient`

One caller makes calls one after the other, as `RedisServerAcl` does. `Open`, `Write`,
`Read` and `Fail` are the steps of `redis_client::run`; a call is its number, its
request and its answer carry this number. The server takes requests from a connection
at any time, even after the client has given the connection up; a connection may be
lost at any moment with what is under way. A read that takes too long, an answer
that cannot be parsed and a lost connection all are `Fail`.

`AnswersMatch` rests on `close()` before each retry (`NothingPending`): were the
connection kept, the late answer of the first attempt would be taken for that of
the next call. `CarriedOut` is what the retry costs: a request may be
carried out twice although it is reported once, so `lpush` and `rpush` of
`redisHandler.cpp:90-103` may append an element twice, and the first attempt may be
carried out after a later call.

Three calls are needed for an answer of the one before last to come late; with four
connections one of the calls at least can be repeated and the next one still
connect. The theorems hold for any number of either.

## 5. The runs

| Run | Instance | Shows |
|---|---|---|
| `any_accounts` | two connections, two users, one room, two accepts; any client may use any ID and log in again | `TypeOK`, `OneOperationAtATime`, `IterationStable`, `ListIsCurrent`, `NoLostWakeup` hold, and the server implements `RoomService`, even in the states with overwritten entries, pointers to deleted streams, crashes, cancelled and orphaned writers and fibers that sleep for ever |
| `own_accounts` | three connections with an ID each, one room, at most two requests each; no login is refused | `RoomCapacity` with a third user at the door; two waiters; and, under this discipline of the clients, `MemberIsItself` and `OnlyMyselfRemovesMe` |
| `live` | two connections with an ID each, fairness | `RequestsAreServed` |
| `local_objects` | three fibers of one thread; fiber_lock with kills; RWLOCK, semaphore and mailbox with and without kills | eight invariants and two refinements, and `WaitersAreServed` under fairness |
| `shared_objects` | two fibers on one thread, one on another, a thread without fibers; three mutexes for the check; two pushes | ten invariants, `ImplementsLock` for the variants of the mutex, the mailbox and the event (not in the demo's use), `PopReturnsObject` |
| `shared_objects_live` | a fiber on each of two threads and a thread without fibers, fairness | `FreeIsTaken` |
| `redis_client` | three calls, four connections | `AnswersMatch`, `NothingPending`, `CarriedOut` |
| `refused_chat` | three clients arrive one after the other | `ChatOnlyFromMembers` is **violated** |
| `coalesced` | one client, two requests in flight | `EveryRequestIsRead` is **violated** |
| `deleted_member` | one client, two rooms | `NoDeletedMember` is **violated** |
| `stuck_mutex` | two clients that may log in again, fairness | `MutexIsReleased` is **violated** |
| `false_report` | four fibers of one thread, three mutexes | `ReportMeansDeadlock` is **violated** |

`MemberIsItself` and `OnlyMyselfRemovesMe` need the discipline of the instance:
with shared accounts or a second login, entries are overwritten and removed by
others. `Discipline` in `ChatMemberProofs` says what of it is needed. They say
what the code achieves for well-behaved clients; the
hazards in `PROJECT.json` say what it does for the rest.

The constraint `LoginsSucceed` cuts off refused logins in `own_accounts`, where they
add only states; the other passing runs have them.

Symmetry is used in `any_accounts` (connections, users) and `own_accounts`
(connection and account together); both check safety only, and no definition
distinguishes the permuted values. The constraint `OneAfterAnother` keeps two of the
violation runs small; a violation found under it is one of the unconstrained
model, too, and its fair counterexample ends in a state where nothing more can
happen within the bounds.

### The five disagreements

* **A refused user can chat** (`tcpCoroutine.cpp:68`, `78`). The room number is stored
  before EnterRoom decides. The client's README says one may take part *if
  the request succeeds*.
* **Requests that arrive together are lost** (`tcpCoroutine.cpp:37-47`). The server's
  README says a chat request of a user in a room is broadcast.
* **A room keeps a deleted stream** (`tcpCoroutine.cpp:68-70`, `90-93`). Entering
  a second room does not leave the first; clean-up leaves only the last. The
  README says messages go to the users who are in the room.
* **The mutex may never be released** (`fiber_io.c:651`, `667-668`). A
  client that does not read sends a second login; its fiber wants
  to write the answer, a broadcaster wants to write to the same socket, and one
  registration replaces the other. Everybody else then waits for `room_mutex_`.
  The README says fiber_mutex guarantees the stability of the program.
* **A deadlock is reported where there is none** (`fiber_mutex.c:256-263`). The check
  enters each waiting owner in a table and reports when the fiber it waits for
  is in it. Let D wait for B, B for A and A for C, who goes on: if A is listed before B,
  that is reported. `fiber_mutex.hpp:55` says of the result that true means there is a deadlock
  (返回 true 表示存在死锁问题), and `Document/Cpp-SynchronizationObject.md:419-426` and
  `SyncObjectsAcl/README.md:262-264` that the object is for detecting deadlocks. The other
  direction holds: `NoMissedDeadlock`.

### Disagreements without a run

The following were met while the synchronisation objects were modelled. No run is spent on
them: most are a wrong result on a line or two, and the first is seen by reading the three
functions. The models do what the code does.

* A fiber_event is documented as one: `wait` blocks until another coroutine notifies
  (`SyncObjectsAcl/README.md:190`, `203`, `567`, `Document/Acl-SyncObject.md:146`, `159`), and
  `fiber_event_ex.cpp:10-26` uses it so. The code is a lock: a `wait` of a free event returns
  at once and takes it (`fiber_event.c:124-134`), whether or not anybody has notified.
  The notify of a fiber that never waited is accepted when neither it nor the owner has a
  `FIBER_BASE` and the thread is the same (`:228-239`), as in the demo, whose fibers are
  of one thread: it then frees the event under its owner, and a second client may take it.
  Any other notify out of turn is refused. `fiber_event.h:60-61` asks for the owner. The
  models have all of this (section 4).
* `acl_fiber_lock_trylock` returns -1 when it has taken the lock and 0 when it has not
  (`fiber_lock.c:94`). `FiberLock` has the acquisition only.
* `fiber_lock::lock` returns true and drops the result of the C function
  (`cpp/src/fiber_lock.cpp:18`): a killed waiter goes on without the lock.
* A fiber that is killed after `wunlock` or `runlock` has made it the writer or counted it
  as a reader is told -1 while the RWLOCK counts on it (`fiber_lock.c:172`, `221`), and
  readers that queue behind a writer that is killed are woken by no `runlock`
  (`:242`). So `CountIsExact`, `FreeMeansNobodyWaits` and `WaitersAreServed` are stated of the
  RWLOCK without kills, and only `ImplementsRWLock` (exclusion) also with them.
* A permit handed to a waiter that is killed before it runs is lost
  (`fiber_sem.c:112`). `PermitsConserved` says that no kill ever makes a permit, and that
  none is lost without one.
* A killed waiter of a fiber_mutex stays in the array, and the wakeup that is sent to it may
  find it awake, which `sync_waiter.c:74` asserts it is not. Hence `Victims` is one
  fiber of the case `"killed mutex"` only.
* `acl_fiber_mutex_trylock` does not write `mutex->fiber`; a later unlock logs an error
  (`fiber_mutex.c:594`), and the deadlock check skips whoever waits for that mutex (`:252`),
  so a deadlock over it may go unreported. `NoMissedDeadlock` is therefore about deadlocks
  whose mutexes were taken with lock (`TakenWithLock`), among others that were not.
* A fiber whose first `acl_fiber_event_wait` takes the event at once has no `base` yet; the
  event then looks as if a thread owned it, and `notify` compares NULL with what
  may have been allocated since (`fiber_event.c:127`, `228`).
* A fiber whose wait on a fiber_cond timed out is told 0 when it slept again for the
  mutex (`fiber_cond.c:161`): `pop` of `fiber_tbox` then waits once more for the whole
  time.
* A signal sent to a waiter on another thread is lost when its timer fires first
  (`sync_timer.c:84`): an object may lie in a `fiber_tbox` while another waiter sleeps.
  `NoIdleObject` is therefore stated of the mailbox where nobody pops with a timeout.
* A push to Redis may be carried out twice (`redis_client.cpp:413`; see `CarriedOut`).

## 6. Fairness

`ChatServer!FairSpec` assumes weak fairness of the event loop (`Poll`, `Resume`), of each
fiber once it runs, of Redis and timers, and of clients that read. The first
three are how the scheduler works: the ready ring is first in, first out, each fiber
in it is run, and the loop polls when the ring is empty; `acl_fiber_delay` fires.
Redis and reading clients are assumptions on the environment: the server
writes without a timeout, so without reading clients nothing can be promised.
Nothing is assumed about clients sending, connecting or closing, and none of the
fairness of the chat server is strong.

`LocalObjects` and `SharedObjects` assume the same of the event loop and the fibers, and:

* `SF(WakesUp(f))`, `SF(Deliver(t))`: what a sleeping fiber waits for happens, and a
  message in a mailbox is read. Both are possible only between two fibers, hence strong
  fairness: `event_process` looks at all descriptors and timers in every pass.
* `SF(Unlock(f))`: who has the object gives it back some time, however
  often it sleeps before. This is an assumption on the users; without it nothing can be
  promised to those who wait. The demos sleep for a fixed time and unlock.
* `SF(GoesOn(c))`: a call of wait or notify of a fiber_event that has begun is carried on,
  strong because `__ll_lock` and the fibers of the same thread come in between again and
  again. Nobody is assumed to notify: `FreeIsTaken` is about an event that has been freed.
* `WF(SleepElsewhere(f))`: no fiber runs for ever without a switch, which a
  cooperative scheduler takes for granted.

Nothing is assumed about a fiber asking for an object, or killing another.

## 7. Proofs

The theorems hold for any sets of connections, users, rooms, fibers and threads and any
bounds that satisfy the assumptions named in the modules. Each inductive invariant was
checked by TLC on the instance of a run before it was proved.

### The chat server

`ChatServerProofs`, under `ConstantsAssumption` (connections and users are finite sets):

| Theorem | Statement |
|---|---|
| `TypeCorrect` | `Spec => []TypeOK` |
| `OneAtATime` | `Spec => []OneOperationAtATime` |
| `Capacity` | `Spec => []RoomCapacity` |
| `StableIteration` | `Spec => []IterationStable` |
| `CurrentList` | `Spec => []ListIsCurrent` |

The inductive invariants come in three layers, each proved by one step per action:

* `TypeInv`: `TypeOK`, with the facts that make types inductive: a fiber that waits
  for or writes a login answer has `asked` set, and one that is inside an
  operation has a plan with something left in it.
* `TurnsInv`: adds that the fiber at a `pc` inside a section is the owner of the
  mutex, and nobody else is at one (`MutexInv`), and that a fiber in the middle of
  an operation runs or owns the mutex (`TurnInv`). `TurnInv` is what makes the argument
  work: between two sections of one operation the mutex is free, and only the
  fact that the fiber is still running keeps the others out. `Exclusion` derives
  `OneOperationAtATime` from it.
* `RoomsInv`: adds that `roomKeys` are the rooms with members (`KeysInv`), the
  capacity, that the members a broadcast has still to visit are in the room, and
  that from its snapshot on a fiber carries the membership (`ListInv`).
  `RoomChanges` says only `Insert` and `Erase` change rooms, both by the owner of the
  mutex; `Undisturbed` says that what holds of one fiber's own variables and the
  rooms survives the steps of other fibers.

`ChatRoomsProofs` proves `RoomsAreServed`: `Spec => ImplementsRoomService`. `ServiceInv`
adds to `RoomsInv` that only a fiber in the loop of a broadcast has `targets`, and that a
refused fiber is at its unlock. At most one fiber is served (`OneServed`), so the
refinement mapping's choice of one is no choice, and a step of another fiber is not
seen (`OthersUnseen`). The rest is one lemma per kind of step: `InsertIsEnter`, `EraseIsLeave`,
`SnapshotIsNotice` (a list skipped because the room is gone), `StartIsChatOrNotice`,
`BroadcastIsTell`, `UnlockIsFinish`, and `QuietSteps` for those that clients do not see.

`ChatMutexProofs` proves `Wakeups`: `Spec => []NoLostWakeup`, and `OnePlace`. The invariant
`WakeupInv` says that a fiber that is about to lock runs, is ready or is in
`waiters`, that it is in the two queues at most once altogether (`QueueInv`), so that the
waiter `Unlock` pops does become ready, and (`WakeInv`) that a free mutex with waiters has
somebody on its way. It needs to know who can be in the ready ring at all, which
depends on who waits for which socket (`WriteInv`).

`ChatMemberProofs` proves what holds for clients that keep to `Discipline`: no two clients
share an account, a client asks for one room only, and it has one account or does not
log in again. It is a hypothesis of the theorems, as the server does not enforce it; the instance
`own_accounts` satisfies it, and the other instances show that it is needed.

| Theorem | Statement |
|---|---|
| `OwnEntries` | `Discipline` implies `Spec => []MemberIsItself` |
| `OwnRemoval` | `Discipline` implies `Spec => OnlyMyselfRemovesMe` |
| `OwnStreams` | `Discipline` implies `Spec => []NoDeletedMember` |

In `OwnInv` the point is `GoneInv`: from the first section of LeaveRoom to the end of the
fiber no room has its stream, so nothing is left in `rooms` when the address
is freed; and `LoginInv`, that no login is under way once a room was asked for.

### The objects for the fibers of one thread

`LocalObjectsProofs`, for any number of fibers (a finite set):

| Theorem | Statement |
|---|---|
| `LocalTypes` | `Spec => []TypeOK` |
| `NobodyWaitsForFree` | `Spec => []FreeMeansNobodyWaits` (fiber_lock with kills, RWLOCK without) |
| `GrantsAreNoticed` | `Spec => []GrantIsNoticed` |
| `CountsAreExact` | `Spec => []CountIsExact` (without kills) |
| `PermitsAreConserved` | `Spec => []PermitsConserved` |
| `PermitsAreUsed` | `Spec => []NoIdlePermit` |
| `FrontsExist` | `Spec => []FrontExists` |
| `ObjectsAreUsed` | `Spec => []NoIdleObject` (without kills) |
| `FiberLockIsALock` | `Spec => ImplementsLock` |
| `FiberRWLockIsAnRWLock` | `Spec => ImplementsRWLock` |

`LocalInv` is `SchedInv` and one invariant per object. What all of them rest on is that a
fiber is in one place: it runs, is in the ready ring or waits in one list
(`WaitsIn`), and a kill takes it out of its list when it makes it ready. Then:

* `LockInv`: an owner that is not inside has been handed the lock and is awake, so it will
  notice; nobody waits for a free lock.
* `RWInv`: those inside, or granted and not yet back, are at most `readers` (a kill makes
  the count too high, never too low), and `writer` is the only one that writes; this
  is enough for exclusion. `NobodyKilledRW` says the count is exact.
* `SemInv`: permits lie there only while nobody waits. The sum of `num` and of those that hold
  or were given a permit (`Holding`) is constant without kills and never grows with them.
* `BoxInv`: for each permit, those given away included, there is an object in the list, which is
  why `pop_front` of an empty list cannot happen.

### The objects for several threads

`SharedObjectsProofs`, under `SharedAssumption` and `ThreadsAssumption`:

| Theorem | Statement |
|---|---|
| `SharedTypes` | `Spec => []TypeOK` |
| `WakeupsAreNotLost` | `Spec => []NoLostWakeup` (mutex in its second variant, event) |
| `WaitersAreRemembered` | `Spec => []NobodyIsForgotten` |
| `WakeupsAreExpected` | `Spec => []WakeupsAreForWaiters` (mutex without kills, event) |
| `EventsAreNotCorrupt` | `Spec => []NeverCorrupt` |
| `DeadlocksAreReported` | `Spec => []NoMissedDeadlock` (mutexes taken with lock) |
| `ListedAreWaiting` | `Spec => []WaitersAreWaiting` |
| `PoppedWillWake` | `Spec => []PoppedAreWoken` |
| `TimersAreUsed` | `Spec => []TimersAreForWaiters` |
| `ObjectsAreClaimed` | `Spec => []NoIdleObject` (nobody pops with a timeout) |
| `PopsReturnObjects` | `Spec => PopReturnsObject` |
| `SharedObjectsAreLocks` | `Spec => ImplementsLock` (mutex, mailbox; event, but not in the demo's use) |

`SharedInv` has one invariant per object:

* `MutexInv`. `HolderInv` says who owns the mutex, its inner lock and a popped waiter. `WokenInv`:
  a waiter that is not in the array is in a message, was popped by an unlock that has
  still to wake it, or is scheduled. `PlaceInv`: without kills it is in just one of these
  places, so a wakeup always finds it asleep; kills break this, as section 5 says.
  `OnceInv`: while the mutex is free somebody outside the array will try.
* `EventInv`. `TurnInv`: the fibers of a thread are in a call one after the other. `OwnerInv`:
  from the check of notify to the release nobody changes what was checked, and of all
  clients at most one has passed the check (`OneFreesIt`); this gives `NeverCorrupt`, whoever
  calls. `InsideInv`, of the case `"event"` only: one client is inside, has set `atomic`,
  and is the one the event is noted for, so a stranger with a base or a thread of its own is
  refused. `CalledInv`: a client in the ring sleeps without a signal, one taken out of it
  gets one. `ComingInv`: somebody comes to a free event with waiters. All of it is of
  waits that do not fail.
* `CheckInv`: who waits, waits in the array of the mutex it wants; `NotingInv` and `NotedInv`:
  `owner` and `fiber` of a mutex are right unless its owner has still to write them, and `fiber`
  only if it was taken with lock. A client that has still to write them is in no array,
  so no cycle contains it. `NoMissedDeadlock` then follows by an argument about the
  algorithm, for any order in which the table may list the owners: when it comes to the
  last owner of a cycle (`LastPlace`), the owner that one waits for has been visited.
* `BoxInv`. `ListInv`, `NoteInv`, `SoloInv`: who is in the list is inside wait, and is in the
  list, popped by one signal or signalled, one of these at a time for a thread without
  fibers. `TimerInv`: a timer is set exactly for a fiber in a hurry that sleeps.
  `RouseInv`: a sleeping fiber is in the list or somebody is about to wake it.
  `ObjectInv` counts: while somebody is in the list and nobody is in a hurry, there are at least
  as many clients on the way to pop, or about to announce an object, as objects.

The steps are first sorted into a few kinds (`MutexMove`, `BoxMove`: a client moves, takes,
pops, wakes, sends, ...), which forget what the invariants do not speak of; each
conjunct is then kept by each kind. `ImplementsLock` follows from who is inside and
from the fact that a step moves one client (`OneMoves`).

### The Redis client

`RedisClientProofs`, for any number of calls and connections
(`BoundsAssumption`: both are natural numbers):

| Theorem | Statement |
|---|---|
| `TypeCorrect` | `Spec => []TypeOK` |
| `NothingIsPending` | `Spec => []NothingPending` |
| `AnswersAreOwn` | `Spec => []AnswersMatch` |
| `RequestsCarriedOut` | `Spec => []CarriedOut` |

There are two inductive invariants:

* `MatchInv`: a connection not opened yet carries nothing (`OpenedInv`, which is why a new
  connection is clean), one that is open carries at most one request or one answer
  (`OneInv`), and while an answer is awaited that one belongs to the call (`OwnInv`).
  `NothingPending` is part of it and `AnswersMatch` follows.
* `CountInv` counts: how often the server has carried out a call, together with the
  connections on which it has still to (`Pending`), is at most the number of attempts the
  client has made (`Attempts`, at most two). Requests on connections that the client
  has given up long ago are counted, too; without them the invariant would not be
  inductive. `CauseInv` adds that an answer, under way or taken, was preceded by its
  execution.

### What is only model-checked

`RequestsAreServed`, `WaitersAreServed` and `FreeIsTaken`: liveness under fairness is outside
what the proof system can establish. The runs cover two connections, three fibers,
and two fibers with a thread. Starvation among three or more waiters of
`room_mutex_`, and unboundedly many requests, are not covered by the liveness runs.
Every invariant and every other action property of a passing run is a theorem.

Leaves marked `SMTT(30)` or `ZenonT(30)` only get more time, for slower machines.

## 8. Not modelled

Nearly all of the repository's lines are the acl framework, vendored with its samples and
the headers of other libraries; the programs of the repository itself are some two
thousand lines. The models cover what these programs do, and of the framework what they
run through where there is something to get wrong in an order of events. That is a
small share of the lines, and no model of these programs could make it a large one.

* **Packets and the byte stream.** What follows a torn or oversized packet is a read beyond
  a buffer, whose outcomes the source does not bound. What *can* be said of the stream
  without that, that a read may take several requests, is in `ChatServer`.
* **Several fibers on one `redis_client`.** The command object they share is cleared by one
  while another uses it: any answer is possible, and `ChatServer` lets Redis give any.
  `RedisClient` is of the case the library provides for.
* **AUTH, SELECT, SSL, cluster and pipeline of Redis.** None is used by the programs.
* **WinForms client.** It is the environment of the server. Its receiver tasks run on a
  thread pool and write to list boxes; what they show depends on how the
  pool schedules them, and the client promises nothing about it.
* **Echo servers and console client.** Each is one read and one write in a loop, with no
  state shared between connections.
* **MySQLServerAcl, HttpAcl.** Statements one after the other on a connection of their own,
  and handlers without state.
* **fiber_event with waits that fail.** `fbase_event_wait` may fail when its descriptor does or
  its fiber is killed. The entry then stays in the ring of waiters, and that of a
  thread without fibers is freed, twice (`fiber_event.c:172-187`): what follows is undefined.
* **Below the scheduler.** The switch of stacks, the epoll and poll engines, the hooks of
  system calls and the lock-free parts of `mbox` are taken to do what their callers
  rely on.

## 9. Running

    tlc -workers 2 -config ChatServer_any_accounts.cfg ChatServerMC
    tlc -workers 2 -config LocalObjects.cfg LocalObjects
    tlc -workers 2 -config SharedObjects.cfg SharedObjectsMC
    tlc -workers 2 -config RedisClient.cfg RedisClient
    tlapm ChatServerProofs.tla
    tlapm ChatRoomsProofs.tla
    tlapm ChatMutexProofs.tla
    tlapm ChatMemberProofs.tla
    tlapm QueueTheorems.tla
    tlapm LocalObjectsProofs.tla
    tlapm SharedObjectsProofs.tla
    tlapm RedisClientProofs.tla

The passing runs have up to 2.3 million distinct states and take at most two and a
half minutes each; the violations are found within seconds; the proofs of
`SharedObjectsProofs` take about ten minutes and the others together about as long.
Definitions marked `mutant` are plausible mistakes in the
definition that follows them: with the mutant in its place the property that
`PROJECT.json` names next to it is violated, which shows that the property
depends on the code.
