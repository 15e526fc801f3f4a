# A TLA+ model of the shcxx common library

shcxx (`ZQ::common`) is a C++ library of threads, locks, timers, caches,
sockets and service frameworks. There is no one program to model: the library
is a set of components, and each is used by many threads of an application at
once. This directory models the components whose correctness depends on the
order in which threads act, one module (and its proofs) for each, and says what
remains.

All references are to the repository at the commit these files were written
for; `PROJECT.json` maps each definition to its lines. Where the code differs by
platform, the Linux build is modelled (`CMakeLists.txt`, `Makefile.am`).

Run a model with `tlc -config X.cfg M`, check a proof with `tlapm M.tla`.


## Inventory

| component | state it keeps | operations | what is hard | what makes it correct |
|---|---|---|---|---|
| **NativeThreadPool** (`NativeThreadPool.*`) | priority queue, semaphore, slave threads, `_running`, `_activeCount` | `start`, `resize`, `clearRequests`, `stop`; the slaves' loop | half of the accesses are outside of the lock; resizing is done by requests in the pool's own queue; objects delete each other | no lost wakeup; each request has one owner and one `final()`; a slave is deleted once and after its thread; `stop()` and `resize()` end |
| **NativeThread** (`NativeThread.*`) | pthread, status | start, `run`, `final`, `terminate` (join) | status read by others without a lock | joined before it is freed |
| **rwlock** (`rwlock_Linux.cpp`) | count mutex, data semaphore, reader count | lock and unlock for reading and writing, with time-outs; probes | time-outs halfway, a lock held while waiting for another | exclusion; nothing lost by a time-out or a probe |
| **Evictor** (`Evictor.*`, `RedisEvictor`) | cache, recency list, queue of modified items, stream of saves, item states, the store | `add`, `remove`, `locate`, `setDirty`, `poll` | the store is written long after the operation, without locks held; two kinds of mutex; reference counts decide on eviction | nothing written is forgotten; clean means stored; cache and recency list agree; no eviction under a user |
| **Scheduler**, **PollingTimer** | task list with holes, timers, a semaphore, the poller's scan | `startWait`, `clearTask`, destruction, the poller | timers are set without the lock; the poller sleeps on a time computed earlier | a task starts once per booking, on time, and not after it is gone |
| **RedisClient** (`RedisClient.*`, over `TCPSocket.cpp`) | queues to send and to receive, reply under way, socket | `sendCommand`, `OnConnected`, `OnDataArrived`, `OnError`, time-out of synchronous calls | replies matched by position; time-outs; reconnection | a reply reaches the command it answers; each command ends once |
| **LIPC** (`eloop/LIPC.*`, over `UnixSocket.cpp`) | requests awaiting an answer, sequence number, connection | `sendRequest`, `poll`, `OnMessage`, `OnConnectionClosed` | expiry against late answers, calls from other threads, wrap of the number | each request is reported done once |
| **LRUMap** | three maps, a stamp that wraps | `operator[]`, `erase`, `erase_eldest`, `resize` | limits | the maps agree; the eldest goes |
| **BufferPool** | free list, allocated buffers, limits | `initialize`, `reserve`, `allocate`, `release` | limits shared by two lists | no buffer is handed out twice |
| **Locks** (`Locks.h`, `Semaphore.cpp`) | wrappers; `RWLock` has queues of its own | | posts outside of the lock | exclusion |
| **SingleObject/Event**, **Pointer** | a semaphore; a reference count | wait, signal; inc, dec | | single atomic operations |
| **SyncUtil**, **TimeoutContainer**, **DirConsumer**, **FtTcpComm**, **SharedMemory** | | | Windows only | |
| **TCPSocket**, **UDP**, **RTSPClient**, **HttpClient**, **libasync**, **eloop** wrappers | sockets, requests | | I/O and its errors | |
| **HttpEngine**, **ServiceFrame**, **DataPostHouse**, **RuleEngine** | | | frameworks around the above | |
| **Log**, **FileLog**, configuration, formats | files, text | | none | |

The components meet in few places. The **Scheduler** runs its poller as a
request on a **NativeThreadPool** and starts tasks there. **RedisEvictor** gives
the **Evictor** its store through a **RedisClient**, whose callbacks run on a
thread pool too. Everything rests on the mutex and the counting semaphore of
**Locks**, which the modules take as POSIX gives them. The mutex of the library
is recursive; no modelled path enters one twice, except that `start()` of a due
task, called under the scheduler's mutex, takes the pool's.

Vendored code (`eloop/libuv_1.20.3`, `eloop/json`, `http_parser.cpp`, `libbz`,
`getopt`) is not considered.

`PROJECT.json` lists under "hazards" what can go wrong in this code and a test
would hardly reach, each at its line, with the properties that look for it.


## Modules

| module | what it is |
|---|---|
| `NativeThreadPool` | the thread pool, step by step |
| `RequestLifecycle` | what a pool promises for a request; `NativeThreadPool` implements it |
| `NativeThreadPoolProofs` | no lost wakeup, an empty queue after `stop()`; one owner and one `final()` for a request, the exact `_activeCount`, the most urgent first; for careful callers the life of each thread and the refinement |
| `XRWLock` | `rwlock_Linux.cpp` |
| `XRWLockProofs` | mutual exclusion and the exactness of the counts, for any number of threads |
| `Evictor` | the write-behind cache and its store |
| `PromisedMap` | what the evictor promises: a map that forgets nothing; `Evictor` implements it when calls do not overlap |
| `EvictorProofs` | types and bounds; cache and recency list agree, nothing in use is evicted |
| `EvictorQueueProofs` | a dirty object stays queued; for calls one at a time, clean means stored, and the refinement of `PromisedMap` |
| `Scheduler` | tasks, timers and the poller |
| `SchedulerProofs` | types and bounds, one start per booking, no dangling entry, no oversleeping |
| `LIPC` | requests over a unix pipe: the client, its socket, the service |
| `LIPCProofs` | types; each request is reported once, and done only with the answer to it |
| `RedisClient` | pipelined commands over one connection, and the threads that dispatch its events |
| `RedisClientProofs` | types; each command is told its end once; a reply is the command's own; nothing waits to be sent with no connection coming |
| `DataLemmas` | least and largest numbers, the existence of recursive functions, the elements of a sequence: for the proofs of `LIPC`, `RedisClient` and `Evictor` |
| `MCNativeThreadPool`, `MCEvictor` | definitions that instantiate these two for TLC; `XRWLock`, `Scheduler`, `LIPC` and `RedisClient` are run as they are |

### How a thread of the code becomes actions

A critical section is one action where nothing inside of it can block; the
mutex is then no variable. Where the code waits for a second lock, joins a thread
or sleeps inside, the section is split there, and a predicate read off the
program counters (`PoolFree`, `EvictorLocked`, `ItemLocked`, `TaskMutexFree`)
says who is kept out. Every access the code makes **without** a lock to
something another thread changes is a step of its own: `_requests.empty()` and
`_bQuit` in the slave's loop, the first test of `_running` in `pushRequest()`,
the `post()` after it, the three assignments of `setTimer()`. Locals of a call are
kept in a record or in variables of their own for as long as the call lasts.

### NativeThreadPool

A slave moves through `pc`: `initial` (thread created, not past
`sem_wait(_suspend)`), `check` and `wait` (lines 132-138), `dequeue` (the critical
section 140-161), `fetched`, `init`, `run`, `final`, `leave`, and `disabled`.
A request moves through `call` (`admit`, `post`, `returned` or `refused`) and
`status`. `resize()` and `stop()` are one call each at a time. A StopRequest quits
the slave that runs it and starts a CleanRequest, which waits until that slave has
no request, joins and deletes it and erases its pointer. The reposting at the head of
the critical section (`getValue()`, then `post()` in a loop, 144-150) is one step with the
rest of it, though others wait and post without the mutex. Priorities are the
order of `HighPerfPriority_Queue`: the more urgent before, equal ones in order of
arrival.

`CallerRules` is what an application has to take care of. The code states and
enforces none of it, so each rule is a constant that a run can leave out:

- `startedBeforeStop`: `stop()` only when each slave's thread has entered `run()`;
- `settledBeforeStop`, `settledBeforeResize`, `settledBeforeClear`: the call is
  made only when an earlier shrink is finished.

`NoLostWakeup`, `FinalOnce` and the theorems about requests and their queue need none
of them. Those about threads and the refinement need the first three, `Careful` in
`NativeThreadPoolProofs`.

### RequestLifecycle

A request is new, pending, taken, done, cancelled or refused. While the pool is
open a request can be submitted; afterwards it is refused. What is taken is
finished or given up by its taker, what is pending may be dropped, and the pool
is closed only when nothing is outstanding. The refinement is `Life` in
`NativeThreadPool`, checked as the property `ImplementsLifecycle`.

### XRWLock

A thread is `idle`, waits for `data_lock` as the first reader (`readWait`,
`count_lock` held) or as a writer, reads, writes, or is in a probe. `last` and
`ret` are its last finished call and the result. Time-outs may happen at any
moment of a wait. Threads unlock only what a call of theirs has locked. That is a rule
for callers: the functions do not check it, and `RWLockGuard` keeps to it only as long as
its locks succeed. `lockRead()` and `lockWrite()` return nothing and leave the result to an
`assert()` (`rwlock.h:172-191`), so with `NDEBUG` a guard whose lock timed out goes on
and unlocks what another thread holds. Such a guard is not modelled.

### Evictor

`item[i]` is an `Item` object: ident, state, servant's content, completed, orphan.
A servant's content is the number of the write that made it, so a lost write
shows. Items are allocated when nothing points to them, which is what the
reference count says. `call[c]` is the operation a caller is in; `poll` holds the
locals of `poll()` (its batch and the lists of dead, flushed and requeued items).
The phases of `poll()` follow the code: pop a batch, one ident of the queue at a
step with `_lkEvictor` held (`PollBegins`, `PopModified`, `PopDone`), stream each
item under its own lock (`StreamItem`) and push the stream under `_lkEvictor`
(`PushStreamed`), put back what is incomplete, take a batch of streams and save
it (`TakeStreamed`, `SaveOne`, `SaveReturns`), and in a last critical section
evict the dead, mark the flushed as clean and evict by size. `Item::_pos`, the
iterator by which an item leaves the recency list, is what `Without` looks up.

An application holds the servant that `locate()` gave it. What counts for the eviction is
the reference count of the servant the Item has *now* (`Evictor.h:150`), so `held` is the
Item only as long as the servant is still the Item's: `Replaced` takes it from every holder
when an `add()` puts in another or a `remove()` takes it out. From then on the Item may be
evicted, and what the holder changes (`ChangeServant`) is an object nobody will save; its
`setDirty()` marks whatever the Item holds then.

`Faults` says what may fail: loading, unmarshalling, marshalling, saving one
command of a batch. `CallerRules`: `serialised` (operations and `poll()` one at a
time) and `onePerIdent` (no two callers on one ident, from the call to the release of the
servant).

### PromisedMap

The header's promise: `add` puts, `remove` erases, `setDirty` records a change,
and nothing else does, whatever is cached, queued or stored meanwhile. In the
refinement (`Promise`) the value of an ident is what the store will hold of it
in the end: that of the item an operation is about to queue, else of the item on the
queue, in the batch, or streamed and not yet saved, else that of the store. It
holds when calls do not overlap, and that is what `evictor_sequential` checks.

### Scheduler

Time is a count of ticks; a timer holds the time that is left. The three
constants of `Scheduler.cpp` are scaled from 10000, 10 and 1000 msec to 4, 1 and 2, and
the wrapped sleep (below) from 1110 to 3, which keeps the order that the code's comparisons
see: prestart < update limit < wrapped sleep < longest sleep, waits below and above the
first two. `startWait()` is `StartWait`,
`TimerIsNow`, `StopTimer`, `IncTimer`, `BookTask`. The poller's scan takes one
step per entry with `_taskMutex` held; timers run, and are set, meanwhile. `incTimer()`
writes the timer in two parts before it sets `_active`, by which `getTimer()` looks at it:
one step here. A `getTimer()` that found `_active` set before `StopTimer` and reads the
timer after it is not modelled.

`SleepOf` is what becomes of the sleep (289-309). A listed task whose timer is stopped, as
`startWait()` moves it, makes the sleep -1. That is a moment in the past, and
`sem_timedwait()` returns at once, but for one millisecond in a thousand: the -1 is added to
`tb.millitm`, an unsigned short, which at zero wraps round to 65535. The time is then 1
second and 64535 msec by the tests that follow; times 1000000 that overflows an `int` to
110 msec in a build that wraps, for a sleep of 1.11 seconds (`WRAPPED_SLEEP`), or is a
`tv_nsec` that `sem_timedwait()` refuses, for no sleep. The model takes either.
`lag`
is history: the ticks between the poller's look at the clock and its sleep, by
which it may be late; they are counted up to `MaxLag`.

### LIPC

A `Call` is one `sendRequest()` that expects an answer. `pc` follows it through
`lastCSeq()` (`Number`, and at the wrap `NumberLocked`, `ResetNumber`,
`NumberRestarted` with the mutex `wrapLock`), the insertion in `_awaits`
(`Insert`), the look at `_conn` (`CheckConn`), the send and what a failure of it
does (`AsyncSend`, `SendFailed`, `EraseFailed`). The calls are made by threads
outside of the event loop, so each access to `_awaits`, `_conn` and `_lastCSeq` is
a step. `awaits` is the set of calls in `_awaits`, `due` those whose time is up,
and `num` gives the keys: a second call with the same number finds the first
one's entry. `OthersCall` stands for the requests that came and went, which let
the number come round; it is bounded by the assumption that 2^28 requests do not
fit into the life of one.

The loop's handlers are one action each: `Poll` (expiry, reconnection),
`OnConnected`, `ConnectFailed`, `ClientWakedUp` (the waker, up to `SendBurst`
messages), `ClientWrote` (one more for each write that ends; if its `send()` fails, nobody
looks, the message is lost and no further write follows), `ClientRead`, and the
errors, all of which end in `Disconnect`. A read brings any number of whole
messages and maybe the head of another (`Chunk`). `onError()` comes down to
`disconnect()`, and so does the model. The service keeps a connection's
requests and answers (`up`, `sout`, `down`), reads (`ServerRead`), answers at any time
(`SendResp`), stops, or crashes.

`_conn` may be deleted by the loop while another thread has just read it. The
model lets that thread's `AsyncSend()` fail or believe it succeeded. `answers`,
`wanted` and `failed` are history, and so is `stalled`: the last write under way was followed
by a send that failed. `Faults` names what may happen: a refused
connection, a crash or a stop of the service, a split message, a failing send,
`disconnect()` by the application.

### RedisClient

A command moves through `pc`: `sendCommand()` is two critical sections,
`SendCommand` (queue it, or open the connection) and `SendLine` (send it), with the
lock released between, then `Wait`. `Pend` puts a command into
`_commandQueueToSend` and lets the expired ones, or the ones too many, out at its
front. `state`, `so`, `link` and `watched` are the socket, what the kernel knows of
it, and whether the watchdog looks at it.

A dispatcher is a thread of the watchdog's pool. `Dispatch` is what the watchdog
found; the handler runs later, maybe when the connection is another already. A refused
connection passes for a good one (`LooksGood`) when another dispatcher has read its error,
which clears it:
`Connected` and `Flush`, `FlushNext`, `Flushed` for `OnConnected()` (which keeps
`_lockCommandQueue` over all of its sends), `OnDataArrived`, then `OnReply` for the
completed commands with the lock free, and `OnError`. What
a server answers is a sequence of units, a line's text or its CR or LF, which a
`recv()` may cut; `Scan` is the parser's loop as a fold over the units in the
buffer, with its early ends and with the pointer that passes the end. `Disconnect` cancels
everything and reports it through `RedisErrCmd`, which runs in the pool (`RunErr`).

`Faults` adds, one by one, what the environment does (refused, unreachable or
dropped connections, failing sends, sends in part, expiry, `disconnect()`) and three
places where the code depends on luck: a read that ends inside of a CR LF, an
event that overtakes `OnConnected()`, and a stale `errno` at the end of a stream.


## Runs

Every passing run explores its state space completely. Bounds are constants of
the modules: how many slaves, requests, callers, items, tasks and calls.

| run | what it asks | bounds |
|---|---|---|
| `pool` | a careful caller resizes, clears and stops the pool at any moment: one owner per request, `_activeCount` exact, the most urgent first, slaves deleted once and dead, requests refine `RequestLifecycle`; requests end, `stop()` and `resize()` return, the pool comes to the size asked for | 3 slaves of which 2 at first, 1 request of the application, 1 StopRequest, a CleanRequest per slave, 1 `resize()` to the least (1) or the most (3) |
| `pool_careless` | none of the rules: no lost wakeup, one `final()` | the same with 2 `resize()` (to 2 or 3) and 2 StopRequests |
| `xrwlock` | exclusion, exact counts, nothing lost, no unlock that fails; `count_lock` is let go of again | 3 threads, calls without end |
| `evictor_sequential` | calls one at a time: clean means stored; refinement of `PromisedMap`; what is written is saved in the end | 2 idents, evictor of size 1, batch of 1, 4 operations, 4 items alive; 213,038 states |
| `evictor_queue` | two callers on different idents, all faults: every dirty item is in the queue or with `poll()` | 2 idents, 3 operations, 5 items alive; 3.3 million states |
| `evictor_cache` | two callers on any idents, incomplete objects, all faults: cache and recency list agree, no eviction under the holder of an Item's servant | 2 idents, 3 operations, 5 items alive; 8.0 million states |
| `scheduler` | tasks booked, booked again, cleared and destroyed: one start per booking, no dangling entry, no oversleeping, each booked task started | 2 tasks, 3 calls of `startWait()` with 0 or 3 ticks, time without end; 649 thousand states |
| `lipc` | two requests, all faults: each reported once by the loop, an answer goes to its own request, every request is reported in the end, and what is queued leaves unless a send fails in `OnWrote()` | 2 calls, numbers below 4, 1 message per wakeup, 2 connections; 322,843 states |
| `redis` | a GET and a DEL, connections that fail, commands that expire: `OnReply()` comes with the command's own reply, and every command is told its end | 2 commands, 2 dispatchers, 2 pending, the first failed send disconnects, 3 connections; 69 thousand states |
| `redis_faults` | all faults: a command is told its end once, none waits to be sent while no connection is coming | the same, the second failed send disconnects; 1.3 million states |

The bounds are small because the hazards need few actors: a race needs two, a
shrink needs a slave more than the least, an order of priorities needs two
requests (the application's against the pool's own), a lost
update one writer against one `poll()`. A second booking or operation is there
so that what the first leaves behind is met by the next one. Three slaves, two
tasks, two callers and two idents let every pair meet; what holds for
any number, as far as it is proved, is below.

The numbers of `lipc` come round at four: two calls take all that are free before the
reset, so that a call meets the number of another. One message per wakeup makes the
second one depend on `OnWrote()`. In `redis` three connections let a command meet a
socket that is neither the one it was queued for nor the one that replaced it, and two
dispatchers let an event of one connection be handled on the next.

Deadlock is checked except where the code really stops: in `pool_careless`
(`resize()` joins a slave with the lock held), in the concurrent evictor runs
(operations against `poll()`, the finding of `evictor_deadlock`), and in `lipc`,
`redis` and `redis_faults`, where all calls have been made and answered. The `pool`
run ends in `Terminated`, `evictor_sequential` in `Finished`, which
stutter. The symmetry used in some runs permutes slaves, StopRequests, callers or
idents, in runs of invariants only.

### Where code and documentation disagree

These runs check one property each and TLC shows it violated; `PROJECT.json`
quotes the lines.

| run | what happens |
|---|---|
| `evictor_lostupdate` | an object removed while its stream is saved ends as clean, and stored |
| `evictor_deadlock` | an Item and `_lkEvictor` are locked in both orders, and `poll()` does not come back |

`evictor_lostupdate` takes one caller and one ident, `evictor_deadlock` one caller with two
operations. The two mutexes meet in two ways, and TLC shows whichever it finds first:

- the last phase of `poll()` locks `_lkEvictor` (`Evictor.cpp:526`) and then the Items it evicts
  (534) or marks clean (561), while `add()`, `remove()` and `locate()` hold an Item (196, 270,
  335) when they wait for `_lkEvictor` (209, 232, 244, 280, 311, 345). No `setDirty()` is
  needed: an object is written, `poll()` saves it, and a second operation on it comes between
  that and the flush;
- `setDirty()` locks `_lkEvictor` and then the Item (366-367), while `poll()` holds the Item
  it streams (421) when it waits for `_lkEvictor` (467).

### Other things met while modelling

They follow from a rule that is left out, from a fault that is put in, or from one
step of the model, and have no run of their own.

The pool:

- Without `startedBeforeStop`, `pool` violates `DeletedOnceDead`: `stop()` soon after
  the constructor finds threads that do not report `stRunning` yet, joins nothing
  (`NativeThread.cpp:426-468`) and deletes the objects those threads then run on.
- Without `settledBeforeStop` it violates it as well: CleanRequest deletes a slave
  before it erases the pointer (`NativeThreadPool.cpp:277`), and `stop()` deletes it again.
  And a growing `resize()` that `stop()` overtakes joins, with the lock held, a
  thread that nobody tells to quit (435).
- Without `settledBeforeResize`, two shrinks in a row stop slaves twice over, as the
  second one counts those that were told to stop already (439).
- `start()` answers true for a request that `pushRequest()` refused (248), whose
  `final()` never comes.

The lock and the evictor:

- `rwlock_unlock_write()` answers what `sem_post()` answers, 0 for success
  (`rwlock_Linux.cpp:182`), where `XRWLock` asserts a true result (`rwlock.h:197`).
- `evictor_queue` without `onePerIdent`, and also with `CompletedOnly`, violates
  `DirtyIsQueued`: an orphan, or an item put back as incomplete, takes the place of
  the cached item in `_modifiedMap` (`Evictor.cpp:590`).
- `add()` of an object the store does not know leaves the item out of the cache
  (182): until it is saved, `locate()` does not find it.
- An `add()` of an object that another caller has located leaves that caller with a servant
  that is nobody's: what it changes is not saved, and the count of users no longer includes
  it (204, 697-700).
- `setDirty(ident, true)` on an item that is not clean does not record the flag (367).

The scheduler:

- A sleep that wrapped round (`SleepOf`) passes by the other listed tasks, until the
  `startWait()` that stopped the timer posts the semaphore: without this exception,
  `~(\E t \in Task : Moved(t))`, TLC finds `SleepsNoLonger` violated.
- A task that is moved may start at once, as its timer reads "now" for a moment
  (`PollingTimer.cpp:171`, `Scheduler.h:194`).
- A timer is never ended but by the task's destructor, so `startWait()` refuses a
  task that was once started (`Scheduler.cpp:546`).

LIPC:

- A request can be reported twice, when a closed connection reports it and
  `sendRequest()` then reports CLIENT_ERROR (`LIPC.cpp:793`). `ReportedOnce` is about
  the three that go by `_awaits`; `failed` is kept apart from `done` for this reason.
- After an error there is no reconnection: `onError()` calls `disconnect()`, which
  clears `_peerPipeName` (`LIPC.cpp:888`, 619), kept "for reconnect" by `LIPC.h:315`.
- A message that comes in two reads is refused, and the connection dropped, unless
  the second read holds the start of another (`UnixSocket.cpp:316-332`).
- `PassiveConn::OnWrote()` (`LIPC.cpp:328`) hides the one that sends on: answers beyond
  the 1000 of one wakeup stay until the next `sendResp()`. `PassiveConn::OnClose()`
  is called by nobody, so `_clients` never shrinks.
- A `send()` that fails in `OnWrote()` loses its message and ends the chain that empties the
  queue (`UnixSocket.cpp:91-102`): the rest waits for the next request or the end of the
  connection. `OutgoingLeaves` makes this exception (`stalled`), and `QueuedIsDriven` shows
  that there is no other. The requests are reported in the end, as expired.
- At the wrap the number is set by `AtomicInt::set()`, which `Pointer.h:88` wants
  used at the start only.

RedisClient:

- `redis` with the fault "partial" violates `ReplyIsOwn`: a command sent in part is
  given up (`RedisClient.cpp:651`) and the server's answer to it goes to the next.
  "crlf" breaks it too (1006: a line whose LF is yet to come is parsed twice), and
  "overtaken" (705: `_inCommingByteSeen` is reset without the lock).
- With "errno", the end of a stream is taken for no data (807: `recv()` returned 0
  and left `errno` alone).
- A DEL expects a status line and gets an integer: the loop over the buffer ends there
  (993, 1077), and a reply behind it waits until more data come. `EventuallyReported`
  makes this exception, and no other.
- A cancelled synchronous GET or DEL returns `rdeNil` or `rdeOK` (129-136): a caller cannot
  tell it from a missing key, and the evictor's `loadFromStore()` says "not found".
- `connect()` that fails at once counts as connected, without the watchdog
  (`TCPSocket.cpp:1168-1188`); only the sends that fail on it put an end to it.


## Fairness

- *Pool*: each slave, each call of `pushRequest()`, `resize()` and `stop()` that
  was begun goes on (weak fairness for each of them): the operating system schedules
  threads, and the application's `run()` returns. No fairness is asked of the
  semaphore: which of several waiting slaves gets a count is open, and a slave that
  never gets one while others do is allowed. Nobody is obliged to call anything.
- *XRWLock*: a wait for `data_lock` ends in a grant or in its time-out. Holders
  need not unlock: `CountLockFreed` holds even then.
- *Evictor*: the thread that polls goes on (`Evictor.h:197-199`: "the evictor relies
  on a thread to to evict/flush data"), and so does a call once begun.
- *Scheduler*: the poller has its slave of the pool (`Scheduler.cpp:393`), a call once
  begun goes on, and time does.
- *LIPC*: a call once begun goes on, its time passes, the timer that calls `poll()` and
  the waker of the socket fire, and writes end (weak fairness). A connection that can be made again and
  again is made at some time (strong fairness of `OnConnected`; an attempt may be given
  up by `poll()` before). Nothing is asked of the service, which need not answer, and
  nothing obliges anybody to connect.
- *RedisClient*: as long as a caller past its first critical section, a report, a
  dispatcher, the server or a connection attempt has something to do, one of them does
  it. Each has only finitely many steps to take in a run, so a weaker demand on each
  alone would say no more.


## Proofs

For every value of the constants, by TLAPS. Each proof of an invariant has the shape
Init => IInv, IInv /\ [Next]_vars => IInv', IInv => Inv, with one step per action. The
type invariant of every module is among what is proved. Hypotheses beyond the modules'
named assumptions are in the head of the theorem (`ASSUME ... PROVE`), and are those
of the run that checks the property; without them TLC finds it violated.

### NativeThreadPool

From `PoolAssumption` alone: any number of slaves and requests, any priorities, any
sizes passed to `resize()`, any caller.

- `TypeCorrect`, `NoWakeupLost`, `StopEmptiesQueue`. `NoLostWakeup` says that a request
  in the queue comes with a count of the semaphore, a `post()` that is about to happen,
  or a slave that will look at the queue before it sleeps. It is not inductive: a slave
  that takes a count must be one that goes on to look, which fails when it was told to
  quit. `QuitLeaves` (a StopRequest quits the slave that runs it, so that slave is not
  in the wait) and `StoppedIsEmpty` (when `stop()` quits slaves in the wait, the queue is
  empty for good, since `pushRequest()` tests `_running` again under the lock) close this
  gap; `HasRequest` gives the types of the actions that use `_pReq`.
- `RequestHasOneOwner`, `FinalisedOnce`, `ActiveCountIsExact`, `MostUrgentFirst`.
  `Ownership` is inductive: the queue holds nothing twice, a queued request is with
  nobody and not finalised, what a slave holds no other slave holds and is not finalised
  before its last step, and nothing happens to a request that was not accepted. That
  the queue is `Sorted` gives the order; it survives removals from the middle and the
  insertion behind the equally urgent.

For callers who are `Careful`, three of the four rules of `CallerRules`:

- `SlaveDeletedOnceDead`, `RunningRequestHasThread`. `Threads` is an account of each
  thread. What a slave object is pointed to by is `_SThrPool`, the list `stop()` joins, or
  a `resize()` that has started it (`Accounted`); a CleanRequest exists only for a slave
  that quits by itself (`CleansOwn`), and is the one that deletes it (`Deletions`); a slave
  at the head of its loop holds nothing unless it popped it before it was told to quit
  (`HandsEmpty`); and `stop()` and `resize()` exclude each other (`Orderly`).
  `startedBeforeStop` gives that `stop()` finds threads to join, `settledBeforeStop` that no
  CleanRequest outlives the slaves `stop()` deletes. `settledBeforeResize` is needed even with
  one `resize()` at a time: a thread that a growing `resize()` has started serves the queue
  before it is put into `_SThrPool`, so a StopRequest of an earlier shrink could delete
  it first. `settledBeforeClear` is needed for liveness only.
- `PoolImplementsLifecycle`: the refinement of `RequestLifecycle`, step by step. An action
  moves some requests from one stage of life to the next (`clearRequests()` and `stop()`
  several at once), closes the pool, or changes no stage. That the pool closes
  only when nothing is taken is `Threads` again: a slave that has a request has a thread,
  and `stop()` joins all of them.

### XRWLock

`MutualExclusion`, `DataLockNotLost`, `ReadCountCorrect`, `TypeCorrect`,
`UnlockReadWorks`, from `ThreadAssumption` (finitely many threads). The inductive
invariant adds `OwnerWaits` (`count_lock` is held over a wait exactly by a first reader,
and nobody reads then) and `HolderAlone`; the proof counts with the cardinality theorems of
the library, through the lemmas `CountAdd`, `CountRemove`, `CountOne`. A reader that unlocks
finds a positive count.

### Evictor

For any number of idents, callers and items, any sizes of cache and batch.

- `TypeCorrect`: the bound on the writes is that an operation writes once (`Writers` are
  those that still may).
- `ListAgreesWithCache`, `LocatedIsNotEvicted`: any faults, no rule for callers. The second is
  about holders of the servant an Item has now, up to the `add()` or `remove()` that takes it out.
  `CacheInv` says that list and cache name the same idents (`ListMatchesCache`), that a
  cached Item is one of that ident (`CachedAreNamed`), that dead Items are empty, and that
  the calls under way hold Items of their ident that are cached unless `add()` made
  them, a located one with its servant (`CallsOK`); `QueueTypes` says that what is
  queued or in `poll()`'s lists has an ident.
- `DirtyStaysQueued`: any faults, under `ApartByRule` (either rule for callers) and without
  `CompletedOnly`. `QueueInv` adds `CallersApart` (no two callers on an ident, each on the cached
  Item), `ListsWorkedOff` and `StreamedIsFlushed` (what `poll()` has streamed is among the
  flushed), and strengthens `DirtyIsQueued` to say in whose hands the Item is.
- `CleanIsWhatIsStored`: under `Sequential`, calls one at a time and no faults. What an Item's
  status says of the store (`StatusIsTrue`) holds only because each ident has one Item that is not yet
  stored, and one place where it is: the queue (`QueueOwns`), the batch (`BatchOwns`), or
  handled and on its way in a stream (`HandledIsSaved`, `StreamsAgree`). `poll()` comes back
  with its lists empty (`Phases`), and `CallsAreTrue` says what an operation under way has seen.
- `EvictorImplementsMap`: the refinement of `PromisedMap`, under `Sequential`.
  `PromiseRule` says of each ident where its promised value is found: with the caller about to
  queue it, else in the queue, else in the batch, else in a stream, else in the store.
  Each step of `poll()` takes it from one place to the next and leaves the value
  (`PollKeepsPromise`). A caller's step is, for its ident, a beginning, a put, an erasure, a touch or
  an end, and nothing for the others (`EffectAt`, `AbstractStep`).

### Scheduler

`TypeCorrect`, `PointersAreGood`, `StartedOncePerBooking`, `PollerDoesNotOversleep`, for any
tasks and any values of the three constants. The middle two rest on the types and on
`ListedOnce`; `StartsAreBooked` counts starts, list entries and calls under way against
bookings. For the last, `Covered` says that the sleep being computed ends with the timers of
the entries passed so far (`Scanned`), and of all entries once the scan is over (`Decided`,
`Sleeping`), up to `lag` and unless the semaphore has a count. The sleep of -1, which may wrap
round, is met by `Stopped`: only `startWait()` stops the timer of a listed task (`TimersRun`),
so whoever read the -1, in the scan (`ReadOfMoved`) or from it (`MoverWakes`), did it while
such a task is being moved, and that ends with a `post()`. `Bounds` gives the numbers of the
type invariant, -1 among them.

### LIPC

Any faults, any numbers of calls and of connections, any `MaxCSeq` that the assumptions
admit.

- `QueuedIsDriven`: a message in the client's queue has a waker that is yet to fire or a write
  under way, unless a send failed in `OnWrote()`. It is the safety half of `OutgoingLeaves`,
  and says that its exception is the only one.
- `TypeCorrect`, and `RequestReportedOnce`: what is awaited was not reported
  (`Unreported`), and each of the three reports erases what it reports in the same step.
- `InsertAdds`, `AnswersAreOwn`. `Numbers` is the argument that numbers which come round do
  no harm. In `FirstRound`, before the counter is reset, the numbers in use are the last ones
  given, and the counter has not passed them by more than the calls begun since; in
  `SecondRound` there is room between the counter and the numbers of the first round for
  every call that has none yet; the reset is made by one call at a time (`WrapLocked`). So no
  two requests that can still meet have one number (`Distinct`), and what a number finds in
  `_awaits` is its own. `Traces` says that what is on its way was sent, and that connections
  to come carry nothing. `FewCallsAssumption` is what this needs: fewer calls than numbers.

### RedisClient

Any commands and dispatchers; any faults, but for the last theorem.

- `TypeCorrect`, `PendingHasConnection`; for the second the relation of `so` and `state` is
  the strengthening (`Basic`): a connection that is being made has a socket.
- `CommandReportedOnce`. Being in a queue or with a dispatcher, once and in one place only
  (`OnePlace`), or not having been queued yet, is what gives the right to be reported (`Owed`).
  `Fail` reports a whole sequence, so it must name nothing twice, and the parser must
  complete commands from the front of `_commandQueueToReceive` only: `done \o q` stays what
  it was (`InOrder`).
- `RepliesAreOwn`, for any faults but three (`Lucky`): a command sent in part, a read that
  ends between a `'\r'` and its `'\n'`, an event that overtakes `OnConnected()`. With any one
  of them added to `redis.cfg` TLC finds a reply taken for another command, so none of the
  exceptions can be left out.
  - The strengthening (`OwnInv`) is about the whole way of a reply. `_commandQueueToReceive`
    is `a \o z`: the buffer and what is on its way down are, unit for unit, the answers to
    `a` that are still to be read (`Coming`), and what is on its way up is `z` (`InStep`). A
    connection begins with nothing (`BeginsClean`); a command has as many lines as have been
    read of it (`LinesRead`).
  - `Answers` cuts the stream by the ends of the answers, so that no recursion is needed:
    `FirstAnswer` and `LastAnswer` take one off and put one on, `NextLine` says what the
    parser finds next.
  - `TakeReads` is one unit of the parser's loop: what it keeps and what is behind it are
    what is still to be read, whatever of it a read brought. `ScanReads` is the loop, by
    induction over the units of the buffer, up to an end that is not behind a `'\r'`.
  - `OnePlace` and `Owed` of the proof before are needed once more: a command that waits has
    not been completed, so the lines of no other reply are touched.

What the parser computes is a recursive function of the units read. `DataLemmas` has the
induction that this, and the least index of a sequence, need: a set of numbers has a
least element, by the well-foundedness of `<` in a form that takes a set and no
operator.

### What TLC alone checks

- all liveness: fairness and ENABLED are beyond the prover;
- that the rules of `Careful`, `ApartByRule` and `Sequential` cannot be left out.


## Not modelled

- `LRUMap`, `BufferPool`, `RWLock` of `Locks.h`: next in the plan.
- Most of the repository by size is not a candidate: vendored code (`libuv`, jsoncpp,
  `http_parser`), Windows halves of all components, `SyncUtil`, `TimeoutContainer`,
  `DirConsumer`, wrappers that pass calls on.
- Sockets, HTTP, RTSP, `libasync`, the frameworks: their control is I/O and its errors.
- Logging, configuration, text and number formats: no state that lasts.
- Within LIPC: notifications, descriptors that are passed along, batched requests,
  the synchronous send from within the loop.
- Within RedisClient: a full buffer (`RedisClient.cpp:798-803`), the length of a bulk, multi-bulk and
  error replies, exceptions in `OnConnected()`, the callbacks of asynchronous commands.
- Within the modelled components: busy-time statistics of the pool, exceptions out of
  the application's `run()` and `final()`, failure to create a thread, allocation
  failures, a semaphore's overflow, interrupted waits (`EINTR`) other than where the
  code loops, changes of the system's clock under the scheduler.


## Plan

Done: the pool, the lock, the evictor, the scheduler, LIPC, RedisClient, and the
theorems above.

1. `LRUMap` and `BufferPool`: sequential containers; an abstract recency list and an
   abstract set of buffers that they implement; their invariants proved.
2. `Scheduler` on `NativeThreadPool`: the poller as a request that occupies a slave,
   tasks destroyed while on the pool's queue, shutdown in either order.
3. The evictor's store over `RedisClient`, with what a cancelled command returns.
4. `RWLock` of `Locks.h`.
5. Proofs: the modules to come.
