# PlayServer: models and proofs

PlayServer (`src/HPlayerServer/HPlayerServer`) is a Linux server skeleton in C++:
a log process, an acceptor process with a thread pool, a business process that
receives accepted connections as passed descriptors, and wrappers for epoll,
sockets, threads, HTTP and two databases. This directory holds TLA+ models of
its concurrent core, TLC runs on small instances, and TLAPS proofs for every
value of the constants.

File names without a directory are files of `src/HPlayerServer/HPlayerServer`.
The repository has no design document and no automated tests; what it says about
itself is comments, and manual test functions in `main.cpp`.

## 1. Inventory

### 1.1 Components

| component | code | state | operations | a correct one ... |
|---|---|---|---|---|
| Thread pool | `ThreadPool.*` | `m_server` (a local listening socket), `m_epoll`, `m_threads`, a `static thread_local` client socket per calling thread, `CFunction` pointers in flight | `Start`, `AddTask`, `TaskDispatch`, `Close` | calls every task once, in the order of its adder, and deletes it after the call |
| Log server | `Logger.*` | `m_server`, `m_epoll`, `m_thread`, `m_file`, the local `mapClients` of its thread, a `thread_local` client per tracing thread | `Start`, `ThreadFunc`, `WriteLog`, `Close`, `Trace` | writes what threads send, in their order; deletes each connection once |
| Thread | `Thread.*` | `m_thread`, `m_bpaused`, static `m_mapThread`, signal handlers | `Start`, `Stop`, `Pause`, `isVaild`, `ThreadEntry`, handlers for SIGUSR1 and SIGUSR2 | knows whether its thread runs; a stopped thread ends |
| Epoll wrapper | `CEpoll.*` | `m_epoll` | `Create`, `WaitEvents`, `Add`, `Modify`, `Del`, `Close` | reports events of registered sources until it is closed |
| Socket | `Socket.*` | `m_socket`, `m_status`, `m_param` | `Init`, `Link`, `Send`, `Recv`, `Close` | follows 0 -> 1 -> 2 -> 3 of `Socket.h:69` |
| Acceptor process | `Server.*` | `m_server`, `m_epoll`, `m_pool`, `m_process`, `m_business` | `Init`, `Run`, `ThreadFunc`, `Close` | hands each accepted connection to the business process once |
| Business process | `HPlayServer.*` | `m_epoll`, `m_pool`, `m_mapClients`, `m_db`, two callbacks | `BusinessProcess`, `ThreadFunc`, `Connected`, `Received`, `HttpParser` | calls back once per connection and once per request |
| Processes and descriptor passing | `Process.h`, `main.cpp` | `pipes`, `m_pid`, `m_func` | `CreateSubProcess`, `SendFD`, `RecvFD`, `SendSocket`, `RecvSocket`, `SwitchDeamon` | passes descriptors in order; the child ends when it is told to |
| HTTP and URL parsing | `HttpParser.*` | last parsed request | `Parser`, callbacks, `UrlParser` | sequential |
| Database clients | `DatabaseHelper.*`, `MysqlClient.*`, `Sqlite3Client.*` | the handle, whether it is connected | `Connect`, `Exec`, `StartTransaction`, `CommitTransaction`, ... | sequential per handle |
| Buffer, functions, digest | `Public.*`, `Function.h`, `Crypto.*` | none of their own | wrappers | - |
| Vendored code | `http_parser.*`, `jsoncpp`, `sqlite3`, ... | - | - | - |

### 1.2 How they interact

* A pool has an epoll set shared by its workers. `AddTask` writes the *address*
  of a `CFunction` into a local stream socket; a worker reads eight bytes, casts
  them back, calls and deletes. The client socket is `static thread_local`, so
  there is one connection per calling thread and per template instantiation.
* The acceptor's pool runs `CServer::ThreadFunc` once per worker, a function that
  never returns; `CHPlayServer` does the same. A task can thus take a worker
  out of its pool for good.
* `Trace`, called in any thread of any process, connects once per thread to
  `./log/server.sock` and sends records; a single thread of the log process
  reads them all.
* The acceptor passes each accepted descriptor over a `socketpair` to the
  business process. The end of a child is meant to be announced by passing -1.
* Threads are ended by `CThread::Stop`: clear `m_thread`, join with a deadline,
  else detach and send SIGUSR2, whose handler calls `pthread_exit`.

### 1.3 What is hard

Nothing in the core takes a lock (the only mutex guards debug output). What
a test would hardly reach:

* level-triggered epoll wakes several workers for one event, and the sockets
  block: the losers wait in `accept` or `read` (`ThreadPool.cpp:78`, `92`);
* raw pointers travel through sockets and stay in event lists after a delete
  (`ThreadPool.cpp:95`, `98`, `Logger.cpp:135`);
* descriptors are reused by the kernel while a map is keyed by them
  (`Logger.cpp:132`, `177`);
* `Close` takes objects from threads that are not joined (`ThreadPool.cpp:52`,
  `Logger.cpp:215`), and `Stop` races the end of the thread it stops
  (`Thread.cpp:48`);
* writing to a connection whose reader is gone raises SIGPIPE, which nobody
  handles;
* an error path undoes half of what was done (`ThreadPool.cpp:33`, `82`);
* a forked child inherits the parent's ends of all earlier socketpairs and
  nobody closes them, so a child waits for the end of the children forked after
  it (`Process.h:37`), and an end of file looks like descriptor 0 (`Process.h:102`);
* the file `./log/server.sock` outlives a killed log server, and whoever closes
  removes it, whoever has bound it (`Logger.cpp:42`, `Socket.cpp:74`);
* the business process never consumes an event, never closes a connection and
  breaks off its round at the first error (`HPlayServer.cpp:79`, `84`), so one
  connection's misfortune becomes that of all behind it, and a full descriptor
  table looks like the end of the stream (`HPlayServer.cpp:56`).

`PROJECT.json` lists each of them with its line and the properties that watch it; a hazard that the
code does run into has a note that says how far its properties limit it.

## 2. Modules

| module | about | entries to the code |
|---|---|---|
| `TaskQueue` | abstract: per adder a queue of tasks; Put, Take, Finish | `AddTask`, `TaskDispatch` seen from outside |
| `ThreadPool` | `CThreadPool` in full | `ThreadPool.h`, `ThreadPool.cpp`, with `CEpoll.cpp` and `Socket.cpp` inlined |
| `LogFile` | abstract: per thread a log that grows by what was traced, and when the rest may be given up | `Trace`, `WriteLog` seen from outside |
| `LogServer` | `CLoggerServer` from a successful `Start` on | `Logger.cpp`, with `Socket.cpp`, `CEpoll.cpp`, the end of `CreateLogServer` |
| `LogPath` | the path `./log/server.sock` over several starts, failures, kills and ends of `CLoggerServer` | `CLoggerServer::Start`, `Close`, the first `Trace`; `CSocket::Init`, `CSocketBase::Close`; `CreateLogServer` |
| `Thread` | `CThread` | `Thread.h`, `Thread.cpp` |
| `Process` | `CProcess`: a parent, its children and the descriptors passed | `Process.h`, the entry functions and `OldTest` of `main.cpp`, `CServer::Init`'s fork |
| `Server` | `CServer` over an INSTANCE of `Process` | `Server.cpp`, `SendSocket`, `BussinessTest` |
| `Business` | `CHPlayServer`: what `Server`'s child would run | `HPlayServer.cpp`, `RecvSocket`, with `CEpoll.cpp` and `Socket.cpp` inlined |
| `MCThreadPool`, `MCProcess` | symmetry and definitions of constants for TLC | - |
| `TaskQueueProofs`, `ThreadPoolProofs`, `LogServerProofs`, `LogPathProofs`, `ThreadProofs`, `ProcessProofs`, `ServerProofs`, `BusinessProofs` | theorems | - |

Every module takes its sets of threads, tasks, descriptors or objects as
CONSTANTS, with one named ASSUME. `ThreadPool`, `LogServer`, `LogPath` and `Thread` have a
constant `Hazards`, the set of environment events a run lets happen (an adder thread ends, `epoll_ctl` refuses,
`Close` is called, ...); an empty set leaves the undisturbed system. Properties
named `Blame` do not exclude a failure of the code that can be reached: they name the
state without which it does not happen, and fail when it happens otherwise. A variable
`fault` records undefined behaviour or a fatal signal; nothing happens after it.
Operators commented `slip` are plausible wrong versions of the action after
them. `Next` never uses them; they show that the properties can fail.

### 2.1 ThreadPool

Names follow the code. A connection is named by its adder `a`:
`client[a]` is the adder's end (`none`, `init` = created but not connected,
`linked`, `closed`), `link[a]` the accepted `CSocket` (`queued` in the backlog,
`accepted` by a worker, `watched` by epoll, `freed`), `stream[a]` the pointers in
it, `fn[t]` the `CFunction`. A worker's place in `TaskDispatch` is `pc[w]`:

| action | code |
|---|---|
| `StartListen`, `StartWatch`, `StartThread`, `StartFail` | `Start`: socket, epoll set and listener, one thread each; early returns undo nothing |
| `Connect`, `Send`, `Exit` | `AddTask`: first call of a thread, `new` and `Send`; the end of the thread runs the destructor of the `thread_local` socket |
| `WaitEvents`, `Leave`, `EndBatch` | the `while` loop and `WaitEvents` |
| `PickListener`, `Accept`, `AcceptFail`, `Add` | the event of `m_server`: `Link`, then `m_epoll.Add`, with the delete of the error path |
| `PickClient`, `Recv`, `RecvEnd`, `Finish` | the event of a client: `Recv`, call and delete; or `Del` and delete |
| `End`, `Crash` | `ThreadEntry` writes to its `CThread`; use of an object that is gone |
| `CloseEpoll`, `CloseServer`, `CloseThreads` | `Close` |

`Ready` is what level-triggered epoll reports *at that moment*; `batch[w]` keeps
it while other workers consume the events, which is where stale events come from.
`Accept` and `Recv` are disabled while there is nothing: the thread blocks.
An event list is a set: the loop's order is left open. EPOLLERR branches of the
pool lead to no state change and are left out, and a connection reset cannot
happen for a local socket whose writer only ever writes. Eight bytes are read as
one unit: a pointer is written by one `write` of eight bytes to an empty or
aligned stream. One read system call is atomic, so two workers in `read` on one
connection get two different pointers.

`Blocked(w)` says where a worker can be stuck: in `epoll_wait`, `accept` or `read` without
anything to take, in a call that never returns, or not started or ended. `NotAllBlocked` says that with
one adder some worker is not, as long as a pointer is on its way in an open pool and none is
held by an endless call.

### 2.2 LogServer

`object[a]`, `fd[a]` and `mapClients` model the accepted `CSocket`s and the
descriptors they own. `Accept` takes any free descriptor, a superset of "the
lowest". `Register` is the `m_epoll.Add` that succeeds and the map update with its delete of
an older entry (`Logger.cpp:118-138`). The records of one read are appended at
once (`WriteLog`); record text is a number. `valid` is `m_thread != 0`; `Stop` is
one action here, with the outcome module `Thread` shows it to have: the thread is
ended, at once, wherever it is. `Init` is the state after a successful `Start`.
A read finds records or the end of the connection; that it never waits for either,
as a worker of the pool may, is `LogThreadNeverBlocksTheorem`.

`LogFile` is what somebody who only sees `Trace` and the file is promised: a record goes
into a connection that is not given up (`Trace`), everything in a connection is appended
(`WriteLog`), and a set of connections is given up (`GiveUp`): those that are empty; where
`epoll_ctl` may refuse, those without a record in the file yet; and any once the server is broken.
`LogServer` implements it with `pending <- wire`, `file <- written`, `over` the deleted
connections, and `broken` once the loop has ended or the epoll set is closed.

`LogPath` has the rest of `Start`, and more than one server. `path` is the server
that bound the file now at the path, or none; the file is a fact of its own,
because it stays when its server is killed. `pc[s]` is the place of one run of
`CreateLogServer`:

| action | code |
|---|---|
| `StartOpen`, `StartSocket`, `Bind`, `Listen`, `Serve` | `Start`, one system call each; a failure before `m_server` exists returns, a later one calls `Close` |
| `CallClose`, `Unlink`, `CloseSocket`, `Exit` | the end of `RecvFD`'s stream, then the destructor of `m_server`: `unlink`, `close` |
| `Kill` | the kernel closes the sockets, the file stays |
| `Trace` | the first `Trace` of a thread: `connect` once and for all |

`CreateLogServer` ignores what `Start` returns, so a process whose log server does
not serve waits (`"idle"`) for its parent like any other. `Hazards` there are `kill` and
`fail`; a collision in `bind` needs neither.

### 2.3 Thread

`call` and `obj` are the place of the main thread inside `Start` or `Stop`,
`pc[o]` the place of `o`'s thread in `ThreadEntry`. Each read or write of
`m_thread` is a step. `Pause` returns at once for every object that has a thread, so
the action is its other case, `pthread_kill` of the null id. The `pthread_t` is dead once the thread has ended and is
detached; use of a dead id is undefined and ends the run with `fault = "dead_id"`.
The tree insertion of `Start` has a beginning and an end, so that a search of the
same map between them is a data race (`map_race`). `now` counts tenths of a
second since 1970; the deadline of line 55 is at 1.

### 2.4 Process

`holders[c]` is the set of processes with a copy of child `c`'s `pipes[1]`. `Fork`
is `CreateSubProcess` seen from the kernel: the new child gets a copy of every end the
parent has; the parent's close of `pipes[0]` happens before it can fork or send
again and has no effect of its own. `CloseWrite` is the close of line 37 and the start of the entry
function, which is `"log"` (`CreateLogServer`), `"client"` (`CreateClientServer`) or
`"null"`: `CServer::Init` binds `m_business`, which nobody has assigned, so the
business process calls a virtual function of a null object and ends. `SendFD` is one
`sendmsg`: 20 bytes and one descriptor, received by one `recvmsg` of 20 bytes; it waits
while the pair is full. `SendEnd` is `SendFD(-1)`, which sends nothing. The parent may fork,
send and end in any order: a superset of `OldTest`, `BussinessTest` and `CServer`. The
log process's own server is module `LogServer`, which shows that nothing kills it
before its `Close`; here it only receives. A message that meets a full descriptor table
would give `RecvFD` the descriptor 0 and end the log process's loop; it is left out, because no
caller sends the log process a descriptor and the client receives once. `Business` has it.

### 2.5 Server

`Server` composes two processes: `Passing == INSTANCE Process` holds the child,
its socketpair and who has ended; the actions `CreateSubProcess`, `SendSocket`,
`CloseSignal`, `Return`, `Crash` and `ChildStep` are conjunctions with actions of
`Process`. `main` is the place of the main thread in `Init`, `Run` (`"run"`) or `Close`.
No thread of the program calls `Close` while `Run` waits: it is reached only by the
destructor, after an `Init` that failed, so that is where the model has it.
`m_server` is the pointer and `listener` the object, because workers compare the
one and use the other. A worker's place in `ThreadFunc` is `at[w]`:

| action | code |
|---|---|
| `Take`, `Leave` | the pool calls `ThreadFunc`; its loop ends |
| `WaitEvents`, `Event` | the listener is reported; `data.ptr == m_server` |
| `Link`, `Accept`, `AcceptFails` | the thread enters `accept` and stays until there is a connection, or an error |
| `SendSocket`, `Delete` | pass the connection, close the acceptor's copy |
| `SendFails`, `Report` | delete, then use of the deleted object for the message |
| `Crash` | the uses of dead objects that end the process |

The pool is what `ThreadPool` shows of it: a task is called at most once, and of
tasks that do not return only the first is sure to be called. The child runs the
entry `"null"` of `Process`, which is what `Init` gives it; the violated
`BusinessBound` is about that. What `BusinessProcess` would do is module `Business`.

### 2.6 Business

The process `Server`'s child becomes once a business object is bound to its entry;
today none is, which is a finding of `Server` and no reason to leave its code
unread. Connections are numbered in the order in which the acceptor passes them, so
`passed` and `taken` are counters. `main` is the place in `BusinessProcess`, `at[w]` that
of a worker in `ThreadFunc`, `events[w]` what is left of its list.

| action | code |
|---|---|
| `Connect`, `CreateTable`, `CreateEpoll`, `StartPool`, `AddTask`, `SetupFails` | `BusinessProcess` up to line 51; each early return ends the process |
| `RecvSocket`, `RecvEnd` | lines 55-60; a message without a descriptor and the end of the stream both give `sock == 0` |
| `Add`, `Announce` | lines 61-65: `m_epoll.Add`, then `m_connected` whatever it returned |
| `Take`, `WaitEvents`, `Event` | the pool calls `ThreadFunc`; a round of it; one event |
| `Pass`, `ParentEnds`, `Client` | the acceptor; a client sends or closes, or resets its connection |

`ready` is epoll's ready list: `WaitEvents` takes at most `EventSize` from its head and,
the events being level-triggered, puts them back at its end. That order matters here,
as it does not in the other modules, because `EPOLLERR` ends the round. Nothing
takes a connection off the list: `Recv` reads zero bytes, which neither consumes
data nor clears an error. A connection counts as `reset` from the reset on, and as
`readable` from the first byte or the close on.

The pool is again what `ThreadPool` shows of it: of tasks that do not return the
first is sure to be called (`FirstTake`), the others may be. The records the process
traces are `LogServer`'s matter.

## 3. Runs

Constants are small model values. Symmetry is used for safety only.

| run | instance | properties | shows |
|---|---|---|---|
| `pool_faults` | 2 workers, 2 adders, 3 tasks, all hazards | `TypeOK`, `HeldOnce`, `InOrder`, `SingleOwner`, `PointersLive`, `Blame`, `TasksAsPromised` | no pointer is overtaken, called twice or used after its delete, none is lost from a connection already read, and the pool implements `TaskQueue`, whatever fails; what it takes to kill the process |
| `pool_live` | 2 workers, 1 adder, 2 tasks that return and an endless one, exits | `NotAllBlocked`, `EveryTaskRuns`, `FirstTaskRuns` | with one adder some worker can go on while a task waits, and every task is called unless an endless one holds a worker; the first is called in any case (`CServer`'s use) |
| `log_faults` | 3 threads, 1 descriptor, 2 records each, all hazards | `TypeOK`, `MapOwnsFds`, `NothingLost`, `Blame`, `AcceptedIsWritten`, `LogAsPromised` | the map is right about reused descriptors; nothing is lost, doubled, reordered; an unacceptable listener does not starve the accepted connection; what it takes to kill a process; it implements `LogFile` |
| `log_path` | 3 servers, 2 threads, kills and failures | `TypeOK`, `StaleOnce`, `TakenByCollision`, `MuteNeedsCollision`, `CollisionClears` | a path left behind by a crash is gone once a start that failed on it has been undone; only a collision in `bind` takes a live server's path or makes a thread mute |
| `thread_stop` | 2 objects, all hazards | `TypeOK`, `ValidIsTrue`, `Blame`, `StoppedEnds` | `isVaild()` is right, a stopped thread ends, and each failure has its named cause |
| `thread_wait` | 2 objects | `StopWaits` is violated | `Stop` grants no grace: its deadline is in 1970 (`Thread.cpp:55`) |
| `process_end` | a log, a client and a null child; 2 descriptors, 2 sends each, `Capacity` 2 | `TypeOK`, `LogEndsLast`, `Delivered`, `Blame`, `NoneLeftBehind` | in any order of forks the log process outlives all that can write to it, descriptors come in order, and everybody ends after the parent |
| `process_signal` | the same children, 1 descriptor | `SignalEnds` is violated | `SendFD(-1)` ends nothing (`Process.h:70`, against `main.cpp:21`) |
| `server_pass` | 2 workers, 3 connections, `Capacity` 2, 2 failures | `TypeOK`, `HandedOver`, `Blame`, `EveryConnectionTaken` | the workers share the listener without losing, doubling or starving a connection, through every failure of `Init` |
| `server_entry` | 1 connection | `BusinessBound` is violated | the child is forked for a null object (`Server.cpp:19`, against line 18) |
| `business` | 4 connections, `Room` 3, 2 workers, lists of 2, 1 reset, `Capacity` 1 | `TypeOK`, `Accounted`, `Blame`, `EveryAnnounced`, `LookedAt`, `HiddenStays` | every connection is accounted for and announced; one is looked at unless one that has been reset is ahead of it, and then never |
| `business_answer` | 1 connection, 1 worker | `RequestReceived` is violated | no request reaches `Received` (`HPlayServer.cpp:84`, against `HPlayServer.h:55`) |

**Why the bounds are enough.** Two workers are the fewest for which one event
reaches two threads, and three tasks let one adder have two pointers in its
stream while a third is being run. One descriptor for three threads forces reuse
and the descriptor limit, and leaves two in the backlog; two descriptors are covered by the proofs,
which hold for any number. `Capacity` and `Backlog` 2 let one read return two
records and two connections wait. Two thread objects let one thread search the
map while another is inserted. `MaxLogs` bounds the records of a thread and
`MaxNow` the clock; the clock starts after the deadline, as every real one does,
so the bound hides nothing but later times. Three children, one of each kind, give
every order of a log process between an earlier and a later fork; two sends to one
child show order and a descriptor left unread. In `Server` three connections let one
wait while two are held, and two failures let each worker meet one; `MaxSends` is the
number of connections, so it never stops a send, and `MaxFails` says that shortages end.
Three servers let one find the path of another whose own was taken before, or be started after a
crash and again after the failure. In `Business` the fourth connection meets the full table; three
watched ones and lists of two make the ready list rotate, so that an event is cut off by
`EVENT_SIZE`, by an error ahead of it, or not at all; `MaxResets` 1 is one misfortune with two
bystanders. `CHECK_DEADLOCK FALSE` stands in
every configuration because a pool without adders, a killed process, a worker
blocked in `accept` or `read`, and a child that waits for its parent really stop.

**Fairness.** Weak fairness of each worker, of the log thread, and of each
started thread outside its function: the kernel schedules runnable threads. Weak
fairness of a `Start`, `Stop` or `Close` that has begun: it is straight-line
code; so are the `Start` and `Close` of a log server and the setup and the receive loop of the
business process. Weak fairness of each child process: it is scheduled. Nothing
makes its parent act or end, and nobody has to type the line a client may wait for.
Nothing is assumed of callers: nobody has to call `AddTask` or `Trace`, or
to end, pass or send anything, and a thread function need not return. A task that
is not in `Endless` returns. No strong fairness is used.

**What is true and perhaps unwelcome.** The properties are worded as they are
because stronger ones fail:

* with two adders and two workers all workers can end up blocked: one in a
  second `accept`, one in a stale `read`; `NotAllBlocked` and `EveryTaskRuns` need one adder;
* with endless tasks and two workers, the second task can wait for ever;
* two workers that have the same end of file in their lists use a deleted
  connection (`Blame` of the pool says that nothing else makes them touch a dead object
  before `Close`: the connection was read out, and deleted by another worker);
* a connection refused by `epoll_ctl` takes the tasks in it along, and the adder's
  next write kills the process; `InOrder` and `Blame` say that this happens to a connection
  before its first task is read, or not at all;
* tasks sent to a pool whose `Start` failed after `m_server` listened are accepted by
  `AddTask` and never run; nothing in the repository promises otherwise, and only the
  safety properties watch such a pool;
* one EPOLLERR ends the log server's loop for everyone (`Logger.cpp:100`);
* `Stop` of a thread that has just ended by itself uses a dead `pthread_t`. In
  `CLoggerServer::Close` the epoll set is closed before `Stop`, so the log thread
  may be in exactly that state; `LogServer` treats this `Stop` as harmless;
* a thread that has left its function searches `m_mapThread` while `Start` may be inserting
  into it; `Blame` of `Thread` says that no other race for the map exists;
* SIGUSR2 sent before the first thread of the process has installed its handler
  kills the process;
* a client that is never sent its descriptor reads the keyboard instead, and the log
  process waits for it; the null child of `CServer` ends at once, and the first
  connection passed to it after that kills the acceptor by SIGPIPE;
* an `Init` of `CServer` that fails at its second `AddTask` leaves a worker with a
  dead listener;
* `Pause` pauses nothing: it refuses exactly the objects that have a thread
  (`Thread.cpp:33`), though `Thread.h:32` says "//暂停" (pause);
* after a crash the log server does not come up the first time, silently, and does
  the second time, if the first start was undone before the second binds; a thread that traces
  before any server serves is mute for good; a second program started in the same directory takes the path of the
  first, and threads that trace for the first time after that are mute;
* in the business process the connections behind one that has been reset are never read
  again while one list can report all; `LookedAt` names that case, and would
  fail without it;
* the business process ends after as many connections as its descriptor table has
  room for, and takes the acceptor with it; it does so even if every client has left;
* a worker may read a connection before `Connected` has been called for it.

## 4. Proofs

All theorems are checked by TLAPS from the ASSUME of their module alone, for
any sets of workers, adders, tasks, threads, descriptors and objects.

* **TaskQueueProofs.** `TaskInv` (types, pointers live and in one place) is
  inductive. `PointersLiveTheorem`, and `ForwardTheorem`: a task only goes
  none -> sent -> running -> deleted, by the lemma `ForwardStep`.
* **ThreadPoolProofs.** `TypesTheorem`: `TypeOK` is inductive because it ties each
  worker's `at` and `held` to its `pc`. `TasksTheorem`: `HeldOnce` is not inductive
  alone, since `Recv` could pick a pointer that is already running; it needs
  `PointersLive`, which says that pointers in streams are `sent` and unique.
  `RefinementTheorem`: every step is a step or a stutter of
  `TaskQueue` under `queue <- stream`, `status <- fn`. So `ForwardStep` applies to the pool's
  steps, and `ForwardTheorem` says of its tasks what it says of the queue's. `OwnerTheorem`:
  `SingleOwner` needs `OwnerInv`, which adds that a queued or accepted
  connection has a client that once connected, and what a deleted one or a deleted listener
  implies. `OrderTheorem`: `InOrder` is the order of what was delivered (`Delivered`, by the task
  invariant and lemmas about `Tail` and `Append`), and that a deleted connection was read to its
  end or not at all; for that, `ReadInv`: nothing of a connection is read before it is
  watched. `BlameTheorem`: `FreshInv` says that whatever a worker still holds an event of is
  watched, or has been read out and deleted by another worker; with `ReadInv`, those are all the ways
  in which a step finds a connection gone. `NotAllBlockedTheorem`:
  not inductive, because it sees a blocked worker only after the event that misled it. `PlaceInv` says what
  an open epoll set implies for the workers, and `FreeInv` that with one adder, from the accept of its
  connection on, one worker never enters `accept` again: the one that accepted, whose list
  no longer has the listener. It is the one that is not blocked: what it waits for, in `epoll_wait` or `read`, is
  there as long as a pointer is.
* **LogServerProofs.** `FdInv` = `TypeOK`, `MapOwnsFds`, `CurInv` (the step between
  accept and Add owns one connection nobody else knows), `LinkInv` (only connected
  threads have objects). `MapTheorem` follows. `NothingLostTheorem`
  needs that a read concatenates what was written and what is in the
  wire, and `UnreadInv`: nothing is written from a connection that is not registered yet, so a
  failed `Add` deletes none that has a record in the file.
  `LogRefinementTheorem`: `LogServer` implements `LogFile`. A step that deletes maps to `GiveUp`
  of what it deletes, which `NothingLost` allows.
  `LogThreadNeverBlocksTheorem`, by `FreshInv`: all that is in the list of events, the listener
  included, is still as it was announced, also while `Close` is under way, because one thread
  both reads events and deletes. `LogBlameTheorem`: by `FreshInv` the log thread finds every connection
  alive; `LoopInv` says that before `Close` only EPOLLERR ends the loop, and `GoneInv` why a
  connection is gone whose thread can still trace.
* **ThreadProofs.** `ThreadInv` = types, `ValidIsTrue`, one `Stop` at a time (`OneStop`),
  what a thread on its way out has cleared (`Leaving`), and `Blame`.
* **ProcessProofs.** `LogEndsLast` alone is not inductive: that a stream has ended must
  mean that everybody who could hold it open is gone. `HoldInv` says who does:
  the parent while it runs, and each later child until it ends. From it follow
  `LogEndsLastTheorem` and, since a parent that can send keeps the stream open,
  `ProcessBlameTheorem`. `DeliveredTheorem` is by one lemma per move of a sequence.
  `NoCircularWaitTheorem`: once the parent is gone, a child that waits waits for children
  forked after it only. `WaitInv` says that "forked after" is an order and that the forked
  children are finitely many, so by well-founded induction over sets of children (`LastLeft`) one
  that is left has nobody left after it: it can go on, or reads the keyboard. The definitions
  `CanGo` and `NoCircularWait` stand with the proof.
* **ServerProofs.** `PassingTheorem`: every step of `CServer` is a step of `Process` or
  leaves its variables alone. So the theorems of `ProcessProofs` hold of the
  acceptor and its child; types and `PassedInOrderTheorem` are taken from there by
  INSTANCE. `HandedOver` becomes inductive with one more conjunct (`HandInv`): what a
  worker is about to delete has been passed, unless SIGPIPE has ended the process.
  `ServerBlameTheorem` adds where a listener exists and that a worker in `ThreadFunc`
  means an `AddTask` (`CloseInv`).
* **LogPathProofs.** `OnceInv` adds to `StaleOnce` and `TakenByCollision` who can own the
  file at the path: a server that holds it or was killed, and never collided itself; and that
  a server some Start collided with had bound before (`OnceTheorem`, `TakenTheorem`). Once one
  Start that found the file has been undone the file is gone for good; several that
  overlap, or that are killed before their undo, may each fail on it. `MuteTheorem` adds that a
  serving server listens: without a collision its path is its own, so `connect` succeeds.
* **BusinessProofs.** `Accounted` and `Blame` are proved together (`AccountTheorem`, `BusinessBlameTheorem`): that
  `open` is an interval needs that the table was never full before, and the causes
  of the end need `Known`: before the loop the tasks are not complete and nothing has been
  taken, the connection in hand is new to `m_epoll`, and workers hold events of watched
  connections only. The ready list needs lemmas about `Rotate`: it keeps the elements and keeps
  them distinct. `HiddenTheorem` needs one more: with no more ready
  than fit into one list, `WaitEvents` takes all of it and the order stays as it was,
  so the reset connection is ahead in every list a worker gets. `TurnTheorem`, without that
  condition: the ready list is a queue, so a connection at place `i` is reported by
  the `i`-th `epoll_wait` at the latest; what `LookedAt` adds is that the list is also worked
  off, which an error ahead of it prevents.

Each module states the facts about sequences it needs for its own sets of elements.

Only model-checked: the liveness properties `EveryTaskRuns`, `FirstTaskRuns`,
`AcceptedIsWritten`, `StoppedEnds`, `NoneLeftBehind`, `EveryConnectionTaken`, `CollisionClears`,
`EveryAnnounced` and `LookedAt` (fairness and ENABLED are out of the prover's reach), and the
four violated properties. Of five of them the part that is a safety property is proved: some
worker can always go on (`NotAllBlockedTheorem`, for `EveryTaskRuns` and `FirstTaskRuns`), some child can
(`NoCircularWaitTheorem`, for `NoneLeftBehind`), the log thread always can
(`LogThreadNeverBlocksTheorem`, for `AcceptedIsWritten`), and nobody overtakes in the ready
list (`TurnTheorem`, for `LookedAt`); that who can go on does, again and again until the goal is reached, is
fairness and TLC's part.

## 5. Not modelled

* Vendored code: `sqlite3`, `jsoncpp` and `http_parser`, nine tenths and more of the
  repository's lines. It is not this program's logic, and the program uses a handful of its
  calls; the part of all lines that a model of PlayServer can stand for is therefore small.
* `CHPlayServer::Received`, `HttpParser` and `MakeResponse`: no run of the program reaches
  them (`business_answer`). Read on paper, the path would not succeed either:
  `UrlParser` leaves the `/` at the head of the path, so `uri == "login"` never
  holds; `HttpParser` then returns -7, and `Received` answers nothing when it fails
  (`HPlayServer.cpp:113`).
* `HttpParser.*`, `UrlParser`, `Crypto`, `Buffer`: sequential string work behind that path.
* `MysqlClient.*`, `Sqlite3Client.*`: text of SQL statements, and one call of a library per
  method. `CMysqlClient` never initialises `m_bInit`, which `Business` models as a `Connect`
  that may fail; `Modify` of both tables does not reset `isfirst` between SET and WHERE, so
  its WHERE begins with the separator; no transaction is ever started by the program.
* `Socket` and `Epoll` as they are used: no UDP, no non-blocking sockets, `Modify` has no caller.
* `LogInfo` (formatting) and the name of the log file.
* The SIGUSR1 handler and `m_bPaused`: `Pause` never sends SIGUSR1 to a thread.
* A second `Start` of one `CThread`, two pools of one type in one thread
  (`ThreadPool.h:20`): no caller does it.
* `SwitchDeamon` has no caller; the destructor of `CHPlayServer` runs when nothing else does.

## 6. State of the plan

Done: `TaskQueue`, `ThreadPool`, `LogFile`, `LogServer`, `Thread`, `Process`, `Server`, `LogPath` and
`Business`, with their runs and proofs. What is left waits for the program:

1. once line 83 of `HPlayServer.cpp` is repaired, the requests: `Received` and the one `m_db`
   that all workers share without a lock (`HPlayServer.cpp:157`);
2. once `Server.cpp:19` is repaired, `Business` as the child of `Server` in one module:
   `Pass` is already `Server`'s `SendSocket` seen from the other side.
