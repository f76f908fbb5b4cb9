----------------------------- MODULE ThreadPool -----------------------------
(***************************************************************************)
(* CThreadPool: worker threads that share one level-triggered epoll set    *)
(* and receive their tasks, as raw CFunction pointers, through local       *)
(* stream sockets.  Every thread that calls AddTask owns one client socket *)
(* (static thread_local), so a connection is named by its adder.           *)
(*                                                                         *)
(* The sockets are blocking.  epoll_wait can report one listening socket   *)
(* or one readable connection to several workers; one of them gets the     *)
(* connection or the pointer and the others wait inside accept or read.    *)
(***************************************************************************)
EXTENDS Naturals, Sequences, FiniteSets

CONSTANTS
  Workers,    \* the CThread objects of m_threads
  Adders,     \* threads that call AddTask
  Tasks,      \* CFunction objects
  Endless,    \* tasks whose call never returns (CServer::ThreadFunc is one)
  Hazards,    \* which of the HazardKinds a run lets happen
  Listener,   \* m_server as an epoll event source
  None        \* no connection, no task

HazardKinds == {"exit",       \* a thread that called AddTask ends
                "refuse",     \* epoll_ctl refuses a new connection
                "fdlimit",    \* accept fails for want of a descriptor
                "close",      \* the owner of the pool calls Close
                "startfail"}  \* a step of Start fails

ASSUME PoolAssumption ==
  /\ Listener \notin Adders
  /\ None \notin Adders \cup Tasks \cup {Listener}
  /\ Endless \subseteq Tasks
  /\ Hazards \subseteq HazardKinds

VARIABLES
  start,      \* how far Start has come
  epoll,      \* m_epoll: "unset" (-1), "open", "closed" (-1 again)
  server,     \* m_server and the listening socket it owns
  threads,    \* whether the CThread objects of m_threads still exist
  client,     \* client[a]: the thread_local CSocket of a
  link,       \* link[a]: the accepted CSocket at the workers' end
  stream,     \* stream[a]: pointers written by a and not read yet
  fn,         \* fn[t]: the CFunction object t
  pc, batch, at, held,    \* per worker: place in TaskDispatch, events left,
                          \* pClient, base
  fault,      \* undefined behaviour or a fatal signal ended the process
  sent        \* history: sent[a] is what a's successful AddTask calls sent

poolVars == <<start, epoll, server, threads>>
connVars == <<client, link>>
taskVars == <<stream, fn, sent>>
workVars == <<pc, batch, at, held>>
vars == <<start, epoll, server, threads, client, link, stream, fn, sent, pc, batch, at, held, fault>>

Sources == Adders \cup {Listener}

Init ==
  /\ start = "new" /\ epoll = "unset" /\ server = "null" /\ threads = "kept"
  /\ client = [a \in Adders |-> "none"]
  /\ link = [a \in Adders |-> "none"]
  /\ stream = [a \in Adders |-> <<>>]
  /\ sent = [a \in Adders |-> <<>>]
  /\ fn = [t \in Tasks |-> "none"]
  /\ pc = [w \in Workers |-> "unborn"]
  /\ batch = [w \in Workers |-> {}]
  /\ at = [w \in Workers |-> None]
  /\ held = [w \in Workers |-> None]
  /\ fault = "none"

-----------------------------------------------------------------------------
(* Start: listen, create the epoll set and watch the listener, then one    *)
(* thread after the other.  A failure returns at once and undoes nothing.  *)

StartListen ==
  /\ start = "new"
  /\ start' = "listening" /\ server' = "listening"
  /\ UNCHANGED <<epoll, threads, connVars, taskVars, workVars, fault>>

StartWatch ==
  /\ start = "listening" /\ server = "listening" /\ epoll = "unset"
  /\ start' = "spawning" /\ epoll' = "open"
  /\ UNCHANGED <<server, threads, connVars, taskVars, workVars, fault>>

StartThread(w) ==
  /\ start = "spawning" /\ pc[w] = "unborn"
  /\ pc' = [pc EXCEPT ![w] = "wait"]
  /\ start' = IF \A v \in Workers \ {w} : pc[v] # "unborn" THEN "done" ELSE start
  /\ UNCHANGED <<epoll, server, threads, connVars, taskVars, batch, at, held, fault>>

\* bind or listen fails: m_server stays set but cannot be connected to.
StartFail ==
  /\ "startfail" \in Hazards
  /\ start \in {"new", "listening", "spawning"}
  /\ start' = "failed"
  /\ server' = IF start = "new" THEN "mute" ELSE server
  /\ UNCHANGED <<epoll, threads, connVars, taskVars, workVars, fault>>

-----------------------------------------------------------------------------
(* AddTask, run by adder a.                                                *)

\* First call of the thread: Init and Link.  When connect fails the socket
\* exists but is not connected, and no later call connects it.
Connect(a) ==
  /\ client[a] = "none"
  /\ \/ /\ server = "listening"
        /\ client' = [client EXCEPT ![a] = "linked"]
        /\ link' = [link EXCEPT ![a] = "queued"]
     \/ /\ server # "listening"
        /\ client' = [client EXCEPT ![a] = "init"]
        /\ UNCHANGED link
  /\ UNCHANGED <<poolVars, taskVars, workVars, fault>>

\* The other end of a's connection still exists in the kernel.
PeerOpen(a) ==
  \/ link[a] \in {"accepted", "watched"}
  \/ link[a] = "queued" /\ server = "listening"

\* slip: AddTask deletes base although it has been sent.
SendDeletes(a, t) ==
  /\ client[a] = "linked" /\ fn[t] = "none" /\ PeerOpen(a)
  /\ stream' = [stream EXCEPT ![a] = Append(@, t)]
  /\ sent' = [sent EXCEPT ![a] = Append(@, t)]
  /\ fn' = [fn EXCEPT ![t] = "deleted"]
  /\ UNCHANGED <<poolVars, connVars, workVars, fault>>

\* new CFunction, then Send of the pointer's eight bytes.  A write to a
\* connection without a reader raises SIGPIPE, which nobody handles.
Send(a, t) ==
  /\ client[a] = "linked" /\ fn[t] = "none"
  /\ \/ /\ PeerOpen(a)
        /\ stream' = [stream EXCEPT ![a] = Append(@, t)]
        /\ sent' = [sent EXCEPT ![a] = Append(@, t)]
        /\ fn' = [fn EXCEPT ![t] = "sent"]
        /\ UNCHANGED fault
     \/ /\ ~PeerOpen(a)
        /\ fault' = "sigpipe"
        /\ UNCHANGED taskVars
  /\ UNCHANGED <<poolVars, connVars, workVars>>

\* The thread ends: the destructor of its thread_local socket closes it.
Exit(a) ==
  /\ "exit" \in Hazards
  /\ client[a] # "closed"
  /\ client' = [client EXCEPT ![a] = "closed"]
  /\ UNCHANGED <<poolVars, link, taskVars, workVars, fault>>

-----------------------------------------------------------------------------
(* TaskDispatch, run by worker w.                                          *)

\* What epoll_wait reports: the set is level-triggered, so a source stays
\* ready until somebody has accepted or read what made it so.
Ready ==
  {a \in Adders : link[a] = "watched" /\ (stream[a] # <<>> \/ client[a] = "closed")}
  \cup {s \in {Listener} : server = "listening" /\ \E a \in Adders : link[a] = "queued"}

\* WaitEvents returns events.  A wait begun before Close may still do so.
WaitEvents(w) ==
  /\ pc[w] = "wait" /\ Ready # {}
  /\ pc' = [pc EXCEPT ![w] = "batch"]
  /\ batch' = [batch EXCEPT ![w] = Ready]
  /\ UNCHANGED <<poolVars, connVars, taskVars, at, held, fault>>

\* WaitEvents times out or fails and the loop sees m_epoll == -1.
Leave(w) ==
  /\ pc[w] = "wait" /\ epoll = "closed"
  /\ pc' = [pc EXCEPT ![w] = "gone"]
  /\ UNCHANGED <<poolVars, connVars, taskVars, batch, at, held, fault>>

\* The event of the listener: on to m_server->Link.
PickListener(w) ==
  /\ pc[w] = "batch" /\ Listener \in batch[w]
  /\ server = "listening"
  /\ pc' = [pc EXCEPT ![w] = "accept"]
  /\ batch' = [batch EXCEPT ![w] = @ \ {Listener}]
  /\ UNCHANGED <<poolVars, connVars, taskVars, at, held, fault>>

\* The event of a connection: on to pClient->Recv.
PickClient(w, a) ==
  /\ pc[w] = "batch" /\ a \in batch[w]
  /\ pc' = [pc EXCEPT ![w] = "recv"]
  /\ batch' = [batch EXCEPT ![w] = @ \ {a}]
  /\ at' = [at EXCEPT ![w] = a]
  /\ UNCHANGED <<poolVars, connVars, taskVars, held, fault>>

\* slip: TaskDispatch returns after one list of events.
EndBatchReturns(w) ==
  /\ pc[w] = "batch" /\ batch[w] = {}
  /\ pc' = [pc EXCEPT ![w] = "gone"]
  /\ UNCHANGED <<poolVars, connVars, taskVars, batch, at, held, fault>>

EndBatch(w) ==
  /\ pc[w] = "batch" /\ batch[w] = {}
  /\ pc' = [pc EXCEPT ![w] = IF epoll = "open" THEN "wait" ELSE "gone"]
  /\ UNCHANGED <<poolVars, connVars, taskVars, batch, at, held, fault>>

\* accept returns one of the waiting connections; it blocks while there is none.
Accept(w, a) ==
  /\ pc[w] = "accept" /\ server = "listening" /\ link[a] = "queued"
  /\ link' = [link EXCEPT ![a] = "accepted"]
  /\ at' = [at EXCEPT ![w] = a]
  /\ pc' = [pc EXCEPT ![w] = "add"]
  /\ UNCHANGED <<poolVars, client, taskVars, batch, held, fault>>

AcceptFail(w) ==
  /\ "fdlimit" \in Hazards
  /\ pc[w] = "accept" /\ server = "listening"
  /\ pc' = [pc EXCEPT ![w] = "batch"]
  /\ UNCHANGED <<poolVars, connVars, taskVars, batch, at, held, fault>>

\* slip: the delete is forgotten where Add fails.
AddLeaks(w) ==
  /\ pc[w] = "add"
  /\ \/ epoll = "open" /\ link' = [link EXCEPT ![at[w]] = "watched"]
     \/ (epoll = "closed" \/ "refuse" \in Hazards) /\ UNCHANGED link
  /\ pc' = [pc EXCEPT ![w] = "batch"]
  /\ at' = [at EXCEPT ![w] = None]
  /\ UNCHANGED <<poolVars, client, taskVars, batch, held, fault>>

\* slip: the worker accepts in a loop, until there is no connection left.
AddAcceptsOn(w) ==
  /\ pc[w] = "add"
  /\ \/ epoll = "open" /\ link' = [link EXCEPT ![at[w]] = "watched"]
     \/ epoll = "closed" /\ link' = [link EXCEPT ![at[w]] = "freed"]
  /\ pc' = [pc EXCEPT ![w] = "accept"]
  /\ at' = [at EXCEPT ![w] = None]
  /\ UNCHANGED <<poolVars, client, taskVars, batch, held, fault>>

\* m_epoll.Add of the accepted socket; when it fails the socket is deleted,
\* with whatever the adder has already written to it.
Add(w) ==
  /\ pc[w] = "add"
  /\ \/ /\ epoll = "open"
        /\ link' = [link EXCEPT ![at[w]] = "watched"]
     \/ /\ epoll = "closed" \/ "refuse" \in Hazards
        /\ link' = [link EXCEPT ![at[w]] = "freed"]
  /\ pc' = [pc EXCEPT ![w] = "batch"]
  /\ at' = [at EXCEPT ![w] = None]
  /\ UNCHANGED <<poolVars, client, taskVars, batch, held, fault>>

\* slip: the pointer is looked at and stays in the connection.
RecvPeek(w) ==
  /\ pc[w] = "recv" /\ link[at[w]] = "watched" /\ stream[at[w]] # <<>>
  /\ held' = [held EXCEPT ![w] = Head(stream[at[w]])]
  /\ fn' = [fn EXCEPT ![Head(stream[at[w]])] = "running"]
  /\ at' = [at EXCEPT ![w] = None]
  /\ pc' = [pc EXCEPT ![w] = "run"]
  /\ UNCHANGED <<poolVars, connVars, stream, sent, batch, fault>>

\* slip: the worker leaves the pointer it has read for later.
RecvLoses(w) ==
  /\ pc[w] = "recv" /\ link[at[w]] = "watched" /\ stream[at[w]] # <<>>
  /\ stream' = [stream EXCEPT ![at[w]] = Tail(@)]
  /\ at' = [at EXCEPT ![w] = None]
  /\ pc' = [pc EXCEPT ![w] = "batch"]
  /\ UNCHANGED <<poolVars, connVars, fn, sent, held, batch, fault>>

\* slip: the connection is deleted after one task.
RecvCloses(w) ==
  /\ pc[w] = "recv" /\ link[at[w]] = "watched" /\ stream[at[w]] # <<>>
  /\ held' = [held EXCEPT ![w] = Head(stream[at[w]])]
  /\ fn' = [fn EXCEPT ![Head(stream[at[w]])] = "running"]
  /\ stream' = [stream EXCEPT ![at[w]] = Tail(@)]
  /\ link' = [link EXCEPT ![at[w]] = "freed"]
  /\ at' = [at EXCEPT ![w] = None]
  /\ pc' = [pc EXCEPT ![w] = "run"]
  /\ UNCHANGED <<poolVars, client, sent, batch, fault>>

\* Recv returns the oldest pointer and the worker calls the task.
Recv(w) ==
  /\ pc[w] = "recv" /\ link[at[w]] = "watched" /\ stream[at[w]] # <<>>
  /\ LET base == Head(stream[at[w]])
     IN  /\ held' = [held EXCEPT ![w] = base]
         /\ fn' = [fn EXCEPT ![base] = "running"]
  /\ stream' = [stream EXCEPT ![at[w]] = Tail(@)]
  /\ at' = [at EXCEPT ![w] = None]
  /\ pc' = [pc EXCEPT ![w] = "run"]
  /\ UNCHANGED <<poolVars, connVars, sent, batch, fault>>

\* Recv returns end of file: Del and delete pClient.
RecvEnd(w) ==
  /\ pc[w] = "recv" /\ link[at[w]] = "watched"
  /\ stream[at[w]] = <<>> /\ client[at[w]] = "closed"
  /\ link' = [link EXCEPT ![at[w]] = "freed"]
  /\ at' = [at EXCEPT ![w] = None]
  /\ pc' = [pc EXCEPT ![w] = "batch"]
  /\ UNCHANGED <<poolVars, client, taskVars, batch, held, fault>>

\* slip: the worker keeps the pointer after the delete.
FinishKeepsBase(w) ==
  /\ pc[w] = "run" /\ held[w] \notin Endless
  /\ fn' = [fn EXCEPT ![held[w]] = "deleted"]
  /\ pc' = [pc EXCEPT ![w] = "batch"]
  /\ UNCHANGED <<poolVars, connVars, stream, sent, batch, at, held, fault>>

\* The call returns and the CFunction is deleted.
Finish(w) ==
  /\ pc[w] = "run" /\ held[w] \notin Endless
  /\ fn' = [fn EXCEPT ![held[w]] = "deleted"]
  /\ held' = [held EXCEPT ![w] = None]
  /\ pc' = [pc EXCEPT ![w] = "batch"]
  /\ UNCHANGED <<poolVars, connVars, stream, sent, batch, at, fault>>

\* ThreadEntry, after TaskDispatch has returned: it clears m_thread of the
\* worker's CThread object and ends the thread.
End(w) ==
  /\ pc[w] = "gone" /\ threads = "kept"
  /\ pc' = [pc EXCEPT ![w] = "ended"]
  /\ UNCHANGED <<poolVars, connVars, taskVars, batch, at, held, fault>>

\* The worker uses an object that is gone: a connection another worker has
\* deleted; m_server after Close (as listener, or taken for a client because
\* events[i].data.ptr no longer equals m_server); its CThread after Close.
TouchesDead(w) ==
  \/ pc[w] = "batch" /\ Listener \in batch[w] /\ server = "deleted"
  \/ pc[w] = "accept" /\ server = "deleted"
  \/ pc[w] = "recv" /\ link[at[w]] = "freed"
  \/ pc[w] = "gone" /\ threads = "deleted"

Crash(w) ==
  /\ TouchesDead(w)
  /\ fault' = "dead_object"
  /\ UNCHANGED <<poolVars, connVars, taskVars, workVars>>

-----------------------------------------------------------------------------
(* Close, run by the owner: the epoll set, the listener, the CThread       *)
(* objects, whose threads nobody joins.  The accepted connections are left *)
(* open.                                                                   *)

CloseEpoll ==
  /\ "close" \in Hazards
  /\ start \in {"done", "failed"} /\ epoll # "closed"
  /\ epoll' = "closed"
  /\ UNCHANGED <<start, server, threads, connVars, taskVars, workVars, fault>>

CloseServer ==
  /\ epoll = "closed" /\ server \in {"mute", "listening"}
  /\ server' = "deleted"
  /\ UNCHANGED <<start, epoll, threads, connVars, taskVars, workVars, fault>>

CloseThreads ==
  /\ epoll = "closed" /\ server \in {"null", "deleted"} /\ threads = "kept"
  /\ threads' = "deleted"
  /\ UNCHANGED <<start, epoll, server, connVars, taskVars, workVars, fault>>

-----------------------------------------------------------------------------
Worker(w) ==
  \/ WaitEvents(w) \/ Leave(w) \/ End(w)
  \/ PickListener(w) \/ EndBatch(w)
  \/ \E a \in Adders : PickClient(w, a)
  \/ \E a \in Adders : Accept(w, a)
  \/ AcceptFail(w) \/ Add(w)
  \/ Recv(w) \/ RecvEnd(w) \/ Finish(w)

StartStep == StartListen \/ StartWatch \/ \E w \in Workers : StartThread(w)

Adder(a) == Connect(a) \/ Exit(a) \/ \E t \in Tasks : Send(a, t)

Next ==
  /\ fault = "none"
  /\ \/ StartStep \/ StartFail
     \/ CloseEpoll \/ CloseServer \/ CloseThreads
     \/ \E a \in Adders : Adder(a)
     \/ \E w \in Workers : Worker(w) \/ Crash(w)

Spec == Init /\ [][Next]_vars

(***************************************************************************)
(* The owner finishes Start and the operating system schedules every       *)
(* worker thread.  Nothing makes an adder call AddTask.                    *)
(***************************************************************************)
FairSpec ==
  /\ Spec
  /\ WF_vars(fault = "none" /\ StartStep)
  /\ \A w \in Workers : WF_vars(fault = "none" /\ Worker(w))

-----------------------------------------------------------------------------
TypeOK ==
  /\ start \in {"new", "listening", "spawning", "done", "failed"}
  /\ epoll \in {"unset", "open", "closed"}
  /\ server \in {"null", "mute", "listening", "deleted"}
  /\ threads \in {"kept", "deleted"}
  /\ client \in [Adders -> {"none", "init", "linked", "closed"}]
  /\ link \in [Adders -> {"none", "queued", "accepted", "watched", "freed"}]
  /\ stream \in [Adders -> Seq(Tasks)]
  /\ sent \in [Adders -> Seq(Tasks)]
  /\ fn \in [Tasks -> {"none", "sent", "running", "deleted"}]
  /\ pc \in [Workers -> {"unborn", "wait", "batch", "accept", "add", "recv", "run", "gone",
                     "ended"}]
  /\ batch \in [Workers -> SUBSET Sources]
  /\ at \in [Workers -> Adders \cup {None}]
  /\ held \in [Workers -> Tasks \cup {None}]
  /\ fault \in {"none", "sigpipe", "dead_object"}
  /\ \A w \in Workers : /\ pc[w] \in {"add", "recv"} <=> at[w] # None
                        /\ pc[w] = "run" <=> held[w] # None

(***************************************************************************)
(* A task is being called exactly while one worker, and no second one,     *)
(* holds its pointer: although several workers may read one connection     *)
(* (ThreadPool.cpp:92), nobody runs a task that another worker runs or has *)
(* deleted, and no task is left between "read" and "deleted".              *)
(***************************************************************************)
HeldOnce ==
  /\ \A t \in Tasks : fn[t] = "running" <=> \E w \in Workers : held[w] = t
  /\ \A v, w \in Workers : held[v] = held[w] /\ held[v] # None => v = w

(***************************************************************************)
(* The tasks of one adder are read (ThreadPool.cpp:92) in the order of its *)
(* AddTask calls: the connection still holds the newest of them, and each  *)
(* older one has been called.  No pointer is overtaken, whichever worker   *)
(* reads; two workers may call what they read in either order (line 100).  *)
(* And a worker deletes a connection with pointers in it only before the   *)
(* first one was read, where Add failed (83): a served connection loses    *)
(* no task.                                                                *)
(***************************************************************************)
InOrder ==
  \A a \in Adders :
    LET read == Len(sent[a]) - Len(stream[a])
    IN  /\ Len(stream[a]) <= Len(sent[a])
        /\ \A i \in 1..Len(stream[a]) : stream[a][i] = sent[a][read + i]
        /\ \A i \in 1..read : fn[sent[a][i]] \in {"running", "deleted"}
        /\ link[a] = "freed" => stream[a] = <<>> \/ read = 0

(***************************************************************************)
(* An accepted connection that is not in the epoll set yet belongs to      *)
(* exactly one worker, the one between Link and Add (79-85): none is       *)
(* forgotten and none is added twice, however many workers were woken for  *)
(* the listener.                                                           *)
(***************************************************************************)
SingleOwner ==
  /\ \A a \in Adders :
       link[a] = "accepted" <=> \E w \in Workers : pc[w] = "add" /\ at[w] = a
  /\ \A v, w \in Workers : pc[v] = "add" /\ pc[w] = "add" /\ at[v] = at[w] => v = w

(***************************************************************************)
(* What may kill the process, in the state that ends it.  SIGPIPE needs an *)
(* AddTask on a connection no pointer of which was ever read: Close caught *)
(* it in the listener's queue, or epoll_ctl refused it.  Until Close a     *)
(* worker touches no dead object but a connection that it still had in its *)
(* list of events when a second worker, after reading everything and the   *)
(* end of file, deleted it (ThreadPool.cpp:94-95).                         *)
(***************************************************************************)
Blame ==
  /\ fault = "sigpipe" =>
       \E a \in Adders :
         /\ client[a] = "linked" /\ stream[a] = sent[a]
         /\ \/ link[a] = "queued" /\ server = "deleted"
            \/ link[a] = "freed" /\ (epoll = "closed" \/ "refuse" \in Hazards)
  /\ fault = "dead_object" =>
       \/ server = "deleted" \/ threads = "deleted"
       \/ \E v, w \in Workers, a \in Adders :
            /\ v # w /\ pc[w] = "recv" /\ at[w] = a
            /\ link[a] = "freed" /\ client[a] = "closed" /\ stream[a] = <<>>

(***************************************************************************)
(* The pool implements TaskQueue: reading a pointer and calling it is the  *)
(* abstract Take, everything about connections and epoll is a stutter.     *)
(***************************************************************************)
TQ == INSTANCE TaskQueue WITH queue <- stream, status <- fn

TasksAsPromised == TQ!Spec

\* Every pointer in a connection is live and in one place only, so that
\* memcpy(&base, data) at ThreadPool.cpp:98 yields a task nobody has deleted.
PointersLive == TQ!PointersLive

(***************************************************************************)
(* Worker w waits in epoll_wait, accept or read and nothing is there for   *)
(* it, or it is inside a call that never returns, or it does not exist.    *)
(***************************************************************************)
Blocked(w) ==
  \/ pc[w] \in {"unborn", "ended"}
  \/ pc[w] = "wait" /\ epoll # "closed" /\ Ready = {}
  \/ pc[w] = "accept" /\ server = "listening" /\ \A a \in Adders : link[a] # "queued"
  \/ pc[w] = "recv" /\ link[at[w]] = "watched"
                   /\ stream[at[w]] = <<>> /\ client[at[w]] # "closed"
  \/ pc[w] = "run" /\ held[w] \in Endless

(***************************************************************************)
(* With one adder the workers never block each other: while a pointer is   *)
(* on its way in an open pool some worker can go on, unless a call that    *)
(* never returns has one.  All workers may have been woken for the one     *)
(* connection (ThreadPool.cpp:78), and those that lost wait in accept for  *)
(* good; but the one that accepted never does (79-88), nor do two readers  *)
(* of the connection (93) leave a pointer that nobody reads.  Two adders   *)
(* can lock up two workers.                                                *)
(***************************************************************************)
NotAllBlocked ==
  (\A a, b \in Adders : a = b) /\ start = "done" /\ epoll = "open" =>
    \A a \in Adders : PeerOpen(a) /\ stream[a] # <<>> =>
      \E w \in Workers : ~Blocked(w) \/ held[w] \in Endless

(***************************************************************************)
(* With one adder, as CServer and CHPlayServer use the pool, every task    *)
(* AddTask reported as sent is called in the end, even if all other        *)
(* workers are stuck in accept or read; only a call that never returns,    *)
(* as CServer::ThreadFunc, can keep later tasks waiting.                   *)
(***************************************************************************)
EveryTaskRuns ==
  \A t \in Tasks :
    fn[t] = "sent" ~> \/ fn[t] \in {"running", "deleted"}
                      \/ \E e \in Endless : fn[e] = "running"

(***************************************************************************)
(* Also when calls never return, as CServer::ThreadFunc, the first task    *)
(* sent is called.  Nothing is promised for a second one: its worker may   *)
(* have been stuck in accept since the adder connected.                    *)
(***************************************************************************)
FirstTaskRuns ==
  (\E t \in Tasks : fn[t] = "sent") ~> (\E t \in Tasks : fn[t] = "running")
=============================================================================
