------------------------------- MODULE Server -------------------------------
(***************************************************************************)
(* CServer: Init forks the business process and starts a pool, whose       *)
(* workers run ThreadFunc.  All of them wait for one level-triggered       *)
(* listener and block in accept; each passes what it has accepted to the   *)
(* business process and closes its own copy.                               *)
(*                                                                         *)
(* The two processes and their socketpair are module Process.  Its child   *)
(* runs the entry "null", because Init binds m_business, which keeps the   *)
(* nullptr of the constructor.                                             *)
(***************************************************************************)
EXTENDS Naturals, Sequences

CONSTANTS
  Workers,      \* workers of m_pool
  Count,        \* m_pool.Size(): how often ThreadFunc is added
  Connections,  \* connections clients make
  Acceptor,     \* this process
  Child,        \* m_process
  Capacity,     \* messages that fit into the socketpair
  MaxSends,     \* bound: connections passed
  MaxFails,     \* bound: accepts and sends that fail
  None          \* no connection

ASSUME ServerAssumption ==
  /\ Count \in Nat \ {0} /\ Capacity \in Nat \ {0}
  /\ MaxSends \in Nat /\ MaxFails \in Nat
  /\ Acceptor # Child
  /\ None \notin Connections

VARIABLES
  main,         \* place of the main thread: a step of Init, "run", a step of
                \* Close, or "closed"
  m_business,   \* "null", or "object"
  bound,        \* the object SetEntryFunction has bound, "unset" before
  pool,         \* m_pool: "new", "up", "closed"
  m_epoll,      \* "unset" (-1), "open", "closed" (-1 again)
  m_server,     \* "null", or "set"
  listener,     \* the CSocket: "none", "raw", "listening", "watched", "deleted"
  added,        \* AddTask calls that succeeded
  tasks,        \* ThreadFunc tasks that no worker has taken
  at, held,     \* per worker: place in ThreadFunc, pClient
  arrived,      \* connections clients have made
  backlog,      \* those not accepted
  open,         \* connections this process has a descriptor of
  dropped,      \* connections closed without having been passed
  fails,        \* accepts and sends that have failed
  fault,        \* the undefined behaviour that ended the process
  parent, child, holders, pipe, got, sent, later, signalled   \* Process

mainVars == <<m_business, bound, pool, m_epoll, m_server, listener>>
taskVars == <<added, tasks>>
connVars == <<arrived, backlog, open, dropped>>
workVars == <<at, held, fails, fault>>
procVars == <<parent, child, holders, pipe, got, sent, later, signalled>>
vars == <<main, mainVars, taskVars, connVars, workVars, procVars>>

Passing == INSTANCE Process WITH
  Children <- {Child}, Entry <- [c \in {Child} |-> "null"], Fds <- Connections,
  Parent <- Acceptor, pc <- child

Init ==
  /\ main = "entry"
  /\ m_business = "null" /\ bound = "unset"
  /\ pool = "new" /\ m_epoll = "unset" /\ m_server = "null" /\ listener = "none"
  /\ added = 0 /\ tasks = 0
  /\ at = [w \in Workers |-> "idle"] /\ held = [w \in Workers |-> None]
  /\ arrived = {} /\ backlog = {} /\ open = {} /\ dropped = {}
  /\ fails = 0 /\ fault = "none"
  /\ Passing!Init

Alive == parent = "runs"

-----------------------------------------------------------------------------
(* Init, step by step.                                                     *)

\* The parameter is tested and not stored.
SetEntry ==
  /\ main = "entry" /\ main' = "fork"
  /\ bound' = m_business
  /\ UNCHANGED <<m_business, pool, m_epoll, m_server, listener>>
  /\ UNCHANGED <<taskVars, connVars, workVars, procVars>>

CreateSubProcess ==
  /\ main = "fork" /\ main' = "pool"
  /\ Passing!Fork(Child)
  /\ UNCHANGED <<mainVars, taskVars, connVars, workVars>>

CreateSubProcessFails ==
  /\ main = "fork" /\ main' = "close"
  /\ Passing!ForkFails(Child)
  /\ UNCHANGED <<mainVars, taskVars, connVars, workVars>>

StartPool ==
  /\ main = "pool" /\ main' = "epoll"
  /\ pool' = "up"
  /\ UNCHANGED <<m_business, bound, m_epoll, m_server, listener>>
  /\ UNCHANGED <<taskVars, connVars, workVars, procVars>>

CreateEpoll ==
  /\ main = "epoll" /\ main' = "socket"
  /\ m_epoll' = "open"
  /\ UNCHANGED <<m_business, bound, pool, m_server, listener>>
  /\ UNCHANGED <<taskVars, connVars, workVars, procVars>>

NewSocket ==
  /\ main = "socket" /\ main' = "listen"
  /\ m_server' = "set" /\ listener' = "raw"
  /\ UNCHANGED <<m_business, bound, pool, m_epoll>>
  /\ UNCHANGED <<taskVars, connVars, workVars, procVars>>

Listen ==
  /\ main = "listen" /\ main' = "watch"
  /\ listener' = "listening"
  /\ UNCHANGED <<m_business, bound, pool, m_epoll, m_server>>
  /\ UNCHANGED <<taskVars, connVars, workVars, procVars>>

Watch ==
  /\ main = "watch" /\ main' = "tasks"
  /\ listener' = "watched"
  /\ UNCHANGED <<m_business, bound, pool, m_epoll, m_server>>
  /\ UNCHANGED <<taskVars, connVars, workVars, procVars>>

\* slip: Run returns at once.
AddTaskRunReturns ==
  /\ main = "tasks"
  /\ added' = added + 1 /\ tasks' = tasks + 1
  /\ main' = IF added + 1 = Count THEN "close" ELSE "tasks"
  /\ UNCHANGED <<mainVars, connVars, workVars, procVars>>

\* One ThreadFunc for each worker; with the last one Init returns, and Run
\* waits for m_server to become null, which nobody does.
AddTask ==
  /\ main = "tasks"
  /\ added' = added + 1 /\ tasks' = tasks + 1
  /\ main' = IF added + 1 = Count THEN "run" ELSE "tasks"
  /\ UNCHANGED <<mainVars, connVars, workVars, procVars>>

\* Any of these steps may fail; BussinessTest returns, and ~CServer closes.
InitFails ==
  /\ main \in {"pool", "epoll", "listen", "watch", "tasks"}
  /\ main' = "close"
  /\ UNCHANGED <<mainVars, taskVars, connVars, workVars, procVars>>

InitStep ==
  \/ SetEntry \/ CreateSubProcess \/ CreateSubProcessFails \/ StartPool \/ CreateEpoll
  \/ NewSocket \/ Listen \/ Watch \/ AddTask \/ InitFails

-----------------------------------------------------------------------------
(* Close.                                                                  *)

CloseNull ==
  /\ main = "close" /\ main' = "delete"
  /\ m_server' = "null"
  /\ UNCHANGED <<m_business, bound, pool, m_epoll, listener>>
  /\ UNCHANGED <<taskVars, connVars, workVars, procVars>>

\* Del and delete.  The kernel keeps the listening socket while a thread is
\* in accept; otherwise it resets what is in the backlog.
CloseDelete ==
  /\ main = "delete" /\ main' = "unwatch"
  /\ listener' = IF listener = "none" THEN "none" ELSE "deleted"
  /\ LET lost == IF \E w \in Workers : at[w] = "accept" THEN {} ELSE backlog
     IN  backlog' = backlog \ lost /\ dropped' = dropped \cup lost
  /\ UNCHANGED <<m_business, bound, pool, m_epoll, m_server>>
  /\ UNCHANGED <<taskVars, arrived, open, workVars, procVars>>

CloseEpoll ==
  /\ main = "unwatch" /\ main' = "signal"
  /\ m_epoll' = IF m_epoll = "open" THEN "closed" ELSE m_epoll
  /\ UNCHANGED <<m_business, bound, pool, m_server, listener>>
  /\ UNCHANGED <<taskVars, connVars, workVars, procVars>>

\* SendFD(-1), to a child or, without one, to descriptor 0: nothing is sent.
CloseSignal ==
  /\ main = "signal" /\ main' = "release"
  /\ IF Child \in Passing!Forked THEN Passing!SendEnd(Child) ELSE UNCHANGED procVars
  /\ UNCHANGED <<mainVars, taskVars, connVars, workVars>>

ClosePool ==
  /\ main = "release" /\ main' = "closed"
  /\ pool' = "closed"
  /\ UNCHANGED <<m_business, bound, m_epoll, m_server, listener>>
  /\ UNCHANGED <<taskVars, connVars, workVars, procVars>>

\* main returns, and the kernel closes the descriptors of the process.
Return ==
  /\ main = "closed"
  /\ Passing!ParentEnds
  /\ UNCHANGED <<main, mainVars, taskVars, connVars, workVars>>

CloseStep ==
  CloseNull \/ CloseDelete \/ CloseEpoll \/ CloseSignal \/ ClosePool \/ Return

-----------------------------------------------------------------------------
(* ThreadFunc, run by worker w.                                            *)

Go(w, place) == at' = [at EXCEPT ![w] = place]

\* TaskDispatch of the pool calls a ThreadFunc task.
Take(w) ==
  /\ at[w] = "idle" /\ tasks > 0 /\ pool = "up"
  /\ Go(w, "wait") /\ tasks' = tasks - 1
  /\ UNCHANGED <<main, mainVars, added, connVars, held, fails, fault, procVars>>

\* The condition of the loop, or WaitEvents on a closed set.
Leave(w) ==
  /\ at[w] = "wait" /\ (m_epoll # "open" \/ m_server = "null")
  /\ Go(w, "idle")
  /\ UNCHANGED <<main, mainVars, taskVars, connVars, held, fails, fault, procVars>>

\* The listener is reported, to every worker that asks before the accept.
WaitEvents(w) ==
  /\ at[w] = "wait" /\ m_epoll = "open"
  /\ listener = "watched" /\ backlog # {}
  /\ Go(w, "event")
  /\ UNCHANGED <<main, mainVars, taskVars, connVars, held, fails, fault, procVars>>

\* events[i].data.ptr == m_server
Event(w) ==
  /\ at[w] = "event"
  /\ Go(w, IF m_server = "set" THEN "link" ELSE "wait")
  /\ UNCHANGED <<main, mainVars, taskVars, connVars, held, fails, fault, procVars>>

\* m_server->Link: the thread enters accept and stays there until a
\* connection comes.
Link(w) ==
  /\ at[w] = "link" /\ listener = "watched"
  /\ Go(w, "accept")
  /\ UNCHANGED <<main, mainVars, taskVars, connVars, held, fails, fault, procVars>>

\* slip: a second worker finds the connection too.
AcceptPeeks(w, k) ==
  /\ at[w] = "accept" /\ listener = "watched" /\ k \in backlog
  /\ open' = open \cup {k}
  /\ held' = [held EXCEPT ![w] = k]
  /\ Go(w, "send")
  /\ UNCHANGED <<main, mainVars, taskVars, arrived, backlog, dropped, fails, fault, procVars>>

Accept(w, k) ==
  /\ at[w] = "accept" /\ listener = "watched" /\ k \in backlog
  /\ backlog' = backlog \ {k} /\ open' = open \cup {k}
  /\ held' = [held EXCEPT ![w] = k]
  /\ Go(w, "send")
  /\ UNCHANGED <<main, mainVars, taskVars, arrived, dropped, fails, fault, procVars>>

\* accept fails, for want of a descriptor.
AcceptFails(w) ==
  /\ at[w] = "accept" /\ listener = "watched" /\ backlog # {} /\ fails < MaxFails
  /\ Go(w, "wait") /\ fails' = fails + 1
  /\ UNCHANGED <<main, mainVars, taskVars, connVars, held, fault, procVars>>

\* SendSocket: the child gets a descriptor of its own, or SIGPIPE ends this
\* process.
SendSocket(w) ==
  /\ at[w] = "send"
  /\ Passing!SendFD(Child, held[w])
  /\ Go(w, "delete")
  /\ UNCHANGED <<main, mainVars, taskVars, connVars, held, fails, fault>>

\* slip: pClient is not deleted.
DeleteForgotten(w) ==
  /\ at[w] = "delete"
  /\ Go(w, "wait")
  /\ UNCHANGED <<main, mainVars, taskVars, connVars, held, fails, fault, procVars>>

\* slip: ThreadFunc ends after one connection.
DeleteReturns(w) ==
  /\ at[w] = "delete"
  /\ open' = open \ {held[w]}
  /\ held' = [held EXCEPT ![w] = None]
  /\ Go(w, "idle")
  /\ UNCHANGED <<main, mainVars, taskVars, arrived, backlog, dropped, fails, fault, procVars>>

\* delete pClient: the descriptor of this process is closed.
Delete(w) ==
  /\ at[w] = "delete"
  /\ open' = open \ {held[w]}
  /\ held' = [held EXCEPT ![w] = None]
  /\ Go(w, "wait")
  /\ UNCHANGED <<main, mainVars, taskVars, arrived, backlog, dropped, fails, fault, procVars>>

\* SendSocket fails otherwise, and pClient is deleted.
SendFails(w) ==
  /\ at[w] = "send" /\ fails < MaxFails
  /\ open' = open \ {held[w]} /\ dropped' = dropped \cup {held[w]}
  /\ held' = [held EXCEPT ![w] = None]
  /\ Go(w, "report") /\ fails' = fails + 1
  /\ UNCHANGED <<main, mainVars, taskVars, arrived, backlog, fault, procVars>>

\* The virtual operator int of the deleted pClient still answers.
Report(w) ==
  /\ at[w] = "report"
  /\ Go(w, "wait")
  /\ UNCHANGED <<main, mainVars, taskVars, connVars, held, fails, fault, procVars>>

\* The process ends with a dead object: pClient is used after its delete, or
\* m_server has become null since the comparison, or it is deleted under the
\* accept.
Crash(w) ==
  /\ \/ at[w] = "report" /\ fault' = "freed_client"
     \/ at[w] = "link" /\ m_server = "null" /\ fault' = "dead_server"
     \/ at[w] = "accept" /\ listener = "deleted" /\ backlog # {} /\ fault' = "dead_server"
  /\ Passing!ParentEnds
  /\ UNCHANGED <<main, mainVars, taskVars, connVars, at, held, fails>>

Worker(w) ==
  \/ Leave(w) \/ WaitEvents(w) \/ Event(w) \/ Link(w)
  \/ \E k \in Connections : Accept(w, k)
  \/ SendSocket(w) \/ Delete(w) \/ Report(w) \/ Crash(w)

-----------------------------------------------------------------------------
\* A client connects; bind and listen have made the port known.
Arrive(k) ==
  /\ k \notin arrived
  /\ \/ listener \in {"listening", "watched"}
     \/ listener = "deleted" /\ \E w \in Workers : at[w] = "accept"
  /\ arrived' = arrived \cup {k} /\ backlog' = backlog \cup {k}
  /\ UNCHANGED <<main, mainVars, taskVars, open, dropped, workVars, procVars>>

\* The business process: it calls BusinessProcess of the null object.
ChildStep ==
  /\ Passing!ChildStep(Child)
  /\ UNCHANGED <<main, mainVars, taskVars, connVars, workVars>>

Next ==
  \/ Alive /\ (InitStep \/ CloseStep)
  \/ \E w \in Workers : Alive /\ (Take(w) \/ Worker(w) \/ AcceptFails(w) \/ SendFails(w))
  \/ \E k \in Connections : Alive /\ Arrive(k)
  \/ ChildStep

Spec == Init /\ [][Next]_vars

\* The pool promises to call the first task only: ThreadFunc does not return,
\* and the other workers may be stuck in the accept of the pool.
FirstTake ==
  Alive /\ (\A w \in Workers : at[w] = "idle") /\ \E w \in Workers : Take(w)

\* Init and Close are straight-line code, the processes and their threads are
\* scheduled.  Nobody has to connect, and nothing has to fail.
FairSpec ==
  /\ Spec
  /\ WF_vars(Alive /\ CloseStep) /\ WF_vars(FirstTake) /\ WF_vars(ChildStep)
  /\ \A w \in Workers : WF_vars(Alive /\ Worker(w))

-----------------------------------------------------------------------------
Places == {"idle", "wait", "event", "link", "accept", "send", "delete", "report"}

MainTypes ==
  /\ main \in {"entry", "fork", "pool", "epoll", "socket", "listen", "watch", "tasks",
               "run", "close", "delete", "unwatch", "signal", "release", "closed"}
  /\ m_business \in {"null", "object"} /\ bound \in {"unset", "null", "object"}
  /\ pool \in {"new", "up", "closed"} /\ m_epoll \in {"unset", "open", "closed"}
  /\ m_server \in {"null", "set"}
  /\ listener \in {"none", "raw", "listening", "watched", "deleted"}
  /\ added \in 0..Count /\ tasks \in 0..added
  /\ main = "run" <=> added = Count

WorkTypes ==
  /\ at \in [Workers -> Places] /\ held \in [Workers -> Connections \cup {None}]
  /\ \A w \in Workers : held[w] # None <=> at[w] \in {"send", "delete"}
  /\ fails \in 0..MaxFails
  /\ fault \in {"none", "freed_client", "dead_server"}

ConnTypes ==
  /\ arrived \subseteq Connections /\ backlog \subseteq Connections
  /\ open \subseteq Connections /\ dropped \subseteq Connections

TypeOK == MainTypes /\ WorkTypes /\ ConnTypes /\ Passing!TypeOK

\* Connections that have been passed to the child.
Passed == {sent[Child][i] : i \in 1..Len(sent[Child])}

(***************************************************************************)
(* However many workers one connection wakes (Server.cpp:68), it is held   *)
(* by one of them, passed at most once, and never both passed and closed   *)
(* as failed; none is forgotten between the backlog and the child; and     *)
(* this process keeps a descriptor of those only that a worker still holds *)
(* (Server.cpp:79), so that the child alone decides when a client is       *)
(* disconnected.                                                           *)
(***************************************************************************)
HandedOver ==
  /\ \A v, w \in Workers : held[v] = held[w] /\ held[v] # None => v = w
  /\ \A i, j \in 1..Len(sent[Child]) : sent[Child][i] = sent[Child][j] => i = j
  /\ \A w \in Workers : held[w] \in Passed => at[w] = "delete"
  /\ arrived = backlog \cup open \cup Passed \cup dropped
  /\ backlog \cap open = {} /\ (backlog \cup open) \cap dropped = {}
  /\ Passed \cap (backlog \cup dropped) = {}
  /\ open = {held[w] : w \in Workers} \ {None}

(***************************************************************************)
(* Close takes the listener from workers it does not wait for              *)
(* (Server.cpp:51-55).  They use it after that only when Init has added    *)
(* some of its tasks and failed with a later one; once Init has succeeded, *)
(* or before it adds a task, nothing dead is touched.                      *)
(***************************************************************************)
Blame ==
  fault = "dead_server" => 0 < added /\ added < Count

(***************************************************************************)
(* A worker that loses the race for a connection blocks in accept          *)
(* (Server.cpp:76) and a pool may give ThreadFunc one worker only; still,  *)
(* every connection is taken from the backlog, as long as the process      *)
(* lives and is not closed.                                                *)
(***************************************************************************)
EveryConnectionTaken ==
  \A k \in Connections :
    k \in backlog /\ main = "run" ~> k \notin backlog \/ ~Alive

(***************************************************************************)
(* Server.cpp:18 says that the business object is associated with the      *)
(* entry function of m_process.                                            *)
(***************************************************************************)
BusinessBound == bound # "unset" => bound = "object"
=============================================================================
