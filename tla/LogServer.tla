----------------------------- MODULE LogServer -----------------------------
(***************************************************************************)
(* CLoggerServer while it serves and while it closes.  One thread of the   *)
(* log process (ThreadFunc) accepts the connections of the threads that    *)
(* call Trace, keeps each accepted CSocket in mapClients under its         *)
(* descriptor, and writes what it reads to the log file.  The main thread  *)
(* of the process calls Close, which deletes m_server, closes the epoll    *)
(* set and stops the thread without any lock.                              *)
(*                                                                         *)
(* A thread that calls Trace has one connection in its life (static        *)
(* thread_local), so the accepted CSocket is named by that thread.  The    *)
(* kernel reuses a descriptor as soon as it is closed.                     *)
(***************************************************************************)
EXTENDS Naturals, Sequences, FiniteSets

CONSTANTS
  Threads,    \* threads, of any process, that call Trace
  Fds,        \* descriptors left to the log process for connections
  MaxLogs,    \* bound: records a thread sends
  Capacity,   \* records that fit into one connection
  Backlog,    \* connections that listen lets wait
  Hazards,    \* which of the LogHazards a run lets happen
  Listener,   \* m_server as an epoll event source
  None        \* nullptr in mapClients, no descriptor

LogHazards == {"exit",      \* a tracing thread ends
               "close",     \* the main thread calls Close
               "epollerr",  \* epoll reports EPOLLERR for a connection
               "refuse"}    \* epoll_ctl refuses a new connection

ASSUME LogAssumption ==
  /\ MaxLogs \in Nat /\ Capacity \in Nat \ {0} /\ Backlog \in Nat \ {0}
  /\ Listener \notin Threads
  /\ None \notin Threads \cup Fds \cup {Listener}
  /\ Hazards \subseteq LogHazards

VARIABLES
  server,       \* m_server: "listening", "null" (not deleted yet), "deleted"
  epoll,        \* m_epoll: "open" or "closed" (-1)
  valid,        \* m_thread # 0
  closer,       \* how far Close, run by the main thread, has come
  client,       \* client[a]: the thread_local CSocket of a
  wire,         \* wire[a]: records in a's connection
  sent,         \* history: the records a has sent
  object,       \* object[a]: the accepted CSocket of a's connection
  fd,           \* fd[a]: its m_socket
  mapClients,   \* mapClients[f]: the CSocket stored for descriptor f
  written,      \* written[a]: the records of a in the log file, in their order
  pc,           \* place of ThreadFunc
  events, cur,  \* its events not handled yet, its pClient
  fault         \* undefined behaviour, or a signal killed a process

ownVars == <<server, epoll, closer>>
traceVars == <<client, sent>>
connVars == <<wire, object, fd, mapClients, written>>
loopVars == <<pc, events, cur, valid>>
vars == <<server, epoll, closer, client, sent, wire, object, fd, mapClients, written,
          pc, events, cur, valid, fault>>

Init ==  \* Start has returned 0
  /\ server = "listening" /\ epoll = "open" /\ closer = "serving"
  /\ client = [a \in Threads |-> "none"]
  /\ sent = [a \in Threads |-> <<>>]
  /\ wire = [a \in Threads |-> <<>>]
  /\ object = [a \in Threads |-> "none"]
  /\ fd = [a \in Threads |-> None]
  /\ mapClients = [f \in Fds |-> None]
  /\ written = [a \in Threads |-> <<>>]
  /\ pc = "wait" /\ events = {} /\ cur = None /\ valid = TRUE
  /\ fault = "none"

-----------------------------------------------------------------------------
(* Trace, run by thread a.                                                 *)

\* Connections that nobody has accepted yet.
Waiting == {a \in Threads : object[a] = "queued"}

\* First call: Init and Link; the result of Link is ignored.  connect waits
\* for room in the backlog and fails once the path is gone.
TraceConnect(a) ==
  /\ client[a] = "none"
  /\ \/ /\ server # "deleted" /\ Cardinality(Waiting) < Backlog
        /\ client' = [client EXCEPT ![a] = "linked"]
        /\ object' = [object EXCEPT ![a] = "queued"]
     \/ /\ server = "deleted"
        /\ client' = [client EXCEPT ![a] = "init"]
        /\ UNCHANGED object
  /\ UNCHANGED <<ownVars, sent, wire, fd, mapClients, written, loopVars, fault>>

\* The log process still holds its end of a's connection.
PeerOpen(a) ==
  /\ closer # "exited"
  /\ \/ object[a] \in {"accepted", "watched"}
     \/ object[a] = "queued" /\ server # "deleted"

\* Send: write waits for room; without a reader it raises SIGPIPE.
TraceSend(a) ==
  /\ client[a] = "linked" /\ Len(sent[a]) < MaxLogs
  /\ \/ /\ PeerOpen(a) /\ Len(wire[a]) < Capacity
        /\ wire' = [wire EXCEPT ![a] = Append(@, Len(sent[a]) + 1)]
        /\ sent' = [sent EXCEPT ![a] = Append(@, Len(@) + 1)]
        /\ UNCHANGED fault
     \/ /\ ~PeerOpen(a)
        /\ fault' = "sigpipe"
        /\ UNCHANGED <<wire, sent>>
  /\ UNCHANGED <<ownVars, client, object, fd, mapClients, written, loopVars>>

\* The thread ends and its thread_local socket is closed.
Exit(a) ==
  /\ "exit" \in Hazards
  /\ client[a] # "closed"
  /\ client' = [client EXCEPT ![a] = "closed"]
  /\ UNCHANGED <<ownVars, sent, connVars, loopVars, fault>>

-----------------------------------------------------------------------------
(* ThreadFunc.                                                             *)

Ready ==
  {a \in Threads : object[a] = "watched" /\ (wire[a] # <<>> \/ client[a] = "closed")}
  \cup {s \in {Listener} : server # "deleted" /\ Waiting # {}}

\* The condition of the while loop.
KeepsRunning == valid /\ epoll = "open" /\ server = "listening"

\* WaitEvents returns events, perhaps after Close has begun.
WaitEvents ==
  /\ pc = "wait" /\ Ready # {}
  /\ pc' = "batch" /\ events' = Ready
  /\ UNCHANGED <<ownVars, traceVars, connVars, cur, valid, fault>>

\* It times out or fails, and the loop ends.
LeaveWait ==
  /\ pc = "wait" /\ ~KeepsRunning
  /\ pc' = "cleanup"
  /\ UNCHANGED <<ownVars, traceVars, connVars, events, cur, valid, fault>>

EndBatch ==
  /\ pc = "batch" /\ events = {}
  /\ pc' = IF KeepsRunning THEN "wait" ELSE "cleanup"
  /\ UNCHANGED <<ownVars, traceVars, connVars, events, cur, valid, fault>>

\* EPOLLERR on any connection ends the loop for all of them.
BatchError ==
  /\ "epollerr" \in Hazards
  /\ pc = "batch" /\ events \ {Listener} # {}
  /\ pc' = "cleanup" /\ events' = {}
  /\ UNCHANGED <<ownVars, traceVars, connVars, cur, valid, fault>>

\* data.ptr == m_server: on to m_server->Link.
PickListener ==
  /\ pc = "batch" /\ Listener \in events /\ server = "listening"
  /\ pc' = "accept" /\ events' = events \ {Listener}
  /\ UNCHANGED <<ownVars, traceVars, connVars, cur, valid, fault>>

\* accept returns the next connection and the lowest free descriptor.
Accept(a, f) ==
  /\ pc = "accept" /\ server = "listening"
  /\ object[a] = "queued" /\ \A b \in Threads : fd[b] # f
  /\ object' = [object EXCEPT ![a] = "accepted"]
  /\ fd' = [fd EXCEPT ![a] = f]
  /\ cur' = a /\ pc' = "add"
  /\ UNCHANGED <<ownVars, traceVars, wire, mapClients, written, events, valid, fault>>

\* slip: the loop is left in accept until a descriptor is free.
AcceptRetries ==
  /\ pc = "accept" /\ server = "listening"
  /\ \A f \in Fds : \E b \in Threads : fd[b] = f
  /\ UNCHANGED vars

\* No descriptor is free: Link fails and the loop goes on.
AcceptFails ==
  /\ pc = "accept" /\ server = "listening"
  /\ \A f \in Fds : \E b \in Threads : fd[b] = f
  /\ pc' = "batch"
  /\ UNCHANGED <<ownVars, traceVars, connVars, events, cur, valid, fault>>

\* delete of the CSocket of a: its descriptor is free again.
Deleted(a) ==
  /\ object' = [object EXCEPT ![a] = "deleted"]
  /\ fd' = [fd EXCEPT ![a] = None]

\* slip: the loop goes on with the deleted pClient.
AddFailsKeepsClient ==
  /\ pc = "add"
  /\ epoll = "closed" \/ "refuse" \in Hazards
  /\ Deleted(cur)
  /\ pc' = "batch"
  /\ UNCHANGED <<ownVars, traceVars, wire, mapClients, written, events, cur, valid, fault>>

\* m_epoll.Add fails.
AddFails ==
  /\ pc = "add"
  /\ epoll = "closed" \/ "refuse" \in Hazards
  /\ Deleted(cur)
  /\ cur' = None /\ pc' = "batch"
  /\ UNCHANGED <<ownVars, traceVars, wire, mapClients, written, events, valid, fault>>

\* m_epoll.Add succeeds.  What mapClients has for the descriptor, if
\* anything, is deleted before the entry is replaced.
Register ==
  /\ pc = "add" /\ epoll = "open"
  /\ LET old == mapClients[fd[cur]]
     IN  /\ object' = [a \in Threads |-> IF a = cur THEN "watched"
                                         ELSE IF a = old THEN "deleted" ELSE object[a]]
         /\ fd' = [a \in Threads |-> IF a = old THEN None ELSE fd[a]]
         /\ fault' = IF old # None /\ object[old] = "deleted" THEN "dead_object" ELSE fault
  /\ mapClients' = [mapClients EXCEPT ![fd[cur]] = cur]
  /\ cur' = None /\ pc' = "batch"
  /\ UNCHANGED <<ownVars, traceVars, wire, written, events, valid>>

\* slip: a short buffer, the rest of the records is dropped.
RecvTruncates(a) ==
  /\ pc = "batch" /\ a \in events
  /\ object[a] = "watched" /\ wire[a] # <<>>
  /\ written' = [written EXCEPT ![a] = Append(@, Head(wire[a]))]
  /\ wire' = [wire EXCEPT ![a] = <<>>]
  /\ events' = events \ {a}
  /\ UNCHANGED <<ownVars, traceVars, object, fd, mapClients, pc, cur, valid, fault>>

\* Recv returns what the connection holds and WriteLog appends it.
Recv(a) ==
  /\ pc = "batch" /\ a \in events
  /\ object[a] = "watched" /\ wire[a] # <<>>
  /\ written' = [written EXCEPT ![a] = @ \o wire[a]]
  /\ wire' = [wire EXCEPT ![a] = <<>>]
  /\ events' = events \ {a}
  /\ UNCHANGED <<ownVars, traceVars, object, fd, mapClients, pc, cur, valid, fault>>

\* slip: pClient is deleted first, so mapClients[-1] is cleared instead.
RecvEndKeepsEntry(a) ==
  /\ pc = "batch" /\ a \in events
  /\ object[a] = "watched" /\ wire[a] = <<>>
  /\ Deleted(a)
  /\ events' = events \ {a}
  /\ UNCHANGED <<ownVars, traceVars, wire, mapClients, written, pc, cur, valid, fault>>

\* slip: the end of the thread ends its connection, whatever is left in it.
RecvEndEarly(a) ==
  /\ pc = "batch" /\ a \in events
  /\ object[a] = "watched" /\ (wire[a] = <<>> \/ client[a] = "closed")
  /\ mapClients' = [mapClients EXCEPT ![fd[a]] = None]
  /\ Deleted(a)
  /\ events' = events \ {a}
  /\ UNCHANGED <<ownVars, traceVars, wire, written, pc, cur, valid, fault>>

\* Recv reports the end: nullptr into mapClients, then delete.
RecvEnd(a) ==
  /\ pc = "batch" /\ a \in events
  /\ object[a] = "watched" /\ wire[a] = <<>>
  /\ mapClients' = [mapClients EXCEPT ![fd[a]] = None]
  /\ Deleted(a)
  /\ events' = events \ {a}
  /\ UNCHANGED <<ownVars, traceVars, wire, written, pc, cur, valid, fault>>

\* After the loop: delete whatever mapClients holds; ThreadEntry then clears
\* m_thread.
Cleanup ==
  /\ pc = "cleanup"
  /\ LET held == {a \in Threads : \E f \in Fds : mapClients[f] = a}
     IN  /\ object' = [a \in Threads |-> IF a \in held THEN "deleted" ELSE object[a]]
         /\ fd' = [a \in Threads |-> IF a \in held THEN None ELSE fd[a]]
         /\ fault' = IF \E a \in held : object[a] = "deleted" THEN "dead_object" ELSE fault
  /\ mapClients' = [f \in Fds |-> None]
  /\ pc' = "done" /\ valid' = FALSE
  /\ UNCHANGED <<ownVars, traceVars, wire, written, events, cur>>

\* The thread uses m_server after Close has taken it away: Link through a
\* null pointer, or the deleted listener mistaken for a client because its
\* pointer no longer equals m_server.
TouchesDead ==
  \/ pc = "accept" /\ server # "listening"
  \/ pc = "batch" /\ Listener \in events /\ server # "listening"
  \/ pc = "batch" /\ \E a \in Threads \cap events : object[a] = "deleted"

Crash ==
  /\ TouchesDead
  /\ fault' = "dead_object"
  /\ UNCHANGED <<ownVars, traceVars, connVars, loopVars>>

-----------------------------------------------------------------------------
(* Close, run by the main thread of the log process.                       *)

CloseServer ==
  /\ "close" \in Hazards /\ closer = "serving"
  /\ closer' = "server" /\ server' = "null"
  /\ UNCHANGED <<epoll, traceVars, connVars, loopVars, fault>>

\* ~CSocket: the listening socket is closed and its path removed.
DeleteServer ==
  /\ closer = "server"
  /\ closer' = "epoll" /\ server' = "deleted"
  /\ UNCHANGED <<epoll, traceVars, connVars, loopVars, fault>>

CloseEpoll ==
  /\ closer = "epoll"
  /\ closer' = "stop" /\ epoll' = "closed"
  /\ UNCHANGED <<server, traceVars, connVars, loopVars, fault>>

\* CThread::Stop: the join has a deadline in 1970, so a thread that has not
\* ended yet is sent SIGUSR2, whose handler ends it wherever it is.
StopThread ==
  /\ closer = "stop"
  /\ closer' = "stopped" /\ valid' = FALSE
  /\ pc' = IF pc = "done" THEN pc ELSE "killed"
  /\ UNCHANGED <<server, epoll, traceVars, connVars, events, cur, fault>>

\* CreateLogServer returns and the process exits.
ProcessExit ==
  /\ closer = "stopped"
  /\ closer' = "exited"
  /\ UNCHANGED <<server, epoll, traceVars, connVars, loopVars, fault>>

-----------------------------------------------------------------------------
ThreadFunc ==
  \/ WaitEvents \/ LeaveWait \/ EndBatch \/ PickListener
  \/ \E a \in Threads, f \in Fds : Accept(a, f)
  \/ AcceptFails \/ AddFails \/ Register
  \/ \E a \in Threads : Recv(a) \/ RecvEnd(a)
  \/ Cleanup

Close == CloseServer \/ DeleteServer \/ CloseEpoll \/ StopThread \/ ProcessExit

Next ==
  /\ fault = "none"
  /\ \/ ThreadFunc \/ BatchError \/ Crash
     \/ Close
     \/ \E a \in Threads : TraceConnect(a) \/ TraceSend(a) \/ Exit(a)

Spec == Init /\ [][Next]_vars

(***************************************************************************)
(* The threads of the log process are scheduled, and Close, once called,   *)
(* goes on.  Nothing makes a thread call Trace.                            *)
(***************************************************************************)
FairSpec ==
  /\ Spec
  /\ WF_vars(fault = "none" /\ ThreadFunc)
  /\ WF_vars(fault = "none" /\ closer # "serving" /\ Close)

-----------------------------------------------------------------------------
TypeOK ==
  /\ server \in {"listening", "null", "deleted"}
  /\ epoll \in {"open", "closed"}
  /\ closer \in {"serving", "server", "epoll", "stop", "stopped", "exited"}
  /\ client \in [Threads -> {"none", "init", "linked", "closed"}]
  /\ object \in [Threads -> {"none", "queued", "accepted", "watched", "deleted"}]
  /\ sent \in [Threads -> Seq(1..MaxLogs)]
  /\ wire \in [Threads -> Seq(1..MaxLogs)]
  /\ written \in [Threads -> Seq(1..MaxLogs)]
  /\ fd \in [Threads -> Fds \cup {None}]
  /\ mapClients \in [Fds -> Threads \cup {None}]
  /\ pc \in {"wait", "batch", "accept", "add", "cleanup", "done", "killed"}
  /\ events \in SUBSET (Threads \cup {Listener})
  /\ cur \in Threads \cup {None}
  /\ pc = "add" => cur # None
  /\ cur # None => pc \in {"add", "killed"}
  /\ valid \in BOOLEAN
  /\ fault \in {"none", "sigpipe", "dead_object"}

(***************************************************************************)
(* mapClients is right about who owns which descriptor although the kernel *)
(* reuses them: every entry is a live, watched CSocket with that           *)
(* descriptor, and every open descriptor is in the map or in the hands of  *)
(* the step between accept and Add.  So "delete it->second"                *)
(* (Logger.cpp:135) never hits a live connection, the final loop (210-212) *)
(* deletes each CSocket once, and none is leaked.                          *)
(***************************************************************************)
MapOwnsFds ==
  /\ \A f \in Fds : mapClients[f] # None =>
       object[mapClients[f]] = "watched" /\ fd[mapClients[f]] = f
  /\ \A a \in Threads : fd[a] # None => mapClients[fd[a]] = a \/ cur = a
  /\ \A a \in Threads : object[a] = "watched" => fd[a] # None

(***************************************************************************)
(* The records of a thread reach the file in the order of its Trace calls, *)
(* none twice and none left out; and a connection is deleted with records  *)
(* still in it only once the loop has ended, Close has closed the epoll    *)
(* set, or where Add refused it before its first record was read: never    *)
(* because its thread ended while they were on their way, and never in the *)
(* middle of what the file has of the thread.                              *)
(***************************************************************************)
NothingLost ==
  \A a \in Threads :
    /\ written[a] \o wire[a] = sent[a]
    /\ object[a] = "deleted" /\ wire[a] # <<>> =>
         \/ pc \in {"done", "killed"} \/ epoll = "closed"
         \/ "refuse" \in Hazards /\ written[a] = <<>>

(***************************************************************************)
(* The log server implements LogFile.  Once one record of a thread is in   *)
(* the file, its later ones follow as long as the epoll set is open and    *)
(* ThreadFunc runs: not the end of the thread, not a reused descriptor,    *)
(* only a failed Add of a new connection, which has no record in the file  *)
(* yet, may lose what it holds; and nothing follows a deleted connection.  *)
(***************************************************************************)
LF == INSTANCE LogFile WITH
        pending <- wire,
        file <- written,
        over <- {a \in Threads : object[a] = "deleted"},
        broken <- pc \in {"done", "killed"} \/ epoll = "closed",
        MayRefuse <- "refuse" \in Hazards

LogAsPromised == LF!Spec

(***************************************************************************)
(* What may kill a process, in the state that ends it.  The log thread     *)
(* touches no deleted connection at all, and m_server only after Close has *)
(* taken it away between the event and its use (Logger.cpp:105-106).       *)
(* Trace dies of SIGPIPE only where Close has caught its connection, the   *)
(* loop has ended, before Close by EPOLLERR alone, or Add refused it       *)
(* before the first of its records was read.                               *)
(***************************************************************************)
Blame ==
  /\ fault = "dead_object" =>
       /\ closer # "serving" /\ server # "listening"
       /\ pc = "accept" \/ (pc = "batch" /\ Listener \in events)
  /\ fault = "sigpipe" =>
       \E a \in Threads :
         /\ client[a] = "linked"
         /\ \/ closer = "exited"
            \/ object[a] = "queued" /\ server = "deleted"
            \/ object[a] = "deleted" /\
                 \/ epoll = "closed"
                 \/ pc = "done" /\ (closer # "serving" \/ "epollerr" \in Hazards)
                 \/ "refuse" \in Hazards /\ written[a] = <<>>

(***************************************************************************)
(* A record in an accepted connection is written in the end, also while    *)
(* the listener is always ready because no descriptor is left to accept    *)
(* with.                                                                   *)
(***************************************************************************)
AcceptedIsWritten ==
  \A a \in Threads :
    object[a] = "watched" /\ wire[a] # <<>>
      ~> wire[a] = <<>> \/ pc \in {"done", "killed"} \/ fault # "none"
=============================================================================
