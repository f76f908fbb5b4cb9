------------------------------ MODULE Business ------------------------------
(***************************************************************************)
(* CHPlayServer: what CServer's child runs once a business object is bound *)
(* to its entry (today null is bound, see module Server).  One thread sets *)
(* everything up and then receives the connections the acceptor passes;    *)
(* the workers of a pool wait for their events.                            *)
(*                                                                         *)
(* Three things shape it.  The receive loop takes a message without a      *)
(* descriptor for the end of the stream.  Nobody ever closes a connection. *)
(* And an event is never consumed: Recv reads into an empty Buffer, so a   *)
(* connection that has once been readable is reported for ever.            *)
(***************************************************************************)
EXTENDS Integers, Sequences, FiniteSets

CONSTANTS
  MaxPassed,    \* bound: connections the acceptor passes
  Workers,      \* workers of m_pool
  Count,        \* m_count: how often ThreadFunc is added
  Capacity,     \* messages that fit into the socketpair
  Room,         \* connections that fit into the descriptor table
  EventSize,    \* EVENT_SIZE, events of one WaitEvents
  MaxResets     \* bound: connections that are reset

ASSUME BusinessAssumption ==
  /\ MaxPassed \in Nat /\ Capacity \in Nat \ {0} /\ Count \in Nat \ {0}
  /\ Room \in Nat \ {0} /\ EventSize \in Nat \ {0} /\ MaxResets \in Nat

\* Connections are numbered in the order in which they are passed.
Connections == 1..MaxPassed
None == 0

VARIABLES
  main,       \* place of BusinessProcess, or "ended": the process is gone
  added,      \* AddTask calls
  tasks,      \* ThreadFunc tasks that no worker has taken
  sock,       \* the connection in hand between RecvSocket and m_connected
  status,     \* what m_epoll.Add returned for it
  open,       \* connections this process has a descriptor of
  watched,    \* connections in m_epoll
  announced,  \* connections m_connected has been called with
  at, events, \* per worker: place in ThreadFunc, events still to be handled
  ready,      \* m_epoll's ready list
  seen,       \* connections whose pClient->Recv has been called
  received,   \* connections m_recvdone has been called with
  parent,     \* the acceptor: "runs", "ended", or "killed" by SIGPIPE
  passed,     \* connections SendSocket has sent
  taken,      \* those of them RecvSocket has taken from the socketpair
  lost,       \* history: how many of these came without a descriptor
  client      \* per connection: "quiet", "readable", "reset"

setupVars == <<added, tasks>>
loopVars == <<sock, status, open, watched, announced>>
workVars == <<at, events, seen, received>>
pipeVars == <<parent, passed, taken, lost>>
vars == <<main, setupVars, loopVars, workVars, ready, pipeVars, client>>

Init ==
  /\ main = "connect" /\ added = 0 /\ tasks = 0
  /\ sock = None /\ status = 0
  /\ open = {} /\ watched = {} /\ announced = {}
  /\ at = [w \in Workers |-> "idle"] /\ events = [w \in Workers |-> <<>>]
  /\ ready = <<>> /\ seen = {} /\ received = {}
  /\ parent = "runs" /\ passed = 0 /\ taken = 0 /\ lost = 0
  /\ client = [k \in Connections |-> "quiet"]

Alive == main # "ended"

-----------------------------------------------------------------------------
(* BusinessProcess up to the loop.                                         *)

\* The database: Connect, which also fails when the uninitialised m_bInit
\* happens to be true, and Exec of TCreate.
Connect ==
  /\ main = "connect" /\ main' = "create"
  /\ UNCHANGED <<setupVars, loopVars, workVars, ready, pipeVars, client>>

CreateTable ==
  /\ main = "create" /\ main' = "epoll"
  /\ UNCHANGED <<setupVars, loopVars, workVars, ready, pipeVars, client>>

\* setConnected and setRecvDone cannot fail; then m_epoll.Create.
CreateEpoll ==
  /\ main = "epoll" /\ main' = "pool"
  /\ UNCHANGED <<setupVars, loopVars, workVars, ready, pipeVars, client>>

StartPool ==
  /\ main = "pool" /\ main' = "tasks"
  /\ UNCHANGED <<setupVars, loopVars, workVars, ready, pipeVars, client>>

\* slip: <= instead of < in the loop.
AddTaskOnceMore ==
  /\ main = "tasks"
  /\ added' = added + 1 /\ tasks' = tasks + 1
  /\ main' = IF added + 1 > Count THEN "recv" ELSE "tasks"
  /\ UNCHANGED <<loopVars, workVars, ready, pipeVars, client>>

\* The loop over m_count.
AddTask ==
  /\ main = "tasks"
  /\ added' = added + 1 /\ tasks' = tasks + 1
  /\ main' = IF added + 1 = Count THEN "recv" ELSE "tasks"
  /\ UNCHANGED <<loopVars, workVars, ready, pipeVars, client>>

\* BusinessProcess returns, and the child calls exit whatever it returns.
SetupFails ==
  /\ main \in {"connect", "create", "epoll", "pool", "tasks"}
  /\ main' = "ended"
  /\ UNCHANGED <<setupVars, loopVars, workVars, ready, pipeVars, client>>

Setup == Connect \/ CreateTable \/ CreateEpoll \/ StartPool \/ AddTask

-----------------------------------------------------------------------------
(* The receive loop.                                                       *)

Full == Cardinality(open) = Room

\* slip: a failed RecvSocket is tried again.
RecvSocketRetries ==
  /\ main = "recv" /\ taken < passed
  /\ taken' = taken + 1
  /\ \/ /\ ~Full
        /\ sock' = taken + 1 /\ open' = open \cup {taken + 1}
        /\ main' = "add"
     \/ Full /\ UNCHANGED <<main, sock, open>>
  /\ UNCHANGED <<setupVars, status, watched, announced, workVars, ready>>
  /\ UNCHANGED <<parent, passed, lost, client>>

\* RecvSocket.  A full table lets recvmsg succeed without a descriptor: sock
\* is the 0 of the zeroed control buffer, and the loop ends.  Otherwise pClient
\* is made, and its Init finds it connected.
RecvSocket ==
  /\ main = "recv" /\ taken < passed
  /\ taken' = taken + 1
  /\ \/ /\ ~Full
        /\ sock' = taken + 1 /\ open' = open \cup {taken + 1}
        /\ main' = "add"
        /\ UNCHANGED lost
     \/ /\ Full
        /\ lost' = lost + 1
        /\ main' = "ended"
        /\ UNCHANGED <<sock, open>>
  /\ UNCHANGED <<setupVars, status, watched, announced, workVars, ready>>
  /\ UNCHANGED <<parent, passed, client>>

\* The end of the stream: sock is 0 again.
RecvEnd ==
  /\ main = "recv" /\ taken = passed /\ parent # "runs"
  /\ main' = "ended"
  /\ UNCHANGED <<setupVars, loopVars, workVars, ready, pipeVars, client>>

Listed(k) == \E i \in 1..Len(ready) : ready[i] = k

\* m_epoll.Add; a connection that has something to report is ready at once.
Add ==
  /\ main = "add" /\ main' = "announce"
  /\ \/ /\ status' = 0 /\ watched' = watched \cup {sock}
        /\ ready' = IF client[sock] = "quiet" THEN ready ELSE Append(ready, sock)
     \/ status' = -2 /\ UNCHANGED <<watched, ready>>
  /\ UNCHANGED <<setupVars, sock, open, announced, workVars, pipeVars, client>>

\* slip: WARN_CONTINUE before m_connected.
AnnounceChecksFirst ==
  /\ main = "announce" /\ main' = "recv"
  /\ announced' = IF status = 0 THEN announced \cup {sock} ELSE announced
  /\ sock' = None /\ status' = 0
  /\ UNCHANGED <<setupVars, open, watched, workVars, ready, pipeVars, client>>

\* slip: an Add that has failed ends the loop.
AnnounceBreaks ==
  /\ main = "announce" /\ main' = IF status = 0 THEN "recv" ELSE "ended"
  /\ announced' = announced \cup {sock} /\ sock' = None /\ status' = 0
  /\ UNCHANGED <<setupVars, open, watched, workVars, ready, pipeVars, client>>

\* m_connected is called whatever Add has returned; then WARN_CONTINUE forgets
\* a pClient that is not watched, and leaves it open.  (The next RecvSocket
\* overwrites what Add has returned.)
Announce ==
  /\ main = "announce" /\ main' = "recv"
  /\ announced' = announced \cup {sock} /\ sock' = None /\ status' = 0
  /\ UNCHANGED <<setupVars, open, watched, workVars, ready, pipeVars, client>>

Loop == RecvSocket \/ RecvEnd \/ Add \/ Announce

-----------------------------------------------------------------------------
(* ThreadFunc, run by worker w.                                            *)

Take(w) ==
  /\ at[w] = "idle" /\ tasks > 0
  /\ at' = [at EXCEPT ![w] = "wait"] /\ tasks' = tasks - 1
  /\ UNCHANGED <<main, added, loopVars, events, seen, received, ready, pipeVars, client>>

Rotate(s, n) == SubSeq(s, n + 1, Len(s)) \o SubSeq(s, 1, n)

\* epoll_wait takes the first events of the list and, since they are level-
\* triggered, puts them back at its end.
WaitEvents(w) ==
  /\ at[w] = "wait" /\ ready # <<>>
  /\ LET size == IF Len(ready) < EventSize THEN Len(ready) ELSE EventSize
     IN  /\ events' = [events EXCEPT ![w] =
                         [i \in 1..size |-> [ptr |-> ready[i],
                                             err |-> client[ready[i]] = "reset"]]]
         /\ ready' = Rotate(ready, size)
  /\ at' = [at EXCEPT ![w] = "event"]
  /\ UNCHANGED <<main, setupVars, loopVars, seen, received, pipeVars, client>>

\* Buffer data: without a size it has no room.
DataSize == 0

\* What Recv returns: read of no bytes is 0, which counts as closed.
Recv == IF DataSize = 0 THEN -3 ELSE DataSize

Rest(w, list) ==
  /\ events' = [events EXCEPT ![w] = list]
  /\ at' = [at EXCEPT ![w] = IF list = <<>> THEN "wait" ELSE "event"]

\* slip: the loop breaks also on what Recv returns.
EventBreaks(w) ==
  /\ at[w] = "event"
  /\ LET e == Head(events[w])
     IN  seen' = IF e.err THEN seen ELSE seen \cup {e.ptr}
  /\ Rest(w, <<>>)
  /\ UNCHANGED <<main, setupVars, loopVars, received, ready, pipeVars, client>>

\* slip: EPOLLERR skips its own connection only.
EventSkips(w) ==
  /\ at[w] = "event"
  /\ LET e == Head(events[w])
     IN  seen' = IF e.err THEN seen ELSE seen \cup {e.ptr}
  /\ Rest(w, Tail(events[w]))
  /\ UNCHANGED <<main, setupVars, loopVars, received, ready, pipeVars, client>>

\* One event: EPOLLERR breaks the loop over the events; otherwise Recv, and
\* m_recvdone if that has returned 0.
Event(w) ==
  /\ at[w] = "event"
  /\ LET e == Head(events[w])
     IN  \/ /\ e.err
            /\ Rest(w, <<>>)
            /\ UNCHANGED <<seen, received>>
         \/ /\ ~e.err
            /\ seen' = seen \cup {e.ptr}
            /\ received' = IF Recv = 0 THEN received \cup {e.ptr} ELSE received
            /\ Rest(w, Tail(events[w]))
  /\ UNCHANGED <<main, setupVars, loopVars, ready, pipeVars, client>>

Worker(w) == WaitEvents(w) \/ Event(w)

-----------------------------------------------------------------------------
(* The acceptor and the clients.                                           *)

\* SendSocket, or SIGPIPE when this process is gone.
Pass ==
  /\ parent = "runs" /\ passed < MaxPassed
  /\ \/ /\ Alive /\ passed - taken < Capacity
        /\ passed' = passed + 1
        /\ UNCHANGED parent
     \/ /\ ~Alive
        /\ parent' = "killed"
        /\ UNCHANGED passed
  /\ UNCHANGED <<main, setupVars, loopVars, workVars, ready, taken, lost, client>>

ParentEnds ==
  /\ parent = "runs" /\ parent' = "ended"
  /\ UNCHANGED <<main, setupVars, loopVars, workVars, ready, passed, taken, lost, client>>

\* A client sends or closes ("readable"), or resets its connection.
Client(k, state) ==
  /\ Alive /\ k <= passed
  /\ client[k] # state /\ client[k] # "reset"
  /\ state = "reset" => Cardinality({j \in Connections : client[j] = "reset"}) < MaxResets
  /\ client' = [client EXCEPT ![k] = state]
  /\ ready' = IF k \in watched /\ ~Listed(k) THEN Append(ready, k) ELSE ready
  /\ UNCHANGED <<main, setupVars, loopVars, workVars, pipeVars>>

Next ==
  \/ Setup \/ SetupFails \/ Loop \/ Pass \/ ParentEnds
  \/ \E w \in Workers : Alive /\ (Take(w) \/ Worker(w))
  \/ \E k \in Connections : Client(k, "readable") \/ Client(k, "reset")

Spec == Init /\ [][Next]_vars

\* The pool promises to call the first task only, since ThreadFunc never
\* returns and the other workers may be stuck in the accept of the pool.
FirstTake == Alive /\ (\A w \in Workers : at[w] = "idle") /\ \E w \in Workers : Take(w)

\* The threads are scheduled; nothing has to be passed, sent or to fail.
FairSpec ==
  /\ Spec
  /\ WF_vars(Setup) /\ WF_vars(Loop) /\ WF_vars(FirstTake)
  /\ \A w \in Workers : WF_vars(Alive /\ Worker(w))

-----------------------------------------------------------------------------
Distinct(s) == \A i, j \in 1..Len(s) : s[i] = s[j] => i = j

Elements(s) == {s[i] : i \in 1..Len(s)}
InReady == Elements(ready)

LoopTypes ==
  /\ main \in {"connect", "create", "epoll", "pool", "tasks", "recv", "add", "announce", "ended"}
  /\ added \in 0..Count /\ tasks \in 0..added
  /\ sock \in Connections \cup {None} /\ status \in {0, -2}
  /\ open \subseteq Connections /\ watched \subseteq open /\ announced \subseteq open

WorkTypes ==
  /\ at \in [Workers -> {"idle", "wait", "event"}]
  /\ events \in [Workers -> Seq([ptr : Connections, err : BOOLEAN])]
  /\ \A w \in Workers : at[w] = "event" <=> events[w] # <<>>
  /\ ready \in Seq(Connections)

PassTypes ==
  /\ parent \in {"runs", "ended", "killed"}
  /\ passed \in 0..MaxPassed /\ taken \in 0..passed /\ lost \in 0..1
  /\ client \in [Connections -> {"quiet", "readable", "reset"}]

TypeOK ==
  /\ LoopTypes /\ WorkTypes /\ PassTypes
  /\ seen \subseteq watched /\ received \subseteq seen

(***************************************************************************)
(* Connections are taken in order, and all that were taken are open and    *)
(* announced, those m_epoll refused included, but for the one in hand; one *)
(* is lost to a full table, and that ends the process, together with all   *)
(* that are still on their way (HPlayServer.cpp:54-66).  The ready list    *)
(* has each watched connection that has something to report, once.         *)
(***************************************************************************)
Accounted ==
  /\ open = 1..(taken - lost)
  /\ lost = 1 => main = "ended" /\ Full
  /\ announced = open \ {sock}
  /\ sock = IF main \in {"add", "announce"} THEN taken ELSE None
  /\ Distinct(ready) /\ InReady = {k \in watched : client[k] # "quiet"}

(***************************************************************************)
(* The process ends because its setup has failed, because the acceptor is  *)
(* gone and everything passed has been taken, or because Room connections  *)
(* have been received since it began, however many clients have left since *)
(* (HPlayServer.cpp:55-56); only then can it take the acceptor with it.    *)
(***************************************************************************)
Blame ==
  /\ main = "ended" => \/ added < Count
                       \/ parent # "runs" /\ taken = passed /\ lost = 0
                       \/ lost = 1 /\ Full
  /\ parent = "killed" => main = "ended" /\ (added < Count \/ lost = 1)

(***************************************************************************)
(* Every connection that is passed is announced (HPlayServer.cpp:62-64),   *)
(* also when m_epoll does not take it, unless the process ends.            *)
(***************************************************************************)
EveryAnnounced == \A k \in Connections : k <= passed ~> k \in announced \/ main = "ended"

Ahead(r, k) ==
  \E i, j \in 1..Len(ready) : i < j /\ ready[i] = r /\ ready[j] = k

(***************************************************************************)
(* A connection with something to report is looked at by some worker,      *)
(* unless it has been reset or one that has been reset is ahead of it in   *)
(* the ready list: EPOLLERR ends the round over the events, not the turn   *)
(* of its connection (HPlayServer.cpp:79).                                 *)
(***************************************************************************)
LookedAt ==
  \A k \in Connections :
    k \in InReady ~> \/ k \in seen \/ main = "ended" \/ client[k] = "reset"
                     \/ \E r \in Connections : client[r] = "reset" /\ Ahead(r, k)

\* No worker has k in a list where it will come to it.
NotInHand(k) ==
  \A w \in Workers : \A i \in 1..Len(events[w]) :
    events[w][i].ptr = k => \E j \in 1..i : events[w][j].err

Hidden(k) ==
  /\ k \notin seen /\ NotInHand(k) /\ Len(ready) <= EventSize
  /\ \E r \in Connections : client[r] = "reset" /\ Ahead(r, k)

(***************************************************************************)
(* And as long as one WaitEvents can report all that is ready, a           *)
(* connection behind one that has been reset stays hidden for good: nobody *)
(* reads the error away, and the list keeps its order.                     *)
(***************************************************************************)
HiddenStays ==
  [][\A k \in Connections : Hidden(k) /\ Len(ready') <= EventSize => Hidden(k)']_vars

(***************************************************************************)
(* HPlayServer.h:55 says that what a client sends is parsed, looked up,    *)
(* verified and answered by Received, which m_recvdone calls.              *)
(***************************************************************************)
RequestReceived == \A k \in Connections : k \in seen ~> k \in received \/ main = "ended"
=============================================================================
