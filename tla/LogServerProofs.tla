-------------------------- MODULE LogServerProofs --------------------------
(***************************************************************************)
(* The safety of CLoggerServer for any number of tracing threads and       *)
(* descriptors and any choice of hazards.                                  *)
(***************************************************************************)
EXTENDS LogServer, SequenceTheorems, TLAPS

LEMMA ConcatAssoc == \A r, s, t \in Seq(Nat) : (r \o s) \o t = r \o (s \o t)
  BY ConcatAssociative

\* A sender appends at the end of what is in its connection, hence of the whole.
LEMMA AppendToConcat ==
  \A r, s \in Seq(Nat), x \in Nat : r \o Append(s, x) = Append(r \o s, x)
<1> SUFFICES ASSUME NEW r \in Seq(Nat), NEW s \in Seq(Nat), NEW x \in Nat
             PROVE  r \o Append(s, x) = Append(r \o s, x)
  OBVIOUS
<1>1. <<x>> \in Seq(Nat) /\ r \o s \in Seq(Nat)
  BY ConcatProperties
<1>2. Append(s, x) = s \o <<x>>
  BY AppendIsConcat
<1>3. Append(r \o s, x) = (r \o s) \o <<x>>
  BY <1>1, AppendIsConcat
<1>4. (r \o s) \o <<x>> = r \o (s \o <<x>>)
  BY <1>1, ConcatAssoc, Zenon
<1> QED
  BY <1>2, <1>3, <1>4

\* Steps that leave every accepted CSocket and mapClients alone.
QuietStep ==
  \/ WaitEvents \/ LeaveWait \/ EndBatch \/ PickListener \/ AcceptFails
  \/ BatchError \/ Crash \/ Close

LEMMA LogCases ==
  ASSUME Next
  PROVE  \/ QuietStep \/ AddFails \/ Register \/ Cleanup
         \/ \E a \in Threads : \/ TraceConnect(a) \/ TraceSend(a) \/ Exit(a)
                               \/ Recv(a) \/ RecvEnd(a)
                               \/ \E f \in Fds : Accept(a, f)
  BY DEF Next, ThreadFunc, QuietStep

-----------------------------------------------------------------------------
LEMMA LogInitTypes == Init => TypeOK
  BY LogAssumption DEF Init, TypeOK

LEMMA LogStepTypes == TypeOK /\ [Next]_vars => TypeOK'
<1> SUFFICES ASSUME TypeOK, [Next]_vars PROVE TypeOK'
  OBVIOUS
<1> USE LogAssumption DEF TypeOK, ownVars, traceVars, connVars, loopVars
<1>1. CASE UNCHANGED vars
  BY <1>1 DEF vars
<1>2. CASE QuietStep
  <2>1. CASE WaitEvents
    <3>1. Ready \in SUBSET (Threads \cup {Listener})
      BY DEF Ready
    <3> QED
      BY <2>1, <3>1 DEF WaitEvents
  <2>2. CASE LeaveWait \/ EndBatch \/ PickListener
    BY <2>2 DEF LeaveWait, EndBatch, PickListener
  <2>3. CASE AcceptFails \/ BatchError \/ Crash
    BY <2>3 DEF AcceptFails, BatchError, Crash
  <2>4. CASE CloseServer \/ DeleteServer
    BY <2>4 DEF CloseServer, DeleteServer
  <2>6. CASE CloseEpoll \/ ProcessExit
    BY <2>6 DEF CloseEpoll, ProcessExit
  <2>5. CASE StopThread
    BY <2>5 DEF StopThread
  <2> QED
    BY <1>2, <2>1, <2>2, <2>3, <2>4, <2>5, <2>6 DEF QuietStep, Close
<1>3. CASE AddFails
  BY <1>3 DEF AddFails, Deleted
<1>4. CASE Register
  <2>1. cur \in Threads
    BY <1>4 DEF Register
  <2>2. /\ object' \in [Threads -> {"none", "queued", "accepted", "watched", "deleted"}]
        /\ fd' \in [Threads -> Fds \cup {None}]
    BY <1>4 DEF Register
  <2>3. mapClients' \in [Fds -> Threads \cup {None}]
    BY <1>4, <2>1 DEF Register
  <2>4. fault' \in {"none", "sigpipe", "dead_object"} /\ cur' = None /\ pc' = "batch"
    BY <1>4 DEF Register
  <2>5. UNCHANGED <<ownVars, traceVars, wire, written, events, valid>>
    BY <1>4 DEF Register
  <2> QED
    BY <2>2, <2>3, <2>4, <2>5
<1>5. CASE Cleanup
  <2>1. /\ object' \in [Threads -> {"none", "queued", "accepted", "watched", "deleted"}]
        /\ fd' \in [Threads -> Fds \cup {None}]
        /\ mapClients' \in [Fds -> Threads \cup {None}]
    BY <1>5 DEF Cleanup
  <2>2. fault' \in {"none", "sigpipe", "dead_object"} /\ pc' = "done" /\ valid' = FALSE /\ cur = None
    BY <1>5 DEF Cleanup
  <2>3. UNCHANGED <<ownVars, traceVars, wire, written, events, cur>>
    BY <1>5 DEF Cleanup
  <2> QED
    BY <2>1, <2>2, <2>3
<1>6. ASSUME NEW a \in Threads, TraceConnect(a) PROVE TypeOK'
  <2>1. /\ client' = [client EXCEPT ![a] = "linked"] \/ client' = [client EXCEPT ![a] = "init"]
        /\ object' = [object EXCEPT ![a] = "queued"] \/ object' = object
    BY <1>6 DEF TraceConnect
  <2>2. client' \in [Threads -> {"none", "init", "linked", "closed"}]
    BY <2>1
  <2>3. object' \in [Threads -> {"none", "queued", "accepted", "watched", "deleted"}]
    BY <2>1
  <2>4. UNCHANGED <<ownVars, sent, wire, fd, mapClients, written, loopVars, fault>>
    BY <1>6 DEF TraceConnect
  <2> QED
    BY <2>2, <2>3, <2>4
<1>7. ASSUME NEW a \in Threads, TraceSend(a) PROVE TypeOK'
  <2>1. CASE PeerOpen(a)
    <3>1. /\ wire' = [wire EXCEPT ![a] = Append(@, Len(sent[a]) + 1)]
          /\ sent' = [sent EXCEPT ![a] = Append(@, Len(@) + 1)]
      BY <1>7, <2>1 DEF TraceSend
    <3>2. Len(sent[a]) + 1 \in 1..MaxLogs
      <4>1. Len(sent[a]) \in Nat
        OBVIOUS
      <4> QED
        BY <1>7, <4>1 DEF TraceSend
    <3>3. /\ Append(wire[a], Len(sent[a]) + 1) \in Seq(1..MaxLogs)
          /\ Append(sent[a], Len(sent[a]) + 1) \in Seq(1..MaxLogs)
      BY <3>2, AppendProperties
    <3>4. wire' \in [Threads -> Seq(1..MaxLogs)] /\ sent' \in [Threads -> Seq(1..MaxLogs)]
      BY <3>1, <3>3
    <3>5. UNCHANGED <<ownVars, client, object, fd, mapClients, written, loopVars, fault>>
      BY <1>7, <2>1 DEF TraceSend
    <3> QED
      BY <3>4, <3>5
  <2>2. CASE ~PeerOpen(a)
    BY <1>7, <2>2 DEF TraceSend
  <2> QED
    BY <2>1, <2>2
<1>8. ASSUME NEW a \in Threads, Exit(a) PROVE TypeOK'
  BY <1>8 DEF Exit
<1>9. ASSUME NEW a \in Threads, Recv(a) PROVE TypeOK'
  <2>1. written[a] \o wire[a] \in Seq(1..MaxLogs)
    BY ConcatProperties
  <2> QED
    BY <1>9, <2>1 DEF Recv
<1>10. ASSUME NEW a \in Threads, RecvEnd(a) PROVE TypeOK'
  BY <1>10 DEF RecvEnd, Deleted
<1>11. ASSUME NEW a \in Threads, NEW f \in Fds, Accept(a, f) PROVE TypeOK'
  BY <1>11 DEF Accept
<1> QED
  BY <1>1, <1>2, <1>3, <1>4, <1>5, <1>6, <1>7, <1>8, <1>9, <1>10, <1>11, LogCases

(***************************************************************************)
(* The variables keep their types; the thread has an accepted CSocket in   *)
(* hand exactly between Link and Add.                                      *)
(***************************************************************************)
THEOREM LogTypesTheorem == Spec => []TypeOK
  BY LogInitTypes, LogStepTypes, PTL DEF Spec

-----------------------------------------------------------------------------
(* Who owns which descriptor.  A CSocket has an open descriptor exactly    *)
(* while it is accepted or watched, and only the one in cur is accepted.   *)

CurInv ==
  /\ cur # None => object[cur] = "accepted" /\ fd[cur] # None /\ mapClients[fd[cur]] = None
  /\ \A a \in Threads : object[a] = "accepted" => a = cur
  /\ \A a \in Threads : fd[a] # None => object[a] \in {"accepted", "watched"}

\* A connection begins with the successful connect of its thread.
LinkInv ==
  \A a \in Threads : /\ client[a] = "none" => object[a] = "none"
                     /\ client[a] = "linked" => object[a] # "none"

FdInv == TypeOK /\ MapOwnsFds /\ CurInv /\ LinkInv

LEMMA FdInit == Init => FdInv
  BY LogInitTypes, LogAssumption DEF Init, FdInv, MapOwnsFds, CurInv, LinkInv

LEMMA LinkStep == FdInv /\ [Next]_vars => LinkInv'
<1> SUFFICES ASSUME FdInv, [Next]_vars PROVE LinkInv'
  OBVIOUS
<1> USE LogAssumption DEF FdInv, LinkInv
<1>1. CASE UNCHANGED <<client, object>>
  BY <1>1
<1>2. CASE AddFails
  BY <1>2 DEF AddFails, Deleted, TypeOK, CurInv, traceVars
<1>3. CASE Register
  BY <1>3 DEF Register, TypeOK, CurInv, traceVars
<1>4. CASE Cleanup
  <2> DEFINE held == {a \in Threads : \E f \in Fds : mapClients[f] = a}
  <2>1. /\ client' = client
        /\ object' = [a \in Threads |-> IF a \in held THEN "deleted" ELSE object[a]]
    BY <1>4 DEF Cleanup, traceVars
  <2>2. \A a \in held : object[a] = "watched"
    BY DEF MapOwnsFds, TypeOK
  <2> HIDE DEF held
  <2> QED
    BY <2>1, <2>2
<1>5. ASSUME NEW a \in Threads, TraceConnect(a) PROVE LinkInv'
  <2>1. CASE server # "deleted" /\ client' = [client EXCEPT ![a] = "linked"]
                                /\ object' = [object EXCEPT ![a] = "queued"]
    BY <2>1 DEF TypeOK
  <2>2. CASE client' = [client EXCEPT ![a] = "init"] /\ object' = object
    BY <2>2 DEF TypeOK
  <2> QED
    BY <1>5, <2>1, <2>2 DEF TraceConnect
<1>6. ASSUME NEW a \in Threads, Exit(a) PROVE LinkInv'
  BY <1>6 DEF Exit, TypeOK, connVars
<1>7. ASSUME NEW a \in Threads, RecvEnd(a) PROVE LinkInv'
  BY <1>7 DEF RecvEnd, Deleted, TypeOK, traceVars
<1>8. ASSUME NEW a \in Threads, NEW f \in Fds, Accept(a, f) PROVE LinkInv'
  BY <1>8 DEF Accept, TypeOK, traceVars
<1>9. CASE QuietStep \/ \E a \in Threads : TraceSend(a) \/ Recv(a)
  BY <1>1, <1>9 DEF QuietStep, Close, WaitEvents, LeaveWait, EndBatch, PickListener, AcceptFails,
     BatchError, Crash, CloseServer, DeleteServer, CloseEpoll, StopThread, ProcessExit,
     TraceSend, Recv, connVars, traceVars
<1> QED
  BY <1>1, <1>2, <1>3, <1>4, <1>5, <1>6, <1>7, <1>8, <1>9, LogCases DEF vars

LEMMA FdStep == FdInv /\ [Next]_vars => FdInv'
<1> SUFFICES ASSUME FdInv, [Next]_vars PROVE FdInv'
  OBVIOUS
<1> USE LogAssumption DEF FdInv
<1>t. TypeOK' /\ LinkInv'
  BY LogStepTypes, LinkStep
<1> DEFINE Kept == MapOwnsFds' /\ CurInv'
<1> SUFFICES Kept
  BY <1>t
<1>q. UNCHANGED <<object, fd, mapClients, cur>> => Kept
  BY DEF MapOwnsFds, CurInv
<1>1. CASE UNCHANGED vars
  <2>1. UNCHANGED <<object, fd, mapClients, cur>>
    BY <1>1 DEF vars
  <2> QED
    BY <2>1, <1>q
<1>2. CASE QuietStep
  <2>1. UNCHANGED <<object, fd, mapClients, cur>>
    BY <1>2 DEF QuietStep, Close, WaitEvents, LeaveWait, EndBatch, PickListener, AcceptFails,
       BatchError, Crash, CloseServer, DeleteServer, CloseEpoll, StopThread, ProcessExit,
       connVars, loopVars
  <2> QED
    BY <2>1, <1>q
<1>3. CASE AddFails
  <2>1. /\ cur \in Threads /\ cur' = None
        /\ object[cur] = "accepted"
        /\ object' = [object EXCEPT ![cur] = "deleted"]
        /\ fd' = [fd EXCEPT ![cur] = None]
        /\ mapClients' = mapClients
    BY <1>3 DEF AddFails, Deleted, TypeOK, CurInv
  <2>2. MapOwnsFds'
    BY <2>1 DEF TypeOK, MapOwnsFds
  <2>3. CurInv'
    BY <2>1 DEF TypeOK, CurInv
  <2> QED
    BY <2>2, <2>3
<1>4. CASE Register
  <2>1. /\ cur \in Threads /\ cur' = None
        /\ mapClients[fd[cur]] = None /\ fd[cur] \in Fds /\ object[cur] = "accepted"
    BY <1>4 DEF Register, TypeOK, CurInv
  <2>2. /\ object' = [a \in Threads |-> IF a = cur THEN "watched" ELSE object[a]]
        /\ \A a \in Threads : fd'[a] = fd[a]
        /\ mapClients' = [mapClients EXCEPT ![fd[cur]] = cur]
    <3>1. /\ object' = [a \in Threads |-> IF a = cur THEN "watched"
                                          ELSE IF a = None THEN "deleted" ELSE object[a]]
          /\ fd' = [a \in Threads |-> IF a = None THEN None ELSE fd[a]]
          /\ mapClients' = [mapClients EXCEPT ![fd[cur]] = cur]
      BY <1>4, <2>1 DEF Register
    <3> QED
      BY <3>1
  <2>3. MapOwnsFds'
    BY <2>1, <2>2 DEF TypeOK, MapOwnsFds
  <2>4. CurInv'
    BY <2>1, <2>2 DEF TypeOK, CurInv
  <2> QED
    BY <2>3, <2>4
<1>5. CASE Cleanup
  <2> DEFINE held == {a \in Threads : \E f \in Fds : mapClients[f] = a}
  <2>1. cur = None /\ cur' = None /\ mapClients' = [f \in Fds |-> None]
    BY <1>5 DEF Cleanup, TypeOK
  <2>2. /\ object' = [a \in Threads |-> IF a \in held THEN "deleted" ELSE object[a]]
        /\ fd' = [a \in Threads |-> IF a \in held THEN None ELSE fd[a]]
    BY <1>5 DEF Cleanup
  <2>3. \A a \in Threads : fd[a] # None => a \in held
    BY <2>1 DEF MapOwnsFds, TypeOK
  <2>4. \A a \in Threads : fd'[a] = None /\ object'[a] \notin {"accepted", "watched"}
    BY <2>1, <2>2, <2>3 DEF MapOwnsFds, CurInv
  <2> HIDE DEF held
  <2>5. MapOwnsFds'
    BY <2>1, <2>4 DEF MapOwnsFds
  <2>6. CurInv'
    BY <2>1, <2>4 DEF CurInv
  <2> QED
    BY <2>5, <2>6
<1>6. ASSUME NEW a \in Threads, TraceConnect(a) PROVE Kept
  <2>1. UNCHANGED <<fd, mapClients, cur>> /\ object[a] = "none"
    BY <1>6 DEF TraceConnect, loopVars, LinkInv
  <2>2. CASE object' = object
    BY <2>1, <2>2, <1>q
  <2>3. CASE object' = [object EXCEPT ![a] = "queued"]
    BY <2>1, <2>3 DEF TypeOK, MapOwnsFds, CurInv
  <2> QED
    BY <1>6, <2>2, <2>3 DEF TraceConnect
<1>7. ASSUME NEW a \in Threads, TraceSend(a) \/ Exit(a) \/ Recv(a) PROVE Kept
  <2>1. UNCHANGED <<object, fd, mapClients, cur>>
    BY <1>7 DEF TraceSend, Exit, Recv, loopVars, connVars
  <2> QED
    BY <2>1, <1>q
<1>8. ASSUME NEW a \in Threads, RecvEnd(a) PROVE Kept
  <2>1. /\ fd[a] \in Fds /\ mapClients[fd[a]] = a
        /\ cur = None /\ cur' = None
    BY <1>8 DEF RecvEnd, TypeOK, MapOwnsFds
  <2>2. /\ object' = [object EXCEPT ![a] = "deleted"]
        /\ fd' = [fd EXCEPT ![a] = None]
        /\ mapClients' = [mapClients EXCEPT ![fd[a]] = None]
    BY <1>8 DEF RecvEnd, Deleted
  <2> QED
    BY <2>1, <2>2 DEF TypeOK, MapOwnsFds, CurInv
<1>9. ASSUME NEW a \in Threads, NEW f \in Fds, Accept(a, f) PROVE Kept
  <2>1. /\ object[a] = "queued" /\ cur = None /\ cur' = a
        /\ \A b \in Threads : fd[b] # f
        /\ mapClients[f] = None /\ f # None
    BY <1>9 DEF Accept, TypeOK, MapOwnsFds
  <2>2. /\ object' = [object EXCEPT ![a] = "accepted"]
        /\ fd' = [fd EXCEPT ![a] = f]
        /\ mapClients' = mapClients
    BY <1>9 DEF Accept
  <2>3. MapOwnsFds'
    BY <2>1, <2>2 DEF TypeOK, MapOwnsFds
  <2>4. CurInv'
    BY <2>1, <2>2 DEF TypeOK, CurInv
  <2> QED
    BY <2>3, <2>4
<1> QED
  BY <1>1, <1>2, <1>3, <1>4, <1>5, <1>6, <1>7, <1>8, <1>9, LogCases

(***************************************************************************)
(* mapClients and the descriptors never disagree (Logger.cpp:128-142,      *)
(* 183-190 and 210-212).                                                   *)
(***************************************************************************)
THEOREM MapTheorem == Spec => []MapOwnsFds
<1>1. FdInv => MapOwnsFds
  BY DEF FdInv
<1> QED
  BY <1>1, FdInit, FdStep, PTL DEF Spec

-----------------------------------------------------------------------------
(* A connection that has not been registered yet has no record in the      *)
(* file, so that a failed Add loses no later part of anything.             *)

UnreadInv ==
  \A a \in Threads : object[a] \in {"none", "queued", "accepted"} => written[a] = <<>>

LEMMA UnreadInit == Init => UnreadInv
  BY DEF Init, UnreadInv

\* What a step can do to one connection.
LEMMA ObjectSteps ==
  ASSUME FdInv, [Next]_vars, NEW b \in Threads
  PROVE  \/ object'[b] = object[b]
         \/ object[b] = "none" /\ object'[b] = "queued"
         \/ object[b] = "queued" /\ object'[b] = "accepted"
         \/ object[b] = "accepted" /\ object'[b] = "watched"
         \/ object[b] \in {"accepted", "watched"} /\ object'[b] = "deleted"
<1> USE DEF FdInv, TypeOK
<1> DEFINE Goal == \/ object'[b] = object[b]
                   \/ object[b] = "none" /\ object'[b] = "queued"
                   \/ object[b] = "queued" /\ object'[b] = "accepted"
                   \/ object[b] = "accepted" /\ object'[b] = "watched"
                   \/ object[b] \in {"accepted", "watched"} /\ object'[b] = "deleted"
<1>1. CASE UNCHANGED vars \/ QuietStep
  BY <1>1 DEF vars, QuietStep, Close, WaitEvents, LeaveWait, EndBatch, PickListener, AcceptFails,
     BatchError, Crash, CloseServer, DeleteServer, CloseEpoll, StopThread, ProcessExit, connVars
<1>2. CASE AddFails
  BY <1>2 DEF AddFails, Deleted, CurInv
<1>3. CASE Register
  <2>1. /\ cur \in Threads /\ object[cur] = "accepted" /\ mapClients[fd[cur]] = None
    BY <1>3 DEF Register, CurInv
  <2>2. None \notin Threads
    BY LogAssumption
  <2>3. object'[b] = IF b = cur THEN "watched" ELSE object[b]
    BY <1>3, <2>1, <2>2 DEF Register
  <2> QED
    BY <2>1, <2>3
<1>4. CASE Cleanup
  <2>1. \A a \in Threads, f \in Fds : mapClients[f] = a => object[a] = "watched"
    BY LogAssumption DEF MapOwnsFds
  <2>2. object'[b] = IF \E f \in Fds : mapClients[f] = b THEN "deleted" ELSE object[b]
    BY <1>4 DEF Cleanup
  <2> QED
    BY <2>1, <2>2
<1>5. ASSUME NEW a \in Threads, TraceConnect(a) PROVE Goal
  <2>1. object[a] = "none" /\ (object' = object \/ object' = [object EXCEPT ![a] = "queued"])
    BY <1>5 DEF TraceConnect, LinkInv
  <2> QED
    BY <2>1
<1>6. ASSUME NEW a \in Threads, TraceSend(a) \/ Exit(a) \/ Recv(a) PROVE Goal
  BY <1>6 DEF TraceSend, Exit, Recv, connVars
<1>7. ASSUME NEW a \in Threads, RecvEnd(a) PROVE Goal
  BY <1>7 DEF RecvEnd, Deleted
<1>8. ASSUME NEW a \in Threads, NEW f \in Fds, Accept(a, f) PROVE Goal
  BY <1>8 DEF Accept
<1> QED
  BY <1>1, <1>2, <1>3, <1>4, <1>5, <1>6, <1>7, <1>8, LogCases

\* Only Recv writes, and only from a watched connection.
LEMMA WrittenSteps ==
  ASSUME [Next]_vars
  PROVE  \/ written' = written
         \/ \E a \in Threads : Recv(a)
  BY LogCases DEF vars, QuietStep, Close, WaitEvents, LeaveWait, EndBatch, PickListener,
     AcceptFails, BatchError, Crash, CloseServer, DeleteServer, CloseEpoll, StopThread, ProcessExit,
     AddFails, Register, Cleanup, TraceConnect, TraceSend, Exit, RecvEnd, Accept, connVars

LEMMA UnreadStep == FdInv /\ UnreadInv /\ [Next]_vars => UnreadInv'
<1> SUFFICES ASSUME FdInv, UnreadInv, [Next]_vars, NEW b \in Threads,
                    object'[b] \in {"none", "queued", "accepted"}
             PROVE  written'[b] = <<>>
  BY DEF UnreadInv
<1>1. object[b] \in {"none", "queued", "accepted"}
  BY ObjectSteps
<1>2. written[b] = <<>>
  BY <1>1 DEF UnreadInv
<1>3. ASSUME NEW a \in Threads, Recv(a) PROVE written'[b] = written[b]
  <2>1. a # b
    BY <1>1, <1>3 DEF Recv
  <2> QED
    BY <1>3, <2>1 DEF Recv, FdInv, TypeOK
<1> QED
  BY <1>2, <1>3, WrittenSteps

-----------------------------------------------------------------------------
(* Records are neither lost nor reordered.                                 *)

LEMMA LostInit == Init => NothingLost
<1> SUFFICES ASSUME Init PROVE NothingLost
  OBVIOUS
<1>1. \A a \in Threads : written[a] = <<>> /\ wire[a] = <<>> /\ sent[a] = <<>> /\ object[a] = "none"
  BY DEF Init
<1>2. <<>> \o <<>> = <<>>
  OBVIOUS
<1> QED
  BY <1>1, <1>2 DEF NothingLost

\* The server has begun to give up, and what a closing connection may hold.
GivingUp == pc \in {"done", "killed"} \/ epoll = "closed"
Excused(a) == GivingUp \/ ("refuse" \in Hazards /\ written[a] = <<>>)

LEMMA GivingUpStays == Next => GivingUp' \in {GivingUp, TRUE}
  BY DEF GivingUp, Next, ThreadFunc, Close, WaitEvents, LeaveWait, EndBatch, PickListener, Accept,
     AcceptFails, AddFails, Register, Recv, RecvEnd, Cleanup, BatchError, Crash, CloseServer,
     DeleteServer, CloseEpoll, StopThread, ProcessExit, TraceConnect, TraceSend, Exit,
     ownVars, loopVars

LEMMA LostStep == FdInv /\ UnreadInv /\ NothingLost /\ [Next]_vars => NothingLost'
<1> SUFFICES ASSUME FdInv, UnreadInv, NothingLost, Next PROVE NothingLost'
  BY DEF NothingLost, vars
<1> USE LogAssumption DEF FdInv
<1>e. GivingUp => GivingUp'
  BY GivingUpStays
<1>q. ASSUME UNCHANGED <<written, wire, sent>>,
             \A a \in Threads : object'[a] = "deleted" =>
                object[a] = "deleted" \/ wire[a] = <<>> \/ Excused(a)'
      PROVE  NothingLost'
  BY <1>q, <1>e DEF NothingLost, Excused, GivingUp
<1>1. CASE QuietStep
  <2>1. UNCHANGED <<written, wire, sent, object>>
    BY <1>1 DEF QuietStep, Close, WaitEvents, LeaveWait, EndBatch, PickListener, AcceptFails,
       BatchError, Crash, CloseServer, DeleteServer, CloseEpoll, StopThread, ProcessExit,
       connVars, traceVars
  <2> QED
    BY <2>1, <1>q
<1>2. CASE AddFails
  <2>1. /\ UNCHANGED <<written, wire, sent>>
        /\ cur \in Threads /\ object[cur] = "accepted"
        /\ object' = [object EXCEPT ![cur] = "deleted"]
        /\ epoll' = epoll /\ (epoll = "closed" \/ "refuse" \in Hazards)
    BY <1>2 DEF AddFails, Deleted, TypeOK, CurInv, traceVars, ownVars
  <2>2. written[cur] = <<>>
    BY <2>1 DEF UnreadInv
  <2>3. \A a \in Threads : object'[a] = "deleted" => object[a] = "deleted" \/ Excused(a)'
    BY <2>1, <2>2 DEF Excused, GivingUp, TypeOK
  <2> QED
    BY <2>1, <2>3, <1>q
<1>3. CASE Register
  <2>1. UNCHANGED <<written, wire, sent>>
    BY <1>3 DEF Register, traceVars
  <2>2. mapClients[fd[cur]] = None
    BY <1>3 DEF Register, CurInv, TypeOK
  <2>3. \A a \in Threads : object'[a] = "deleted" => object[a] = "deleted"
    BY <1>3, <2>2 DEF Register
  <2> QED
    BY <2>1, <2>3, <1>q
<1>4. CASE Cleanup
  <2>1. UNCHANGED <<written, wire, sent>> /\ GivingUp'
    BY <1>4 DEF Cleanup, traceVars, GivingUp
  <2> QED
    BY <2>1, <1>q DEF Excused
<1>5. ASSUME NEW a \in Threads, TraceConnect(a) \/ Exit(a) PROVE NothingLost'
  <2>1. UNCHANGED <<written, wire, sent>>
    BY <1>5 DEF TraceConnect, Exit, connVars
  <2>2. object' = object \/ object' = [object EXCEPT ![a] = "queued"]
    BY <1>5 DEF TraceConnect, Exit, connVars
  <2>3. \A b \in Threads : object'[b] = "deleted" => object[b] = "deleted"
    BY <2>2 DEF TypeOK
  <2> QED
    BY <2>1, <2>3, <1>q
<1>6. ASSUME NEW a \in Threads, TraceSend(a) PROVE NothingLost'
  <2>1. CASE ~PeerOpen(a)
    <3>1. UNCHANGED <<written, wire, sent, object>>
      BY <1>6, <2>1 DEF TraceSend
    <3> QED
      BY <3>1, <1>q
  <2>2. CASE PeerOpen(a)
    <3> DEFINE x == Len(sent[a]) + 1
    <3>1. /\ wire' = [wire EXCEPT ![a] = Append(@, x)]
          /\ sent' = [sent EXCEPT ![a] = Append(@, x)]
          /\ UNCHANGED <<written, object>>
      BY <1>6, <2>2 DEF TraceSend
    <3>2. x \in Nat
      BY DEF TypeOK
    <3> HIDE DEF x
    <3>3. /\ wire[a] \in Seq(Nat) /\ written[a] \in Seq(Nat)
          /\ written[a] \o wire[a] = sent[a]
      BY DEF TypeOK, NothingLost
    <3>4. written[a] \o Append(wire[a], x) = Append(written[a] \o wire[a], x)
      BY <3>2, <3>3, AppendToConcat, Zenon
    <3>5. written'[a] \o wire'[a] = sent'[a]
      BY <3>1, <3>3, <3>4 DEF TypeOK
    <3>6. \A b \in Threads \ {a} : wire'[b] = wire[b] /\ sent'[b] = sent[b]
      BY <3>1 DEF TypeOK
    <3>7. object[a] # "deleted"
      BY <2>2 DEF PeerOpen
    <3>8. ASSUME NEW b \in Threads
          PROVE  /\ written'[b] \o wire'[b] = sent'[b]
                 /\ object'[b] = "deleted" /\ wire'[b] # <<>> => Excused(b)'
      BY <3>1, <3>5, <3>6, <3>7, <1>e DEF NothingLost, Excused, GivingUp
    <3> QED
      BY <3>8 DEF NothingLost, Excused, GivingUp
  <2> QED
    BY <2>1, <2>2
<1>7. ASSUME NEW a \in Threads, Recv(a) PROVE NothingLost'
  <2>1. /\ written' = [written EXCEPT ![a] = @ \o wire[a]]
        /\ wire' = [wire EXCEPT ![a] = <<>>]
        /\ UNCHANGED <<sent, object>>
    BY <1>7 DEF Recv, traceVars
  <2>2. /\ written[a] \o wire[a] = sent[a]
        /\ sent[a] \o <<>> = sent[a]
    BY ConcatEmptySeq DEF TypeOK, NothingLost
  <2>3. written'[a] \o wire'[a] = sent'[a] /\ wire'[a] = <<>>
    BY <2>1, <2>2 DEF TypeOK
  <2>4. \A b \in Threads \ {a} : wire'[b] = wire[b] /\ written'[b] = written[b]
    BY <2>1 DEF TypeOK
  <2>5. ASSUME NEW b \in Threads
        PROVE  /\ written'[b] \o wire'[b] = sent'[b]
               /\ object'[b] = "deleted" /\ wire'[b] # <<>> => Excused(b)'
    BY <2>1, <2>3, <2>4, <1>e DEF NothingLost, Excused, GivingUp
  <2> QED
    BY <2>5 DEF NothingLost, Excused, GivingUp
<1>8. ASSUME NEW a \in Threads, RecvEnd(a) PROVE NothingLost'
  <2>1. /\ UNCHANGED <<written, wire, sent>> /\ wire[a] = <<>>
        /\ object' = [object EXCEPT ![a] = "deleted"]
    BY <1>8 DEF RecvEnd, Deleted, traceVars
  <2>2. \A b \in Threads : object'[b] = "deleted" => object[b] = "deleted" \/ wire[b] = <<>>
    BY <2>1 DEF TypeOK
  <2> QED
    BY <2>1, <2>2, <1>q
<1>9. ASSUME NEW a \in Threads, NEW f \in Fds, Accept(a, f) PROVE NothingLost'
  <2>1. /\ UNCHANGED <<written, wire, sent>>
        /\ object' = [object EXCEPT ![a] = "accepted"]
    BY <1>9 DEF Accept, traceVars
  <2>2. \A b \in Threads : object'[b] = "deleted" => object[b] = "deleted"
    BY <2>1 DEF TypeOK
  <2> QED
    BY <2>1, <2>2, <1>q
<1> QED
  BY <1>1, <1>2, <1>3, <1>4, <1>5, <1>6, <1>7, <1>8, <1>9, LogCases

(***************************************************************************)
(* What a thread has traced is what is in the file followed by what is     *)
(* still in its connection; and while the loop runs on an open epoll set,  *)
(* a connection with records in it is deleted only before the first one    *)
(* was read.                                                               *)
(***************************************************************************)
THEOREM NothingLostTheorem == Spec => []NothingLost
  BY FdInit, FdStep, UnreadInit, UnreadStep, LostInit, LostStep, PTL DEF Spec

-----------------------------------------------------------------------------
(* The refinement of LogFile.                                              *)

\* The threads whose connection is gone.
Gone == {a \in Threads : object[a] = "deleted"}

\* A step that neither traces nor writes gives up the connections it deletes.
LEMMA GiveUpMaps ==
  ASSUME FdInv, Next, UNCHANGED <<wire, written>>,
         \A a \in Threads : object'[a] = "deleted" =>
            \/ object[a] = "deleted" \/ wire[a] = <<>> \/ GivingUp'
            \/ "refuse" \in Hazards /\ written[a] = <<>>
  PROVE  LF!Next
<1>1. PICK A \in SUBSET Threads : A = Gone' \ Gone
  BY DEF Gone
<1>2. \A a \in Threads : object[a] = "deleted" => object'[a] = "deleted"
  BY ObjectSteps
<1>3. Gone' = Gone \cup A /\ A \cap Gone = {}
  BY <1>1, <1>2 DEF Gone
<1>4. \A a \in A : \/ wire[a] = <<>> \/ GivingUp'
                   \/ "refuse" \in Hazards /\ written[a] = <<>>
  BY <1>1 DEF Gone
<1>5. GivingUp' \in {GivingUp, TRUE}
  BY GivingUpStays
<1>6. LF!GiveUp(A)
  BY <1>3, <1>4, <1>5 DEF LF!GiveUp, Gone, GivingUp
<1> QED
  BY <1>6 DEF LF!Next

LEMMA SendMaps ==
  ASSUME FdInv, NothingLost, NEW a \in Threads, TraceSend(a)
  PROVE  [LF!Next]_(LF!lvars)
<1> USE DEF FdInv, TypeOK
<1>1. CASE ~PeerOpen(a)
  BY <1>1 DEF TraceSend, LF!lvars, ownVars, loopVars
<1>2. CASE PeerOpen(a)
  <2>1. /\ wire' = [wire EXCEPT ![a] = Append(@, Len(sent[a]) + 1)]
        /\ UNCHANGED <<written, object, pc, epoll>>
    BY <1>2 DEF TraceSend, ownVars, loopVars
  <2>2. Len(sent[a]) = Len(written[a]) + Len(wire[a])
    <3>1. written[a] \in Seq(Nat) /\ wire[a] \in Seq(Nat)
      BY LogAssumption
    <3>2. written[a] \o wire[a] = sent[a]
      BY DEF NothingLost
    <3> QED
      BY <3>1, <3>2, ConcatProperties
  <2>3. a \notin {b \in Threads : object[b] = "deleted"}
    BY <1>2 DEF PeerOpen
  <2>4. LF!Trace(a)
    BY <2>1, <2>2, <2>3 DEF LF!Trace
  <2> QED
    BY <2>4 DEF LF!Next
<1> QED
  BY <1>1, <1>2

LEMMA LogStepMaps == FdInv /\ NothingLost /\ UnreadInv /\ [Next]_vars => [LF!Next]_(LF!lvars)
<1> SUFFICES ASSUME FdInv, NothingLost, UnreadInv, [Next]_vars PROVE [LF!Next]_(LF!lvars)
  OBVIOUS
<1>1. CASE UNCHANGED vars
  BY <1>1 DEF vars, LF!lvars
<1> SUFFICES ASSUME Next PROVE [LF!Next]_(LF!lvars)
  BY <1>1
<1>2. CASE QuietStep
  <2>1. UNCHANGED <<wire, written, object>>
    BY <1>2 DEF QuietStep, Close, WaitEvents, LeaveWait, EndBatch, PickListener, AcceptFails,
       BatchError, Crash, CloseServer, DeleteServer, CloseEpoll, StopThread, ProcessExit, connVars
  <2> QED
    BY <2>1, GiveUpMaps
<1>3. CASE AddFails
  <2>1. /\ UNCHANGED <<wire, written>>
        /\ cur \in Threads /\ object[cur] = "accepted"
        /\ object' = [object EXCEPT ![cur] = "deleted"]
        /\ epoll' = epoll /\ (epoll = "closed" \/ "refuse" \in Hazards)
    BY <1>3 DEF AddFails, Deleted, FdInv, TypeOK, CurInv, ownVars
  <2>2. written[cur] = <<>>
    BY <2>1 DEF UnreadInv
  <2>3. \A a \in Threads : object'[a] = "deleted" =>
           object[a] = "deleted" \/ GivingUp' \/ ("refuse" \in Hazards /\ written[a] = <<>>)
    BY <2>1, <2>2 DEF GivingUp, FdInv, TypeOK
  <2> QED
    BY <2>1, <2>3, GiveUpMaps
<1>4. CASE Register
  <2>1. UNCHANGED <<wire, written>> /\ mapClients[fd[cur]] = None
    BY <1>4 DEF Register, FdInv, CurInv, TypeOK
  <2>2. \A a \in Threads : object'[a] = "deleted" => object[a] = "deleted"
    BY <1>4, <2>1, LogAssumption DEF Register
  <2> QED
    BY <2>1, <2>2, GiveUpMaps
<1>5. CASE Cleanup
  <2>1. UNCHANGED <<wire, written>> /\ GivingUp'
    BY <1>5 DEF Cleanup, GivingUp
  <2> QED
    BY <2>1, GiveUpMaps
<1>6. ASSUME NEW a \in Threads, TraceConnect(a) \/ Exit(a) PROVE [LF!Next]_(LF!lvars)
  <2>1. /\ UNCHANGED <<wire, written>>
        /\ object' = object \/ object' = [object EXCEPT ![a] = "queued"]
    BY <1>6 DEF TraceConnect, Exit, connVars
  <2>2. \A b \in Threads : object'[b] = "deleted" => object[b] = "deleted"
    BY <2>1 DEF FdInv, TypeOK
  <2> QED
    BY <2>1, <2>2, GiveUpMaps
<1>7. ASSUME NEW a \in Threads, Recv(a) PROVE [LF!Next]_(LF!lvars)
  <2>1. LF!WriteLog(a)
    BY <1>7 DEF Recv, LF!WriteLog, ownVars
  <2> QED
    BY <2>1 DEF LF!Next
<1>8. ASSUME NEW a \in Threads, RecvEnd(a) PROVE [LF!Next]_(LF!lvars)
  <2>1. /\ UNCHANGED <<wire, written>> /\ wire[a] = <<>>
        /\ object' = [object EXCEPT ![a] = "deleted"]
    BY <1>8 DEF RecvEnd, Deleted
  <2>2. \A b \in Threads : object'[b] = "deleted" => object[b] = "deleted" \/ wire[b] = <<>>
    BY <2>1 DEF FdInv, TypeOK
  <2> QED
    BY <2>1, <2>2, GiveUpMaps
<1>9. ASSUME NEW a \in Threads, NEW f \in Fds, Accept(a, f) PROVE [LF!Next]_(LF!lvars)
  <2>1. /\ UNCHANGED <<wire, written>>
        /\ object' = [object EXCEPT ![a] = "accepted"]
    BY <1>9 DEF Accept
  <2>2. \A b \in Threads : object'[b] = "deleted" => object[b] = "deleted"
    BY <2>1 DEF FdInv, TypeOK
  <2> QED
    BY <2>1, <2>2, GiveUpMaps
<1> QED
  BY <1>2, <1>3, <1>4, <1>5, <1>6, <1>7, <1>8, <1>9, SendMaps, LogCases

LEMMA LogInitMaps == Init => LF!Init
  BY DEF Init, LF!Init

(***************************************************************************)
(* The log server implements LogFile: per thread a file that grows by      *)
(* everything traced so far, and connections that are given up empty, or   *)
(* before their first record, or with the server (Logger.cpp:81-215).      *)
(***************************************************************************)
THEOREM LogRefinementTheorem == Spec => LogAsPromised
  BY FdInit, FdStep, LostInit, LostStep, UnreadInit, UnreadStep, LogInitMaps, LogStepMaps,
     PTL DEF Spec, LogAsPromised, LF!Spec
-----------------------------------------------------------------------------
(* The sockets block, but one thread both waits for events and handles     *)
(* them: until it does, nobody else takes what an event has announced.     *)

EventsLive ==
  \A a \in Threads \cap events :
    object[a] = "watched" /\ (wire[a] # <<>> \/ client[a] = "closed")

FreshInv ==
  pc \in {"batch", "accept", "add"} =>
    /\ EventsLive
    /\ Listener \in events => pc = "batch" /\ Waiting # {}
    /\ pc = "accept" => Waiting # {}

LEMMA FreshInit == Init => FreshInv
  BY DEF Init, FreshInv

LEMMA FreshStep == FdInv /\ FreshInv /\ [Next]_vars => FreshInv'
<1> SUFFICES ASSUME FdInv, FreshInv, [Next]_vars PROVE FreshInv'
  OBVIOUS
<1> USE LogAssumption DEF FdInv, FreshInv
<1>q. ASSUME pc \in {"batch", "accept", "add"}, events' \subseteq events,
             \A b \in Threads \cap events' :
               object'[b] = "watched" /\ (wire'[b] # <<>> \/ client'[b] = "closed"),
             Waiting \subseteq Waiting',
             Listener \in events' => pc' = "batch",
             pc' = "accept" => pc = "accept"
      PROVE  FreshInv'
  BY <1>q DEF EventsLive
<1>1. CASE UNCHANGED vars
  BY <1>1 DEF vars, EventsLive, Waiting
<1> SUFFICES ASSUME Next PROVE FreshInv'
  BY <1>1
<1>2. CASE QuietStep
  <2>1. UNCHANGED <<object, wire, client>>
    BY <1>2 DEF QuietStep, Close, WaitEvents, LeaveWait, EndBatch, PickListener, AcceptFails,
       BatchError, Crash, CloseServer, DeleteServer, CloseEpoll, StopThread, ProcessExit,
       connVars, traceVars
  <2>2. Waiting' = Waiting
    BY <2>1 DEF Waiting
  <2>3. CASE WaitEvents
    BY <2>1, <2>2, <2>3 DEF WaitEvents, Ready, EventsLive
  <2>4. CASE LeaveWait \/ EndBatch \/ BatchError
    BY <2>4 DEF LeaveWait, EndBatch, BatchError
  <2>5. CASE PickListener
    BY <2>1, <2>2, <2>5 DEF PickListener, EventsLive
  <2>6. CASE AcceptFails
    BY <2>1, <2>2, <2>6 DEF AcceptFails, EventsLive
  <2>7. CASE Crash \/ CloseServer \/ DeleteServer \/ CloseEpoll \/ ProcessExit
    <3>1. UNCHANGED <<pc, events>>
      BY <2>7 DEF Crash, CloseServer, DeleteServer, CloseEpoll, ProcessExit, loopVars
    <3> QED
      BY <2>1, <2>2, <3>1 DEF EventsLive
  <2>8. CASE StopThread
    BY <2>8 DEF StopThread
  <2> QED
    BY <1>2, <2>3, <2>4, <2>5, <2>6, <2>7, <2>8 DEF QuietStep, Close
<1>3. CASE AddFails
  <2>1. /\ pc = "add" /\ pc' = "batch" /\ cur \in Threads /\ object[cur] = "accepted"
        /\ object' = [object EXCEPT ![cur] = "deleted"]
        /\ UNCHANGED <<wire, client, events>>
    BY <1>3 DEF AddFails, Deleted, TypeOK, CurInv, traceVars
  <2> QED
    BY <2>1 DEF EventsLive, TypeOK
<1>4. CASE Register
  <2>1. /\ pc = "add" /\ pc' = "batch" /\ mapClients[fd[cur]] = None
        /\ UNCHANGED <<wire, client, events>>
    BY <1>4 DEF Register, TypeOK, CurInv, traceVars
  <2>2. \A b \in Threads : object[b] = "watched" => object'[b] = "watched"
    BY <1>4, <2>1 DEF Register
  <2> QED
    BY <2>1, <2>2 DEF EventsLive
<1>5. CASE Cleanup
  BY <1>5 DEF Cleanup
<1>6. ASSUME NEW a \in Threads, TraceConnect(a) PROVE FreshInv'
  <2>1. /\ client[a] = "none" /\ object[a] = "none"
        /\ UNCHANGED <<wire, events, pc>>
        /\ object' = object \/ object' = [object EXCEPT ![a] = "queued"]
    BY <1>6 DEF TraceConnect, LinkInv, loopVars
  <2>2. \A b \in Threads : b # a => client'[b] = client[b]
    BY <1>6 DEF TraceConnect, TypeOK
  <2>3. a \notin events \/ pc \notin {"batch", "accept", "add"}
    BY <2>1 DEF EventsLive
  <2>4. Waiting \subseteq Waiting'
    BY <2>1 DEF Waiting, TypeOK
  <2>5. \A b \in Threads : b # a => object'[b] = object[b]
    BY <2>1 DEF TypeOK
  <2> QED
    BY <2>1, <2>2, <2>3, <2>4, <2>5 DEF EventsLive
<1>7. ASSUME NEW a \in Threads, TraceSend(a) PROVE FreshInv'
  <2>1. UNCHANGED <<client, object, events, pc>>
    BY <1>7 DEF TraceSend, loopVars
  <2>2. \A b \in Threads : wire'[b] = wire[b] \/ wire'[b] # <<>>
    <3> DEFINE x == Len(sent[a]) + 1
    <3>1. wire' = wire \/ wire' = [wire EXCEPT ![a] = Append(wire[a], x)]
      BY <1>7 DEF TraceSend
    <3>2. wire \in [Threads -> Seq(1..MaxLogs)]
      BY DEF TypeOK
    <3>3. wire[a] \in Seq(Nat) /\ x \in Nat
      BY DEF TypeOK
    <3> HIDE DEF x, FdInv
    <3>4. Append(wire[a], x) # <<>>
      BY <3>3, AppendProperties
    <3> QED
      BY <3>1, <3>2, <3>4
  <2>3. Waiting' = Waiting
    BY <2>1 DEF Waiting
  <2> QED
    BY <2>1, <2>2, <2>3 DEF EventsLive
<1>8. ASSUME NEW a \in Threads, Exit(a) PROVE FreshInv'
  <2>1. /\ client' = [client EXCEPT ![a] = "closed"]
        /\ UNCHANGED <<object, wire, events, pc>>
    BY <1>8 DEF Exit, connVars, loopVars
  <2>2. \A b \in Threads : client[b] = "closed" => client'[b] = "closed"
    BY <2>1 DEF TypeOK
  <2>3. Waiting' = Waiting
    BY <2>1 DEF Waiting
  <2> QED
    BY <2>1, <2>2, <2>3 DEF EventsLive
<1>9. ASSUME NEW a \in Threads, Recv(a) PROVE FreshInv'
  <2>1. /\ pc = "batch" /\ wire' = [wire EXCEPT ![a] = <<>>] /\ events' = events \ {a}
        /\ UNCHANGED <<object, client, pc>>
    BY <1>9 DEF Recv, traceVars
  <2>2. Waiting' = Waiting
    BY <2>1 DEF Waiting
  <2> QED
    BY <2>1, <2>2 DEF EventsLive, TypeOK
<1>10. ASSUME NEW a \in Threads, RecvEnd(a) PROVE FreshInv'
  <2>1. /\ pc = "batch" /\ object[a] = "watched"
        /\ object' = [object EXCEPT ![a] = "deleted"] /\ events' = events \ {a}
        /\ UNCHANGED <<wire, client, pc>>
    BY <1>10 DEF RecvEnd, Deleted, traceVars
  <2>2. Waiting \subseteq Waiting'
    BY <2>1 DEF Waiting, TypeOK
  <2> QED
    BY <2>1, <2>2 DEF EventsLive, TypeOK
<1>11. ASSUME NEW a \in Threads, NEW f \in Fds, Accept(a, f) PROVE FreshInv'
  <2>1. /\ pc = "accept" /\ pc' = "add" /\ object[a] = "queued"
        /\ object' = [object EXCEPT ![a] = "accepted"]
        /\ UNCHANGED <<wire, client, events>>
    BY <1>11 DEF Accept, traceVars
  <2> QED
    BY <2>1 DEF EventsLive, TypeOK
<1> QED
  BY <1>2, <1>3, <1>4, <1>5, <1>6, <1>7, <1>8, <1>9, <1>10, <1>11, LogCases

\* What the log thread is about to call has something to return at once: the
\* accept of Link a connection, Recv records or the end of the thread.
LogThreadNeverBlocks ==
  /\ pc = "accept" => \E a \in Threads : object[a] = "queued"
  /\ pc = "batch" => \A a \in Threads \cap events :
       object[a] = "watched" /\ (wire[a] # <<>> \/ client[a] = "closed")

(***************************************************************************)
(* Where the workers of CThreadPool and CServer can be stuck for ever in   *)
(* the same calls, the log thread never is, Close or not: between the      *)
(* event and Link or Recv (Logger.cpp:106, 163) nobody takes what was      *)
(* announced, and an event of one connection never deletes another one     *)
(* that is still in the list.                                              *)
(***************************************************************************)
THEOREM LogThreadNeverBlocksTheorem == Spec => []LogThreadNeverBlocks
<1>1. FreshInv => LogThreadNeverBlocks
  BY DEF FreshInv, EventsLive, Waiting, LogThreadNeverBlocks
<1> QED
  BY <1>1, FdInit, FdStep, FreshInit, FreshStep, PTL DEF Spec
-----------------------------------------------------------------------------
(* What may kill a process.                                                *)

\* Before Close is called the loop ends by EPOLLERR only.
LoopInv ==
  /\ closer = "serving" =>
       /\ server = "listening" /\ epoll = "open" /\ pc # "killed" /\ (valid \/ pc = "done")
       /\ pc \in {"cleanup", "done"} => "epollerr" \in Hazards

LEMMA LoopStep == LoopInv /\ [Next]_vars => LoopInv'
<1> SUFFICES ASSUME LoopInv, [Next]_vars PROVE LoopInv'
  OBVIOUS
<1> USE DEF LoopInv, ownVars, loopVars
<1>1. CASE UNCHANGED vars
  BY <1>1 DEF vars
<1>2. CASE WaitEvents \/ LeaveWait \/ EndBatch \/ PickListener \/ AcceptFails \/ BatchError \/ Crash
  BY <1>2 DEF WaitEvents, LeaveWait, EndBatch, PickListener, AcceptFails, BatchError, Crash,
     KeepsRunning
<1>3. CASE AddFails \/ Register \/ Cleanup
  BY <1>3 DEF AddFails, Register, Cleanup
<1>4. CASE Close
  BY <1>4 DEF Close, CloseServer, DeleteServer, CloseEpoll, StopThread, ProcessExit
<1>5. ASSUME NEW a \in Threads,
             TraceConnect(a) \/ TraceSend(a) \/ Exit(a) \/ Recv(a) \/ RecvEnd(a)
             \/ \E f \in Fds : Accept(a, f)
      PROVE  LoopInv'
  BY <1>5 DEF TraceConnect, TraceSend, Exit, Recv, RecvEnd, Accept
<1> QED
  BY <1>1, <1>2, <1>3, <1>4, <1>5, LogCases DEF QuietStep

\* Why the connection of a thread may be gone while the thread can trace.
LetGo(a) ==
  \/ epoll = "closed"
  \/ pc = "done" /\ (closer # "serving" \/ "epollerr" \in Hazards)
  \/ "refuse" \in Hazards /\ written[a] = <<>>

GoneInv == \A a \in Threads : object[a] = "deleted" => client[a] = "closed" \/ LetGo(a)

BlameInv == FdInv /\ UnreadInv /\ FreshInv /\ LoopInv /\ GoneInv

\* What lets go of a connection stays so; the first Recv comes too late.
LEMMA LetGoStays ==
  ASSUME FdInv, Next, NEW a \in Threads, object[a] = "deleted"
  PROVE  /\ client[a] = "closed" => client'[a] = "closed"
         /\ LetGo(a) => LetGo(a)'
<1>1. /\ epoll = "closed" => epoll' = "closed"
      /\ pc = "done" => pc' = "done"
      /\ closer # "serving" => closer' # "serving"
  BY DEF Next, ThreadFunc, Close, WaitEvents, LeaveWait, EndBatch, PickListener, Accept,
     AcceptFails, AddFails, Register, Recv, RecvEnd, Cleanup, BatchError, Crash, CloseServer,
     DeleteServer, CloseEpoll, StopThread, ProcessExit, TraceConnect, TraceSend, Exit,
     ownVars, loopVars
<1>2. written'[a] = written[a]
  <2>1. ASSUME NEW b \in Threads, Recv(b) PROVE written'[a] = written[a]
    <3>1. b # a
      BY <2>1 DEF Recv
    <3> QED
      BY <2>1, <3>1 DEF Recv, FdInv, TypeOK
  <2> QED
    BY <2>1, WrittenSteps
<1>3. client[a] = "closed" => client'[a] = "closed"
  <2>1. CASE UNCHANGED client
    BY <2>1
  <2>2. ASSUME NEW b \in Threads, TraceConnect(b) PROVE client[a] = "closed" => client'[a] = "closed"
    <3>1. client[b] = "none" /\ client' = [client EXCEPT ![b] = client'[b]]
      BY <2>2 DEF TraceConnect, FdInv, TypeOK
    <3> QED
      BY <3>1 DEF FdInv, TypeOK
  <2>3. ASSUME NEW b \in Threads, Exit(b) PROVE client[a] = "closed" => client'[a] = "closed"
    BY <2>3 DEF Exit, FdInv, TypeOK
  <2>4. ASSUME NEW b \in Threads,
               TraceSend(b) \/ Recv(b) \/ RecvEnd(b) \/ \E f \in Fds : Accept(b, f)
        PROVE  client' = client
    BY <2>4 DEF TraceSend, Recv, RecvEnd, Accept, traceVars
  <2>5. QuietStep \/ AddFails \/ Register \/ Cleanup => client' = client
    BY DEF QuietStep, Close, WaitEvents, LeaveWait, EndBatch, PickListener, AcceptFails,
       BatchError, Crash, CloseServer, DeleteServer, CloseEpoll, StopThread, ProcessExit,
       AddFails, Register, Cleanup, traceVars
  <2> QED
    BY <2>1, <2>2, <2>3, <2>4, <2>5, LogCases
<1> QED
  BY <1>1, <1>2, <1>3 DEF LetGo

LEMMA GoneStep == BlameInv /\ [Next]_vars => GoneInv'
<1> SUFFICES ASSUME BlameInv, Next, NEW b \in Threads, object'[b] = "deleted"
             PROVE  client'[b] = "closed" \/ LetGo(b)'
  BY DEF BlameInv, GoneInv, LetGo, vars
<1>1. CASE object[b] = "deleted"
  BY <1>1, LetGoStays DEF BlameInv, GoneInv
<1>2. CASE object[b] # "deleted"
  <2> USE <1>2, LogAssumption DEF BlameInv, FdInv, TypeOK
  <2>1. CASE AddFails
    <3>1. /\ cur = b /\ object[b] = "accepted" /\ UNCHANGED <<written, epoll>>
          /\ epoll = "closed" \/ "refuse" \in Hazards
      BY <2>1 DEF AddFails, Deleted, CurInv, ownVars
    <3> QED
      BY <3>1 DEF UnreadInv, LetGo
  <2>2. CASE Cleanup
    <3>1. pc = "cleanup" /\ pc' = "done" /\ closer' = closer
      BY <2>2 DEF Cleanup, ownVars
    <3> QED
      BY <3>1 DEF LoopInv, LetGo
  <2>3. ASSUME NEW a \in Threads, RecvEnd(a) PROVE client'[b] = "closed"
    <3>1. /\ pc = "batch" /\ a \in events /\ wire[a] = <<>> /\ client' = client
          /\ object' = [object EXCEPT ![a] = "deleted"]
      BY <2>3 DEF RecvEnd, Deleted, traceVars
    <3>2. a = b
      BY <3>1
    <3> QED
      BY <3>1, <3>2 DEF FreshInv, EventsLive
  <2>4. CASE Register
    <3>1. mapClients[fd[cur]] = None /\ cur \in Threads
      BY <2>4 DEF Register, CurInv
    <3> QED
      BY <2>4, <3>1 DEF Register
  <2>5. QuietStep => object' = object
    BY DEF QuietStep, Close, WaitEvents, LeaveWait, EndBatch, PickListener, AcceptFails,
       BatchError, Crash, CloseServer, DeleteServer, CloseEpoll, StopThread, ProcessExit, connVars
  <2>6. ASSUME NEW a \in Threads,
               TraceConnect(a) \/ TraceSend(a) \/ Exit(a) \/ Recv(a) \/ \E f \in Fds : Accept(a, f)
        PROVE  object'[b] # "deleted"
    <3>1. \/ object' = object \/ object' = [object EXCEPT ![a] = "queued"]
          \/ object' = [object EXCEPT ![a] = "accepted"]
      BY <2>6 DEF TraceConnect, TraceSend, Exit, Recv, Accept, connVars
    <3> QED
      BY <3>1
  <2> QED
    BY <2>1, <2>2, <2>3, <2>4, <2>5, <2>6, LogCases
<1> QED
  BY <1>1, <1>2

LEMMA BlameStep == BlameInv /\ Blame /\ [Next]_vars => Blame'
<1> SUFFICES ASSUME BlameInv, Blame, [Next]_vars PROVE Blame'
  OBVIOUS
<1> USE LogAssumption
<1>1. CASE UNCHANGED vars
  BY <1>1 DEF vars, Blame
<1>2. CASE Crash
  <2>1. fault' = "dead_object" /\ UNCHANGED <<closer, server, pc, events>>
    BY <1>2 DEF Crash, ownVars, loopVars
  <2>2. ~(pc = "batch" /\ \E a \in Threads \cap events : object[a] = "deleted")
    BY DEF BlameInv, FreshInv, EventsLive
  <2>3. server # "listening" /\ (pc = "accept" \/ (pc = "batch" /\ Listener \in events))
    BY <1>2, <2>2 DEF Crash, TouchesDead
  <2>4. closer # "serving"
    BY <2>3 DEF BlameInv, LoopInv
  <2> QED
    BY <2>1, <2>3, <2>4 DEF Blame
<1>3. ASSUME NEW a \in Threads, TraceSend(a), ~PeerOpen(a) PROVE Blame'
  <2>1. /\ fault' = "sigpipe" /\ client[a] = "linked"
        /\ UNCHANGED <<closer, server, epoll, client, object, written, pc>>
    BY <1>3 DEF TraceSend, ownVars, loopVars
  <2>2. \/ closer = "exited" \/ object[a] = "deleted"
        \/ object[a] = "queued" /\ server = "deleted"
    BY <1>3, <2>1 DEF PeerOpen, BlameInv, FdInv, LinkInv, TypeOK
  <2>3. object[a] = "deleted" => LetGo(a)
    BY <2>1 DEF BlameInv, GoneInv
  <2> QED
    BY <2>1, <2>2, <2>3 DEF Blame, LetGo
<1>4. CASE Next /\ ~Crash /\ ~\E a \in Threads : TraceSend(a) /\ ~PeerOpen(a)
  <2>1. fault = "none"
    BY <1>4 DEF Next
  <2>2. ASSUME QuietStep PROVE fault' = fault
    BY <1>4, <2>2 DEF QuietStep, Close, WaitEvents, LeaveWait, EndBatch, PickListener, AcceptFails,
       BatchError, CloseServer, DeleteServer, CloseEpoll, StopThread, ProcessExit
  <2>3. ASSUME AddFails PROVE fault' = fault
    BY <2>3 DEF AddFails
  <2>4. ASSUME Register PROVE fault' = fault
    <3>1. mapClients[fd[cur]] = None
      BY <2>4 DEF Register, BlameInv, FdInv, TypeOK, CurInv
    <3> QED
      BY <2>4, <3>1 DEF Register
  <2>5. ASSUME Cleanup PROVE fault' = fault
    <3>1. \A a \in Threads, f \in Fds : mapClients[f] = a => object[a] = "watched"
      BY DEF BlameInv, FdInv, MapOwnsFds, TypeOK
    <3> QED
      BY <2>5, <3>1 DEF Cleanup
  <2>6. ASSUME NEW a \in Threads,
               TraceConnect(a) \/ TraceSend(a) \/ Exit(a) \/ Recv(a) \/ RecvEnd(a)
               \/ \E f \in Fds : Accept(a, f)
        PROVE  fault' = fault
    BY <1>4, <2>6 DEF TraceConnect, TraceSend, Exit, Recv, RecvEnd, Accept
  <2>7. fault' = "none"
    BY <1>4, <2>1, <2>2, <2>3, <2>4, <2>5, <2>6, LogCases
  <2> QED
    BY <2>7 DEF Blame
<1> QED
  BY <1>1, <1>2, <1>3, <1>4

(***************************************************************************)
(* The log thread touches no deleted connection, and m_server only after   *)
(* Close has taken it; and SIGPIPE in Trace needs a connection that Close, *)
(* the end of the loop or a refused Add has cut.                           *)
(***************************************************************************)
THEOREM LogBlameTheorem == Spec => []Blame
<1>1. Init => LoopInv /\ GoneInv /\ Blame
  BY DEF Init, LoopInv, GoneInv, Blame
<1>2. Init => BlameInv
  BY <1>1, FdInit, UnreadInit, FreshInit DEF BlameInv
<1>3. BlameInv /\ [Next]_vars => BlameInv'
  BY FdStep, UnreadStep, FreshStep, LoopStep, GoneStep DEF BlameInv
<1> QED
  BY <1>1, <1>2, <1>3, BlameStep, PTL DEF Spec
=============================================================================
