-------------------------- MODULE ThreadPoolProofs --------------------------
(***************************************************************************)
(* The safety of CThreadPool for any number of workers, adders and tasks   *)
(* and any choice of hazards.                                              *)
(***************************************************************************)
EXTENDS ThreadPool, SequenceTheorems, TLAPS

\* The places of Next, one name per group of steps that a proof treats alike.
OwnerStep == StartListen \/ StartWatch \/ StartFail
             \/ CloseEpoll \/ CloseServer \/ CloseThreads
             \/ \E w \in Workers : StartThread(w)

WaitStep(w) == WaitEvents(w) \/ Leave(w) \/ End(w) \/ PickListener(w) \/ EndBatch(w) \/ AcceptFail(w)
               \/ \E a \in Adders : PickClient(w, a)

LEMMA StepCases ==
  ASSUME Next
  PROVE  \/ OwnerStep
         \/ \E a \in Adders : Connect(a) \/ Exit(a) \/ \E t \in Tasks : Send(a, t)
         \/ \E w \in Workers :
              \/ WaitStep(w) \/ Add(w) \/ Recv(w) \/ RecvEnd(w) \/ Finish(w) \/ Crash(w)
              \/ \E a \in Adders : Accept(w, a)
  BY DEF Next, OwnerStep, WaitStep, StartStep, Adder, Worker

-----------------------------------------------------------------------------
LEMMA InitTypes == Init => TypeOK
  BY PoolAssumption DEF Init, TypeOK, Sources

LEMMA StepTypes == TypeOK /\ [Next]_vars => TypeOK'
<1> SUFFICES ASSUME TypeOK, [Next]_vars PROVE TypeOK'
  OBVIOUS
<1> USE PoolAssumption DEF TypeOK, Sources, poolVars, connVars, taskVars, workVars
<1>1. CASE UNCHANGED vars
  BY <1>1 DEF vars
<1>2. CASE OwnerStep
  <2>1. CASE StartListen \/ StartWatch \/ StartFail \/ CloseEpoll \/ CloseServer \/ CloseThreads
    BY <2>1 DEF StartListen, StartWatch, StartFail, CloseEpoll, CloseServer, CloseThreads
  <2>2. ASSUME NEW w \in Workers, StartThread(w) PROVE TypeOK'
    BY <2>2 DEF StartThread
  <2> QED
    BY <1>2, <2>1, <2>2 DEF OwnerStep
<1>3. ASSUME NEW a \in Adders, Connect(a) \/ Exit(a) PROVE TypeOK'
  <2>1. CASE Connect(a)
    <3>1. /\ client' \in [Adders -> {"none", "init", "linked", "closed"}]
          /\ link' \in [Adders -> {"none", "queued", "accepted", "watched", "freed"}]
      <4>1. /\ client' = [client EXCEPT ![a] = "linked"] \/ client' = [client EXCEPT ![a] = "init"]
            /\ link' = [link EXCEPT ![a] = "queued"] \/ link' = link
        BY <2>1 DEF Connect
      <4>2. client' \in [Adders -> {"none", "init", "linked", "closed"}]
        BY <4>1
      <4>3. link' \in [Adders -> {"none", "queued", "accepted", "watched", "freed"}]
        BY <4>1
      <4> QED
        BY <4>2, <4>3
    <3>2. UNCHANGED <<poolVars, taskVars, workVars, fault>>
      BY <2>1 DEF Connect
    <3> QED
      BY <3>1, <3>2
  <2>2. CASE Exit(a)
    BY <2>2 DEF Exit
  <2> QED
    BY <1>3, <2>1, <2>2
<1>4. ASSUME NEW a \in Adders, NEW t \in Tasks, Send(a, t) PROVE TypeOK'
  <2>1. Append(stream[a], t) \in Seq(Tasks) /\ Append(sent[a], t) \in Seq(Tasks)
    BY AppendProperties
  <2>2. CASE PeerOpen(a)
    <3>1. /\ stream' \in [Adders -> Seq(Tasks)]
          /\ sent' \in [Adders -> Seq(Tasks)]
          /\ fn' \in [Tasks -> {"none", "sent", "running", "deleted"}]
      <4>1. /\ stream' = [stream EXCEPT ![a] = Append(@, t)]
            /\ sent' = [sent EXCEPT ![a] = Append(@, t)]
            /\ fn' = [fn EXCEPT ![t] = "sent"]
        BY <1>4, <2>2 DEF Send
      <4> QED
        BY <2>1, <4>1
    <3>2. UNCHANGED <<poolVars, connVars, workVars, fault>>
      BY <1>4, <2>2 DEF Send
    <3> QED
      BY <3>1, <3>2
  <2>3. CASE ~PeerOpen(a)
    BY <1>4, <2>3 DEF Send
  <2> QED
    BY <2>2, <2>3
<1>5. ASSUME NEW w \in Workers, WaitStep(w) PROVE TypeOK'
  <2>1. CASE WaitEvents(w)
    <3>1. Ready \in SUBSET Sources
      BY DEF Ready
    <3> QED
      BY <2>1, <3>1 DEF WaitEvents
  <2>2. CASE Leave(w)
    BY <2>2 DEF Leave
  <2>6. CASE End(w)
    BY <2>6 DEF End
  <2>5. CASE PickListener(w)
    BY <2>5 DEF PickListener
  <2>3. CASE EndBatch(w)
    BY <2>3 DEF EndBatch
  <2>7. CASE AcceptFail(w)
    BY <2>7 DEF AcceptFail
  <2>4. ASSUME NEW a \in Adders, PickClient(w, a) PROVE TypeOK'
    BY <2>4 DEF PickClient
  <2> QED
    BY <1>5, <2>1, <2>2, <2>3, <2>4, <2>5, <2>6, <2>7 DEF WaitStep
<1>6. ASSUME NEW w \in Workers, NEW a \in Adders, Accept(w, a) PROVE TypeOK'
  BY <1>6 DEF Accept
<1>7. ASSUME NEW w \in Workers, Add(w) PROVE TypeOK'
  <2>1. /\ link' \in [Adders -> {"none", "queued", "accepted", "watched", "freed"}]
        /\ UNCHANGED <<poolVars, client, taskVars, batch, held, fault>>
    BY <1>7 DEF Add
  <2>2. /\ pc[w] = "add" /\ pc' = [pc EXCEPT ![w] = "batch"]
        /\ at' = [at EXCEPT ![w] = None]
    BY <1>7 DEF Add
  <2> QED
    BY <2>1, <2>2
<1>8. ASSUME NEW w \in Workers, Recv(w) PROVE TypeOK'
  <2>1. Head(stream[at[w]]) \in Tasks /\ Tail(stream[at[w]]) \in Seq(Tasks)
    BY <1>8, HeadTailProperties DEF Recv
  <2> QED
    BY <1>8, <2>1 DEF Recv
<1>9. ASSUME NEW w \in Workers, RecvEnd(w) PROVE TypeOK'
  BY <1>9 DEF RecvEnd
<1>10. ASSUME NEW w \in Workers, Finish(w) PROVE TypeOK'
  BY <1>10 DEF Finish
<1>11. ASSUME NEW w \in Workers, Crash(w) PROVE TypeOK'
  BY <1>11 DEF Crash
<1> QED
  BY <1>1, <1>2, <1>3, <1>4, <1>5, <1>6, <1>7, <1>8, <1>9, <1>10, <1>11, StepCases

(***************************************************************************)
(* The variables keep their types; a worker knows a connection exactly     *)
(* between taking it and letting go of it, and a task exactly while it     *)
(* calls it.                                                               *)
(***************************************************************************)
THEOREM TypesTheorem == Spec => []TypeOK
  BY InitTypes, StepTypes, PTL DEF Spec

-----------------------------------------------------------------------------
(* Tasks: only AddTask's Send and a worker's Recv and Finish move them.    *)

LEMMA TaskCases ==
  ASSUME [Next]_vars
  PROVE  \/ \E a \in Adders, t \in Tasks : Send(a, t)
         \/ \E w \in Workers : Recv(w) \/ Finish(w)
         \/ UNCHANGED <<stream, fn, sent, held>>
<1> USE DEF poolVars, connVars, taskVars, workVars
<1>1. CASE UNCHANGED vars
  BY <1>1 DEF vars
<1>2. CASE OwnerStep
  BY <1>2 DEF OwnerStep, StartListen, StartWatch, StartFail, CloseEpoll, CloseServer, CloseThreads, StartThread
<1>3. ASSUME NEW a \in Adders, Connect(a) \/ Exit(a)
      PROVE  UNCHANGED <<stream, fn, sent, held>>
  BY <1>3 DEF Connect, Exit
<1>4. ASSUME NEW w \in Workers, WaitStep(w) \/ Add(w) \/ RecvEnd(w) \/ Crash(w)
      PROVE  UNCHANGED <<stream, fn, sent, held>>
  BY <1>4 DEF WaitStep, WaitEvents, Leave, End, PickListener, EndBatch, AcceptFail, PickClient,
              Add, RecvEnd, Crash
<1>5. ASSUME NEW w \in Workers, NEW a \in Adders, Accept(w, a)
      PROVE  UNCHANGED <<stream, fn, sent, held>>
  BY <1>5 DEF Accept
<1> QED
  BY <1>1, <1>2, <1>3, <1>4, <1>5, StepCases

LEMMA SendMaps ==
  ASSUME NEW a \in Adders, NEW t \in Tasks, Send(a, t)
  PROVE  TQ!Put(a, t) \/ UNCHANGED <<stream, fn, sent>>
  BY DEF Send, TQ!Put, taskVars

LEMMA RecvMaps ==
  ASSUME TypeOK, NEW w \in Workers, Recv(w)
  PROVE  at[w] \in Adders /\ TQ!Take(at[w])
<1>1. at[w] \in Adders
  BY PoolAssumption DEF TypeOK, Recv
<1> QED
  BY <1>1 DEF Recv, TQ!Take

LEMMA FinishMaps ==
  ASSUME TypeOK, HeldOnce, NEW w \in Workers, Finish(w)
  PROVE  held[w] \in Tasks /\ TQ!Finish(held[w])
<1>1. held[w] \in Tasks
  BY DEF TypeOK, Finish
<1> QED
  BY <1>1 DEF Finish, TQ!Finish, HeldOnce

LEMMA StepMaps == TypeOK /\ HeldOnce /\ [Next]_vars => [TQ!Next]_(TQ!qvars)
<1> SUFFICES ASSUME TypeOK, HeldOnce, [Next]_vars PROVE [TQ!Next]_(TQ!qvars)
  OBVIOUS
<1>1. ASSUME NEW a \in Adders, NEW t \in Tasks, Send(a, t) PROVE [TQ!Next]_(TQ!qvars)
  BY <1>1, SendMaps DEF TQ!Next, TQ!qvars
<1>2. ASSUME NEW w \in Workers, Recv(w) \/ Finish(w) PROVE [TQ!Next]_(TQ!qvars)
  BY <1>2, RecvMaps, FinishMaps DEF TQ!Next
<1>3. CASE UNCHANGED <<stream, fn, sent, held>>
  BY <1>3 DEF TQ!qvars
<1> QED
  BY <1>1, <1>2, <1>3, TaskCases

LEMMA InitMaps == Init => TQ!Init
  BY DEF Init, TQ!Init

LEMMA HeldStep == TypeOK /\ PointersLive /\ HeldOnce /\ [Next]_vars => HeldOnce'
<1> SUFFICES ASSUME TypeOK, PointersLive, HeldOnce, [Next]_vars PROVE HeldOnce'
  OBVIOUS
<1>1. ASSUME NEW a \in Adders, NEW t \in Tasks, Send(a, t) PROVE HeldOnce'
  <2>1. held' = held
    BY <1>1 DEF Send, workVars
  <2>2. \A u \in Tasks : fn'[u] = "running" <=> fn[u] = "running"
    BY <1>1 DEF Send, TypeOK, taskVars
  <2> QED
    BY <2>1, <2>2 DEF HeldOnce
<1>2. ASSUME NEW w \in Workers, Recv(w) PROVE HeldOnce'
  <2> DEFINE base == Head(stream[at[w]])
  <2>1. at[w] \in Adders /\ stream[at[w]] \in Seq(Tasks) /\ stream[at[w]] # <<>>
    BY <1>2, RecvMaps DEF TypeOK, Recv
  <2>2. base \in Tasks /\ base = stream[at[w]][1] /\ 1 \in 1..Len(stream[at[w]])
    BY <2>1, HeadTailProperties
  <2>3. fn[base] = "sent"
    BY <2>1, <2>2 DEF PointersLive, TQ!PointersLive
  <2>4. held' = [held EXCEPT ![w] = base] /\ fn' = [fn EXCEPT ![base] = "running"]
    BY <1>2 DEF Recv
  <2>5. held[w] = None
    BY <1>2 DEF TypeOK, Recv
  <2> HIDE DEF base
  <2>6. \A v \in Workers : held[v] # base
    BY <2>2, <2>3 DEF HeldOnce
  <2>7. /\ held'[w] = base
        /\ \A v \in Workers : v # w => held'[v] = held[v] /\ held[v] # base
    BY <2>4, <2>6 DEF TypeOK
  <2>8. \A t \in Tasks : fn'[t] = "running" <=> fn[t] = "running" \/ t = base
    BY <2>2, <2>4 DEF TypeOK
  <2>9. \A t \in Tasks : t # None
    BY PoolAssumption
  <2>10. \A t \in Tasks : fn'[t] = "running" <=> \E v \in Workers : held'[v] = t
    BY <2>2, <2>5, <2>7, <2>8, <2>9 DEF HeldOnce
  <2> QED
    BY <2>7, <2>10 DEF HeldOnce
<1>3. ASSUME NEW w \in Workers, Finish(w) PROVE HeldOnce'
  <2>1. held' = [held EXCEPT ![w] = None] /\ fn' = [fn EXCEPT ![held[w]] = "deleted"]
    BY <1>3 DEF Finish
  <2>2. held[w] \in Tasks /\ held[w] # None
    BY <1>3, FinishMaps, PoolAssumption
  <2>3. /\ held'[w] = None
        /\ \A v \in Workers : v # w => held'[v] = held[v] /\ held[v] # held[w]
    BY <2>1, <2>2 DEF HeldOnce, TypeOK
  <2>4. \A t \in Tasks : fn'[t] = "running" <=> fn[t] = "running" /\ t # held[w]
    BY <2>1, <2>2 DEF TypeOK
  <2>5. \A t \in Tasks : t # None
    BY PoolAssumption
  <2>6. \A t \in Tasks : fn'[t] = "running" <=> \E v \in Workers : held'[v] = t
    BY <2>3, <2>4, <2>5 DEF HeldOnce
  <2> QED
    BY <2>3, <2>6 DEF HeldOnce
<1>4. CASE UNCHANGED <<stream, fn, sent, held>>
  BY <1>4 DEF HeldOnce
<1> QED
  BY <1>1, <1>2, <1>3, <1>4, TaskCases

(* The queue's invariant is inductive over TaskQueue's steps, hence over   *)
(* the pool's: QTypeOK and PointersLive are proved in TaskQueueProofs.     *)

TQP == INSTANCE TaskQueueProofs WITH queue <- stream, status <- fn

TaskInv == TypeOK /\ HeldOnce /\ PointersLive

LEMMA TaskInitInv == Init => TaskInv
<1> SUFFICES ASSUME Init PROVE TaskInv
  OBVIOUS
<1>1. TypeOK
  BY InitTypes
<1>2. HeldOnce
  BY PoolAssumption DEF Init, HeldOnce
<1>3. PointersLive
  BY DEF Init, PointersLive, TQ!PointersLive
<1> QED
  BY <1>1, <1>2, <1>3 DEF TaskInv

LEMMA TaskStepInv == TaskInv /\ [Next]_vars => TaskInv'
<1> SUFFICES ASSUME TaskInv, [Next]_vars PROVE TaskInv'
  OBVIOUS
<1>1. TypeOK' /\ HeldOnce'
  BY StepTypes, HeldStep DEF TaskInv
<1>2. TQP!QInv
  BY DEF TaskInv, TypeOK, PointersLive, TQ!PointersLive,
         TQP!QInv, TQP!QTypeOK, TQP!PointersLive, TQP!Statuses
<1>3. [TQP!Next]_(TQP!qvars)
  BY StepMaps DEF TaskInv, TQ!Next, TQ!qvars, TQ!Put, TQ!Take, TQ!Finish,
                  TQP!Next, TQP!qvars, TQP!Put, TQP!Take, TQP!Finish
<1>4. TQP!QInv'
  BY <1>2, <1>3, TQP!QStepInv
<1>5. PointersLive'
  BY <1>4 DEF PointersLive, TQ!PointersLive, TQP!QInv, TQP!PointersLive
<1> QED
  BY <1>1, <1>5 DEF TaskInv

(***************************************************************************)
(* Each task is held by exactly one worker while it runs.                  *)
(***************************************************************************)
THEOREM TasksTheorem == Spec => []HeldOnce
<1>1. TaskInv => HeldOnce
  BY DEF TaskInv
<1> QED
  BY <1>1, TaskInitInv, TaskStepInv, PTL DEF Spec

(***************************************************************************)
(* No pointer in a connection is dead or there twice.                      *)
(***************************************************************************)
THEOREM LiveTheorem == Spec => []PointersLive
<1>1. TaskInv => PointersLive
  BY DEF TaskInv
<1> QED
  BY <1>1, TaskInitInv, TaskStepInv, PTL DEF Spec

(***************************************************************************)
(* CThreadPool implements the queue of tasks its users are promised.       *)
(***************************************************************************)
THEOREM RefinementTheorem == Spec => TasksAsPromised
<1>1. TaskInv /\ [Next]_vars => [TQ!Next]_(TQ!qvars)
  BY StepMaps DEF TaskInv
<1> QED
  BY <1>1, InitMaps, TaskInitInv, TaskStepInv, PTL DEF Spec, TasksAsPromised, TQ!Spec

(***************************************************************************)
(* CThreadPool creates, calls and deletes each task once and in this       *)
(* order: what the queue promises (OneStepForward) carries over.           *)
(***************************************************************************)
THEOREM ForwardTheorem == Spec => TQ!OneStepForward
<1>1. TaskInv => TQP!QInv
  BY DEF TaskInv, TypeOK, PointersLive, TQ!PointersLive,
         TQP!QInv, TQP!QTypeOK, TQP!PointersLive, TQP!Statuses
<1>2. TaskInv /\ [Next]_vars => [TQP!Next]_(TQP!qvars)
  BY StepMaps DEF TaskInv, TQ!Next, TQ!qvars, TQ!Put, TQ!Take, TQ!Finish,
                  TQP!Next, TQP!qvars, TQP!Put, TQP!Take, TQP!Finish
<1>3. TaskInv /\ [Next]_vars =>
        [\A t \in Tasks : TQ!Rank(fn'[t]) \in {TQ!Rank(fn[t]), TQ!Rank(fn[t]) + 1}]_(TQ!qvars)
  BY <1>1, <1>2, TQP!ForwardStep DEF TQ!Rank, TQP!Rank
<1> QED
  BY <1>3, TaskInitInv, TaskStepInv, PTL DEF Spec, TQ!OneStepForward

-----------------------------------------------------------------------------
(* Order of delivery.                                                      *)

LEMMA CalledStays ==
  ASSUME TaskInv, [Next]_vars, NEW t \in Tasks, fn[t] \in {"running", "deleted"}
  PROVE  fn'[t] \in {"running", "deleted"}
<1> USE DEF TaskInv, TypeOK
<1>1. ASSUME NEW a \in Adders, NEW u \in Tasks, Send(a, u) PROVE fn'[t] = fn[t]
  <2>1. fn[u] = "none" /\ (fn' = [fn EXCEPT ![u] = "sent"] \/ fn' = fn)
    BY <1>1 DEF Send, taskVars
  <2> QED
    BY <2>1
<1>2. ASSUME NEW w \in Workers, Recv(w) \/ Finish(w) PROVE fn'[t] \in {"running", "deleted"}
  BY <1>2 DEF Recv, Finish
<1> QED
  BY <1>1, <1>2, TaskCases

\* What InOrder says of the pointers; the rest, about deleted connections, is
\* ReadInv's.
Delivered ==
  \A a \in Adders :
    LET read == Len(sent[a]) - Len(stream[a])
    IN  /\ Len(stream[a]) <= Len(sent[a])
        /\ \A i \in 1..Len(stream[a]) : stream[a][i] = sent[a][read + i]
        /\ \A i \in 1..read : fn[sent[a][i]] \in {"running", "deleted"}

LEMMA OrderStep == TaskInv /\ Delivered /\ [Next]_vars => Delivered'
<1> SUFFICES ASSUME TaskInv, Delivered, [Next]_vars, NEW b \in Adders
    PROVE  LET read == Len(sent'[b]) - Len(stream'[b])
           IN  /\ Len(stream'[b]) <= Len(sent'[b])
               /\ \A i \in 1..Len(stream'[b]) : stream'[b][i] = sent'[b][read + i]
               /\ \A i \in 1..read : fn'[sent'[b][i]] \in {"running", "deleted"}
  BY DEF Delivered
<1> DEFINE n == Len(stream[b])
           m == Len(sent[b])
           read == m - n
           Goal == LET r == Len(sent'[b]) - Len(stream'[b])
                   IN  /\ Len(stream'[b]) <= Len(sent'[b])
                       /\ \A i \in 1..Len(stream'[b]) : stream'[b][i] = sent'[b][r + i]
                       /\ \A i \in 1..r : fn'[sent'[b][i]] \in {"running", "deleted"}
<1>1. stream[b] \in Seq(Tasks) /\ sent[b] \in Seq(Tasks)
  BY DEF TaskInv, TypeOK
<1>2. n \in Nat /\ m \in Nat /\ n <= m
  <2>1. n \in Nat /\ m \in Nat
    BY <1>1
  <2>2. n <= m
    BY DEF Delivered
  <2> QED
    BY <2>1, <2>2
<1>3. \A i \in 1..n : stream[b][i] = sent[b][read + i]
  BY DEF Delivered
<1>4. \A i \in 1..m : sent[b][i] \in Tasks
  BY <1>1
<1>5. \A i \in 1..read : fn'[sent[b][i]] \in {"running", "deleted"}
  <2>1. \A i \in 1..read : fn[sent[b][i]] \in {"running", "deleted"}
    BY DEF Delivered
  <2>2. \A i \in 1..read : i \in 1..m
    BY <1>2
  <2> QED
    BY <1>4, <2>1, <2>2, CalledStays
<1>6. ASSUME stream'[b] = stream[b], sent'[b] = sent[b] PROVE Goal
  <2>1. Len(stream'[b]) = n /\ Len(sent'[b]) = m
    BY <1>6
  <2> HIDE DEF n, m
  <2> QED
    BY <1>2, <1>3, <1>5, <1>6, <2>1
<1>7. ASSUME NEW t \in Tasks, Send(b, t), PeerOpen(b) PROVE Goal
  <2>1. stream'[b] = Append(stream[b], t) /\ sent'[b] = Append(sent[b], t)
    BY <1>7 DEF Send, TaskInv, TypeOK
  <2>2. /\ \A i \in 1..n : stream'[b][i] = stream[b][i]
        /\ \A i \in 1..m : sent'[b][i] = sent[b][i]
        /\ stream'[b][n + 1] = t /\ sent'[b][m + 1] = t
    BY <1>1, <2>1, AppendProperties
  <2>3. Len(stream'[b]) = n + 1 /\ Len(sent'[b]) = m + 1
    BY <1>1, <2>1, AppendProperties
  <2> HIDE DEF n, m
  <2>4. Len(sent'[b]) - Len(stream'[b]) = read /\ Len(stream'[b]) <= Len(sent'[b])
    BY <1>2, <2>3
  <2>5. ASSUME NEW i \in 1..(n + 1) PROVE stream'[b][i] = sent'[b][read + i]
    <3>1. CASE i \in 1..n
      <4>1. read + i \in 1..m
        BY <1>2, <3>1
      <4> QED
        BY <1>3, <2>2, <3>1, <4>1
    <3>2. CASE i = n + 1
      <4>1. read + i = m + 1
        BY <1>2, <3>2
      <4> QED
        BY <2>2, <3>2, <4>1
    <3>3. i \in 1..n \/ i = n + 1
      BY <1>2
    <3> QED
      BY <3>1, <3>2, <3>3
  <2>6. ASSUME NEW i \in 1..read PROVE fn'[sent'[b][i]] \in {"running", "deleted"}
    <3>1. i \in 1..m
      BY <1>2
    <3> QED
      BY <1>5, <2>2, <3>1
  <2> QED
    BY <2>3, <2>4, <2>5, <2>6
<1>8. ASSUME NEW w \in Workers, Recv(w), at[w] = b PROVE Goal
  <2>1. /\ stream[b] # <<>> /\ stream'[b] = Tail(stream[b]) /\ sent'[b] = sent[b]
        /\ fn'[Head(stream[b])] = "running"
    <3>1. stream[b] # <<>> /\ stream' = [stream EXCEPT ![b] = Tail(@)] /\ sent' = sent
      BY <1>8 DEF Recv
    <3>2. fn' = [fn EXCEPT ![Head(stream[b])] = "running"]
      BY <1>8 DEF Recv
    <3>3. Head(stream[b]) \in Tasks
      BY <1>1, <3>1, HeadTailProperties
    <3> QED
      BY <3>1, <3>2, <3>3 DEF TaskInv, TypeOK
  <2>2. Len(stream'[b]) = n - 1
    BY <1>1, <2>1, HeadTailProperties
  <2>3. \A i \in 1..Len(stream'[b]) : stream'[b][i] = stream[b][i + 1]
    BY <1>1, <2>1, HeadTailProperties
  <2>4. Head(stream[b]) = stream[b][1] /\ n # 0
    BY <1>1, <2>1
  <2>5. Len(sent'[b]) = m
    BY <2>1
  <2> HIDE DEF n, m
  <2>6. Len(sent'[b]) - Len(stream'[b]) = read + 1 /\ Len(stream'[b]) <= Len(sent'[b])
    BY <1>2, <2>2, <2>5
  <2>7. ASSUME NEW i \in 1..(n - 1) PROVE stream'[b][i] = sent'[b][(read + 1) + i]
    <3>1. i + 1 \in 1..n /\ read + (i + 1) = (read + 1) + i
      BY <1>2, <2>4
    <3> QED
      BY <1>3, <2>1, <2>2, <2>3, <3>1
  <2>8. sent[b][read + 1] = Head(stream[b])
    <3>1. 1 \in 1..n
      BY <1>2, <2>4
    <3> QED
      BY <1>3, <2>4, <3>1
  <2>9. ASSUME NEW i \in 1..(read + 1) PROVE fn'[sent'[b][i]] \in {"running", "deleted"}
    <3>1. CASE i \in 1..read
      BY <1>5, <2>1, <3>1
    <3>2. CASE i = read + 1
      BY <2>1, <2>8, <3>2
    <3>3. i \in 1..read \/ i = read + 1
      BY <1>2
    <3> QED
      BY <3>1, <3>2, <3>3
  <2> QED
    BY <2>2, <2>6, <2>7, <2>9
<1>9. \/ stream'[b] = stream[b] /\ sent'[b] = sent[b]
      \/ \E t \in Tasks : Send(b, t) /\ PeerOpen(b)
      \/ \E w \in Workers : Recv(w) /\ at[w] = b
  <2>1. ASSUME NEW a \in Adders, NEW t \in Tasks, Send(a, t)
        PROVE  \/ a = b /\ PeerOpen(a)
               \/ stream'[b] = stream[b] /\ sent'[b] = sent[b]
    <3>1. CASE PeerOpen(a)
      <4>1. stream' = [stream EXCEPT ![a] = Append(@, t)] /\ sent' = [sent EXCEPT ![a] = Append(@, t)]
        BY <2>1, <3>1 DEF Send
      <4> QED
        BY <3>1, <4>1 DEF TaskInv, TypeOK
    <3>2. CASE ~PeerOpen(a)
      BY <2>1, <3>2 DEF Send, taskVars
    <3> QED
      BY <3>1, <3>2
  <2>2. ASSUME NEW w \in Workers, Recv(w)
        PROVE  at[w] = b \/ (stream'[b] = stream[b] /\ sent'[b] = sent[b])
    <3>1. stream' = [stream EXCEPT ![at[w]] = Tail(@)] /\ sent' = sent
      BY <2>2 DEF Recv
    <3> QED
      BY <3>1 DEF TaskInv, TypeOK
  <2>3. ASSUME NEW w \in Workers, Finish(w)
        PROVE  stream'[b] = stream[b] /\ sent'[b] = sent[b]
    BY <2>3 DEF Finish
  <2> QED
    BY <2>1, <2>2, <2>3, TaskCases
<1> QED
  BY <1>6, <1>7, <1>8, <1>9

-----------------------------------------------------------------------------
(* Connections.                                                            *)

\* What the two ends of a connection, the listener and the chosen hazards
\* have to do with each other.
ConnInv ==
  /\ \A a \in Adders :
       /\ client[a] \in {"none", "init"} => link[a] = "none"
       /\ client[a] = "linked" => link[a] # "none"
       /\ client[a] = "closed" => "exit" \in Hazards
       /\ link[a] # "none" => server \in {"listening", "deleted"}
       /\ link[a] = "freed" => client[a] = "closed" \/ epoll = "closed" \/ "refuse" \in Hazards
  /\ start = "new" => server = "null"
  /\ server = "deleted" \/ threads = "deleted" => epoll = "closed"
  /\ epoll = "closed" \/ server = "deleted" \/ threads = "deleted" => "close" \in Hazards

LEMMA ConnStep == TypeOK /\ SingleOwner /\ ConnInv /\ [Next]_vars => ConnInv'
<1> SUFFICES ASSUME TypeOK, SingleOwner, ConnInv, [Next]_vars PROVE ConnInv'
  OBVIOUS
<1> USE DEF TypeOK, poolVars, connVars, taskVars, workVars
<1>1. CASE UNCHANGED vars
  BY <1>1 DEF vars, ConnInv
<1>2. CASE OwnerStep
  <2>1. CASE StartListen \/ StartWatch \/ StartFail
    BY <2>1 DEF StartListen, StartWatch, StartFail, ConnInv
  <2>2. ASSUME NEW w \in Workers, StartThread(w) PROVE ConnInv'
    BY <2>2 DEF StartThread, ConnInv
  <2>3. CASE CloseEpoll \/ CloseServer \/ CloseThreads
    BY <2>3 DEF CloseEpoll, CloseServer, CloseThreads, ConnInv
  <2> QED
    BY <1>2, <2>1, <2>2, <2>3 DEF OwnerStep
<1>3. ASSUME NEW a \in Adders, Connect(a) PROVE ConnInv'
  <2>1. CASE server = "listening"
    <3>1. /\ client' = [client EXCEPT ![a] = "linked"] /\ link' = [link EXCEPT ![a] = "queued"]
          /\ UNCHANGED <<poolVars>>
      BY <1>3, <2>1 DEF Connect
    <3>2. /\ client'[a] = "linked" /\ link'[a] = "queued"
          /\ \A b \in Adders : b # a => client'[b] = client[b] /\ link'[b] = link[b]
      BY <3>1
    <3> QED
      BY <2>1, <3>1, <3>2 DEF ConnInv
  <2>2. CASE server # "listening"
    <3>1. /\ client[a] = "none" /\ client' = [client EXCEPT ![a] = "init"]
          /\ UNCHANGED <<link, poolVars>>
      BY <1>3, <2>2 DEF Connect
    <3> QED
      BY <3>1 DEF ConnInv
  <2> QED
    BY <2>1, <2>2
<1>4. ASSUME NEW a \in Adders, Exit(a) PROVE ConnInv'
  BY <1>4 DEF Exit, ConnInv
<1>5. ASSUME NEW a \in Adders, NEW t \in Tasks, Send(a, t) PROVE ConnInv'
  <2>1. UNCHANGED <<client, link, poolVars>>
    BY <1>5 DEF Send
  <2> QED
    BY <2>1 DEF ConnInv
<1>6. ASSUME NEW w \in Workers, WaitStep(w) \/ Recv(w) \/ Finish(w) \/ Crash(w) PROVE ConnInv'
  <2>1. UNCHANGED <<client, link, poolVars>>
    BY <1>6 DEF WaitStep, WaitEvents, Leave, End, PickListener, EndBatch, AcceptFail, PickClient,
                Recv, Finish, Crash
  <2> QED
    BY <2>1 DEF ConnInv
<1>7. ASSUME NEW w \in Workers, NEW a \in Adders, Accept(w, a) PROVE ConnInv'
  BY <1>7 DEF Accept, ConnInv
<1>8. ASSUME NEW w \in Workers, Add(w) PROVE ConnInv'
  <2>1. at[w] \in Adders /\ pc[w] = "add"
    BY <1>8, PoolAssumption DEF Add
  <2>2. link[at[w]] = "accepted"
    BY <2>1 DEF SingleOwner
  <2>3. PICK s \in {"watched", "freed"} :
           /\ link' = [link EXCEPT ![at[w]] = s]
           /\ s = "freed" => epoll = "closed" \/ "refuse" \in Hazards
    BY <1>8 DEF Add
  <2>4. UNCHANGED <<client, poolVars>>
    BY <1>8 DEF Add
  <2> QED
    BY <2>1, <2>2, <2>3, <2>4 DEF ConnInv
<1>9. ASSUME NEW w \in Workers, RecvEnd(w) PROVE ConnInv'
  <2>1. at[w] \in Adders
    BY <1>9, PoolAssumption DEF RecvEnd
  <2> QED
    BY <1>9, <2>1 DEF RecvEnd, ConnInv
<1> QED
  BY <1>1, <1>2, <1>3, <1>4, <1>5, <1>6, <1>7, <1>8, <1>9, StepCases

\* One worker and one only is between Link and Add of a new connection.
LEMMA SingleOwnerStep ==
  TypeOK /\ SingleOwner /\ ConnInv /\ [Next]_vars => SingleOwner'
<1> SUFFICES ASSUME TypeOK, SingleOwner, ConnInv, [Next]_vars PROVE SingleOwner'
  OBVIOUS
<1> USE DEF TypeOK, poolVars, connVars, taskVars, workVars
<1> DEFINE owns(w, a) == pc[w] = "add" /\ at[w] = a
<1>a. \A w \in Workers : pc'[w] = "add" => at'[w] \in Adders
  BY StepTypes, PoolAssumption
<1>b. ASSUME \A a \in Adders : link'[a] = "accepted" <=> link[a] = "accepted",
             \A w \in Workers, a \in Adders : owns(w, a)' <=> owns(w, a)
      PROVE  SingleOwner'
  BY <1>a, <1>b DEF SingleOwner
<1>1. CASE UNCHANGED vars
  BY <1>1 DEF vars, SingleOwner
<1>2. CASE OwnerStep
  <2>1. CASE StartListen \/ StartWatch \/ StartFail \/ CloseEpoll \/ CloseServer \/ CloseThreads
    BY <2>1 DEF StartListen, StartWatch, StartFail, CloseEpoll, CloseServer, CloseThreads, SingleOwner
  <2>2. ASSUME NEW w \in Workers, StartThread(w) PROVE SingleOwner'
    BY <1>b, <2>2 DEF StartThread
  <2> QED
    BY <1>2, <2>1, <2>2 DEF OwnerStep
<1>3. ASSUME NEW a \in Adders, Connect(a) \/ Exit(a) PROVE SingleOwner'
  <2>1. link[a] = "none" \/ link' = link
    BY <1>3 DEF Connect, Exit, ConnInv
  <2>2. link' = [link EXCEPT ![a] = "queued"] \/ link' = link
    BY <1>3 DEF Connect, Exit
  <2>3. pc' = pc /\ at' = at
    BY <1>3 DEF Connect, Exit
  <2> QED
    BY <1>b, <2>1, <2>2, <2>3
<1>4. ASSUME NEW a \in Adders, NEW t \in Tasks, Send(a, t) PROVE SingleOwner'
  BY <1>4 DEF Send, SingleOwner
<1>5. ASSUME NEW w \in Workers, WaitStep(w) PROVE SingleOwner'
  <2>1. link' = link /\ pc[w] # "add"
    BY <1>5 DEF WaitStep, WaitEvents, Leave, End, PickListener, EndBatch, AcceptFail, PickClient
  <2>2. \A v \in Workers : /\ v # w => pc'[v] = pc[v] /\ at'[v] = at[v]
                          /\ pc'[w] # "add"
    BY <1>5 DEF WaitStep, WaitEvents, Leave, End, PickListener, EndBatch, AcceptFail, PickClient
  <2> QED
    BY <1>b, <2>1, <2>2
<1>6. ASSUME NEW w \in Workers, Recv(w) \/ RecvEnd(w) \/ Finish(w) \/ Crash(w) PROVE SingleOwner'
  <2>1. \A a \in Adders : link'[a] = "accepted" <=> link[a] = "accepted"
    BY <1>6, PoolAssumption DEF Recv, RecvEnd, Finish, Crash
  <2>2. \A v \in Workers, a \in Adders : owns(v, a)' <=> owns(v, a)
    BY <1>6 DEF Recv, RecvEnd, Finish, Crash
  <2> QED
    BY <1>b, <2>1, <2>2
<1>7. ASSUME NEW w \in Workers, NEW a \in Adders, Accept(w, a) PROVE SingleOwner'
  <2>1. /\ link[a] = "queued" /\ pc[w] = "accept"
        /\ link' = [link EXCEPT ![a] = "accepted"]
        /\ at' = [at EXCEPT ![w] = a] /\ pc' = [pc EXCEPT ![w] = "add"]
    BY <1>7 DEF Accept
  <2>2. \A v \in Workers : ~owns(v, a) /\ (v # w => pc'[v] = pc[v] /\ at'[v] = at[v])
    <3>1. \A v \in Workers : ~owns(v, a)
      <4> HIDE DEF TypeOK
      <4> QED
        BY <2>1 DEF SingleOwner
    <3>2. \A v \in Workers : v # w => pc'[v] = pc[v] /\ at'[v] = at[v]
      BY <2>1
    <3> QED
      BY <3>1, <3>2
  <2>3. pc'[w] = "add" /\ at'[w] = a
    BY <2>1
  <2>4. link'[a] = "accepted" /\ \A b \in Adders : b # a => link'[b] = link[b]
    BY <2>1
  <2>5. \A b \in Adders : link'[b] = "accepted" <=> \E v \in Workers : pc'[v] = "add" /\ at'[v] = b
    BY <2>1, <2>2, <2>3, <2>4 DEF SingleOwner
  <2>6. ASSUME NEW u \in Workers, NEW v \in Workers, pc'[u] = "add", pc'[v] = "add", at'[u] = at'[v]
        PROVE  u = v
    BY <2>2, <2>3, <2>6 DEF SingleOwner
  <2> QED
    BY <2>5, <2>6 DEF SingleOwner
<1>8. ASSUME NEW w \in Workers, Add(w) PROVE SingleOwner'
  <2>1. at[w] \in Adders /\ pc[w] = "add"
    BY <1>8, PoolAssumption DEF Add
  <2>2. PICK s \in {"watched", "freed"} : link' = [link EXCEPT ![at[w]] = s]
    BY <1>8 DEF Add
  <2>3. pc' = [pc EXCEPT ![w] = "batch"] /\ at' = [at EXCEPT ![w] = None]
    BY <1>8 DEF Add
  <2>4. \A v \in Workers : v # w => pc'[v] = pc[v] /\ at'[v] = at[v]
    BY <2>3
  <2>5. \A v \in Workers : v # w /\ pc[v] = "add" => at[v] # at[w]
    BY <2>1 DEF SingleOwner
  <2>6. pc'[w] # "add" /\ link'[at[w]] # "accepted"
    BY <2>1, <2>2, <2>3
  <2>7. \A b \in Adders : b # at[w] => link'[b] = link[b]
    BY <2>2
  <2>8. \A b \in Adders :
           b # at[w] => (link'[b] = "accepted" <=> \E v \in Workers : owns(v, b)')
    <3> HIDE DEF TypeOK
    <3> QED
      BY <2>4, <2>6, <2>7 DEF SingleOwner
  <2>9. link'[at[w]] # "accepted" /\ ~\E v \in Workers : pc'[v] = "add" /\ at'[v] = at[w]
    <3> HIDE DEF TypeOK
    <3> QED
      BY <2>1, <2>4, <2>5, <2>6
  <2>10. ASSUME NEW u \in Workers, NEW v \in Workers, pc'[u] = "add", pc'[v] = "add", at'[u] = at'[v]
         PROVE  u = v
    <3> HIDE DEF TypeOK
    <3> QED
      BY <2>4, <2>6, <2>10 DEF SingleOwner
  <2> HIDE DEF TypeOK
  <2> QED
    BY <2>8, <2>9, <2>10 DEF SingleOwner
<1> QED
  BY <1>1, <1>2, <1>3, <1>4, <1>5, <1>6, <1>7, <1>8, StepCases

OwnerInv == TypeOK /\ SingleOwner /\ ConnInv

LEMMA OwnerInitInv == Init => OwnerInv
<1> SUFFICES ASSUME Init PROVE OwnerInv
  OBVIOUS
<1>1. SingleOwner /\ ConnInv
  BY DEF Init, SingleOwner, ConnInv
<1> QED
  BY <1>1, InitTypes DEF OwnerInv

LEMMA OwnerStepInv == OwnerInv /\ [Next]_vars => OwnerInv'
  BY StepTypes, ConnStep, SingleOwnerStep DEF OwnerInv

(***************************************************************************)
(* No accepted connection is forgotten, and none has two workers adding it.*)
(***************************************************************************)
THEOREM OwnerTheorem == Spec => []SingleOwner
<1>1. OwnerInv => SingleOwner
  BY DEF OwnerInv
<1> QED
  BY <1>1, OwnerInitInv, OwnerStepInv, PTL DEF Spec

-----------------------------------------------------------------------------
(* What a connection that a worker deletes has carried.                    *)

\* Before it is watched nothing of a connection is read; it is deleted then,
\* or after the adder's end once everything is read.
ReadInv ==
  \A a \in Adders :
    /\ link[a] \in {"none", "queued", "accepted"} => stream[a] = sent[a]
    /\ link[a] = "freed" =>
         \/ stream[a] = sent[a] /\ (epoll = "closed" \/ "refuse" \in Hazards)
         \/ stream[a] = <<>> /\ client[a] = "closed"

\* The steps that touch a connection or what is in it.
LEMMA LinkCases ==
  ASSUME TypeOK, SingleOwner, [Next]_vars
  PROVE  \/ \E a \in Adders : Connect(a) \/ Exit(a) \/ \E t \in Tasks : Send(a, t)
         \/ \E w \in Workers : Recv(w)
         \/ \E w \in Workers : Add(w) /\ at[w] \in Adders /\ link[at[w]] = "accepted"
         \/ \E w \in Workers : RecvEnd(w) /\ at[w] \in Adders
         \/ \E w \in Workers, a \in Adders : Accept(w, a)
         \/ UNCHANGED <<client, link, stream, sent>>
<1> USE DEF poolVars, connVars, taskVars, workVars
<1>1. CASE UNCHANGED vars
  BY <1>1 DEF vars
<1>2. CASE OwnerStep
  BY <1>2 DEF OwnerStep, StartListen, StartWatch, StartFail, CloseEpoll, CloseServer, CloseThreads, StartThread
<1>3. ASSUME NEW w \in Workers, WaitStep(w) \/ Finish(w) \/ Crash(w)
      PROVE  UNCHANGED <<client, link, stream, sent>>
  BY <1>3 DEF WaitStep, WaitEvents, Leave, End, PickListener, EndBatch, AcceptFail, PickClient,
              Finish, Crash
<1>4. ASSUME NEW w \in Workers, Add(w) PROVE at[w] \in Adders /\ link[at[w]] = "accepted"
  <2>1. at[w] \in Adders /\ pc[w] = "add"
    BY <1>4, PoolAssumption DEF Add, TypeOK
  <2> QED
    BY <2>1 DEF SingleOwner
<1>5. ASSUME NEW w \in Workers, RecvEnd(w) PROVE at[w] \in Adders
  BY <1>5, PoolAssumption DEF RecvEnd, TypeOK
<1> QED
  BY <1>1, <1>2, <1>3, <1>4, <1>5, StepCases

LEMMA EpollStays == [Next]_vars /\ ConnInv /\ epoll = "closed" => epoll' = "closed"
<1> SUFFICES ASSUME [Next]_vars, ConnInv, epoll = "closed" PROVE epoll' = epoll
  OBVIOUS
<1> USE DEF poolVars, connVars, taskVars, workVars
<1>1. CASE UNCHANGED vars
  BY <1>1 DEF vars
<1>2. CASE OwnerStep
  BY <1>2 DEF OwnerStep, StartListen, StartWatch, StartFail, CloseEpoll, CloseServer, CloseThreads, StartThread
<1>3. ASSUME NEW a \in Adders, Connect(a) \/ Exit(a) \/ \E t \in Tasks : Send(a, t)
      PROVE  epoll' = epoll
  BY <1>3 DEF Connect, Exit, Send
<1>4. ASSUME NEW w \in Workers,
             WaitStep(w) \/ Add(w) \/ Recv(w) \/ RecvEnd(w) \/ Finish(w) \/ Crash(w)
             \/ \E a \in Adders : Accept(w, a)
      PROVE  epoll' = epoll
  BY <1>4 DEF WaitStep, WaitEvents, Leave, End, PickListener, EndBatch, AcceptFail, PickClient,
              Add, Recv, RecvEnd, Finish, Crash, Accept
<1> QED
  BY <1>1, <1>2, <1>3, <1>4, StepCases

LEMMA ReadStep == OwnerInv /\ ReadInv /\ [Next]_vars => ReadInv'
<1> SUFFICES ASSUME OwnerInv, ReadInv, [Next]_vars PROVE ReadInv'
  OBVIOUS
<1> DEFINE shut == epoll = "closed" \/ "refuse" \in Hazards
           fine(b) == /\ link[b] \in {"none", "queued", "accepted"} => stream[b] = sent[b]
                      /\ link[b] = "freed" => \/ stream[b] = sent[b] /\ shut
                                              \/ stream[b] = <<>> /\ client[b] = "closed"
<1>a. TypeOK /\ SingleOwner /\ ConnInv /\ \A b \in Adders : fine(b)
  BY DEF OwnerInv, ReadInv
<1>b. shut => shut'
  BY <1>a, EpollStays
<1>c. ASSUME NEW b \in Adders, link'[b] = link[b], stream'[b] = stream[b], sent'[b] = sent[b],
             client'[b] = client[b] \/ client'[b] = "closed"
      PROVE  fine(b)'
  <2> HIDE DEF shut
  <2> QED
    BY <1>a, <1>b, <1>c
<1>d. SUFFICES ASSUME NEW b \in Adders PROVE fine(b)'
  BY DEF ReadInv
<1> USE DEF poolVars, connVars, taskVars, workVars
<1>1. CASE UNCHANGED <<client, link, stream, sent>>
  BY <1>c, <1>1
<1>2. ASSUME NEW a \in Adders, Connect(a) PROVE fine(b)'
  <2>1. UNCHANGED <<stream, sent>> /\ link[a] = "none"
    BY <1>2, <1>a DEF Connect, ConnInv
  <2>2. /\ link' = link \/ link' = [link EXCEPT ![a] = "queued"]
        /\ client' = [client EXCEPT ![a] = client'[a]]
    BY <1>2, <1>a DEF Connect, TypeOK
  <2>3. CASE b = a
    <3>1. link'[b] \in {"none", "queued"}
      BY <2>1, <2>2, <2>3, <1>a DEF TypeOK
    <3> QED
      BY <1>a, <2>1, <2>3, <3>1
  <2>4. CASE b # a
    <3>1. link'[b] = link[b] /\ client'[b] = client[b]
      BY <2>2, <2>4, <1>a DEF TypeOK
    <3> QED
      BY <1>c, <2>1, <3>1
  <2> QED
    BY <2>3, <2>4
<1>3. ASSUME NEW a \in Adders, Exit(a) PROVE fine(b)'
  <2>1. UNCHANGED <<link, stream, sent>> /\ client' = [client EXCEPT ![a] = "closed"]
    BY <1>3 DEF Exit
  <2>2. client'[b] = client[b] \/ client'[b] = "closed"
    BY <2>1, <1>a DEF TypeOK
  <2> QED
    BY <1>c, <2>1, <2>2
<1>4. ASSUME NEW a \in Adders, NEW t \in Tasks, Send(a, t) PROVE fine(b)'
  <2>1. UNCHANGED <<client, link>>
    BY <1>4 DEF Send
  <2>2. CASE ~PeerOpen(a)
    BY <1>4, <1>c, <2>1, <2>2 DEF Send
  <2>3. CASE PeerOpen(a)
    <3>1. /\ stream' = [stream EXCEPT ![a] = Append(@, t)]
          /\ sent' = [sent EXCEPT ![a] = Append(@, t)]
      BY <1>4, <2>3 DEF Send
    <3>2. CASE b # a
      <4>1. stream'[b] = stream[b] /\ sent'[b] = sent[b]
        BY <3>1, <3>2, <1>a DEF TypeOK
      <4> QED
        BY <1>c, <2>1, <4>1
    <3>3. CASE b = a
      <4>1. stream'[b] = Append(stream[b], t) /\ sent'[b] = Append(sent[b], t)
        BY <3>1, <3>3, <1>a DEF TypeOK
      <4>2. link[b] # "freed"
        BY <2>3, <3>3 DEF PeerOpen
      <4>3. stream[b] = sent[b] => stream'[b] = sent'[b]
        BY <4>1
      <4>4. link'[b] = link[b]
        BY <2>1
      <4> QED
        BY <1>a, <4>2, <4>3, <4>4
    <3> QED
      BY <3>2, <3>3
  <2> QED
    BY <2>2, <2>3
<1>5. ASSUME NEW w \in Workers, Recv(w) PROVE fine(b)'
  <2>1. /\ UNCHANGED <<client, link, sent>> /\ link[at[w]] = "watched"
        /\ stream' = [stream EXCEPT ![at[w]] = Tail(@)]
    BY <1>5 DEF Recv
  <2>2. CASE b = at[w]
    BY <2>1, <2>2
  <2>3. CASE b # at[w]
    <3>1. stream'[b] = stream[b]
      BY <2>1, <2>3, <1>a DEF TypeOK
    <3> QED
      BY <1>c, <2>1, <3>1
  <2> QED
    BY <2>2, <2>3
<1>6. ASSUME NEW w \in Workers, Add(w), at[w] \in Adders, link[at[w]] = "accepted" PROVE fine(b)'
  <2>1. /\ UNCHANGED <<client, stream, sent, epoll>>
        /\ \E s \in {"watched", "freed"} :
             link' = [link EXCEPT ![at[w]] = s] /\ (s = "freed" => shut)
    BY <1>6 DEF Add
  <2>2. CASE b = at[w]
    <3>1. link'[b] \in {"watched", "freed"} /\ (link'[b] = "freed" => shut)
      BY <2>1, <2>2, <1>a DEF TypeOK
    <3>2. stream[b] = sent[b]
      BY <1>a, <1>6, <2>2
    <3> QED
      BY <2>1, <3>1, <3>2
  <2>3. CASE b # at[w]
    <3>1. link'[b] = link[b]
      BY <2>1, <2>3, <1>a DEF TypeOK
    <3> QED
      BY <1>c, <2>1, <3>1
  <2> QED
    BY <2>2, <2>3
<1>7. ASSUME NEW w \in Workers, RecvEnd(w), at[w] \in Adders PROVE fine(b)'
  <2>1. /\ UNCHANGED <<client, stream, sent>> /\ link' = [link EXCEPT ![at[w]] = "freed"]
        /\ stream[at[w]] = <<>> /\ client[at[w]] = "closed"
    BY <1>7 DEF RecvEnd
  <2>2. CASE b = at[w]
    <3>1. link'[b] = "freed"
      BY <2>1, <2>2, <1>a DEF TypeOK
    <3> QED
      BY <2>1, <2>2, <3>1
  <2>3. CASE b # at[w]
    <3>1. link'[b] = link[b]
      BY <2>1, <2>3, <1>a DEF TypeOK
    <3> QED
      BY <1>c, <2>1, <3>1
  <2> QED
    BY <2>2, <2>3
<1>8. ASSUME NEW w \in Workers, NEW a \in Adders, Accept(w, a) PROVE fine(b)'
  <2>1. /\ UNCHANGED <<client, stream, sent>> /\ link[a] = "queued"
        /\ link' = [link EXCEPT ![a] = "accepted"]
    BY <1>8 DEF Accept
  <2>2. CASE b = a
    <3>1. link'[b] = "accepted"
      BY <2>1, <2>2, <1>a DEF TypeOK
    <3> QED
      BY <1>a, <2>1, <2>2, <3>1
  <2>3. CASE b # a
    <3>1. link'[b] = link[b]
      BY <2>1, <2>3, <1>a DEF TypeOK
    <3> QED
      BY <1>c, <2>1, <3>1
  <2> QED
    BY <2>2, <2>3
<1> QED
  BY <1>a, <1>1, <1>2, <1>3, <1>4, <1>5, <1>6, <1>7, <1>8, LinkCases

LEMMA InOrderHolds == TypeOK /\ Delivered /\ ReadInv => InOrder
<1> SUFFICES ASSUME TypeOK, Delivered, ReadInv, NEW a \in Adders, link[a] = "freed"
             PROVE  stream[a] = <<>> \/ Len(sent[a]) - Len(stream[a]) = 0
  BY DEF Delivered, InOrder
<1>1. sent[a] \in Seq(Tasks) /\ Len(sent[a]) \in Nat
  BY DEF TypeOK
<1> QED
  BY <1>1 DEF ReadInv

(***************************************************************************)
(* Tasks of one adder are read in the order in which it added them, and    *)
(* none is lost with a connection of which one has been read.              *)
(***************************************************************************)
THEOREM OrderTheorem == Spec => []InOrder
<1>1. Init => Delivered /\ ReadInv
  BY DEF Init, Delivered, ReadInv
<1>2. OwnerInv => TypeOK
  BY DEF OwnerInv
<1> QED
  BY <1>1, <1>2, OrderStep, TaskInitInv, TaskStepInv, OwnerInitInv, OwnerStepInv, ReadStep,
     InOrderHolds, PTL DEF Spec

-----------------------------------------------------------------------------
(* Faults.                                                                 *)

\* A connection that worker w has among its events or in its hands.
Holds(w, a) == a \in batch[w] \/ (pc[w] = "recv" /\ at[w] = a)

\* The connection has been read to the adder's end, and deleted.
ReadOut(a) == link[a] = "freed" /\ client[a] = "closed" /\ stream[a] = <<>>

Alone(w) == \A v \in Workers : v = w

\* Such a connection is watched, unless another worker has read it out.
FreshInv ==
  \A w \in Workers :
    /\ \A a \in Adders : Holds(w, a) => link[a] = "watched" \/ (ReadOut(a) /\ ~Alone(w))
    /\ pc[w] = "recv" => at[w] \notin batch[w]

LEMMA ReadOutStays ==
  ASSUME TypeOK, SingleOwner, [Next]_vars, NEW b \in Adders, ReadOut(b)
  PROVE  ReadOut(b)'
<1> USE DEF poolVars, connVars, taskVars, workVars, ReadOut
<1>1. CASE UNCHANGED <<client, link, stream, sent>>
  BY <1>1
<1>2. ASSUME NEW a \in Adders, Connect(a) PROVE ReadOut(b)'
  <2>1. client[a] = "none" /\ stream' = stream /\ (link' = link \/ link' = [link EXCEPT ![a] = "queued"])
        /\ client' = [client EXCEPT ![a] = client'[a]]
    BY <1>2 DEF Connect, TypeOK
  <2>2. b # a
    BY <2>1
  <2> QED
    BY <2>1, <2>2 DEF TypeOK
<1>3. ASSUME NEW a \in Adders, Exit(a) PROVE ReadOut(b)'
  BY <1>3 DEF Exit, TypeOK
<1>4. ASSUME NEW a \in Adders, NEW t \in Tasks, Send(a, t) PROVE ReadOut(b)'
  <2>1. client[a] = "linked" /\ UNCHANGED <<client, link>>
        /\ (stream' = stream \/ stream' = [stream EXCEPT ![a] = Append(@, t)])
    BY <1>4 DEF Send
  <2>2. b # a
    BY <2>1
  <2> QED
    BY <2>1, <2>2 DEF TypeOK
<1>5. ASSUME NEW w \in Workers, Recv(w) PROVE ReadOut(b)'
  <2>1. /\ UNCHANGED <<client, link>> /\ link[at[w]] = "watched"
        /\ stream' = [stream EXCEPT ![at[w]] = Tail(@)]
    BY <1>5 DEF Recv
  <2>2. b # at[w]
    BY <2>1
  <2> QED
    BY <2>1, <2>2 DEF TypeOK
<1>6. ASSUME NEW w \in Workers, Add(w) \/ RecvEnd(w), at[w] \in Adders,
             link[at[w]] \in {"accepted", "watched"}
      PROVE  ReadOut(b)'
  <2>1. UNCHANGED <<client, stream>> /\ link' = [link EXCEPT ![at[w]] = link'[at[w]]]
    BY <1>6 DEF Add, RecvEnd, TypeOK
  <2>2. b # at[w]
    BY <1>6
  <2> QED
    BY <2>1, <2>2 DEF TypeOK
<1>7. ASSUME NEW w \in Workers, NEW a \in Adders, Accept(w, a) PROVE ReadOut(b)'
  <2>1. /\ UNCHANGED <<client, stream>> /\ link[a] = "queued"
        /\ link' = [link EXCEPT ![a] = "accepted"]
    BY <1>7 DEF Accept
  <2>2. b # a
    BY <2>1
  <2> QED
    BY <2>1, <2>2 DEF TypeOK
<1>8. \A w \in Workers : RecvEnd(w) => link[at[w]] = "watched"
  BY DEF RecvEnd
<1> QED
  BY <1>1, <1>2, <1>3, <1>4, <1>5, <1>6, <1>7, <1>8, LinkCases

LEMMA FreshStep == OwnerInv /\ FreshInv /\ [Next]_vars => FreshInv'
<1> SUFFICES ASSUME OwnerInv, FreshInv, [Next]_vars PROVE FreshInv'
  OBVIOUS
<1> DEFINE good(w, a) == link[a] = "watched" \/ (ReadOut(a) /\ ~Alone(w))
           fresh(w) == /\ \A a \in Adders : Holds(w, a) => good(w, a)
                       /\ pc[w] = "recv" => at[w] \notin batch[w]
<1>a. TypeOK /\ SingleOwner /\ ConnInv /\ \A w \in Workers : fresh(w)
  BY DEF OwnerInv, FreshInv
<1>b. \A w \in Workers : pc[w] = "recv" => at[w] \in Adders
  BY <1>a, PoolAssumption DEF TypeOK
<1>c. \A a \in Adders : ReadOut(a) => ReadOut(a)'
  BY <1>a, ReadOutStays
<1>d. SUFFICES \A w \in Workers : fresh(w)'
  BY DEF FreshInv, Alone
<1> USE DEF poolVars, connVars, taskVars, workVars
<1>1. ASSUME \A a \in Adders : link[a] = "watched" => link'[a] = "watched",
             NEW w \in Workers,
             \A a \in Adders : Holds(w, a)' => Holds(w, a) \/ link[a] = "watched",
             pc'[w] = "recv" => at'[w] \notin batch'[w]
      PROVE  fresh(w)'
  <2>1. ASSUME NEW a \in Adders, good(w, a) PROVE good(w, a)'
    BY <1>1, <1>c, <2>1 DEF Alone
  <2>2. ASSUME NEW a \in Adders, Holds(w, a)' PROVE good(w, a)
    BY <1>1, <1>a, <2>2
  <2> QED
    BY <1>1, <2>1, <2>2
<1>2. ASSUME \A a \in Adders : link[a] = "watched" => link'[a] = "watched",
             NEW v \in Workers, batch' = batch,
             \A w \in Workers : w # v => pc'[w] = pc[w] /\ at'[w] = at[w],
             pc'[v] # "recv" \/ (pc'[v] = pc[v] /\ at'[v] = at[v])
      PROVE  \A w \in Workers : fresh(w)'
  <2> SUFFICES ASSUME NEW w \in Workers PROVE fresh(w)'
    OBVIOUS
  <2>1. \A a \in Adders : Holds(w, a)' => Holds(w, a)
    BY <1>2 DEF Holds
  <2>2. pc'[w] = "recv" => at'[w] \notin batch'[w]
    BY <1>2, <1>a
  <2> QED
    BY <1>1, <1>2, <2>1, <2>2
<1>3. ASSUME \A a \in Adders : link[a] = "watched" => link'[a] = "watched",
             UNCHANGED <<batch, at, pc>>
      PROVE  \A w \in Workers : fresh(w)'
  <2> SUFFICES ASSUME NEW w \in Workers PROVE fresh(w)'
    OBVIOUS
  <2> QED
    BY <1>2, <1>3
<1>4. CASE UNCHANGED vars
  BY <1>3, <1>4 DEF vars
<1>5. CASE OwnerStep
  <2>1. CASE StartListen \/ StartWatch \/ StartFail \/ CloseEpoll \/ CloseServer \/ CloseThreads
    BY <1>3, <2>1 DEF StartListen, StartWatch, StartFail, CloseEpoll, CloseServer, CloseThreads
  <2>2. ASSUME NEW v \in Workers, StartThread(v) PROVE \A w \in Workers : fresh(w)'
    <3>1. pc' = [pc EXCEPT ![v] = "wait"] /\ UNCHANGED <<batch, at, link>>
      BY <2>2 DEF StartThread
    <3>2. pc'[v] = "wait" /\ \A w \in Workers : w # v => pc'[w] = pc[w]
      BY <3>1, <1>a DEF TypeOK
    <3> QED
      BY <1>2, <3>1, <3>2
  <2> QED
    BY <1>5, <2>1, <2>2 DEF OwnerStep
<1>6. ASSUME NEW a \in Adders, Connect(a) \/ Exit(a) PROVE \A w \in Workers : fresh(w)'
  <2>1. link[a] = "none" \/ link' = link
    BY <1>6, <1>a DEF Connect, Exit, ConnInv
  <2>2. link' = [link EXCEPT ![a] = "queued"] \/ link' = link
    BY <1>6 DEF Connect, Exit
  <2>3. \A b \in Adders : link[b] = "watched" => link'[b] = "watched"
    BY <2>1, <2>2, <1>a DEF TypeOK
  <2> QED
    BY <1>6, <1>3, <2>3 DEF Connect, Exit
<1>7. ASSUME NEW a \in Adders, NEW t \in Tasks, Send(a, t) PROVE \A w \in Workers : fresh(w)'
  <2>1. UNCHANGED <<link, batch, at, pc>>
    BY <1>7 DEF Send
  <2> QED
    BY <1>3, <2>1
<1>8. ASSUME NEW v \in Workers, WaitStep(v) PROVE \A w \in Workers : fresh(w)'
  <2>1. link' = link
    BY <1>8 DEF WaitStep, WaitEvents, Leave, End, PickListener, EndBatch, AcceptFail, PickClient
  <2>2. ASSUME \A w \in Workers : w # v => batch'[w] = batch[w] /\ at'[w] = at[w] /\ pc'[w] = pc[w],
               \A a \in Adders : Holds(v, a)' => Holds(v, a) \/ link[a] = "watched",
               pc'[v] = "recv" => at'[v] \notin batch'[v]
        PROVE  \A w \in Workers : fresh(w)'
    <3> SUFFICES ASSUME NEW w \in Workers PROVE fresh(w)'
      OBVIOUS
    <3>1. CASE w = v
      BY <1>1, <2>1, <2>2, <3>1
    <3>2. CASE w # v
      <4>1. batch'[w] = batch[w] /\ at'[w] = at[w] /\ pc'[w] = pc[w]
        BY <2>2, <3>2
      <4>2. \A a \in Adders : Holds(w, a)' => Holds(w, a)
        BY <4>1 DEF Holds
      <4> QED
        BY <1>1, <1>a, <2>1, <4>1, <4>2
    <3> QED
      BY <3>1, <3>2
  <2>3. CASE WaitEvents(v)
    <3>1. /\ pc' = [pc EXCEPT ![v] = "batch"] /\ batch' = [batch EXCEPT ![v] = Ready] /\ at' = at
      BY <2>3 DEF WaitEvents
    <3>2. pc'[v] = "batch" /\ batch'[v] = Ready
      BY <3>1, <1>a DEF TypeOK
    <3>3. \A w \in Workers : w # v => batch'[w] = batch[w] /\ at'[w] = at[w] /\ pc'[w] = pc[w]
      BY <3>1, <1>a DEF TypeOK
    <3>4. \A a \in Adders : a \in Ready => link[a] = "watched"
      BY PoolAssumption DEF Ready
    <3> QED
      BY <2>2, <3>2, <3>3, <3>4 DEF Holds
  <2>4. CASE Leave(v) \/ End(v) \/ PickListener(v) \/ EndBatch(v) \/ AcceptFail(v)
    <3>1. /\ pc' = [pc EXCEPT ![v] = pc'[v]] /\ pc'[v] # "recv" /\ at' = at
          /\ batch' = [batch EXCEPT ![v] = batch'[v]]
          /\ \A a \in Adders : a \in batch'[v] => a \in batch[v]
      BY <2>4, <1>a DEF TypeOK, Leave, End, PickListener, EndBatch, AcceptFail
    <3>2. \A w \in Workers : w # v => batch'[w] = batch[w] /\ at'[w] = at[w] /\ pc'[w] = pc[w]
      BY <3>1, <1>a DEF TypeOK
    <3> QED
      BY <2>2, <3>1, <3>2 DEF Holds
  <2>5. ASSUME NEW a \in Adders, PickClient(v, a) PROVE \A w \in Workers : fresh(w)'
    <3>1. /\ a \in batch[v] /\ batch' = [batch EXCEPT ![v] = @ \ {a}]
          /\ at' = [at EXCEPT ![v] = a] /\ pc' = [pc EXCEPT ![v] = "recv"]
      BY <2>5 DEF PickClient
    <3>2. batch'[v] = batch[v] \ {a} /\ at'[v] = a
      BY <3>1, <1>a DEF TypeOK
    <3>3. \A w \in Workers : w # v => batch'[w] = batch[w] /\ at'[w] = at[w] /\ pc'[w] = pc[w]
      BY <3>1, <1>a DEF TypeOK
    <3> QED
      BY <2>2, <3>1, <3>2, <3>3 DEF Holds
  <2> QED
    BY <1>8, <2>3, <2>4, <2>5 DEF WaitStep
<1>9. ASSUME NEW v \in Workers, Recv(v) \/ Finish(v) \/ Crash(v) PROVE \A w \in Workers : fresh(w)'
  <2>1. /\ UNCHANGED <<link, batch>>
        /\ pc' = [pc EXCEPT ![v] = pc'[v]] /\ at' = [at EXCEPT ![v] = at'[v]]
        /\ pc'[v] # "recv" \/ (pc'[v] = pc[v] /\ at'[v] = at[v])
    BY <1>9, <1>a DEF Recv, Finish, Crash, TypeOK
  <2>2. \A w \in Workers : w # v => pc'[w] = pc[w] /\ at'[w] = at[w]
    BY <2>1, <1>a DEF TypeOK
  <2> QED
    BY <1>2, <2>1, <2>2
<1>10. ASSUME NEW v \in Workers, NEW a \in Adders, Accept(v, a) PROVE \A w \in Workers : fresh(w)'
  <2>1. /\ link[a] = "queued" /\ link' = [link EXCEPT ![a] = "accepted"] /\ batch' = batch
        /\ at' = [at EXCEPT ![v] = a] /\ pc' = [pc EXCEPT ![v] = "add"]
    BY <1>10 DEF Accept
  <2>2. \A b \in Adders : link[b] = "watched" => link'[b] = "watched"
    BY <2>1, <1>a DEF TypeOK
  <2>3. pc'[v] = "add" /\ \A w \in Workers : w # v => pc'[w] = pc[w] /\ at'[w] = at[w]
    BY <2>1, <1>a DEF TypeOK
  <2> QED
    BY <1>2, <2>1, <2>2, <2>3
<1>11. ASSUME NEW v \in Workers, Add(v) PROVE \A w \in Workers : fresh(w)'
  <2>1. link[at[v]] = "accepted" /\ at[v] \in Adders /\ pc[v] = "add"
    BY <1>11, <1>a, PoolAssumption DEF Add, SingleOwner, TypeOK
  <2>2. PICK s \in {"watched", "freed"} : link' = [link EXCEPT ![at[v]] = s]
    BY <1>11 DEF Add
  <2>3. \A b \in Adders : link[b] = "watched" => link'[b] = "watched"
    BY <2>1, <2>2, <1>a DEF TypeOK
  <2>4. pc' = [pc EXCEPT ![v] = "batch"] /\ at' = [at EXCEPT ![v] = None] /\ batch' = batch
    BY <1>11 DEF Add
  <2>5. pc'[v] = "batch" /\ \A w \in Workers : w # v => pc'[w] = pc[w] /\ at'[w] = at[w]
    BY <2>4, <1>a DEF TypeOK
  <2> QED
    BY <1>2, <2>3, <2>4, <2>5
<1>12. ASSUME NEW v \in Workers, RecvEnd(v) PROVE \A w \in Workers : fresh(w)'
  <2>1. PICK b \in Adders : at[v] = b
    BY <1>12, <1>b DEF RecvEnd
  <2>2. /\ pc[v] = "recv" /\ client[b] = "closed" /\ stream[b] = <<>>
        /\ link' = [link EXCEPT ![b] = "freed"] /\ UNCHANGED <<batch, client, stream>>
        /\ pc' = [pc EXCEPT ![v] = "batch"] /\ at' = [at EXCEPT ![v] = None]
    BY <1>12, <2>1 DEF RecvEnd
  <2>3. link'[b] = "freed" /\ \A a \in Adders : a # b => link'[a] = link[a]
    BY <2>2, <1>a DEF TypeOK
  <2>4. pc'[v] = "batch" /\ \A w \in Workers : w # v => pc'[w] = pc[w] /\ at'[w] = at[w]
    BY <2>2, <1>a DEF TypeOK
  <2>5. ReadOut(b)'
    BY <2>2, <2>3 DEF ReadOut
  <2> SUFFICES ASSUME NEW w \in Workers PROVE fresh(w)'
    OBVIOUS
  <2>6. \A a \in Adders : Holds(w, a)' => Holds(w, a)
    BY <2>2, <2>4 DEF Holds
  <2>7. pc'[w] = "recv" => at'[w] \notin batch'[w]
    BY <1>a, <2>2, <2>4
  <2>8. ASSUME NEW a \in Adders, a # b, good(w, a) PROVE good(w, a)'
    BY <1>c, <2>3, <2>8 DEF Alone
  <2>9. Holds(w, b)' => w # v
    BY <1>a, <2>1, <2>2, <2>4 DEF Holds
  <2>10. w # v => good(w, b)'
    BY <2>5 DEF Alone
  <2>11. \A a \in Adders : Holds(w, a)' => good(w, a)'
    BY <1>a, <2>6, <2>8, <2>9, <2>10
  <2> QED
    BY <2>7, <2>11
<1> QED
  BY <1>4, <1>5, <1>6, <1>7, <1>8, <1>9, <1>10, <1>11, <1>12, StepCases

FaultInv == OwnerInv /\ ReadInv /\ FreshInv

\* A fault ends the process: the state that it leaves is the last one.
LEMMA FaultCases ==
  ASSUME [Next]_vars
  PROVE  \/ UNCHANGED vars
         \/ fault' = "none"
         \/ \E a \in Adders, t \in Tasks : Send(a, t) /\ ~PeerOpen(a)
         \/ \E w \in Workers : Crash(w)
<1> USE DEF poolVars, connVars, taskVars, workVars
<1>1. SUFFICES ASSUME Next, fault = "none",
                      ~\E a \in Adders, t \in Tasks : Send(a, t) /\ ~PeerOpen(a),
                      ~\E w \in Workers : Crash(w)
               PROVE  fault' = fault
  BY DEF Next
<1>2. CASE OwnerStep
  BY <1>2 DEF OwnerStep, StartListen, StartWatch, StartFail, CloseEpoll, CloseServer, CloseThreads, StartThread
<1>3. ASSUME NEW a \in Adders, Connect(a) \/ Exit(a) PROVE fault' = fault
  BY <1>3 DEF Connect, Exit
<1>4. ASSUME NEW a \in Adders, NEW t \in Tasks, Send(a, t) PROVE fault' = fault
  BY <1>1, <1>4 DEF Send
<1>5. ASSUME NEW w \in Workers, WaitStep(w) PROVE fault' = fault
  BY <1>5 DEF WaitStep, WaitEvents, Leave, End, PickListener, EndBatch, AcceptFail, PickClient
<1>6. ASSUME NEW w \in Workers, Add(w) \/ Recv(w) \/ RecvEnd(w) \/ Finish(w) PROVE fault' = fault
  BY <1>6 DEF Add, Recv, RecvEnd, Finish
<1>7. ASSUME NEW w \in Workers, NEW a \in Adders, Accept(w, a) PROVE fault' = fault
  BY <1>7 DEF Accept
<1> QED
  BY <1>1, <1>2, <1>3, <1>4, <1>5, <1>6, <1>7, StepCases

LEMMA BlameStep == FaultInv /\ Blame /\ [Next]_vars => Blame'
<1> SUFFICES ASSUME FaultInv, Blame, [Next]_vars PROVE Blame'
  OBVIOUS
<1>t. TypeOK /\ ConnInv
  BY DEF FaultInv, OwnerInv
<1> USE DEF poolVars, connVars, taskVars, workVars
<1>1. CASE UNCHANGED vars
  BY <1>1 DEF vars, Blame
<1>2. CASE fault' = "none"
  BY <1>2 DEF Blame
<1>3. ASSUME NEW a \in Adders, NEW t \in Tasks, Send(a, t), ~PeerOpen(a) PROVE Blame'
  <2>1. /\ fault' = "sigpipe" /\ client[a] = "linked"
        /\ UNCHANGED <<client, link, stream, sent, epoll, server>>
    BY <1>3 DEF Send
  <2>2. link[a] = "freed" \/ (link[a] = "queued" /\ server = "deleted")
    BY <1>3, <1>t, <2>1 DEF PeerOpen, ConnInv, TypeOK
  <2>3. stream[a] = sent[a] /\ (link[a] = "freed" => epoll = "closed" \/ "refuse" \in Hazards)
    BY <2>1, <2>2 DEF FaultInv, ReadInv
  <2> QED
    BY <2>1, <2>2, <2>3 DEF Blame
<1>4. ASSUME NEW w \in Workers, Crash(w) PROVE Blame'
  <2>1. fault' = "dead_object" /\ UNCHANGED <<server, threads, client, link, stream, pc, at>>
    BY <1>4 DEF Crash
  <2>2. CASE server = "deleted" \/ threads = "deleted"
    BY <2>1, <2>2 DEF Blame
  <2>3. CASE pc[w] = "recv" /\ link[at[w]] = "freed"
    <3>1. at[w] \in Adders
      BY <1>t, <2>3, PoolAssumption DEF TypeOK
    <3>2. ReadOut(at[w]) /\ ~Alone(w)
      BY <2>3, <3>1 DEF FaultInv, FreshInv, Holds
    <3>3. PICK v \in Workers : v # w
      BY <3>2 DEF Alone
    <3> QED
      BY <2>1, <2>3, <3>1, <3>2, <3>3 DEF Blame, ReadOut
  <2> QED
    BY <1>4, <2>2, <2>3 DEF Crash, TouchesDead
<1> QED
  BY <1>1, <1>2, <1>3, <1>4, FaultCases

(***************************************************************************)
(* No AddTask meets SIGPIPE on a connection of which a task was read, and  *)
(* until Close no worker touches a dead object but a connection another    *)
(* one has read out and deleted.                                           *)
(***************************************************************************)
THEOREM BlameTheorem == Spec => []Blame
<1>1. Init => ReadInv /\ FreshInv /\ Blame
  BY DEF Init, ReadInv, FreshInv, Holds, Blame
<1>2. FaultInv /\ [Next]_vars => FaultInv'
  BY OwnerStepInv, ReadStep, FreshStep DEF FaultInv
<1>3. Init => FaultInv
  BY <1>1, OwnerInitInv DEF FaultInv
<1> QED
  BY <1>1, <1>2, <1>3, BlameStep, PTL DEF Spec

-----------------------------------------------------------------------------
(* No worker is kept from the pointers of a single adder by the others.    *)

\* What the place of a worker says about the pool.
PlaceInv ==
  /\ epoll = "unset" => \A w \in Workers : pc[w] = "unborn"
  /\ epoll = "open" => server = "listening" /\ \A w \in Workers : pc[w] \notin {"gone", "ended"}
  /\ start \in {"new", "listening"} => epoll = "unset"
  /\ start = "spawning" => epoll = "open"
  /\ start = "done" => Workers # {} /\ \A w \in Workers : pc[w] # "unborn"
  /\ \A w \in Workers : pc[w] = "accept" => Listener \notin batch[w]

LEMMA PlaceStep == TypeOK /\ PlaceInv /\ [Next]_vars => PlaceInv'
<1> SUFFICES ASSUME TypeOK, PlaceInv, [Next]_vars PROVE PlaceInv'
  OBVIOUS
<1> USE DEF TypeOK, poolVars, connVars, taskVars, workVars
<1>1. CASE UNCHANGED vars
  BY <1>1 DEF vars, PlaceInv
<1>2. CASE OwnerStep
  <2>1. CASE StartListen \/ StartWatch \/ StartFail
    BY <2>1 DEF StartListen, StartWatch, StartFail, PlaceInv
  <2>2. ASSUME NEW w \in Workers, StartThread(w) PROVE PlaceInv'
    <3>1. /\ start = "spawning" /\ epoll = "open" /\ UNCHANGED <<epoll, server, batch>>
          /\ start' \in {"spawning", "done"}
          /\ start' = "done" => \A v \in Workers \ {w} : pc[v] # "unborn"
          /\ pc' = [pc EXCEPT ![w] = "wait"]
      BY <2>2 DEF StartThread, PlaceInv
    <3>2. pc'[w] = "wait" /\ \A v \in Workers \ {w} : pc'[v] = pc[v]
      BY <3>1
    <3> HIDE DEF TypeOK
    <3> QED
      BY <3>1, <3>2 DEF PlaceInv
  <2>3. CASE CloseEpoll \/ CloseServer \/ CloseThreads
    BY <2>3 DEF CloseEpoll, CloseServer, CloseThreads, PlaceInv
  <2> QED
    BY <1>2, <2>1, <2>2, <2>3 DEF OwnerStep
<1>3. ASSUME UNCHANGED poolVars, NEW w \in Workers,
             \A v \in Workers \ {w} : pc'[v] = pc[v] /\ batch'[v] = batch[v],
             pc[w] # "unborn", pc'[w] # "unborn",
             pc'[w] \in {"gone", "ended"} => pc[w] \in {"gone", "ended"} \/ epoll # "open",
             pc'[w] = "accept" => Listener \notin batch'[w]
      PROVE  PlaceInv'
  <2> HIDE DEF TypeOK
  <2> QED
    BY <1>3 DEF PlaceInv
<1>4. ASSUME NEW a \in Adders, Connect(a) \/ Exit(a) PROVE PlaceInv'
  BY <1>4 DEF Connect, Exit, PlaceInv
<1>5. ASSUME NEW a \in Adders, NEW t \in Tasks, Send(a, t) PROVE PlaceInv'
  BY <1>5 DEF Send, PlaceInv
<1>6. ASSUME NEW w \in Workers, WaitStep(w) PROVE PlaceInv'
  <2>1. CASE WaitEvents(w)
    BY <2>1, <1>3 DEF WaitEvents
  <2>2. CASE Leave(w) \/ End(w)
    BY <2>2, <1>3 DEF Leave, End
  <2>3. CASE PickListener(w)
    BY <2>3, <1>3 DEF PickListener
  <2>4. CASE EndBatch(w) \/ AcceptFail(w)
    BY <2>4, <1>3 DEF EndBatch, AcceptFail
  <2>5. ASSUME NEW a \in Adders, PickClient(w, a) PROVE PlaceInv'
    BY <2>5, <1>3 DEF PickClient
  <2> QED
    BY <1>6, <2>1, <2>2, <2>3, <2>4, <2>5 DEF WaitStep
<1>7. ASSUME NEW w \in Workers, Add(w) \/ Recv(w) \/ RecvEnd(w) \/ Finish(w) PROVE PlaceInv'
  <2>1. /\ UNCHANGED poolVars /\ batch' = batch
        /\ pc[w] \in {"add", "recv", "run"}
        /\ pc' = [pc EXCEPT ![w] = "batch"] \/ pc' = [pc EXCEPT ![w] = "run"]
    BY <1>7 DEF Add, Recv, RecvEnd, Finish
  <2>2. \A v \in Workers \ {w} : pc'[v] = pc[v] /\ batch'[v] = batch[v]
    BY <2>1
  <2>3. pc'[w] \in {"batch", "run"}
    BY <2>1
  <2> QED
    BY <2>1, <2>2, <2>3, <1>3
<1>8. ASSUME NEW w \in Workers, NEW a \in Adders, Accept(w, a) PROVE PlaceInv'
  BY <1>8, <1>3 DEF Accept
<1>9. ASSUME NEW w \in Workers, Crash(w) PROVE PlaceInv'
  BY <1>9 DEF Crash, PlaceInv
<1> QED
  BY <1>1, <1>2, <1>4, <1>5, <1>6, <1>7, <1>8, <1>9, StepCases

\* Once the only connection has been accepted, the worker that accepted it
\* does not come back to accept.
Free(w) == pc[w] \notin {"unborn", "accept"} /\ Listener \notin batch[w]

FreeInv ==
  (\A a, b \in Adders : a = b) =>
    \A a \in Adders : link[a] \notin {"none", "queued"} => \E w \in Workers : Free(w)

LEMMA FreeStep == OwnerInv /\ PlaceInv /\ FreeInv /\ [Next]_vars => FreeInv'
<1> SUFFICES ASSUME OwnerInv, PlaceInv, FreeInv, [Next]_vars,
                    \A a, b \in Adders : a = b,
                    NEW a \in Adders, link'[a] \notin {"none", "queued"}
             PROVE  \E w \in Workers : Free(w)'
  BY DEF FreeInv
<1>t. TypeOK
  BY DEF OwnerInv
<1> USE DEF TypeOK, poolVars, connVars, taskVars, workVars
<1>1. ASSUME NEW w \in Workers, Accept(w, a) PROVE Free(w)'
  BY <1>1, <1>t DEF Accept, PlaceInv, Free
<1>2. ASSUME ~\E w \in Workers : Accept(w, a)
      PROVE  link[a] \notin {"none", "queued"}
  <2>1. CASE UNCHANGED vars \/ OwnerStep
    BY <2>1 DEF vars, OwnerStep, StartListen, StartWatch, StartFail, CloseEpoll, CloseServer,
       CloseThreads, StartThread
  <2>2. ASSUME NEW b \in Adders, Connect(b) \/ Exit(b) PROVE link[a] \notin {"none", "queued"}
    <3>1. link' = link \/ link' = [link EXCEPT ![b] = "queued"]
      BY <2>2 DEF Connect, Exit
    <3> QED
      BY <3>1, <1>t
  <2>3. ASSUME NEW b \in Adders, NEW t \in Tasks, Send(b, t) PROVE link' = link
    BY <2>3 DEF Send
  <2>4. ASSUME NEW w \in Workers, WaitStep(w) \/ Recv(w) \/ Finish(w) \/ Crash(w)
        PROVE  link' = link
    BY <2>4 DEF WaitStep, WaitEvents, Leave, End, PickListener, EndBatch, AcceptFail, PickClient,
       Recv, Finish, Crash
  <2>5. ASSUME NEW w \in Workers, Add(w) \/ RecvEnd(w) PROVE link[a] \in {"accepted", "watched"}
    <3>1. at[w] \in Adders
      BY <2>5, <1>t, PoolAssumption DEF Add, RecvEnd
    <3>2. at[w] = a
      BY <3>1
    <3>3. CASE Add(w)
      <4>1. pc[w] = "add"
        BY <3>3 DEF Add
      <4> QED
        BY <3>1, <3>2, <4>1 DEF OwnerInv, SingleOwner
    <3>4. CASE RecvEnd(w)
      BY <3>2, <3>4 DEF RecvEnd
    <3> QED
      BY <2>5, <3>3, <3>4
  <2>6. ASSUME NEW w \in Workers, NEW b \in Adders, Accept(w, b) PROVE FALSE
    BY <1>2, <2>6
  <2> QED
    BY <2>1, <2>2, <2>3, <2>4, <2>5, <2>6, StepCases
<1>3. ASSUME NEW w \in Workers, Free(w), link[a] \notin {"none", "queued"} PROVE Free(w)'
  <2>1. Listener \notin Ready
    <3>1. \A b \in Adders : link[b] # "queued"
      BY <1>3
    <3> QED
      BY <3>1, PoolAssumption DEF Ready
  <2>2. CASE UNCHANGED vars
    BY <1>3, <2>2 DEF vars, Free
  <2>3. CASE OwnerStep
    <3>1. ASSUME NEW v \in Workers, StartThread(v) PROVE Free(w)'
      BY <1>3, <1>t, <3>1 DEF StartThread, Free
    <3> QED
      BY <1>3, <2>3, <3>1 DEF OwnerStep, StartListen, StartWatch, StartFail, CloseEpoll,
         CloseServer, CloseThreads, Free
  <2>4. ASSUME NEW b \in Adders, Connect(b) \/ Exit(b) \/ \E t \in Tasks : Send(b, t)
        PROVE  Free(w)'
    BY <1>3, <2>4 DEF Connect, Exit, Send, Free
  <2>5. ASSUME NEW v \in Workers, WaitStep(v) PROVE Free(w)'
    <3>1. CASE WaitEvents(v)
      BY <1>3, <1>t, <2>1, <3>1 DEF WaitEvents, Free
    <3>2. CASE Leave(v) \/ End(v) \/ EndBatch(v) \/ AcceptFail(v)
      BY <1>3, <1>t, <3>2 DEF Leave, End, EndBatch, AcceptFail, Free
    <3>3. CASE PickListener(v)
      <4>1. v # w
        BY <1>3, <3>3 DEF PickListener, Free
      <4> QED
        BY <1>3, <1>t, <3>3, <4>1 DEF PickListener, Free
    <3>4. ASSUME NEW b \in Adders, PickClient(v, b) PROVE Free(w)'
      BY <1>3, <1>t, <3>4 DEF PickClient, Free
    <3> QED
      BY <2>5, <3>1, <3>2, <3>3, <3>4 DEF WaitStep
  <2>6. ASSUME NEW v \in Workers, Add(v) \/ Recv(v) \/ RecvEnd(v) \/ Finish(v) \/ Crash(v)
        PROVE  Free(w)'
    <3>1. /\ batch' = batch
          /\ \/ pc' = pc \/ pc' = [pc EXCEPT ![v] = "batch"] \/ pc' = [pc EXCEPT ![v] = "run"]
      BY <2>6 DEF Add, Recv, RecvEnd, Finish, Crash
    <3> QED
      BY <1>3, <1>t, <3>1 DEF Free
  <2>7. ASSUME NEW v \in Workers, NEW b \in Adders, Accept(v, b) PROVE Free(w)'
    BY <1>3, <1>t, <2>7 DEF Accept, Free
  <2> QED
    BY <2>2, <2>3, <2>4, <2>5, <2>6, <2>7, StepCases
<1> QED
  BY <1>1, <1>2, <1>3 DEF FreeInv

LEMMA NotAllBlockedHolds == OwnerInv /\ PlaceInv /\ FreeInv => NotAllBlocked
<1> SUFFICES ASSUME OwnerInv, PlaceInv, FreeInv,
                    \A a, b \in Adders : a = b, start = "done", epoll = "open",
                    NEW a \in Adders, PeerOpen(a), stream[a] # <<>>
             PROVE  \E w \in Workers : ~Blocked(w) \/ held[w] \in Endless
  BY DEF NotAllBlocked
<1>t. TypeOK
  BY DEF OwnerInv
<1>1. \A w \in Workers : pc[w] = "recv" => at[w] = a
  BY <1>t, PoolAssumption DEF TypeOK
<1>2. server = "listening" /\ Workers # {}
      /\ \A w \in Workers : pc[w] \notin {"unborn", "gone", "ended"}
  BY DEF PlaceInv
<1>3. CASE link[a] = "queued"
  <2>1. Ready # {}
    BY <1>2, <1>3 DEF Ready
  <2>2. \A w \in Workers : ~Blocked(w) \/ held[w] \in Endless
    BY <1>1, <1>2, <1>3, <2>1 DEF Blocked
  <2> QED
    BY <1>2, <2>2
<1>4. CASE link[a] = "accepted"
  <2>1. PICK w \in Workers : pc[w] = "add"
    BY <1>4 DEF OwnerInv, SingleOwner
  <2> QED
    BY <2>1 DEF Blocked
<1>5. CASE link[a] = "watched"
  <2>1. PICK w \in Workers : Free(w)
    BY <1>5 DEF FreeInv
  <2>2. Ready # {}
    BY <1>5 DEF Ready
  <2>3. ~Blocked(w) \/ held[w] \in Endless
    BY <1>1, <1>2, <2>1, <2>2 DEF Blocked, Free
  <2> QED
    BY <2>3
<1> QED
  BY <1>3, <1>4, <1>5 DEF PeerOpen

(***************************************************************************)
(* The safety core of EveryTaskRuns, for any number of workers: they do    *)
(* not wait for each other while a pointer of the one adder is unread.     *)
(***************************************************************************)
THEOREM NotAllBlockedTheorem == Spec => []NotAllBlocked
<1>1. Init => PlaceInv /\ FreeInv
  BY DEF Init, PlaceInv, FreeInv
<1>2. OwnerInv => TypeOK
  BY DEF OwnerInv
<1> QED
  BY <1>1, <1>2, OwnerInitInv, OwnerStepInv, PlaceStep, FreeStep, NotAllBlockedHolds, PTL DEF Spec
=============================================================================
