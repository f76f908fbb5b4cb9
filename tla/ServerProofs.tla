--------------------------- MODULE ServerProofs ---------------------------
(***************************************************************************)
(* Theorems about CServer.  Its steps are steps of Process or leave its    *)
(* variables alone, so what ProcessProofs shows of descriptor passing      *)
(* holds here.                                                             *)
(***************************************************************************)
EXTENDS Server, TLAPS

PP == INSTANCE ProcessProofs WITH
  Children <- {Child}, Entry <- [c \in {Child} |-> "null"], Fds <- Connections,
  Parent <- Acceptor, pc <- child

\* The assumption of Process holds of its instance.
LEMMA PassingAssumption == PP!ProcessAssumption
  BY ServerAssumption DEF PP!ProcessAssumption

-----------------------------------------------------------------------------
(***************************************************************************)
(* One goal for each action, the transitions of Server::Next.              *)
(***************************************************************************)
LEMMA StepCases ==
  ASSUME NEW P,
         UNCHANGED vars => P,
         Alive /\ InitStep => P,
         Alive /\ CloseStep => P,
         \A w \in Workers : Alive /\ (Take(w) \/ Leave(w) \/ WaitEvents(w) \/ Event(w) \/ Link(w)) => P,
         \A w \in Workers : \A k \in Connections : Alive /\ Accept(w, k) => P,
         \A w \in Workers : Alive /\ (AcceptFails(w) \/ SendFails(w) \/ Delete(w) \/ Report(w)) => P,
         \A w \in Workers : Alive /\ (SendSocket(w) \/ Crash(w)) => P,
         \A k \in Connections : Alive /\ Arrive(k) => P,
         ChildStep => P,
         [Next]_vars
  PROVE  P
  BY DEF Next, Worker

-----------------------------------------------------------------------------
(***************************************************************************)
(* The part of the state that CServer has of Process takes steps of        *)
(* Process only.                                                           *)
(***************************************************************************)
LEMMA HeldType ==
  ASSUME TypeOK, NEW w \in Workers, at[w] \in {"send", "delete"}
  PROVE  held[w] \in Connections
  BY DEF TypeOK, WorkTypes

LEMMA PassingStep == TypeOK /\ [Next]_vars => [Passing!Next]_(Passing!vars)
<1> SUFFICES ASSUME TypeOK, [Next]_vars PROVE [Passing!Next]_(Passing!vars)
  OBVIOUS
<1>1. UNCHANGED procVars => [Passing!Next]_(Passing!vars)
  BY DEF procVars, Passing!vars
<1>2. UNCHANGED vars => UNCHANGED procVars
  BY DEF vars
<1>3. ASSUME InitStep PROVE [Passing!Next]_(Passing!vars)
  <2>1. Passing!Fork(Child) \/ Passing!ForkFails(Child) \/ UNCHANGED procVars
    BY <1>3 DEF InitStep, SetEntry, CreateSubProcess, CreateSubProcessFails, StartPool, CreateEpoll,
       NewSocket, Listen, Watch, AddTask, InitFails
  <2> QED
    BY <1>1, <2>1 DEF Passing!Next, Passing!ParentStep
<1>4. ASSUME CloseStep PROVE [Passing!Next]_(Passing!vars)
  <2>1. Passing!SendEnd(Child) \/ Passing!ParentEnds \/ UNCHANGED procVars
    BY <1>4 DEF CloseStep, CloseNull, CloseDelete, CloseEpoll, CloseSignal, ClosePool, Return
  <2> QED
    BY <1>1, <2>1 DEF Passing!Next, Passing!ParentStep
<1>5. ASSUME NEW w \in Workers,
             Take(w) \/ Leave(w) \/ WaitEvents(w) \/ Event(w) \/ Link(w)
      PROVE  UNCHANGED procVars
  BY <1>5 DEF Take, Leave, WaitEvents, Event, Link
<1>6. ASSUME NEW w \in Workers, NEW k \in Connections, Accept(w, k) PROVE UNCHANGED procVars
  BY <1>6 DEF Accept
<1>7. ASSUME NEW w \in Workers, AcceptFails(w) \/ SendFails(w) \/ Delete(w) \/ Report(w)
      PROVE  UNCHANGED procVars
  BY <1>7 DEF AcceptFails, SendFails, Delete, Report
<1>8. ASSUME NEW w \in Workers, SendSocket(w) \/ Crash(w) PROVE [Passing!Next]_(Passing!vars)
  <2>1. CASE SendSocket(w)
    <3>1. Passing!SendFD(Child, held[w]) /\ held[w] \in Connections
      BY <2>1, HeldType DEF SendSocket
    <3> QED
      BY <3>1 DEF Passing!Next, Passing!ParentStep
  <2>2. CASE Crash(w)
    BY <2>2 DEF Crash, Passing!Next
  <2> QED
    BY <1>8, <2>1, <2>2
<1>9. ASSUME NEW k \in Connections, Arrive(k) PROVE UNCHANGED procVars
  BY <1>9 DEF Arrive
<1>10. ASSUME ChildStep PROVE [Passing!Next]_(Passing!vars)
  BY <1>10 DEF ChildStep, Passing!Next
<1> QED
  BY <1>1, <1>2, <1>3, <1>4, <1>5, <1>6, <1>7, <1>8, <1>9, <1>10, StepCases

\* Passing and PP are two names of one instance.
LEMMA SameStep == [Passing!Next]_(Passing!vars) <=> [PP!Next]_(PP!vars)
<1>1. PP!vars = Passing!vars /\ PP!vars' = Passing!vars'
  BY DEF PP!vars, Passing!vars
<1>2. PP!Next = Passing!Next
  BY DEF PP!Next, Passing!Next, PP!ParentStep, Passing!ParentStep, PP!ChildStep, Passing!ChildStep,
     PP!Fork, Passing!Fork, PP!ForkFails, Passing!ForkFails, PP!SendEnd, Passing!SendEnd,
     PP!SendFD, Passing!SendFD, PP!ParentEnds, Passing!ParentEnds,
     PP!CloseWrite, Passing!CloseWrite, PP!RecvFD, Passing!RecvFD, PP!RecvEnd, Passing!RecvEnd,
     PP!ReadStdin, Passing!ReadStdin, PP!Exit, Passing!Exit,
     PP!Forked, Passing!Forked, PP!Without, Passing!Without
<1> QED
  BY <1>1, <1>2

LEMMA PassingTypes ==
  Passing!TypeOK /\ [Passing!Next]_(Passing!vars) => Passing!TypeOK'
<1>1. PP!TypeOK = Passing!TypeOK /\ PP!TypeOK' = Passing!TypeOK'
  BY DEF PP!TypeOK, Passing!TypeOK
<1>2. PP!TypeOK /\ [PP!Next]_(PP!vars) => PP!TypeOK'
  BY PP!ProcTypes, PassingAssumption
<1> QED
  BY <1>1, <1>2, SameStep

-----------------------------------------------------------------------------
LEMMA ServerInit == Init => TypeOK
<1> SUFFICES ASSUME Init PROVE TypeOK
  OBVIOUS
<1>1. MainTypes /\ WorkTypes /\ ConnTypes
  BY ServerAssumption DEF Init, MainTypes, WorkTypes, ConnTypes, Places
<1>2. Passing!TypeOK
  BY DEF Init, Passing!Init, Passing!TypeOK
<1> QED
  BY <1>1, <1>2 DEF TypeOK

LEMMA MainStep == MainTypes /\ [Next]_vars => MainTypes'
<1> SUFFICES ASSUME MainTypes, [Next]_vars PROVE MainTypes'
  OBVIOUS
<1> USE ServerAssumption DEF MainTypes
<1>1. UNCHANGED <<main, mainVars, taskVars>> => MainTypes'
  BY DEF mainVars, taskVars
<1>2. UNCHANGED vars => MainTypes'
  BY <1>1 DEF vars
<1>3. ASSUME InitStep PROVE MainTypes'
  <2>1. CASE AddTask
    BY <2>1 DEF AddTask, mainVars
  <2>2. CASE Watch
    BY <2>2 DEF Watch, taskVars
  <2> QED
    BY <1>3, <2>1, <2>2 DEF InitStep, SetEntry, CreateSubProcess, CreateSubProcessFails, StartPool,
       CreateEpoll, NewSocket, Listen, InitFails, mainVars, taskVars
<1>4. ASSUME CloseStep PROVE MainTypes'
  BY <1>4, <1>1 DEF CloseStep, CloseNull, CloseDelete, CloseEpoll, CloseSignal, ClosePool, Return,
     mainVars, taskVars
<1>5. ASSUME NEW w \in Workers, Take(w) \/ Leave(w) \/ WaitEvents(w) \/ Event(w) \/ Link(w)
      PROVE  MainTypes'
  <2>1. CASE Take(w)
    BY <2>1 DEF Take, mainVars
  <2> QED
    BY <1>1, <1>5, <2>1 DEF Leave, WaitEvents, Event, Link
<1>6. ASSUME NEW w \in Workers, NEW k \in Connections, Accept(w, k) PROVE MainTypes'
  BY <1>1, <1>6 DEF Accept
<1>7. ASSUME NEW w \in Workers, AcceptFails(w) \/ SendFails(w) \/ Delete(w) \/ Report(w)
      PROVE  MainTypes'
  BY <1>1, <1>7 DEF AcceptFails, SendFails, Delete, Report
<1>8. ASSUME NEW w \in Workers, SendSocket(w) \/ Crash(w) PROVE MainTypes'
  BY <1>1, <1>8 DEF SendSocket, Crash
<1>9. ASSUME NEW k \in Connections, Arrive(k) PROVE MainTypes'
  BY <1>1, <1>9 DEF Arrive
<1>10. ASSUME ChildStep PROVE MainTypes'
  BY <1>1, <1>10 DEF ChildStep
<1> QED
  BY <1>2, <1>3, <1>4, <1>5, <1>6, <1>7, <1>8, <1>9, <1>10, StepCases

LEMMA WorkStep == WorkTypes /\ [Next]_vars => WorkTypes'
<1> SUFFICES ASSUME WorkTypes, [Next]_vars PROVE WorkTypes'
  OBVIOUS
<1> USE ServerAssumption DEF WorkTypes, Places
<1>1. UNCHANGED workVars => WorkTypes'
  BY DEF workVars
<1>2. UNCHANGED vars => WorkTypes'
  BY <1>1 DEF vars
<1>3. InitStep \/ CloseStep \/ ChildStep => UNCHANGED workVars
  BY DEF InitStep, SetEntry, CreateSubProcess, CreateSubProcessFails, StartPool, CreateEpoll,
     NewSocket, Listen, Watch, AddTask, InitFails, CloseStep, CloseNull, CloseDelete, CloseEpoll,
     CloseSignal, ClosePool, Return, ChildStep
<1>4. ASSUME NEW w \in Workers, Take(w) \/ Leave(w) \/ WaitEvents(w) \/ Event(w) \/ Link(w)
      PROVE  WorkTypes'
  <2>1. /\ at[w] \in {"idle", "wait", "event", "link"}
        /\ \E p \in {"idle", "wait", "event", "link", "accept"} : at' = [at EXCEPT ![w] = p]
        /\ UNCHANGED <<held, fails, fault>>
    BY <1>4 DEF Take, Leave, WaitEvents, Event, Link, Go
  <2> QED
    BY <2>1
<1>5. ASSUME NEW w \in Workers, NEW k \in Connections, Accept(w, k) PROVE WorkTypes'
  <2>1. /\ at' = [at EXCEPT ![w] = "send"] /\ held' = [held EXCEPT ![w] = k]
        /\ UNCHANGED <<fails, fault>>
    BY <1>5 DEF Accept, Go
  <2> QED
    BY <2>1
<1>6. ASSUME NEW w \in Workers, AcceptFails(w) \/ SendFails(w) \/ Delete(w) \/ Report(w)
      PROVE  WorkTypes'
  <2>1. CASE AcceptFails(w) \/ Report(w)
    <3>1. /\ at[w] \in {"accept", "report"} /\ at' = [at EXCEPT ![w] = "wait"]
          /\ UNCHANGED <<held, fault>> /\ fails' \in 0..MaxFails
      BY <2>1 DEF AcceptFails, Report, Go
    <3> QED
      BY <3>1
  <2>2. CASE SendFails(w) \/ Delete(w)
    <3>1. /\ \E p \in {"report", "wait"} : at' = [at EXCEPT ![w] = p]
          /\ held' = [held EXCEPT ![w] = None]
          /\ UNCHANGED fault /\ fails' \in 0..MaxFails
      BY <2>2 DEF SendFails, Delete, Go
    <3> QED
      BY <3>1
  <2> QED
    BY <1>6, <2>1, <2>2
<1>7. ASSUME NEW w \in Workers, SendSocket(w) \/ Crash(w) PROVE WorkTypes'
  <2>1. CASE SendSocket(w)
    <3>1. /\ at[w] = "send" /\ at' = [at EXCEPT ![w] = "delete"]
          /\ UNCHANGED <<held, fails, fault>>
      BY <2>1 DEF SendSocket, Go
    <3> QED
      BY <3>1
  <2>2. CASE Crash(w)
    BY <2>2 DEF Crash
  <2> QED
    BY <1>7, <2>1, <2>2
<1>8. ASSUME NEW k \in Connections, Arrive(k) PROVE WorkTypes'
  BY <1>1, <1>8 DEF Arrive
<1> QED
  BY <1>1, <1>2, <1>3, <1>4, <1>5, <1>6, <1>7, <1>8, StepCases

LEMMA ConnStep == TypeOK /\ [Next]_vars => ConnTypes'
<1> SUFFICES ASSUME TypeOK, [Next]_vars PROVE ConnTypes'
  OBVIOUS
<1> USE DEF ConnTypes
<1>1. ConnTypes
  BY DEF TypeOK
<1>2. UNCHANGED connVars => ConnTypes'
  BY <1>1 DEF connVars
<1>3. UNCHANGED vars => ConnTypes'
  BY <1>2 DEF vars
<1>4. InitStep \/ ChildStep => UNCHANGED connVars
  BY DEF InitStep, SetEntry, CreateSubProcess, CreateSubProcessFails, StartPool, CreateEpoll,
     NewSocket, Listen, Watch, AddTask, InitFails, ChildStep
<1>5. ASSUME CloseStep PROVE ConnTypes'
  BY <1>1, <1>2, <1>5 DEF CloseStep, CloseNull, CloseDelete, CloseEpoll, CloseSignal, ClosePool,
     Return
<1>6. ASSUME NEW w \in Workers, Take(w) \/ Leave(w) \/ WaitEvents(w) \/ Event(w) \/ Link(w)
      PROVE  ConnTypes'
  BY <1>2, <1>6 DEF Take, Leave, WaitEvents, Event, Link
<1>7. ASSUME NEW w \in Workers, NEW k \in Connections, Accept(w, k) PROVE ConnTypes'
  BY <1>1, <1>7 DEF Accept
<1>8. ASSUME NEW w \in Workers, AcceptFails(w) \/ SendFails(w) \/ Delete(w) \/ Report(w)
      PROVE  ConnTypes'
  <2>1. CASE AcceptFails(w) \/ Report(w)
    BY <1>2, <2>1 DEF AcceptFails, Report
  <2>2. CASE SendFails(w)
    <3>1. held[w] \in Connections
      BY <2>2, HeldType DEF SendFails
    <3> QED
      BY <1>1, <2>2, <3>1 DEF SendFails
  <2>3. CASE Delete(w)
    BY <1>1, <2>3 DEF Delete
  <2> QED
    BY <1>8, <2>1, <2>2, <2>3
<1>9. ASSUME NEW w \in Workers, SendSocket(w) \/ Crash(w) PROVE ConnTypes'
  BY <1>2, <1>9 DEF SendSocket, Crash
<1>10. ASSUME NEW k \in Connections, Arrive(k) PROVE ConnTypes'
  BY <1>1, <1>10 DEF Arrive
<1> QED
  BY <1>2, <1>3, <1>4, <1>5, <1>6, <1>7, <1>8, <1>9, <1>10, StepCases

LEMMA ServerTypes == TypeOK /\ [Next]_vars => TypeOK'
  BY MainStep, WorkStep, ConnStep, PassingStep, PassingTypes DEF TypeOK

(***************************************************************************)
(* The variables of CServer keep their types, and a worker has a pClient   *)
(* exactly between accept and delete.                                      *)
(***************************************************************************)
THEOREM ServerTypesTheorem == Spec => []TypeOK
  BY ServerInit, ServerTypes, PTL DEF Spec

(***************************************************************************)
(* CServer uses its child as Process describes.                            *)
(***************************************************************************)
THEOREM PassingTheorem == Spec => Passing!Spec
<1>1. Init => Passing!Init
  BY DEF Init
<1> QED
  BY <1>1, PassingStep, ServerTypesTheorem, PTL DEF Spec, Passing!Spec

-----------------------------------------------------------------------------
(***************************************************************************)
(* A worker is in ThreadFunc only after an AddTask; from `new CSocket' on  *)
(* until Init fails there is a listener; and undefined behaviour ends the  *)
(* process.                                                                *)
(***************************************************************************)
CloseInv ==
  /\ \A w \in Workers : at[w] # "idle" => 0 < added
  /\ main \in {"listen", "watch", "tasks", "run"} => m_server = "set" /\ listener # "deleted"
  /\ fault # "none" => ~Alive
  /\ Blame

LEMMA CloseInit == Init => CloseInv
  BY DEF Init, CloseInv, Blame

LEMMA CloseInvStep == TypeOK /\ CloseInv /\ [Next]_vars => CloseInv'
<1> SUFFICES ASSUME TypeOK, CloseInv, [Next]_vars PROVE CloseInv'
  OBVIOUS
<1> USE ServerAssumption DEF CloseInv, Blame, Alive
<1>1. MainTypes /\ WorkTypes
  BY DEF TypeOK
<1>2. ASSUME UNCHANGED <<main, mainVars, taskVars, at, fault>>, parent' = "runs" => parent = "runs"
      PROVE  CloseInv'
  BY <1>2 DEF mainVars, taskVars
<1>3. UNCHANGED vars => CloseInv'
  BY <1>2 DEF vars, workVars, procVars
<1>4. ASSUME Alive, InitStep PROVE CloseInv'
  <2>1. fault = "none" /\ UNCHANGED <<at, fault>>
    BY <1>4 DEF InitStep, SetEntry, CreateSubProcess, CreateSubProcessFails, StartPool, CreateEpoll,
       NewSocket, Listen, Watch, AddTask, InitFails, workVars
  <2>2. added' \in {added, added + 1}
    BY <1>4 DEF InitStep, SetEntry, CreateSubProcess, CreateSubProcessFails, StartPool, CreateEpoll,
       NewSocket, Listen, Watch, AddTask, InitFails, taskVars
  <2>3. main' \in {"listen", "watch", "tasks", "run"} => m_server' = "set" /\ listener' # "deleted"
    BY <1>4 DEF InitStep, SetEntry, CreateSubProcess, CreateSubProcessFails, StartPool, CreateEpoll,
       NewSocket, Listen, Watch, AddTask, InitFails, mainVars
  <2>4. 0 < added => 0 < added'
    BY <1>1, <2>2 DEF MainTypes
  <2> QED
    BY <2>1, <2>3, <2>4
<1>5. ASSUME Alive, CloseStep PROVE CloseInv'
  <2>1. fault = "none" /\ UNCHANGED <<at, fault, added>>
    BY <1>5 DEF CloseStep, CloseNull, CloseDelete, CloseEpoll, CloseSignal, ClosePool, Return,
       workVars, taskVars
  <2>2. main' \notin {"listen", "watch", "tasks", "run"}
    BY <1>5 DEF CloseStep, CloseNull, CloseDelete, CloseEpoll, CloseSignal, ClosePool, Return
  <2> QED
    BY <2>1, <2>2
<1>6. ASSUME NEW w \in Workers, Alive, Take(w) \/ Leave(w) \/ WaitEvents(w) \/ Event(w) \/ Link(w)
      PROVE  CloseInv'
  <2>1. /\ UNCHANGED <<main, mainVars, added, fault>>
        /\ \A v \in Workers \ {w} : at'[v] = at[v]
    BY <1>1, <1>6 DEF Take, Leave, WaitEvents, Event, Link, Go, taskVars, WorkTypes
  <2>2. 0 < added
    BY <1>1, <1>6 DEF Take, Leave, WaitEvents, Event, Link, MainTypes
  <2> QED
    BY <1>6, <2>1, <2>2 DEF mainVars
<1>7. ASSUME NEW w \in Workers, NEW k \in Connections, Alive, Accept(w, k) PROVE CloseInv'
  <2>1. /\ at[w] = "accept" /\ UNCHANGED <<main, mainVars, added, fault>>
        /\ \A v \in Workers \ {w} : at'[v] = at[v]
    BY <1>1, <1>7 DEF Accept, Go, taskVars, WorkTypes
  <2> QED
    BY <1>7, <2>1 DEF mainVars
<1>8. ASSUME NEW w \in Workers, Alive, AcceptFails(w) \/ SendFails(w) \/ Delete(w) \/ Report(w)
      PROVE  CloseInv'
  <2>1. /\ at[w] # "idle" /\ UNCHANGED <<main, mainVars, added, fault>>
        /\ \A v \in Workers \ {w} : at'[v] = at[v]
    BY <1>1, <1>8 DEF AcceptFails, SendFails, Delete, Report, Go, taskVars, WorkTypes
  <2> QED
    BY <1>8, <2>1 DEF mainVars
<1>9. ASSUME NEW w \in Workers, Alive, SendSocket(w) \/ Crash(w) PROVE CloseInv'
  <2>1. CASE SendSocket(w)
    <3>1. /\ at[w] = "send" /\ UNCHANGED <<main, mainVars, added, fault>>
          /\ \A v \in Workers \ {w} : at'[v] = at[v]
      BY <1>1, <2>1 DEF SendSocket, Go, taskVars, WorkTypes
    <3> QED
      BY <1>9, <3>1 DEF mainVars
  <2>2. CASE Crash(w)
    <3>1. /\ at[w] # "idle" /\ UNCHANGED <<main, mainVars, added, at>>
          /\ parent' = "ended"
      BY <2>2 DEF Crash, Passing!ParentEnds, taskVars
    <3>2. fault' = "dead_server" => m_server = "null" \/ listener = "deleted"
      BY <2>2 DEF Crash
    <3>3. fault' = "dead_server" => added < Count
      BY <1>1, <3>2 DEF MainTypes
    <3> QED
      BY <3>1, <3>3 DEF mainVars
  <2> QED
    BY <1>9, <2>1, <2>2
<1>10. ASSUME NEW k \in Connections, Arrive(k) PROVE CloseInv'
  BY <1>2, <1>10 DEF Arrive, workVars, procVars
<1>11. ASSUME ChildStep PROVE CloseInv'
  <2>1. parent' = parent
    BY <1>11 DEF ChildStep, Passing!ChildStep, Passing!CloseWrite, Passing!RecvFD, Passing!RecvEnd,
       Passing!Exit
  <2> QED
    BY <1>2, <1>11, <2>1 DEF ChildStep, workVars
<1> QED
  BY <1>3, <1>4, <1>5, <1>6, <1>7, <1>8, <1>9, <1>10, <1>11, StepCases DEF Alive

(***************************************************************************)
(* An Init that succeeds, or fails before it adds a task, leaves nobody    *)
(* with a dead listener.                                                   *)
(***************************************************************************)
THEOREM ServerBlameTheorem == Spec => []Blame
<1>1. CloseInv => Blame
  BY DEF CloseInv
<1> QED
  BY <1>1, CloseInit, CloseInvStep, ServerTypesTheorem, PTL DEF Spec

-----------------------------------------------------------------------------
(***************************************************************************)
(* HandedOver, and that a worker deletes what it has passed, unless the    *)
(* process was killed in SendSocket.                                       *)
(***************************************************************************)
HandInv ==
  /\ HandedOver
  /\ \A w \in Workers : at[w] = "delete" /\ Alive => held[w] \in Passed

LEMMA HandInit == Init => HandInv
<1> SUFFICES ASSUME Init PROVE HandInv
  OBVIOUS
<1>1. sent[Child] = <<>> /\ Passed = {}
  BY DEF Init, Passing!Init, Passed
<1>2. Len(sent[Child]) = 0
  BY <1>1
<1> QED
  BY <1>1, <1>2 DEF Init, HandInv, HandedOver

\* What Append does to Passed.
LEMMA PassedAppend ==
  ASSUME NEW k \in Connections, k \notin Passed, sent[Child] \in Seq(Connections),
         sent'[Child] = Append(sent[Child], k),
         \A i, j \in 1..Len(sent[Child]) : sent[Child][i] = sent[Child][j] => i = j
  PROVE  /\ Passed' = Passed \cup {k}
         /\ \A i, j \in 1..Len(sent[Child])' : sent'[Child][i] = sent'[Child][j] => i = j
<1> DEFINE s == sent[Child]  n == Len(s)
<1>1. n \in Nat /\ Len(s)' = n + 1
  OBVIOUS
<1>2. s'[n + 1] = k /\ \A i \in 1..n : s'[i] = s[i]
  OBVIOUS
<1>3. \A i \in 1..n : s[i] # k
  BY DEF Passed
<1>4. Passed = {s[i] : i \in 1..n} /\ Passed' = {s'[i] : i \in 1..(n + 1)}
  BY <1>1 DEF Passed
<1> HIDE DEF s, n
<1>5. 1..(n + 1) = 1..n \cup {n + 1} /\ n + 1 \notin 1..n
  BY <1>1
<1>6. Passed' = Passed \cup {k}
  BY <1>2, <1>4, <1>5
<1>7. \A i, j \in 1..(n + 1) : s'[i] = s'[j] => i = j
  <2>1. \A i, j \in 1..n : s[i] = s[j] => i = j
    BY DEF s, n
  <2> QED
    BY <1>2, <1>3, <1>5, <2>1
<1> QED
  BY <1>1, <1>6, <1>7 DEF s

\* Steps that move no connection.
LEMMA HandQuiet ==
  ASSUME HandInv, UNCHANGED <<connVars, held>>, sent'[Child] = sent[Child],
         \A w \in Workers : at'[w] = "delete" <=> at[w] = "delete",
         Alive' => Alive
  PROVE  HandInv'
<1>1. Passed' = Passed
  BY DEF Passed
<1>2. UNCHANGED <<arrived, backlog, open, dropped, held>>
  BY DEF connVars
<1> QED
  BY <1>1, <1>2 DEF HandInv, HandedOver

LEMMA HandStep == TypeOK /\ HandInv /\ [Next]_vars => HandInv'
<1> SUFFICES ASSUME TypeOK, HandInv, [Next]_vars PROVE HandInv'
  OBVIOUS
<1>1. WorkTypes /\ ConnTypes /\ sent \in [{Child} -> Seq(Connections)]
  BY DEF TypeOK, Passing!TypeOK
<1>2. ASSUME UNCHANGED <<connVars, at, held, sent>>, Alive' => Alive PROVE HandInv'
  BY <1>2, HandQuiet
<1>3. UNCHANGED vars => HandInv'
  BY <1>2 DEF vars, workVars, procVars, Alive
<1>4. ASSUME Alive, InitStep PROVE HandInv'
  BY <1>2, <1>4 DEF InitStep, SetEntry, CreateSubProcess, CreateSubProcessFails, StartPool, CreateEpoll,
     NewSocket, Listen, Watch, AddTask, InitFails, workVars, procVars, Passing!Fork, Passing!ForkFails
<1>5. ASSUME Alive, CloseStep PROVE HandInv'
  <2>1. CASE CloseDelete
    <3>1. PICK lost \in SUBSET backlog : backlog' = backlog \ lost /\ dropped' = dropped \cup lost
      BY <2>1 DEF CloseDelete
    <3>2. UNCHANGED <<arrived, open, at, held, sent, parent>>
      BY <2>1 DEF CloseDelete, workVars, procVars
    <3>3. Passed' = Passed
      BY <3>2 DEF Passed
    <3> QED
      BY <3>1, <3>2, <3>3 DEF HandInv, HandedOver, Alive
  <2> QED
    BY <1>2, <1>5, <2>1 DEF CloseStep, CloseNull, CloseEpoll, CloseSignal, ClosePool, Return,
       workVars, procVars, Passing!SendEnd, Passing!ParentEnds
<1>6. ASSUME NEW w \in Workers, Alive, Take(w) \/ Leave(w) \/ WaitEvents(w) \/ Event(w) \/ Link(w)
      PROVE  HandInv'
  <2>1. /\ at[w] # "delete" /\ UNCHANGED <<connVars, held, sent>>
        /\ \E p \in {"idle", "wait", "event", "link", "accept"} : at' = [at EXCEPT ![w] = p]
    BY <1>6 DEF Take, Leave, WaitEvents, Event, Link, Go, procVars
  <2>2. \A v \in Workers : at'[v] = "delete" <=> at[v] = "delete"
    BY <1>1, <2>1 DEF WorkTypes
  <2> QED
    BY <1>6, <2>1, <2>2, HandQuiet
<1>7. ASSUME NEW w \in Workers, NEW k \in Connections, Alive, Accept(w, k) PROVE HandInv'
  <2>1. /\ at[w] = "accept" /\ at' = [at EXCEPT ![w] = "send"] /\ held' = [held EXCEPT ![w] = k]
        /\ k \in backlog /\ backlog' = backlog \ {k} /\ open' = open \cup {k}
        /\ UNCHANGED <<arrived, dropped, sent, parent>>
    BY <1>7 DEF Accept, Go, procVars
  <2>2. Passed' = Passed /\ k \notin Passed /\ k \notin open /\ k \notin dropped /\ k # None
    BY <2>1, ServerAssumption DEF Passed, HandInv, HandedOver
  <2>3. /\ at'[w] = "send" /\ held'[w] = k /\ held[w] = None
        /\ \A v \in Workers \ {w} : at'[v] = at[v] /\ held'[v] = held[v] /\ held[v] # k
    BY <1>1, <2>1, <2>2 DEF WorkTypes, HandInv, HandedOver
  <2>4. open' = {held'[v] : v \in Workers} \ {None}
    BY <2>1, <2>2, <2>3 DEF HandInv, HandedOver
  <2> QED
    BY <2>1, <2>2, <2>3, <2>4 DEF HandInv, HandedOver, Alive
<1>8. ASSUME NEW w \in Workers, Alive, AcceptFails(w) \/ SendFails(w) \/ Delete(w) \/ Report(w)
      PROVE  HandInv'
  <2>1. CASE AcceptFails(w) \/ Report(w)
    <3>1. /\ at[w] # "delete" /\ at' = [at EXCEPT ![w] = "wait"]
          /\ UNCHANGED <<connVars, held, sent, parent>>
      BY <2>1 DEF AcceptFails, Report, Go, procVars
    <3>2. \A v \in Workers : at'[v] = "delete" <=> at[v] = "delete"
      BY <1>1, <3>1 DEF WorkTypes
    <3> QED
      BY <3>1, <3>2, HandQuiet DEF Alive
  <2>2. CASE SendFails(w) \/ Delete(w)
    <3>1. /\ at[w] \in {"send", "delete"} /\ open' = open \ {held[w]}
          /\ held' = [held EXCEPT ![w] = None]
          /\ UNCHANGED <<arrived, backlog, sent, parent>>
          /\ \E p \in {"wait", "report"} : at' = [at EXCEPT ![w] = p]
      BY <2>2 DEF SendFails, Delete, Go, procVars
    <3>2. held[w] # None /\ Passed' = Passed /\ None \notin Passed
      BY <1>1, <3>1, ServerAssumption DEF WorkTypes, Passed
    <3>3. /\ at'[w] \in {"wait", "report"} /\ held'[w] = None
          /\ \A v \in Workers \ {w} : at'[v] = at[v] /\ held'[v] = held[v] /\ held[v] # held[w]
      BY <1>1, <3>1, <3>2 DEF WorkTypes, HandInv, HandedOver
    <3>4. open' = {held'[v] : v \in Workers} \ {None} /\ held[w] \in open
      BY <3>1, <3>2, <3>3 DEF HandInv, HandedOver
    <3>5. CASE SendFails(w)
      <4>1. at[w] = "send" /\ dropped' = dropped \cup {held[w]}
        BY <3>5 DEF SendFails
      <4>2. held[w] \notin Passed
        BY <4>1 DEF HandInv, HandedOver
      <4> QED
        BY <3>1, <3>2, <3>3, <3>4, <4>1, <4>2 DEF HandInv, HandedOver, Alive
    <3>6. CASE Delete(w)
      <4>1. at[w] = "delete" /\ dropped' = dropped
        BY <3>6 DEF Delete
      <4>2. held[w] \in Passed
        BY <1>8, <4>1 DEF HandInv
      <4> QED
        BY <3>1, <3>2, <3>3, <3>4, <4>1, <4>2 DEF HandInv, HandedOver, Alive
    <3> QED
      BY <2>2, <3>5, <3>6
  <2> QED
    BY <1>8, <2>1, <2>2
<1>9. ASSUME NEW w \in Workers, Alive, SendSocket(w) \/ Crash(w) PROVE HandInv'
  <2>1. CASE SendSocket(w)
    <3>1. /\ at[w] = "send" /\ at' = [at EXCEPT ![w] = "delete"] /\ UNCHANGED <<connVars, held>>
          /\ held[w] \in Connections /\ held[w] \notin Passed
      BY <1>1, <2>1 DEF SendSocket, Go, WorkTypes, HandInv, HandedOver
    <3>2. /\ at'[w] = "delete" /\ \A v \in Workers \ {w} : at'[v] = at[v]
          /\ UNCHANGED <<arrived, backlog, open, dropped, held>>
      BY <1>1, <3>1 DEF WorkTypes, connVars
    <3>3. held[w] \in open /\ held[w] \notin backlog /\ held[w] \notin dropped
      BY <1>1, <3>1 DEF WorkTypes, HandInv, HandedOver
    <3>4. CASE child[Child] = "ended"
      <4>1. sent' = sent /\ ~Alive'
        BY <2>1, <3>4 DEF SendSocket, Passing!SendFD, Alive
      <4>2. Passed' = Passed
        BY <4>1 DEF Passed
      <4> QED
        BY <3>2, <4>1, <4>2 DEF HandInv, HandedOver
    <3>5. CASE child[Child] # "ended"
      <4>1. sent'[Child] = Append(sent[Child], held[w]) /\ parent' = parent
        BY <1>1, <2>1, <3>5 DEF SendSocket, Passing!SendFD
      <4>2. /\ Passed' = Passed \cup {held[w]}
            /\ \A i, j \in 1..Len(sent[Child])' : sent'[Child][i] = sent'[Child][j] => i = j
        BY <1>1, <3>1, <4>1, PassedAppend DEF HandInv, HandedOver
      <4>3. \A v \in Workers \ {w} : held[v] # held[w]
        BY <1>1, <3>1 DEF WorkTypes, HandInv, HandedOver
      <4> QED
        BY <3>2, <3>3, <4>1, <4>2, <4>3 DEF HandInv, HandedOver, Alive
    <3> QED
      BY <3>4, <3>5
  <2>2. CASE Crash(w)
    BY <1>2, <2>2 DEF Crash, Passing!ParentEnds, Alive
  <2> QED
    BY <1>9, <2>1, <2>2
<1>10. ASSUME NEW k \in Connections, Arrive(k) PROVE HandInv'
  <2>1. /\ k \notin arrived /\ arrived' = arrived \cup {k} /\ backlog' = backlog \cup {k}
        /\ UNCHANGED <<open, dropped, at, held, sent, parent>>
    BY <1>10 DEF Arrive, workVars, procVars
  <2>2. Passed' = Passed
    BY <2>1 DEF Passed
  <2> QED
    BY <2>1, <2>2 DEF HandInv, HandedOver, Alive
<1>11. ASSUME ChildStep PROVE HandInv'
  <2>1. parent' = parent /\ sent' = sent
    BY <1>11 DEF ChildStep, Passing!ChildStep, Passing!CloseWrite, Passing!RecvFD, Passing!RecvEnd,
       Passing!Exit
  <2> QED
    BY <1>2, <1>11, <2>1 DEF ChildStep, workVars, Alive
<1> QED
  BY <1>3, <1>4, <1>5, <1>6, <1>7, <1>8, <1>9, <1>10, <1>11, StepCases

(***************************************************************************)
(* No connection is held twice, passed twice, forgotten, or kept open      *)
(* after it has been passed, for any number of workers and connections.    *)
(***************************************************************************)
THEOREM HandedOverTheorem == Spec => []HandedOver
<1>1. HandInv => HandedOver
  BY DEF HandInv
<1> QED
  BY <1>1, HandInit, HandStep, ServerTypesTheorem, PTL DEF Spec

(***************************************************************************)
(* What the child of CServer receives, in the order of SendSocket: the     *)
(* theorem of ProcessProofs about any child.                               *)
(***************************************************************************)
THEOREM PassedInOrderTheorem == Spec => [](PP!Delivered)
<1>1. PP!Spec => [](PP!Delivered)
  BY PP!DeliveredTheorem, PassingAssumption
<1>2. Passing!Init => PP!Init
  BY DEF PP!Init, Passing!Init
<1>3. Passing!Spec => PP!Spec
  BY <1>2, SameStep, PTL DEF PP!Spec, Passing!Spec
<1> QED
  BY <1>1, <1>3, PassingTheorem, PTL
=============================================================================
