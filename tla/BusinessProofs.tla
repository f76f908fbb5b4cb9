--------------------------- MODULE BusinessProofs ---------------------------
(***************************************************************************)
(* Theorems about the business process, for any number of connections and  *)
(* workers and any size of the descriptor table and of WaitEvents.         *)
(*                                                                         *)
(* The types rest on the account (what a worker touches is watched because *)
(* the ready list is), so both are one induction; Known is what they need  *)
(* beyond themselves.                                                      *)
(***************************************************************************)
EXTENDS Business, SequenceTheorems, TLAPS

\* Before the loop the tasks are not complete and nothing has been taken; in
\* the loop there is a connection in hand, which before Add is new; workers
\* hold events of watched connections only.
Known ==
  /\ main \in {"connect", "create", "epoll", "pool", "tasks"} => added < Count /\ taken = 0
  /\ main \in {"add", "announce"} => taken > 0
  /\ main = "add" => sock \notin watched
  /\ \A w \in Workers : \A i \in 1..Len(events[w]) : events[w][i].ptr \in watched

Inv == TypeOK /\ Accounted /\ Blame /\ Known

-----------------------------------------------------------------------------
(* Sequences.                                                              *)

\* What goes to the end of the list keeps its elements and their number.
LEMMA RotateShifts ==
  ASSUME NEW s \in Seq(Connections), NEW m \in 1..Len(s), NEW t,
         t = Rotate(s, m)
  PROVE  /\ t \in Seq(Connections) /\ Len(t) = Len(s)
         /\ \A i \in 1..Len(s) :
              t[i] = IF i <= Len(s) - m THEN s[m + i] ELSE s[i - (Len(s) - m)]
<1> DEFINE a == SubSeq(s, m + 1, Len(s))
           b == SubSeq(s, 1, m)
<1>1. a \in Seq(Connections) /\ Len(a) = Len(s) - m /\ \A i \in 1..Len(a) : a[i] = s[m + i]
  OBVIOUS
<1>2. b \in Seq(Connections) /\ Len(b) = m /\ \A i \in 1..Len(b) : b[i] = s[i]
  OBVIOUS
<1> HIDE DEF a, b
<1>3. t = a \o b
  BY DEF a, b, Rotate
<1>4. /\ a \o b \in Seq(Connections) /\ Len(a \o b) = Len(a) + Len(b)
      /\ \A i \in 1..(Len(a) + Len(b)) : (a \o b)[i] = IF i <= Len(a) THEN a[i] ELSE b[i - Len(a)]
  BY <1>1, <1>2, ConcatProperties
<1>5. ASSUME NEW i \in 1..Len(s)
      PROVE  t[i] = IF i <= Len(s) - m THEN s[m + i] ELSE s[i - (Len(s) - m)]
  BY <1>1, <1>2, <1>3, <1>4
<1> QED
  BY <1>1, <1>2, <1>3, <1>4, <1>5

LEMMA RotateOnce ==
  ASSUME NEW s \in Seq(Connections), NEW m \in 1..Len(s), NEW t,
         t = Rotate(s, m), Distinct(s)
  PROVE  Distinct(t) /\ Elements(t) = Elements(s)
<1> DEFINE p(i) == IF i <= Len(s) - m THEN m + i ELSE i - (Len(s) - m)
           q(i) == IF i <= m THEN Len(s) - m + i ELSE i - m
<1>1. Len(t) = Len(s) /\ \A i \in 1..Len(s) : t[i] = s[p(i)]
  BY RotateShifts
<1>2. \A i \in 1..Len(s) : p(i) \in 1..Len(s) /\ q(i) \in 1..Len(s) /\ p(q(i)) = i /\ q(p(i)) = i
  OBVIOUS
<1> HIDE DEF p, q
<1>3. Distinct(t)
  <2> SUFFICES ASSUME NEW i \in 1..Len(s), NEW j \in 1..Len(s), t[i] = t[j] PROVE i = j
    BY <1>1 DEF Distinct
  <2>1. s[p(i)] = s[p(j)]
    BY <1>1
  <2>2. p(i) = p(j)
    BY <1>2, <2>1 DEF Distinct
  <2> QED
    BY <1>2, <2>2
<1>4. Elements(t) = Elements(s)
  <2>1. \A i \in 1..Len(s) : s[i] = t[q(i)]
    BY <1>1, <1>2
  <2>2. \A i \in 1..Len(s) : t[i] \in Elements(s)
    BY <1>1, <1>2 DEF Elements
  <2>3. \A i \in 1..Len(s) : s[i] \in Elements(t)
    BY <1>1, <1>2, <2>1 DEF Elements
  <2> QED
    BY <1>1, <2>2, <2>3 DEF Elements
<1> QED
  BY <1>3, <1>4

LEMMA RotateKeeps ==
  \A s \in Seq(Connections) : \A m \in 1..Len(s) :
    Distinct(s) => /\ Rotate(s, m) \in Seq(Connections) /\ Distinct(Rotate(s, m))
                   /\ Elements(Rotate(s, m)) = Elements(s)
<1> SUFFICES ASSUME NEW s \in Seq(Connections), NEW m \in 1..Len(s), Distinct(s)
             PROVE  /\ Rotate(s, m) \in Seq(Connections) /\ Distinct(Rotate(s, m))
                    /\ Elements(Rotate(s, m)) = Elements(s)
  OBVIOUS
<1>1. Rotate(s, m) \in Seq(Connections)
  BY RotateShifts
<1>2. Distinct(Rotate(s, m)) /\ Elements(Rotate(s, m)) = Elements(s)
  BY RotateOnce
<1> QED
  BY <1>1, <1>2

LEMMA AppendKeeps ==
  ASSUME NEW s \in Seq(Connections), NEW x \in Connections, Distinct(s), x \notin Elements(s),
         NEW t, t = Append(s, x)
  PROVE  /\ t \in Seq(Connections) /\ Distinct(t) /\ Len(t) = Len(s) + 1
         /\ Elements(t) = Elements(s) \cup {x}
         /\ \A i \in 1..Len(s) : t[i] = s[i]
<1>1. /\ t \in Seq(Connections) /\ Len(t) = Len(s) + 1 /\ t[Len(s) + 1] = x
      /\ \A i \in 1..Len(s) : t[i] = s[i]
  OBVIOUS
<1>2. Distinct(t)
  BY <1>1 DEF Distinct, Elements
<1>3. Elements(t) = Elements(s) \cup {x}
  BY <1>1 DEF Elements
<1> QED
  BY <1>1, <1>2, <1>3

-----------------------------------------------------------------------------
\* Who leaves the workers and the ready list alone leaves their types alone.
LEMMA WorkUnchanged ==
  ASSUME WorkTypes, UNCHANGED <<at, events, ready>> PROVE WorkTypes'
  BY DEF WorkTypes

LEMMA InitInv == Init => Inv
<1> SUFFICES ASSUME Init PROVE Inv
  OBVIOUS
<1> USE BusinessAssumption DEF Init
<1>1. LoopTypes /\ PassTypes
  BY DEF LoopTypes, PassTypes, Connections, None
<1>2. WorkTypes
  <2>1. <<>> \in Seq([ptr : Connections, err : BOOLEAN]) /\ <<>> \in Seq(Connections)
    OBVIOUS
  <2> QED
    BY <2>1 DEF WorkTypes
<1>3. Accounted
  BY DEF Accounted, Distinct, InReady, Elements, Connections, None
<1>4. Blame /\ Known
  BY DEF Blame, Known
<1> QED
  BY <1>1, <1>2, <1>3, <1>4 DEF Inv, TypeOK

\* What the setup and the end of the loop leave alone.
LEMMA SetupKeeps ==
  ASSUME Inv, Setup \/ SetupFails \/ RecvEnd PROVE Inv'
<1> USE BusinessAssumption DEF Inv, Setup, Connect, CreateTable, CreateEpoll, StartPool, AddTask,
      SetupFails, RecvEnd, setupVars, loopVars, workVars, pipeVars
<1>1. TypeOK'
  <2>1. LoopTypes'
    BY DEF TypeOK, LoopTypes, Known
  <2> QED
    BY <2>1, WorkUnchanged DEF TypeOK, PassTypes
<1>2. InReady' = InReady /\ Distinct(ready)' = Distinct(ready) /\ Full' = Full
  BY DEF InReady, Full, Elements
<1>3. Accounted'
  BY <1>2 DEF Accounted, TypeOK, LoopTypes, PassTypes, None
<1>4. Blame'
  BY DEF Blame, Known, TypeOK, LoopTypes, PassTypes, Accounted
<1>5. Known'
  BY DEF Known, TypeOK, LoopTypes, PassTypes
<1> QED
  BY <1>1, <1>3, <1>4, <1>5

LEMMA RecvSocketKeeps ==
  ASSUME Inv, RecvSocket PROVE Inv'
<1> USE BusinessAssumption DEF Inv, RecvSocket, setupVars, loopVars, workVars, pipeVars
<1>1. TypeOK'
  BY WorkUnchanged DEF TypeOK, LoopTypes, PassTypes, Accounted, Connections
<1>2. InReady' = InReady /\ Distinct(ready)' = Distinct(ready)
  BY DEF InReady, Elements
<1>3. Accounted'
  <2>1. CASE Full
    <3>1. open' = open /\ Full' /\ sock = None /\ sock' = sock /\ main' = "ended"
      BY <2>1 DEF Accounted, Full
    <3> QED
      BY <1>2, <2>1, <3>1 DEF Accounted, TypeOK, LoopTypes, PassTypes
  <2>2. CASE ~Full
    <3>1. lost = 0 /\ lost' = 0 /\ sock = None /\ main' = "add" /\ taken \in Nat
      BY <2>2 DEF Accounted, TypeOK, PassTypes
    <3>2. open = 1..taken /\ announced = 1..taken
      BY <3>1 DEF Accounted, None
    <3>3. open' = open \cup {taken + 1} /\ announced' = announced
      BY <2>2
    <3>4. sock' = taken + 1 /\ taken' = taken + 1 /\ UNCHANGED <<watched, ready, client>>
      BY <2>2
    <3>5. open' = 1..(taken + 1) /\ announced' = open' \ {taken + 1}
      BY <3>1, <3>2, <3>3
    <3> QED
      BY <1>2, <3>1, <3>4, <3>5 DEF Accounted
  <2> QED
    BY <2>1, <2>2
<1>4. Blame'
  BY DEF Blame, TypeOK, LoopTypes, PassTypes, Accounted, Full
<1>5. Known'
  <2>1. ~Full => taken + 1 \notin watched
    BY DEF TypeOK, LoopTypes, PassTypes, Accounted
  <2> QED
    BY <2>1 DEF Known, TypeOK, LoopTypes, PassTypes, Accounted
<1> QED
  BY <1>1, <1>3, <1>4, <1>5

LEMMA AddKeeps ==
  ASSUME Inv, Add PROVE Inv'
<1> USE BusinessAssumption DEF Inv, setupVars, workVars, pipeVars
<1>0. main = "add" /\ main' = "announce" /\ sock = taken /\ sock \in Connections /\ lost = 0
  BY DEF Add, Accounted, TypeOK, PassTypes, LoopTypes, Known, Connections
<1>1. sock \in open /\ sock \notin InReady
  BY <1>0 DEF Accounted, Known, TypeOK, PassTypes
<1>2. /\ UNCHANGED <<added, tasks, sock, open, announced, at, events, seen, received>>
      /\ UNCHANGED <<parent, passed, taken, lost, client>>
      /\ status' \in {0, -2}
  BY DEF Add
<1>3. \/ watched' = watched /\ ready' = ready
      \/ watched' = watched \cup {sock} /\ client[sock] = "quiet" /\ ready' = ready
      \/ watched' = watched \cup {sock} /\ client[sock] # "quiet" /\ ready' = Append(ready, sock)
  BY DEF Add
<1>4. ready \in Seq(Connections) /\ Distinct(ready) /\ InReady = {k \in watched : client[k] # "quiet"}
  BY DEF TypeOK, WorkTypes, Accounted
<1>5. /\ ready' \in Seq(Connections) /\ Distinct(ready)'
      /\ InReady' = {k \in watched' : client'[k] # "quiet"}
  <2>1. CASE ready' = Append(ready, sock) /\ watched' = watched \cup {sock} /\ client[sock] # "quiet"
    <3> DEFINE t == Append(ready, sock)
    <3>1. sock \notin Elements(ready)
      BY <1>1 DEF InReady
    <3>2. t \in Seq(Connections) /\ Distinct(t) /\ Elements(t) = InReady \cup {sock}
      BY <1>0, <1>4, <3>1, AppendKeeps DEF InReady
    <3> HIDE DEF t
    <3>3. ready' = t
      BY <2>1 DEF t
    <3>4. InReady' = InReady \cup {sock} /\ Distinct(ready)'
      BY <3>2, <3>3 DEF InReady, Elements, Distinct
    <3> QED
      BY <1>2, <1>4, <2>1, <3>2, <3>3, <3>4
  <2>2. CASE ready' = ready
    BY <1>2, <1>3, <1>4, <2>2 DEF InReady, Elements, Distinct
  <2> QED
    BY <1>3, <2>1, <2>2
<1>6. TypeOK'
  BY <1>0, <1>1, <1>2, <1>3, <1>5 DEF TypeOK, LoopTypes, WorkTypes, PassTypes
<1>7. Accounted'
  BY <1>0, <1>2, <1>5 DEF Accounted
<1>8. Blame' /\ Known'
  BY <1>0, <1>2, <1>3 DEF Blame, Known
<1> QED
  BY <1>6, <1>7, <1>8

\* Steps that change neither the list nor what there is to report.
LEMMA AnnounceKeeps ==
  ASSUME Inv, Announce PROVE Inv'
<1> USE BusinessAssumption DEF Inv, Announce, setupVars, workVars, pipeVars
<1>0. sock = taken /\ taken \in 1..MaxPassed /\ lost = 0 /\ taken \in open
  BY DEF Accounted, TypeOK, PassTypes, LoopTypes, Known
<1>1. TypeOK'
  <2>1. LoopTypes'
    BY <1>0 DEF TypeOK, LoopTypes
  <2> QED
    BY <2>1, WorkUnchanged DEF TypeOK, PassTypes
<1>2. InReady' = InReady /\ Distinct(ready)' = Distinct(ready) /\ Full' = Full
  BY DEF InReady, Full, Elements
<1>3. announced' = open' \ {sock'}
  BY <1>0 DEF Accounted, None
<1>4. Accounted' /\ Blame' /\ Known'
  BY <1>0, <1>2, <1>3 DEF Accounted, Blame, Known
<1> QED
  BY <1>1, <1>4

LEMMA PassKeeps ==
  ASSUME Inv, Pass \/ ParentEnds PROVE Inv'
<1> USE BusinessAssumption DEF Inv, Pass, ParentEnds, Alive, setupVars, loopVars, workVars
<1>1. TypeOK'
  <2>1. LoopTypes' /\ PassTypes'
    BY DEF TypeOK, LoopTypes, PassTypes
  <2> QED
    BY <2>1, WorkUnchanged DEF TypeOK
<1>2. InReady' = InReady /\ Distinct(ready)' = Distinct(ready) /\ Full' = Full
  BY DEF InReady, Full, Elements
<1>3. Accounted'
  BY <1>2 DEF Accounted
<1>4. Blame'
  BY <1>2 DEF Blame, TypeOK, PassTypes
<1>5. Known'
  BY DEF Known
<1> QED
  BY <1>1, <1>3, <1>4, <1>5

LEMMA TakeKeeps ==
  ASSUME Inv, NEW w \in Workers, Take(w) PROVE Inv'
<1> USE BusinessAssumption DEF Inv, Take, loopVars, pipeVars
<1>1. TypeOK'
  <2>1. LoopTypes'
    BY DEF TypeOK, LoopTypes
  <2>2. WorkTypes'
    BY DEF TypeOK, WorkTypes
  <2> QED
    BY <2>1, <2>2 DEF TypeOK, PassTypes
<1>2. InReady' = InReady /\ Distinct(ready)' = Distinct(ready) /\ Full' = Full
  BY DEF InReady, Full, Elements
<1> QED
  BY <1>1, <1>2 DEF Accounted, Blame, Known

LEMMA WaitEventsKeeps ==
  ASSUME Inv, NEW w \in Workers, WaitEvents(w) PROVE Inv'
<1> USE BusinessAssumption DEF Inv, setupVars, loopVars, pipeVars
<1> DEFINE size == IF Len(ready) < EventSize THEN Len(ready) ELSE EventSize
           list == [i \in 1..size |-> [ptr |-> ready[i], err |-> client[ready[i]] = "reset"]]
           rest == Rotate(ready, size)
<1>1. /\ events' = [events EXCEPT ![w] = list] /\ ready' = rest
      /\ at' = [at EXCEPT ![w] = "event"] /\ ready # <<>>
      /\ UNCHANGED <<main, added, tasks, sock, status, open, watched, announced, seen, received>>
      /\ UNCHANGED <<parent, passed, taken, lost, client>>
  BY DEF WaitEvents
<1>2. /\ ready \in Seq(Connections) /\ Distinct(ready) /\ Elements(ready) \subseteq watched
      /\ events \in [Workers -> Seq([ptr : Connections, err : BOOLEAN])]
  BY DEF TypeOK, WorkTypes, Accounted, InReady
<1>3. size \in 1..Len(ready)
  BY <1>1, <1>2
<1>5. list \in Seq([ptr : Connections, err : BOOLEAN]) /\ Len(list) = size /\ list # <<>>
  <2>1. \A i \in 1..size : ready[i] \in Connections
    BY <1>2, <1>3
  <2>2. list \in [1..size -> [ptr : Connections, err : BOOLEAN]]
    BY <2>1
  <2> QED
    BY <1>3, <2>2
<1>6. \A i \in 1..Len(list) : list[i].ptr = ready[i] /\ list[i].ptr \in watched
  BY <1>2, <1>3, <1>5 DEF Elements
<1> HIDE DEF list, size
<1>7. rest \in Seq(Connections) /\ Distinct(rest) /\ Elements(rest) = Elements(ready)
  BY <1>2, <1>3, RotateKeeps
<1> HIDE DEF rest
<1>8. WorkTypes'
  BY <1>1, <1>5, <1>7 DEF TypeOK, WorkTypes
<1>9. TypeOK'
  BY <1>1, <1>8 DEF TypeOK, LoopTypes, PassTypes
<1>10. InReady' = InReady /\ Distinct(ready)' /\ Full' = Full
  <2>1. InReady' = InReady
    BY <1>1, <1>7 DEF InReady, Elements
  <2>2. Distinct(ready)'
    BY <1>1, <1>7 DEF Distinct
  <2> QED
    BY <1>1, <2>1, <2>2 DEF Full
<1>11. Accounted' /\ Blame'
  BY <1>1, <1>10 DEF Accounted, Blame
<1>12. Known'
  BY <1>1, <1>2, <1>6 DEF Known
<1> QED
  BY <1>9, <1>11, <1>12

LEMMA EventKeeps ==
  ASSUME Inv, NEW w \in Workers, Event(w) PROVE Inv'
<1> USE BusinessAssumption DEF Inv, setupVars, loopVars, pipeVars
<1> DEFINE Ev == [ptr : Connections, err : BOOLEAN]
<1>1. /\ at[w] = "event" /\ events[w] # <<>> /\ events[w] \in Seq(Ev)
      /\ UNCHANGED <<main, added, tasks, sock, status, open, watched, announced, ready>>
      /\ UNCHANGED <<parent, passed, taken, lost, client>>
  BY DEF Event, TypeOK, WorkTypes
<1>2. Head(events[w]).ptr \in watched
  BY <1>1 DEF Known
<1>3. PICK list \in {<<>>, Tail(events[w])} : Rest(w, list)
  BY DEF Event
<1>4. list \in Seq(Ev) /\ \A i \in 1..Len(list) : list[i].ptr \in watched
  <2>1. CASE list = <<>>
    BY <2>1
  <2>2. CASE list = Tail(events[w])
    <3> DEFINE s == events[w]
    <3>1. s \in Seq(Ev) /\ s # <<>> /\ \A i \in 1..Len(s) : s[i].ptr \in watched
      BY <1>1 DEF Known
    <3> HIDE DEF s, Ev
    <3>2. /\ Tail(s) \in Seq(Ev) /\ Len(Tail(s)) = Len(s) - 1
          /\ \A i \in 1..Len(Tail(s)) : Tail(s)[i] = s[i + 1]
      BY <3>1
    <3>3. \A i \in 1..Len(Tail(s)) : i + 1 \in 1..Len(s)
      BY <3>1, <3>2
    <3> QED
      BY <2>2, <3>1, <3>2, <3>3 DEF s
  <2> QED
    BY <1>3, <2>1, <2>2
<1>5. seen' \subseteq watched /\ received' \subseteq seen'
  BY <1>2 DEF Event, Recv, DataSize, TypeOK
<1>6. WorkTypes'
  BY <1>1, <1>3, <1>4 DEF TypeOK, WorkTypes, Rest
<1>7. TypeOK'
  BY <1>1, <1>5, <1>6 DEF TypeOK, LoopTypes, PassTypes
<1>8. InReady' = InReady /\ Distinct(ready)' = Distinct(ready) /\ Full' = Full
  BY <1>1 DEF InReady, Elements, Full
<1>9. Accounted' /\ Blame'
  BY <1>1, <1>8 DEF Accounted, Blame
<1>10. Known'
  BY <1>1, <1>3, <1>4 DEF Known, Rest, TypeOK, WorkTypes
<1> QED
  BY <1>7, <1>9, <1>10

LEMMA ClientKeeps ==
  ASSUME Inv, NEW k \in Connections, NEW state \in {"readable", "reset"}, Client(k, state)
  PROVE  Inv'
<1> USE BusinessAssumption DEF Inv, setupVars, loopVars, workVars, pipeVars
<1>1. /\ UNCHANGED <<main, added, tasks, sock, status, open, watched, announced>>
      /\ UNCHANGED <<at, events, seen, received, parent, passed, taken, lost>>
      /\ client' = [client EXCEPT ![k] = state]
      /\ ready' = IF k \in watched /\ ~Listed(k) THEN Append(ready, k) ELSE ready
  BY DEF Client
<1>2. /\ ready \in Seq(Connections) /\ Distinct(ready)
      /\ InReady = {j \in watched : client[j] # "quiet"}
      /\ client \in [Connections -> {"quiet", "readable", "reset"}] /\ watched \subseteq Connections
  BY DEF TypeOK, WorkTypes, PassTypes, LoopTypes, Accounted
<1>3. Listed(k) <=> k \in Elements(ready)
  BY DEF Listed, Elements
<1>4. /\ ready' \in Seq(Connections) /\ Distinct(ready)'
      /\ InReady' = {j \in watched : client'[j] # "quiet"}
  <2>1. CASE k \in watched /\ ~Listed(k)
    <3> DEFINE t == Append(ready, k)
    <3>1. t \in Seq(Connections) /\ Distinct(t) /\ Elements(t) = Elements(ready) \cup {k}
      BY <1>2, <1>3, <2>1, AppendKeeps
    <3> HIDE DEF t
    <3>2. ready' = t
      BY <1>1, <2>1 DEF t
    <3>3. InReady' = InReady \cup {k} /\ Distinct(ready)'
      BY <3>1, <3>2 DEF InReady, Elements, Distinct
    <3> QED
      BY <1>1, <1>2, <2>1, <3>1, <3>2, <3>3
  <2>2. CASE ~(k \in watched /\ ~Listed(k))
    <3>1. ready' = ready /\ (k \in watched => k \in InReady)
      BY <1>1, <1>3, <2>2 DEF InReady
    <3>2. InReady' = InReady /\ Distinct(ready)'
      BY <1>2, <3>1 DEF InReady, Elements, Distinct
    <3> QED
      BY <1>1, <1>2, <3>1, <3>2
  <2> QED
    BY <2>1, <2>2
<1>5. TypeOK'
  BY <1>1, <1>2, <1>4 DEF TypeOK, LoopTypes, WorkTypes, PassTypes
<1>6. Accounted'
  BY <1>1, <1>4 DEF Accounted, Full
<1>7. Blame' /\ Known'
  BY <1>1 DEF Blame, Known, Full
<1> QED
  BY <1>5, <1>6, <1>7

LEMMA StutterKeeps ==
  ASSUME Inv, UNCHANGED vars PROVE Inv'
<1> USE DEF Inv, vars, setupVars, loopVars, workVars, pipeVars
<1>1. TypeOK'
  BY DEF TypeOK, LoopTypes, WorkTypes, PassTypes
<1>2. InReady' = InReady /\ Distinct(ready)' = Distinct(ready) /\ Full' = Full
  BY DEF InReady, Full, Elements
<1> QED
  BY <1>1, <1>2 DEF Accounted, Blame, Known

LEMMA StepInv == Inv /\ [Next]_vars => Inv'
<1> SUFFICES ASSUME Inv, [Next]_vars PROVE Inv'
  OBVIOUS
<1>1. CASE Setup \/ SetupFails \/ Loop
  BY <1>1, SetupKeeps, RecvSocketKeeps, AddKeeps, AnnounceKeeps DEF Loop
<1>2. CASE Pass \/ ParentEnds
  BY <1>2, PassKeeps
<1>3. ASSUME NEW w \in Workers, Take(w) \/ Worker(w) PROVE Inv'
  BY <1>3, TakeKeeps, WaitEventsKeeps, EventKeeps DEF Worker
<1>4. ASSUME NEW k \in Connections, Client(k, "readable") \/ Client(k, "reset") PROVE Inv'
  BY <1>4, ClientKeeps
<1>5. CASE UNCHANGED vars
  BY <1>5, StutterKeeps
<1> QED
  BY <1>1, <1>2, <1>3, <1>4, <1>5 DEF Next

LEMMA InvTheorem == Spec => []Inv
  BY InitInv, StepInv, PTL DEF Spec

\* Every value of the state is one the program can have.
THEOREM BusinessTypesTheorem == Spec => []TypeOK
<1>1. Inv => TypeOK
  BY DEF Inv
<1> QED
  BY <1>1, InvTheorem, PTL

\* The account of the connections that have been passed, for any number of
\* connections, workers and descriptors.
THEOREM AccountTheorem == Spec => []Accounted
<1>1. Inv => Accounted
  BY DEF Inv
<1> QED
  BY <1>1, InvTheorem, PTL

\* The three causes of the end of the process, and the one of the acceptor's.
THEOREM BusinessBlameTheorem == Spec => []Blame
<1>1. Inv => Blame
  BY DEF Inv
<1> QED
  BY <1>1, InvTheorem, PTL

-----------------------------------------------------------------------------
(* Who is hidden stays hidden.                                             *)

\* A list that grows at its end, or not at all, keeps who is ahead of whom.
LEMMA AheadStays ==
  ASSUME ready \in Seq(Connections), NEW r \in Connections, NEW k \in Connections, Ahead(r, k),
         \/ ready' = ready
         \/ \E x \in Connections : ready' = Append(ready, x)
  PROVE  Ahead(r, k)'
<1>1. PICK i \in 1..Len(ready), j \in 1..Len(ready) : i < j /\ ready[i] = r /\ ready[j] = k
  BY DEF Ahead
<1>2. Len(ready') >= Len(ready) /\ ready'[i] = r /\ ready'[j] = k
  BY <1>1
<1>3. i \in 1..Len(ready') /\ j \in 1..Len(ready')
  BY <1>1, <1>2
<1> QED
  BY <1>1, <1>2, <1>3 DEF Ahead

LEMMA HiddenStep ==
  ASSUME Inv, [Next]_vars, NEW k \in Connections, Hidden(k), Len(ready') <= EventSize
  PROVE  Hidden(k)'
<1> USE BusinessAssumption
<1>1. /\ ready \in Seq(Connections) /\ Distinct(ready) /\ Len(ready) <= EventSize /\ ready # <<>>
      /\ events \in [Workers -> Seq([ptr : Connections, err : BOOLEAN])]
      /\ client \in [Connections -> {"quiet", "readable", "reset"}]
  <2>1. ready \in Seq(Connections) /\ Distinct(ready) /\ Len(ready) <= EventSize
    BY DEF Inv, TypeOK, WorkTypes, Accounted, Hidden
  <2>2. \E i, j \in 1..Len(ready) : i < j
    BY DEF Hidden, Ahead
  <2>3. ready # <<>>
    BY <2>1, <2>2
  <2> QED
    BY <2>1, <2>3 DEF Inv, TypeOK, WorkTypes, PassTypes
<1>2. PICK r \in Connections : client[r] = "reset" /\ Ahead(r, k)
  BY DEF Hidden
<1>3. k \notin seen /\ NotInHand(k)
  BY DEF Hidden
\* Steps of everybody but the workers.
<1>4. ASSUME UNCHANGED <<events, seen>>, client'[r] = "reset",
             ready' = ready \/ \E x \in Connections : ready' = Append(ready, x)
      PROVE  Hidden(k)'
  <2>1. Ahead(r, k)'
    BY <1>1, <1>2, <1>4, AheadStays
  <2>2. NotInHand(k)'
    BY <1>3, <1>4 DEF NotInHand
  <2> QED
    BY <1>3, <1>4, <2>1, <2>2 DEF Hidden
<1>5. CASE Setup \/ SetupFails \/ Loop \/ Pass \/ ParentEnds \/ UNCHANGED vars
  <2>1. UNCHANGED <<events, seen, client>>
    BY <1>5 DEF Setup, Connect, CreateTable, CreateEpoll, StartPool, AddTask, SetupFails, Loop,
      RecvSocket, RecvEnd, Add, Announce, Pass, ParentEnds, vars, setupVars, loopVars, workVars, pipeVars
  <2>2. ready' = ready \/ (Add /\ ready' = Append(ready, sock))
    BY <1>5 DEF Setup, Connect, CreateTable, CreateEpoll, StartPool, AddTask, SetupFails, Loop,
      RecvSocket, RecvEnd, Add, Announce, Pass, ParentEnds, vars, setupVars, loopVars, workVars, pipeVars
  <2>3. Add => sock \in Connections
    BY DEF Add, Inv, Accounted, TypeOK, LoopTypes, PassTypes, Known, Connections
  <2> QED
    BY <1>2, <1>4, <2>1, <2>2, <2>3
<1>6. ASSUME NEW c \in Connections, NEW state \in {"readable", "reset"}, Client(c, state)
      PROVE  Hidden(k)'
  <2>1. UNCHANGED <<events, seen>> /\ client'[r] = "reset"
    BY <1>1, <1>2, <1>6 DEF Client, workVars
  <2>2. ready' = ready \/ ready' = Append(ready, c)
    BY <1>6 DEF Client
  <2> QED
    BY <1>4, <2>1, <2>2
<1>7. ASSUME NEW w \in Workers, Take(w) PROVE Hidden(k)'
  BY <1>2, <1>4, <1>7 DEF Take
<1>8. ASSUME NEW w \in Workers, WaitEvents(w) PROVE Hidden(k)'
  <2> DEFINE list == [i \in 1..Len(ready) |-> [ptr |-> ready[i], err |-> client[ready[i]] = "reset"]]
  <2> DEFINE size == IF Len(ready) < EventSize THEN Len(ready) ELSE EventSize
  <2>0. size = Len(ready)
    BY <1>1
  <2>1. ready' = ready
    <3>1. ready' = Rotate(ready, Len(ready))
      BY <1>8, <2>0 DEF WaitEvents
    <3>2. SubSeq(ready, Len(ready) + 1, Len(ready)) = <<>> /\ SubSeq(ready, 1, Len(ready)) = ready
      BY <1>1
    <3>3. <<>> \o ready = ready
      BY <1>1
    <3> QED
      BY <3>1, <3>2, <3>3 DEF Rotate
  <2>2. events' = [events EXCEPT ![w] = list] /\ UNCHANGED <<seen, client>>
    BY <1>8, <2>0 DEF WaitEvents, pipeVars
  <2>3. PICK i \in 1..Len(ready), j \in 1..Len(ready) : i < j /\ ready[i] = r /\ ready[j] = k
    BY <1>2 DEF Ahead
  <2>4. ASSUME NEW n \in 1..Len(list), list[n].ptr = k PROVE \E m \in 1..n : list[m].err
    <3>1. Len(list) = Len(ready)
      BY <1>1
    <3>2. n = j
      BY <1>1, <2>3, <2>4, <3>1 DEF Distinct
    <3>3. i \in 1..n
      BY <2>3, <3>2
    <3>4. list[i].err = (client[r] = "reset")
      BY <2>3
    <3>5. list[i].err
      BY <1>2, <3>4, Zenon
    <3> QED
      BY <3>3, <3>5
  <2> HIDE DEF list
  <2>5. NotInHand(k)'
    BY <1>1, <1>3, <2>2, <2>4 DEF NotInHand
  <2>6. Ahead(r, k)'
    BY <1>2, <2>1 DEF Ahead
  <2> QED
    BY <1>1, <1>2, <1>3, <2>1, <2>2, <2>5, <2>6 DEF Hidden
<1>9. ASSUME NEW w \in Workers, Event(w) PROVE Hidden(k)'
  <2> DEFINE s == events[w]
  <2>1. s \in Seq([ptr : Connections, err : BOOLEAN]) /\ s # <<>>
    BY <1>1, <1>9 DEF Event, Inv, TypeOK, WorkTypes
  <2>2. UNCHANGED <<ready, client>>
    BY <1>9 DEF Event
  <2>3. Ahead(r, k)'
    BY <1>2, <2>2 DEF Ahead
  <2>4. \A i \in 1..Len(s) : s[i].ptr = k => \E j \in 1..i : s[j].err
    BY <1>3 DEF NotInHand
  <2>5. k \notin seen' /\ NotInHand(k)'
    <3>1. CASE Head(s).err
      <4>1. seen' = seen /\ events' = [events EXCEPT ![w] = <<>>]
        BY <1>9, <3>1 DEF Event, Rest
      <4> QED
        BY <1>1, <1>3, <4>1 DEF NotInHand
    <3>2. CASE ~Head(s).err
      <4>1. seen' = seen \cup {Head(s).ptr} /\ events' = [events EXCEPT ![w] = Tail(s)]
        BY <1>9, <3>2 DEF Event, Rest
      <4> HIDE DEF s
      <4>2. Head(s) = s[1] /\ 1 \in 1..Len(s)
        BY <2>1
      <4>3. Head(s).ptr # k
        BY <2>4, <3>2, <4>2
      <4>4. ASSUME NEW n \in 1..Len(Tail(s)), Tail(s)[n].ptr = k
            PROVE  \E m \in 1..n : Tail(s)[m].err
        <5>1. n + 1 \in 1..Len(s) /\ s[n + 1].ptr = k
          BY <2>1, <4>4
        <5>2. PICK j \in 1..(n + 1) : s[j].err
          BY <2>4, <5>1
        <5>3. j # 1
          BY <3>2, <4>2, <5>2
        <5>4. j - 1 \in 1..n /\ Tail(s)[j - 1] = s[j]
          BY <2>1, <4>4, <5>1, <5>2, <5>3
        <5> QED
          BY <5>2, <5>4
      <4>5. NotInHand(k)'
        BY <1>1, <1>3, <4>1, <4>4 DEF NotInHand
      <4> QED
        BY <1>3, <4>1, <4>3, <4>5
    <3> QED
      BY <3>1, <3>2
  <2> QED
    BY <1>1, <1>2, <2>2, <2>3, <2>5 DEF Hidden
<1> QED
  BY <1>5, <1>6, <1>7, <1>8, <1>9 DEF Next, Worker

\* A connection behind one that has been reset is never looked at, as long as
\* one WaitEvents can report all that is ready, for any number of workers.
THEOREM HiddenTheorem == Spec => HiddenStays
<1>1. Inv /\ [Next]_vars =>
        [\A k \in Connections : Hidden(k) /\ Len(ready') <= EventSize => Hidden(k)']_vars
  BY HiddenStep
<1> QED
  BY <1>1, InvTheorem, PTL DEF Spec, HiddenStays
-----------------------------------------------------------------------------
(* The ready list is a queue.                                              *)

\* A round that takes n events from the head brings the others n places forward.
LEMMA RoundBrings ==
  ASSUME Inv, NEW w \in Workers, WaitEvents(w), NEW i \in 1..Len(ready)
  PROVE  \/ i > EventSize /\ ready'[i - EventSize] = ready[i]
         \/ \E e \in 1..Len(events'[w]) : events'[w][e].ptr = ready[i]
<1> USE BusinessAssumption
<1> DEFINE size == IF Len(ready) < EventSize THEN Len(ready) ELSE EventSize
           list == [n \in 1..size |-> [ptr |-> ready[n], err |-> client[ready[n]] = "reset"]]
<1>1. /\ events' = [events EXCEPT ![w] = list]
      /\ ready' = Rotate(ready, size) /\ ready # <<>>
  BY DEF WaitEvents
<1>2. /\ ready \in Seq(Connections)
      /\ events \in [Workers -> Seq([ptr : Connections, err : BOOLEAN])]
  BY DEF Inv, TypeOK, WorkTypes
<1>3. size \in 1..Len(ready)
  BY <1>1, <1>2
<1>4. events'[w] = list
  BY <1>1, <1>2
<1>5. CASE i <= size
  <2>1. Len(list) = size /\ list[i].ptr = ready[i]
    BY <1>3, <1>5
  <2> QED
    BY <1>3, <1>4, <1>5, <2>1
<1>6. CASE i > size
  <2>1. size = EventSize
    BY <1>3, <1>6
  <2> HIDE DEF size
  <2>2. \A n \in 1..Len(ready) : n <= Len(ready) - size => ready'[n] = ready[size + n]
    BY <1>1, <1>2, <1>3, RotateShifts
  <2>3. i - size \in 1..Len(ready) /\ i - size <= Len(ready) - size /\ size + (i - size) = i
    BY <1>2, <1>3, <1>6
  <2>4. ready'[i - size] = ready[i]
    BY <2>2, <2>3
  <2> QED
    BY <1>6, <2>1, <2>4
<1> QED
  BY <1>3, <1>5, <1>6

\* Every other step leaves the list alone or puts a connection behind all.
LEMMA OthersQueueBehind ==
  ASSUME Inv, [Next]_vars, \A w \in Workers : ~WaitEvents(w)
  PROVE  ready' = ready \/ \E k \in Connections : ready' = Append(ready, k)
<1>1. CASE UNCHANGED vars \/ Setup \/ SetupFails \/ Pass \/ ParentEnds
  BY <1>1 DEF vars, Setup, Connect, CreateTable, CreateEpoll, StartPool, AddTask, SetupFails,
     Pass, ParentEnds
<1>2. CASE Loop
  <2>1. CASE Add
    <3>1. sock \in Connections
      BY <2>1, BusinessAssumption
      DEF Add, Inv, TypeOK, LoopTypes, PassTypes, Accounted, Known, Connections, None
    <3> QED
      BY <2>1, <3>1 DEF Add
  <2> QED
    BY <1>2, <2>1 DEF Loop, RecvSocket, RecvEnd, Announce
<1>3. ASSUME NEW w \in Workers, Take(w) \/ Event(w)
      PROVE  ready' = ready
  BY <1>3 DEF Take, Event
<1>4. ASSUME NEW k \in Connections, Client(k, "readable") \/ Client(k, "reset")
      PROVE  ready' = ready \/ ready' = Append(ready, k)
  BY <1>4 DEF Client
<1> QED
  BY <1>1, <1>2, <1>3, <1>4 DEF Next, Worker

\* A connection in the ready list keeps its place until some worker calls
\* epoll_wait; then it is in that worker's list, or EventSize places further on.
TurnComes ==
  [][\A i \in 1..Len(ready) :
       \/ /\ \A w \in Workers : ~WaitEvents(w)
          /\ i <= Len(ready') /\ ready'[i] = ready[i]
       \/ i > EventSize /\ ready'[i - EventSize] = ready[i]
       \/ \E w \in Workers : WaitEvents(w) /\ \E e \in 1..Len(events'[w]) :
                                              events'[w][e].ptr = ready[i]]_vars

(***************************************************************************)
(* The safety core of LookedAt, for any number of workers and connections: *)
(* nobody overtakes.  The connection at place i is reported to a worker by *)
(* the i-th epoll_wait from now at the latest (CEpoll.cpp, called from     *)
(* HPlayServer.cpp:75), however often those before and behind it are       *)
(* reported again, and whoever joins the list joins it at its end.         *)
(***************************************************************************)
THEOREM TurnTheorem == Spec => TurnComes
<1> DEFINE Turn ==
      \A i \in 1..Len(ready) :
       \/ /\ \A w \in Workers : ~WaitEvents(w)
          /\ i <= Len(ready') /\ ready'[i] = ready[i]
       \/ i > EventSize /\ ready'[i - EventSize] = ready[i]
       \/ \E w \in Workers : WaitEvents(w) /\ \E e \in 1..Len(events'[w]) :
                                              events'[w][e].ptr = ready[i]
<1>1. Inv /\ [Next]_vars => Turn
  <2> SUFFICES ASSUME Inv, [Next]_vars PROVE Turn
    OBVIOUS
  <2>1. ASSUME NEW w \in Workers, WaitEvents(w) PROVE Turn
    BY <2>1, RoundBrings
  <2>2. CASE \A w \in Workers : ~WaitEvents(w)
    <3>1. ready' = ready \/ \E k \in Connections : ready' = Append(ready, k)
      BY <2>2, OthersQueueBehind
    <3>2. ready \in Seq(Connections)
      BY DEF Inv, TypeOK, WorkTypes
    <3>3. \A i \in 1..Len(ready) : i <= Len(ready') /\ ready'[i] = ready[i]
      BY <3>1, <3>2
    <3> QED
      BY <2>2, <3>3
  <2> QED
    BY <2>1, <2>2
<1>2. Inv /\ [Next]_vars => [Turn]_vars
  BY <1>1
<1> QED
  BY <1>2, InvTheorem, PTL DEF Spec, TurnComes
=============================================================================
