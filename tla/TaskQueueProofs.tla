-------------------------- MODULE TaskQueueProofs --------------------------
(* What TaskQueue guarantees, proved for any set of threads and tasks.     *)
EXTENDS TaskQueue, SequenceTheorems, TLAPS

QInv == QTypeOK /\ PointersLive

LEMMA QInitInv == Init => QInv
  BY DEF Init, QInv, QTypeOK, PointersLive, Statuses

LEMMA PutKeeps ==
  ASSUME QInv, NEW a \in Adders, NEW t \in Tasks, Put(a, t)
  PROVE  QInv'
<1> USE DEF QInv, QTypeOK, Statuses
<1> DEFINE n == Len(queue[a]) + 1
<1>1. /\ queue'[a] \in Seq(Tasks) /\ Len(queue'[a]) = n
      /\ \A i \in 1..Len(queue[a]) : queue'[a][i] = queue[a][i]
      /\ queue'[a][n] = t
  BY AppendProperties DEF Put
<1>2. QTypeOK'
  BY <1>1 DEF Put
<1>3. \A b \in Adders : b # a => queue'[b] = queue[b]
  BY DEF Put
<1>4. \A b \in Adders : \A i \in 1..Len(queue'[b]) :
         \/ i \in 1..Len(queue[b]) /\ queue'[b][i] = queue[b][i]
         \/ b = a /\ i = n /\ queue'[b][i] = t
  BY <1>1, <1>3
<1>5. \A b \in Adders : \A i \in 1..Len(queue[b]) : queue[b][i] # t
  BY DEF Put, PointersLive
<1>6. \A b \in Adders : \A i \in 1..Len(queue'[b]) : status'[queue'[b][i]] = "sent"
  BY <1>4, <1>5 DEF Put, PointersLive
<1>7. ASSUME NEW b \in Adders, NEW c \in Adders,
             NEW i \in 1..Len(queue'[b]), NEW j \in 1..Len(queue'[c]),
             queue'[b][i] = queue'[c][j]
      PROVE  b = c /\ i = j
  <2>1. CASE i \in 1..Len(queue[b]) /\ queue'[b][i] = queue[b][i]
    BY <2>1, <1>4, <1>5, <1>7 DEF PointersLive
  <2>2. CASE b = a /\ i = n /\ queue'[b][i] = t
    BY <2>2, <1>4, <1>5, <1>7
  <2> QED
    BY <1>4, <2>1, <2>2
<1> QED
  BY <1>2, <1>6, <1>7 DEF PointersLive

LEMMA TakeKeeps ==
  ASSUME QInv, NEW a \in Adders, Take(a)
  PROVE  QInv'
<1> USE DEF QInv, QTypeOK, Statuses
<1>1. /\ queue[a] \in Seq(Tasks) /\ queue[a] # <<>>
      /\ Head(queue[a]) = queue[a][1] /\ Head(queue[a]) \in Tasks
      /\ 1 \in 1..Len(queue[a])
      /\ queue'[a] \in Seq(Tasks) /\ Len(queue'[a]) = Len(queue[a]) - 1
      /\ \A i \in 1..Len(queue'[a]) : queue'[a][i] = queue[a][i + 1]
  BY HeadTailProperties DEF Take
<1>2. QTypeOK'
  BY <1>1 DEF Take
<1>3. \A b \in Adders : b # a => queue'[b] = queue[b]
  BY DEF Take
<1> DEFINE old(b, i) == IF b = a THEN i + 1 ELSE i
<1>4. \A b \in Adders : \A i \in 1..Len(queue'[b]) :
         old(b, i) \in 1..Len(queue[b]) /\ queue'[b][i] = queue[b][old(b, i)]
  BY <1>1, <1>3
<1>5. \A b \in Adders : \A i \in 1..Len(queue'[b]) : queue'[b][i] # Head(queue[a])
  BY <1>1, <1>4 DEF PointersLive
<1>6. \A b \in Adders : \A i \in 1..Len(queue'[b]) : status'[queue'[b][i]] = "sent"
  BY <1>4, <1>5 DEF Take, PointersLive
<1>7. ASSUME NEW b \in Adders, NEW c \in Adders,
             NEW i \in 1..Len(queue'[b]), NEW j \in 1..Len(queue'[c]),
             queue'[b][i] = queue'[c][j]
      PROVE  b = c /\ i = j
  <2>1. /\ old(b, i) \in 1..Len(queue[b]) /\ old(c, j) \in 1..Len(queue[c])
        /\ queue[b][old(b, i)] = queue[c][old(c, j)]
    BY <1>4, <1>7
  <2> HIDE DEF old
  <2>2. b = c /\ old(b, i) = old(c, j)
    BY <2>1 DEF PointersLive
  <2> USE DEF old
  <2> QED
    BY <2>2
<1> HIDE DEF old
<1> QED
  BY <1>2, <1>6, <1>7 DEF PointersLive

LEMMA FinishKeeps ==
  ASSUME QInv, NEW t \in Tasks, Finish(t)
  PROVE  QInv'
  BY DEF QInv, QTypeOK, PointersLive, Finish, Statuses

LEMMA QStepInv == QInv /\ [Next]_qvars => QInv'
<1> SUFFICES ASSUME QInv, [Next]_qvars PROVE QInv'
  OBVIOUS
<1>1. CASE UNCHANGED qvars
  BY <1>1 DEF qvars, QInv, QTypeOK, PointersLive
<1> QED
  BY <1>1, PutKeeps, TakeKeeps, FinishKeeps DEF Next

(***************************************************************************)
(* Every pointer on its way to a worker points to a task that has not been *)
(* called or deleted, and is on its way once only.                         *)
(***************************************************************************)
THEOREM PointersLiveTheorem == Spec => [](QTypeOK /\ PointersLive)
<1>1. QInv => QTypeOK /\ PointersLive
  BY DEF QInv
<1> QED
  BY <1>1, QInitInv, QStepInv, PTL DEF Spec

\* The steps of the queue move a status forward by one, or leave it.
LEMMA ForwardStep ==
  ASSUME QInv, [Next]_qvars, NEW u \in Tasks
  PROVE  Rank(status'[u]) \in {Rank(status[u]), Rank(status[u]) + 1}
<1> USE DEF QInv, QTypeOK, Statuses, Rank
<1>1. CASE UNCHANGED qvars
  BY <1>1 DEF qvars
<1>2. ASSUME NEW a \in Adders, NEW t \in Tasks, Put(a, t)
      PROVE  Rank(status'[u]) \in {Rank(status[u]), Rank(status[u]) + 1}
  BY <1>2 DEF Put
<1>3. ASSUME NEW a \in Adders, Take(a)
      PROVE  Rank(status'[u]) \in {Rank(status[u]), Rank(status[u]) + 1}
  <2>1. 1 \in 1..Len(queue[a]) /\ Head(queue[a]) = queue[a][1]
    BY <1>3, HeadTailProperties DEF Take
  <2>2. status[Head(queue[a])] = "sent"
    BY <2>1 DEF PointersLive
  <2> QED
    BY <1>3, <2>2 DEF Take
<1>4. ASSUME NEW t \in Tasks, Finish(t)
      PROVE  Rank(status'[u]) \in {Rank(status[u]), Rank(status[u]) + 1}
  BY <1>4 DEF Finish
<1> QED
  BY <1>1, <1>2, <1>3, <1>4 DEF Next

(***************************************************************************)
(* A task is created, called and deleted once, in this order.              *)
(***************************************************************************)
THEOREM ForwardTheorem == Spec => OneStepForward
<1>1. QInv /\ [Next]_qvars =>
        [\A t \in Tasks : Rank(status'[t]) \in {Rank(status[t]), Rank(status[t]) + 1}]_qvars
  BY ForwardStep
<1> QED
  BY <1>1, QInitInv, QStepInv, PTL DEF Spec, OneStepForward
=============================================================================
