----------------------------- MODULE TaskQueue -----------------------------
(***************************************************************************)
(* What CThreadPool promises the threads that call AddTask: a task is      *)
(* queued behind the earlier tasks of the same thread, some worker takes   *)
(* it from the front, runs it, and deletes it; nothing happens to a task   *)
(* twice.  Neither sockets nor worker threads appear here; module          *)
(* ThreadPool implements this one.                                         *)
(***************************************************************************)
EXTENDS Naturals, Sequences

CONSTANTS
  Adders,   \* the threads that call AddTask
  Tasks     \* the CFunction objects they create

VARIABLES
  queue,    \* queue[a]: tasks of a that nobody has taken yet, oldest first
  status    \* status[t]: how far task t has come

qvars == <<queue, status>>

Statuses == {"none", "sent", "running", "deleted"}

Init ==
  /\ queue = [a \in Adders |-> <<>>]
  /\ status = [t \in Tasks |-> "none"]

\* Thread a hands over a new task.
Put(a, t) ==
  /\ status[t] = "none"
  /\ queue' = [queue EXCEPT ![a] = Append(@, t)]
  /\ status' = [status EXCEPT ![t] = "sent"]

\* A worker takes the oldest task of a and calls it.
Take(a) ==
  /\ queue[a] # <<>>
  /\ queue' = [queue EXCEPT ![a] = Tail(@)]
  /\ status' = [status EXCEPT ![Head(queue[a])] = "running"]

\* The call returns and the worker deletes the task.
Finish(t) ==
  /\ status[t] = "running"
  /\ status' = [status EXCEPT ![t] = "deleted"]
  /\ UNCHANGED queue

Next ==
  \/ \E a \in Adders, t \in Tasks : Put(a, t)
  \/ \E a \in Adders : Take(a)
  \/ \E t \in Tasks : Finish(t)

Spec == Init /\ [][Next]_qvars

-----------------------------------------------------------------------------
QTypeOK ==
  /\ queue \in [Adders -> Seq(Tasks)]
  /\ status \in [Tasks -> Statuses]

(***************************************************************************)
(* A pointer that travels through a queue points to a task that has been   *)
(* created, not called and not deleted; and no pointer is in the queues    *)
(* twice.  Without it the worker that reads the pointer would call freed   *)
(* memory or run a task a second time.                                     *)
(***************************************************************************)
PointersLive ==
  /\ \A a \in Adders : \A i \in 1..Len(queue[a]) : status[queue[a][i]] = "sent"
  /\ \A a, b \in Adders : \A i \in 1..Len(queue[a]), j \in 1..Len(queue[b]) :
        queue[a][i] = queue[b][j] => a = b /\ i = j

(***************************************************************************)
(* A task goes none -> sent -> running -> deleted and never back: it is    *)
(* created once, called once and deleted once.                             *)
(***************************************************************************)
Rank(s) == CASE s = "none" -> 0 [] s = "sent" -> 1
             [] s = "running" -> 2 [] s = "deleted" -> 3

OneStepForward ==
  [][\A t \in Tasks : Rank(status'[t]) \in {Rank(status[t]), Rank(status[t]) + 1}]_qvars
=============================================================================
