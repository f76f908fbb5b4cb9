------------------------------ MODULE LogFile ------------------------------
(***************************************************************************)
(* What CLoggerServer promises the threads that call Trace: the records of *)
(* a thread reach the file in the order they were traced, all that have    *)
(* been traced at a time; its connection is given up with records still in *)
(* it only when the server is giving up altogether, or before the file has *)
(* any record of that thread; and nothing of it is written afterwards.     *)
(* Neither descriptors nor the epoll set appear here; module LogServer     *)
(* implements this one.                                                    *)
(***************************************************************************)
EXTENDS Naturals, Sequences

CONSTANTS
  Threads,    \* threads that call Trace
  MayRefuse   \* whether a connection may be refused at its beginning

VARIABLES
  pending,    \* pending[a]: records a has traced that are not in the file
  file,       \* file[a]: the records of a in the file
  over,       \* threads whose connection has been given up
  broken      \* the server has begun to give up

lvars == <<pending, file, over, broken>>

Init ==
  /\ pending = [a \in Threads |-> <<>>]
  /\ file = [a \in Threads |-> <<>>]
  /\ over = {}
  /\ broken = FALSE

\* Thread a traces its next record.
Trace(a) ==
  /\ a \notin over
  /\ pending' = [pending EXCEPT ![a] = Append(@, Len(file[a]) + Len(@) + 1)]
  /\ UNCHANGED <<file, over, broken>>

\* Everything a has traced is appended to the file.
WriteLog(a) ==
  /\ a \notin over /\ pending[a] # <<>>
  /\ file' = [file EXCEPT ![a] = @ \o pending[a]]
  /\ pending' = [pending EXCEPT ![a] = <<>>]
  /\ UNCHANGED <<over, broken>>

\* The connections of A are given up, or the server begins to give up.
GiveUp(A) ==
  /\ A \cap over = {}
  /\ broken' \in {broken, TRUE}
  /\ \A a \in A : \/ pending[a] = <<>>
                  \/ broken'
                  \/ MayRefuse /\ file[a] = <<>>
  /\ over' = over \cup A
  /\ UNCHANGED <<pending, file>>

Next ==
  \/ \E a \in Threads : Trace(a) \/ WriteLog(a)
  \/ \E A \in SUBSET Threads : GiveUp(A)

Spec == Init /\ [][Next]_lvars
=============================================================================
