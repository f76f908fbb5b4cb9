------------------------------- MODULE Thread -------------------------------
(***************************************************************************)
(* CThread: Start, Stop and Pause, called by the main thread of a process, *)
(* against ThreadEntry, run by the threads they start.  Nothing locks      *)
(* m_thread or the static m_mapThread.  An object is started once, as      *)
(* CThreadPool and CLoggerServer do.                                       *)
(*                                                                         *)
(* A pthread_t is named by its object; it is dead once its thread has      *)
(* ended and is detached, and to use it then is undefined.  Time counts    *)
(* tenths of a second since 1970.  m_mapThread is kept only as what its    *)
(* users can corrupt: the one reader that acts on its contents is the      *)
(* SIGUSR1 handler, and Pause never gets as far as sending SIGUSR1.        *)
(***************************************************************************)
EXTENDS Naturals

CONSTANTS
  Objects,   \* CThread objects of the process
  Hazards,   \* which of the ThreadHazards a run lets happen
  MaxNow,    \* bound: the clock stops here
  None       \* no object

ThreadHazards == {"return",      \* a thread function returns by itself
                  "poll",        \* it returns when isVaild() is false
                  "createfail",  \* pthread_create fails
                  "pause"}       \* Pause is called

ASSUME ThreadAssumption ==
  /\ Hazards \subseteq ThreadHazards
  /\ MaxNow \in Nat /\ None \notin Objects

VARIABLES
  m_thread,       \* m_thread[o] # 0
  call, obj,      \* place of the main thread, its this
  temp,           \* temp_thread # 0
  pc,             \* pc[o]: place of o's thread in ThreadEntry
  detached,       \* detached[o]: o's thread is not joinable any more
  usr2,           \* usr2[o]: SIGUSR2 has been sent to o's thread
  handler,        \* the handlers are installed in the process
  now, stopAt,    \* the clock; stopAt[o]: when Stop of o began
  fault           \* undefined behaviour, or a signal killed the process

callVars == <<call, obj, temp>>
threadVars == <<pc, detached, usr2, handler>>
timeVars == <<now, stopAt>>
vars == <<m_thread, call, obj, temp, pc, detached, usr2, handler, now, stopAt, fault>>

Init ==
  /\ m_thread = [o \in Objects |-> FALSE]
  /\ call = "idle" /\ obj = None /\ temp = FALSE
  /\ pc = [o \in Objects |-> "none"]
  /\ detached = [o \in Objects |-> FALSE]
  /\ usr2 = [o \in Objects |-> FALSE]
  /\ handler = FALSE
  /\ now = 2 /\ stopAt = [o \in Objects |-> 0]
  /\ fault = "none"

\* The kernel and the C library know nothing of the pthread_t any more.
Dead(o) == pc[o] = "failed" \/ (pc[o] = "ended" /\ detached[o])

-----------------------------------------------------------------------------
(* The main thread.                                                        *)

\* Start: pthread_create stores the id before the thread runs.
Create(o) ==
  /\ call = "idle" /\ pc[o] = "none"
  /\ m_thread' = [m_thread EXCEPT ![o] = TRUE]
  /\ pc' = [pc EXCEPT ![o] = "born"]
  /\ call' = "insert" /\ obj' = o
  /\ UNCHANGED <<temp, detached, usr2, handler, timeVars, fault>>

\* It fails; the id may have been stored, but names no thread.
CreateFails(o) ==
  /\ "createfail" \in Hazards
  /\ call = "idle" /\ pc[o] = "none"
  /\ \E stored \in BOOLEAN : m_thread' = [m_thread EXCEPT ![o] = stored]
  /\ pc' = [pc EXCEPT ![o] = "failed"]
  /\ UNCHANGED <<callVars, detached, usr2, handler, timeVars, fault>>

\* m_mapThread[m_thread] = this inserts a node, perhaps while a thread searches.
Insert ==
  /\ call = "insert" /\ call' = "inserting"
  /\ fault' = IF \E o \in Objects : pc[o] = "unmapping" THEN "map_race" ELSE fault
  /\ UNCHANGED <<m_thread, obj, temp, threadVars, timeVars>>

Started ==
  /\ call = "inserting" /\ call' = "idle" /\ obj' = None
  /\ UNCHANGED <<m_thread, temp, threadVars, timeVars, fault>>

\* Pause returns -1 at once for every object with a thread; for the others it
\* calls pthread_kill(0).
Pause(o) ==
  /\ "pause" \in Hazards
  /\ call = "idle" /\ ~m_thread[o]
  /\ fault' = "null_id"
  /\ UNCHANGED <<m_thread, callVars, threadVars, timeVars>>

\* Stop: m_thread is tested ...
StopTest(o) ==
  /\ call = "idle" /\ m_thread[o]
  /\ call' = "take" /\ obj' = o
  /\ stopAt' = [stopAt EXCEPT ![o] = now]
  /\ UNCHANGED <<m_thread, temp, threadVars, now, fault>>

\* slip: m_thread keeps its value.
StopTakeKeeps ==
  /\ call = "take" /\ call' = "join"
  /\ temp' = m_thread[obj]
  /\ UNCHANGED <<m_thread, obj, threadVars, timeVars, fault>>

\* ... read again, and set to zero.
StopTake ==
  /\ call = "take" /\ call' = "join"
  /\ temp' = m_thread[obj]
  /\ m_thread' = [m_thread EXCEPT ![obj] = FALSE]
  /\ UNCHANGED <<obj, threadVars, timeVars, fault>>

\* The deadline of pthread_timedjoin_np: an absolute time, 0.1 s after 1970.
Deadline == 1

\* slip: a join that timed out counts as done.
StopJoinForgets ==
  /\ call = "join" /\ temp /\ ~Dead(obj)
  /\ detached[obj] \/ now >= Deadline
  /\ call' = "idle" /\ obj' = None
  /\ UNCHANGED <<m_thread, temp, threadVars, timeVars, fault>>

\* EINVAL for a thread that has detached itself; ETIMEDOUT at the deadline.
StopJoin ==
  /\ call = "join" /\ temp /\ ~Dead(obj)
  /\ \/ detached[obj] /\ call' = "idle" /\ obj' = None
     \/ ~detached[obj] /\ now >= Deadline /\ call' = "detach" /\ UNCHANGED obj
  /\ UNCHANGED <<m_thread, temp, threadVars, timeVars, fault>>

StopDetach ==
  /\ call = "detach" /\ ~Dead(obj)
  /\ detached' = [detached EXCEPT ![obj] = TRUE]
  /\ call' = "kill"
  /\ UNCHANGED <<m_thread, obj, temp, pc, usr2, handler, timeVars, fault>>

StopKill ==
  /\ call = "kill" /\ ~Dead(obj)
  /\ usr2' = [usr2 EXCEPT ![obj] = TRUE]
  /\ call' = "idle" /\ obj' = None
  /\ UNCHANGED <<m_thread, temp, pc, detached, handler, timeVars, fault>>

\* Stop uses an id that is zero or dead by now.
StopDead ==
  /\ \/ call = "join" /\ (~temp \/ Dead(obj))
     \/ call \in {"detach", "kill"} /\ Dead(obj)
  /\ fault' = "dead_id"
  /\ UNCHANGED <<m_thread, callVars, threadVars, timeVars>>

-----------------------------------------------------------------------------
(* ThreadEntry, run by the thread of o.                                    *)

Step(o, from, to) == pc[o] = from /\ pc' = [pc EXCEPT ![o] = to]

\* sigaction for both signals, then EnterThread.
Enter(o) ==
  /\ Step(o, "born", "run") /\ handler' = TRUE
  /\ UNCHANGED <<m_thread, callVars, detached, usr2, timeVars, fault>>

Return(o) ==
  /\ "return" \in Hazards \/ ("poll" \in Hazards /\ ~m_thread[o])
  /\ Step(o, "run", "clear")
  /\ UNCHANGED <<m_thread, callVars, detached, usr2, handler, timeVars, fault>>

\* slip: m_thread is left as it is.
ClearForgotten(o) ==
  /\ Step(o, "clear", "unmap")
  /\ UNCHANGED <<m_thread, callVars, detached, usr2, handler, timeVars, fault>>

Clear(o) ==
  /\ Step(o, "clear", "unmap")
  /\ m_thread' = [m_thread EXCEPT ![o] = FALSE]
  /\ UNCHANGED <<callVars, detached, usr2, handler, timeVars, fault>>

\* m_mapThread is searched and a found entry overwritten, which two threads can
\* do at once without harm.
Unmap(o) ==
  /\ Step(o, "unmap", "unmapping")
  /\ fault' = IF call = "inserting" THEN "map_race" ELSE fault
  /\ UNCHANGED <<m_thread, callVars, detached, usr2, handler, timeVars>>

DetachSelf(o) ==
  /\ Step(o, "unmapping", "exit")
  /\ detached' = [detached EXCEPT ![o] = TRUE]
  /\ UNCHANGED <<m_thread, callVars, usr2, handler, timeVars, fault>>

End(o) ==
  /\ Step(o, "exit", "ended")
  /\ UNCHANGED <<m_thread, callVars, detached, usr2, handler, timeVars, fault>>

\* SIGUSR2 arrives: pthread_exit in the handler, or the death of the process
\* when no thread has installed a handler yet.
Deliver(o) ==
  /\ usr2[o] /\ pc[o] # "ended"
  /\ IF handler THEN pc' = [pc EXCEPT ![o] = "ended"] /\ UNCHANGED fault
                ELSE fault' = "usr2" /\ UNCHANGED pc
  /\ UNCHANGED <<m_thread, callVars, detached, usr2, handler, timeVars>>

-----------------------------------------------------------------------------
Tick ==
  /\ now < MaxNow /\ now' = now + 1
  /\ UNCHANGED <<m_thread, callVars, threadVars, stopAt, fault>>

\* What the main thread does once it has called Start or Stop.
MainStep ==
  \/ Insert \/ Started
  \/ StopTake \/ StopJoin \/ StopDetach \/ StopKill \/ StopDead

\* What a thread does besides running its function.
ThreadStep(o) ==
  Enter(o) \/ Clear(o) \/ Unmap(o) \/ DetachSelf(o) \/ End(o) \/ Deliver(o)

Next ==
  /\ fault = "none"
  /\ \/ MainStep \/ Tick
     \/ \E o \in Objects : \/ Create(o) \/ CreateFails(o) \/ Pause(o) \/ StopTest(o)
                           \/ ThreadStep(o) \/ Return(o)

Spec == Init /\ [][Next]_vars

\* A call of Start or Stop goes on, and every thread is scheduled; no thread
\* function has to return.
FairSpec ==
  /\ Spec
  /\ WF_vars(fault = "none" /\ MainStep)
  /\ \A o \in Objects : WF_vars(fault = "none" /\ ThreadStep(o))

-----------------------------------------------------------------------------
TypeOK ==
  /\ m_thread \in [Objects -> BOOLEAN]
  /\ call \in {"idle", "insert", "inserting", "take", "join", "detach", "kill"}
  /\ obj \in Objects \cup {None} /\ temp \in BOOLEAN
  /\ call = "idle" <=> obj = None
  /\ call \in {"join", "detach", "kill"} => ~m_thread[obj]
  /\ pc \in [Objects -> {"none", "born", "run", "clear", "unmap", "unmapping", "exit", "ended",
                       "failed"}]
  /\ detached \in [Objects -> BOOLEAN]
  /\ usr2 \in [Objects -> BOOLEAN]
  /\ handler \in BOOLEAN
  /\ now \in Nat /\ stopAt \in [Objects -> Nat]
  /\ fault \in {"none", "dead_id", "null_id", "map_race", "usr2"}

(***************************************************************************)
(* isVaild() tells the truth although both sides write m_thread: it is     *)
(* false for a thread inside its function only while Stop is on its way to *)
(* end that thread (Thread.cpp:51-58), and never true after the end.       *)
(***************************************************************************)
ValidIsTrue ==
  \A o \in Objects :
    /\ pc[o] \in {"born", "run"} /\ ~m_thread[o] =>
         usr2[o] \/ (obj = o /\ call \in {"join", "detach", "kill"})
    /\ pc[o] = "ended" => ~m_thread[o]

(***************************************************************************)
(* Stop uses a dead id only if the thread has left its function by itself  *)
(* (or never ran), never because Stop has ended it before; the map is      *)
(* corrupted only where Start inserts (Thread.cpp:25) while a thread whose *)
(* function has returned, and whose m_thread is zero by then, searches it  *)
(* (84-85); and SIGUSR2 kills the process only before its first thread has *)
(* installed the handler.                                                  *)
(***************************************************************************)
Blame ==
  /\ fault = "dead_id" => pc[obj] \notin {"born", "run"} /\ ~usr2[obj]
  /\ fault = "map_race" =>
       call = "inserting" /\ \E o \in Objects : pc[o] = "unmapping" /\ ~m_thread[o]
  /\ fault = "usr2" => \A o \in Objects : pc[o] \in {"none", "born", "failed"} /\ ~handler

(***************************************************************************)
(* A thread whose m_thread has been set to zero ends, even if its function *)
(* never returns.                                                          *)
(***************************************************************************)
StoppedEnds ==
  \A o \in Objects :
    pc[o] # "none" /\ ~m_thread[o] ~> pc[o] \in {"ended", "failed"} \/ fault # "none"

(***************************************************************************)
(* Thread.cpp:54 says "100ms": a thread has a tenth of a second to end     *)
(* before it is sent SIGUSR2.                                              *)
(***************************************************************************)
StopWaits == \A o \in Objects : usr2[o] => now > stopAt[o]
=============================================================================
