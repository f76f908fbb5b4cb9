---------------------------- MODULE ThreadProofs ----------------------------
(* CThread for any number of objects and any choice of hazards.            *)
EXTENDS Thread, TLAPS

LEMMA ThreadInitTypes == Init => TypeOK
<1> SUFFICES ASSUME Init PROVE TypeOK
  OBVIOUS
<1>1. /\ m_thread \in [Objects -> BOOLEAN] /\ detached \in [Objects -> BOOLEAN]
      /\ usr2 \in [Objects -> BOOLEAN]
  BY Zenon DEF Init
<1>2. now \in Nat /\ stopAt \in [Objects -> Nat]
  BY DEF Init
<1>3. pc \in [Objects -> {"none", "born", "run", "clear", "unmap", "unmapping", "exit", "ended",
                         "failed"}]
  BY DEF Init
<1> QED
  BY <1>1, <1>2, <1>3 DEF Init, TypeOK

-----------------------------------------------------------------------------
(* The inductive invariant.  SIGUSR2 is sent once, by the one Stop that    *)
(* found m_thread set, and only to a thread that this Stop has detached;   *)
(* from its clearing on, m_thread stays zero.                              *)

Stopping == call \in {"take", "join", "detach", "kill"}

OneStop ==
  /\ Stopping => ~usr2[obj] /\ pc[obj] # "none"
  /\ call = "join" /\ ~temp => pc[obj] \notin {"born", "run"}
  /\ call \in {"take", "join", "detach"} /\ detached[obj] => pc[obj] \in {"exit", "ended"}
  /\ call = "kill" => detached[obj]
  /\ \A o \in Objects :
       /\ usr2[o] => detached[o]
       /\ detached[o] => ~m_thread[o]
       /\ pc[o] = "none" => ~m_thread[o] /\ ~usr2[o] /\ ~detached[o]

Leaving ==
  \A o \in Objects :
    /\ pc[o] \in {"unmap", "unmapping", "exit", "ended"} => ~m_thread[o]
    /\ pc[o] \notin {"none", "born", "failed"} => handler

ThreadInv == TypeOK /\ ValidIsTrue /\ OneStop /\ Leaving /\ Blame

LEMMA ThreadInitInv == Init => ThreadInv
  BY ThreadInitTypes DEF Init, ThreadInv, ValidIsTrue, OneStop, Stopping, Leaving, Blame

\* What a step of one object's thread leaves to the others.
LEMMA ThreadStepInv == ThreadInv /\ [Next]_vars => ThreadInv'
<1> SUFFICES ASSUME ThreadInv, [Next]_vars PROVE ThreadInv'
  OBVIOUS
<1> USE ThreadAssumption DEF ThreadInv, TypeOK, ValidIsTrue, OneStop, Stopping, Leaving,
        callVars, threadVars, timeVars
<1>1. CASE UNCHANGED vars
  BY <1>1 DEF vars, Blame
<1>2. CASE Next
  <2> fault = "none"
    BY <1>2 DEF Next
  <2>1. ASSUME NEW o \in Objects, Create(o) PROVE ThreadInv'
    BY <2>1 DEF Create, Blame
  <2>2. ASSUME NEW o \in Objects, CreateFails(o) PROVE ThreadInv'
    <3>1. PICK stored \in BOOLEAN : m_thread' = [m_thread EXCEPT ![o] = stored]
      BY <2>2 DEF CreateFails
    <3> QED
      BY <2>2, <3>1 DEF CreateFails, Blame
  <2>3. ASSUME NEW o \in Objects, Pause(o) PROVE ThreadInv'
    BY <2>3 DEF Pause, Blame
  <2>4. ASSUME NEW o \in Objects, StopTest(o) PROVE ThreadInv'
    BY <2>4 DEF StopTest, Blame
  <2>5. CASE Insert
    BY <2>5 DEF Insert, Blame
  <2>6. CASE Started
    BY <2>6 DEF Started, Blame
  <2>7. CASE StopTake
    <3>1. /\ call = "take" /\ call' = "join" /\ temp' = m_thread[obj] /\ obj' = obj
          /\ m_thread' = [m_thread EXCEPT ![obj] = FALSE] /\ obj \in Objects
          /\ UNCHANGED <<pc, detached, usr2, handler, now, stopAt, fault>>
      BY <2>7 DEF StopTake
    <3>2. TypeOK'
      BY <3>1
    <3>3. ValidIsTrue' /\ Leaving'
      BY <3>1
    <3>4. OneStop'
      BY <3>1
    <3> QED
      BY <3>1, <3>2, <3>3, <3>4 DEF Blame
  <2>8. CASE StopJoin
    <3>1. CASE detached[obj] /\ call' = "idle" /\ obj' = None
      <4>1. /\ call = "join" /\ pc[obj] = "exit" /\ fault' = fault
            /\ UNCHANGED <<m_thread, temp, pc, detached, usr2, handler, now, stopAt>>
        BY <2>8, <3>1 DEF StopJoin, Dead
      <4>2. TypeOK'
        BY <3>1, <4>1
      <4>3. ValidIsTrue' /\ Leaving'
        BY <3>1, <4>1
      <4>4. OneStop'
        BY <3>1, <4>1
      <4> QED
        BY <4>1, <4>2, <4>3, <4>4 DEF Blame
    <3>2. CASE call' = "detach" /\ obj' = obj
      BY <2>8, <3>2 DEF StopJoin, Blame
    <3> QED
      BY <2>8, <3>1, <3>2 DEF StopJoin
  <2>9. CASE StopDetach
    BY <2>9 DEF StopDetach, Blame
  <2>10. CASE StopKill
    BY <2>10 DEF StopKill, Blame
  <2>11. CASE StopDead
    BY <2>11 DEF StopDead, Dead, Blame
  <2>12. CASE Tick
    BY <2>12 DEF Tick, Blame
  <2>13. ASSUME NEW o \in Objects, Return(o) PROVE ThreadInv'
    BY <2>13 DEF Return, Step, Blame
  <2>14. ASSUME NEW o \in Objects, Enter(o) PROVE ThreadInv'
    BY <2>14 DEF Enter, Step, Blame
  <2>15. ASSUME NEW o \in Objects, Clear(o) PROVE ThreadInv'
    BY <2>15 DEF Clear, Step, Blame
  <2>16. ASSUME NEW o \in Objects, Unmap(o) PROVE ThreadInv'
    BY <2>16 DEF Unmap, Step, Blame
  <2>17. ASSUME NEW o \in Objects, DetachSelf(o) PROVE ThreadInv'
    BY <2>17 DEF DetachSelf, Step, Blame
  <2>18. ASSUME NEW o \in Objects, End(o) PROVE ThreadInv'
    BY <2>18 DEF End, Step, Blame
  <2>19. ASSUME NEW o \in Objects, Deliver(o) PROVE ThreadInv'
    BY <2>19 DEF Deliver, Blame
  <2> QED
    BY <1>2, <2>1, <2>2, <2>3, <2>4, <2>5, <2>6, <2>7, <2>8, <2>9, <2>10, <2>11, <2>12, <2>13,
       <2>14, <2>15, <2>16, <2>17, <2>18, <2>19 DEF Next, MainStep, ThreadStep
<1> QED
  BY <1>1, <1>2

LEMMA ThreadSafety == Spec => []ThreadInv
  BY ThreadInitInv, ThreadStepInv, PTL DEF Spec

(***************************************************************************)
(* The variables keep their types, and Stop has cleared m_thread before it *)
(* touches the thread (Thread.cpp:50-58).                                  *)
(***************************************************************************)
THEOREM ThreadTypesTheorem == Spec => []TypeOK
<1>1. ThreadInv => TypeOK
  BY DEF ThreadInv
<1> QED
  BY <1>1, ThreadSafety, PTL

(***************************************************************************)
(* isVaild() is true to the state of the thread whatever Stop and          *)
(* ThreadEntry do to m_thread at the same time.                            *)
(***************************************************************************)
THEOREM ValidTheorem == Spec => []ValidIsTrue
<1>1. ThreadInv => ValidIsTrue
  BY DEF ThreadInv
<1> QED
  BY <1>1, ThreadSafety, PTL

(***************************************************************************)
(* Stop never trips over a thread that it has ended itself, the map is     *)
(* corrupted only by a thread that has left its function, and SIGUSR2      *)
(* never kills a process whose first thread has installed the handler.     *)
(***************************************************************************)
THEOREM ThreadBlameTheorem == Spec => []Blame
<1>1. ThreadInv => Blame
  BY DEF ThreadInv
<1> QED
  BY <1>1, ThreadSafety, PTL
=============================================================================
