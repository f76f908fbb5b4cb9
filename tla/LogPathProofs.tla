--------------------------- MODULE LogPathProofs ---------------------------
(***************************************************************************)
(* Theorems about the path of the log server, for any number of servers    *)
(* and tracing threads and any hazards.                                    *)
(*                                                                         *)
(* A server binds once in its life, and only when there is no file.  So    *)
(* the file of a server, once removed, never comes back (OnceInv), and a   *)
(* failing bind has found the file of a server that has bound it before.   *)
(***************************************************************************)
EXTENDS LogPath, TLAPS

-----------------------------------------------------------------------------
LEMMA InitTypes == Init => TypeOK
  BY DEF Init, TypeOK

LEMMA StepTypes == TypeOK /\ [Next]_vars => TypeOK'
<1> SUFFICES ASSUME TypeOK, [Next]_vars PROVE TypeOK'
  OBVIOUS
<1> USE DEF TypeOK, To, Sock
<1>1. ASSUME NEW s \in Servers, Start(s) PROVE TypeOK'
  <2>1. CASE StartOpen(s)
    BY <2>1 DEF StartOpen
  <2>2. CASE StartSocket(s)
    BY <2>2 DEF StartSocket
  <2>3. CASE Bind(s)
    BY <2>3 DEF Bind
  <2>4. CASE Listen(s)
    BY <2>4 DEF Listen
  <2>5. CASE Serve(s)
    BY <2>5 DEF Serve
  <2> QED
    BY <1>1, <2>1, <2>2, <2>3, <2>4, <2>5 DEF Start
<1>2. ASSUME NEW s \in Servers, CallClose(s) \/ Exit(s) \/ Kill(s) PROVE TypeOK'
  BY <1>2 DEF CallClose, Exit, Kill
<1>3. ASSUME NEW s \in Servers, Close(s) PROVE TypeOK'
  BY <1>3 DEF Close, Unlink, CloseSocket
<1>4. ASSUME NEW a \in Threads, Trace(a) PROVE TypeOK'
  BY <1>4 DEF Trace
<1>5. CASE UNCHANGED vars
  BY <1>5 DEF vars
<1> QED
  BY <1>1, <1>2, <1>3, <1>4, <1>5 DEF Next

\* Every value of the state is one the program can have.
THEOREM TypesTheorem == Spec => []TypeOK
<1> QED
  BY InitTypes, StepTypes, PTL DEF Spec

-----------------------------------------------------------------------------
\* The server has not bound the path yet.
Unbound(s) == pc[s] \in {"new", "opened", "socket"}

OnceInv ==
  /\ \A s \in Servers :
       /\ path = s => (Holding(s) \/ pc[s] = "killed") /\ found[s] = None
       /\ Unbound(s) => found[s] = None
       /\ found[s] # None => pc[s] \in {"undo", "undone", "idle", "exited", "killed"}
  /\ \A s, o \in Servers : found[s] = o => ~Unbound(o)
  /\ StaleOnce
  /\ TakenByCollision

LEMMA InitOnce == Init => OnceInv
  BY PathAssumption DEF Init, OnceInv, Unbound, Holding, Collision, StaleOnce, TakenByCollision

\* A step that leaves path, sock and found alone and moves s from one place
\* to another that holds the path as well, or not.
LEMMA MoveKeeps ==
  ASSUME TypeOK, OnceInv, NEW s \in Servers, NEW place, To(s, place),
         UNCHANGED <<path, found>>, TypeOK',
         Holding(s)' => Holding(s),
         Unbound(s)' => Unbound(s),
         path = s => Holding(s)' \/ place = "killed",
         pc[s] \in {"undo", "killed"} => place = "killed",
         found[s] # None => place \in {"undo", "undone", "idle", "exited", "killed"}
  PROVE  OnceInv'
<1> USE PathAssumption DEF TypeOK, OnceInv, To
<1>1. \A r \in Servers : r # s => pc'[r] = pc[r]
  OBVIOUS
<1>2. pc'[s] = place /\ path' = path /\ found' = found
  OBVIOUS
<1>3. \A r \in Servers : r # s => (Holding(r)' <=> Holding(r)) /\ (Unbound(r)' <=> Unbound(r))
  BY <1>1, <1>2 DEF Holding, Unbound
<1>4. \A r \in Servers :
        /\ path' = r => (Holding(r)' \/ pc'[r] = "killed") /\ found'[r] = None
        /\ Unbound(r)' => found'[r] = None
        /\ found'[r] # None => pc'[r] \in {"undo", "undone", "idle", "exited", "killed"}
  BY <1>1, <1>2, <1>3
<1>5. \A r, o \in Servers : found'[r] = o => ~Unbound(o)'
  BY <1>2, <1>3
<1>6. StaleOnce'
  <2> SUFFICES ASSUME NEW o \in Servers, path' = o
               PROVE  /\ sock'[o] = "none" => pc'[o] = "killed"
                      /\ \A r \in Servers : found'[r] = o => pc'[r] \in {"undo", "killed"}
    BY DEF StaleOnce
  <2>1. sock'[o] = "none" => pc'[o] = "killed"
    BY <1>4 DEF Holding
  <2>2. ASSUME NEW r \in Servers, found'[r] = o PROVE pc'[r] \in {"undo", "killed"}
    BY <1>1, <1>2, <2>2 DEF StaleOnce
  <2> QED
    BY <2>1, <2>2
<1>7. TakenByCollision'
  BY <1>2, <1>3 DEF TakenByCollision, Collision
<1> QED
  BY <1>4, <1>5, <1>6, <1>7

LEMMA StepOnce == TypeOK /\ OnceInv /\ [Next]_vars => OnceInv'
<1> SUFFICES ASSUME TypeOK, OnceInv, [Next]_vars PROVE OnceInv'
  OBVIOUS
<1> USE PathAssumption
<1>0. TypeOK'
  BY StepTypes
<1>1. ASSUME NEW s \in Servers, StartOpen(s) \/ StartSocket(s) \/ Listen(s) \/ Serve(s)
      PROVE  OnceInv'
  <2> PICK place : To(s, place)
    BY <1>1 DEF StartOpen, StartSocket, Listen, Serve
  <2>1. /\ UNCHANGED <<path, found>> /\ found[s] = None /\ pc'[s] = place
        /\ \/ pc[s] \in {"new", "opened"} /\ place \in {"opened", "socket", "idle"}
           \/ pc[s] \in {"bound", "listening"} /\ place \in {"listening", "serving", "undo"}
    BY <1>1 DEF StartOpen, StartSocket, Listen, Serve, To, TypeOK, OnceInv, Unbound
  <2> QED
    BY <1>0, <2>1, MoveKeeps DEF Holding, Unbound, OnceInv
<1>2. ASSUME NEW s \in Servers, CallClose(s) \/ Exit(s) \/ Kill(s) \/ CloseSocket(s) PROVE OnceInv'
  <2> PICK place : To(s, place)
    BY <1>2 DEF CallClose, Exit, Kill, CloseSocket
  <2>1. /\ UNCHANGED <<path, found>> /\ pc'[s] = place
        /\ \/ pc[s] = "serving" /\ place = "end"
           \/ pc[s] \in {"undone", "ended"} /\ place \in {"idle", "exited"}
           \/ pc[s] = "idle" /\ place = "exited"
           \/ place = "killed"
    BY <1>2 DEF CallClose, Exit, Kill, CloseSocket, To, TypeOK
  <2> QED
    BY <1>0, <2>1, MoveKeeps DEF Holding, Unbound, OnceInv
<1>3. ASSUME NEW s \in Servers, Bind(s) PROVE OnceInv'
  <2> USE <1>3 DEF Bind, To, Sock, TypeOK, OnceInv, Unbound, Holding
  <2>1. CASE path = None
    <3>1. path' = s /\ pc' = [pc EXCEPT ![s] = "bound"] /\ sock' = [sock EXCEPT ![s] = "bound"]
          /\ found' = found /\ \A r \in Servers : found[r] # s
      BY <2>1
    <3>2. StaleOnce'
      BY <3>1 DEF StaleOnce
    <3>3. TakenByCollision'
      BY <2>1, <3>1 DEF TakenByCollision, Collision
    <3> QED
      BY <3>1, <3>2, <3>3
  <2>2. CASE path # None
    <3>1. path' = path /\ path # s /\ pc' = [pc EXCEPT ![s] = "undo"] /\ sock' = sock
          /\ found' = [found EXCEPT ![s] = path]
      BY <2>2
    <3>2. StaleOnce'
      BY <3>1 DEF StaleOnce
    <3>3. TakenByCollision'
      BY <2>2, <3>1 DEF TakenByCollision, Collision
    <3> QED
      BY <3>1, <3>2, <3>3, <2>2
  <2> QED
    BY <2>1, <2>2
<1>4. ASSUME NEW s \in Servers, Unlink(s) PROVE OnceInv'
  <2> USE <1>4 DEF Unlink, To, TypeOK, OnceInv, Unbound, Holding
  <2>1. /\ path' = None /\ UNCHANGED <<sock, found>>
        /\ pc' = [pc EXCEPT ![s] = IF pc[s] = "undo" THEN "undone" ELSE "ended"]
    OBVIOUS
  <2>2. StaleOnce'
    BY <2>1 DEF StaleOnce
  <2>3. TakenByCollision'
    <3>1. ASSUME NEW r \in Servers, Holding(r)', ~Collision PROVE FALSE
      <4>1. r # s /\ Holding(r) /\ Holding(s)
        BY <2>1, <3>1 DEF Collision
      <4> QED
        BY <3>1, <4>1 DEF TakenByCollision
    <3>2. Collision' <=> Collision
      BY <2>1 DEF Collision
    <3> QED
      BY <3>1, <3>2 DEF TakenByCollision
  <2> QED
    BY <2>1, <2>2, <2>3
<1>5. CASE (\E a \in Threads : Trace(a)) \/ UNCHANGED vars
  <2>1. UNCHANGED <<path, pc, sock, found>>
    BY <1>5 DEF Trace, vars
  <2> QED
    BY <2>1 DEF OnceInv, StaleOnce, TakenByCollision, Holding, Unbound, Collision
<1> QED
  BY <1>1, <1>2, <1>3, <1>4, <1>5 DEF Next, Start, Close

(***************************************************************************)
(* The file of a killed server is gone once a Start that failed on it has  *)
(* been undone, so it costs one of several Starts undone one after another.*)
(***************************************************************************)
THEOREM OnceTheorem == Spec => []StaleOnce
<1>1. OnceInv => StaleOnce
  BY DEF OnceInv
<1> QED
  BY <1>1, InitTypes, StepTypes, InitOnce, StepOnce, PTL DEF Spec

(***************************************************************************)
(* Without a collision no server loses its path.                           *)
(***************************************************************************)
THEOREM TakenTheorem == Spec => []TakenByCollision
<1>1. OnceInv => TakenByCollision
  BY DEF OnceInv
<1> QED
  BY <1>1, InitTypes, StepTypes, InitOnce, StepOnce, PTL DEF Spec

-----------------------------------------------------------------------------
\* A server whose Start has returned 0 listens.
ServingListens ==
  \A s \in Servers : pc[s] \in {"listening", "serving"} => sock[s] = "listening"

LEMMA StepListens == TypeOK /\ ServingListens /\ [Next]_vars => ServingListens'
<1> SUFFICES ASSUME TypeOK, ServingListens, [Next]_vars PROVE ServingListens'
  OBVIOUS
<1> USE DEF TypeOK, ServingListens, To, Sock
<1>1. ASSUME NEW s \in Servers, Start(s) PROVE ServingListens'
  <2>1. CASE StartOpen(s) \/ StartSocket(s)
    BY <2>1 DEF StartOpen, StartSocket
  <2>2. CASE Bind(s)
    BY <2>2 DEF Bind
  <2>3. CASE Listen(s) \/ Serve(s)
    BY <2>3 DEF Listen, Serve
  <2> QED
    BY <1>1, <2>1, <2>2, <2>3 DEF Start
<1>2. ASSUME NEW s \in Servers, CallClose(s) \/ Exit(s) \/ Kill(s) \/ Close(s) PROVE ServingListens'
  BY <1>2 DEF CallClose, Exit, Kill, Close, Unlink, CloseSocket
<1>3. CASE (\E a \in Threads : Trace(a)) \/ UNCHANGED vars
  BY <1>3 DEF Trace, vars
<1> QED
  BY <1>1, <1>2, <1>3 DEF Next

\* Only Trace makes a thread mute, and only if nobody can be reached.
LEMMA MuteUnreachable ==
  ASSUME TypeOK, [Next]_vars, NEW a \in Threads, client'[a] = "mute", client[a] # "mute"
  PROVE  ~Reachable
<1>1. ASSUME UNCHANGED client PROVE FALSE
  BY <1>1
<1>2. ASSUME NEW b \in Threads, Trace(b) PROVE ~Reachable
  BY <1>2 DEF Trace, TypeOK
<1> QED
  BY <1>1, <1>2 DEF Next, Start, Close, StartOpen, StartSocket, Bind, Listen, Serve, CallClose,
     Unlink, CloseSocket, Exit, Kill, vars

(***************************************************************************)
(* While a log server serves, a first Trace fails only after a collision.  *)
(***************************************************************************)
THEOREM MuteTheorem == Spec => MuteNeedsCollision
<1> DEFINE Step == \A a \in Threads :
      client'[a] = "mute" /\ client[a] # "mute" /\ (\E s \in Servers : pc[s] = "serving")
        => Collision
<1>1. TypeOK /\ OnceInv /\ ServingListens /\ [Next]_vars => [Step]_vars
  <2> SUFFICES ASSUME TypeOK, OnceInv, ServingListens, [Next]_vars,
                      NEW a \in Threads, client'[a] = "mute", client[a] # "mute",
                      NEW s \in Servers, pc[s] = "serving"
               PROVE  Collision
    OBVIOUS
  <2>1. path = s \/ Collision
    BY DEF OnceInv, TakenByCollision, Holding
  <2>2. path # s
    BY MuteUnreachable DEF Reachable, ServingListens
  <2> QED
    BY <2>1, <2>2
<1>2. Init => ServingListens
  BY DEF Init, ServingListens
<1>3. Spec => [][Step]_vars
  BY <1>1, <1>2, InitTypes, StepTypes, InitOnce, StepOnce, StepListens, PTL DEF Spec
<1> QED
  BY <1>3 DEF MuteNeedsCollision
=============================================================================
