--------------------------- MODULE ProcessProofs ---------------------------
(***************************************************************************)
(* The safety of CProcess for any number of children, forked in any order. *)
(***************************************************************************)
EXTENDS Process, SequenceTheorems, FiniteSetTheorems, TLAPS

-----------------------------------------------------------------------------
(* What Append, Head and Tail do to a concatenation: the facts behind      *)
(* "received \o in flight = sent".                                         *)

LEMMA ConcatAssoc == \A r, s, t \in Seq(Fds) : (r \o s) \o t = r \o (s \o t)
  BY ConcatAssociative

\* A sender appends at the end of what is in flight, hence of the whole.
LEMMA AppendToConcat ==
  \A r, s \in Seq(Fds), x \in Fds : r \o Append(s, x) = Append(r \o s, x)
<1> SUFFICES ASSUME NEW r \in Seq(Fds), NEW s \in Seq(Fds), NEW x \in Fds
             PROVE  r \o Append(s, x) = Append(r \o s, x)
  OBVIOUS
<1>1. <<x>> \in Seq(Fds) /\ r \o s \in Seq(Fds)
  BY ConcatProperties
<1>2. Append(s, x) = s \o <<x>>
  BY AppendIsConcat
<1>3. Append(r \o s, x) = (r \o s) \o <<x>>
  BY <1>1, AppendIsConcat
<1>4. (r \o s) \o <<x>> = r \o (s \o <<x>>)
  BY <1>1, ConcatAssoc, Zenon
<1> QED
  BY <1>2, <1>3, <1>4

\* A receiver moves the oldest element across the border, and the whole stays.
LEMMA MoveHead ==
  \A r, s \in Seq(Fds) : s # <<>> => Append(r, Head(s)) \o Tail(s) = r \o s
<1> SUFFICES ASSUME NEW r \in Seq(Fds), NEW s \in Seq(Fds), s # <<>>
             PROVE  Append(r, Head(s)) \o Tail(s) = r \o s
  OBVIOUS
<1>1. Head(s) \in Fds /\ Tail(s) \in Seq(Fds)
  BY HeadTailProperties
<1>2. <<Head(s)>> \in Seq(Fds)
  BY <1>1
<1>3. Append(r, Head(s)) = r \o <<Head(s)>>
  BY <1>1, AppendIsConcat
<1>4. <<Head(s)>> \o Tail(s) = s
  BY <1>1
<1>5. (r \o <<Head(s)>>) \o Tail(s) = r \o (<<Head(s)>> \o Tail(s))
  BY <1>1, <1>2, ConcatAssoc, Zenon
<1> QED
  BY <1>3, <1>4, <1>5

-----------------------------------------------------------------------------
LEMMA ProcInit == Init => TypeOK
  BY DEF Init, TypeOK

LEMMA StepCases ==
  ASSUME [Next]_vars
  PROVE  \/ UNCHANGED vars \/ ParentEnds
         \/ \E c \in Children :
              \/ Fork(c) \/ ForkFails(c) \/ SendEnd(c)
              \/ \E f \in Fds : SendFD(c, f)
              \/ CloseWrite(c) \/ RecvFD(c) \/ RecvEnd(c) \/ ReadStdin(c) \/ Exit(c)
  BY DEF Next, ParentStep, ChildStep

LEMMA ProcTypes == TypeOK /\ [Next]_vars => TypeOK'
<1> SUFFICES ASSUME TypeOK, [Next]_vars PROVE TypeOK'
  OBVIOUS
<1> USE DEF TypeOK
<1>1. CASE UNCHANGED vars
  BY <1>1 DEF vars
<1>2. CASE ParentEnds
  BY <1>2 DEF ParentEnds, Without
<1>3. ASSUME NEW c \in Children, Fork(c) PROVE TypeOK'
  <2>1. holders' \in [Children -> SUBSET (Children \cup {Parent})]
    BY <1>3 DEF Fork
  <2>2. later' \in [Children -> SUBSET Children]
    BY <1>3 DEF Fork
  <2>3. \A d \in Children : d \in holders'[d] => d = c \/ d \in holders[d]
    BY <1>3 DEF Fork
  <2>4. pc' = [pc EXCEPT ![c] = "born"]
    BY <1>3 DEF Fork
  <2>5. \A d \in Children : d \in holders'[d] => pc'[d] = "born"
    BY <2>3, <2>4
  <2>6. UNCHANGED <<parent, pipe, got, sent, signalled>>
    BY <1>3 DEF Fork
  <2> QED
    BY <2>1, <2>2, <2>4, <2>5, <2>6
<1>4. ASSUME NEW c \in Children, ForkFails(c) PROVE TypeOK'
  BY <1>4 DEF ForkFails
<1>5. ASSUME NEW c \in Children, SendEnd(c) PROVE TypeOK'
  BY <1>5 DEF SendEnd
<1>6. ASSUME NEW c \in Children, NEW f \in Fds, SendFD(c, f) PROVE TypeOK'
  <2>1. Append(pipe[c], f) \in Seq(Fds) /\ Append(sent[c], f) \in Seq(Fds)
    BY AppendProperties
  <2>2. CASE pc[c] = "ended"
    <3>1. /\ holders' = Without(Parent) /\ parent' = "killed"
          /\ UNCHANGED <<pc, pipe, got, sent, later, signalled>>
      BY <1>6, <2>2 DEF SendFD
    <3>2. /\ holders' \in [Children -> SUBSET (Children \cup {Parent})]
          /\ \A d \in Children : d \in holders'[d] => d \in holders[d]
      BY <3>1 DEF Without
    <3> QED
      BY <3>1, <3>2
  <2>3. CASE pc[c] # "ended"
    <3>1. /\ pipe' = [pipe EXCEPT ![c] = Append(@, f)]
          /\ sent' = [sent EXCEPT ![c] = Append(@, f)]
          /\ UNCHANGED <<parent, holders, pc, got, later, signalled>>
      BY <1>6, <2>3 DEF SendFD
    <3>2. pipe' \in [Children -> Seq(Fds)] /\ sent' \in [Children -> Seq(Fds)]
      BY <2>1, <3>1
    <3> QED
      BY <3>1, <3>2
  <2> QED
    BY <2>2, <2>3
<1>7. ASSUME NEW c \in Children, CloseWrite(c) PROVE TypeOK'
  BY <1>7 DEF CloseWrite
<1>8. ASSUME NEW c \in Children, RecvFD(c) PROVE TypeOK'
  <2>1. Head(pipe[c]) \in Fds /\ Tail(pipe[c]) \in Seq(Fds)
    BY <1>8, HeadTailProperties DEF RecvFD
  <2>2. Append(got[c], Head(pipe[c])) \in Seq(Fds)
    BY <2>1, AppendProperties
  <2> QED
    BY <1>8, <2>1, <2>2 DEF RecvFD
<1>9. ASSUME NEW c \in Children, RecvEnd(c) PROVE TypeOK'
  BY <1>9 DEF RecvEnd
<1>10. ASSUME NEW c \in Children, ReadStdin(c) PROVE TypeOK'
  BY <1>10 DEF ReadStdin
<1>11. ASSUME NEW c \in Children, Exit(c) PROVE TypeOK'
  BY <1>11 DEF Exit, Without
<1> QED
  BY <1>1, <1>2, <1>3, <1>4, <1>5, <1>6, <1>7, <1>8, <1>9, <1>10, <1>11, StepCases

(***************************************************************************)
(* The variables of the processes keep their types.                        *)
(***************************************************************************)
THEOREM ProcessTypesTheorem == Spec => []TypeOK
  BY ProcInit, ProcTypes, PTL DEF Spec

-----------------------------------------------------------------------------
(***************************************************************************)
(* Who holds a forked child's pipes[1]: the parent while it runs, and      *)
(* every child forked later while that one runs.  These are the processes  *)
(* whose end the child is waiting for.                                     *)
(***************************************************************************)
HoldInv ==
  \A c \in Children :
    /\ pc[c] \in {"none", "failed"} => later[c] = {}
    /\ c \notin later[c]
    /\ c \in Forked /\ parent = "runs" => Parent \in holders[c]
    /\ \A d \in later[c] : d \in Forked /\ (pc[d] # "ended" => d \in holders[c])

LEMMA HoldInit == Init => HoldInv
  BY DEF Init, HoldInv, Forked

LEMMA HoldStep == TypeOK /\ HoldInv /\ [Next]_vars => HoldInv'
<1> SUFFICES ASSUME TypeOK, HoldInv, [Next]_vars PROVE HoldInv'
  OBVIOUS
<1> USE ProcessAssumption DEF TypeOK, Forked
<1>1. CASE UNCHANGED vars
  BY <1>1 DEF HoldInv, vars
<1>2. CASE ParentEnds
  BY <1>2 DEF ParentEnds, Without, HoldInv
<1>3. ASSUME NEW c \in Children, Fork(c) PROVE HoldInv'
  <2>1. parent = "runs" /\ parent' = parent /\ pc[c] = "none" /\ pc'[c] = "born"
    BY <1>3 DEF Fork
  <2>2. \A d \in Children \ {c} : pc'[d] = pc[d]
    BY <1>3 DEF Fork
  <2>3. \A d \in Children : later'[d] = IF d \in Forked THEN later[d] \cup {c} ELSE later[d]
    BY <1>3 DEF Fork
  <2>4. /\ holders'[c] = {Parent, c}
        /\ \A d \in Children \ {c} : holders[d] \subseteq holders'[d]
        /\ \A d \in Children \ {c} : Parent \in holders[d] => c \in holders'[d]
    BY <1>3 DEF Fork
  <2>5. c \notin Forked /\ later'[c] = {}
    BY <2>1, <2>3 DEF HoldInv
  <2>6. ASSUME NEW d \in Children, d # c
        PROVE  /\ pc'[d] \in {"none", "failed"} => later'[d] = {}
               /\ d \notin later'[d]
               /\ d \in Forked' /\ parent' = "runs" => Parent \in holders'[d]
               /\ \A e \in later'[d] : e \in Forked' /\ (pc'[e] # "ended" => e \in holders'[d])
    <3>1. pc'[d] = pc[d] /\ holders[d] \subseteq holders'[d]
      BY <2>2, <2>4, <2>6
    <3>2. CASE d \notin Forked
      <4>1. later'[d] = {} /\ pc[d] \in {"none", "failed"}
        BY <2>3, <3>2 DEF HoldInv
      <4> QED
        BY <3>1, <4>1
    <3>3. CASE d \in Forked
      <4>1. later'[d] = later[d] \cup {c} /\ Parent \in holders[d]
        BY <2>1, <2>3, <3>3 DEF HoldInv
      <4>2. c \in holders'[d] /\ c \in Forked'
        BY <2>1, <2>4, <2>6, <4>1
      <4>3. \A e \in later[d] : /\ e \in Forked /\ e # c /\ pc'[e] = pc[e]
                                /\ pc[e] # "ended" => e \in holders[d]
        BY <2>2, <2>5 DEF HoldInv
      <4>4. d \notin later[d] /\ pc[d] \notin {"none", "failed"}
        BY <3>3 DEF HoldInv
      <4> QED
        BY <2>6, <3>1, <4>1, <4>2, <4>3, <4>4
    <3> QED
      BY <3>2, <3>3
  <2> QED
    BY <2>1, <2>4, <2>5, <2>6 DEF HoldInv
<1>4. ASSUME NEW c \in Children, ForkFails(c) PROVE HoldInv'
  BY <1>4 DEF ForkFails, HoldInv
<1>5. ASSUME NEW c \in Children, SendEnd(c) PROVE HoldInv'
  BY <1>5 DEF SendEnd, HoldInv
<1>6. ASSUME NEW c \in Children, NEW f \in Fds, SendFD(c, f) PROVE HoldInv'
  BY <1>6 DEF SendFD, Without, HoldInv
<1>7. ASSUME NEW c \in Children, CloseWrite(c) PROVE HoldInv'
  <2>1. /\ pc[c] = "born" /\ pc'[c] \in {"exit", "recv"}
        /\ \A d \in Children \ {c} : pc'[d] = pc[d] /\ holders'[d] = holders[d]
        /\ holders'[c] = holders[c] \ {c}
        /\ UNCHANGED <<parent, later>>
    BY <1>7 DEF CloseWrite
  <2>2. \A d \in Children : /\ pc'[d] \in {"none", "failed"} <=> pc[d] \in {"none", "failed"}
                            /\ pc'[d] # "ended" => pc[d] # "ended"
    BY <2>1
  <2>3. \A d \in Children : /\ Parent \in holders[d] => Parent \in holders'[d]
                            /\ \A e \in holders[d] : e # d => e \in holders'[d]
    BY <2>1
  <2> QED
    BY <2>1, <2>2, <2>3 DEF HoldInv
<1>8. ASSUME NEW c \in Children, RecvFD(c) PROVE HoldInv'
  BY <1>8 DEF RecvFD, HoldInv
<1>9. ASSUME NEW c \in Children, RecvEnd(c) PROVE HoldInv'
  BY <1>9 DEF RecvEnd, HoldInv
<1>10. ASSUME NEW c \in Children, ReadStdin(c) PROVE HoldInv'
  BY <1>10 DEF ReadStdin, HoldInv
<1>11. ASSUME NEW c \in Children, Exit(c) PROVE HoldInv'
  <2>1. /\ pc[c] = "exit" /\ pc'[c] = "ended"
        /\ \A d \in Children \ {c} : pc'[d] = pc[d]
        /\ \A d \in Children : holders'[d] = holders[d] \ {c}
        /\ UNCHANGED <<parent, later>>
    BY <1>11 DEF Exit, Without
  <2>2. \A d \in Children : /\ pc'[d] \in {"none", "failed"} <=> pc[d] \in {"none", "failed"}
                            /\ pc'[d] # "ended" => pc[d] # "ended" /\ d # c
    BY <2>1
  <2>3. \A d \in Children : \A p \in holders[d] : p # c => p \in holders'[d]
    BY <2>1
  <2> QED
    BY <2>1, <2>2, <2>3 DEF HoldInv
<1> QED
  BY <1>1, <1>2, <1>3, <1>4, <1>5, <1>6, <1>7, <1>8, <1>9, <1>10, <1>11, StepCases

-----------------------------------------------------------------------------
LEMMA LastInit == Init => LogEndsLast
  BY DEF Init, LogEndsLast, Left

LEMMA LastStep == TypeOK /\ HoldInv /\ LogEndsLast /\ [Next]_vars => LogEndsLast'
<1> SUFFICES ASSUME TypeOK, HoldInv, LogEndsLast, [Next]_vars PROVE LogEndsLast'
  OBVIOUS
<1> USE ProcessAssumption DEF TypeOK, Left
<1>1. CASE UNCHANGED vars
  BY <1>1 DEF LogEndsLast, vars
<1>2. CASE ParentEnds
  BY <1>2 DEF ParentEnds, LogEndsLast
<1>3. ASSUME NEW c \in Children, Fork(c) PROVE LogEndsLast'
  <2>1. parent = "runs" /\ \A d \in Children \ {c} : pc'[d] = pc[d]
    BY <1>3 DEF Fork
  <2>2. pc'[c] = "born"
    BY <1>3 DEF Fork
  <2> QED
    BY <2>1, <2>2 DEF LogEndsLast
<1>4. ASSUME NEW c \in Children, ForkFails(c) \/ SendEnd(c) PROVE LogEndsLast'
  BY <1>4 DEF ForkFails, SendEnd, LogEndsLast
<1>5. ASSUME NEW c \in Children, NEW f \in Fds, SendFD(c, f) PROVE LogEndsLast'
  BY <1>5 DEF SendFD, LogEndsLast
<1>6. ASSUME NEW c \in Children, CloseWrite(c) PROVE LogEndsLast'
  BY <1>6 DEF CloseWrite, LogEndsLast
<1>7. ASSUME NEW c \in Children, RecvFD(c) PROVE LogEndsLast'
  BY <1>7 DEF RecvFD, LogEndsLast
<1>8. ASSUME NEW c \in Children, RecvEnd(c) PROVE LogEndsLast'
  <2>1. pc[c] = "recv" /\ holders[c] = {} /\ UNCHANGED <<parent, later>>
    BY <1>8 DEF RecvEnd
  <2>2. \A d \in Children \ {c} : pc'[d] = pc[d]
    BY <1>8 DEF RecvEnd
  <2>3. parent # "runs" /\ \A d \in later[c] : pc[d] = "ended" /\ d # c
    BY <2>1 DEF HoldInv, Forked
  <2>4. \A d \in Children : \A e \in later[d] : pc[e] = "ended" => pc'[e] = "ended"
    BY <2>1, <2>2
  <2> QED
    BY <2>1, <2>2, <2>3, <2>4 DEF LogEndsLast
<1>9. ASSUME NEW c \in Children, ReadStdin(c) \/ Exit(c) PROVE LogEndsLast'
  <2>1. /\ pc[c] \in {"stdin", "exit"} /\ pc'[c] \in {"exit", "ended"}
        /\ \A d \in Children \ {c} : pc'[d] = pc[d]
        /\ UNCHANGED <<parent, later>>
    BY <1>9 DEF ReadStdin, Exit
  <2>2. \A d \in Children : \A e \in later[d] : pc[e] = "ended" => pc'[e] = "ended"
    BY <2>1
  <2> QED
    BY <2>1, <2>2 DEF LogEndsLast
<1> QED
  BY <1>1, <1>2, <1>3, <1>4, <1>5, <1>6, <1>7, <1>8, <1>9, StepCases

ProcInv == TypeOK /\ HoldInv /\ LogEndsLast

LEMMA ProcInvariant == Spec => []ProcInv
<1>1. Init => ProcInv
  BY ProcInit, HoldInit, LastInit DEF ProcInv
<1>2. ProcInv /\ [Next]_vars => ProcInv'
  BY ProcTypes, HoldStep, LastStep DEF ProcInv
<1> QED
  BY <1>1, <1>2, PTL DEF Spec

(***************************************************************************)
(* A log process outlives the parent and every child forked after it, for  *)
(* any number of children and any order of forks and ends.                 *)
(***************************************************************************)
THEOREM LogEndsLastTheorem == Spec => []LogEndsLast
<1>1. ProcInv => LogEndsLast
  BY DEF ProcInv
<1> QED
  BY <1>1, ProcInvariant, PTL

-----------------------------------------------------------------------------
LEMMA DeliverInit == Init => Delivered
<1> SUFFICES ASSUME Init PROVE Delivered
  OBVIOUS
<1>1. <<>> \o <<>> = <<>>
  OBVIOUS
<1> QED
  BY <1>1 DEF Init, Delivered, Left

LEMMA DeliverStep == ProcInv /\ Delivered /\ [Next]_vars => Delivered'
<1> SUFFICES ASSUME ProcInv, Delivered, [Next]_vars PROVE Delivered'
  OBVIOUS
<1>q. ASSUME \A c \in Children : got'[c] \o pipe'[c] = sent'[c],
             \A c \in Children : Entry[c] = "log" /\ Left(c)' => pipe'[c] = <<>>
      PROVE  Delivered'
  BY <1>q DEF Delivered
<1>1. ASSUME UNCHANGED <<got, pipe, sent>>,
             \A c \in Children : Entry[c] = "log" /\ Left(c)' => Left(c) \/ pipe[c] = <<>>
      PROVE  Delivered'
  BY <1>1, <1>q DEF Delivered
<1>2. CASE UNCHANGED vars \/ ParentEnds
  BY <1>1, <1>2 DEF vars, ParentEnds, Left
<1>3. ASSUME NEW c \in Children, Fork(c) \/ ForkFails(c) \/ CloseWrite(c) \/ SendEnd(c)
      PROVE  Delivered'
  <2>1. UNCHANGED <<got, pipe, sent>> /\ \A d \in Children \ {c} : pc'[d] = pc[d]
    BY <1>3 DEF Fork, ForkFails, CloseWrite, SendEnd, ProcInv, TypeOK
  <2>2. Entry[c] = "log" /\ Left(c)' => Left(c)
    <3>1. CASE Fork(c)
      BY <3>1 DEF Fork, Left, ProcInv, TypeOK
    <3>2. CASE ForkFails(c)
      BY <3>2 DEF ForkFails, Left, ProcInv, TypeOK
    <3>3. CASE CloseWrite(c)
      BY <3>3 DEF CloseWrite, Left, ProcInv, TypeOK
    <3>4. CASE SendEnd(c)
      BY <3>4 DEF SendEnd, Left
    <3> QED
      BY <1>3, <3>1, <3>2, <3>3, <3>4
  <2> QED
    BY <1>1, <2>1, <2>2 DEF Left
<1>4. ASSUME NEW c \in Children, RecvEnd(c) \/ ReadStdin(c) \/ Exit(c) PROVE Delivered'
  <2>1. /\ UNCHANGED <<got, pipe, sent>>
        /\ Left(c) \/ pipe[c] = <<>>
        /\ \A d \in Children \ {c} : pc'[d] = pc[d]
    BY <1>4 DEF RecvEnd, ReadStdin, Exit, Left, ProcInv, TypeOK
  <2> QED
    BY <1>1, <2>1 DEF Left
<1>5. ASSUME NEW c \in Children, NEW f \in Fds, SendFD(c, f) PROVE Delivered'
  <2>1. CASE pc[c] = "ended"
    <3>1. UNCHANGED <<got, pipe, sent, pc>>
      BY <1>5, <2>1 DEF SendFD
    <3> QED
      BY <1>1, <3>1 DEF Left
  <2>2. CASE pc[c] # "ended"
    <3>1. /\ pipe' = [pipe EXCEPT ![c] = Append(@, f)]
          /\ sent' = [sent EXCEPT ![c] = Append(@, f)]
          /\ parent = "runs" /\ UNCHANGED <<got, pc>>
      BY <1>5, <2>2 DEF SendFD
    <3>2. got[c] \in Seq(Fds) /\ pipe[c] \in Seq(Fds) /\ got[c] \o pipe[c] = sent[c]
      BY DEF ProcInv, TypeOK, Delivered
    <3>3. got[c] \o Append(pipe[c], f) = Append(got[c] \o pipe[c], f)
      BY <3>2, AppendToConcat, Zenon
    <3>4. got'[c] \o pipe'[c] = sent'[c]
      BY <3>1, <3>2, <3>3 DEF ProcInv, TypeOK
    <3>5. \A d \in Children \ {c} : pipe'[d] = pipe[d] /\ sent'[d] = sent[d] /\ got'[d] = got[d]
      BY <3>1 DEF ProcInv, TypeOK
    <3>6. ~(Entry[c] = "log" /\ Left(c)')
      BY <3>1 DEF ProcInv, LogEndsLast, Left
    <3>7. \A d \in Children : got'[d] \o pipe'[d] = sent'[d]
      BY <3>4, <3>5 DEF Delivered
    <3>8. \A d \in Children : Entry[d] = "log" /\ Left(d)' => pipe'[d] = <<>>
      BY <3>1, <3>5, <3>6 DEF Delivered, Left
    <3> QED
      BY <1>q, <3>7, <3>8
  <2> QED
    BY <2>1, <2>2
<1>6. ASSUME NEW c \in Children, RecvFD(c) PROVE Delivered'
  <2>1. /\ pc[c] = "recv" /\ pipe[c] # <<>>
        /\ got' = [got EXCEPT ![c] = Append(@, Head(pipe[c]))]
        /\ pipe' = [pipe EXCEPT ![c] = Tail(@)]
        /\ pc' = [pc EXCEPT ![c] = IF Entry[c] = "client" THEN "exit" ELSE "recv"]
        /\ UNCHANGED sent
    BY <1>6 DEF RecvFD
  <2>2. got[c] \in Seq(Fds) /\ pipe[c] \in Seq(Fds) /\ got[c] \o pipe[c] = sent[c]
    BY DEF ProcInv, TypeOK, Delivered
  <2>3. Append(got[c], Head(pipe[c])) \o Tail(pipe[c]) = got[c] \o pipe[c]
    BY <2>1, <2>2, MoveHead, Zenon
  <2>4. got'[c] \o pipe'[c] = sent'[c]
    BY <2>1, <2>2, <2>3 DEF ProcInv, TypeOK
  <2>5. \A d \in Children \ {c} : /\ pipe'[d] = pipe[d] /\ got'[d] = got[d]
                                  /\ sent'[d] = sent[d] /\ pc'[d] = pc[d]
    BY <2>1 DEF ProcInv, TypeOK
  <2>6. ~(Entry[c] = "log" /\ Left(c)')
    BY <2>1 DEF ProcInv, TypeOK, Left
  <2>7. \A d \in Children : got'[d] \o pipe'[d] = sent'[d]
    BY <2>4, <2>5 DEF Delivered
  <2>8. \A d \in Children : Entry[d] = "log" /\ Left(d)' => pipe'[d] = <<>>
    BY <2>5, <2>6 DEF Delivered, Left
  <2> QED
    BY <1>q, <2>7, <2>8
<1> QED
  BY <1>2, <1>3, <1>4, <1>5, <1>6, StepCases

(***************************************************************************)
(* What a child has received followed by what is on its way is what was    *)
(* sent, and a log process that has left its loop has received it all.     *)
(***************************************************************************)
THEOREM DeliveredTheorem == Spec => []Delivered
<1>1. ProcInv /\ Delivered /\ [Next]_vars => Delivered'
  BY DeliverStep
<1> QED
  BY <1>1, DeliverInit, ProcInvariant, PTL DEF Spec

-----------------------------------------------------------------------------
LEMMA ProcBlameStep == ProcInv /\ Blame /\ [Next]_vars => Blame'
<1> SUFFICES ASSUME ProcInv, Blame, [Next]_vars PROVE Blame'
  OBVIOUS
<1>1. \A d \in Children : pc[d] = "ended" => pc'[d] = "ended"
  BY StepCases DEF ProcInv, TypeOK, vars, ParentEnds, Fork, ForkFails, SendEnd, SendFD,
     CloseWrite, RecvFD, RecvEnd, ReadStdin, Exit
<1>2. CASE parent' = parent \/ parent' = "ended"
  BY <1>1, <1>2 DEF Blame
<1>3. ASSUME NEW c \in Children, NEW f \in Fds, SendFD(c, f) PROVE Blame'
  <2>1. CASE pc[c] # "ended"
    BY <1>2, <1>3, <2>1 DEF SendFD
  <2>2. CASE pc[c] = "ended"
    <3>1. parent = "runs"
      BY <1>3 DEF SendFD
    <3>2. Entry[c] # "log"
      BY <2>2, <3>1 DEF ProcInv, LogEndsLast, Left
    <3> QED
      BY <1>1, <2>2, <3>2 DEF Blame
  <2> QED
    BY <2>1, <2>2
<1> QED
  BY <1>2, <1>3, StepCases DEF vars, ParentEnds, Fork, ForkFails, SendEnd, CloseWrite, RecvFD,
     RecvEnd, ReadStdin, Exit

(***************************************************************************)
(* SendFD to a log process never kills the parent.                         *)
(***************************************************************************)
THEOREM ProcessBlameTheorem == Spec => []Blame
<1>1. Init => Blame
  BY DEF Init, Blame
<1> QED
  BY <1>1, ProcBlameStep, ProcInvariant, PTL DEF Spec
-----------------------------------------------------------------------------
(***************************************************************************)
(* The children keep each other's pipes open, but never in a circle.       *)
(*                                                                         *)
(* Child c can go on: it has not come to its receive loop yet, has left    *)
(* it, or finds a descriptor or the end of the stream there.               *)
(***************************************************************************)
CanGo(c) ==
  \/ pc[c] \in {"born", "exit"}
  \/ pc[c] = "recv" /\ (pipe[c] # <<>> \/ holders[c] = {})

\* Once the parent is gone and as long as a child is left, one of them can go
\* on, or reads standard input (Process.h:34-45 and 88-107).
NoCircularWait ==
  parent # "runs" /\ (\E c \in Forked : pc[c] # "ended") =>
    \E c \in Forked : CanGo(c) \/ pc[c] = "stdin"

\* A child's stream is held open by nobody but the parent, the child itself
\* and the children forked after it; and "forked after" is an order.
WaitInv ==
  /\ \A c \in Children :
       /\ \A p \in holders[c] : \/ p = Parent /\ parent = "runs" /\ c \in Forked
                                \/ p = c
                                \/ p \in later[c] /\ pc[p] # "ended"
       /\ \A d \in later[c] : later[d] \subseteq later[c]
  /\ IsFiniteSet(Forked)

LEMMA WaitInit == Init => WaitInv
<1> SUFFICES ASSUME Init PROVE WaitInv
  OBVIOUS
<1>1. Forked = {}
  BY DEF Init, Forked
<1> QED
  BY <1>1, FS_EmptySet DEF Init, WaitInv

LEMMA ForkWaits ==
  ASSUME TypeOK, HoldInv, WaitInv, NEW c \in Children, Fork(c)
  PROVE  WaitInv'
<1> USE ProcessAssumption DEF TypeOK
<1>1. /\ parent = "runs" /\ parent' = parent /\ pc[c] = "none" /\ pc'[c] = "born"
      /\ \A d \in Children \ {c} : pc'[d] = pc[d]
  BY DEF Fork
<1>2. \A d \in Children : later'[d] = IF d \in Forked THEN later[d] \cup {c} ELSE later[d]
  BY DEF Fork
<1>3. /\ holders'[c] = {Parent, c}
      /\ \A d \in Children \ {c} :
           holders'[d] = IF Parent \in holders[d] THEN holders[d] \cup {c} ELSE holders[d]
  BY DEF Fork
<1>4. c \notin Forked /\ Forked' = Forked \cup {c}
  BY <1>1 DEF Forked
<1>5. \A d \in Children : /\ d \notin Forked => later[d] = {}
                          /\ \A e \in later[d] : e \in Forked
  BY DEF HoldInv, Forked
<1> HIDE DEF TypeOK
<1>6. later[c] = {} /\ later'[c] = {}
  BY <1>2, <1>4, <1>5
<1>7. IsFiniteSet(Forked')
  BY <1>4, FS_AddElement DEF WaitInv
<1>8. ASSUME NEW d \in Children, NEW p \in holders'[d]
      PROVE  \/ p = Parent /\ parent' = "runs" /\ d \in Forked'
             \/ p = d
             \/ p \in later'[d] /\ pc'[p] # "ended"
  <2>1. CASE d = c
    BY <1>1, <1>3, <1>4, <1>8, <2>1
  <2>2. CASE d # c /\ p = c
    <3>1. Parent \in holders[d] \/ c \in holders[d]
      BY <1>3, <1>8, <2>2
    <3>2. Parent \in holders[d]
      <4>1. c \notin later[d]
        BY <1>4, <1>5
      <4>2. c # Parent
        BY ProcessAssumption
      <4> QED
        BY <2>2, <3>1, <4>1, <4>2 DEF WaitInv
    <3>3. d \in Forked
      <4>1. Parent \notin later[d] /\ Parent # d
        BY <1>5, ProcessAssumption DEF Forked
      <4> QED
        BY <3>2, <4>1 DEF WaitInv
    <3> QED
      BY <1>1, <1>2, <2>2, <3>3
  <2>3. CASE d # c /\ p # c
    <3>1. p \in holders[d]
      BY <1>3, <1>8, <2>3
    <3>2. p \in later[d] => p \in later'[d] /\ p \in Children
      BY <1>2, <1>5 DEF Forked
    <3>3. p \in Children => pc'[p] = pc[p]
      BY <1>1, <2>3
    <3> QED
      BY <1>1, <1>4, <3>1, <3>2, <3>3 DEF WaitInv
  <2> QED
    BY <2>1, <2>2, <2>3
<1>9. ASSUME NEW d \in Children, NEW e \in later'[d] PROVE later'[e] \subseteq later'[d]
  <2>1. CASE e = c
    BY <1>6, <2>1
  <2>2. CASE e # c
    <3>1. e \in later[d] /\ e \in Forked /\ d \in Forked
      <4>1. d \in Forked
        BY <1>2, <1>5, <1>9
      <4>2. later'[d] = later[d] \cup {c}
        BY <1>2, <4>1
      <4>3. e \in later[d]
        BY <1>9, <2>2, <4>2
      <4> QED
        BY <1>5, <4>1, <4>3
    <3>2. e \in Children /\ later[e] \subseteq later[d]
      BY <3>1 DEF WaitInv, Forked
    <3> QED
      BY <1>2, <3>1, <3>2
  <2> QED
    BY <2>1, <2>2
<1> QED
  BY <1>7, <1>8, <1>9 DEF WaitInv

\* A step that forks nobody and gives nobody a descriptor.
LEMMA OtherWaits ==
  ASSUME TypeOK, HoldInv, WaitInv, later' = later, Forked' = Forked,
         \A c \in Children : holders'[c] \subseteq holders[c],
         \A c, d \in Children : d \in holders'[c] /\ pc[d] # "ended" /\ d # c => pc'[d] # "ended",
         parent' = "runs" \/ \A c \in Children : Parent \notin holders'[c],
         parent' = "runs" => parent = "runs"
  PROVE  WaitInv'
<1>1. \A c \in Children : later[c] \subseteq Children
  BY DEF TypeOK
<1> QED
  BY <1>1 DEF WaitInv

LEMMA WaitStep == TypeOK /\ HoldInv /\ WaitInv /\ [Next]_vars => WaitInv'
<1> SUFFICES ASSUME TypeOK, HoldInv, WaitInv, [Next]_vars PROVE WaitInv'
  OBVIOUS
<1> USE ProcessAssumption DEF TypeOK
<1>p. parent # "runs" => \A c \in Children : Parent \notin holders[c]
  BY DEF WaitInv
<1>1. CASE UNCHANGED vars
  BY <1>1 DEF WaitInv, vars, Forked
<1>2. CASE ParentEnds
  BY <1>2, OtherWaits DEF ParentEnds, Without, Forked
<1>3. ASSUME NEW c \in Children, Fork(c) PROVE WaitInv'
  BY <1>3, ForkWaits
<1>4. ASSUME NEW c \in Children, ForkFails(c) PROVE WaitInv'
  <2>1. Forked' = Forked
    BY <1>4 DEF ForkFails, Forked
  <2> QED
    BY <1>4, <1>p, <2>1, OtherWaits DEF ForkFails
<1>5. ASSUME NEW c \in Children, SendEnd(c) PROVE WaitInv'
  BY <1>5 DEF SendEnd, WaitInv, Forked
<1>6. ASSUME NEW c \in Children, NEW f \in Fds, SendFD(c, f) PROVE WaitInv'
  <2>1. Forked' = Forked /\ UNCHANGED <<pc, later>>
    BY <1>6 DEF SendFD, Forked
  <2> QED
    BY <1>6, <1>p, <2>1, OtherWaits DEF SendFD, Without
<1>7. ASSUME NEW c \in Children, CloseWrite(c) PROVE WaitInv'
  <2>1. Forked' = Forked
    BY <1>7 DEF CloseWrite, Forked
  <2> QED
    BY <1>7, <1>p, <2>1, OtherWaits DEF CloseWrite
<1>8. ASSUME NEW c \in Children, RecvFD(c) PROVE WaitInv'
  <2>1. Forked' = Forked
    BY <1>8 DEF RecvFD, Forked
  <2> QED
    BY <1>8, <1>p, <2>1, OtherWaits DEF RecvFD
<1>9. ASSUME NEW c \in Children, RecvEnd(c) \/ ReadStdin(c) PROVE WaitInv'
  <2>1. Forked' = Forked
    BY <1>9 DEF RecvEnd, ReadStdin, Forked
  <2> QED
    BY <1>9, <1>p, <2>1, OtherWaits DEF RecvEnd, ReadStdin
<1>10. ASSUME NEW c \in Children, Exit(c) PROVE WaitInv'
  <2>1. Forked' = Forked
    BY <1>10 DEF Exit, Forked
  <2> QED
    BY <1>10, <1>p, <2>1, OtherWaits DEF Exit, Without
<1> QED
  BY <1>1, <1>2, <1>3, <1>4, <1>5, <1>6, <1>7, <1>8, <1>9, <1>10, StepCases

\* Of the children that are left one was forked last.
LEMMA LastLeft ==
  ASSUME HoldInv, WaitInv, NEW S \in SUBSET Forked, S # {}
  PROVE  \E c \in S : later[c] \cap S = {}
<1> DEFINE behind(c) == later[c] \cap S
           T == {behind(c) : c \in S}
           R == StrictSubsetOrdering(S)
<1>1. S \subseteq Children
  BY DEF Forked
<1>2. IsFiniteSet(S)
  BY FS_Subset DEF WaitInv
<1>3. IsWellFoundedOn(R, SUBSET S)
  BY <1>2, FS_StrictSubsetOrderingWellFounded, FS_FiniteSubsetsOfFinite
<1>4. T \subseteq SUBSET S /\ T # {}
  OBVIOUS
<1>5. PICK x \in T : \A y \in T : ~(<<y, x>> \in R)
  <2> HIDE DEF T, R
  <2> QED
    BY <1>3, <1>4, WFMin
<1>6. PICK c \in S : x = behind(c)
  BY <1>5
<1>7. ASSUME NEW d \in behind(c) PROVE FALSE
  <2>1. d \in Children /\ c \in Children /\ d \in later[c] /\ d \in S
    BY <1>1
  <2>2. behind(d) \subseteq behind(c) /\ d \notin behind(d)
    BY <2>1 DEF WaitInv, HoldInv
  <2>3. <<behind(d), behind(c)>> \in R
    BY <2>2 DEF StrictSubsetOrdering
  <2>4. behind(d) \in T
    BY <2>1
  <2> QED
    BY <1>5, <1>6, <2>3, <2>4
<1> QED
  BY <1>6, <1>7

LEMMA NoCircle == TypeOK /\ HoldInv /\ WaitInv => NoCircularWait
<1> SUFFICES ASSUME TypeOK, HoldInv, WaitInv, parent # "runs", NEW b \in Forked, pc[b] # "ended"
             PROVE  \E c \in Forked : CanGo(c) \/ pc[c] = "stdin"
  BY DEF NoCircularWait
<1> DEFINE S == {c \in Forked : pc[c] # "ended"}
<1>1. PICK c \in S : later[c] \cap S = {}
  <2>1. S \in SUBSET Forked /\ S # {}
    OBVIOUS
  <2> HIDE DEF S
  <2> QED
    BY <2>1, LastLeft
<1>2. c \in Children /\ c \in Forked /\ pc[c] \in {"born", "recv", "stdin", "exit"}
  BY DEF TypeOK, Forked
<1>3. \A p \in later[c] : pc[p] = "ended"
  BY <1>1, <1>2 DEF HoldInv
<1>4. ASSUME pc[c] = "recv", NEW p \in holders[c] PROVE FALSE
  <2>1. \/ p = Parent /\ parent = "runs"
        \/ p = c
        \/ p \in later[c] /\ pc[p] # "ended"
    BY <1>2, <1>4 DEF WaitInv
  <2>2. c \notin holders[c]
    BY <1>2, <1>4 DEF TypeOK
  <2> QED
    BY <1>3, <1>4, <2>1, <2>2
<1> QED
  BY <1>2, <1>4 DEF CanGo

(***************************************************************************)
(* The safety core of NoneLeftBehind, for any number of children: the one  *)
(* that was forked last of those that are left waits for nobody.           *)
(***************************************************************************)
THEOREM NoCircularWaitTheorem == Spec => []NoCircularWait
<1>1. ProcInv => TypeOK /\ HoldInv
  BY DEF ProcInv
<1> QED
  BY <1>1, ProcInvariant, WaitInit, WaitStep, NoCircle, PTL DEF Spec
=============================================================================
