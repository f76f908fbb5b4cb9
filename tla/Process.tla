------------------------------ MODULE Process ------------------------------
(***************************************************************************)
(* CProcess: a parent forks children and passes descriptors to each over a *)
(* socketpair.  pipes[1], the parent's end, is inherited by every child    *)
(* that is forked later, and nobody closes the inherited copies: a child   *)
(* that waits for the end of its stream waits for all of these processes.  *)
(*                                                                         *)
(* What a child runs is one of the entry functions of the repository:      *)
(*   "log"     CreateLogServer, which receives until it gets fd <= 0;      *)
(*   "client"  CreateClientServer, which receives once and reads from it;  *)
(*   "null"    the one CServer::Init binds to m_business, which is null.   *)
(***************************************************************************)
EXTENDS Naturals, Sequences

CONSTANTS
  Children,   \* CProcess objects of the parent
  Entry,      \* Entry[c]: what SetEntryFunction is given
  Fds,        \* descriptors the parent passes
  MaxSends,   \* bound: descriptors sent to one child
  Capacity,   \* messages that fit into one socketpair
  Parent      \* the parent as the holder of a descriptor

ASSUME ProcessAssumption ==
  /\ Entry \in [Children -> {"log", "client", "null"}]
  /\ MaxSends \in Nat /\ Capacity \in Nat \ {0}
  /\ Parent \notin Children

VARIABLES
  parent,     \* "runs", "ended", or "killed" by SIGPIPE
  pc,         \* pc[c]: place of child c
  holders,    \* holders[c]: processes with a copy of c's pipes[1]
  pipe,       \* pipe[c]: descriptors on their way to c
  got,        \* got[c]: descriptors RecvFD has returned to c
  sent,       \* history: sent[c] is what SendFD has sent
  later,      \* history: later[c] are the children forked after c
  signalled   \* history: SendFD(-1) has been called for c

vars == <<parent, pc, holders, pipe, got, sent, later, signalled>>

Init ==
  /\ parent = "runs"
  /\ pc = [c \in Children |-> "none"]
  /\ holders = [c \in Children |-> {}]
  /\ pipe = [c \in Children |-> <<>>]
  /\ got = [c \in Children |-> <<>>]
  /\ sent = [c \in Children |-> <<>>]
  /\ later = [c \in Children |-> {}]
  /\ signalled = [c \in Children |-> FALSE]

\* Children that have been forked, whether they still run or not.
Forked == {c \in Children : pc[c] \notin {"none", "failed"}}

\* The end of process p: the kernel closes its descriptors.
Without(p) == [c \in Children |-> holders[c] \ {p}]

-----------------------------------------------------------------------------
(* The parent.                                                             *)

\* slip: the new child closes the ends it has inherited.
ForkClosesOthers(c) ==
  /\ parent = "runs" /\ pc[c] = "none"
  /\ pc' = [pc EXCEPT ![c] = "born"]
  /\ holders' = [holders EXCEPT ![c] = {Parent, c}]
  /\ later' = [d \in Children |-> IF d \in Forked THEN later[d] \cup {c} ELSE later[d]]
  /\ UNCHANGED <<parent, pipe, got, sent, signalled>>

\* CreateSubProcess: both processes have pipes[1] until the child closes it,
\* and the child has a copy of all the parent's earlier ones.
Fork(c) ==
  /\ parent = "runs" /\ pc[c] = "none"
  /\ pc' = [pc EXCEPT ![c] = "born"]
  /\ holders' = [d \in Children |->
                   IF d = c THEN {Parent, c}
                   ELSE IF Parent \in holders[d] THEN holders[d] \cup {c} ELSE holders[d]]
  /\ later' = [d \in Children |-> IF d \in Forked THEN later[d] \cup {c} ELSE later[d]]
  /\ UNCHANGED <<parent, pipe, got, sent, signalled>>

\* socketpair or fork fails; its callers give up.
ForkFails(c) ==
  /\ parent = "runs" /\ pc[c] = "none"
  /\ pc' = [pc EXCEPT ![c] = "failed"]
  /\ UNCHANGED <<parent, holders, pipe, got, sent, later, signalled>>

\* SendFD of a descriptor.  sendmsg waits for room; when the child is gone it
\* raises SIGPIPE, which nobody handles.
SendFD(c, f) ==
  /\ parent = "runs" /\ c \in Forked
  /\ \/ /\ pc[c] # "ended" /\ Len(pipe[c]) < Capacity /\ Len(sent[c]) < MaxSends
        /\ pipe' = [pipe EXCEPT ![c] = Append(@, f)]
        /\ sent' = [sent EXCEPT ![c] = Append(@, f)]
        /\ UNCHANGED <<parent, holders>>
     \/ /\ pc[c] = "ended"
        /\ parent' = "killed" /\ holders' = Without(Parent)
        /\ UNCHANGED <<pipe, sent>>
  /\ UNCHANGED <<pc, got, later, signalled>>

\* SendFD(-1): the kernel refuses to pass descriptor -1, so sendmsg fails and
\* nothing is sent.  OldTest calls it for the log server, CServer::Close for
\* its child; both ignore the result.
SendEnd(c) ==
  /\ parent = "runs" /\ c \in Forked /\ Entry[c] # "client" /\ ~signalled[c]
  /\ signalled' = [signalled EXCEPT ![c] = TRUE]
  /\ UNCHANGED <<parent, pc, holders, pipe, got, sent, later>>

\* The parent returns from main, early or late.
ParentEnds ==
  /\ parent = "runs"
  /\ parent' = "ended" /\ holders' = Without(Parent)
  /\ UNCHANGED <<pc, pipe, got, sent, later, signalled>>

-----------------------------------------------------------------------------
(* Child c.                                                                *)

\* slip: the child keeps its copy of pipes[1].
CloseWriteForgotten(c) ==
  /\ pc[c] = "born"
  /\ pc' = [pc EXCEPT ![c] = IF Entry[c] = "null" THEN "exit" ELSE "recv"]
  /\ UNCHANGED <<parent, holders, pipe, got, sent, later, signalled>>

\* close(pipes[1]), then the entry function: a virtual call through a null
\* pointer ends the child, the others go on to RecvFD.
CloseWrite(c) ==
  /\ pc[c] = "born"
  /\ holders' = [holders EXCEPT ![c] = @ \ {c}]
  /\ pc' = [pc EXCEPT ![c] = IF Entry[c] = "null" THEN "exit" ELSE "recv"]
  /\ UNCHANGED <<parent, pipe, got, sent, later, signalled>>

\* slip: the log server ends its loop at any message.
RecvFDOnce(c) ==
  /\ pc[c] = "recv" /\ pipe[c] # <<>>
  /\ got' = [got EXCEPT ![c] = Append(@, Head(pipe[c]))]
  /\ pipe' = [pipe EXCEPT ![c] = Tail(@)]
  /\ pc' = [pc EXCEPT ![c] = "exit"]
  /\ UNCHANGED <<parent, holders, sent, later, signalled>>

\* RecvFD returns a descriptor: "log" receives the next one, "client" reads
\* a file and ends.  A message that arrives at a full descriptor table comes
\* without its descriptor, RecvFD returns 0 (Process.h:97-102) and "log" would
\* leave its loop (main.cpp:32).  Left out: no caller sends the log process a
\* descriptor, and the client receives once.  Business has that case.
RecvFD(c) ==
  /\ pc[c] = "recv" /\ pipe[c] # <<>>
  /\ got' = [got EXCEPT ![c] = Append(@, Head(pipe[c]))]
  /\ pipe' = [pipe EXCEPT ![c] = Tail(@)]
  /\ pc' = [pc EXCEPT ![c] = IF Entry[c] = "client" THEN "exit" ELSE "recv"]
  /\ UNCHANGED <<parent, holders, sent, later, signalled>>

\* recvmsg reports the end of the stream as success without a descriptor, and
\* RecvFD returns the 0 of its zeroed buffer: "log" leaves its loop, "client"
\* takes 0 for the descriptor it was sent and reads standard input.
RecvEnd(c) ==
  /\ pc[c] = "recv" /\ pipe[c] = <<>> /\ holders[c] = {}
  /\ pc' = [pc EXCEPT ![c] = IF Entry[c] = "client" THEN "stdin" ELSE "exit"]
  /\ UNCHANGED <<parent, holders, pipe, got, sent, later, signalled>>

\* Somebody types a line.
ReadStdin(c) ==
  /\ pc[c] = "stdin"
  /\ pc' = [pc EXCEPT ![c] = "exit"]
  /\ UNCHANGED <<parent, holders, pipe, got, sent, later, signalled>>

\* The rest of the entry function, and exit.
Exit(c) ==
  /\ pc[c] = "exit"
  /\ pc' = [pc EXCEPT ![c] = "ended"] /\ holders' = Without(c)
  /\ UNCHANGED <<parent, pipe, got, sent, later, signalled>>

-----------------------------------------------------------------------------
ChildStep(c) == CloseWrite(c) \/ RecvFD(c) \/ RecvEnd(c) \/ Exit(c)

ParentStep(c) ==
  Fork(c) \/ ForkFails(c) \/ SendEnd(c) \/ \E f \in Fds : SendFD(c, f)

Next ==
  \/ ParentEnds
  \/ \E c \in Children : ParentStep(c) \/ ChildStep(c) \/ ReadStdin(c)

Spec == Init /\ [][Next]_vars

\* The children are scheduled.  Nothing makes the parent act or end, and
\* nobody has to type.
FairSpec == Spec /\ \A c \in Children : WF_vars(ChildStep(c))

-----------------------------------------------------------------------------
TypeOK ==
  /\ parent \in {"runs", "ended", "killed"}
  /\ pc \in [Children -> {"none", "failed", "born", "recv", "stdin", "exit", "ended"}]
  /\ holders \in [Children -> SUBSET (Children \cup {Parent})]
  /\ pipe \in [Children -> Seq(Fds)]
  /\ got \in [Children -> Seq(Fds)]
  /\ sent \in [Children -> Seq(Fds)]
  /\ later \in [Children -> SUBSET Children]
  /\ signalled \in [Children -> BOOLEAN]
  /\ \A c \in Children : c \in holders[c] => pc[c] = "born"

\* c's entry function has left its receive loop.
Left(c) == pc[c] \in {"stdin", "exit", "ended"}

(***************************************************************************)
(* The log process (main.cpp:20-33) serves as long as anybody forked after *)
(* it, or the parent, can still call Trace: it ends last.  This rests on   *)
(* nobody closing the inherited pipes[1], which CreateSubProcess           *)
(* (Process.h:34-45) could be expected to do.                              *)
(***************************************************************************)
LogEndsLast ==
  \A c \in Children :
    Entry[c] = "log" /\ Left(c) =>
      parent # "runs" /\ \A d \in later[c] : pc[d] = "ended"

(***************************************************************************)
(* Descriptors reach a child in the order of SendFD, none twice, none      *)
(* dropped between the processes; and a log process leaves none unread,    *)
(* although the end of the stream, a failed SendFD(-1) and the end of the  *)
(* parent all look alike to it.                                            *)
(***************************************************************************)
Delivered ==
  \A c \in Children :
    /\ got[c] \o pipe[c] = sent[c]
    /\ Entry[c] = "log" /\ Left(c) => pipe[c] = <<>>

(***************************************************************************)
(* SIGPIPE in SendFD (Process.h:70) needs a child whose entry function is  *)
(* not the log server's: the one that receives once, or the one bound to   *)
(* null (Server.cpp:19).                                                   *)
(***************************************************************************)
Blame ==
  parent = "killed" => \E c \in Children : pc[c] = "ended" /\ Entry[c] # "log"

(***************************************************************************)
(* When the parent has gone every child ends, in whatever order they were  *)
(* forked, although they keep each other's pipes open; unless a client     *)
(* that was never sent its descriptor waits for somebody to type.          *)
(***************************************************************************)
NoneLeftBehind ==
  parent # "runs" ~> \/ \A c \in Forked : pc[c] = "ended"
                     \/ \E c \in Forked : pc[c] = "stdin"

(***************************************************************************)
(* main.cpp:21 says of the log process that it waits for the main process  *)
(* to send the termination signal, which is SendFD(-1) at main.cpp:281.    *)
(***************************************************************************)
SignalEnds ==
  \A c \in Children : Entry[c] = "log" /\ signalled[c] ~> pc[c] = "ended"
=============================================================================
