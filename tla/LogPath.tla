------------------------------ MODULE LogPath ------------------------------
(***************************************************************************)
(* The path ./log/server.sock, shared by every CLoggerServer started in    *)
(* one directory: by one program after another, after a crash, or by two   *)
(* programs at once.  Start binds the path; CSocketBase::Close removes     *)
(* whatever is found under it, also when bind has failed because somebody  *)
(* else is there.  A killed process leaves its path behind.  A thread      *)
(* connects in its first Trace and never again.                            *)
(*                                                                         *)
(* What the servers do with their connections is the matter of LogServer.  *)
(***************************************************************************)
EXTENDS Naturals

CONSTANTS
  Servers,    \* runs of CreateLogServer, each a process with one CLoggerServer
  Threads,    \* threads that call Trace
  Hazards,    \* which of the PathHazards a run lets happen
  None        \* nobody; no file

PathHazards == {"kill",   \* a log process is killed
                "fail"}   \* a step of Start other than bind fails

ASSUME PathAssumption == None \notin Servers /\ Hazards \subseteq PathHazards

VARIABLES
  path,       \* the server that bound the file now at ./log/server.sock
  pc,         \* place of CreateLogServer
  sock,       \* m_server's socket
  client,     \* the thread_local CSocket of Trace
  found       \* history: whose file a failing bind of s found

vars == <<path, pc, sock, client, found>>

Init ==
  /\ path = None
  /\ pc = [s \in Servers |-> "new"]
  /\ sock = [s \in Servers |-> "none"]
  /\ client = [a \in Threads |-> "none"]
  /\ found = [s \in Servers |-> None]

To(s, place) == pc' = [pc EXCEPT ![s] = place]
Sock(s, state) == sock' = [sock EXCEPT ![s] = state]

-----------------------------------------------------------------------------
(* Start.  What fails before m_server exists returns at once; the rest     *)
(* calls Close.  Nobody looks at Start's result: "idle" waits in RecvFD.   *)

\* mkdir, fopen of the log file and m_epoll.Create; -2 and -3.
StartOpen(s) ==
  /\ pc[s] = "new"
  /\ \/ To(s, "opened")
     \/ "fail" \in Hazards /\ To(s, "idle")
  /\ UNCHANGED <<path, sock, client, found>>

\* socket; without a descriptor Close has nothing to unlink.
StartSocket(s) ==
  /\ pc[s] = "opened"
  /\ \/ To(s, "socket") /\ Sock(s, "unbound")
     \/ "fail" \in Hazards /\ To(s, "idle") /\ UNCHANGED sock
  /\ UNCHANGED <<path, client, found>>

\* slip: Start removes what is in the way and binds.
BindUnlinks(s) ==
  /\ pc[s] = "socket"
  /\ path' = s /\ To(s, "bound") /\ Sock(s, "bound")
  /\ UNCHANGED <<client, found>>

\* bind fails if there is a file, living or left behind.  (The directory
\* can be written to: fopen has just created a file there.)
Bind(s) ==
  /\ pc[s] = "socket"
  /\ \/ /\ path = None
        /\ path' = s /\ To(s, "bound") /\ Sock(s, "bound")
        /\ UNCHANGED found
     \/ /\ path # None
        /\ found' = [found EXCEPT ![s] = path]
        /\ To(s, "undo")
        /\ UNCHANGED <<path, sock>>
  /\ UNCHANGED client

\* slip: bind alone, nobody can connect.
ListenForgotten(s) ==
  /\ pc[s] = "bound"
  /\ To(s, "listening")
  /\ UNCHANGED <<path, sock, client, found>>

Listen(s) ==
  /\ pc[s] = "bound"
  /\ \/ To(s, "listening") /\ Sock(s, "listening")
     \/ "fail" \in Hazards /\ To(s, "undo") /\ UNCHANGED sock
  /\ UNCHANGED <<path, client, found>>

\* m_epoll.Add and m_thread.Start; Start returns 0.
Serve(s) ==
  /\ pc[s] = "listening"
  /\ \/ To(s, "serving")
     \/ "fail" \in Hazards /\ To(s, "undo")
  /\ UNCHANGED <<path, sock, client, found>>

-----------------------------------------------------------------------------
(* Close and the end of CreateLogServer.                                   *)

\* The parent is gone, RecvFD returns and Close is called.
CallClose(s) ==
  /\ pc[s] = "serving"
  /\ To(s, "end")
  /\ UNCHANGED <<path, sock, client, found>>

\* slip: a server that could not bind keeps its hands off the path.
UnlinkOwn(s) ==
  /\ pc[s] \in {"undo", "end"}
  /\ path' = IF path = s THEN None ELSE path
  /\ To(s, IF pc[s] = "undo" THEN "undone" ELSE "ended")
  /\ UNCHANGED <<sock, client, found>>

\* delete of m_server: unlink of m_param.ip, whoever's file that is ...
Unlink(s) ==
  /\ pc[s] \in {"undo", "end"}
  /\ path' = None
  /\ To(s, IF pc[s] = "undo" THEN "undone" ELSE "ended")
  /\ UNCHANGED <<sock, client, found>>

\* slip: the descriptor is forgotten.
CloseForgotten(s) ==
  /\ pc[s] \in {"undone", "ended"}
  /\ To(s, IF pc[s] = "undone" THEN "idle" ELSE "exited")
  /\ UNCHANGED <<path, sock, client, found>>

\* ... then close of m_socket.
CloseSocket(s) ==
  /\ pc[s] \in {"undone", "ended"}
  /\ Sock(s, "none")
  /\ To(s, IF pc[s] = "undone" THEN "idle" ELSE "exited")
  /\ UNCHANGED <<path, client, found>>

\* The parent of a server that does not serve is gone: m_server is null, so
\* Close leaves the path alone.
Exit(s) ==
  /\ pc[s] = "idle"
  /\ To(s, "exited")
  /\ UNCHANGED <<path, sock, client, found>>

\* The kernel closes the socket of a killed process and keeps the file.
Kill(s) ==
  /\ "kill" \in Hazards
  /\ pc[s] \notin {"new", "exited", "killed"}
  /\ To(s, "killed") /\ Sock(s, "none")
  /\ UNCHANGED <<path, client, found>>

-----------------------------------------------------------------------------
\* connect finds a listening socket at the path.
Reachable == \E s \in Servers : path = s /\ sock[s] = "listening"

\* The first Trace of thread a: Init, then Link, whose result is ignored.
\* From then on client # -1, so a thread that could not connect stays mute.
Trace(a) ==
  /\ client[a] = "none"
  /\ client' = [client EXCEPT ![a] = IF Reachable THEN "linked" ELSE "mute"]
  /\ UNCHANGED <<path, pc, sock, found>>

Start(s) == StartOpen(s) \/ StartSocket(s) \/ Bind(s) \/ Listen(s) \/ Serve(s)

Close(s) == Unlink(s) \/ CloseSocket(s)

Next ==
  \/ \E s \in Servers : Start(s) \/ CallClose(s) \/ Close(s) \/ Exit(s) \/ Kill(s)
  \/ \E a \in Threads : Trace(a)

Spec == Init /\ [][Next]_vars

\* A Start once begun and a Close once called go on.
FairSpec ==
  /\ Spec
  /\ \A s \in Servers : WF_vars(pc[s] # "new" /\ Start(s)) /\ WF_vars(Close(s))

-----------------------------------------------------------------------------
TypeOK ==
  /\ path \in Servers \cup {None}
  /\ pc \in [Servers -> {"new", "opened", "socket", "bound", "listening", "serving", "undo",
                         "undone", "end", "ended", "idle", "exited", "killed"}]
  /\ sock \in [Servers -> {"none", "unbound", "bound", "listening"}]
  /\ client \in [Threads -> {"none", "linked", "mute"}]
  /\ found \in [Servers -> Servers \cup {None}]
  /\ \A s \in Servers :
       sock[s] = "none" <=> pc[s] \in {"new", "opened", "idle", "exited", "killed"}

(***************************************************************************)
(* A file without a server is there only after a kill, and goes with the   *)
(* undo of the first Start that failed on it: it never comes back.  So     *)
(* after a crash the log server does not come up the first time and does   *)
(* the second time (Logger.cpp:42-46), if the first Start has been undone  *)
(* before the second binds.  Starts that overlap, or that are killed       *)
(* before their undo, may each fail on the same file.                      *)
(***************************************************************************)
StaleOnce ==
  \A o \in Servers : path = o =>
    /\ sock[o] = "none" => pc[o] = "killed"
    /\ \A s \in Servers : found[s] = o => pc[s] \in {"undo", "killed"}

(***************************************************************************)
(* A server that has bound the path and not given it up keeps it, unless   *)
(* some Start has failed in bind: no sequence of starts, failures of other *)
(* steps, kills and closes takes it away before that (Socket.cpp:72-74).   *)
(***************************************************************************)
Holding(s) == \/ pc[s] \in {"bound", "listening", "serving", "end"}
              \/ pc[s] = "undo" /\ found[s] = None

Collision == \E s \in Servers : found[s] # None

TakenByCollision == \A s \in Servers : Holding(s) => path = s \/ Collision

(***************************************************************************)
(* While a log server serves, a thread that traces for the first time      *)
(* becomes mute only if a Start has collided before: Trace, which never    *)
(* tries a second time (Logger.cpp:233, 258), is otherwise always in time. *)
(***************************************************************************)
MuteNeedsCollision ==
  [][\A a \in Threads :
       client'[a] = "mute" /\ client[a] # "mute" /\ (\E s \in Servers : pc[s] = "serving")
         => Collision]_vars

(***************************************************************************)
(* A Start that fails on somebody's file removes that file in the end.     *)
(***************************************************************************)
CollisionClears ==
  \A s, o \in Servers : found[s] = o ~> path # o \/ pc[s] = "killed"
=============================================================================
