---------------------------- MODULE ServerProcess ----------------------------
(***************************************************************************)
(* The server's process from run-server to its end: main parses, checks    *)
(* and configures (ServerStart), makes its listening socket, installs its  *)
(* signal handlers, and serves until accept fails or a signal comes        *)
(* (SignalShutdown), or over stdin and stdout for ever (StdioSession).     *)
(* The modules meet in the MsgIO constructors, which are the last step of  *)
(* the first one and the first of the others.  A signal may come from the  *)
(* moment the program runs.                                                *)
(***************************************************************************)
EXTENDS ServerStart

VARIABLES main, inAlloc, installed, ls, conn, s, msgio, stack, process, clash
VARIABLES relay, server, held, up, eof, client, down, got, verdict, failed

D == INSTANCE SignalShutdown
T == INSTANCE StdioSession

shutdownVars == <<main, inAlloc, installed, ls, conn, s, msgio, stack, process, clash>>
stdioVars == <<relay, server, held, up, eof, client, down, got, verdict, failed>>

\* The words are parsed, checked, and the connection to IAS is configured.  An
\* exit of main is the end of the process.
StartUp ==
  /\ process = "running"
  /\ Next
  /\ pc # "listen"
  /\ UNCHANGED <<shutdownVars, stdioVars>>

\* Bound: the life of a server is followed for the unedited files only, as main
\* looks at none of them any more.
Unedited == script /\ edited = {}

\* A server over stdin and stdout makes a MsgIO without a socket.  Bound: its
\* signals are not followed.
ListenStdio ==
  /\ process = "running"
  /\ config.stdio
  /\ Listen
  /\ IF Unedited THEN T!Construct ELSE UNCHANGED stdioVars
  /\ UNCHANGED shutdownVars

\* main's loop over stdin and stdout, with its clients.
ServeStdio == T!Next /\ UNCHANGED <<vars, shutdownVars>>

\* new MsgIO(NULL, port): both modules' step, with the same result.
ListenSocket ==
  /\ ~config.stdio
  /\ Listen
  /\ D!Construct
  /\ pc' = "serving" <=> process' = "running"
  /\ UNCHANGED stdioVars

Followed == pc = "serving" /\ Unedited /\ args = <<>>

Serve ==
  /\ Followed
  /\ main # "begin"
  /\ D!Main \/ D!Handler
  /\ UNCHANGED <<vars, stdioVars>>

Signal ==
  /\ pc \notin {"editing", "exited"}
  /\ pc = "serving" => Followed
  /\ \E n \in DOMAIN D!Signals : D!Deliver(D!Signals[n])
  /\ UNCHANGED <<vars, stdioVars>>

ProcessInit == Init /\ D!Init /\ T!Init

ProcessNext == StartUp \/ ListenStdio \/ ListenSocket \/ Serve \/ ServeStdio \/ Signal

processVars == <<vars, shutdownVars, stdioVars>>

\* A handler is never preempted but by another one.  Over stdin and stdout a line
\* that is there is read, and an operator pastes what he is shown.
ProcessSpec ==
  /\ ProcessInit /\ [][ProcessNext]_processVars
  /\ WF_processVars(Serve /\ D!Handler)
  /\ WF_processVars(ServeStdio /\ T!Server)
  /\ WF_processVars(ServeStdio /\ T!Client)
  /\ WF_processVars(ServeStdio /\ T!Paste)

-----------------------------------------------------------------------------
(* Properties *)

\* The handlers of main exist to shut down the listening socket before the
\* process exits.  Whatever main was doing and however handlers stack, exit is
\* only reached with both sockets shut down, but for a connection accept had
\* returned and server_loop had not stored; and a signal that still has its
\* default action finds no listening socket but in the few steps between the
\* MsgIO constructor and the last sigaction.
GracefulShutdown ==
  /\ D!GracefulShutdown
  /\ process = "killed" /\ ls # "none" => main = "install"

\* cleanup_and_exit goes wrong in two windows only: main was inside the
\* allocator, or another signal came when the first handler had freed msgio.
OnlyTwoWindows == D!OnlyTwoWindows

\* A signal whose handler runs ends the process, or hangs it for good.
SignalEnds == D!SignalEnds

\* Over stdin and stdout a client gets its own status and not its ciphertext.
StdioOnlyTheStatus == T!OnlyTheStatus

\* Over stdin and stdout a client waits for ever only when its session failed, or
\* when it was refused over a pipe.
StdioClientsFinish == T!ClientsFinish
=============================================================================
