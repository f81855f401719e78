--------------------------- MODULE SignalShutdown ---------------------------
(***************************************************************************)
(* The server's process and the signals that end it: main's listening and  *)
(* session sockets, and cleanup_and_exit (service-provider/sp.cpp), which  *)
(* deletes msgio, that is runs the destructor of MsgIO (msgio.cpp), frees  *)
(* its two strings and itself, and calls exit.                             *)
(*                                                                         *)
(* The handler runs on top of whatever main was doing, and sa_mask is      *)
(* empty: a signal only blocks itself, so up to four handlers can stack.   *)
(* A handler that frees while main is inside the allocator, or that meets  *)
(* a freed msgio, is undefined behaviour: it may do no harm, hang or crash.*)
(***************************************************************************)
EXTENDS Naturals, Sequences

VARIABLES
  main,       \* where main is, below the handlers
  inAlloc,    \* main is inside malloc or free
  installed,  \* how many of the handlers main has installed
  ls,         \* the listening socket: none, open, shut down, or closed only
  conn,       \* the connection accept made, as the kernel sees it
  s,          \* MsgIO::s: no socket, a socket, or the number of a closed one
  msgio,      \* the MsgIO object
  stack,      \* the handlers that run, the last one on top
  process,    \* the process as its parent sees it
  clash       \* history: a handler has entered the allocator while main was in it

mainVars == <<main, inAlloc, installed>>
vars == <<mainVars, ls, conn, s, msgio, stack, process, clash>>

\* In the order main installs their handlers.
Signals == <<"SIGHUP", "SIGINT", "SIGTERM", "SIGQUIT">>

Handled(sig)  == \E n \in 1 .. installed : Signals[n] = sig
Blocked(sig)  == \E n \in DOMAIN stack : stack[n].sig = sig
MainRuns == process = "running" /\ stack = <<>>
Idle     == MainRuns /\ ~inAlloc
Top      == stack[Len(stack)]

-----------------------------------------------------------------------------
(* main *)

\* new MsgIO(NULL, port): getaddrinfo, socket, bind and listen, or main returns 1.
Construct ==
  /\ Idle /\ main = "begin"
  /\ \/ /\ main' = "install" /\ ls' = "open" /\ msgio' = "live"
        /\ UNCHANGED process
     \/ /\ process' = "returned"
        /\ UNCHANGED <<main, ls, msgio>>
  /\ UNCHANGED <<inAlloc, installed, conn, s, stack, clash>>

\* One of the four calls of sigaction; a failing one is only reported.
Install ==
  /\ Idle /\ main = "install"
  /\ installed' = installed + 1
  /\ main' = IF installed' = Len(Signals) THEN "loop" ELSE "install"
  /\ UNCHANGED <<inAlloc, ls, conn, s, msgio, stack, process, clash>>

\* main calls and leaves malloc and free everywhere, in the loop, in a session
\* and in crypto_destroy.
EnterAllocator ==
  /\ Idle /\ main \in {"loop", "session", "leaving"}
  /\ inAlloc' = TRUE
  /\ UNCHANGED <<main, installed, ls, conn, s, msgio, stack, process, clash>>

LeaveAllocator ==
  /\ MainRuns /\ inAlloc
  /\ inAlloc' = FALSE
  /\ UNCHANGED <<main, installed, ls, conn, s, msgio, stack, process, clash>>

\* accept has returned inside server_loop; its result is stored a step later.
AcceptReturns ==
  /\ Idle /\ main = "loop"
  /\ main' = "accepted"
  /\ conn' = "open"
  /\ UNCHANGED <<inAlloc, installed, ls, s, msgio, stack, process, clash>>

StoreSocket ==
  /\ Idle /\ main = "accepted"
  /\ main' = "session"
  /\ s' = "socket"
  /\ UNCHANGED <<inAlloc, installed, ls, conn, msgio, stack, process, clash>>

\* accept fails: s is -1, ls is closed but keeps its number, and the loop ends.
AcceptFails ==
  /\ Idle /\ main = "loop"
  /\ main' = "leaving"
  /\ s' = "none"
  /\ ls' = "closed"
  /\ UNCHANGED <<inAlloc, installed, conn, msgio, stack, process, clash>>

\* MsgIO::disconnect shuts the socket down, closes it and keeps its number.
Disconnect ==
  /\ Idle /\ main = "session"
  /\ main' = "loop"
  /\ conn' = "shut"
  /\ s' = "stale"
  /\ UNCHANGED <<inAlloc, installed, ls, msgio, stack, process, clash>>

\* main returns 0; msgio is never deleted.
Return ==
  /\ Idle /\ main = "leaving"
  /\ process' = "returned"
  /\ UNCHANGED <<mainVars, ls, conn, s, msgio, stack, clash>>

-----------------------------------------------------------------------------
(* Signals and their handler *)

\* A signal with no handler yet has its default action.
Deliver(sig) ==
  /\ process = "running"
  /\ ~Blocked(sig)
  /\ \/ /\ Handled(sig)
        /\ stack' = Append(stack, [sig |-> sig, at |-> "session"])
        /\ UNCHANGED process
     \/ /\ ~Handled(sig)
        /\ process' = "killed"
        /\ UNCHANGED stack
  /\ UNCHANGED <<mainVars, ls, conn, s, msgio, clash>>

\* The handler on top is at a step of cleanup_and_exit, and goes to the next one.
At(step)   == process = "running" /\ stack # <<>> /\ Top.at = step
GoTo(step) == stack' = [stack EXCEPT ![Len(stack)].at = step]

\* The destructor's two halves.  They read s and ls, which a handler below may
\* have freed.
ReadsMsgio == process' \in IF msgio = "freed" THEN {"running", "crashed"} ELSE {"running"}

\* MUTANT of CloseSession: the object is freed before the listening socket is closed.
CloseSessionFrees ==
  /\ At("session") /\ GoTo("listener")
  /\ conn' = IF s = "socket" THEN "shut" ELSE conn
  /\ msgio' = "freed"
  /\ ReadsMsgio
  /\ UNCHANGED <<mainVars, ls, s, clash>>

\* The number of a closed socket may be that of the connection accept has just made.
CloseSession ==
  /\ At("session") /\ GoTo("listener")
  /\ conn' \in CASE s = "socket" -> {"shut"}
                 [] s = "stale"  -> {conn, "shut"}
                 [] s = "none"   -> {conn}
  /\ ReadsMsgio
  /\ UNCHANGED <<mainVars, ls, s, msgio, clash>>

\* MUTANT of CloseListener: only the session's socket is shut down.
CloseListenerNot ==
  /\ At("listener") /\ GoTo("free")
  /\ ReadsMsgio
  /\ UNCHANGED <<mainVars, ls, conn, s, msgio, clash>>

CloseListener ==
  /\ At("listener") /\ GoTo("free")
  /\ ls' = IF ls = "open" THEN "shut" ELSE ls
  /\ ReadsMsgio
  /\ UNCHANGED <<mainVars, conn, s, msgio, clash>>

\* The rest of delete: rbuffer, wbuffer and the object go back to the allocator.
Free ==
  /\ At("free") /\ GoTo("exit")
  /\ msgio' = "freed"
  /\ clash' = (clash \/ inAlloc)
  /\ process' \in IF inAlloc \/ msgio = "freed" THEN {"running", "hung", "crashed"}
                  ELSE {"running"}
  /\ UNCHANGED <<mainVars, ls, conn, s>>

\* MUTANT of Exit: the handler returns.
ExitReturns ==
  /\ At("exit")
  /\ stack' = SubSeq(stack, 1, Len(stack) - 1)
  /\ UNCHANGED <<mainVars, ls, conn, s, msgio, process, clash>>

Exit ==
  /\ At("exit")
  /\ process' = "exited"
  /\ UNCHANGED <<mainVars, ls, conn, s, msgio, stack, clash>>

-----------------------------------------------------------------------------
Init ==
  /\ main = "begin"
  /\ inAlloc = FALSE
  /\ installed = 0
  /\ ls = "none"
  /\ conn = "none"
  /\ s = "none"
  /\ msgio = "none"
  /\ stack = <<>>
  /\ process = "running"
  /\ clash = FALSE

Main ==
  \/ Construct \/ Install \/ EnterAllocator \/ LeaveAllocator
  \/ AcceptReturns \/ StoreSocket \/ AcceptFails \/ Disconnect \/ Return

Handler == CloseSession \/ CloseListener \/ Free \/ Exit

Next == Main \/ Handler \/ \E n \in DOMAIN Signals : Deliver(Signals[n])

Spec == Init /\ [][Next]_vars

\* A handler is never preempted but by another one.
FairSpec == Spec /\ WF_vars(Handler)

-----------------------------------------------------------------------------
(* Properties *)

\* The states of main, of its sockets and of the handlers on top of it.
TypeOK ==
  /\ main \in {"begin", "install", "loop", "accepted", "session", "leaving"}
  /\ inAlloc \in BOOLEAN
  /\ installed \in 0 .. Len(Signals)
  /\ ls \in {"none", "open", "shut", "closed"}
  /\ conn \in {"none", "open", "shut"}
  /\ s \in {"none", "socket", "stale"}
  /\ msgio \in {"none", "live", "freed"}
  /\ \A n \in DOMAIN stack :
       stack[n] \in [sig : {Signals[m] : m \in DOMAIN Signals},
                     at : {"session", "listener", "free", "exit"}]
  /\ process \in {"running", "returned", "exited", "killed", "crashed", "hung"}
  /\ clash \in BOOLEAN

\* sp.cpp:695: the handlers exist to shut down the listening socket before the
\* process exits.  Whatever main was doing and however the handlers stack, exit
\* is only reached with both sockets shut down, but for a connection accept had
\* returned and server_loop had not stored.
GracefulShutdown ==
  process = "exited" => /\ ls \in {"shut", "closed"}
                        /\ conn = "open" => main = "accepted"

\* cleanup_and_exit goes wrong in two windows only: main was inside the
\* allocator, or another of the four signals came when the first handler had
\* freed msgio and was in exit.
OnlyTwoWindows ==
  process \in {"crashed", "hung"} =>
    clash \/ \E m, n \in DOMAIN stack : m < n /\ stack[m].at = "exit"

\* A signal that is delivered ends the process, or hangs it for good: main never
\* goes on after cleanup_and_exit has begun to take msgio from it.
SignalEnds == stack # <<>> ~> process # "running"
=============================================================================
