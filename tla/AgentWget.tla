------------------------------ MODULE AgentWget ------------------------------
(***************************************************************************)
(* AgentWget::request (service-provider/agent_wget.cpp): the server writes *)
(* the body of a POST to a temporary file, makes a pipe, forks, and reads  *)
(* the output of wget, which runs concurrently, until the pipe ends; then  *)
(* it waits for the child and makes a result of its exit code.             *)
(*                                                                         *)
(* Requests come from sessions: sp.cpp accepts a connection, queries the   *)
(* revocation list, then (POST) the attestation report, and disconnects.   *)
(* Sessions and requests share the process's table of file descriptors.    *)
(***************************************************************************)
EXTENDS Integers, FiniteSets

CONSTANTS
  FdLimit,       \* descriptors the process may have, beside those open at start
  PipeSize,      \* chunks a pipe holds before its writer blocks
  MaxAnswer      \* chunks of the longest output of wget

ASSUME AgentAssumption ==
  FdLimit \in Nat /\ PipeSize \in Nat \ {0} /\ MaxAnswer \in Nat

VARIABLES
  pc,        \* where the server is
  sock,      \* whether the session's socket is open
  post,      \* whether the request has a body
  tmpfile,   \* whether the temporary file exists
  readers,   \* the processes that hold the read end of the request's pipe
  writers,   \* the processes that hold its write end
  inPipe,    \* chunks in the pipe
  got,       \* chunks appended to sresponse
  readOk,    \* rv, until the exit code is looked at
  child,     \* the child process
  answer,    \* chunks wget has to write
  sent,      \* chunks it has written
  exit,      \* what the child ended with
  result,    \* what request returns: rv and response.statusCode
  leaked,    \* pipe ends of earlier requests that are still open
  forked,    \* history: requests that had a child
  unforked,  \* history: requests whose fork failed
  litter     \* history: how temporary files came to be left behind

server  == <<pc, sock, post, tmpfile, got, readOk, result, leaked>>
pipeVars == <<readers, writers, inPipe>>
childVars == <<child, answer, sent, exit>>
history == <<forked, unforked, litter>>
vars == <<server, pipeVars, childVars, history>>

InRequest == {"tmpfile", "pipe", "fork", "close", "read", "wait", "unlink"}
\* The codes request tells apart: no error, server error, authentication, any
\* other, and a signal in place of a code.
ExitCodes == {"0", "8", "6", "other", "signal"}
Results == {"failed", "200", "401", "http", "none"}

Ends(procs) == IF "server" \in procs THEN 1 ELSE 0

\* The histories count no further than one past the limit, HistoryBound.
HistoryBound == FdLimit + 1
OneMore(n) == IF n < HistoryBound THEN n + 1 ELSE n

\* Descriptors in use: the socket, ends that were never closed, and this pipe's.
OpenFds == (IF sock THEN 1 ELSE 0) + leaked + Ends(readers) + Ends(writers)

-----------------------------------------------------------------------------
(* Sessions *)

\* accept, in MsgIO::server_loop.  Without a free descriptor, or for another
\* reason, it fails, and the server's main loop ends.
Accept ==
  /\ pc = "accept"
  /\ \/ OpenFds < FdLimit /\ pc' = "sigrl" /\ sock' = TRUE
     \/ pc' = "stopped" /\ UNCHANGED sock
  /\ UNCHANGED <<post, tmpfile, got, readOk, result, leaked, pipeVars, childVars, history>>

\* get_sigrl or get_attestation_report makes a request.
Request ==
  /\ pc \in {"sigrl", "report"}
  /\ post' = (pc = "report")
  /\ pc' = IF pc = "report" THEN "tmpfile" ELSE "pipe"
  /\ got' = 0
  /\ readOk' = TRUE
  /\ UNCHANGED <<sock, tmpfile, result, leaked, pipeVars, childVars, history>>

\* MUTANT of UseResult: the end of a session does not close its socket.
UseResultKeepsSocket ==
  /\ pc = "returned"
  /\ \/ ~post /\ result = "200" /\ pc' = "report" /\ UNCHANGED <<sock, leaked>>
     \/ /\ post \/ result # "200"
        /\ pc' = "accept" /\ sock' = FALSE /\ leaked' = leaked + 1
  /\ UNCHANGED <<post, tmpfile, got, readOk, result, pipeVars, childVars, history>>

\* What the session does with a result: go on to the report, try the revocation
\* list again with the other key, or end.
UseResult ==
  /\ pc = "returned"
  /\ \/ ~post /\ result = "200" /\ pc' = "report" /\ UNCHANGED sock
     \/ ~post /\ result = "401" /\ pc' = "sigrl" /\ UNCHANGED sock
     \/ /\ post \/ result # "200"
        /\ pc' = "accept" /\ sock' = FALSE
  /\ UNCHANGED <<post, tmpfile, got, readOk, result, leaked, pipeVars, childVars, history>>

-----------------------------------------------------------------------------
(* The server's side of a request *)

Fail == pc' = "returned" /\ result' = "failed"

\* mkstemp, and write until all of the body is written.
MakeTmpfile ==
  /\ pc = "tmpfile"
  /\ \/ OpenFds < FdLimit /\ tmpfile' = TRUE /\ pc' = "pipe" /\ UNCHANGED result
     \/ Fail /\ UNCHANGED tmpfile
  /\ UNCHANGED <<sock, post, got, readOk, leaked, pipeVars, childVars, history>>

Litter(how) == litter' = IF tmpfile THEN litter \union {how} ELSE litter

MakePipe ==
  /\ pc = "pipe"
  /\ \/ /\ OpenFds + 2 <= FdLimit
        /\ readers' = {"server"} /\ writers' = {"server"} /\ inPipe' = 0
        /\ pc' = "fork"
        /\ UNCHANGED <<result, tmpfile, litter>>
     \/ /\ OpenFds + 2 > FdLimit
        /\ Fail
        /\ Litter("pipe") /\ tmpfile' = FALSE
        /\ UNCHANGED pipeVars
  /\ UNCHANGED <<sock, post, got, readOk, leaked, childVars, forked, unforked>>

\* The ends of the request's pipe that the server still has open stay open.
LeaveEnds ==
  /\ leaked' = leaked + Ends(readers) + Ends(writers)
  /\ readers' = readers \ {"server"}
  /\ writers' = writers \ {"server"}

Fork ==
  /\ pc = "fork"
  /\ \/ /\ readers' = readers \union {"child"} /\ writers' = writers \union {"child"}
        /\ child' = "starting" /\ sent' = 0 /\ exit' = "none"
        /\ answer' \in 0 .. MaxAnswer
        /\ forked' = OneMore(forked)
        /\ pc' = "close"
        /\ UNCHANGED <<result, leaked, tmpfile, unforked, litter>>
     \/ /\ Fail
        /\ LeaveEnds
        /\ Litter("fork") /\ tmpfile' = FALSE
        /\ unforked' = OneMore(unforked)
        /\ UNCHANGED <<childVars, forked>>
  /\ UNCHANGED <<sock, post, got, readOk, inPipe>>

\* MUTANT of CloseWriteEnd: close(pipefd[1]) is missing in the parent.
CloseWriteEndMissing ==
  /\ pc = "close"
  /\ pc' = "read"
  /\ UNCHANGED <<sock, post, tmpfile, got, readOk, result, leaked, pipeVars, childVars, history>>

CloseWriteEnd ==
  /\ pc = "close"
  /\ writers' = writers \ {"server"}
  /\ pc' = "read"
  /\ UNCHANGED <<sock, post, tmpfile, got, readOk, result, leaked, readers, inPipe, childVars, history>>

\* MUTANT of ReadPipe: an empty pipe is taken for its end.
ReadPipeNoWait ==
  /\ pc = "read"
  /\ \/ inPipe > 0 /\ got' = got + inPipe /\ inPipe' = 0 /\ UNCHANGED pc
     \/ inPipe = 0 /\ pc' = "wait" /\ UNCHANGED <<got, inPipe>>
  /\ UNCHANGED <<sock, post, tmpfile, readOk, result, leaked, readers, writers, childVars, history>>

\* One turn of the loop that reads until the end of the pipe.
ReadPipe ==
  /\ pc = "read"
  /\ \/ inPipe > 0 /\ got' = got + inPipe /\ inPipe' = 0 /\ UNCHANGED pc
     \/ inPipe = 0 /\ writers = {} /\ pc' = "wait" /\ UNCHANGED <<got, inPipe>>
  /\ UNCHANGED <<sock, post, tmpfile, readOk, result, leaked, readers, writers, childVars, history>>

\* read fails, with anything but EINTR: the loop ends.
ReadFails ==
  /\ pc = "read"
  /\ pc' = "wait" /\ readOk' = FALSE
  /\ UNCHANGED <<sock, post, tmpfile, got, result, leaked, pipeVars, childVars, history>>

\* waitpid blocks until the child has ended.
Wait ==
  /\ pc = "wait"
  /\ child = "zombie"
  /\ child' = "none"
  /\ pc' = "unlink"
  /\ UNCHANGED <<sock, post, tmpfile, got, readOk, result, leaked, pipeVars, answer, sent, exit, history>>

\* rv and statusCode.  Only the output of a wget that ended with 0 or 8 is
\* parsed; the parser may find it incomplete or malformed.
ResultOf ==
  IF ~readOk \/ exit = "signal" THEN {"failed"}
  ELSE CASE exit = "6" -> {"401"}
         [] exit = "0" -> {"200", "failed"}
         [] exit = "8" -> {"http", "failed"}
         [] OTHER -> {"none"}

\* MUTANT of Unlink: the early return comes before the unlink.
UnlinkAfterReturn ==
  /\ pc = "unlink"
  /\ IF readOk THEN UNCHANGED litter ELSE Litter("request")
  /\ tmpfile' = FALSE
  /\ LeaveEnds
  /\ result' \in ResultOf
  /\ pc' = "returned"
  /\ UNCHANGED <<sock, post, got, readOk, inPipe, childVars, forked, unforked>>

\* MUTANT of Unlink: the read end is closed.
UnlinkCloses ==
  /\ pc = "unlink"
  /\ tmpfile' = FALSE
  /\ readers' = readers \ {"server"} /\ writers' = writers \ {"server"}
  /\ result' \in ResultOf
  /\ pc' = "returned"
  /\ UNCHANGED <<sock, post, got, readOk, leaked, inPipe, childVars, history>>

\* unlink, and the return.  Nobody closes pipefd[0].
Unlink ==
  /\ pc = "unlink"
  /\ tmpfile' = FALSE
  /\ LeaveEnds
  /\ result' \in ResultOf
  /\ pc' = "returned"
  /\ UNCHANGED <<sock, post, got, readOk, inPipe, childVars, history>>

\* cleanup_and_exit, on a signal: the kernel closes what the server has open.
Terminate ==
  /\ pc # "stopped"
  /\ pc' = "stopped"
  /\ sock' = FALSE
  /\ readers' = readers \ {"server"} /\ writers' = writers \ {"server"} /\ leaked' = 0
  /\ Litter("killed") /\ tmpfile' = FALSE
  /\ UNCHANGED <<post, got, readOk, result, inPipe, childVars, forked, unforked>>

-----------------------------------------------------------------------------
(* The child *)

End(code) ==
  /\ child' = IF pc = "stopped" THEN "none" ELSE "zombie"
  /\ exit' = code
  /\ readers' = readers \ {"child"} /\ writers' = writers \ {"child"}

\* dup2 the write end to stdout, close the two ends, exec wget; or exit(1).
ChildExec ==
  /\ child = "starting"
  /\ \/ /\ child' = "wget"
        /\ readers' = readers \ {"child"}
        /\ UNCHANGED <<writers, exit>>
     \/ End("other")
  /\ UNCHANGED <<server, inPipe, answer, sent, history>>

\* wget writes a chunk of the response; a pipe without a reader kills it.
ChildWrite ==
  /\ child = "wget"
  /\ sent < answer
  /\ \/ /\ readers # {} /\ inPipe < PipeSize
        /\ inPipe' = inPipe + 1 /\ sent' = sent + 1
        /\ UNCHANGED <<child, exit, readers, writers>>
     \/ /\ readers = {}
        /\ End("signal")
        /\ UNCHANGED <<inPipe, sent>>
  /\ UNCHANGED <<server, answer, history>>

\* wget ends: after the whole response, or because it cannot get one.
ChildExit ==
  /\ child = "wget"
  /\ \/ sent = answer /\ \E code \in {"0", "8"} : End(code)
     \/ sent = 0 /\ \E code \in {"6", "other"} : End(code)
  /\ UNCHANGED <<server, inPipe, answer, sent, history>>

\* Somebody kills the child.
ChildKilled ==
  /\ child \in {"starting", "wget"}
  /\ End("signal")
  /\ UNCHANGED <<server, inPipe, answer, sent, history>>

-----------------------------------------------------------------------------
Init ==
  /\ pc = "accept" /\ sock = FALSE /\ post = FALSE /\ tmpfile = FALSE
  /\ readers = {} /\ writers = {} /\ inPipe = 0
  /\ got = 0 /\ readOk = TRUE
  /\ child = "none" /\ answer = 0 /\ sent = 0 /\ exit = "none"
  /\ result = "none"
  /\ leaked = 0
  /\ forked = 0 /\ unforked = 0 /\ litter = {}

\* The steps of the server's program, a client being there to be accepted.
Serve ==
  \/ Accept \/ Request \/ UseResult \/ MakeTmpfile \/ MakePipe \/ Fork
  \/ CloseWriteEnd \/ ReadPipe \/ Wait \/ Unlink

Child == ChildExec \/ ChildWrite \/ ChildExit

Next == Serve \/ ReadFails \/ Child \/ ChildKilled \/ Terminate

Spec == Init /\ [][Next]_vars

Fairness == WF_vars(Serve) /\ WF_vars(Child)
FairSpec == Spec /\ Fairness

-----------------------------------------------------------------------------
(* Properties *)

\* The pipe never holds more than it can, nor the table more descriptors than
\* fit; no answer grows as it is read.
TypeOK ==
  /\ pc \in {"accept", "sigrl", "report", "returned", "stopped"} \union InRequest
  /\ sock \in BOOLEAN /\ post \in BOOLEAN /\ tmpfile \in BOOLEAN /\ readOk \in BOOLEAN
  /\ readers \subseteq {"server", "child"} /\ writers \subseteq {"server", "child"}
  /\ inPipe \in 0 .. PipeSize
  /\ child \in {"none", "starting", "wget", "zombie"}
  /\ answer \in 0 .. MaxAnswer /\ sent \in 0 .. MaxAnswer /\ got \in 0 .. MaxAnswer
  /\ exit \in ExitCodes \union {"none"}
  /\ result \in Results
  /\ leaked \in 0 .. FdLimit
  /\ forked \in 0 .. HistoryBound /\ unforked \in 0 .. HistoryBound
  /\ litter \subseteq {"pipe", "fork", "request", "killed"}

BetweenRequests == pc \in {"accept", "sigrl", "report", "returned"}

\* A request costs the server the read end of its pipe, and one whose fork fails
\* both ends: this and no more is what separates it from running for ever.
EachRequestLeavesOneEnd == BetweenRequests => leaked = forked + 2 * unforked

\* A request returns only after its child has ended and has been waited for.
NoChildLeft == BetweenRequests => child = "none"

\* A file with a client's quote stays in /tmp only if pipe or fork failed, or a
\* signal ended the server.
OnlyFailuresLitter == litter \subseteq {"pipe", "fork", "killed"}

\* What AgentWget::request leaves behind, on each of its returns: ends of pipes,
\* exactly these, no child, and no file but for the failures.
RequestsLeaveExactly == EachRequestLeavesOneEnd /\ NoChildLeft /\ OnlyFailuresLitter

\* A response is taken for complete only if the server has read all that wget
\* wrote, however their reads and writes interleave.
NothingCutOff == pc = "returned" /\ result \in {"200", "http"} => got = answer

\* Each request ends: the pipe does once the child is gone.  Not so if read fails:
\* then the server waits with the pipe's read end open, and the child with a full
\* pipe waits for the server.
RequestsEnd ==
  pc \in InRequest ~> pc \in {"returned", "stopped"} \/ (pc = "wait" /\ ~readOk)

\* The leak starves the pipes, never accept: a session can take the last
\* descriptor but one, a pipe needs two, so there is always one for accept.
AcceptHasADescriptor == pc = "accept" => OpenFds < FdLimit

\* A server that never lacks clients ends up refusing them all: from some time
\* on no request gets past its pipe (nor does the server stop for it).  It may
\* come to a standstill before, as RequestsEnd says.
AtLastNoRequestRuns ==
  <>[](pc \in {"fork", "close", "read", "wait", "unlink"} => pc = "wait" /\ ~readOk)
==============================================================================
