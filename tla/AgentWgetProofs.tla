---------------------------- MODULE AgentWgetProofs ----------------------------
(***************************************************************************)
(* The safety properties of AgentWget, for any number of descriptors, any  *)
(* pipe and answers of any length: what a request leaves behind, that a    *)
(* response taken for complete is, and that accept has its descriptor.     *)
(***************************************************************************)
EXTENDS AgentWget, TLAPS

\* Where the server is between pipe() and the return, fork() included.
HasPipe == {"fork", "close", "read", "wait", "unlink"}

\* Who holds which end of the request's pipe.
EndsInv ==
  /\ "server" \in readers <=> pc \in HasPipe
  /\ "server" \in writers <=> pc \in {"fork", "close"}
  /\ "child" \in readers <=> child = "starting"
  /\ "child" \in writers <=> child \in {"starting", "wget"}

\* A child there is from fork to waitpid, unless the server has stopped.
ChildInv ==
  /\ pc # "stopped" => (child # "none" <=> pc \in {"close", "read", "wait"})
  /\ child \in {"starting", "wget"} => exit = "none"

\* Each descriptor that is open was within the limit when it was opened; what
\* a failing fork leaves is two ends, with one descriptor free for the socket.
TableInv ==
  pc # "stopped" =>
    /\ sock <=> pc # "accept"
    /\ sock => leaked + 1 <= FdLimit
    /\ leaked > 0 => leaked + 1 <= FdLimit
    /\ pc \in HasPipe => leaked + 3 <= FdLimit
    /\ forked + 2 * unforked
         = IF pc \in {"close", "read", "wait", "unlink"} THEN leaked + 1 ELSE leaked

\* What wget has written is in the pipe or has been read.
AnswerInv ==
  /\ sent <= answer
  /\ got + inPipe <= sent
  /\ pc \in {"close", "read", "wait", "unlink"} => got + inPipe = sent
  /\ pc \in {"tmpfile", "pipe", "fork"} => got = 0
  /\ pc = "fork" => inPipe = 0
  /\ pc \in InRequest \ {"wait", "unlink"} => readOk
  /\ pc = "wait" /\ readOk => child = "zombie" /\ inPipe = 0
  /\ pc = "unlink" /\ readOk => inPipe = 0
  /\ exit \in {"0", "8"} => sent = answer

IInv ==
  TypeOK /\ EndsInv /\ ChildInv /\ TableInv /\ AnswerInv
  /\ OnlyFailuresLitter /\ NothingCutOff

-----------------------------------------------------------------------------

\* A session begins: a descriptor goes to its socket.
LEMMA AcceptInv == IInv /\ Accept => IInv'
<1> SUFFICES ASSUME IInv, Accept PROVE IInv'
  OBVIOUS
<1> USE AgentAssumption DEF IInv, Accept, OpenFds, Ends, server, pipeVars, childVars, history
<1>1. TypeOK'
  <2>1. pc' \in {"sigrl", "stopped"} /\ sock' \in BOOLEAN
    BY DEF TypeOK
  <2> QED BY <2>1 DEF TypeOK
<1>2. EndsInv' /\ ChildInv'
  BY DEF EndsInv, HasPipe, ChildInv, TypeOK
<1>3. TableInv'
  BY DEF TableInv, HasPipe, TypeOK
<1>4. AnswerInv' /\ NothingCutOff'
  BY DEF AnswerInv, NothingCutOff, InRequest, TypeOK, EndsInv, HasPipe, ChildInv
<1> QED BY <1>1, <1>2, <1>3, <1>4 DEF OnlyFailuresLitter

\* A request begins with nothing read.
LEMMA RequestInv == IInv /\ Request => IInv'
<1> SUFFICES ASSUME IInv, Request PROVE IInv'
  OBVIOUS
<1> USE AgentAssumption DEF IInv, Request, server, pipeVars, childVars, history
<1>1. TypeOK'
  BY DEF TypeOK, InRequest, ExitCodes, Results, AnswerInv
<1>2. EndsInv' /\ ChildInv'
  BY DEF EndsInv, HasPipe, ChildInv, TypeOK
<1>3. TableInv'
  BY DEF TableInv, HasPipe, TypeOK
<1>4. AnswerInv' /\ NothingCutOff'
  BY DEF AnswerInv, NothingCutOff, InRequest, TypeOK, EndsInv, HasPipe, ChildInv
<1> QED BY <1>1, <1>2, <1>3, <1>4 DEF OnlyFailuresLitter

\* The end of a session gives its descriptor back.
LEMMA UseResultInv == IInv /\ UseResult => IInv'
<1> SUFFICES ASSUME IInv, UseResult PROVE IInv'
  OBVIOUS
<1> USE AgentAssumption DEF IInv, UseResult, server, pipeVars, childVars, history
<1>1. TypeOK'
  <2>1. pc' \in {"report", "sigrl", "accept"} /\ sock' \in BOOLEAN
    BY DEF TypeOK
  <2> QED BY <2>1 DEF TypeOK
<1>2. EndsInv' /\ ChildInv'
  BY DEF EndsInv, HasPipe, ChildInv, TypeOK
<1>3. TableInv'
  BY DEF TableInv, HasPipe, TypeOK
<1>4. AnswerInv' /\ NothingCutOff'
  BY DEF AnswerInv, NothingCutOff, InRequest, TypeOK, EndsInv, HasPipe, ChildInv
<1> QED BY <1>1, <1>2, <1>3, <1>4 DEF OnlyFailuresLitter

\* The temporary file's descriptor is closed before the pipe is made.
LEMMA MakeTmpfileInv == IInv /\ MakeTmpfile => IInv'
<1> SUFFICES ASSUME IInv, MakeTmpfile PROVE IInv'
  OBVIOUS
<1> USE AgentAssumption DEF IInv, MakeTmpfile, Fail, server, pipeVars, childVars, history
<1>1. TypeOK'
  BY DEF TypeOK, InRequest, ExitCodes, Results, AnswerInv
<1>2. EndsInv' /\ ChildInv'
  BY DEF EndsInv, HasPipe, ChildInv, TypeOK
<1>3. TableInv'
  BY DEF TableInv, HasPipe, TypeOK
<1>4. AnswerInv' /\ NothingCutOff'
  BY DEF AnswerInv, NothingCutOff, InRequest, TypeOK, EndsInv, HasPipe, ChildInv
<1> QED BY <1>1, <1>2, <1>3, <1>4 DEF OnlyFailuresLitter

\* A pipe is made only while two more descriptors fit.
LEMMA MakePipeInv == IInv /\ MakePipe => IInv'
<1> SUFFICES ASSUME IInv, MakePipe PROVE IInv'
  OBVIOUS
<1> USE AgentAssumption DEF IInv, MakePipe, Fail, Litter, OpenFds, Ends, server, pipeVars, childVars, history
<1>1. TypeOK'
  <2>1. litter' \subseteq {"pipe", "fork", "request", "killed"} /\ tmpfile' \in BOOLEAN
    BY DEF TypeOK
  <2>2. readers' \subseteq {"server", "child"} /\ writers' \subseteq {"server", "child"}
    BY DEF TypeOK
  <2>3. inPipe' \in 0 .. PipeSize
    BY DEF TypeOK
  <2>4. pc' \in {"fork", "returned"} /\ result' \in Results
    BY DEF TypeOK, Results
  <2> QED BY <2>1, <2>2, <2>3, <2>4 DEF TypeOK, InRequest
<1>2. EndsInv' /\ ChildInv'
  BY DEF EndsInv, HasPipe, ChildInv, TypeOK
<1>3. TableInv'
  BY DEF TableInv, HasPipe, EndsInv, TypeOK
<1>4. AnswerInv'
  BY DEF AnswerInv, InRequest, TypeOK, EndsInv, HasPipe, ChildInv
<1>5. OnlyFailuresLitter'
  BY DEF OnlyFailuresLitter
<1>6. NothingCutOff'
  BY DEF NothingCutOff, AnswerInv, ChildInv, TypeOK
<1> QED BY <1>1, <1>2, <1>3, <1>4, <1>5, <1>6

\* A child holds both ends; a fork that fails leaves the server's two.
LEMMA ForkInv == IInv /\ Fork => IInv'
<1> SUFFICES ASSUME IInv, Fork PROVE IInv'
  OBVIOUS
<1> USE AgentAssumption DEF IInv, Fork, Fail, Litter, LeaveEnds, Ends, OneMore, server, pipeVars, childVars, history
<1>1. TypeOK'
  <2>1. litter' \subseteq {"pipe", "fork", "request", "killed"} /\ tmpfile' \in BOOLEAN
    BY DEF TypeOK
  <2>2. readers' \subseteq {"server", "child"} /\ writers' \subseteq {"server", "child"}
    BY DEF TypeOK
  <2>3. /\ forked' \in 0 .. HistoryBound /\ unforked' \in 0 .. HistoryBound
        /\ leaked' \in 0 .. FdLimit
    BY DEF TypeOK, TableInv, HistoryBound, EndsInv, HasPipe
  <2>4. /\ child' \in {"none", "starting", "wget", "zombie"} /\ exit' \in ExitCodes \union {"none"}
        /\ answer' \in 0 .. MaxAnswer /\ sent' \in 0 .. MaxAnswer
    BY DEF TypeOK, ExitCodes
  <2>5. pc' \in {"close", "returned"} /\ result' \in Results
    BY DEF TypeOK, Results
  <2> QED BY <2>1, <2>2, <2>3, <2>4, <2>5 DEF TypeOK, InRequest
<1>2. EndsInv' /\ ChildInv'
  BY DEF EndsInv, HasPipe, ChildInv, TypeOK
<1>3. TableInv'
  <2>1. CASE pc' = "close"
    BY <2>1 DEF TableInv, HasPipe, TypeOK, HistoryBound
  <2>2. CASE pc' = "returned"
    BY <2>2 DEF TableInv, HasPipe, EndsInv, TypeOK, HistoryBound
  <2> QED BY <2>1, <2>2
<1>4. AnswerInv'
  BY DEF AnswerInv, InRequest, TypeOK, EndsInv, HasPipe, ChildInv
<1>5. OnlyFailuresLitter'
  BY DEF OnlyFailuresLitter
<1>6. NothingCutOff'
  BY DEF NothingCutOff, AnswerInv, ChildInv, TypeOK
<1> QED BY <1>1, <1>2, <1>3, <1>4, <1>5, <1>6

\* From here on only the child can write.
LEMMA CloseWriteEndInv == IInv /\ CloseWriteEnd => IInv'
<1> SUFFICES ASSUME IInv, CloseWriteEnd PROVE IInv'
  OBVIOUS
<1> USE AgentAssumption DEF IInv, CloseWriteEnd, server, pipeVars, childVars, history
<1>1. TypeOK'
  BY DEF TypeOK, InRequest, ExitCodes, Results, AnswerInv
<1>2. EndsInv' /\ ChildInv'
  BY DEF EndsInv, HasPipe, ChildInv, TypeOK
<1>3. TableInv'
  BY DEF TableInv, HasPipe, TypeOK
<1>4. AnswerInv' /\ NothingCutOff'
  BY DEF AnswerInv, NothingCutOff, InRequest, TypeOK, EndsInv, HasPipe, ChildInv
<1> QED BY <1>1, <1>2, <1>3, <1>4 DEF OnlyFailuresLitter

\* What is read has left the pipe, and the loop ends with the last writer.
LEMMA ReadPipeInv == IInv /\ ReadPipe => IInv'
<1> SUFFICES ASSUME IInv, ReadPipe PROVE IInv'
  OBVIOUS
<1> USE AgentAssumption DEF IInv, ReadPipe, server, pipeVars, childVars, history
<1>1. TypeOK'
  BY DEF TypeOK, InRequest, ExitCodes, Results, AnswerInv
<1>2. EndsInv' /\ ChildInv'
  BY DEF EndsInv, HasPipe, ChildInv, TypeOK
<1>3. TableInv'
  BY DEF TableInv, HasPipe, TypeOK
<1>4. AnswerInv' /\ NothingCutOff'
  BY DEF AnswerInv, NothingCutOff, InRequest, TypeOK, EndsInv, HasPipe, ChildInv
<1> QED BY <1>1, <1>2, <1>3, <1>4 DEF OnlyFailuresLitter

\* A failing read is remembered in readOk.
LEMMA ReadFailsInv == IInv /\ ReadFails => IInv'
<1> SUFFICES ASSUME IInv, ReadFails PROVE IInv'
  OBVIOUS
<1> USE AgentAssumption DEF IInv, ReadFails, server, pipeVars, childVars, history
<1>1. TypeOK'
  BY DEF TypeOK, InRequest, ExitCodes, Results, AnswerInv
<1>2. EndsInv' /\ ChildInv'
  BY DEF EndsInv, HasPipe, ChildInv, TypeOK
<1>3. TableInv'
  BY DEF TableInv, HasPipe, TypeOK
<1>4. AnswerInv' /\ NothingCutOff'
  BY DEF AnswerInv, NothingCutOff, InRequest, TypeOK, EndsInv, HasPipe, ChildInv
<1> QED BY <1>1, <1>2, <1>3, <1>4 DEF OnlyFailuresLitter

\* The child that is waited for has ended.
LEMMA WaitInv == IInv /\ Wait => IInv'
<1> SUFFICES ASSUME IInv, Wait PROVE IInv'
  OBVIOUS
<1> USE AgentAssumption DEF IInv, Wait, server, pipeVars, childVars, history
<1>1. TypeOK'
  BY DEF TypeOK, InRequest, ExitCodes, Results, AnswerInv
<1>2. EndsInv' /\ ChildInv'
  BY DEF EndsInv, HasPipe, ChildInv, TypeOK
<1>3. TableInv'
  BY DEF TableInv, HasPipe, TypeOK
<1>4. AnswerInv' /\ NothingCutOff'
  BY DEF AnswerInv, NothingCutOff, InRequest, TypeOK, EndsInv, HasPipe, ChildInv
<1> QED BY <1>1, <1>2, <1>3, <1>4 DEF OnlyFailuresLitter

\* Only the read end is left, and a result is taken from a whole answer.
LEMMA UnlinkInv == IInv /\ Unlink => IInv'
<1> SUFFICES ASSUME IInv, Unlink PROVE IInv'
  OBVIOUS
<1> USE AgentAssumption DEF IInv, Unlink, LeaveEnds, Ends, ResultOf, server, pipeVars, childVars, history
<1>1. TypeOK'
  <2>1. leaked' \in 0 .. FdLimit
    BY DEF TypeOK, EndsInv, TableInv, HasPipe
  <2>2. result' \in Results
    BY DEF TypeOK, Results
  <2> QED BY <2>1, <2>2 DEF TypeOK
<1>2. EndsInv' /\ ChildInv'
  BY DEF EndsInv, HasPipe, ChildInv, TypeOK
<1>3. TableInv'
  BY DEF TableInv, HasPipe, EndsInv, TypeOK
<1>4. AnswerInv'
  BY DEF AnswerInv, InRequest, TypeOK, EndsInv, HasPipe, ChildInv
<1>5. OnlyFailuresLitter'
  BY DEF OnlyFailuresLitter
<1>6. NothingCutOff'
  <2>1. ~readOk \/ exit = "signal" => result' = "failed"
    OBVIOUS
  <2>2. exit \notin {"0", "8"} => result' \in {"failed", "401", "none"}
    BY DEF TypeOK
  <2> QED BY <2>1, <2>2 DEF NothingCutOff, AnswerInv, TypeOK
<1> QED BY <1>1, <1>2, <1>3, <1>4, <1>5, <1>6

\* The kernel closes all that the server has open.
LEMMA TerminateInv == IInv /\ Terminate => IInv'
<1> SUFFICES ASSUME IInv, Terminate PROVE IInv'
  OBVIOUS
<1> USE AgentAssumption DEF IInv, Terminate, Litter, Ends, server, pipeVars, childVars, history
<1>1. TypeOK'
  <2>1. litter' \subseteq {"pipe", "fork", "request", "killed"}
    BY DEF TypeOK
  <2>2. readers' \subseteq {"server", "child"} /\ writers' \subseteq {"server", "child"}
    BY DEF TypeOK
  <2>3. leaked' \in 0 .. FdLimit
    OBVIOUS
  <2> QED BY <2>1, <2>2, <2>3 DEF TypeOK
<1>2. EndsInv' /\ ChildInv'
  BY DEF EndsInv, HasPipe, ChildInv, TypeOK
<1>3. TableInv'
  BY DEF TableInv, HasPipe, EndsInv, TypeOK
<1>4. AnswerInv'
  BY DEF AnswerInv, InRequest, TypeOK, EndsInv, HasPipe, ChildInv
<1>5. OnlyFailuresLitter'
  BY DEF OnlyFailuresLitter
<1>6. NothingCutOff'
  BY DEF NothingCutOff, AnswerInv, ChildInv, TypeOK
<1> QED BY <1>1, <1>2, <1>3, <1>4, <1>5, <1>6

\* The child closes its ends but the one it writes to.
LEMMA ChildExecInv == IInv /\ ChildExec => IInv'
<1> SUFFICES ASSUME IInv, ChildExec PROVE IInv'
  OBVIOUS
<1> USE AgentAssumption DEF IInv, ChildExec, End, server, pipeVars, childVars, history
<1>1. TypeOK'
  <2>1. readers' \subseteq {"server", "child"} /\ writers' \subseteq {"server", "child"}
    BY DEF TypeOK
  <2>2. child' \in {"none", "starting", "wget", "zombie"} /\ exit' \in ExitCodes \union {"none"}
    BY DEF TypeOK, ExitCodes
  <2> QED BY <2>1, <2>2 DEF TypeOK
<1>2. EndsInv' /\ ChildInv'
  BY DEF EndsInv, HasPipe, ChildInv, TypeOK
<1>3. TableInv'
  BY DEF TableInv, HasPipe, EndsInv, TypeOK
<1>4. AnswerInv'
  BY DEF AnswerInv, InRequest, TypeOK, EndsInv, HasPipe, ChildInv
<1>5. OnlyFailuresLitter'
  BY DEF OnlyFailuresLitter
<1>6. NothingCutOff'
  BY DEF NothingCutOff, AnswerInv, ChildInv, TypeOK
<1> QED BY <1>1, <1>2, <1>3, <1>4, <1>5, <1>6

\* A chunk goes into a pipe that has room.
LEMMA ChildWriteInv == IInv /\ ChildWrite => IInv'
<1> SUFFICES ASSUME IInv, ChildWrite PROVE IInv'
  OBVIOUS
<1> USE AgentAssumption DEF IInv, ChildWrite, End, server, pipeVars, childVars, history
<1>1. TypeOK'
  <2>1. readers' \subseteq {"server", "child"} /\ writers' \subseteq {"server", "child"}
    BY DEF TypeOK
  <2>2. inPipe' \in 0 .. PipeSize /\ sent' \in 0 .. MaxAnswer
    BY DEF TypeOK
  <2>3. child' \in {"none", "starting", "wget", "zombie"} /\ exit' \in ExitCodes \union {"none"}
    BY DEF TypeOK, ExitCodes
  <2> QED BY <2>1, <2>2, <2>3 DEF TypeOK
<1>2. EndsInv' /\ ChildInv'
  BY DEF EndsInv, HasPipe, ChildInv, TypeOK
<1>3. TableInv'
  BY DEF TableInv, HasPipe, EndsInv, TypeOK
<1>4. AnswerInv'
  BY DEF AnswerInv, InRequest, TypeOK, EndsInv, HasPipe, ChildInv
<1>5. OnlyFailuresLitter'
  BY DEF OnlyFailuresLitter
<1>6. NothingCutOff'
  BY DEF NothingCutOff, AnswerInv, ChildInv, TypeOK
<1> QED BY <1>1, <1>2, <1>3, <1>4, <1>5, <1>6

\* With code 0 or 8, wget has written its answer.
LEMMA ChildExitInv == IInv /\ ChildExit => IInv'
<1> SUFFICES ASSUME IInv, ChildExit PROVE IInv'
  OBVIOUS
<1> USE AgentAssumption DEF IInv, ChildExit, End, server, pipeVars, childVars, history
<1>1. TypeOK'
  <2>1. readers' \subseteq {"server", "child"} /\ writers' \subseteq {"server", "child"}
    BY DEF TypeOK
  <2>2. child' \in {"none", "starting", "wget", "zombie"} /\ exit' \in ExitCodes \union {"none"}
    BY DEF TypeOK, ExitCodes
  <2> QED BY <2>1, <2>2 DEF TypeOK
<1>2. EndsInv' /\ ChildInv'
  BY DEF EndsInv, HasPipe, ChildInv, TypeOK
<1>3. TableInv'
  BY DEF TableInv, HasPipe, TypeOK
<1>4. AnswerInv' /\ NothingCutOff'
  BY DEF AnswerInv, NothingCutOff, InRequest, TypeOK, EndsInv, HasPipe, ChildInv
<1> QED BY <1>1, <1>2, <1>3, <1>4 DEF OnlyFailuresLitter

\* A signal is no exit code.
LEMMA ChildKilledInv == IInv /\ ChildKilled => IInv'
<1> SUFFICES ASSUME IInv, ChildKilled PROVE IInv'
  OBVIOUS
<1> USE AgentAssumption DEF IInv, ChildKilled, End, server, pipeVars, childVars, history
<1>1. TypeOK'
  <2>1. readers' \subseteq {"server", "child"} /\ writers' \subseteq {"server", "child"}
    BY DEF TypeOK
  <2>2. child' \in {"none", "starting", "wget", "zombie"} /\ exit' \in ExitCodes \union {"none"}
    BY DEF TypeOK, ExitCodes
  <2> QED BY <2>1, <2>2 DEF TypeOK
<1>2. EndsInv' /\ ChildInv'
  BY DEF EndsInv, HasPipe, ChildInv, TypeOK
<1>3. TableInv'
  BY DEF TableInv, HasPipe, TypeOK
<1>4. AnswerInv' /\ NothingCutOff'
  BY DEF AnswerInv, NothingCutOff, InRequest, TypeOK, EndsInv, HasPipe, ChildInv
<1> QED BY <1>1, <1>2, <1>3, <1>4 DEF OnlyFailuresLitter

-----------------------------------------------------------------------------

\* The initial states satisfy the invariant.
LEMMA InitInv == Init => IInv
<1> SUFFICES ASSUME Init PROVE IInv
  OBVIOUS
<1> USE AgentAssumption DEF Init
<1>1. TypeOK
  <2>1. pc \in {"accept"} /\ readers \subseteq {"server", "child"} /\ writers \subseteq {"server", "child"}
    OBVIOUS
  <2>2. answer \in 0 .. MaxAnswer /\ sent \in 0 .. MaxAnswer /\ got \in 0 .. MaxAnswer
    OBVIOUS
  <2>3. inPipe \in 0 .. PipeSize /\ leaked \in 0 .. FdLimit /\ forked \in 0 .. HistoryBound
        /\ unforked \in 0 .. HistoryBound
    BY DEF HistoryBound
  <2> QED BY <2>1, <2>2, <2>3 DEF TypeOK, Results
<1>2. EndsInv /\ ChildInv /\ TableInv
  BY DEF EndsInv, ChildInv, TableInv, HasPipe
<1>3. AnswerInv /\ OnlyFailuresLitter /\ NothingCutOff
  BY DEF AnswerInv, InRequest, OnlyFailuresLitter, NothingCutOff
<1> QED BY <1>1, <1>2, <1>3 DEF IInv

\* Every step preserves it.
LEMMA NextInv == IInv /\ [Next]_vars => IInv'
<1>1. IInv /\ Serve => IInv'
  BY AcceptInv, RequestInv, UseResultInv, MakeTmpfileInv, MakePipeInv, ForkInv,
     CloseWriteEndInv, ReadPipeInv, WaitInv, UnlinkInv DEF Serve
<1>2. IInv /\ Child => IInv'
  BY ChildExecInv, ChildWriteInv, ChildExitInv DEF Child
<1>3. IInv /\ UNCHANGED vars => IInv'
  BY DEF vars, server, pipeVars, childVars, history, IInv, TypeOK, EndsInv, HasPipe,
         ChildInv, TableInv, AnswerInv, OnlyFailuresLitter, NothingCutOff
<1> QED BY <1>1, <1>2, <1>3, ReadFailsInv, ChildKilledInv, TerminateInv DEF Next

LEMMA InvariantHolds == Spec => []IInv
BY InitInv, NextInv, PTL DEF Spec

\* The values of the variables: the pipe never holds more than it can, nor the
\* table of AgentWget::request more descriptors than fit.
THEOREM TypeCorrect == Spec => []TypeOK
<1>1. IInv => TypeOK
  BY DEF IInv
<1> QED BY <1>1, InvariantHolds, PTL

\* AgentWget::request leaves the read end of its pipe open, both ends if fork
\* failed, no child, and its temporary file only if pipe or fork failed or the
\* server is killed: however many requests there were, and however the server
\* and wget took turns.
THEOREM RequestsLeaveOneEnd == Spec => []RequestsLeaveExactly
<1>1. IInv => RequestsLeaveExactly
  BY DEF IInv, RequestsLeaveExactly, EachRequestLeavesOneEnd, NoChildLeft, BetweenRequests,
         TableInv, ChildInv
<1> QED BY <1>1, InvariantHolds, PTL

\* AgentWget::request parses a response only when it has all that wget wrote, for
\* pipes and answers of any size.
THEOREM ParsedAnswersAreWhole == Spec => []NothingCutOff
<1>1. IInv => NothingCutOff
  BY DEF IInv
<1> QED BY <1>1, InvariantHolds, PTL

\* A server that could open its first socket can open the next one: the ends
\* that AgentWget::request leaks use up the descriptors of pipe, not of accept.
THEOREM AcceptNeverLacks == ASSUME FdLimit > 0 PROVE Spec => []AcceptHasADescriptor
<1>1. IInv => AcceptHasADescriptor
  BY AgentAssumption DEF IInv, AcceptHasADescriptor, OpenFds, Ends, TypeOK, EndsInv, HasPipe, TableInv
<1> QED BY <1>1, InvariantHolds, PTL

==============================================================================
