-------------------------- MODULE ServerProcessProofs --------------------------
(***************************************************************************)
(* Proofs about ServerProcess, for any files the operator may write, any   *)
(* "$@" and any command line given by hand: how the process ends under     *)
(* signals, what its clients get over stdin and stdout, and, for any "$@"  *)
(* that has none of the options by which run-server speaks for the files,  *)
(* that the server that comes up is the one the files describe.            *)
(***************************************************************************)
EXTENDS ServerProcess, SequenceTheorems, TLAPS

-----------------------------------------------------------------------------
(* The inductive invariant of the process under signals *)

Frames == [sig : {"SIGHUP", "SIGINT", "SIGTERM", "SIGQUIT"},
           at  : {"session", "listener", "free", "exit"}]

ShutdownTypes ==
  /\ main \in {"begin", "install", "loop", "accepted", "session", "leaving"}
  /\ installed \in 0 .. 4
  /\ ls \in {"none", "open", "shut", "closed"}
  /\ conn \in {"none", "open", "shut"}
  /\ s \in {"none", "socket", "stale"}
  /\ stack \in Seq(Frames)
  /\ process \in {"running", "returned", "exited", "killed", "crashed", "hung"}

\* main has a listening socket as soon as it has a handler, all handlers when it
\* serves, and a connection only where server_loop has one.
MainInv ==
  /\ main = "begin" <=> ls = "none"
  /\ installed > 0 => main # "begin"
  /\ installed < 4 <=> main \in {"begin", "install"}
  /\ stack # <<>> => installed > 0
  /\ conn = "open" => main \in {"accepted", "session"}
  /\ main = "session" => s = "socket"

\* What a handler that is past a step of cleanup_and_exit has done, however many
\* others have come on top of it.
HandlerInv ==
  \A n \in 1 .. Len(stack) :
    /\ stack[n].at # "session" => (conn = "open" => main = "accepted")
    /\ stack[n].at \in {"free", "exit"} => ls \in {"shut", "closed"}

\* Only a handler that is at exit has freed msgio.
FreedInv == msgio = "freed" => \E m \in 1 .. Len(stack) : stack[m].at = "exit"

\* How the process has ended.
EndInv ==
  /\ process = "exited" => ls \in {"shut", "closed"} /\ (conn = "open" => main = "accepted")
  /\ process = "killed" /\ ls # "none" => main = "install"
  /\ process \in {"crashed", "hung"} =>
       clash \/ \E m, n \in 1 .. Len(stack) : m < n /\ stack[m].at = "exit"

ShutdownInv == ShutdownTypes /\ MainInv /\ HandlerInv /\ FreedInv /\ EndInv

-----------------------------------------------------------------------------
(* The handlers' stack *)

\* A handler that goes to its next step leaves those below it as they are.
LEMMA TopMoves ==
  ASSUME stack \in Seq(Frames), stack # <<>>,
         NEW step \in {"session", "listener", "free", "exit"}, D!GoTo(step)
  PROVE  /\ stack' \in Seq(Frames) /\ Len(stack') = Len(stack) /\ Len(stack) \in Nat \ {0}
         /\ stack'[Len(stack)].at = step
         /\ \A n \in 1 .. Len(stack) : n # Len(stack) => stack'[n] = stack[n]
<1> DEFINE top == Len(stack)
           frame == [stack[top] EXCEPT !.at = step]
<1>1. top \in Nat \ {0} /\ top \in 1 .. Len(stack) /\ DOMAIN stack = 1 .. Len(stack)
  <2>1. top \in Nat \ {0} /\ DOMAIN stack = 1 .. Len(stack)
    BY EmptySeq, LenProperties
  <2>2. QED
    BY <2>1
<1>2. stack[top] \in Frames
  BY <1>1, ElementOfSeq
<1>3. frame \in Frames /\ frame.at = step
  BY <1>2 DEF Frames
<1>4. stack' = [stack EXCEPT ![top] = frame]
  BY DEF D!GoTo
<1> HIDE DEF frame
<1>5. /\ stack' \in Seq(Frames) /\ Len(stack') = Len(stack)
      /\ \A j \in 1 .. Len(stack) : stack'[j] = IF j = top THEN frame ELSE stack[j]
  BY <1>1, <1>3, <1>4, ExceptSeq
<1>6. QED
  BY <1>1, <1>3, <1>5

\* A handler that comes on top leaves those below it as they are.
LEMMA HandlerComes ==
  ASSUME stack \in Seq(Frames), NEW frame \in Frames, stack' = Append(stack, frame)
  PROVE  /\ stack' \in Seq(Frames) /\ Len(stack') = Len(stack) + 1 /\ Len(stack) \in Nat
         /\ stack'[Len(stack) + 1] = frame
         /\ \A n \in 1 .. Len(stack) : stack'[n] = stack[n]
BY AppendProperties, LenProperties

-----------------------------------------------------------------------------
(* main's steps: no handler runs *)

\* main only takes a step while no handler runs, so that what handlers have done
\* is not undone.
LEMMA MainStep ==
  ASSUME ShutdownInv, D!Main
  PROVE  ShutdownInv'
<1>1. process = "running" /\ stack = <<>> /\ stack' = stack /\ msgio # "freed"
  <2>1. process = "running" /\ stack = <<>> /\ stack' = stack
    BY DEF D!Main, D!Construct, D!Install, D!EnterAllocator, D!LeaveAllocator, D!AcceptReturns,
       D!StoreSocket, D!AcceptFails, D!Disconnect, D!Return, D!Idle, D!MainRuns
  <2>2. Len(stack) = 0
    BY <2>1
  <2>3. QED
    BY <2>1, <2>2 DEF ShutdownInv, FreedInv
<1>2. Len(stack') = 0 /\ process' \in {"running", "returned"} /\ msgio' # "freed"
  <2>1. process' \in {"running", "returned"} /\ msgio' # "freed"
    BY <1>1 DEF D!Main, D!Construct, D!Install, D!EnterAllocator, D!LeaveAllocator, D!AcceptReturns,
       D!StoreSocket, D!AcceptFails, D!Disconnect, D!Return
  <2>2. QED
    BY <1>1, <2>1
<1>3. HandlerInv' /\ FreedInv' /\ EndInv'
  BY <1>2 DEF HandlerInv, FreedInv, EndInv
<1>4. ShutdownTypes /\ MainInv
  BY DEF ShutdownInv
<1>5. CASE D!Construct
  BY <1>1, <1>3, <1>4, <1>5 DEF D!Construct, ShutdownInv, ShutdownTypes, MainInv
<1>6. CASE D!Install
  <2>1. /\ main = "install" /\ installed' = installed + 1
        /\ main' = IF installed' = 4 THEN "loop" ELSE "install"
        /\ UNCHANGED <<ls, conn, s, process>>
    BY <1>6 DEF D!Install, D!Signals
  <2>2. QED
    BY <1>1, <1>3, <1>4, <2>1 DEF ShutdownInv, ShutdownTypes, MainInv
<1>7. CASE D!EnterAllocator \/ D!LeaveAllocator
  BY <1>1, <1>3, <1>4, <1>7 DEF D!EnterAllocator, D!LeaveAllocator, ShutdownInv, ShutdownTypes, MainInv
<1>8. CASE D!AcceptReturns
  BY <1>1, <1>3, <1>4, <1>8 DEF D!AcceptReturns, ShutdownInv, ShutdownTypes, MainInv
<1>9. CASE D!StoreSocket
  BY <1>1, <1>3, <1>4, <1>9 DEF D!StoreSocket, ShutdownInv, ShutdownTypes, MainInv
<1>10. CASE D!AcceptFails
  BY <1>1, <1>3, <1>4, <1>10 DEF D!AcceptFails, ShutdownInv, ShutdownTypes, MainInv
<1>11. CASE D!Disconnect
  BY <1>1, <1>3, <1>4, <1>11 DEF D!Disconnect, ShutdownInv, ShutdownTypes, MainInv
<1>12. CASE D!Return
  BY <1>1, <1>3, <1>4, <1>12 DEF D!Return, D!mainVars, ShutdownInv, ShutdownTypes, MainInv
<1>13. QED
  BY <1>5, <1>6, <1>7, <1>8, <1>9, <1>10, <1>11, <1>12 DEF D!Main

-----------------------------------------------------------------------------
(* Signals, and the steps of their handlers *)

\* A signal adds a handler, or ends a process that has not installed all of them.
LEMMA SignalStep ==
  ASSUME ShutdownInv, NEW m \in DOMAIN D!Signals, D!Deliver(D!Signals[m])
  PROVE  ShutdownInv'
<1>1. D!Signals[m] \in {"SIGHUP", "SIGINT", "SIGTERM", "SIGQUIT"} /\ m \in 1 .. 4
  BY DEF D!Signals
<1> DEFINE frame == [sig |-> D!Signals[m], at |-> "session"]
<1>2. /\ process = "running" /\ ShutdownTypes /\ MainInv /\ HandlerInv /\ FreedInv
      /\ UNCHANGED <<main, installed, ls, conn, s, msgio, clash>>
  BY DEF D!Deliver, D!mainVars, ShutdownInv
<1>3. CASE D!Handled(D!Signals[m]) /\ stack' = Append(stack, frame) /\ UNCHANGED process
  <2>1. installed > 0
    <3>1. PICK n \in 1 .. installed : D!Signals[n] = D!Signals[m]
      BY <1>3 DEF D!Handled
    <3>2. QED
      BY <1>2, <3>1 DEF ShutdownTypes
  <2>2. frame \in Frames /\ frame.at = "session"
    BY <1>1 DEF Frames
  <2> HIDE DEF frame
  <2>3. /\ stack' \in Seq(Frames) /\ Len(stack') = Len(stack) + 1 /\ Len(stack) \in Nat
        /\ stack'[Len(stack) + 1] = frame
        /\ \A n \in 1 .. Len(stack) : stack'[n] = stack[n]
    BY <1>2, <1>3, <2>2, HandlerComes DEF ShutdownTypes
  <2>4. ShutdownTypes' /\ MainInv'
    BY <1>2, <1>3, <2>1, <2>3 DEF ShutdownTypes, MainInv
  <2>5. HandlerInv'
    <3> SUFFICES ASSUME NEW n \in 1 .. Len(stack) + 1
                 PROVE  /\ stack'[n].at # "session" => (conn = "open" => main = "accepted")
                        /\ stack'[n].at \in {"free", "exit"} => ls \in {"shut", "closed"}
      BY <1>2, <2>3 DEF HandlerInv
    <3>1. n \in 1 .. Len(stack) \/ n = Len(stack) + 1
      BY <2>3
    <3>2. QED
      BY <1>2, <2>2, <2>3, <3>1 DEF HandlerInv
  <2>6. FreedInv'
    <3>1. \A n \in 1 .. Len(stack) : n \in 1 .. Len(stack')
      BY <2>3
    <3>2. QED
      BY <1>2, <2>3, <3>1 DEF FreedInv
  <2>7. EndInv'
    BY <1>2, <1>3 DEF EndInv
  <2>8. QED
    BY <2>4, <2>5, <2>6, <2>7 DEF ShutdownInv
<1>4. CASE ~D!Handled(D!Signals[m]) /\ process' = "killed" /\ UNCHANGED stack
  <2>1. installed < 4
    <3>1. m \notin 1 .. installed
      BY <1>4 DEF D!Handled
    <3>2. QED
      BY <1>1, <1>2, <3>1 DEF ShutdownTypes
  <2>2. ShutdownTypes' /\ MainInv' /\ HandlerInv' /\ FreedInv'
    BY <1>2, <1>4 DEF ShutdownTypes, MainInv, HandlerInv, FreedInv
  <2>3. EndInv'
    BY <1>2, <1>4, <2>1 DEF EndInv, MainInv
  <2>4. QED
    BY <2>2, <2>3 DEF ShutdownInv
<1>5. QED
  BY <1>3, <1>4 DEF D!Deliver

\* The destructor of MsgIO reads an object that a handler below has freed: such a
\* handler is at exit.
LEMMA ReadsFreed ==
  ASSUME ShutdownInv, stack # <<>>, D!Top.at # "exit",
         msgio = "freed", stack' \in Seq(Frames), Len(stack') = Len(stack),
         \A n \in 1 .. Len(stack) : n # Len(stack) => stack'[n] = stack[n]
  PROVE  \E m, n \in 1 .. Len(stack') : m < n /\ stack'[m].at = "exit"
<1>1. PICK m \in 1 .. Len(stack) : stack[m].at = "exit"
  BY DEF ShutdownInv, FreedInv
<1>2. Len(stack) \in Nat /\ m # Len(stack)
  BY <1>1, LenProperties DEF ShutdownInv, ShutdownTypes, D!Top
<1>3. m < Len(stack) /\ Len(stack) \in 1 .. Len(stack)
  BY <1>1, <1>2
<1>4. QED
  BY <1>1, <1>3

\* The four steps of cleanup_and_exit.
LEMMA HandlerStep ==
  ASSUME ShutdownInv, D!Handler
  PROVE  ShutdownInv'
<1>1. ShutdownTypes /\ MainInv /\ HandlerInv /\ FreedInv
  BY DEF ShutdownInv
<1>2. /\ process = "running" /\ stack # <<>> /\ D!Top = stack[Len(stack)]
      /\ UNCHANGED <<main, installed, s>>
  BY DEF D!Handler, D!CloseSession, D!CloseListener, D!Free, D!Exit, D!At, D!Top, D!mainVars
<1>3. Len(stack) \in Nat \ {0} /\ Len(stack) \in 1 .. Len(stack)
  <2>1. Len(stack) \in Nat \ {0}
    BY <1>1, <1>2, EmptySeq, LenProperties DEF ShutdownTypes
  <2>2. QED
    BY <2>1
<1>4. CASE D!CloseSession
  <2>1. /\ D!Top.at = "session" /\ D!GoTo("listener") /\ UNCHANGED <<ls, msgio, clash>>
        /\ s = "socket" => conn' = "shut"
        /\ conn' \in {conn, "shut"}
        /\ process' \in IF msgio = "freed" THEN {"running", "crashed"} ELSE {"running"}
    BY <1>1, <1>4 DEF D!CloseSession, D!At, D!ReadsMsgio, ShutdownTypes
  <2>2. /\ stack' \in Seq(Frames) /\ Len(stack') = Len(stack)
        /\ stack'[Len(stack)].at = "listener"
        /\ \A n \in 1 .. Len(stack) : n # Len(stack) => stack'[n] = stack[n]
    BY <1>1, <1>2, <2>1, TopMoves DEF ShutdownTypes
  <2>3. stack' # <<>>
    BY <1>3, <2>2
  <2>4. ShutdownTypes' /\ MainInv'
    BY <1>1, <1>2, <2>1, <2>2, <2>3 DEF ShutdownTypes, MainInv
  <2>5. conn' = "open" => main' = "accepted"
    BY <1>1, <1>2, <2>1 DEF MainInv
  <2>6. HandlerInv'
    BY <1>1, <2>1, <2>2, <2>5 DEF HandlerInv
  <2>7. FreedInv'
    BY <1>1, <1>2, <2>1, <2>2 DEF FreedInv
  <2>8. EndInv'
    <3>1. process' \in {"running", "crashed"} /\ (process' = "crashed" => msgio = "freed")
      BY <2>1
    <3>2. process' = "crashed" => \E m, n \in 1 .. Len(stack') : m < n /\ stack'[m].at = "exit"
      BY <1>2, <2>1, <2>2, <3>1, ReadsFreed
    <3>3. QED
      BY <3>1, <3>2 DEF EndInv
  <2>9. QED
    BY <2>4, <2>6, <2>7, <2>8 DEF ShutdownInv
<1>5. CASE D!CloseListener
  <2>1. /\ D!Top.at = "listener" /\ D!GoTo("free") /\ UNCHANGED <<conn, msgio, clash>>
        /\ ls' = IF ls = "open" THEN "shut" ELSE ls
        /\ process' \in IF msgio = "freed" THEN {"running", "crashed"} ELSE {"running"}
    BY <1>5 DEF D!CloseListener, D!At, D!ReadsMsgio
  <2>2. /\ stack' \in Seq(Frames) /\ Len(stack') = Len(stack)
        /\ stack'[Len(stack)].at = "free"
        /\ \A n \in 1 .. Len(stack) : n # Len(stack) => stack'[n] = stack[n]
    BY <1>1, <1>2, <2>1, TopMoves DEF ShutdownTypes
  <2>3. stack' # <<>>
    BY <1>3, <2>2
  <2>4. ShutdownTypes' /\ MainInv'
    BY <1>1, <1>2, <2>1, <2>2, <2>3 DEF ShutdownTypes, MainInv
  <2>5. ls' \in {"shut", "closed"}
    BY <1>1, <1>2, <2>1 DEF ShutdownTypes, MainInv
  <2>6. conn = "open" => main = "accepted"
    BY <1>1, <1>2, <1>3, <2>1 DEF HandlerInv
  <2>7. HandlerInv'
    BY <1>2, <2>1, <2>5, <2>6 DEF HandlerInv
  <2>8. FreedInv'
    BY <1>1, <1>2, <2>1, <2>2 DEF FreedInv
  <2>9. EndInv'
    <3>1. process' \in {"running", "crashed"} /\ (process' = "crashed" => msgio = "freed")
      BY <2>1
    <3>2. process' = "crashed" => \E m, n \in 1 .. Len(stack') : m < n /\ stack'[m].at = "exit"
      BY <1>2, <2>1, <2>2, <3>1, ReadsFreed
    <3>3. QED
      BY <3>1, <3>2 DEF EndInv
  <2>10. QED
    BY <2>4, <2>7, <2>8, <2>9 DEF ShutdownInv
<1>6. CASE D!Free
  <2>1. /\ D!Top.at = "free" /\ D!GoTo("exit") /\ UNCHANGED <<ls, conn>>
        /\ clash' <=> clash \/ inAlloc
        /\ process' \in IF inAlloc \/ msgio = "freed" THEN {"running", "hung", "crashed"} ELSE {"running"}
    BY <1>6 DEF D!Free, D!At
  <2>2. /\ stack' \in Seq(Frames) /\ Len(stack') = Len(stack)
        /\ stack'[Len(stack)].at = "exit"
        /\ \A n \in 1 .. Len(stack) : n # Len(stack) => stack'[n] = stack[n]
    BY <1>1, <1>2, <2>1, TopMoves DEF ShutdownTypes
  <2>3. stack' # <<>>
    BY <1>3, <2>2
  <2>4. /\ process' \in {"running", "hung", "crashed"}
        /\ (process' # "running" => inAlloc \/ msgio = "freed")
    BY <2>1
  <2>5. ShutdownTypes' /\ MainInv'
    BY <1>1, <1>2, <2>1, <2>2, <2>3, <2>4 DEF ShutdownTypes, MainInv
  <2>6. (conn = "open" => main = "accepted") /\ ls \in {"shut", "closed"}
    BY <1>1, <1>2, <1>3, <2>1 DEF HandlerInv
  <2>7. HandlerInv'
    BY <1>2, <2>1, <2>6 DEF HandlerInv
  <2>8. FreedInv'
    BY <1>3, <2>2 DEF FreedInv
  <2>9. EndInv'
    <3>1. msgio = "freed" => \E m, n \in 1 .. Len(stack') : m < n /\ stack'[m].at = "exit"
      BY <1>2, <2>1, <2>2, ReadsFreed
    <3>2. QED
      BY <2>1, <2>4, <3>1 DEF EndInv
  <2>10. QED
    BY <2>5, <2>7, <2>8, <2>9 DEF ShutdownInv
<1>7. CASE D!Exit
  <2>1. /\ D!Top.at = "exit" /\ process' = "exited"
        /\ UNCHANGED <<ls, conn, msgio, stack, clash>>
    BY <1>7 DEF D!Exit, D!At
  <2>2. ls \in {"shut", "closed"} /\ (conn = "open" => main = "accepted")
    BY <1>1, <1>2, <1>3, <2>1 DEF HandlerInv
  <2>3. QED
    BY <1>1, <1>2, <2>1, <2>2 DEF ShutdownInv, ShutdownTypes, MainInv, HandlerInv, FreedInv, EndInv
<1>8. QED
  BY <1>4, <1>5, <1>6, <1>7 DEF D!Handler

-----------------------------------------------------------------------------
(* The inductive invariant of a server over stdin and stdout *)

Said == {"msg1", "msg3", "text"}

\* The line m is on its way to the server, perhaps behind one of odd length.
Underway(m) == up \in {<<m>>, <<"odd", m>>}

StdioTypes ==
  /\ relay \in {"none", "pipe", "operator"}
  /\ server \in {"msg1", "msg3"}
  /\ client \in {"done", "msg2", "msg4"}
  /\ verdict \in {"none", "trusted", "refused"}
  /\ up \in {<<>>, <<"odd">>} \/ \E m \in Said : Underway(m)
  /\ held # <<>> => held = <<"refused">> /\ verdict = "refused"
  /\ eof => relay = "pipe" /\ client = "done"

\* A line goes up when the client has said it and the server not answered it, and
\* a verdict is that of the session that is going on.
UpInv ==
  /\ Underway("msg1") => server = "msg1" /\ client # "msg4" /\ down = <<>>
  /\ Underway("msg3") => client # "msg2" /\ down = <<>> /\ (relay = "pipe" => client = "msg4")
  /\ Underway("text") => eof
  /\ server = "msg3" \/ Underway("msg1") \/ Underway("msg3") => verdict = "none"
  /\ server = "msg3" => down \in {<<>>, <<<<"msg2">>>>} /\ (client = "msg4" => down = <<>>)

\* What may be on its way to a client, by what it reads, and what it has got.
DownInv ==
  /\ client = "msg2" => verdict = "none" /\ down \in {<<>>, <<<<"msg2">>>>}
  /\ client = "msg4" =>
       \/ verdict = "none" /\ down = <<>>
       \/ verdict = "trusted" /\ down = <<<<"trusted", "text">>, <<"cipher">>>>
       \/ verdict = "refused" /\ held # <<>> /\ down = <<>>
       \/ verdict = "refused" /\ held = <<>> /\ down = <<<<"refused">>>> /\ relay = "operator"
  /\ relay = "pipe" /\ verdict = "refused" => client = "msg4"
  /\ client # "done" \/ server = "msg3" \/ Underway("msg1") \/ Underway("msg3") => got = <<>>
  /\ got # <<>> =>
       \/ verdict = "trusted" /\ got = <<"trusted", "text">>
       \/ verdict = "refused" /\ got = <<"refused">>

\* A server that does not use stdin and stdout has none of this.
UnusedInv ==
  relay = "none" =>
    /\ server = "msg1" /\ client = "done" /\ verdict = "none" /\ eof = FALSE
    /\ held = <<>> /\ up = <<>> /\ down = <<>> /\ got = <<>>

StdioInv == StdioTypes /\ UpInv /\ DownInv /\ UnusedInv

\* A sequence of one, with another one.
LEMMA AppendPart ==
  ASSUME NEW a, NEW b
  PROVE  Append(<<a>>, b) = <<a, b>>
<1> DEFINE one == <<a>>
           t == Append(one, b)
           two == <<a, b>>
<1>1. one \in Seq({a, b}) /\ Len(one) = 1 /\ one[1] = a
  OBVIOUS
<1>2. two \in Seq({a, b}) /\ Len(two) = 2 /\ two[1] = a /\ two[2] = b
  OBVIOUS
<1> HIDE DEF one, two
<1>3. t \in Seq({a, b}) /\ Len(t) = 2 /\ t[1] = a /\ t[2] = b
  <2> DEFINE S == {a, b}
  <2>1. b \in S /\ one \in Seq(S)
    BY <1>1
  <2> HIDE DEF S
  <2>2. /\ t \in Seq(S) /\ Len(t) = Len(one) + 1 /\ t[Len(one) + 1] = b
        /\ \A i \in 1 .. Len(one) : t[i] = one[i]
    BY <2>1, AppendProperties
  <2> USE DEF S
  <2> HIDE DEF t
  <2>3. Len(t) = 2 /\ t[2] = b
    BY <1>1, <2>2
  <2>4. t[1] = one[1]
    BY <1>1, <2>2
  <2>5. QED
    BY <1>1, <2>2, <2>3, <2>4
<1> HIDE DEF t
<1>4. \A n \in 1 .. 2 : t[n] = two[n]
  BY <1>2, <1>3
<1>5. t = two
  BY <1>2, <1>3, <1>4, SeqEqual
<1>6. QED
  BY <1>5 DEF t, one, two

\* At most one line is under way, and it is not one of odd length.
LEMMA OneLine ==
  /\ \A m, n \in Said : Underway(m) /\ Underway(n) => m = n
  /\ up \in {<<>>, <<"odd">>} => \A m \in Said : ~Underway(m)
BY DEF Underway, Said

\* What read_msg takes, and what it leaves.
LEMMA TakeLine ==
  ASSUME StdioTypes, T!Take
  PROVE  \/ Head(up) = "odd" /\ up = <<"odd">> /\ up' = <<>>
         \/ Head(up) = "odd" /\ \E m \in Said : Underway(m) /\ Underway(m)'
         \/ Head(up) \in Said /\ Underway(Head(up)) /\ up' = <<>>
<1>1. CASE up = <<>>
  BY <1>1 DEF T!Take
<1>2. CASE up = <<"odd">>
  BY <1>2 DEF T!Take
<1>3. ASSUME NEW m \in Said, up = <<m>> PROVE Head(up) = m /\ Underway(m) /\ up' = <<>>
  BY <1>3 DEF T!Take, Underway
<1>4. ASSUME NEW m \in Said, up = <<"odd", m>> PROVE Head(up) = "odd" /\ Underway(m) /\ Underway(m)'
  BY <1>4 DEF T!Take, Underway
<1>5. QED
  BY <1>1, <1>2, <1>3, <1>4 DEF StdioTypes, Underway

\* A line that is said while none is under way is, then.
LEMMA SayLine ==
  ASSUME up \in {<<>>, <<"odd">>}, NEW m \in Said, up' = Append(up, m)
  PROVE  Underway(m)'
<1>1. Append(<<>>, m) = <<m>>
  OBVIOUS
<1>2. Append(<<"odd">>, m) = <<"odd", m>>
  BY AppendPart
<1>3. QED
  BY <1>1, <1>2 DEF Underway

\* Where no line is under way there is room for the next one.
LEMMA Room ==
  ASSUME StdioTypes, ~Underway("msg1"), ~Underway("msg3"), ~Underway("text")
  PROVE  up \in {<<>>, <<"odd">>}
BY DEF StdioTypes, Said

\* One line is under way at most, name by name.
LEMMA OneOf ==
  /\ Underway("msg1") => ~Underway("msg3") /\ ~Underway("text")
  /\ Underway("msg3") => ~Underway("msg1") /\ ~Underway("text")
  /\ Underway("text") => ~Underway("msg1") /\ ~Underway("msg3")
BY OneLine DEF Said

\* A step that takes a line, by what it takes.
LEMMA Taken ==
  ASSUME StdioTypes, T!Take
  PROVE  /\ Underway("msg1")' => Underway("msg1") /\ Head(up) # "msg1"
         /\ Underway("msg3")' => Underway("msg3") /\ Head(up) # "msg3"
         /\ Underway("text")' => Underway("text")
         /\ Head(up) = "msg1" => Underway("msg1")
         /\ Head(up) = "msg3" => Underway("msg3")
         /\ up' \in {<<>>, <<"odd">>} \/ \E m \in Said : Underway(m)'
<1>1. CASE up = <<"odd">> /\ up' = <<>> /\ Head(up) = "odd"
  BY <1>1 DEF Underway
<1>2. CASE Head(up) = "odd" /\ \E m \in Said : Underway(m) /\ Underway(m)'
  <2>1. PICK m \in Said : Underway(m) /\ Underway(m)'
    BY <1>2
  <2>2. \A n \in Said : Underway(n)' => n = m
    BY <2>1 DEF Underway, Said
  <2>3. \A n \in Said : Underway(n)' => Underway(n)
    BY <2>1, <2>2
  <2>4. (Underway("msg1")' => Underway("msg1")) /\ (Underway("msg3")' => Underway("msg3"))
        /\ (Underway("text")' => Underway("text"))
    BY <2>3 DEF Said
  <2>5. QED
    BY <1>2, <2>1, <2>4
<1>3. CASE Head(up) \in Said /\ Underway(Head(up)) /\ up' = <<>>
  BY <1>3 DEF Underway
<1>4. QED
  BY <1>1, <1>2, <1>3, TakeLine

-----------------------------------------------------------------------------
(* The server's steps over stdin and stdout *)

\* A message, or something else, where the server reads msg1.
LEMMA ProcessMsg01Step ==
  ASSUME StdioInv, relay # "none", T!ProcessMsg01
  PROVE  StdioInv'
<1>1. StdioTypes /\ UpInv /\ DownInv /\ UnusedInv
  BY DEF StdioInv
<1>2. /\ server = "msg1" /\ T!Take /\ UNCHANGED <<relay, eof, client, got, verdict>>
      /\ \/ Head(up) = "msg1" /\ T!SendLine("msg2") /\ server' = "msg3"
         \/ UNCHANGED <<server, held, down>>
  BY DEF T!ProcessMsg01
<1>3. /\ Underway("msg1")' => Underway("msg1") /\ Head(up) # "msg1"
      /\ Underway("msg3")' => Underway("msg3") /\ Head(up) # "msg3"
      /\ Underway("text")' => Underway("text")
      /\ Head(up) = "msg1" => Underway("msg1")
      /\ up' \in {<<>>, <<"odd">>} \/ \E m \in Said : Underway(m)'
  BY <1>1, <1>2, Taken
<1>4. CASE UNCHANGED <<server, held, down>>
  <2>1. StdioTypes'
    BY <1>1, <1>2, <1>3, <1>4 DEF StdioTypes
  <2>2. UpInv'
    BY <1>1, <1>2, <1>3, <1>4 DEF UpInv
  <2>3. DownInv' /\ UnusedInv'
    BY <1>1, <1>2, <1>3, <1>4 DEF DownInv, UnusedInv
  <2>4. QED
    BY <2>1, <2>2, <2>3 DEF StdioInv
<1>5. CASE Head(up) = "msg1" /\ T!SendLine("msg2") /\ server' = "msg3"
  <2>1. Underway("msg1") /\ down = <<>> /\ verdict = "none" /\ got = <<>> /\ client # "msg4"
    BY <1>1, <1>3, <1>5 DEF UpInv, DownInv
  <2>2. held = <<>>
    BY <1>1, <2>1 DEF StdioTypes
  <2>3. down' = <<<<"msg2">>>> /\ held' = <<>>
    BY <1>5, <2>1, <2>2 DEF T!SendLine
  <2>4. ~Underway("msg1")' /\ ~Underway("msg3")' /\ (Underway("text")' => eof)
    BY <1>1, <1>3, <1>5, <2>1, OneOf DEF UpInv
  <2>5. StdioTypes'
    BY <1>1, <1>2, <1>3, <1>5, <2>3 DEF StdioTypes
  <2>6. UpInv'
    BY <1>2, <1>5, <2>1, <2>3, <2>4 DEF UpInv
  <2>7. DownInv' /\ UnusedInv'
    BY <1>1, <1>2, <2>1, <2>3 DEF StdioTypes, DownInv, UnusedInv
  <2>8. QED
    BY <2>5, <2>6, <2>7 DEF StdioInv
<1>6. QED
  BY <1>2, <1>4, <1>5

\* A message, or something else, where the server reads msg3.
LEMMA ProcessMsg3Step ==
  ASSUME StdioInv, relay # "none", T!ProcessMsg3
  PROVE  StdioInv'
<1>1. StdioTypes /\ UpInv /\ DownInv /\ UnusedInv
  BY DEF StdioInv
<1>2. /\ server = "msg3" /\ server' = "msg1" /\ T!Take /\ UNCHANGED <<relay, eof, client, got>>
      /\ \/ Head(up) = "msg3" /\ verdict' = "trusted" /\ T!SendMsg4
         \/ Head(up) = "msg3" /\ verdict' = "refused" /\ held' = Append(held, "refused") /\ down' = down
         \/ UNCHANGED <<held, down, verdict>>
  BY DEF T!ProcessMsg3
<1>3. /\ Underway("msg1")' => Underway("msg1")
      /\ Underway("msg3")' => Underway("msg3") /\ Head(up) # "msg3"
      /\ Underway("text")' => Underway("text")
      /\ Head(up) = "msg3" => Underway("msg3")
      /\ up' \in {<<>>, <<"odd">>} \/ \E m \in Said : Underway(m)'
  BY <1>1, <1>2, Taken
<1>4. verdict = "none" /\ held = <<>> /\ ~Underway("msg1") /\ ~Underway("msg1")' /\ got = <<>>
  BY <1>1, <1>2, <1>3 DEF StdioTypes, UpInv, DownInv
<1>5. CASE UNCHANGED <<held, down, verdict>>
  <2>1. StdioTypes'
    BY <1>1, <1>2, <1>3, <1>5 DEF StdioTypes
  <2>2. UpInv'
    BY <1>1, <1>2, <1>3, <1>4, <1>5 DEF UpInv
  <2>3. DownInv' /\ UnusedInv'
    BY <1>1, <1>2, <1>3, <1>4, <1>5 DEF DownInv, UnusedInv
  <2>4. QED
    BY <2>1, <2>2, <2>3 DEF StdioInv
<1>6. CASE Head(up) = "msg3" /\ verdict' \in {"trusted", "refused"}
  <2>1. Underway("msg3") /\ down = <<>> /\ client # "msg2" /\ (relay = "pipe" => client = "msg4")
    BY <1>1, <1>3, <1>6 DEF UpInv
  <2>2. ~Underway("msg3")' /\ ~Underway("text")'
    BY <1>3, <1>6, <2>1, OneOf
  <2>3. \/ verdict' = "trusted" /\ down' = <<<<"trusted", "text">>, <<"cipher">>>> /\ held' = <<>>
        \/ verdict' = "refused" /\ down' = <<>> /\ held' = <<"refused">>
    <3>1. CASE verdict' = "trusted" /\ T!SendMsg4
      <4> DEFINE parts == <<"trusted", "text">>
                 lines == <<parts, <<"cipher">>>>
      <4>1. parts \in Seq({"trusted", "text"})
        OBVIOUS
      <4>2. lines \in Seq({parts, <<"cipher">>})
        OBVIOUS
      <4>3. down' = down \o <<held \o parts, <<"cipher">>>> /\ held' = <<>>
        BY <3>1 DEF T!SendMsg4
      <4> HIDE DEF parts
      <4>4. held \o parts = parts
        BY <1>4, <4>1, ConcatEmptySeq
      <4>5. down' = down \o lines
        BY <4>3, <4>4
      <4> HIDE DEF lines
      <4>6. down' = lines
        BY <2>1, <4>2, <4>5, ConcatEmptySeq
      <4>7. QED
        BY <3>1, <4>3, <4>6 DEF lines, parts
    <3>2. CASE verdict' = "refused" /\ held' = Append(held, "refused") /\ down' = down
      BY <1>4, <2>1, <3>2
    <3>3. QED
      BY <1>2, <1>4, <1>6, <3>1, <3>2
  <2>4. StdioTypes'
    BY <1>1, <1>2, <1>3, <2>3 DEF StdioTypes
  <2>5. UpInv'
    BY <1>2, <1>4, <2>2 DEF UpInv
  <2>6. DownInv' /\ UnusedInv'
    BY <1>1, <1>2, <1>4, <2>1, <2>3 DEF StdioTypes, DownInv, UnusedInv
  <2>7. QED
    BY <2>4, <2>5, <2>6 DEF StdioInv
<1>7. QED
  BY <1>2, <1>5, <1>6

\* At the end of the input there is no line left.
LEMMA EndOfInputStep ==
  ASSUME StdioInv, relay # "none", T!EndOfInput
  PROVE  StdioInv'
<1>1. StdioTypes /\ UpInv /\ DownInv /\ UnusedInv
  BY DEF StdioInv
<1>2. /\ up = <<>> /\ server' = "msg1"
      /\ UNCHANGED <<relay, held, up, eof, client, down, got, verdict>>
  BY DEF T!EndOfInput
<1>3. ~Underway("msg1") /\ ~Underway("msg3") /\ ~Underway("text")
  BY <1>2 DEF Underway
<1>4. UNCHANGED <<Underway("msg1"), Underway("msg3"), Underway("text")>>
  BY <1>2 DEF Underway
<1>5. StdioTypes'
  BY <1>1, <1>2 DEF StdioTypes
<1>6. UpInv' /\ DownInv' /\ UnusedInv'
  BY <1>1, <1>2, <1>3, <1>4 DEF UpInv, DownInv, UnusedInv
<1>7. QED
  BY <1>5, <1>6 DEF StdioInv

-----------------------------------------------------------------------------
(* The client's steps over stdin and stdout, and the operator's *)

\* A client says msg1 when nothing is under way.
LEMMA StartStep ==
  ASSUME StdioInv, relay # "none", T!Start
  PROVE  StdioInv'
<1>1. StdioTypes /\ UpInv /\ DownInv /\ UnusedInv
  BY DEF StdioInv
<1>2. /\ /\ ~eof
      /\ server = "msg1"
      /\ held = <<>>
      /\ up \in {<<>>, <<"odd">>}
      /\ up' = Append(up, "msg1")
      /\ client' = "msg2" /\ down' = <<>> /\ got' = <<>> /\ verdict' = "none"
      /\ UNCHANGED <<relay, server, held, eof>>
  BY DEF T!Start
<1>3. "msg1" \in Said /\ Underway("msg1")'
  BY <1>2, SayLine DEF Said
<1>4. ~Underway("msg3")' /\ ~Underway("text")'
  BY <1>3 DEF Underway
<1>5. StdioTypes'
  BY <1>1, <1>2, <1>3 DEF StdioTypes
<1>6. UpInv'
  BY <1>2, <1>4 DEF UpInv
<1>7. DownInv' /\ UnusedInv'
  BY <1>2 DEF DownInv, UnusedInv
<1>8. QED
  BY <1>5, <1>6, <1>7 DEF StdioInv

\* The client answers msg2 by msg3, or ends.
LEMMA ReadMsg2Step ==
  ASSUME StdioInv, relay # "none", T!ReadMsg2
  PROVE  StdioInv'
<1>1. StdioTypes /\ UpInv /\ DownInv /\ UnusedInv
  BY DEF StdioInv
<1>2. /\ client = "msg2" /\ down # <<>> /\ down' = Tail(down)
      /\ \/ client' = "msg4" /\ up' = Append(up, "msg3") /\ eof' = eof
         \/ client' = "done" /\ (eof' => relay = "pipe") /\ up' = up
      /\ UNCHANGED <<relay, server, held, got, verdict>>
  BY DEF T!ReadMsg2, T!Ends
<1>3. verdict = "none" /\ held = <<>> /\ down = <<<<"msg2">>>> /\ got = <<>> /\ ~eof
  BY <1>1, <1>2 DEF StdioTypes, DownInv
<1>4. down' = <<>>
  BY <1>2, <1>3
<1>5. ~Underway("msg1") /\ ~Underway("msg3") /\ ~Underway("text")
  BY <1>1, <1>2, <1>3 DEF UpInv
<1>6. CASE client' = "msg4" /\ up' = Append(up, "msg3") /\ eof' = eof
  <2>1. up \in {<<>>, <<"odd">>}
    BY <1>1, <1>5, Room
  <2>2. "msg3" \in Said /\ Underway("msg3")'
    BY <1>6, <2>1, SayLine DEF Said
  <2>3. ~Underway("msg1")' /\ ~Underway("text")'
    BY <2>2 DEF Underway
  <2>4. StdioTypes'
    BY <1>1, <1>2, <1>3, <1>6, <2>2 DEF StdioTypes
  <2>5. UpInv'
    BY <1>1, <1>2, <1>3, <1>4, <1>6, <2>3 DEF UpInv
  <2>6. DownInv' /\ UnusedInv'
    BY <1>2, <1>3, <1>4, <1>6 DEF DownInv, UnusedInv
  <2>7. QED
    BY <2>4, <2>5, <2>6 DEF StdioInv
<1>7. CASE client' = "done" /\ (eof' => relay = "pipe") /\ up' = up
  <2>1. UNCHANGED <<Underway("msg1"), Underway("msg3"), Underway("text")>>
    BY <1>7 DEF Underway
  <2>2. StdioTypes'
    <3>1. up' \in {<<>>, <<"odd">>}
      BY <1>1, <1>5, <1>7, Room
    <3>2. QED
      BY <1>1, <1>2, <1>3, <1>7, <3>1 DEF StdioTypes
  <2>3. UpInv'
    BY <1>2, <1>3, <1>4, <1>5, <2>1 DEF UpInv
  <2>4. DownInv' /\ UnusedInv'
    BY <1>2, <1>3, <1>7 DEF DownInv, UnusedInv
  <2>5. QED
    BY <2>2, <2>3, <2>4 DEF StdioInv
<1>8. QED
  BY <1>2, <1>6, <1>7

\* The client takes the first line that comes down for its msg4, or nothing of it.
LEMMA ReadMsg4Step ==
  ASSUME StdioInv, relay # "none", T!ReadMsg4
  PROVE  StdioInv'
<1>1. StdioTypes /\ UpInv /\ DownInv /\ UnusedInv
  BY DEF StdioInv
<1>2. /\ client = "msg4" /\ down # <<>> /\ got' \in {Head(down), <<>>}
      /\ client' = "done" /\ (eof' <=> relay = "pipe")
      /\ up' = IF relay = "pipe" /\ got' # <<>> /\ Head(got') = "trusted" THEN Append(up, "text") ELSE up
      /\ UNCHANGED <<relay, server, held, verdict>>
  BY DEF T!ReadMsg4, T!Ends
<1>3. \/ verdict = "trusted" /\ Head(down) = <<"trusted", "text">>
      \/ verdict = "refused" /\ Head(down) = <<"refused">> /\ relay = "operator"
  BY <1>1, <1>2 DEF DownInv
<1>4. server = "msg1" /\ ~Underway("msg1") /\ ~Underway("msg3") /\ ~eof
  BY <1>1, <1>2, <1>3 DEF StdioTypes, UpInv
<1>5. up \in {<<>>, <<"odd">>}
  BY <1>1, <1>4, Room DEF UpInv
<1>6. up' \in {<<>>, <<"odd">>} \/ (Underway("text")' /\ relay = "pipe")
  <2>1. "text" \in Said
    BY DEF Said
  <2>2. QED
    BY <1>2, <1>5, <2>1, SayLine
<1>7. ~Underway("msg1")' /\ ~Underway("msg3")' /\ (Underway("text")' => relay = "pipe")
  BY <1>6 DEF Underway
<1>8. StdioTypes'
  BY <1>1, <1>2, <1>6 DEF StdioTypes, Said
<1>9. UpInv'
  BY <1>2, <1>4, <1>7 DEF UpInv
<1>10. DownInv' /\ UnusedInv'
  BY <1>1, <1>2, <1>3, <1>4, <1>7 DEF DownInv, UnusedInv
<1>11. QED
  BY <1>8, <1>9, <1>10 DEF StdioInv

\* The operator pastes what the server's terminal shows, pastes something else,
\* or ends the client's input.
LEMMA OperatorStep ==
  ASSUME StdioInv, relay # "none", T!Paste \/ T!Slip \/ T!GiveUp
  PROVE  StdioInv'
<1>1. StdioTypes /\ UpInv /\ DownInv /\ UnusedInv
  BY DEF StdioInv
<1>2. CASE T!Paste
  <2>1. /\ relay = "operator" /\ held # <<>> /\ down' = Append(down, held) /\ held' = <<>>
        /\ UNCHANGED <<relay, server, up, eof, client, got, verdict>>
    BY <1>2 DEF T!Paste
  <2>2. held = <<"refused">> /\ verdict = "refused"
    BY <1>1, <2>1 DEF StdioTypes
  <2>3. server = "msg1" /\ ~Underway("msg1") /\ ~Underway("msg3") /\ client # "msg2"
    BY <1>1, <2>2 DEF StdioTypes, UpInv, DownInv
  <2>4. client = "msg4" => down' = <<<<"refused">>>>
    BY <1>1, <2>1, <2>2 DEF DownInv
  <2>5. UNCHANGED <<Underway("msg1"), Underway("msg3"), Underway("text")>>
    BY <2>1 DEF Underway
  <2>6. StdioTypes'
    BY <1>1, <2>1 DEF StdioTypes, Underway
  <2>7. UpInv'
    BY <1>1, <2>1, <2>3, <2>5 DEF UpInv
  <2>8. DownInv' /\ UnusedInv'
    BY <1>1, <2>1, <2>2, <2>3, <2>4, <2>5 DEF DownInv, UnusedInv
  <2>9. QED
    BY <2>6, <2>7, <2>8 DEF StdioInv
<1>3. CASE T!Slip
  <2>1. /\ up = <<>> /\ up' = <<"odd">>
        /\ UNCHANGED <<relay, server, held, eof, client, down, got, verdict>>
    BY <1>3 DEF T!Slip
  <2>2. \A m \in Said : ~Underway(m) /\ ~Underway(m)'
    BY <2>1 DEF Underway, Said
  <2>3. /\ ~Underway("msg1") /\ ~Underway("msg3")
        /\ ~Underway("msg1")' /\ ~Underway("msg3")' /\ ~Underway("text")'
    BY <2>2 DEF Said
  <2>4. StdioTypes'
    BY <1>1, <2>1 DEF StdioTypes
  <2>5. UpInv'
    BY <1>1, <2>1, <2>3 DEF UpInv
  <2>6. DownInv' /\ UnusedInv'
    BY <1>1, <2>1, <2>3 DEF DownInv, UnusedInv
  <2>7. QED
    BY <2>4, <2>5, <2>6 DEF StdioInv
<1>4. CASE T!GiveUp
  <2>1. /\ relay = "operator" /\ client # "done" /\ client' = "done" /\ ~eof'
        /\ UNCHANGED <<relay, server, held, up, down, got, verdict>>
    BY <1>4 DEF T!GiveUp, T!Ends
  <2>2. ~eof /\ ~Underway("text")
    BY <1>1, <2>1 DEF StdioTypes, UpInv
  <2>3. UNCHANGED <<Underway("msg1"), Underway("msg3"), Underway("text")>>
    BY <2>1 DEF Underway
  <2>4. StdioTypes'
    BY <1>1, <2>1 DEF StdioTypes, Underway
  <2>5. UpInv'
    BY <1>1, <2>1, <2>2, <2>3 DEF UpInv
  <2>6. DownInv' /\ UnusedInv'
    BY <1>1, <2>1, <2>3 DEF DownInv, UnusedInv
  <2>7. QED
    BY <2>4, <2>5, <2>6 DEF StdioInv
<1>5. QED
  BY <1>2, <1>3, <1>4

\* new MsgIO without a socket: the clients come later.
LEMMA ConstructStep ==
  ASSUME StdioInv, relay = "none", T!Construct
  PROVE  StdioInv'
<1>1. StdioTypes /\ UpInv /\ DownInv /\ UnusedInv
  BY DEF StdioInv
<1>2. /\ relay' \in {"pipe", "operator"}
      /\ UNCHANGED <<server, held, up, eof, client, down, got, verdict>>
  BY DEF T!Construct
<1>3. /\ server = "msg1" /\ client = "done" /\ verdict = "none" /\ ~eof
      /\ held = <<>> /\ up = <<>> /\ down = <<>> /\ got = <<>>
  BY <1>1 DEF UnusedInv
<1>4. \A m \in Said : ~Underway(m) /\ ~Underway(m)'
  BY <1>2, <1>3 DEF Underway, Said
<1>5. ~Underway("msg1")' /\ ~Underway("msg3")' /\ ~Underway("text")'
  BY <1>4 DEF Said
<1>6. StdioTypes'
  BY <1>2, <1>3 DEF StdioTypes
<1>7. UpInv' /\ DownInv' /\ UnusedInv'
  BY <1>2, <1>3, <1>5 DEF UpInv, DownInv, UnusedInv
<1>8. QED
  BY <1>6, <1>7 DEF StdioInv

-----------------------------------------------------------------------------
(* The process *)

\* The invariant of the whole: stdin and stdout are used once main serves.
ProcessInv ==
  /\ ShutdownInv /\ StdioInv
  /\ relay # "none" => pc = "serving"

\* What is left alone keeps its invariant.
LEMMA Untouched ==
  /\ ShutdownInv /\ UNCHANGED shutdownVars => ShutdownInv'
  /\ StdioInv /\ UNCHANGED stdioVars => StdioInv'
<1>1. ShutdownInv /\ UNCHANGED shutdownVars => ShutdownInv'
  BY DEF shutdownVars, ShutdownInv, ShutdownTypes, MainInv, HandlerInv, FreedInv, EndInv
<1>2. StdioInv /\ UNCHANGED stdioVars => StdioInv'
  BY DEF stdioVars, StdioInv, StdioTypes, UpInv, DownInv, UnusedInv, Underway
<1>3. QED
  BY <1>1, <1>2

\* The script and main before MsgIO: what they do is done before main serves.
LEMMA NotServingYet ==
  ASSUME Next
  PROVE  pc # "serving"
BY DEF Next, Start, Options, ParseLone, ParseArgument, ParseProxy, ParsePort, ParseStops,
   CheckPort, CheckRequired, Connect, Listen, RunServer, Edit

\* Each step of the process is a step of main's life under signals or leaves it
\* alone, and is a step of the sessions over stdin and stdout or leaves those alone.
LEMMA ProcessStep ==
  ASSUME ProcessInv, [ProcessNext]_processVars
  PROVE  ProcessInv'
<1>1. ShutdownInv /\ StdioInv /\ (relay # "none" => pc = "serving")
  BY DEF ProcessInv
<1>2. CASE StartUp
  <2>1. Next /\ UNCHANGED shutdownVars /\ UNCHANGED stdioVars
    BY <1>2 DEF StartUp
  <2>2. relay = "none" /\ relay' = "none"
    BY <1>1, <2>1, NotServingYet DEF stdioVars
  <2>3. QED
    BY <1>1, <2>1, <2>2, Untouched DEF ProcessInv
<1>3. CASE ListenStdio
  <2>1. pc = "listen" /\ (pc' = "serving" \/ ~config.stdio) /\ config.stdio
        /\ UNCHANGED shutdownVars
        /\ (T!Construct \/ UNCHANGED stdioVars)
    BY <1>3 DEF ListenStdio, Listen
  <2>2. relay = "none" /\ pc' = "serving"
    BY <1>1, <2>1
  <2>3. StdioInv'
    BY <1>1, <2>1, <2>2, ConstructStep, Untouched
  <2>4. QED
    BY <1>1, <2>1, <2>2, <2>3, Untouched DEF ProcessInv
<1>4. CASE ListenSocket
  <2>1. pc = "listen" /\ D!Construct /\ UNCHANGED stdioVars
    BY <1>4 DEF ListenSocket, Listen
  <2>2. relay = "none" /\ relay' = "none"
    BY <1>1, <2>1 DEF stdioVars
  <2>3. ShutdownInv'
    BY <1>1, <2>1, MainStep DEF D!Main
  <2>4. QED
    BY <1>1, <2>1, <2>2, <2>3, Untouched DEF ProcessInv
<1>5. CASE Serve
  <2>1. (D!Main \/ D!Handler) /\ pc' = pc /\ UNCHANGED stdioVars
    BY <1>5 DEF Serve, vars
  <2>2. ShutdownInv'
    BY <1>1, <2>1, MainStep, HandlerStep
  <2>3. relay' = relay
    BY <2>1 DEF stdioVars
  <2>4. QED
    BY <1>1, <2>1, <2>2, <2>3, Untouched DEF ProcessInv
<1>6. CASE ServeStdio
  <2>1. T!Next /\ pc' = pc /\ UNCHANGED shutdownVars
    BY <1>6 DEF ServeStdio, vars
  <2>2. relay # "none"
    BY <2>1 DEF T!Next
  <2>3. StdioInv'
    BY <1>1, <2>1, <2>2, ProcessMsg01Step, ProcessMsg3Step, EndOfInputStep, StartStep, ReadMsg2Step,
       ReadMsg4Step, OperatorStep DEF T!Next, T!Server, T!Client
  <2>4. QED
    BY <1>1, <2>1, <2>2, <2>3, Untouched DEF ProcessInv
<1>7. CASE Signal
  <2>1. /\ \E n \in DOMAIN D!Signals : D!Deliver(D!Signals[n])
        /\ pc' = pc /\ UNCHANGED stdioVars
    BY <1>7 DEF Signal, vars
  <2>2. ShutdownInv'
    BY <1>1, <2>1, SignalStep
  <2>3. relay' = relay
    BY <2>1 DEF stdioVars
  <2>4. QED
    BY <1>1, <2>1, <2>2, <2>3, Untouched DEF ProcessInv
<1>8. CASE UNCHANGED processVars
  <2>1. pc' = pc /\ relay' = relay /\ UNCHANGED shutdownVars /\ UNCHANGED stdioVars
    BY <1>8 DEF processVars, vars, shutdownVars, stdioVars
  <2>2. QED
    BY <1>1, <2>1, Untouched DEF ProcessInv
<1>9. QED
  BY <1>2, <1>3, <1>4, <1>5, <1>6, <1>7, <1>8 DEF ProcessNext

\* The invariant is inductive.
THEOREM ProcessInvariance == ProcessSpec => []ProcessInv
<1>1. ProcessInit => ProcessInv
  <2> SUFFICES ASSUME ProcessInit PROVE ProcessInv
    OBVIOUS
  <2>1. D!Init /\ T!Init
    BY DEF ProcessInit
  <2>2. stack \in Seq(Frames) /\ Len(stack) = 0
    BY <2>1, EmptySeq DEF D!Init
  <2>3. ShutdownInv
    BY <2>1, <2>2 DEF D!Init, ShutdownInv, ShutdownTypes, MainInv, HandlerInv, FreedInv, EndInv
  <2>4. relay = "none" /\ server = "msg1" /\ client = "done" /\ verdict = "none" /\ eof = FALSE
        /\ held = <<>> /\ up = <<>> /\ down = <<>> /\ got = <<>>
    BY <2>1 DEF T!Init
  <2>5. \A m \in Said : ~Underway(m)
    BY <2>4 DEF Underway, Said
  <2>6. ~Underway("msg1") /\ ~Underway("msg3") /\ ~Underway("text")
    BY <2>5 DEF Said
  <2>7. StdioInv
    BY <2>4, <2>6 DEF StdioInv, StdioTypes, UpInv, DownInv, UnusedInv
  <2>8. QED
    BY <2>3, <2>4, <2>7 DEF ProcessInv
<1>2. QED
  BY <1>1, ProcessStep, PTL DEF ProcessSpec

\* cleanup_and_exit has shut down both sockets when it calls exit, wherever main
\* was and however the handlers stacked, but for a connection that accept had
\* returned and server_loop not stored; and a signal that still has its default
\* action finds a listening socket only while main installs the handlers.
THEOREM ExitsAreGraceful == ProcessSpec => []GracefulShutdown
<1>1. ProcessInv => GracefulShutdown
  BY DEF ProcessInv, ShutdownInv, EndInv, GracefulShutdown, D!GracefulShutdown
<1>2. QED
  BY <1>1, ProcessInvariance, PTL

\* cleanup_and_exit crashes or hangs only if main was in the allocator, or if a
\* handler below had already freed msgio.
THEOREM OnlyTwoWaysToCrash == ProcessSpec => []OnlyTwoWindows
<1>1. ProcessInv => OnlyTwoWindows
  <2> SUFFICES ASSUME ProcessInv, process \in {"crashed", "hung"}, ~clash
               PROVE  \E m, n \in DOMAIN stack : m < n /\ stack[m].at = "exit"
    BY DEF OnlyTwoWindows, D!OnlyTwoWindows
  <2>1. DOMAIN stack = 1 .. Len(stack)
    BY LenProperties DEF ProcessInv, ShutdownInv, ShutdownTypes
  <2>2. QED
    BY <2>1 DEF ProcessInv, ShutdownInv, EndInv
<1>2. QED
  BY <1>1, ProcessInvariance, PTL

\* What a client over stdin and stdout takes for its msg4 is its own status, and
\* never the ciphertext, which a printf of process_msg3 has cut off; over pipes a
\* refused client gets nothing, and does not end.
THEOREM StdioClientsGetTheirStatus == ProcessSpec => []StdioOnlyTheStatus
<1>1. ProcessInv => StdioOnlyTheStatus
  <2> SUFFICES ASSUME StdioInv PROVE T!OnlyTheStatus
    BY DEF ProcessInv, StdioOnlyTheStatus
  <2>1. ASSUME got # <<>> PROVE Head(got) = verdict /\ \A n \in DOMAIN got : got[n] # "cipher"
    <3>1. CASE verdict = "trusted" /\ got = <<"trusted", "text">>
      BY <3>1
    <3>2. CASE verdict = "refused" /\ got = <<"refused">>
      BY <3>2
    <3>3. QED
      BY <2>1, <3>1, <3>2 DEF StdioInv, DownInv
  <2>2. relay = "pipe" /\ verdict = "refused" => client = "msg4"
    BY DEF StdioInv, DownInv
  <2>3. QED
    BY <2>1, <2>2 DEF T!OnlyTheStatus
<1>2. QED
  BY <1>1, ProcessInvariance, PTL

-----------------------------------------------------------------------------
(* The start-up: the words of the command line that run-server makes *)

\* What can be a word of a command line that run-server makes.
OptionWords == ArgumentOptions \union LoneOptions \union ProxyUrls
FileWords == {Base[v] : v \in DOMAIN Base} \union UNION {Edits[v] : v \in DOMAIN Edits}
ArgumentWords == UNION {Range(a) : a \in Arguments}
Word == OptionWords \union FileWords \union ArgumentWords

\* A word in front of a command line.
LEMMA WordInFront ==
  ASSUME NEW W, NEW w \in W, NEW rest \in Seq(W)
  PROVE  /\ <<w>> \o rest \in Seq(W) /\ <<w>> \o rest # <<>>
         /\ Len(<<w>> \o rest) = Len(rest) + 1
         /\ Head(<<w>> \o rest) = w /\ Tail(<<w>> \o rest) = rest
         /\ \A n \in 1 .. Len(rest) : (<<w>> \o rest)[n + 1] = rest[n]
<1> DEFINE one == <<w>>
           all == one \o rest
<1>1. one \in Seq(W) /\ Len(one) = 1 /\ one[1] = w
  OBVIOUS
<1> HIDE DEF one
<1>2. /\ all \in Seq(W) /\ Len(all) = Len(rest) + 1 /\ Len(rest) \in Nat
      /\ \A n \in 1 .. Len(one) + Len(rest) :
           all[n] = IF n <= Len(one) THEN one[n] ELSE rest[n - Len(one)]
  <2>1. Len(rest) \in Nat
    BY LenProperties
  <2>2. /\ one \o rest \in Seq(W) /\ Len(one \o rest) = Len(one) + Len(rest)
        /\ \A n \in 1 .. Len(one) + Len(rest) :
             (one \o rest)[n] = IF n <= Len(one) THEN one[n] ELSE rest[n - Len(one)]
    BY <1>1, ConcatProperties
  <2>3. QED
    BY <1>1, <2>1, <2>2
<1> HIDE DEF all
<1>3. all[1] = w /\ \A n \in 1 .. Len(rest) : all[n + 1] = rest[n]
  <2>1. all[1] = w
    BY <1>1, <1>2
  <2>2. ASSUME NEW n \in 1 .. Len(rest) PROVE all[n + 1] = rest[n]
    BY <1>1, <1>2
  <2>3. QED
    BY <2>1, <2>2
<1>4. all # <<>>
  BY <1>2, EmptySeq
<1>5. Head(all) = w
  BY <1>2, <1>3, <1>4, HeadTailProperties
<1>6. Tail(all) = rest
  <2>1. Tail(all) \in Seq(W) /\ Len(Tail(all)) = Len(rest)
        /\ \A n \in 1 .. Len(rest) : Tail(all)[n] = rest[n]
    BY <1>2, <1>3, <1>4, HeadTailProperties
  <2>2. QED
    BY <2>1, SeqEqual
<1>7. QED
  BY <1>2, <1>3, <1>4, <1>5, <1>6 DEF one, all

\* Two words in front of a command line.
LEMMA TwoInFront ==
  ASSUME NEW W, NEW o \in W, NEW v \in W, NEW rest \in Seq(W)
  PROVE  /\ <<o, v>> \o rest = <<o>> \o (<<v>> \o rest)
         /\ <<o, v>> \o rest \in Seq(W)
<1> DEFINE one == <<o>>
           two == <<v>>
           both == <<o, v>>
<1>1. one \in Seq(W) /\ two \in Seq(W) /\ both \in Seq(W)
  OBVIOUS
<1>2. both = one \o two
  <2>1. Len(one) = 1 /\ Len(two) = 1 /\ Len(both) = 2 /\ one[1] = o /\ two[1] = v
        /\ both[1] = o /\ both[2] = v
    OBVIOUS
  <2> HIDE DEF one, two, both
  <2>2. one \o two \in Seq(W) /\ Len(one \o two) = 2
        /\ \A n \in 1 .. 2 : (one \o two)[n] = IF n <= 1 THEN one[n] ELSE two[n - 1]
    BY <1>1, <2>1, ConcatProperties
  <2>3. (one \o two)[1] = o /\ (one \o two)[2] = v
    BY <2>1, <2>2
  <2>4. \A n \in 1 .. Len(both) : both[n] = (one \o two)[n]
    <3>1. \A n \in 1 .. 2 : n = 1 \/ n = 2
      OBVIOUS
    <3>2. QED
      BY <2>1, <2>3, <3>1
  <2>5. QED
    BY <1>1, <2>1, <2>2, <2>4, SeqEqual
<1> HIDE DEF one, two, both
<1>3. (one \o two) \o rest = one \o (two \o rest) /\ both \o rest \in Seq(W)
  BY <1>1, ConcatAssociative, ConcatProperties
<1>4. QED
  BY <1>1, <1>2, <1>3 DEF one, two, both

\* A line that is not empty begins with its head.
LEMMA LineHead ==
  ASSUME NEW W, NEW rest \in Seq(W), rest # <<>>
  PROVE  Head(rest) \in W /\ Tail(rest) \in Seq(W) /\ rest = <<Head(rest)>> \o Tail(rest)
<1>1. Head(rest) \in W /\ Tail(rest) \in Seq(W) /\ Len(Tail(rest)) = Len(rest) - 1
      /\ Head(rest) = rest[1] /\ \A n \in 1 .. Len(Tail(rest)) : Tail(rest)[n] = rest[n + 1]
  BY HeadTailProperties
<1> DEFINE h == Head(rest)
           t == Tail(rest)
           all == <<h>> \o t
<1>2. all \in Seq(W) /\ Len(all) = Len(t) + 1 /\ all[1] = h
      /\ \A n \in 1 .. Len(t) : all[n + 1] = t[n]
  BY <1>1, WordInFront, HeadTailProperties
<1>3. Len(rest) \in Nat \ {0} /\ Len(t) = Len(rest) - 1 /\ h = rest[1]
      /\ \A n \in 1 .. Len(t) : t[n] = rest[n + 1]
  BY <1>1, EmptySeq, LenProperties
<1> HIDE DEF h, t, all
<1>4. Len(all) = Len(rest) /\ \A n \in 1 .. Len(rest) : all[n] = rest[n]
  <2>1. Len(all) = Len(rest)
    BY <1>2, <1>3
  <2>2. ASSUME NEW n \in 1 .. Len(rest) PROVE all[n] = rest[n]
    <3>1. CASE n = 1
      BY <3>1, <1>2, <1>3
    <3>2. CASE n # 1
      <4>1. n - 1 \in 1 .. Len(t) /\ (n - 1) + 1 = n
        BY <3>2, <1>3
      <4>2. QED
        BY <4>1, <1>2, <1>3
    <3>3. QED
      BY <3>1, <3>2
  <2>3. QED
    BY <2>1, <2>2
<1>5. all = rest
  BY <1>2, <1>4, SeqEqual
<1>6. QED
  BY <1>1, <1>5 DEF h, t, all

-----------------------------------------------------------------------------
(* What a step of main does with the first words *)

\* An option that has an argument is parsed with the next word, or lacks it.
LEMMA ArgumentIsParsed ==
  ASSUME NEW o \in ArgumentOptions, pc = "options", words # <<>>, Head(words) = o, Start
  PROVE  ParseArgument \/ (ParseStops /\ Len(words) = 1)
<1>1. ~ParseLone
  BY DEF ParseLone, LoneOptions, ArgumentOptions
<1>2. ~ParseProxy /\ ~ParsePort
  BY DEF ParseProxy, ParsePort, ProxyUrls, ArgumentOptions
<1>3. ~CheckPort /\ ~CheckRequired /\ ~Connect /\ ~Listen
  BY DEF CheckPort, CheckRequired, Connect, Listen
<1>4. ParseStops => Len(words) = 1
  BY DEF ParseStops, ArgumentOptions
<1>5. QED
  BY <1>1, <1>2, <1>3, <1>4 DEF Start

\* An option without one is parsed by itself.
LEMMA LoneIsParsed ==
  ASSUME NEW o \in LoneOptions, pc = "options", words # <<>>, Head(words) = o, Start
  PROVE  ParseLone
<1>1. ~ParseArgument /\ ~ParseStops
  BY DEF ParseArgument, ParseStops, LoneOptions, ArgumentOptions
<1>2. ~ParseProxy /\ ~ParsePort
  BY DEF ParseProxy, ParsePort, ProxyUrls, LoneOptions
<1>3. ~CheckPort /\ ~CheckRequired /\ ~Connect /\ ~Listen
  BY DEF CheckPort, CheckRequired, Connect, Listen
<1>4. QED
  BY <1>1, <1>2, <1>3 DEF Start

\* So is a URL.
LEMMA ProxyIsParsed ==
  ASSUME NEW o \in ProxyUrls, pc = "options", words # <<>>, Head(words) = o, Start
  PROVE  ParseProxy
<1>1. ~ParseArgument /\ ~ParseStops
  BY DEF ParseArgument, ParseStops, ProxyUrls, ArgumentOptions
<1>2. ~ParseLone /\ ~ParsePort
  BY DEF ParseLone, ParsePort, ProxyUrls, LoneOptions
<1>3. ~CheckPort /\ ~CheckRequired /\ ~Connect /\ ~Listen
  BY DEF CheckPort, CheckRequired, Connect, Listen
<1>4. QED
  BY <1>1, <1>2, <1>3 DEF Start

\* An option and the word behind it are accepted together, or main exits.
LEMMA TakesTheNextWord ==
  ASSUME NEW o \in ArgumentOptions, NEW v \in Word, NEW rest \in Seq(Word),
         pc = "options", words = <<o>> \o (<<v>> \o rest), Start
  PROVE  /\ UNCHANGED <<settings, args, script, edited, ports, ias>>
         /\ given' = given \union {o}
         /\ words' = rest
         /\ \/ Accepts(o, v) /\ config' = Stored(o, v) /\ pc' = pc /\ why' = why
            \/ /\ pc' = "exited" /\ config' = config
               /\ \/ why' = "refused" /\ (Accepts(o, v) => v = "shortSigner")
                  \/ why' = "environment"
<1>1. o \in Word
  BY DEF Word, OptionWords
<1> DEFINE behind == <<v>> \o rest
<1>2. behind \in Seq(Word) /\ Len(behind) = Len(rest) + 1 /\ Head(behind) = v /\ Tail(behind) = rest
      /\ behind # <<>>
  BY WordInFront
<1>3. Len(rest) \in Nat
  BY LenProperties
<1>4. behind[1] = v
  BY <1>2, <1>3
<1> HIDE DEF behind
<1>5. words # <<>> /\ Head(words) = o /\ Tail(words) = behind /\ Len(words) = Len(behind) + 1
      /\ \A n \in 1 .. Len(behind) : words[n + 1] = behind[n]
  BY <1>1, <1>2, WordInFront DEF behind
<1>6. words[2] = v /\ Len(words) > 1
  BY <1>2, <1>3, <1>4, <1>5
<1>7. Tail(Tail(words)) = rest
  BY <1>2, <1>5
<1>8. ParseArgument
  BY <1>5, <1>6, ArgumentIsParsed
<1>9. QED
  BY <1>5, <1>6, <1>7, <1>8 DEF ParseArgument, ExitFor

-----------------------------------------------------------------------------
(* What an option stores *)

Fields ==
  {"spid", "primary", "secondary", "ca", "signer", "minSvn", "prodId", "serviceKey", "agent",
   "version", "strict", "allowDebug", "production", "linkable", "noproxy", "stdio", "proxy"}

\* Each option stores into one field of the configuration, at most.
StoresInto(c, opt, arg) ==
  /\ DOMAIN c = Fields
  /\ c.spid = IF opt \in {"-s", "-S"} THEN arg ELSE config.spid
  /\ c.primary = IF opt = "-i" THEN arg ELSE IF opt = "-I" THEN "key1" ELSE config.primary
  /\ c.secondary = IF opt = "-j" THEN arg ELSE IF opt = "-J" THEN "key2" ELSE config.secondary
  /\ c.signer = IF opt = "-N" THEN SignerRead(arg) ELSE config.signer
  /\ c.minSvn = IF opt = "-V" THEN NumberOf(arg) ELSE config.minSvn
  /\ c.prodId = IF opt = "-R" THEN NumberOf(arg) ELSE config.prodId
  /\ c.agent = IF opt = "-g" THEN arg ELSE config.agent
  /\ c.strict = IF opt = "-X" THEN TRUE ELSE config.strict
  /\ c.allowDebug = IF opt = "-D" THEN FALSE ELSE config.allowDebug
  /\ c.production = IF opt = "-P" THEN TRUE ELSE config.production
  /\ c.linkable = IF opt = "-l" THEN TRUE ELSE config.linkable
  /\ c.noproxy = IF opt = "-x" THEN TRUE ELSE config.noproxy
  /\ c.stdio = IF opt = "-z" THEN TRUE ELSE config.stdio
  /\ c.proxy = config.proxy

\* What the case of an option stores.
LEMMA StoredFields ==
  ASSUME DOMAIN config = Fields, NEW opt \in ArgumentOptions \union LoneOptions, NEW arg
  PROVE  StoresInto(Stored(opt, arg), opt, arg)
<1> SUFFICES ASSUME NEW c, c = Stored(opt, arg) PROVE StoresInto(c, opt, arg)
  OBVIOUS
<1> USE DEF StoresInto
<1> USE DEF Fields
<1>1. CASE opt \in {"-s", "-S"}
  BY <1>1 DEF Stored
<1>2. CASE opt \in {"-i", "-I"}
  BY <1>2 DEF Stored
<1>3. CASE opt \in {"-j", "-J"}
  BY <1>3 DEF Stored
<1>4. CASE opt \in {"-A", "-B", "-d", "-v"}
  BY <1>4 DEF Stored
<1>5. CASE opt = "-N"
  BY <1>5 DEF Stored
<1>6. CASE opt \in {"-V", "-R"}
  BY <1>6 DEF Stored
<1>7. CASE opt \in {"-k", "-K", "-g", "-r"}
  BY <1>7 DEF Stored
<1>8. CASE opt \in {"-X", "-D", "-P", "-l"}
  BY <1>8 DEF Stored
<1>9. CASE opt \in {"-x", "-z"}
  BY <1>9 DEF Stored
<1>10. QED
  BY <1>1, <1>2, <1>3, <1>4, <1>5, <1>6, <1>7, <1>8, <1>9 DEF ArgumentOptions, LoneOptions

-----------------------------------------------------------------------------
(* The command line of run-server, from each of its options on *)

FromAllowDebug == FlagIf(Off("ALLOW_DEBUG_ENCLAVE"), "-D") \o args
FromProduction == FlagIf(On("QUERY_IAS_PRODUCTION"), "-P") \o FromAllowDebug
FromVerbose    == FlagIf(On("VERBOSE"), "-v") \o FromProduction
FromDebug      == FlagIf(On("DEBUG"), "-d") \o FromVerbose
FromStrict     == FlagIf(On("POLICY_STRICT_TRUST"), "-X") \o FromDebug
FromLinkable   == FlagIf(On("LINKABLE"), "-l") \o FromStrict
FromProxy      == ProxyWords \o FromLinkable
FromProdId     == <<"-R">> \o (Unquoted("PRODID") \o FromProxy)
FromMinSvn     == <<"-V">> \o (Unquoted("MIN_ISVSVN") \o FromProdId)
FromSigner     == <<"-N">> \o (Unquoted("MRSIGNER") \o FromMinSvn)
FromCa         == <<"-A", settings["IAS_REPORT_SIGNING_CA_FILE"]>> \o FromSigner
FromSecondary  == <<"-j">> \o (Unquoted("IAS_SECONDARY_SUBSCRIPTION_KEY") \o FromCa)
FromPrimary    == <<"-i">> \o (Unquoted("IAS_PRIMARY_SUBSCRIPTION_KEY") \o FromSecondary)
FromSpid       == <<"-s">> \o (Unquoted("SPID") \o FromPrimary)

\* The words of the files and of "$@".
LinesTyped ==
  /\ settings \in [DOMAIN Base -> Word]
  /\ settings["IAS_PROXY_URL"] \in ProxyUrls \union {""}
  /\ args \in Seq(Word)

\* A flag is there or not.
LEMMA FlagInFront ==
  ASSUME NEW W, NEW rest \in Seq(W), NEW p \in BOOLEAN, NEW w \in W
  PROVE  /\ FlagIf(p, w) \o rest \in Seq(W)
         /\ p => FlagIf(p, w) \o rest = <<w>> \o rest
         /\ ~p => FlagIf(p, w) \o rest = rest
<1>1. CASE p
  BY <1>1, WordInFront DEF FlagIf
<1>2. CASE ~p
  BY <1>2, ConcatEmptySeq DEF FlagIf
<1>3. QED
  BY <1>1, <1>2

\* An unquoted variable is one word or none.
LEMMA UnquotedInFront ==
  ASSUME LinesTyped, NEW v \in DOMAIN Base, NEW rest \in Seq(Word)
  PROVE  /\ settings[v] \in Word
         /\ Unquoted(v) \o rest \in Seq(Word)
         /\ settings[v] # "" => Unquoted(v) \o rest = <<settings[v]>> \o rest
         /\ settings[v] = "" => Unquoted(v) \o rest = rest
<1>1. settings[v] \in Word
  BY DEF LinesTyped
<1>2. CASE settings[v] # ""
  BY <1>1, <1>2, WordInFront DEF Unquoted
<1>3. CASE settings[v] = ""
  BY <1>1, <1>3, ConcatEmptySeq DEF Unquoted
<1>4. QED
  BY <1>1, <1>2, <1>3

\* The words of the proxy's variables.
LEMMA ProxyInFront ==
  ASSUME LinesTyped, NEW rest \in Seq(Word)
  PROVE  LET url == settings["IAS_PROXY_URL"] IN
         /\ ProxyWords \o rest \in Seq(Word)
         /\ On("IAS_DISABLE_PROXY") => ProxyWords \o rest = <<"-x">> \o rest
         /\ ~On("IAS_DISABLE_PROXY") /\ url # "" =>
              url \in ProxyUrls /\ url \in Word /\ ProxyWords \o rest = <<url>> \o rest
         /\ ~On("IAS_DISABLE_PROXY") /\ url = "" => ProxyWords \o rest = rest
<1>1. "-x" \in Word
  BY DEF Word, OptionWords, LoneOptions
<1>2. settings["IAS_PROXY_URL"] \in Word /\ settings["IAS_PROXY_URL"] \in ProxyUrls \union {""}
  BY WordsAssumption DEF LinesTyped
<1>3. CASE On("IAS_DISABLE_PROXY")
  BY <1>1, <1>3, WordInFront DEF ProxyWords
<1>4. CASE ~On("IAS_DISABLE_PROXY") /\ settings["IAS_PROXY_URL"] # ""
  BY <1>2, <1>4, WordInFront DEF ProxyWords, FlagIf
<1>5. CASE ~On("IAS_DISABLE_PROXY") /\ settings["IAS_PROXY_URL"] = ""
  BY <1>5, ConcatEmptySeq DEF ProxyWords, FlagIf
<1>6. QED
  BY <1>3, <1>4, <1>5

\* Every rest of the command line is a line of words.
LEMMA LinesAreLines ==
  ASSUME LinesTyped
  PROVE  /\ FromAllowDebug \in Seq(Word) /\ FromProduction \in Seq(Word)
         /\ FromVerbose \in Seq(Word) /\ FromDebug \in Seq(Word)
         /\ FromStrict \in Seq(Word) /\ FromLinkable \in Seq(Word) /\ FromProxy \in Seq(Word)
         /\ FromProdId \in Seq(Word) /\ FromMinSvn \in Seq(Word) /\ FromSigner \in Seq(Word)
         /\ FromCa \in Seq(Word) /\ FromSecondary \in Seq(Word) /\ FromPrimary \in Seq(Word)
<1>1. /\ {"-D", "-P", "-v", "-d", "-X", "-l"} \subseteq Word
      /\ {"-R", "-V", "-N", "-A", "-j", "-i"} \subseteq Word
  BY DEF Word, OptionWords, LoneOptions, ArgumentOptions
<1>2. /\ On("QUERY_IAS_PRODUCTION") \in BOOLEAN /\ Off("ALLOW_DEBUG_ENCLAVE") \in BOOLEAN
      /\ On("VERBOSE") \in BOOLEAN /\ On("DEBUG") \in BOOLEAN
      /\ On("POLICY_STRICT_TRUST") \in BOOLEAN /\ On("LINKABLE") \in BOOLEAN
  BY DEF On, Off
<1>3. FromAllowDebug \in Seq(Word)
  BY <1>1, <1>2, FlagInFront DEF FromAllowDebug, LinesTyped
<1>4. FromProduction \in Seq(Word)
  BY <1>1, <1>2, <1>3, FlagInFront DEF FromProduction
<1>5. FromVerbose \in Seq(Word)
  BY <1>1, <1>2, <1>4, FlagInFront DEF FromVerbose
<1>6. FromDebug \in Seq(Word)
  BY <1>1, <1>2, <1>5, FlagInFront DEF FromDebug
<1>7. FromStrict \in Seq(Word)
  BY <1>1, <1>2, <1>6, FlagInFront DEF FromStrict
<1>8. FromLinkable \in Seq(Word)
  BY <1>1, <1>2, <1>7, FlagInFront DEF FromLinkable
<1>9. FromProxy \in Seq(Word)
  BY <1>8, ProxyInFront DEF FromProxy
<1>10. FromProdId \in Seq(Word)
  <2>1. Unquoted("PRODID") \o FromProxy \in Seq(Word)
    BY <1>9, UnquotedInFront, WordsAssumption
  <2>2. QED
    BY <1>1, <2>1, WordInFront DEF FromProdId
<1>11. FromMinSvn \in Seq(Word)
  <2>1. Unquoted("MIN_ISVSVN") \o FromProdId \in Seq(Word)
    BY <1>10, UnquotedInFront, WordsAssumption
  <2>2. QED
    BY <1>1, <2>1, WordInFront DEF FromMinSvn
<1>12. FromSigner \in Seq(Word)
  <2>1. Unquoted("MRSIGNER") \o FromMinSvn \in Seq(Word)
    BY <1>11, UnquotedInFront, WordsAssumption
  <2>2. QED
    BY <1>1, <2>1, WordInFront DEF FromSigner
<1>13. FromCa \in Seq(Word)
  <2>1. settings["IAS_REPORT_SIGNING_CA_FILE"] \in Word
    BY WordsAssumption DEF LinesTyped
  <2>2. QED
    BY <1>1, <1>12, <2>1, TwoInFront DEF FromCa
<1>14. FromSecondary \in Seq(Word)
  <2>1. Unquoted("IAS_SECONDARY_SUBSCRIPTION_KEY") \o FromCa \in Seq(Word)
    BY <1>13, UnquotedInFront, WordsAssumption
  <2>2. QED
    BY <1>1, <2>1, WordInFront DEF FromSecondary
<1>15. FromPrimary \in Seq(Word)
  <2>1. Unquoted("IAS_PRIMARY_SUBSCRIPTION_KEY") \o FromSecondary \in Seq(Word)
    BY <1>14, UnquotedInFront, WordsAssumption
  <2>2. QED
    BY <1>1, <2>1, WordInFront DEF FromPrimary
<1>16. QED
  BY <1>3, <1>4, <1>5, <1>6, <1>7, <1>8, <1>9, <1>10, <1>11, <1>12, <1>13, <1>14, <1>15

\* Lines of words, and one behind the other.
Line == Seq(Word)
Join(a, b) == a \o b

\* A line behind a line is a line, and it does not matter which are joined first.
LEMMA JoinProperties ==
  /\ \A a, b \in Line : Join(a, b) \in Line
  /\ \A a, b, c \in Line : Join(Join(a, b), c) = Join(a, Join(b, c))
<1>1. ASSUME NEW a \in Line, NEW b \in Line PROVE Join(a, b) \in Line
  BY ConcatProperties DEF Line, Join
<1>2. ASSUME NEW a \in Line, NEW b \in Line, NEW c \in Line
      PROVE  Join(Join(a, b), c) = Join(a, Join(b, c))
  <2>1. a \in Seq(Word) /\ b \in Seq(Word) /\ c \in Seq(Word)
    BY DEF Line
  <2>2. (a \o b) \o c = a \o (b \o c)
    BY <2>1, ConcatAssociative
  <2>3. QED
    BY <2>2 DEF Join
<1>3. QED
  BY <1>1, <1>2

\* Three lines behind a line.
LEMMA Regroup ==
  ASSUME NEW a \in Line, NEW b \in Line, NEW c \in Line, NEW d \in Line
  PROVE  /\ Join(Join(Join(a, b), c), d) = Join(a, Join(b, Join(c, d)))
         /\ Join(Join(a, b), c) \in Line
<1>1. Join(a, b) \in Line /\ Join(c, d) \in Line
  BY JoinProperties
<1>2. QED
  BY <1>1, JoinProperties

\* The script's command line is the one from its first option on.
LEMMA TheWholeLine == ASSUME LinesTyped PROVE CommandLine = FromSpid
<1> DEFINE sS == <<"-s">>
           sI == <<"-i">>
           sJ == <<"-j">>
           sA == <<"-A", settings["IAS_REPORT_SIGNING_CA_FILE"]>>
           sN == <<"-N">>
           sV == <<"-V">>
           sR == <<"-R">>
           uS == Unquoted("SPID")
           uI == Unquoted("IAS_PRIMARY_SUBSCRIPTION_KEY")
           uJ == Unquoted("IAS_SECONDARY_SUBSCRIPTION_KEY")
           uN == Unquoted("MRSIGNER")
           uV == Unquoted("MIN_ISVSVN")
           uR == Unquoted("PRODID")
           fL == FlagIf(On("LINKABLE"), "-l")
           fX == FlagIf(On("POLICY_STRICT_TRUST"), "-X")
           fD == FlagIf(On("DEBUG"), "-d")
           fV == FlagIf(On("VERBOSE"), "-v")
           fP == FlagIf(On("QUERY_IAS_PRODUCTION"), "-P")
           fA == FlagIf(Off("ALLOW_DEBUG_ENCLAVE"), "-D")
           px == ProxyWords
           rest == args
<1>1. sS \in Line /\ sI \in Line /\ sJ \in Line /\ sN \in Line /\ sV \in Line /\ sR \in Line
  <2>1. {"-s", "-i", "-j", "-N", "-V", "-R"} \subseteq Word
    BY DEF Word, OptionWords, ArgumentOptions
  <2>2. \A w \in Word : <<w>> \in Seq(Word)
    OBVIOUS
  <2>3. QED
    BY <2>1, <2>2 DEF Line
<1>2. uS \in Line /\ uI \in Line /\ uJ \in Line /\ uN \in Line /\ uV \in Line /\ uR \in Line
  <2>1. ASSUME NEW v \in DOMAIN Base PROVE Unquoted(v) \in Line
    <3>1. settings[v] \in Word
      BY DEF LinesTyped
    <3>2. <<settings[v]>> \in Seq(Word) /\ <<>> \in Seq(Word)
      BY <3>1
    <3>3. QED
      BY <3>2 DEF Unquoted, Line
  <2>2. QED
    BY <2>1, WordsAssumption
<1>3. sA \in Line
  <2>1. "-A" \in Word /\ settings["IAS_REPORT_SIGNING_CA_FILE"] \in Word
    BY WordsAssumption DEF LinesTyped, Word, OptionWords, ArgumentOptions
  <2>2. QED
    BY <2>1 DEF Line
<1>4. fL \in Line /\ fX \in Line /\ fD \in Line /\ fV \in Line /\ fP \in Line /\ fA \in Line
  <2>1. {"-D", "-P", "-v", "-d", "-X", "-l"} \subseteq Word
    BY DEF Word, OptionWords, LoneOptions, ArgumentOptions
  <2>2. ASSUME NEW p \in BOOLEAN, NEW w \in Word PROVE FlagIf(p, w) \in Seq(Word)
    BY DEF FlagIf
  <2>3. QED
    BY <2>1, <2>2 DEF On, Off, Line
<1>5. px \in Line /\ rest \in Line
  <2>1. "-x" \in Word /\ settings["IAS_PROXY_URL"] \in Word
    BY WordsAssumption DEF LinesTyped, Word, OptionWords, LoneOptions
  <2>2. <<"-x">> \in Seq(Word) /\ <<settings["IAS_PROXY_URL"]>> \in Seq(Word) /\ <<>> \in Seq(Word)
    BY <2>1
  <2>3. QED
    BY <2>2 DEF ProxyWords, FlagIf, LinesTyped, Line
<1> DEFINE p1 == Join(sS, uS)
           p2 == Join(Join(p1, sI), uI)
           p3 == Join(Join(p2, sJ), uJ)
           p4 == Join(p3, sA)
           p5 == Join(Join(p4, sN), uN)
           p6 == Join(Join(p5, sV), uV)
           p7 == Join(Join(p6, sR), uR)
           q3 == Join(Join(fL, fX), fD)
           q5 == Join(Join(q3, fV), fP)
           q6 == Join(q5, fA)
           rA == Join(fA, rest)
           rV == Join(fV, Join(fP, rA))
           rL == Join(fL, Join(fX, Join(fD, rV)))
           rP == Join(px, rL)
           r7 == Join(sR, Join(uR, rP))
           r6 == Join(sV, Join(uV, r7))
           r5 == Join(sN, Join(uN, r6))
           r4 == Join(sA, r5)
           r3 == Join(sJ, Join(uJ, r4))
           r2 == Join(sI, Join(uI, r3))
           r1 == Join(sS, Join(uS, r2))
<1>6. CommandLine = Join(Join(Join(p7, px), q6), rest)
  BY DEF CommandLine, DemandWords, FlagWords, Join
<1>7. FromSpid = r1
  BY DEF FromSpid, FromPrimary, FromSecondary, FromCa, FromSigner, FromMinSvn, FromProdId,
         FromProxy, FromLinkable, FromStrict, FromDebug, FromVerbose, FromProduction,
         FromAllowDebug, Join
<1> HIDE DEF sS, sI, sJ, sA, sN, sV, sR, uS, uI, uJ, uN, uV, uR, fL, fX, fD, fV, fP, fA, px, rest
<1>8. /\ p1 \in Line /\ p2 \in Line /\ p3 \in Line /\ p4 \in Line /\ p5 \in Line /\ p6 \in Line
      /\ p7 \in Line /\ q3 \in Line /\ q5 \in Line /\ q6 \in Line
  <2>1. p1 \in Line /\ q3 \in Line
    BY <1>1, <1>2, <1>4, JoinProperties
  <2> HIDE DEF p1, q3
  <2>2. p2 \in Line /\ q5 \in Line
    BY <1>1, <1>2, <1>4, <2>1, JoinProperties
  <2> HIDE DEF p2, q5
  <2>3. p3 \in Line /\ q6 \in Line
    BY <1>1, <1>2, <1>4, <2>2, JoinProperties
  <2> HIDE DEF p3, q6
  <2>4. p4 \in Line
    BY <1>3, <2>3, JoinProperties
  <2> HIDE DEF p4
  <2>5. p5 \in Line
    BY <1>1, <1>2, <2>4, JoinProperties
  <2> HIDE DEF p5
  <2>6. p6 \in Line
    BY <1>1, <1>2, <2>5, JoinProperties
  <2> HIDE DEF p6
  <2>7. p7 \in Line
    BY <1>1, <1>2, <2>6, JoinProperties
  <2>8. QED
    BY <2>1, <2>2, <2>3, <2>4, <2>5, <2>6, <2>7
<1>9. /\ rA \in Line /\ rV \in Line /\ rL \in Line /\ rP \in Line /\ r7 \in Line /\ r6 \in Line
      /\ r5 \in Line /\ r4 \in Line /\ r3 \in Line /\ r2 \in Line
  <2>1. rA \in Line
    BY <1>4, <1>5, JoinProperties
  <2> HIDE DEF rA
  <2>2. rV \in Line
    BY <1>4, <2>1, JoinProperties
  <2> HIDE DEF rV
  <2>3. rL \in Line
    BY <1>4, <2>2, JoinProperties
  <2> HIDE DEF rL
  <2>4. rP \in Line
    BY <1>5, <2>3, JoinProperties
  <2> HIDE DEF rP
  <2>5. r7 \in Line
    BY <1>1, <1>2, <2>4, JoinProperties
  <2> HIDE DEF r7
  <2>6. r6 \in Line
    BY <1>1, <1>2, <2>5, JoinProperties
  <2> HIDE DEF r6
  <2>7. r5 \in Line
    BY <1>1, <1>2, <2>6, JoinProperties
  <2> HIDE DEF r5
  <2>8. r4 \in Line
    BY <1>3, <2>7, JoinProperties
  <2> HIDE DEF r4
  <2>9. r3 \in Line
    BY <1>1, <1>2, <2>8, JoinProperties
  <2> HIDE DEF r3
  <2>10. r2 \in Line
    BY <1>1, <1>2, <2>9, JoinProperties
  <2>11. QED
    BY <2>1, <2>2, <2>3, <2>4, <2>5, <2>6, <2>7, <2>8, <2>9, <2>10
<1>10. Join(p1, r2) = r1
  <2> HIDE DEF r2
  <2>1. QED
    BY <1>1, <1>2, <1>9, JoinProperties
<1>11. Join(p2, r3) = Join(p1, r2)
  <2> HIDE DEF p1, r3
  <2>1. QED
    BY <1>1, <1>2, <1>8, <1>9, Regroup
<1>12. Join(p3, r4) = Join(p2, r3)
  <2> HIDE DEF p2, r4
  <2>1. QED
    BY <1>1, <1>2, <1>8, <1>9, Regroup
<1>13. Join(p4, r5) = Join(p3, r4)
  <2> HIDE DEF p3, r5
  <2>1. QED
    BY <1>3, <1>8, <1>9, JoinProperties
<1>14. Join(p5, r6) = Join(p4, r5)
  <2> HIDE DEF p4, r6
  <2>1. QED
    BY <1>1, <1>2, <1>8, <1>9, Regroup
<1>15. Join(p6, r7) = Join(p5, r6)
  <2> HIDE DEF p5, r7
  <2>1. QED
    BY <1>1, <1>2, <1>8, <1>9, Regroup
<1>16. Join(p7, rP) = Join(p6, r7)
  <2> HIDE DEF p6, rP
  <2>1. QED
    BY <1>1, <1>2, <1>8, <1>9, Regroup
<1>17. Join(q6, rest) = rL
  <2>1. Join(q6, rest) = Join(q5, rA)
    <3> HIDE DEF q5
    <3>1. QED
      BY <1>4, <1>5, <1>8, JoinProperties
  <2>2. Join(q5, rA) = Join(q3, rV)
    <3> HIDE DEF q3, rA
    <3>1. QED
      BY <1>4, <1>8, <1>9, Regroup
  <2>3. Join(q3, rV) = rL
    <3> HIDE DEF rV
    <3>1. QED
      BY <1>4, <1>9, Regroup
  <2>4. QED
    BY <2>1, <2>2, <2>3
<1> HIDE DEF p1, p2, p3, p4, p5, p6, p7, q6, rL, r7, r6, r5, r4, r3, r2, r1
<1>18. Join(Join(Join(p7, px), q6), rest) = Join(p7, rP)
  BY <1>5, <1>8, <1>17, Regroup
<1>19. QED
  BY <1>6, <1>7, <1>10, <1>11, <1>12, <1>13, <1>14, <1>15, <1>16, <1>18

-----------------------------------------------------------------------------
(* The inductive invariant of the start-up *)

\* The options by which run-server speaks for the files; a "$@" that has none of
\* them does not override the files.
DemandOptions == {"-s", "-S", "-i", "-I", "-j", "-J", "-N", "-V", "-R"}
FlagOptions == {"-P", "-D", "-l"}
Overrides(a) == Range(a) \intersect (DemandOptions \union FlagOptions) # {}
NoOverrides == \A a \in Arguments : ~Overrides(a)

\* What the options, the files and the reason to exit are made of.
StartTypes ==
  /\ settings \in [DOMAIN Base -> Word]
  /\ settings["IAS_PROXY_URL"] \in ProxyUrls \union {""}
  /\ DOMAIN config = Fields
  /\ script \in BOOLEAN
  /\ script => args \in Arguments
  /\ pc = "exited" <=> why # "none"

\* The flags for the proxy's options, and what they have stored.
ProxyInv ==
  pc # "exited" =>
    /\ "-x" \in given => config.noproxy = TRUE
    /\ "-x" \notin given => config.noproxy = FALSE
    /\ "-p" \in given => config.proxy # NoProxy
    /\ "-p" \notin given => config.proxy = NoProxy
    /\ ~("-p" \in given /\ "-x" \in given)

\* What the flags of the files say has not been said.
Plain ==
  /\ config.strict = FALSE /\ config.production = FALSE /\ config.allowDebug = TRUE
  /\ config.linkable = FALSE

\* Nothing has been said of the proxy.
Unrouted == "-x" \notin given /\ "-p" \notin given

\* Without a "$@", there is no port, no agent, and no --stdio.
Lonely == args = <<>> => ports = <<>> /\ config.agent = "" /\ config.stdio = FALSE

\* The first n options of run-server, and what they have stored.
Demanded(n) ==
  /\ n > 0 => "-s" \in given /\ config.spid = settings["SPID"]
  /\ n > 1 => config.primary = settings["IAS_PRIMARY_SUBSCRIPTION_KEY"]
  /\ n > 2 => config.secondary = settings["IAS_SECONDARY_SUBSCRIPTION_KEY"]
  /\ n > 3 => "-A" \in given
  /\ n > 4 => "-N" \in given /\ config.signer \in {settings["MRSIGNER"], "garbage"}
  /\ n > 5 => /\ "-V" \in given /\ settings["MIN_ISVSVN"] \in Numerals
              /\ config.minSvn = NumberOf(settings["MIN_ISVSVN"])
  /\ n > 6 => /\ "-R" \in given
              /\ settings["PRODID"] = "" => args # <<>>
              /\ settings["PRODID"] # "" => config.prodId = NumberOf(settings["PRODID"])

\* The flags are what the files say, but for the one that -X takes.
StrictRight == On("POLICY_STRICT_TRUST") => config.strict = TRUE
LinkableRight ==
  (On("LINKABLE") => config.linkable = TRUE) /\ (~On("LINKABLE") => config.linkable = FALSE)
ProductionRight ==
  /\ On("QUERY_IAS_PRODUCTION") /\ ~ProductionTaken => config.production = TRUE
  /\ ~(On("QUERY_IAS_PRODUCTION") /\ ~ProductionTaken) => config.production = FALSE
DebugRight ==
  /\ Off("ALLOW_DEBUG_ENCLAVE") /\ ~NoDebugTaken => config.allowDebug = FALSE
  /\ ~(Off("ALLOW_DEBUG_ENCLAVE") /\ ~NoDebugTaken) => config.allowDebug = TRUE

\* The route is what the files say, unless "$@" has a URL.
NamesProxy == ~On("IAS_DISABLE_PROXY") /\ settings["IAS_PROXY_URL"] # ""
Routed ==
  /\ On("IAS_DISABLE_PROXY") => config.noproxy = TRUE
  /\ NamesProxy /\ Range(args) \intersect ProxyUrls = {} =>
       config.proxy = [host |-> "h", port |-> UrlPort(settings["IAS_PROXY_URL"])]

\* The words that may be left when the files have been heard: those of "$@".
LateWords(behind) ==
  {w \in Word : /\ w \notin DemandOptions \union FlagOptions
                /\ Range(behind) \intersect ProxyUrls = {} => w \notin ProxyUrls
                /\ behind # <<>>}
LateWord == LateWords(args)

Demanding ==
  /\ Plain /\ Unrouted
  /\ \/ words = FromSpid /\ Demanded(0)
     \/ words = FromPrimary /\ Demanded(1)
     \/ words = FromSecondary /\ Demanded(2)
     \/ words = FromCa /\ Demanded(3)
     \/ words = FromSigner /\ Demanded(4)
     \/ words = FromMinSvn /\ Demanded(5)
     \/ words = FromProdId /\ Demanded(6)
     \/ words = FromProxy /\ Demanded(7)

\* The flags one by one; behind -X, those that it has not taken.
Flagging ==
  /\ Demanded(7) /\ Routed /\ config.allowDebug = TRUE
  /\ \/ words = FromLinkable /\ config.linkable = FALSE /\ config.production = FALSE
     \/ words = FromStrict /\ LinkableRight /\ config.production = FALSE
     \/ /\ words = FromDebug /\ LinkableRight /\ config.production = FALSE
        /\ ~On("POLICY_STRICT_TRUST")
     \/ /\ words = FromVerbose /\ LinkableRight /\ StrictRight /\ config.production = FALSE
        /\ On("POLICY_STRICT_TRUST") => On("DEBUG")
     \/ /\ words = FromProduction /\ LinkableRight /\ StrictRight /\ config.production = FALSE
        /\ ~ProductionTaken
     \/ /\ words = FromAllowDebug /\ LinkableRight /\ StrictRight /\ ProductionRight
        /\ ~NoDebugTaken

\* What the files say is what main has heard.
Heard ==
  /\ Demanded(7) /\ Routed
  /\ StrictRight /\ LinkableRight /\ ProductionRight /\ DebugRight

Ending == words \in Seq(LateWord) /\ Heard

\* What the connection to IAS has been made with.
Connected ==
  /\ ias.primary = settings["IAS_PRIMARY_SUBSCRIPTION_KEY"]
  /\ ias.secondary = settings["IAS_SECONDARY_SUBSCRIPTION_KEY"]
  /\ On("IAS_DISABLE_PROXY") => ias.route.direct = TRUE
  /\ NamesProxy /\ Range(args) \intersect ProxyUrls = {} =>
       ias.route.proxy = ProxyReached

\* Connect clears the keys.
HeardButKeys ==
  /\ config.spid = settings["SPID"]
  /\ config.signer \in {settings["MRSIGNER"], "garbage"}
  /\ settings["MIN_ISVSVN"] \in Numerals
  /\ config.minSvn = NumberOf(settings["MIN_ISVSVN"])
  /\ settings["PRODID"] = "" => args # <<>>
  /\ settings["PRODID"] # "" => config.prodId = NumberOf(settings["PRODID"])
  /\ StrictRight /\ LinkableRight /\ ProductionRight /\ DebugRight

\* main refuses no files that are complete.
Excused == WellFormed /\ args = <<>> /\ why \in {"usage", "refused"} =>
             words # <<>> /\ Last(words) = "-X"

\* Only the script and the files have their say.
ByScript == script = TRUE /\ ~Overrides(args)

ScriptInv ==
  /\ pc = "editing" =>
       /\ script = FALSE
       /\ given = {} /\ ports = <<>> /\ Plain /\ config.agent = "" /\ config.stdio = FALSE
  /\ ByScript =>
       /\ pc # "exited" => Lonely
       /\ pc = "options" => Demanding \/ Flagging \/ Ending
       /\ pc \in {"required", "connection"} => Heard
       /\ pc \in {"listen", "serving"} => HeardButKeys /\ Connected
       /\ pc = "exited" => Excused

StartInv == StartTypes /\ ProxyInv /\ ScriptInv

-----------------------------------------------------------------------------
(* The options that speak for the files *)

\* What is left of the command line does not depend on how far main is.
LEMMA LinesStay ==
  ASSUME UNCHANGED <<settings, args>>
  PROVE  /\ FromAllowDebug' = FromAllowDebug /\ FromProduction' = FromProduction
         /\ FromVerbose' = FromVerbose /\ FromDebug' = FromDebug /\ FromStrict' = FromStrict
         /\ FromLinkable' = FromLinkable /\ FromProxy' = FromProxy
         /\ FromProdId' = FromProdId /\ FromMinSvn' = FromMinSvn /\ FromSigner' = FromSigner
         /\ FromCa' = FromCa /\ FromSecondary' = FromSecondary /\ FromPrimary' = FromPrimary
<1>1. settings' = settings /\ args' = args
  OBVIOUS
<1>2. FromAllowDebug' = FromAllowDebug
  BY <1>1 DEF FromAllowDebug, FlagIf, Off
<1>3. FromProduction' = FromProduction
  BY <1>1, <1>2 DEF FromProduction, FlagIf, On
<1>4. FromVerbose' = FromVerbose
  BY <1>1, <1>3 DEF FromVerbose, FlagIf, On
<1>5. FromDebug' = FromDebug
  BY <1>1, <1>4 DEF FromDebug, FlagIf, On
<1>6. FromStrict' = FromStrict
  BY <1>1, <1>5 DEF FromStrict, FlagIf, On
<1>7. FromLinkable' = FromLinkable
  BY <1>1, <1>6 DEF FromLinkable, FlagIf, On
<1>8. FromProxy' = FromProxy
  BY <1>1, <1>7 DEF FromProxy, ProxyWords, FlagIf, On
<1>9. FromProdId' = FromProdId
  BY <1>1, <1>8 DEF FromProdId, Unquoted
<1>10. FromMinSvn' = FromMinSvn
  BY <1>1, <1>9 DEF FromMinSvn, Unquoted
<1>11. FromSigner' = FromSigner
  BY <1>1, <1>10 DEF FromSigner, Unquoted
<1>12. FromCa' = FromCa
  BY <1>1, <1>11 DEF FromCa
<1>13. FromSecondary' = FromSecondary
  BY <1>1, <1>12 DEF FromSecondary, Unquoted
<1>14. FromPrimary' = FromPrimary
  BY <1>1, <1>13 DEF FromPrimary, Unquoted
<1>15. QED
  BY <1>2, <1>3, <1>4, <1>5, <1>6, <1>7, <1>8, <1>9, <1>10, <1>11, <1>12, <1>13, <1>14

\* What main does with an option of the files and the word behind it: it exits,
\* or the option is given and its field stored, and nothing else.
Heeded(o, v, rest) ==
  \/ pc' = "exited" /\ (why' = "environment" \/ v = "shortSigner" \/ ~Accepts(o, v))
  \/ /\ pc' = pc /\ why' = why /\ words' = rest /\ given' = given \union {o} /\ Accepts(o, v)
     /\ config'.spid = IF o = "-s" THEN v ELSE config.spid
     /\ config'.primary = IF o = "-i" THEN v ELSE config.primary
     /\ config'.secondary = IF o = "-j" THEN v ELSE config.secondary
     /\ config'.signer = IF o = "-N" THEN SignerRead(v) ELSE config.signer
     /\ config'.minSvn = IF o = "-V" THEN NumberOf(v) ELSE config.minSvn
     /\ config'.prodId = IF o = "-R" THEN NumberOf(v) ELSE config.prodId
     /\ Plain' /\ Unrouted' /\ Lonely'

\* The word behind an option of the files.
LEMMA DemandTaken ==
  ASSUME DOMAIN config = Fields, pc = "options", Start, Plain, Unrouted, Lonely,
         NEW o \in {"-s", "-i", "-j", "-A", "-N", "-V", "-R"}, NEW v \in Word,
         NEW rest \in Seq(Word), words = <<o>> \o (<<v>> \o rest)
  PROVE  UNCHANGED <<settings, args, script>> /\ Heeded(o, v, rest)
<1>1. o \in ArgumentOptions
  BY DEF ArgumentOptions
<1>2. /\ UNCHANGED <<settings, args, script, edited, ports, ias>>
      /\ given' = given \union {o} /\ words' = rest
      /\ \/ Accepts(o, v) /\ config' = Stored(o, v) /\ pc' = pc /\ why' = why
         \/ /\ pc' = "exited" /\ config' = config
            /\ \/ why' = "refused" /\ (Accepts(o, v) => v = "shortSigner")
               \/ why' = "environment"
  BY <1>1, TakesTheNextWord
<1>3. CASE pc' = "exited"
  BY <1>2, <1>3 DEF Heeded
<1>4. CASE Accepts(o, v) /\ config' = Stored(o, v) /\ pc' = pc /\ why' = why
  <2> DEFINE c == config'
  <2>1. c = Stored(o, v)
    BY <1>4
  <2> HIDE DEF c
  <2>2. StoresInto(c, o, v)
    BY <1>1, <2>1, StoredFields
  <2>3. /\ c.strict = FALSE /\ c.production = FALSE /\ c.allowDebug = TRUE /\ c.linkable = FALSE
        /\ c.agent = config.agent /\ c.stdio = config.stdio
    BY <2>2 DEF Plain, StoresInto
  <2>4. "-x" \notin given' /\ "-p" \notin given'
    BY <1>2 DEF Unrouted
  <2>5. Plain' /\ Unrouted' /\ Lonely'
    BY <1>2, <2>3, <2>4 DEF Plain, Unrouted, Lonely, c
  <2>6. QED
    BY <1>2, <1>4, <2>2, <2>5 DEF Heeded, StoresInto, c
<1>5. QED
  BY <1>2, <1>3, <1>4

\* Neither an option nor an empty word is a value.
LEMMA AcceptedWords ==
  ASSUME NEW o \in {"-s", "-i", "-j", "-N", "-V"}, NEW v, Accepts(o, v)
  PROVE  v # "" /\ v \notin ArgumentOptions
<1>1. CASE o = "-s"
  BY <1>1 DEF Accepts, ArgumentOptions
<1>2. CASE o \in {"-i", "-j"}
  BY <1>2 DEF Accepts, ArgumentOptions
<1>3. CASE o = "-N"
  BY <1>3 DEF Accepts, ArgumentOptions
<1>4. CASE o = "-V"
  <2>1. v \in Numerals
    BY <1>4 DEF Accepts, ValidNumber
  <2>2. QED
    BY <2>1 DEF ArgumentOptions, Numerals
<1>5. QED
  BY <1>1, <1>2, <1>3, <1>4

\* An option of the files and its variable, in front of another option: if the
\* variable is empty, the other option is no argument, and main exits.
LEMMA VariableTaken ==
  ASSUME LinesTyped, DOMAIN config = Fields, pc = "options", Start, Plain, Unrouted, Lonely,
         NEW o \in {"-s", "-i", "-j", "-N", "-V"}, NEW d \in DOMAIN Base,
         NEW rest \in Seq(Word), rest # <<>>, Head(rest) \in ArgumentOptions,
         words = <<o>> \o (Unquoted(d) \o rest)
  PROVE  /\ UNCHANGED <<settings, args, script>>
         /\ Heeded(o, settings[d], rest)
<1>1. settings[d] \in Word
  BY UnquotedInFront
<1>2. CASE settings[d] # ""
  <2>1. words = <<o>> \o (<<settings[d]>> \o rest)
    BY <1>2, UnquotedInFront
  <2>2. QED
    BY <1>1, <2>1, DemandTaken
<1>3. CASE settings[d] = ""
  <2> DEFINE h == Head(rest)
             t == Tail(rest)
  <2>1. h \in Word /\ t \in Seq(Word) /\ rest = <<h>> \o t
    BY LineHead
  <2>2. words = <<o>> \o rest
    BY <1>3, UnquotedInFront
  <2> HIDE DEF t
  <2>3. UNCHANGED <<settings, args, script>> /\ Heeded(o, h, t)
    BY <2>1, <2>2, DemandTaken
  <2>4. ~Accepts(o, h) /\ h # "shortSigner"
    BY AcceptedWords DEF ArgumentOptions
  <2>5. ~Accepts(o, "")
    BY AcceptedWords
  <2>6. pc' = "exited"
    BY <2>3, <2>4 DEF Heeded
  <2>7. QED
    BY <1>3, <2>3, <2>5, <2>6 DEF Heeded
<1>4. QED
  BY <1>2, <1>3

\* Each of the first lines begins with its option.
LEMMA LinesBegin ==
  ASSUME LinesTyped
  PROVE  /\ FromPrimary # <<>> /\ Head(FromPrimary) = "-i"
         /\ FromSecondary # <<>> /\ Head(FromSecondary) = "-j"
         /\ FromCa # <<>> /\ Head(FromCa) = "-A"
         /\ FromSigner # <<>> /\ Head(FromSigner) = "-N"
         /\ FromMinSvn # <<>> /\ Head(FromMinSvn) = "-V"
         /\ FromProdId # <<>> /\ Head(FromProdId) = "-R"
<1>1. {"-R", "-V", "-N", "-A", "-j", "-i"} \subseteq Word
  BY DEF Word, OptionWords, ArgumentOptions
<1>2. /\ FromProxy \in Seq(Word) /\ FromProdId \in Seq(Word) /\ FromMinSvn \in Seq(Word)
      /\ FromSigner \in Seq(Word) /\ FromCa \in Seq(Word) /\ FromSecondary \in Seq(Word)
  BY LinesAreLines
<1>3. /\ Unquoted("IAS_PRIMARY_SUBSCRIPTION_KEY") \o FromSecondary \in Seq(Word)
      /\ Unquoted("IAS_SECONDARY_SUBSCRIPTION_KEY") \o FromCa \in Seq(Word)
      /\ Unquoted("MRSIGNER") \o FromMinSvn \in Seq(Word)
      /\ Unquoted("MIN_ISVSVN") \o FromProdId \in Seq(Word)
      /\ Unquoted("PRODID") \o FromProxy \in Seq(Word)
  BY <1>2, UnquotedInFront, WordsAssumption
<1>4. FromPrimary # <<>> /\ Head(FromPrimary) = "-i"
  <2> DEFINE behind == Unquoted("IAS_PRIMARY_SUBSCRIPTION_KEY") \o FromSecondary
  <2>1. behind \in Seq(Word) /\ FromPrimary = <<"-i">> \o behind
    BY <1>3 DEF FromPrimary
  <2> HIDE DEF behind
  <2>2. QED
    BY <1>1, <2>1, WordInFront
<1>5. FromSecondary # <<>> /\ Head(FromSecondary) = "-j"
  <2> DEFINE behind == Unquoted("IAS_SECONDARY_SUBSCRIPTION_KEY") \o FromCa
  <2>1. behind \in Seq(Word) /\ FromSecondary = <<"-j">> \o behind
    BY <1>3 DEF FromSecondary
  <2> HIDE DEF behind
  <2>2. QED
    BY <1>1, <2>1, WordInFront
<1>6. FromCa # <<>> /\ Head(FromCa) = "-A"
  <2> DEFINE behind == <<settings["IAS_REPORT_SIGNING_CA_FILE"]>> \o FromSigner
  <2>1. settings["IAS_REPORT_SIGNING_CA_FILE"] \in Word
    BY WordsAssumption DEF LinesTyped
  <2>2. behind \in Seq(Word)
    BY <1>2, <2>1, WordInFront
  <2>3. FromCa = <<"-A">> \o behind
    <3>1. "-A" \in Word /\ FromSigner \in Seq(Word)
      BY <1>1, <1>2
    <3>2. <<"-A", settings["IAS_REPORT_SIGNING_CA_FILE"]>> \o FromSigner
            = <<"-A">> \o (<<settings["IAS_REPORT_SIGNING_CA_FILE"]>> \o FromSigner)
      BY <2>1, <3>1, TwoInFront
    <3>3. QED
      BY <3>2 DEF FromCa
  <2> HIDE DEF behind
  <2>4. QED
    BY <1>1, <2>2, <2>3, WordInFront
<1>7. FromSigner # <<>> /\ Head(FromSigner) = "-N"
  <2> DEFINE behind == Unquoted("MRSIGNER") \o FromMinSvn
  <2>1. behind \in Seq(Word) /\ FromSigner = <<"-N">> \o behind
    BY <1>3 DEF FromSigner
  <2> HIDE DEF behind
  <2>2. QED
    BY <1>1, <2>1, WordInFront
<1>8. FromMinSvn # <<>> /\ Head(FromMinSvn) = "-V"
  <2> DEFINE behind == Unquoted("MIN_ISVSVN") \o FromProdId
  <2>1. behind \in Seq(Word) /\ FromMinSvn = <<"-V">> \o behind
    BY <1>3 DEF FromMinSvn
  <2> HIDE DEF behind
  <2>2. QED
    BY <1>1, <2>1, WordInFront
<1>9. FromProdId # <<>> /\ Head(FromProdId) = "-R"
  <2> DEFINE behind == Unquoted("PRODID") \o FromProxy
  <2>1. behind \in Seq(Word) /\ FromProdId = <<"-R">> \o behind
    BY <1>3 DEF FromProdId
  <2> HIDE DEF behind
  <2>2. QED
    BY <1>1, <2>1, WordInFront
<1>10. QED
  BY <1>4, <1>5, <1>6, <1>7, <1>8, <1>9

\* Complete files have a value for each option that is accepted.
LEMMA ValuesAccepted ==
  ASSUME WellFormed
  PROVE  /\ Accepts("-s", settings["SPID"]) /\ settings["SPID"] # "shortSigner"
         /\ Accepts("-i", settings["IAS_PRIMARY_SUBSCRIPTION_KEY"])
         /\ settings["IAS_PRIMARY_SUBSCRIPTION_KEY"] # "shortSigner"
         /\ Accepts("-j", settings["IAS_SECONDARY_SUBSCRIPTION_KEY"])
         /\ settings["IAS_SECONDARY_SUBSCRIPTION_KEY"] # "shortSigner"
         /\ Accepts("-A", settings["IAS_REPORT_SIGNING_CA_FILE"])
         /\ settings["IAS_REPORT_SIGNING_CA_FILE"] # "shortSigner"
         /\ Accepts("-N", settings["MRSIGNER"]) /\ settings["MRSIGNER"] # "shortSigner"
         /\ Accepts("-V", settings["MIN_ISVSVN"]) /\ settings["MIN_ISVSVN"] # "shortSigner"
         /\ Accepts("-R", settings["PRODID"]) /\ settings["PRODID"] # "shortSigner"
         /\ settings["PRODID"] # ""
<1>1. \A w \in Numerals \ {"65536"} : ValidNumber(w) /\ w # "shortSigner" /\ w # ""
  <2>1. /\ NumberOf("0") = 0 /\ NumberOf("1") = 1 /\ NumberOf("2") = 2
        /\ NumberOf("8080") = 8080 /\ NumberOf("65535") = 65535
    BY DEF NumberOf
  <2>2. \A w \in Numerals \ {"65536"} : NumberOf(w) \in {0, 1, 2, 8080, 65535}
    BY <2>1 DEF Numerals
  <2>3. \A n \in {0, 1, 2, 8080, 65535} : n <= 65535
    OBVIOUS
  <2>4. ASSUME NEW w \in Numerals \ {"65536"} PROVE ValidNumber(w) /\ w # "shortSigner" /\ w # ""
    <3>1. w \in Numerals /\ NumberOf(w) <= 65535
      BY <2>2, <2>3
    <3>2. ValidNumber(w)
      BY <3>1 DEF ValidNumber
    <3>3. w \in Numerals
      BY <3>1
    <3>4. w # "shortSigner" /\ w # ""
      BY <3>3 DEF Numerals
    <3>5. QED
      BY <3>2, <3>4
  <2>5. QED
    BY <2>4
<1>2. /\ Accepts("-s", settings["SPID"]) /\ settings["SPID"] # "shortSigner"
      /\ Accepts("-N", settings["MRSIGNER"]) /\ settings["MRSIGNER"] # "shortSigner"
  BY DEF WellFormed, Accepts
<1>3. /\ Accepts("-i", settings["IAS_PRIMARY_SUBSCRIPTION_KEY"])
      /\ settings["IAS_PRIMARY_SUBSCRIPTION_KEY"] # "shortSigner"
      /\ Accepts("-j", settings["IAS_SECONDARY_SUBSCRIPTION_KEY"])
      /\ settings["IAS_SECONDARY_SUBSCRIPTION_KEY"] # "shortSigner"
  BY DEF WellFormed, Accepts
<1>4. /\ Accepts("-A", settings["IAS_REPORT_SIGNING_CA_FILE"])
      /\ settings["IAS_REPORT_SIGNING_CA_FILE"] # "shortSigner"
  BY DEF WellFormed, Accepts
<1>5. /\ Accepts("-V", settings["MIN_ISVSVN"]) /\ settings["MIN_ISVSVN"] # "shortSigner"
      /\ Accepts("-R", settings["PRODID"]) /\ settings["PRODID"] # "shortSigner"
      /\ settings["PRODID"] # ""
  <2>1. settings["MIN_ISVSVN"] \in Numerals \ {"65536"} /\ settings["PRODID"] \in Numerals \ {"65536"}
    BY DEF WellFormed
  <2>2. QED
    BY <1>1, <2>1 DEF Accepts
<1>6. QED
  BY <1>2, <1>3, <1>4, <1>5

\* So an exit on one of them is not main's choice.
LEMMA ExitExcused ==
  ASSUME settings' = settings, NEW o, NEW v,
         why' = "environment" \/ v = "shortSigner" \/ ~Accepts(o, v),
         WellFormed => Accepts(o, v) /\ v # "shortSigner"
  PROVE  Excused'
<1>1. WellFormed' => WellFormed
  BY DEF WellFormed
<1>2. QED
  BY <1>1 DEF Excused

\* What main may come to from one word of the command line to the next.
Goes ==
  /\ UNCHANGED <<settings, args, script>>
  /\ \/ pc' = "exited" /\ Excused'
     \/ pc' = "options" /\ Lonely' /\ (Demanding \/ Flagging \/ Ending)'
     \/ pc' = "required" /\ Lonely' /\ Heard'

\* What main makes of an option of the files: an exit that is excused, or the
\* next line.
LEMMA HeededGoes ==
  ASSUME UNCHANGED <<settings, args, script>>, pc = "options",
         NEW o, NEW v, NEW rest, Heeded(o, v, rest),
         WellFormed => Accepts(o, v) /\ v # "shortSigner",
         pc' # "exited" /\ Plain' /\ Unrouted' => Demanding'
  PROVE  Goes
<1>1. CASE pc' = "exited"
  <2>1. why' = "environment" \/ v = "shortSigner" \/ ~Accepts(o, v)
    BY <1>1 DEF Heeded
  <2>2. Excused'
    BY <2>1, ExitExcused
  <2>3. QED
    BY <1>1, <2>2 DEF Goes
<1>2. CASE pc' # "exited"
  <2>1. pc' = "options" /\ Plain' /\ Unrouted' /\ Lonely'
    BY <1>2 DEF Heeded
  <2>2. QED
    BY <1>2, <2>1 DEF Goes
<1>3. QED
  BY <1>1, <1>2

\* The options that speak for the files are heard one by one.
LEMMA DemandingGoes ==
  ASSUME LinesTyped, DOMAIN config = Fields, pc = "options", Start, Plain, Unrouted, Lonely
  PROVE  /\ words = FromSpid /\ Demanded(0) => Goes
         /\ words = FromPrimary /\ Demanded(1) => Goes
         /\ words = FromSecondary /\ Demanded(2) => Goes
         /\ words = FromCa /\ Demanded(3) => Goes
         /\ words = FromSigner /\ Demanded(4) => Goes
         /\ words = FromMinSvn /\ Demanded(5) => Goes
<1>1. /\ FromProdId \in Seq(Word) /\ FromMinSvn \in Seq(Word) /\ FromSigner \in Seq(Word)
      /\ FromCa \in Seq(Word) /\ FromSecondary \in Seq(Word) /\ FromPrimary \in Seq(Word)
  BY LinesAreLines
<1>2. {"-i", "-j", "-A", "-N", "-V", "-R"} \subseteq ArgumentOptions
  BY DEF ArgumentOptions
<1>3. ASSUME words = FromSpid, Demanded(0) PROVE Goes
  <2>1. words = <<"-s">> \o (Unquoted("SPID") \o FromPrimary) /\ "SPID" \in DOMAIN Base
    BY <1>3, WordsAssumption DEF FromSpid
  <2>2. FromPrimary # <<>> /\ Head(FromPrimary) \in ArgumentOptions
    BY <1>2, LinesBegin
  <2>3. UNCHANGED <<settings, args, script>> /\ Heeded("-s", settings["SPID"], FromPrimary)
    BY <1>1, <2>1, <2>2, VariableTaken
  <2>4. ASSUME pc' # "exited" PROVE words' = FromPrimary' /\ Demanded(1)'
    <3>1. words' = FromPrimary'
      BY <2>3, <2>4, LinesStay DEF Heeded
    <3>2. Demanded(1)'
      BY <1>3, <2>3, <2>4 DEF Heeded, Demanded, Accepts, SignerRead, ValidNumber
    <3>3. QED
      BY <3>1, <3>2
  <2>5. QED
    BY <2>3, <2>4, HeededGoes, ValuesAccepted DEF Demanding
<1>4. ASSUME words = FromPrimary, Demanded(1) PROVE Goes
  <2>1. /\ words = <<"-i">> \o (Unquoted("IAS_PRIMARY_SUBSCRIPTION_KEY") \o FromSecondary)
        /\ "IAS_PRIMARY_SUBSCRIPTION_KEY" \in DOMAIN Base
    BY <1>4, WordsAssumption DEF FromPrimary
  <2>2. FromSecondary # <<>> /\ Head(FromSecondary) \in ArgumentOptions
    BY <1>2, LinesBegin
  <2>3. /\ UNCHANGED <<settings, args, script>>
        /\ Heeded("-i", settings["IAS_PRIMARY_SUBSCRIPTION_KEY"], FromSecondary)
    BY <1>1, <2>1, <2>2, VariableTaken
  <2>4. ASSUME pc' # "exited" PROVE words' = FromSecondary' /\ Demanded(2)'
    <3>1. words' = FromSecondary'
      BY <2>3, <2>4, LinesStay DEF Heeded
    <3>2. Demanded(2)'
      BY <1>4, <2>3, <2>4 DEF Heeded, Demanded, Accepts, SignerRead, ValidNumber
    <3>3. QED
      BY <3>1, <3>2
  <2>5. QED
    BY <2>3, <2>4, HeededGoes, ValuesAccepted DEF Demanding
<1>5. ASSUME words = FromSecondary, Demanded(2) PROVE Goes
  <2>1. /\ words = <<"-j">> \o (Unquoted("IAS_SECONDARY_SUBSCRIPTION_KEY") \o FromCa)
        /\ "IAS_SECONDARY_SUBSCRIPTION_KEY" \in DOMAIN Base
    BY <1>5, WordsAssumption DEF FromSecondary
  <2>2. FromCa # <<>> /\ Head(FromCa) \in ArgumentOptions
    BY <1>2, LinesBegin
  <2>3. /\ UNCHANGED <<settings, args, script>>
        /\ Heeded("-j", settings["IAS_SECONDARY_SUBSCRIPTION_KEY"], FromCa)
    BY <1>1, <2>1, <2>2, VariableTaken
  <2>4. ASSUME pc' # "exited" PROVE words' = FromCa' /\ Demanded(3)'
    <3>1. words' = FromCa'
      BY <2>3, <2>4, LinesStay DEF Heeded
    <3>2. Demanded(3)'
      BY <1>5, <2>3, <2>4 DEF Heeded, Demanded, Accepts, SignerRead, ValidNumber
    <3>3. QED
      BY <3>1, <3>2
  <2>5. QED
    BY <2>3, <2>4, HeededGoes, ValuesAccepted DEF Demanding
<1>6. ASSUME words = FromCa, Demanded(3) PROVE Goes
  <2>1. settings["IAS_REPORT_SIGNING_CA_FILE"] \in Word /\ "-A" \in Word
    BY WordsAssumption DEF LinesTyped, Word, OptionWords, ArgumentOptions
  <2>2. words = <<"-A">> \o (<<settings["IAS_REPORT_SIGNING_CA_FILE"]>> \o FromSigner)
    <3>1. <<"-A", settings["IAS_REPORT_SIGNING_CA_FILE"]>> \o FromSigner
            = <<"-A">> \o (<<settings["IAS_REPORT_SIGNING_CA_FILE"]>> \o FromSigner)
      <4>1. FromSigner \in Seq(Word)
        BY <1>1
      <4>2. QED
        BY <2>1, <4>1, TwoInFront
    <3>2. QED
      BY <1>6, <3>1 DEF FromCa
  <2>3. /\ UNCHANGED <<settings, args, script>>
        /\ Heeded("-A", settings["IAS_REPORT_SIGNING_CA_FILE"], FromSigner)
    BY <1>1, <2>1, <2>2, DemandTaken
  <2>4. ASSUME pc' # "exited" PROVE words' = FromSigner' /\ Demanded(4)'
    <3>1. words' = FromSigner'
      BY <2>3, <2>4, LinesStay DEF Heeded
    <3>2. Demanded(4)'
      BY <1>6, <2>3, <2>4 DEF Heeded, Demanded, Accepts, SignerRead, ValidNumber
    <3>3. QED
      BY <3>1, <3>2
  <2>5. QED
    BY <2>3, <2>4, HeededGoes, ValuesAccepted DEF Demanding
<1>7. ASSUME words = FromSigner, Demanded(4) PROVE Goes
  <2>1. words = <<"-N">> \o (Unquoted("MRSIGNER") \o FromMinSvn) /\ "MRSIGNER" \in DOMAIN Base
    BY <1>7, WordsAssumption DEF FromSigner
  <2>2. FromMinSvn # <<>> /\ Head(FromMinSvn) \in ArgumentOptions
    BY <1>2, LinesBegin
  <2>3. UNCHANGED <<settings, args, script>> /\ Heeded("-N", settings["MRSIGNER"], FromMinSvn)
    BY <1>1, <2>1, <2>2, VariableTaken
  <2>4. ASSUME pc' # "exited" PROVE words' = FromMinSvn' /\ Demanded(5)'
    <3>1. words' = FromMinSvn'
      BY <2>3, <2>4, LinesStay DEF Heeded
    <3>2. Demanded(5)'
      BY <1>7, <2>3, <2>4 DEF Heeded, Demanded, Accepts, SignerRead, ValidNumber
    <3>3. QED
      BY <3>1, <3>2
  <2>5. QED
    BY <2>3, <2>4, HeededGoes, ValuesAccepted DEF Demanding
<1>8. ASSUME words = FromMinSvn, Demanded(5) PROVE Goes
  <2>1. words = <<"-V">> \o (Unquoted("MIN_ISVSVN") \o FromProdId) /\ "MIN_ISVSVN" \in DOMAIN Base
    BY <1>8, WordsAssumption DEF FromMinSvn
  <2>2. FromProdId # <<>> /\ Head(FromProdId) \in ArgumentOptions
    BY <1>2, LinesBegin
  <2>3. UNCHANGED <<settings, args, script>> /\ Heeded("-V", settings["MIN_ISVSVN"], FromProdId)
    BY <1>1, <2>1, <2>2, VariableTaken
  <2>4. ASSUME pc' # "exited" PROVE words' = FromProdId' /\ Demanded(6)'
    <3>1. words' = FromProdId'
      BY <2>3, <2>4, LinesStay DEF Heeded
    <3>2. Demanded(6)'
      BY <1>8, <2>3, <2>4 DEF Heeded, Demanded, Accepts, SignerRead, ValidNumber
    <3>3. QED
      BY <3>1, <3>2
  <2>5. QED
    BY <2>3, <2>4, HeededGoes, ValuesAccepted DEF Demanding
<1>9. QED
  BY <1>3, <1>4, <1>5, <1>6, <1>7, <1>8

-----------------------------------------------------------------------------
(* The flags and the rest *)

\* No word of "$@" speaks for the files.
LEMMA ArgumentsAreLate ==
  ASSUME ~Overrides(args), args \in Arguments
  PROVE  args \in Seq(Word) /\ args \in Seq(LateWord)
<1>1. args \in Seq(Range(args)) /\ Range(args) \subseteq Word
  <2>1. args \in Seq(Range(args))
    BY WordsAssumption
  <2>2. Range(args) \in {Range(a) : a \in Arguments}
    OBVIOUS
  <2>3. Range(args) \subseteq UNION {Range(a) : a \in Arguments}
    BY <2>2
  <2>4. Range(args) \subseteq ArgumentWords
    BY <2>3 DEF ArgumentWords
  <2>5. QED
    BY <2>1, <2>4 DEF Word
<1>2. args \in Seq(Word)
  BY <1>1, SeqMonotonic
<1>3. Range(args) \subseteq LateWord
  <2>1. ASSUME NEW w \in Range(args) PROVE w \in LateWords(args)
    <3>1. w \in Word /\ w \notin DemandOptions /\ w \notin FlagOptions
      BY <1>1 DEF Overrides
    <3>2. args # <<>>
      BY DEF Range
    <3>3. Range(args) \intersect ProxyUrls = {} => w \notin ProxyUrls
      OBVIOUS
    <3>4. QED
      BY <3>1, <3>2, <3>3 DEF LateWords
  <2>2. QED
    BY <2>1 DEF LateWord
<1>4. QED
  BY <1>1, <1>2, <1>3, SeqMonotonic

\* An option that does not speak for the files leaves what main has heard.
LEMMA HeardStays ==
  ASSUME UNCHANGED <<settings, args>>, given \subseteq given',
         NEW o, o \notin DemandOptions, NEW v, StoresInto(config', o, v)
  PROVE  /\ Demanded(7) => Demanded(7)'
         /\ Routed => Routed'
         /\ StrictRight => StrictRight'
         /\ o \notin FlagOptions =>
              /\ LinkableRight => LinkableRight'
              /\ ProductionRight => ProductionRight'
              /\ DebugRight => DebugRight'
<1> USE DEF StoresInto, DemandOptions
<1>1. Demanded(7) => Demanded(7)'
  BY DEF Demanded
<1>2. Routed => Routed'
  BY DEF Routed, NamesProxy, On
<1>3. StrictRight => StrictRight'
  BY DEF StrictRight, On
<1>4. ASSUME o \notin FlagOptions
      PROVE  /\ LinkableRight => LinkableRight'
             /\ ProductionRight => ProductionRight'
             /\ DebugRight => DebugRight'
  <2>1. config'.linkable = config.linkable /\ config'.production = config.production
        /\ config'.allowDebug = config.allowDebug
    BY <1>4 DEF FlagOptions
  <2>2. QED
    BY <2>1 DEF LinkableRight, ProductionRight, DebugRight, ProductionTaken, NoDebugTaken, On, Off
<1>5. QED
  BY <1>1, <1>2, <1>3, <1>4

\* So does a step that stores nothing.
LEMMA HeardSame ==
  ASSUME UNCHANGED <<settings, args, config, given>>, Heard
  PROVE  Heard'
<1>1. Demanded(7)'
  BY DEF Heard, Demanded
<1>2. Routed' /\ StrictRight'
  BY DEF Heard, Routed, NamesProxy, StrictRight, On
<1>3. LinkableRight' /\ ProductionRight' /\ DebugRight'
  BY DEF Heard, LinkableRight, ProductionRight, DebugRight, ProductionTaken, NoDebugTaken, On, Off
<1>4. QED
  BY <1>1, <1>2, <1>3 DEF Heard

\* A flag of the files is given and stored.
LEMMA FlagTaken ==
  ASSUME DOMAIN config = Fields, pc = "options", Start,
         NEW o \in LoneOptions \ {"-x"}, NEW rest \in Seq(Word), words = <<o>> \o rest
  PROVE  /\ UNCHANGED <<settings, args, script, ports, pc, why>>
         /\ words' = rest /\ given' = given \union {o}
         /\ StoresInto(config', o, "")
<1>1. o \in Word
  BY DEF Word, OptionWords
<1>2. words # <<>> /\ Head(words) = o /\ Tail(words) = rest
  BY <1>1, WordInFront
<1>3. ParseLone
  BY <1>2, LoneIsParsed
<1>4. /\ UNCHANGED <<settings, args, script, ports, pc, why>>
      /\ words' = rest /\ given' = given \union {o}
      /\ config' = Stored(o, "")
  BY <1>2, <1>3 DEF ParseLone
<1>5. StoresInto(Stored(o, ""), o, "")
  BY StoredFields
<1>6. QED
  BY <1>4, <1>5

\* main takes the next of the last words, or has heard them all.
LEMMA EndingGoes ==
  ASSUME DOMAIN config = Fields, pc = "options", Start, Ending, Lonely
  PROVE  Goes
<1>1. /\ words \in Seq(LateWord) /\ Heard /\ Demanded(7) /\ Routed
      /\ StrictRight /\ LinkableRight /\ ProductionRight /\ DebugRight
  BY DEF Ending, Heard
<1>2. CASE words = <<>>
  <2>1. CheckPort
    BY <1>2 DEF Start, ParseLone, ParseArgument, ParseProxy, ParsePort, ParseStops, Options,
                CheckRequired, Connect, Listen
  <2>2. /\ UNCHANGED <<settings, args, script, ports, config, given>>
        /\ \/ /\ pc' = "exited"
              /\ Len(ports) > 1 \/ ports # <<>>
           \/ pc' = "required"
    BY <2>1 DEF CheckPort, ExitFor
  <2>3. CASE pc' = "exited"
    <3>1. args # <<>>
      <4>1. Len(<<>>) = 0
        BY EmptySeq
      <4>2. ports # <<>>
        BY <2>2, <2>3, <4>1
      <4>3. QED
        BY <4>2 DEF Lonely
    <3>2. Excused'
      BY <2>2, <3>1 DEF Excused
    <3>3. QED
      BY <2>2, <2>3, <3>2 DEF Goes
  <2>4. CASE pc' = "required"
    <3>1. Heard'
      BY <1>1, <2>2, HeardSame
    <3>2. Lonely'
      BY <2>2 DEF Lonely
    <3>3. QED
      BY <2>2, <2>4, <3>1, <3>2 DEF Goes
  <2>5. QED
    BY <2>2, <2>3, <2>4
<1>3. CASE words # <<>>
  <2> DEFINE o == Head(words)
             late == LateWord
  <2>1. o \in late /\ Tail(words) \in Seq(late)
    BY <1>1, <1>3, HeadTailProperties
  <2>2. /\ o \in Word /\ o \notin DemandOptions /\ o \notin FlagOptions /\ args # <<>>
        /\ Range(args) \intersect ProxyUrls = {} => o \notin ProxyUrls
    BY <2>1 DEF LateWord, LateWords
  <2>3. ASSUME args' = args PROVE late = LateWord'
    BY <2>3 DEF LateWord, LateWords
  <2> HIDE DEF o, late
  <2>4. CASE ParseLone
    <3>1. o \in LoneOptions /\ UNCHANGED <<settings, args, script, ports>> /\ words' = Tail(words)
          /\ given' = given \union {o}
      BY <2>4 DEF ParseLone, o
    <3>2. CASE pc' = "exited"
      <4>1. Excused'
        BY <2>2, <3>1 DEF Excused
      <4>2. QED
        BY <3>1, <3>2, <4>1 DEF Goes
    <3>3. CASE pc' # "exited"
      <4>1. pc' = "options" /\ config' = Stored(o, "")
        BY <2>4, <3>3 DEF ParseLone, ExitFor, o
      <4>2. StoresInto(config', o, "")
        BY <3>1, <4>1, StoredFields
      <4>3. Demanded(7)' /\ Routed' /\ StrictRight'
        BY <1>1, <2>2, <3>1, <4>2, HeardStays
      <4>4. LinkableRight' /\ ProductionRight' /\ DebugRight'
        BY <1>1, <2>2, <3>1, <4>2, HeardStays
      <4>5. Lonely'
        BY <2>2, <3>1, <4>2 DEF Lonely, StoresInto
      <4>6. words' \in Seq(LateWord')
        BY <2>1, <2>3, <3>1
      <4>7. QED
        BY <3>1, <4>1, <4>3, <4>4, <4>5, <4>6 DEF Goes, Ending, Heard
    <3>4. QED
      BY <3>2, <3>3
  <2>5. CASE ParseArgument
    <3>1. o \in ArgumentOptions /\ Len(words) > 1 /\ UNCHANGED <<settings, args, script, ports>>
          /\ words' = Tail(Tail(words)) /\ given' = given \union {o}
      BY <2>5 DEF ParseArgument, o
    <3>2. args # <<>>
      BY <2>2
    <3>3. CASE pc' = "exited"
      <4>1. Excused'
        BY <3>1, <3>2 DEF Excused
      <4>2. QED
        BY <3>1, <3>3, <4>1 DEF Goes
    <3>4. CASE pc' # "exited"
      <4>1. pc' = "options" /\ config' = Stored(o, words[2])
        BY <2>5, <3>4 DEF ParseArgument, ExitFor, o
      <4>2. StoresInto(config', o, words[2])
        BY <3>1, <4>1, StoredFields
      <4>3. Demanded(7)' /\ Routed' /\ StrictRight'
        BY <1>1, <2>2, <3>1, <4>2, HeardStays
      <4>4. LinkableRight' /\ ProductionRight' /\ DebugRight'
        BY <1>1, <2>2, <3>1, <4>2, HeardStays
      <4>5. Lonely'
        BY <3>1, <3>2 DEF Lonely
      <4>6. words' \in Seq(LateWord')
        <5>1. Tail(words) # <<>>
          <6>1. Len(Tail(words)) = Len(words) - 1
            BY <1>1, <1>3, HeadTailProperties
          <6>2. Len(words) \in Nat
            BY <1>1, LenProperties
          <6>3. Len(<<>>) = 0
            BY EmptySeq
          <6>4. Len(words) > 1
            BY <3>1
          <6> DEFINE n == Len(Tail(words))
                     m == Len(words)
          <6>5. n # 0
            <7>1. n = m - 1 /\ m \in Nat /\ m > 1
              BY <6>1, <6>2, <6>4
            <7> HIDE DEF n, m
            <7>2. QED
              BY <7>1
          <6>6. QED
            BY <6>3, <6>5
        <5>2. Tail(Tail(words)) \in Seq(late)
          BY <2>1, <5>1, HeadTailProperties
        <5>3. QED
          BY <2>3, <3>1, <5>2
      <4>7. QED
        BY <3>1, <4>1, <4>3, <4>4, <4>5, <4>6 DEF Goes, Ending, Heard
    <3>5. QED
      BY <3>3, <3>4
  <2>6. CASE ParseProxy
    <3>1. o \in ProxyUrls /\ UNCHANGED <<settings, args, script, ports>> /\ words' = Tail(words)
          /\ given' = given \union {"-p"}
      BY <2>6 DEF ParseProxy, o
    <3>2. args # <<>> /\ Range(args) \intersect ProxyUrls # {}
      BY <2>2, <3>1
    <3>3. CASE pc' = "exited"
      <4>1. Excused'
        BY <3>1, <3>2 DEF Excused
      <4>2. QED
        BY <3>1, <3>3, <4>1 DEF Goes
    <3>4. CASE pc' # "exited"
      <4>1. pc' = "options" /\ \E p \in GetProxy(o) : config' = [config EXCEPT !.proxy = p]
        BY <2>6, <3>4 DEF ParseProxy, ExitFor, o
      <4>2. /\ config'.spid = config.spid /\ config'.primary = config.primary
            /\ config'.secondary = config.secondary /\ config'.signer = config.signer
            /\ config'.minSvn = config.minSvn /\ config'.prodId = config.prodId
            /\ config'.strict = config.strict /\ config'.linkable = config.linkable
            /\ config'.production = config.production /\ config'.allowDebug = config.allowDebug
            /\ config'.noproxy = config.noproxy
        BY <4>1 DEF Fields
      <4>3. Demanded(7)'
        BY <1>1, <3>1, <4>2 DEF Demanded
      <4>4. Routed' /\ StrictRight'
        BY <1>1, <3>1, <3>2, <4>2 DEF Routed, NamesProxy, StrictRight, On
      <4>5. LinkableRight' /\ ProductionRight' /\ DebugRight'
        BY <1>1, <3>1, <4>2 DEF LinkableRight, ProductionRight, DebugRight, ProductionTaken,
                                NoDebugTaken, On, Off
      <4>6. Lonely'
        BY <3>1, <3>2 DEF Lonely
      <4>7. words' \in Seq(LateWord')
        BY <2>1, <2>3, <3>1
      <4>8. QED
        BY <3>1, <4>1, <4>3, <4>4, <4>5, <4>6, <4>7 DEF Goes, Ending, Heard
    <3>5. QED
      BY <3>3, <3>4
  <2>7. CASE ParsePort
    <3>1. /\ o \notin LoneOptions /\ UNCHANGED <<settings, args, script, pc, config, given>>
          /\ words' = Tail(words)
      BY <2>7 DEF ParsePort, o
    <3>2. args # <<>>
      BY <2>2
    <3>3. Heard'
      BY <1>1, <3>1, HeardSame
    <3>4. Lonely'
      BY <3>1, <3>2 DEF Lonely
    <3>5. words' \in Seq(LateWord')
      BY <2>1, <2>3, <3>1
    <3>6. QED
      BY <3>1, <3>3, <3>4, <3>5 DEF Goes, Ending
  <2>8. CASE ParseStops
    <3>1. /\ o \in {"-h", "-G"} \union ArgumentOptions
          /\ UNCHANGED <<settings, args, script>> /\ pc' = "exited"
      BY <2>8 DEF ParseStops, ExitFor, o
    <3>2. args # <<>>
      BY <2>2
    <3>3. Excused'
      BY <3>1, <3>2 DEF Excused
    <3>4. QED
      BY <3>1, <3>3 DEF Goes
  <2>9. ~CheckPort /\ ~CheckRequired /\ ~Connect /\ ~Listen
    BY <1>3 DEF CheckPort, CheckRequired, Connect, Listen
  <2>10. QED
    BY <2>4, <2>5, <2>6, <2>7, <2>8, <2>9 DEF Start
<1>4. QED
  BY <1>2, <1>3

\* The state in which the flags are heard: nothing depends on their order but
\* what is still to come.
FlagState ==
  /\ DOMAIN config = Fields /\ pc = "options" /\ Start /\ LinesTyped
  /\ ~Overrides(args) /\ args \in Arguments /\ Lonely
  /\ Demanded(7) /\ Routed /\ config.allowDebug = TRUE

\* The lines from the flags on, by the words they begin with.
LEMMA FlagLines ==
  ASSUME LinesTyped
  PROVE  /\ FromLinkable = IF On("LINKABLE") THEN <<"-l">> \o FromStrict ELSE FromStrict
         /\ FromStrict = IF On("POLICY_STRICT_TRUST") THEN <<"-X">> \o FromDebug ELSE FromDebug
         /\ FromDebug = IF On("DEBUG") THEN <<"-d">> \o FromVerbose ELSE FromVerbose
         /\ FromVerbose = IF On("VERBOSE") THEN <<"-v">> \o FromProduction ELSE FromProduction
         /\ FromProduction =
              IF On("QUERY_IAS_PRODUCTION") THEN <<"-P">> \o FromAllowDebug ELSE FromAllowDebug
         /\ FromAllowDebug = IF Off("ALLOW_DEBUG_ENCLAVE") THEN <<"-D">> \o args ELSE args
<1>1. FromAllowDebug = IF Off("ALLOW_DEBUG_ENCLAVE") THEN <<"-D">> \o args ELSE args
  <2>1. CASE Off("ALLOW_DEBUG_ENCLAVE")
    BY <2>1 DEF FromAllowDebug, FlagIf
  <2>2. CASE ~Off("ALLOW_DEBUG_ENCLAVE")
    <3>1. args \in Seq(Word)
      BY DEF LinesTyped
    <3>2. <<>> \o args = args
      BY <3>1, ConcatEmptySeq
    <3>3. QED
      BY <2>2, <3>2 DEF FromAllowDebug, FlagIf
  <2>3. QED
    BY <2>1, <2>2
<1>2. FromProduction = IF On("QUERY_IAS_PRODUCTION") THEN <<"-P">> \o FromAllowDebug ELSE FromAllowDebug
  <2>1. CASE On("QUERY_IAS_PRODUCTION")
    BY <2>1 DEF FromProduction, FlagIf
  <2>2. CASE ~On("QUERY_IAS_PRODUCTION")
    <3>1. FromAllowDebug \in Seq(Word)
      BY LinesAreLines
    <3>2. <<>> \o FromAllowDebug = FromAllowDebug
      BY <3>1, ConcatEmptySeq
    <3>3. QED
      BY <2>2, <3>2 DEF FromProduction, FlagIf
  <2>3. QED
    BY <2>1, <2>2
<1>3. FromVerbose = IF On("VERBOSE") THEN <<"-v">> \o FromProduction ELSE FromProduction
  <2>1. CASE On("VERBOSE")
    BY <2>1 DEF FromVerbose, FlagIf
  <2>2. CASE ~On("VERBOSE")
    <3>1. FromProduction \in Seq(Word)
      BY LinesAreLines
    <3>2. <<>> \o FromProduction = FromProduction
      BY <3>1, ConcatEmptySeq
    <3>3. QED
      BY <2>2, <3>2 DEF FromVerbose, FlagIf
  <2>3. QED
    BY <2>1, <2>2
<1>4. FromDebug = IF On("DEBUG") THEN <<"-d">> \o FromVerbose ELSE FromVerbose
  <2>1. CASE On("DEBUG")
    BY <2>1 DEF FromDebug, FlagIf
  <2>2. CASE ~On("DEBUG")
    <3>1. FromVerbose \in Seq(Word)
      BY LinesAreLines
    <3>2. <<>> \o FromVerbose = FromVerbose
      BY <3>1, ConcatEmptySeq
    <3>3. QED
      BY <2>2, <3>2 DEF FromDebug, FlagIf
  <2>3. QED
    BY <2>1, <2>2
<1>5. FromStrict = IF On("POLICY_STRICT_TRUST") THEN <<"-X">> \o FromDebug ELSE FromDebug
  <2>1. CASE On("POLICY_STRICT_TRUST")
    BY <2>1 DEF FromStrict, FlagIf
  <2>2. CASE ~On("POLICY_STRICT_TRUST")
    <3>1. FromDebug \in Seq(Word)
      BY LinesAreLines
    <3>2. <<>> \o FromDebug = FromDebug
      BY <3>1, ConcatEmptySeq
    <3>3. QED
      BY <2>2, <3>2 DEF FromStrict, FlagIf
  <2>3. QED
    BY <2>1, <2>2
<1>6. FromLinkable = IF On("LINKABLE") THEN <<"-l">> \o FromStrict ELSE FromStrict
  <2>1. CASE On("LINKABLE")
    BY <2>1 DEF FromLinkable, FlagIf
  <2>2. CASE ~On("LINKABLE")
    <3>1. FromStrict \in Seq(Word)
      BY LinesAreLines
    <3>2. <<>> \o FromStrict = FromStrict
      BY <3>1, ConcatEmptySeq
    <3>3. QED
      BY <2>2, <3>2 DEF FromLinkable, FlagIf
  <2>3. QED
    BY <2>1, <2>2
<1>7. QED
  BY <1>1, <1>2, <1>3, <1>4, <1>5, <1>6

\* A flag that has been taken leaves the state as it was, but for its field.
LEMMA FlagStays ==
  ASSUME FlagState, NEW o \in {"-l", "-d", "-v", "-P", "-D"}, NEW rest \in Seq(Word),
         words = <<o>> \o rest
  PROVE  /\ UNCHANGED <<settings, args, script, pc, why>> /\ words' = rest
         /\ StoresInto(config', o, "")
         /\ Demanded(7)' /\ Routed' /\ Lonely'
<1>1. o \in LoneOptions \ {"-x"} /\ o \notin DemandOptions
  BY DEF LoneOptions, DemandOptions
<1>2. /\ UNCHANGED <<settings, args, script, ports, pc, why>>
      /\ words' = rest /\ given' = given \union {o}
      /\ StoresInto(config', o, "")
  BY <1>1, FlagTaken DEF FlagState
<1>3. Demanded(7)' /\ Routed'
  BY <1>1, <1>2, HeardStays DEF FlagState
<1>4. Lonely'
  BY <1>2 DEF FlagState, Lonely, StoresInto
<1>5. QED
  BY <1>2, <1>3, <1>4 DEF FlagState

\* The last words follow the last flag.
LEMMA AllowDebugGoes ==
  ASSUME FlagState, words = FromAllowDebug, LinkableRight, StrictRight, ProductionRight,
         ~NoDebugTaken
  PROVE  Goes
<1>1. CASE Off("ALLOW_DEBUG_ENCLAVE")
  <2>1. args \in Seq(Word) /\ words = <<"-D">> \o args
    BY <1>1, FlagLines DEF FlagState, LinesTyped
  <2>2. /\ UNCHANGED <<settings, args, script, pc, why>> /\ words' = args
        /\ StoresInto(config', "-D", "")
        /\ Demanded(7)' /\ Routed' /\ Lonely'
    BY <2>1, FlagStays
  <2>3. LinkableRight' /\ StrictRight' /\ ProductionRight' /\ DebugRight'
    BY <1>1, <2>2 DEF StoresInto, LinkableRight, StrictRight, ProductionRight, DebugRight,
                      ProductionTaken, NoDebugTaken, On, Off
  <2>4. words' \in Seq(LateWord')
    <3>1. args \in Seq(LateWord)
      BY ArgumentsAreLate DEF FlagState
    <3>2. LateWord' = LateWord
      BY <2>2 DEF LateWord, LateWords
    <3>3. QED
      BY <2>2, <3>1, <3>2
  <2>5. QED
    BY <2>2, <2>3, <2>4 DEF Goes, Ending, Heard, FlagState
<1>2. CASE ~Off("ALLOW_DEBUG_ENCLAVE")
  <2>1. words = args
    BY <1>2, FlagLines DEF FlagState
  <2>2. DebugRight
    BY <1>2 DEF DebugRight, FlagState
  <2>3. words \in Seq(LateWord)
    BY <2>1, ArgumentsAreLate DEF FlagState
  <2>4. Ending
    BY <2>2, <2>3 DEF Ending, Heard, FlagState
  <2>5. QED
    BY <2>4, EndingGoes DEF FlagState
<1>3. QED
  BY <1>1, <1>2

\* -P is heard if the files ask for the production server.
LEMMA ProductionGoes ==
  ASSUME FlagState, words = FromProduction, LinkableRight, StrictRight, config.production = FALSE,
         ~ProductionTaken
  PROVE  Goes
<1>1. CASE On("QUERY_IAS_PRODUCTION")
  <2>1. FromAllowDebug \in Seq(Word) /\ words = <<"-P">> \o FromAllowDebug
    BY <1>1, FlagLines, LinesAreLines DEF FlagState
  <2>2. /\ UNCHANGED <<settings, args, script, pc, why>> /\ words' = FromAllowDebug
        /\ StoresInto(config', "-P", "")
        /\ Demanded(7)' /\ Routed' /\ Lonely'
    BY <2>1, FlagStays
  <2>3. words' = FromAllowDebug'
    BY <2>2, LinesStay
  <2>4. /\ LinkableRight' /\ StrictRight' /\ ProductionRight' /\ ~NoDebugTaken'
        /\ config'.allowDebug = TRUE
    BY <1>1, <2>2 DEF StoresInto, LinkableRight, StrictRight, ProductionRight, FlagState,
                      ProductionTaken, NoDebugTaken, On
  <2>5. QED
    BY <2>2, <2>3, <2>4 DEF Goes, Flagging, FlagState
<1>2. CASE ~On("QUERY_IAS_PRODUCTION")
  <2>1. words = FromAllowDebug
    BY <1>2, FlagLines DEF FlagState
  <2>2. ProductionRight /\ ~NoDebugTaken
    BY <1>2 DEF ProductionRight, NoDebugTaken
  <2>3. QED
    BY <2>1, <2>2, AllowDebugGoes
<1>3. QED
  BY <1>1, <1>2

\* -v stores nothing that matters here.
LEMMA VerboseGoes ==
  ASSUME FlagState, words = FromVerbose, LinkableRight, StrictRight, config.production = FALSE,
         On("POLICY_STRICT_TRUST") => On("DEBUG")
  PROVE  Goes
<1>1. CASE On("VERBOSE")
  <2>1. FromProduction \in Seq(Word) /\ words = <<"-v">> \o FromProduction
    BY <1>1, FlagLines, LinesAreLines DEF FlagState
  <2>2. /\ UNCHANGED <<settings, args, script, pc, why>> /\ words' = FromProduction
        /\ StoresInto(config', "-v", "")
        /\ Demanded(7)' /\ Routed' /\ Lonely'
    BY <2>1, FlagStays
  <2>3. words' = FromProduction'
    BY <2>2, LinesStay
  <2>4. /\ LinkableRight' /\ StrictRight' /\ config'.production = FALSE /\ ~ProductionTaken'
        /\ config'.allowDebug = TRUE
    BY <1>1, <2>2 DEF StoresInto, LinkableRight, StrictRight, FlagState, ProductionTaken, On
  <2>5. QED
    BY <2>2, <2>3, <2>4 DEF Goes, Flagging, FlagState
<1>2. CASE ~On("VERBOSE")
  <2>1. words = FromProduction
    BY <1>2, FlagLines DEF FlagState
  <2>2. ~ProductionTaken
    BY DEF ProductionTaken
  <2>3. QED
    BY <2>1, <2>2, ProductionGoes
<1>3. QED
  BY <1>1, <1>2

\* Nor does -d.
LEMMA DebugGoes ==
  ASSUME FlagState, words = FromDebug, LinkableRight, config.production = FALSE,
         ~On("POLICY_STRICT_TRUST")
  PROVE  Goes
<1>1. CASE On("DEBUG")
  <2>1. FromVerbose \in Seq(Word) /\ words = <<"-d">> \o FromVerbose
    BY <1>1, FlagLines, LinesAreLines DEF FlagState
  <2>2. /\ UNCHANGED <<settings, args, script, pc, why>> /\ words' = FromVerbose
        /\ StoresInto(config', "-d", "")
        /\ Demanded(7)' /\ Routed' /\ Lonely'
    BY <2>1, FlagStays
  <2>3. words' = FromVerbose'
    BY <2>2, LinesStay
  <2>4. /\ LinkableRight' /\ StrictRight' /\ config'.production = FALSE
        /\ On("POLICY_STRICT_TRUST")' => On("DEBUG")'
        /\ config'.allowDebug = TRUE
    BY <1>1, <2>2 DEF StoresInto, LinkableRight, StrictRight, FlagState, On
  <2>5. QED
    BY <2>2, <2>3, <2>4 DEF Goes, Flagging, FlagState
<1>2. CASE ~On("DEBUG")
  <2>1. words = FromVerbose
    BY <1>2, FlagLines DEF FlagState
  <2>2. StrictRight
    BY DEF StrictRight
  <2>3. QED
    BY <2>1, <2>2, VerboseGoes
<1>3. QED
  BY <1>1, <1>2

\* -X takes the word behind it, whatever that is.
LEMMA StrictTakes ==
  ASSUME FlagState, config.production = FALSE, LinkableRight,
         NEW h \in Word, NEW t \in Seq(Word), words = <<"-X">> \o (<<h>> \o t),
         h = "shortSigner" => args # <<>>
  PROVE  /\ UNCHANGED <<settings, args, script>>
         /\ \/ pc' = "exited" /\ Excused'
            \/ /\ pc' = "options" /\ words' = t /\ Lonely' /\ Demanded(7)' /\ Routed'
               /\ StrictRight' /\ LinkableRight'
               /\ config'.production = FALSE /\ config'.allowDebug = TRUE
<1>1. "-X" \in ArgumentOptions
  BY DEF ArgumentOptions
<1>2. /\ UNCHANGED <<settings, args, script, edited, ports, ias>>
      /\ given' = given \union {"-X"} /\ words' = t
      /\ \/ Accepts("-X", h) /\ config' = Stored("-X", h) /\ pc' = pc /\ why' = why
         \/ /\ pc' = "exited" /\ config' = config
            /\ \/ why' = "refused" /\ (Accepts("-X", h) => h = "shortSigner")
               \/ why' = "environment"
  BY <1>1, TakesTheNextWord DEF FlagState
<1>3. CASE pc' = "exited"
  <2>1. Accepts("-X", h)
    BY DEF Accepts
  <2>2. args' = <<>> => why' = "environment"
    BY <1>2, <1>3, <2>1 DEF FlagState
  <2>3. Excused'
    BY <2>2 DEF Excused
  <2>4. QED
    BY <1>2, <1>3, <2>3
<1>4. CASE pc' # "exited"
  <2>1. StoresInto(config', "-X", h) /\ pc' = "options"
    BY <1>1, <1>2, <1>4, StoredFields DEF FlagState
  <2>2. Demanded(7)' /\ Routed' /\ LinkableRight'
    BY <1>2, <2>1, HeardStays DEF FlagState, DemandOptions, FlagOptions
  <2>3. /\ StrictRight' /\ Lonely'
        /\ config'.production = FALSE /\ config'.allowDebug = TRUE
    BY <1>2, <2>1 DEF StrictRight, Lonely, StoresInto, FlagState
  <2>4. QED
    BY <1>2, <2>1, <2>2, <2>3
<1>5. QED
  BY <1>3, <1>4

\* If that is a flag, it is the first one, and the others are heard.
LEMMA StrictTakesFlag ==
  ASSUME FlagState, words = <<"-X">> \o FromDebug, LinkableRight, config.production = FALSE,
         On("POLICY_STRICT_TRUST"),
         \/ On("DEBUG") \/ On("VERBOSE") \/ On("QUERY_IAS_PRODUCTION") \/ Off("ALLOW_DEBUG_ENCLAVE")
  PROVE  Goes
<1>1. {"-d", "-v", "-P", "-D"} \subseteq Word
  BY DEF Word, OptionWords, LoneOptions
<1>2. /\ FromVerbose \in Seq(Word) /\ FromProduction \in Seq(Word) /\ FromAllowDebug \in Seq(Word)
      /\ args \in Seq(Word)
  BY LinesAreLines DEF FlagState, LinesTyped
<1>3. CASE On("DEBUG")
  <2>1. words = <<"-X">> \o (<<"-d">> \o FromVerbose)
    BY <1>3, FlagLines DEF FlagState
  <2>2. /\ UNCHANGED <<settings, args, script>>
        /\ \/ pc' = "exited" /\ Excused'
           \/ /\ pc' = "options" /\ words' = FromVerbose /\ Lonely' /\ Demanded(7)' /\ Routed'
              /\ StrictRight' /\ LinkableRight'
              /\ config'.production = FALSE /\ config'.allowDebug = TRUE
    BY <1>1, <1>2, <2>1, StrictTakes
  <2>3. FromVerbose' = FromVerbose /\ On("DEBUG")'
    BY <1>3, <2>2, LinesStay DEF On
  <2>4. pc' # "exited" => Flagging'
    BY <2>2, <2>3 DEF Flagging
  <2>5. QED
    BY <2>2, <2>4 DEF Goes
<1>4. CASE ~On("DEBUG") /\ On("VERBOSE")
  <2>1. words = <<"-X">> \o (<<"-v">> \o FromProduction)
    BY <1>4, FlagLines DEF FlagState
  <2>2. /\ UNCHANGED <<settings, args, script>>
        /\ \/ pc' = "exited" /\ Excused'
           \/ /\ pc' = "options" /\ words' = FromProduction /\ Lonely' /\ Demanded(7)' /\ Routed'
              /\ StrictRight' /\ LinkableRight'
              /\ config'.production = FALSE /\ config'.allowDebug = TRUE
    BY <1>1, <1>2, <2>1, StrictTakes
  <2>3. FromProduction' = FromProduction /\ ~ProductionTaken'
    BY <1>4, <2>2, LinesStay DEF On, ProductionTaken
  <2>4. pc' # "exited" => Flagging'
    BY <2>2, <2>3 DEF Flagging
  <2>5. QED
    BY <2>2, <2>4 DEF Goes
<1>5. CASE ~On("DEBUG") /\ ~On("VERBOSE") /\ On("QUERY_IAS_PRODUCTION")
  <2>1. words = <<"-X">> \o (<<"-P">> \o FromAllowDebug)
    BY <1>5, FlagLines DEF FlagState
  <2>2. /\ UNCHANGED <<settings, args, script>>
        /\ \/ pc' = "exited" /\ Excused'
           \/ /\ pc' = "options" /\ words' = FromAllowDebug /\ Lonely' /\ Demanded(7)' /\ Routed'
              /\ StrictRight' /\ LinkableRight'
              /\ config'.production = FALSE /\ config'.allowDebug = TRUE
    BY <1>1, <1>2, <2>1, StrictTakes
  <2>3. FromAllowDebug' = FromAllowDebug /\ ProductionTaken' /\ ~NoDebugTaken'
    BY <1>5, <2>2, LinesStay DEF On, ProductionTaken, NoDebugTaken
  <2>4. pc' # "exited" => Flagging'
    BY <2>2, <2>3 DEF Flagging, ProductionRight
  <2>5. QED
    BY <2>2, <2>4 DEF Goes
<1>6. CASE /\ ~On("DEBUG") /\ ~On("VERBOSE") /\ ~On("QUERY_IAS_PRODUCTION")
           /\ Off("ALLOW_DEBUG_ENCLAVE")
  <2>1. words = <<"-X">> \o (<<"-D">> \o args)
    BY <1>6, FlagLines DEF FlagState
  <2>2. /\ UNCHANGED <<settings, args, script>>
        /\ \/ pc' = "exited" /\ Excused'
           \/ /\ pc' = "options" /\ words' = args /\ Lonely' /\ Demanded(7)' /\ Routed'
              /\ StrictRight' /\ LinkableRight'
              /\ config'.production = FALSE /\ config'.allowDebug = TRUE
    BY <1>1, <1>2, <2>1, StrictTakes
  <2>3. ~On("QUERY_IAS_PRODUCTION")' /\ NoDebugTaken'
    BY <1>6, <2>2 DEF On, ProductionTaken, NoDebugTaken
  <2>4. args \in Seq(LateWord')
    BY <2>2, ArgumentsAreLate DEF FlagState, LateWord, LateWords
  <2>5. pc' # "exited" => Ending'
    BY <2>2, <2>3, <2>4 DEF Ending, Heard, ProductionRight, DebugRight
  <2>6. QED
    BY <2>2, <2>5 DEF Goes
<1>7. QED
  BY <1>3, <1>4, <1>5, <1>6

\* If there is none, it is the first word of "$@"; and the last -X is refused.
LEMMA StrictTakesArgument ==
  ASSUME FlagState, words = <<"-X">> \o args, LinkableRight, config.production = FALSE,
         ~On("QUERY_IAS_PRODUCTION"), ~Off("ALLOW_DEBUG_ENCLAVE")
  PROVE  Goes
<1>1. "-X" \in ArgumentOptions /\ "-X" \in Word
  BY DEF ArgumentOptions, Word, OptionWords
<1>2. args \in Seq(Word) /\ args \in Seq(LateWord)
  BY ArgumentsAreLate DEF FlagState
<1>3. CASE args = <<>>
  <2>1. words # <<>> /\ Head(words) = "-X" /\ Len(words) = Len(args) + 1 /\ words \in Seq(Word)
    BY <1>1, <1>2, WordInFront
  <2>2. Len(words) = 1
    BY <1>3, <2>1, EmptySeq
  <2>3. ParseStops
    <3>1. ParseArgument \/ (ParseStops /\ Len(words) = 1)
      BY <1>1, <2>1, ArgumentIsParsed DEF FlagState
    <3>2. ParseArgument => Len(words) > 1
      BY DEF ParseArgument
    <3>3. QED
      BY <2>2, <3>1, <3>2
  <2>4. UNCHANGED <<settings, args, script, words>> /\ pc' = "exited"
    BY <2>3 DEF ParseStops, ExitFor
  <2>5. Last(words) = "-X"
    <3>1. Head(words) = words[1]
      BY <2>1, HeadTailProperties
    <3>2. QED
      BY <2>1, <2>2, <3>1 DEF Last
  <2>6. Excused'
    BY <2>1, <2>4, <2>5 DEF Excused, Last
  <2>7. QED
    BY <2>4, <2>6 DEF Goes
<1>4. CASE args # <<>>
  <2> DEFINE h == Head(args)
             t == Tail(args)
  <2>1. h \in Word /\ t \in Seq(Word) /\ args = <<h>> \o t
    BY <1>2, <1>4, LineHead
  <2>2. t \in Seq(LateWord)
    BY <1>2, <1>4, HeadTailProperties
  <2>3. words = <<"-X">> \o (<<h>> \o t)
    BY <2>1
  <2> HIDE DEF h, t
  <2>4. /\ UNCHANGED <<settings, args, script>>
        /\ \/ pc' = "exited" /\ Excused'
           \/ /\ pc' = "options" /\ words' = t /\ Lonely' /\ Demanded(7)' /\ Routed'
              /\ StrictRight' /\ LinkableRight'
              /\ config'.production = FALSE /\ config'.allowDebug = TRUE
    BY <1>4, <2>1, <2>3, StrictTakes
  <2>5. ProductionRight' <=> config'.production = FALSE
    BY <2>4 DEF ProductionRight, ProductionTaken, On
  <2>6. DebugRight' <=> config'.allowDebug = TRUE
    BY <2>4 DEF DebugRight, NoDebugTaken, Off
  <2>7. t \in Seq(LateWord')
    BY <2>2, <2>4 DEF LateWord, LateWords
  <2>8. pc' # "exited" => Ending'
    BY <2>4, <2>5, <2>6, <2>7 DEF Ending, Heard
  <2>9. QED
    BY <2>4, <2>8 DEF Goes
<1>5. QED
  BY <1>3, <1>4

\* So -X is heard if the files ask for the strict mode, with what it takes.
LEMMA StrictGoes ==
  ASSUME FlagState, words = FromStrict, LinkableRight, config.production = FALSE
  PROVE  Goes
<1>1. CASE On("POLICY_STRICT_TRUST")
  <2>1. words = <<"-X">> \o FromDebug
    BY <1>1, FlagLines DEF FlagState
  <2>2. CASE \/ On("DEBUG") \/ On("VERBOSE") \/ On("QUERY_IAS_PRODUCTION")
             \/ Off("ALLOW_DEBUG_ENCLAVE")
    BY <1>1, <2>1, <2>2, StrictTakesFlag
  <2>3. CASE /\ ~On("DEBUG") /\ ~On("VERBOSE") /\ ~On("QUERY_IAS_PRODUCTION")
             /\ ~Off("ALLOW_DEBUG_ENCLAVE")
    <3>1. FromDebug = args
      BY <2>3, FlagLines DEF FlagState
    <3>2. QED
      BY <2>1, <2>3, <3>1, StrictTakesArgument
  <2>4. QED
    BY <2>2, <2>3
<1>2. CASE ~On("POLICY_STRICT_TRUST")
  <2>1. words = FromDebug
    BY <1>2, FlagLines DEF FlagState
  <2>2. QED
    BY <1>2, <2>1, DebugGoes
<1>3. QED
  BY <1>1, <1>2

\* -l is heard if the files ask for linkable quotes.
LEMMA LinkableGoes ==
  ASSUME FlagState, words = FromLinkable, config.linkable = FALSE, config.production = FALSE
  PROVE  Goes
<1>1. CASE On("LINKABLE")
  <2>1. FromStrict \in Seq(Word) /\ words = <<"-l">> \o FromStrict
    BY <1>1, FlagLines, LinesAreLines DEF FlagState
  <2>2. /\ UNCHANGED <<settings, args, script, pc, why>> /\ words' = FromStrict
        /\ StoresInto(config', "-l", "")
        /\ Demanded(7)' /\ Routed' /\ Lonely'
    BY <2>1, FlagStays
  <2>3. words' = FromStrict'
    BY <2>2, LinesStay
  <2>4. LinkableRight' /\ config'.production = FALSE /\ config'.allowDebug = TRUE
    BY <1>1, <2>2 DEF StoresInto, LinkableRight, FlagState, On
  <2>5. QED
    BY <2>2, <2>3, <2>4 DEF Goes, Flagging, FlagState
<1>2. CASE ~On("LINKABLE")
  <2>1. words = FromStrict
    BY <1>2, FlagLines DEF FlagState
  <2>2. LinkableRight
    BY <1>2 DEF LinkableRight
  <2>3. QED
    BY <2>1, <2>2, StrictGoes
<1>3. QED
  BY <1>1, <1>2

\* The flags are heard as far as -X.
LEMMA FlaggingGoes ==
  ASSUME DOMAIN config = Fields, pc = "options", Start, LinesTyped, ~Overrides(args),
         args \in Arguments, Lonely, Flagging
  PROVE  Goes
<1>1. FlagState
  BY DEF FlagState, Flagging
<1>2. QED
  BY <1>1, LinkableGoes, StrictGoes, DebugGoes, VerboseGoes, ProductionGoes, AllowDebugGoes
     DEF Flagging

\* The proxy's option of the files is heard; a URL of another scheme is refused.
LEMMA RouteGoes ==
  ASSUME LinesTyped, DOMAIN config = Fields, pc = "options", Start, Plain, Unrouted, Lonely,
         ProxyInv, ~Overrides(args), args \in Arguments, words = FromProxy, Demanded(7)
  PROVE  Goes
<1> DEFINE url == settings["IAS_PROXY_URL"]
<1>1. config.proxy = NoProxy /\ config.noproxy = FALSE
  BY DEF ProxyInv, Unrouted
<1>2. FromLinkable \in Seq(Word)
  BY LinesAreLines
<1>3. CASE On("IAS_DISABLE_PROXY")
  <2>1. words = <<"-x">> \o FromLinkable
    BY <1>2, <1>3, ProxyInFront DEF FromProxy
  <2>2. "-x" \in Word /\ "-x" \in LoneOptions /\ "-x" \in ArgumentOptions \union LoneOptions
    BY DEF Word, OptionWords, LoneOptions
  <2>3. words # <<>> /\ Head(words) = "-x" /\ Tail(words) = FromLinkable
    BY <1>2, <2>1, <2>2, WordInFront
  <2>4. ParseLone
    BY <2>2, <2>3, LoneIsParsed
  <2>5. /\ UNCHANGED <<settings, args, script, ports, pc, why>> /\ words' = FromLinkable
        /\ given' = given \union {"-x"} /\ config' = Stored("-x", "")
    BY <1>1, <2>3, <2>4 DEF ParseLone
  <2>6. StoresInto(config', "-x", "")
    BY <2>2, <2>5, StoredFields
  <2>7. Demanded(7)'
    BY <2>5, <2>6, HeardStays DEF DemandOptions
  <2>8. Routed'
    <3>1. config'.noproxy = TRUE
      BY <2>6 DEF StoresInto
    <3>2. On("IAS_DISABLE_PROXY")' /\ ~NamesProxy'
      BY <1>3, <2>5 DEF On, NamesProxy
    <3>3. QED
      BY <3>1, <3>2 DEF Routed
  <2>9. /\ config'.allowDebug = TRUE
        /\ config'.linkable = FALSE /\ config'.production = FALSE
    BY <2>5, <2>6 DEF StoresInto, Plain
  <2>10. Lonely'
    BY <2>5, <2>6 DEF StoresInto, Lonely
  <2>11. words' = FromLinkable'
    BY <2>5, LinesStay
  <2>12. Flagging'
    BY <2>7, <2>8, <2>9, <2>11 DEF Flagging
  <2>13. QED
    BY <2>5, <2>10, <2>12 DEF Goes
<1>4. CASE ~On("IAS_DISABLE_PROXY") /\ url # ""
  <2>1. url \in ProxyUrls /\ url \in Word /\ words = <<url>> \o FromLinkable
    BY <1>2, <1>4, ProxyInFront DEF FromProxy
  <2> HIDE DEF url
  <2>2. words # <<>> /\ Head(words) = url /\ Tail(words) = FromLinkable
    BY <1>2, <2>1, WordInFront
  <2>3. ParseProxy
    BY <2>1, <2>2, ProxyIsParsed
  <2>4. UNCHANGED <<settings, args, script, ports>>
    BY <2>3 DEF ParseProxy
  <2>5. CASE GetProxy(url) = {}
    <3>1. pc' = "exited"
      BY <1>1, <2>2, <2>3, <2>5 DEF ParseProxy, ExitFor
    <3>2. url = "ftp://h"
      BY <2>1, <2>5 DEF GetProxy, UrlScheme, ProxyUrls
    <3>3. ~WellFormed'
      BY <2>4, <3>2 DEF WellFormed, url
    <3>4. QED
      BY <2>4, <3>1, <3>3 DEF Goes, Excused
  <2>6. CASE GetProxy(url) # {}
    <3>1. GetProxy(url) = {[host |-> "h", port |-> UrlPort(url)]}
      BY <2>6 DEF GetProxy
    <3>2. /\ words' = FromLinkable /\ given' = given \union {"-p"} /\ pc' = pc /\ why' = why
          /\ config' = [config EXCEPT !.proxy = [host |-> "h", port |-> UrlPort(url)]]
      BY <1>1, <2>2, <2>3, <3>1 DEF ParseProxy
    <3>3. /\ config'.spid = config.spid /\ config'.primary = config.primary
          /\ config'.secondary = config.secondary /\ config'.signer = config.signer
          /\ config'.minSvn = config.minSvn /\ config'.prodId = config.prodId
          /\ config'.strict = config.strict /\ config'.linkable = config.linkable
          /\ config'.production = config.production /\ config'.allowDebug = config.allowDebug
          /\ config'.stdio = config.stdio /\ config'.agent = config.agent
          /\ config'.proxy = [host |-> "h", port |-> UrlPort(url)]
      BY <3>2 DEF Fields
    <3>4. Demanded(7)'
      BY <2>4, <3>2, <3>3 DEF Demanded
    <3>5. Routed'
      BY <1>4, <2>4, <3>3 DEF Routed, On, url
    <3>6. /\ config'.allowDebug = TRUE
          /\ config'.linkable = FALSE /\ config'.production = FALSE
      BY <3>2, <3>3 DEF Plain
    <3>7. Lonely'
      BY <2>4, <3>3 DEF Lonely
    <3>8. words' = FromLinkable'
      BY <2>4, <3>2, LinesStay
    <3>9. Flagging'
      BY <3>4, <3>5, <3>6, <3>8 DEF Flagging
    <3>10. QED
      BY <2>4, <3>2, <3>7, <3>9 DEF Goes
  <2>7. QED
    BY <2>5, <2>6
<1>5. CASE ~On("IAS_DISABLE_PROXY") /\ url = ""
  <2>1. words = FromLinkable
    BY <1>2, <1>5, ProxyInFront DEF FromProxy
  <2>2. Routed
    BY <1>5 DEF Routed, NamesProxy
  <2>3. Flagging
    BY <2>1, <2>2 DEF Flagging, Plain
  <2>4. QED
    BY <2>3, FlaggingGoes
<1>6. QED
  BY <1>3, <1>4, <1>5

\* No word that run-server makes behind -R is a number: a number is in "$@".
LEMMA NumbersAreArguments ==
  ASSUME LinesTyped, FromProxy # <<>>, Head(FromProxy) \in Numerals
  PROVE  /\ FromProxy = args
         /\ ~On("IAS_DISABLE_PROXY") /\ settings["IAS_PROXY_URL"] = ""
         /\ ~On("LINKABLE") /\ ~On("POLICY_STRICT_TRUST") /\ ~On("QUERY_IAS_PRODUCTION")
         /\ ~Off("ALLOW_DEBUG_ENCLAVE")
<1>1. ASSUME NEW w \in OptionWords, NEW rest \in Seq(Word), Head(<<w>> \o rest) \in Numerals
      PROVE  FALSE
  <2>1. w \in Word
    BY DEF Word
  <2>2. Head(<<w>> \o rest) = w
    BY <2>1, WordInFront
  <2>3. w \in Numerals
    BY <1>1, <2>2
  <2>4. w \in ArgumentOptions \/ w \in LoneOptions \/ w \in ProxyUrls
    BY DEF OptionWords
  <2>5. QED
    BY <2>3, <2>4 DEF Numerals, ArgumentOptions, LoneOptions, ProxyUrls
<1>2. {"-D", "-P", "-v", "-d", "-X", "-l", "-x"} \subseteq OptionWords
  BY DEF OptionWords, LoneOptions, ArgumentOptions
<1>3. ProxyUrls \subseteq OptionWords
  BY DEF OptionWords
<1>4. /\ FromLinkable \in Seq(Word) /\ FromStrict \in Seq(Word) /\ FromDebug \in Seq(Word)
      /\ FromVerbose \in Seq(Word) /\ FromProduction \in Seq(Word)
      /\ FromAllowDebug \in Seq(Word) /\ args \in Seq(Word)
  BY LinesAreLines DEF LinesTyped
<1> DEFINE url == settings["IAS_PROXY_URL"]
<1>5. /\ On("IAS_DISABLE_PROXY") => FromProxy = <<"-x">> \o FromLinkable
      /\ ~On("IAS_DISABLE_PROXY") /\ url # "" =>
           url \in ProxyUrls /\ FromProxy = <<url>> \o FromLinkable
      /\ ~On("IAS_DISABLE_PROXY") /\ url = "" => FromProxy = FromLinkable
  BY <1>4, ProxyInFront DEF FromProxy
<1> HIDE DEF url
<1>6. ~On("IAS_DISABLE_PROXY")
  <2> SUFFICES ASSUME On("IAS_DISABLE_PROXY") PROVE FALSE
    OBVIOUS
  <2>1. Head(<<"-x">> \o FromLinkable) \in Numerals
    BY <1>5
  <2>2. QED
    BY <1>1, <1>2, <1>4, <2>1
<1>7. url = ""
  <2> SUFFICES ASSUME url # "" PROVE FALSE
    OBVIOUS
  <2>1. url \in OptionWords /\ Head(<<url>> \o FromLinkable) \in Numerals
    BY <1>3, <1>5, <1>6
  <2>2. QED
    BY <1>1, <1>4, <2>1
<1>8. FromProxy = FromLinkable
  BY <1>5, <1>6, <1>7
<1>9. ~On("LINKABLE") /\ FromProxy = FromStrict
  <2>1. FromLinkable = IF On("LINKABLE") THEN <<"-l">> \o FromStrict ELSE FromStrict
    BY FlagLines
  <2>2. ASSUME On("LINKABLE") PROVE FALSE
    <3>1. Head(<<"-l">> \o FromStrict) \in Numerals
      BY <1>8, <2>1, <2>2
    <3>2. QED
      BY <1>1, <1>2, <1>4, <3>1
  <2>3. QED
    BY <1>8, <2>1, <2>2
<1>10. ~On("POLICY_STRICT_TRUST") /\ FromProxy = FromDebug
  <2>1. FromStrict = IF On("POLICY_STRICT_TRUST") THEN <<"-X">> \o FromDebug ELSE FromDebug
    BY FlagLines
  <2>2. ASSUME On("POLICY_STRICT_TRUST") PROVE FALSE
    <3>1. Head(<<"-X">> \o FromDebug) \in Numerals
      BY <1>9, <2>1, <2>2
    <3>2. QED
      BY <1>1, <1>2, <1>4, <3>1
  <2>3. QED
    BY <1>9, <2>1, <2>2
<1>11. ~On("DEBUG") /\ FromProxy = FromVerbose
  <2>1. FromDebug = IF On("DEBUG") THEN <<"-d">> \o FromVerbose ELSE FromVerbose
    BY FlagLines
  <2>2. ASSUME On("DEBUG") PROVE FALSE
    <3>1. Head(<<"-d">> \o FromVerbose) \in Numerals
      BY <1>10, <2>1, <2>2
    <3>2. QED
      BY <1>1, <1>2, <1>4, <3>1
  <2>3. QED
    BY <1>10, <2>1, <2>2
<1>12. ~On("VERBOSE") /\ FromProxy = FromProduction
  <2>1. FromVerbose = IF On("VERBOSE") THEN <<"-v">> \o FromProduction ELSE FromProduction
    BY FlagLines
  <2>2. ASSUME On("VERBOSE") PROVE FALSE
    <3>1. Head(<<"-v">> \o FromProduction) \in Numerals
      BY <1>11, <2>1, <2>2
    <3>2. QED
      BY <1>1, <1>2, <1>4, <3>1
  <2>3. QED
    BY <1>11, <2>1, <2>2
<1>13. ~On("QUERY_IAS_PRODUCTION") /\ FromProxy = FromAllowDebug
  <2>1. FromProduction = IF On("QUERY_IAS_PRODUCTION") THEN <<"-P">> \o FromAllowDebug ELSE FromAllowDebug
    BY FlagLines
  <2>2. ASSUME On("QUERY_IAS_PRODUCTION") PROVE FALSE
    <3>1. Head(<<"-P">> \o FromAllowDebug) \in Numerals
      BY <1>12, <2>1, <2>2
    <3>2. QED
      BY <1>1, <1>2, <1>4, <3>1
  <2>3. QED
    BY <1>12, <2>1, <2>2
<1>14. ~Off("ALLOW_DEBUG_ENCLAVE") /\ FromProxy = args
  <2>1. FromAllowDebug = IF Off("ALLOW_DEBUG_ENCLAVE") THEN <<"-D">> \o args ELSE args
    BY FlagLines
  <2>2. ASSUME Off("ALLOW_DEBUG_ENCLAVE") PROVE FALSE
    <3>1. Head(<<"-D">> \o args) \in Numerals
      BY <1>13, <2>1, <2>2
    <3>2. QED
      BY <1>1, <1>2, <1>4, <3>1
  <2>3. QED
    BY <1>13, <2>1, <2>2
<1>15. QED
  BY <1>6, <1>7, <1>9, <1>10, <1>13, <1>14 DEF url

\* -R takes the word behind it: the PRODID, or else the first word of "$@".
LEMMA ProdIdGoes ==
  ASSUME LinesTyped, DOMAIN config = Fields, pc = "options", Start, Plain, Unrouted, Lonely,
         ~Overrides(args), args \in Arguments, words = FromProdId, Demanded(6)
  PROVE  Goes
<1>1. FromProxy \in Seq(Word)
  BY LinesAreLines
<1>2. CASE settings["PRODID"] # ""
  <2>1. settings["PRODID"] \in Word /\ words = <<"-R">> \o (<<settings["PRODID"]>> \o FromProxy)
    <3>1. "PRODID" \in DOMAIN Base
      BY WordsAssumption
    <3>2. settings["PRODID"] \in Word
          /\ Unquoted("PRODID") \o FromProxy = <<settings["PRODID"]>> \o FromProxy
      BY <1>1, <1>2, <3>1, UnquotedInFront
    <3>3. QED
      BY <3>2 DEF FromProdId
  <2>2. UNCHANGED <<settings, args, script>> /\ Heeded("-R", settings["PRODID"], FromProxy)
    BY <1>1, <2>1, DemandTaken
  <2>3. ASSUME pc' # "exited" PROVE words' = FromProxy' /\ Demanded(7)'
    <3>1. words' = FromProxy'
      BY <2>2, <2>3, LinesStay DEF Heeded
    <3>2. Demanded(7)'
      <4>1. /\ given' = given \union {"-R"} /\ config'.spid = config.spid
            /\ config'.primary = config.primary /\ config'.secondary = config.secondary
            /\ config'.signer = config.signer /\ config'.minSvn = config.minSvn
            /\ config'.prodId = NumberOf(settings["PRODID"])
        BY <2>2, <2>3 DEF Heeded
      <4>2. settings' = settings /\ args' = args
        BY <2>2
      <4>3. settings'["PRODID"] # ""
        BY <1>2, <4>2
      <4>4. /\ "-s" \in given' /\ config'.spid = settings'["SPID"]
            /\ config'.primary = settings'["IAS_PRIMARY_SUBSCRIPTION_KEY"]
            /\ config'.secondary = settings'["IAS_SECONDARY_SUBSCRIPTION_KEY"]
            /\ "-A" \in given'
            /\ "-N" \in given' /\ config'.signer \in {settings'["MRSIGNER"], "garbage"}
            /\ "-V" \in given' /\ settings'["MIN_ISVSVN"] \in Numerals
            /\ config'.minSvn = NumberOf(settings'["MIN_ISVSVN"])
            /\ "-R" \in given'
        BY <4>1, <4>2 DEF Demanded
      <4>5. settings'["PRODID"] # "" => config'.prodId = NumberOf(settings'["PRODID"])
        BY <4>1, <4>2
      <4>6. QED
        BY <4>3, <4>4, <4>5 DEF Demanded
    <3>3. QED
      BY <3>1, <3>2
  <2>4. QED
    BY <2>2, <2>3, HeededGoes, ValuesAccepted DEF Demanding
<1>3. CASE settings["PRODID"] = ""
  <2>1. words = <<"-R">> \o FromProxy
    <3>1. "PRODID" \in DOMAIN Base
      BY WordsAssumption
    <3>2. Unquoted("PRODID") \o FromProxy = FromProxy
      BY <1>1, <1>3, <3>1, UnquotedInFront
    <3>3. QED
      BY <3>2 DEF FromProdId
  <2>2. "-R" \in Word /\ "-R" \in ArgumentOptions
    BY DEF Word, OptionWords, ArgumentOptions
  <2>3. ~WellFormed
    BY <1>3, ValuesAccepted
  <2>4. ASSUME settings' = settings PROVE Excused'
    <3>1. ~WellFormed'
      BY <2>3, <2>4 DEF WellFormed
    <3>2. QED
      BY <3>1 DEF Excused
  <2>5. CASE FromProxy = <<>>
    <3>1. words # <<>> /\ Head(words) = "-R" /\ Len(words) = Len(FromProxy) + 1
      BY <1>1, <2>1, <2>2, WordInFront
    <3>2. Len(words) = 1
      BY <2>5, <3>1, EmptySeq
    <3>3. ParseArgument \/ (ParseStops /\ Len(words) = 1)
      BY <2>2, <3>1, ArgumentIsParsed
    <3>4. ParseArgument => Len(words) > 1
      BY DEF ParseArgument
    <3>5. ParseStops
      BY <3>2, <3>3, <3>4
    <3>6. UNCHANGED <<settings, args, script>> /\ pc' = "exited"
      BY <3>5 DEF ParseStops, ExitFor
    <3>7. QED
      BY <2>4, <3>6 DEF Goes
  <2>6. CASE FromProxy # <<>>
    <3> DEFINE h == Head(FromProxy)
               t == Tail(FromProxy)
    <3>1. h \in Word /\ t \in Seq(Word) /\ FromProxy = <<h>> \o t
      BY <1>1, <2>6, LineHead
    <3>2. words = <<"-R">> \o (<<h>> \o t)
      BY <2>1, <3>1
    <3> HIDE DEF h, t
    <3>3. UNCHANGED <<settings, args, script>> /\ Heeded("-R", h, t)
      BY <3>1, <3>2, DemandTaken
    <3>4. CASE pc' = "exited"
      BY <2>4, <3>3, <3>4 DEF Goes
    <3>5. CASE pc' # "exited"
      <4>1. /\ pc' = "options" /\ words' = t /\ given' = given \union {"-R"} /\ Accepts("-R", h)
            /\ Plain' /\ Unrouted' /\ Lonely'
        BY <3>3, <3>5 DEF Heeded
      <4>2. h \in Numerals
        BY <4>1 DEF Accepts, ValidNumber
      <4>3. /\ FromProxy = args
            /\ ~On("IAS_DISABLE_PROXY") /\ settings["IAS_PROXY_URL"] = ""
            /\ ~On("LINKABLE") /\ ~On("POLICY_STRICT_TRUST") /\ ~On("QUERY_IAS_PRODUCTION")
            /\ ~Off("ALLOW_DEBUG_ENCLAVE")
        BY <2>6, <4>2, NumbersAreArguments DEF h
      <4>4. words' \in Seq(LateWord')
        <5>1. args \in Seq(LateWord) /\ args # <<>>
          BY <2>6, <4>3, ArgumentsAreLate
        <5>2. t \in Seq(LateWord)
          BY <4>3, <5>1, HeadTailProperties DEF t
        <5>3. LateWord' = LateWord
          BY <3>3 DEF LateWord, LateWords
        <5>4. QED
          BY <4>1, <5>2, <5>3
      <4>5. Demanded(7)'
        <5>1. args # <<>>
          BY <2>6, <4>3
        <5>2. /\ given' = given \union {"-R"} /\ config'.spid = config.spid
              /\ config'.primary = config.primary /\ config'.secondary = config.secondary
              /\ config'.signer = config.signer /\ config'.minSvn = config.minSvn
          BY <3>3, <3>5 DEF Heeded
        <5>3. settings' = settings /\ args' = args
          BY <3>3
        <5>4. settings'["PRODID"] = "" /\ args' # <<>>
          BY <1>3, <5>1, <5>3
        <5>5. /\ "-s" \in given' /\ config'.spid = settings'["SPID"]
              /\ config'.primary = settings'["IAS_PRIMARY_SUBSCRIPTION_KEY"]
              /\ config'.secondary = settings'["IAS_SECONDARY_SUBSCRIPTION_KEY"]
              /\ "-A" \in given'
              /\ "-N" \in given' /\ config'.signer \in {settings'["MRSIGNER"], "garbage"}
              /\ "-V" \in given' /\ settings'["MIN_ISVSVN"] \in Numerals
              /\ config'.minSvn = NumberOf(settings'["MIN_ISVSVN"])
              /\ "-R" \in given'
          BY <5>2, <5>3 DEF Demanded
        <5>6. QED
          BY <5>4, <5>5 DEF Demanded
      <4>6. Routed'
        BY <3>3, <4>3 DEF Routed, NamesProxy, On
      <4>7. StrictRight' /\ LinkableRight' /\ ProductionRight' /\ DebugRight'
        BY <3>3, <4>1, <4>3 DEF StrictRight, LinkableRight, ProductionRight, DebugRight, Plain,
                                ProductionTaken, NoDebugTaken, On, Off
      <4>8. Ending'
        BY <4>4, <4>5, <4>6, <4>7 DEF Ending, Heard
      <4>9. QED
        BY <3>3, <4>1, <4>8 DEF Goes
    <3>6. QED
      BY <3>4, <3>5
  <2>7. QED
    BY <2>5, <2>6
<1>4. QED
  BY <1>2, <1>3

-----------------------------------------------------------------------------
(* From step to step *)

\* What an exit of main is for.
LEMMA ExitsHaveReasons ==
  ASSUME NEW reason, reason \in {"usage", "refused", "environment"}, ExitFor(reason)
  PROVE  pc' = "exited" /\ why' # "none"
BY DEF ExitFor

\* The parser and what follows leave the files, "$@" and the script alone.
LEMMA StartKeeps ==
  ASSUME Start, StartTypes
  PROVE  /\ UNCHANGED <<settings, args, script, edited>>
         /\ pc \notin {"editing", "serving", "exited"} /\ pc' # "editing"
         /\ pc' = "exited" <=> why' # "none"
<1>1. pc # "exited" => why = "none"
  BY DEF StartTypes
<1>2. CASE ParseLone
  BY <1>1, <1>2 DEF ParseLone, Options, ExitFor
<1>3. CASE ParseArgument
  BY <1>1, <1>3 DEF ParseArgument, Options, ExitFor
<1>4. CASE ParseProxy
  BY <1>1, <1>4 DEF ParseProxy, Options, ExitFor
<1>5. CASE ParsePort
  BY <1>1, <1>5 DEF ParsePort, Options
<1>6. CASE ParseStops
  BY <1>1, <1>6 DEF ParseStops, Options, ExitFor
<1>7. CASE CheckPort
  BY <1>1, <1>7 DEF CheckPort, ExitFor
<1>8. CASE CheckRequired
  BY <1>1, <1>8 DEF CheckRequired, ExitFor
<1>9. CASE Connect
  BY <1>1, <1>9 DEF Connect, ExitFor
<1>10. CASE Listen
  BY <1>1, <1>10 DEF Listen, ExitFor
<1>11. QED
  BY <1>2, <1>3, <1>4, <1>5, <1>6, <1>7, <1>8, <1>9, <1>10 DEF Start

\* The configuration keeps its fields.
LEMMA FieldsStay ==
  ASSUME Start, DOMAIN config = Fields
  PROVE  DOMAIN config' = Fields
<1>1. CASE ParseLone
  <2>1. Head(words) \in ArgumentOptions \union LoneOptions
        /\ (config' = config \/ config' = Stored(Head(words), ""))
    BY <1>1 DEF ParseLone
  <2>2. CASE config' = config
    BY <2>2
  <2>3. CASE config' = Stored(Head(words), "")
    <3>1. StoresInto(config', Head(words), "")
      BY <2>1, <2>3, StoredFields
    <3>2. QED
      BY <3>1 DEF StoresInto
  <2>4. QED
    BY <2>1, <2>2, <2>3
<1>2. CASE ParseArgument
  <2>1. Head(words) \in ArgumentOptions \union LoneOptions
        /\ (config' = config \/ config' = Stored(Head(words), words[2]))
    BY <1>2 DEF ParseArgument
  <2>2. CASE config' = config
    BY <2>2
  <2>3. CASE config' = Stored(Head(words), words[2])
    <3>1. StoresInto(config', Head(words), words[2])
      BY <2>1, <2>3, StoredFields
    <3>2. QED
      BY <3>1 DEF StoresInto
  <2>4. QED
    BY <2>1, <2>2, <2>3
<1>3. CASE ParseProxy
  <2>1. config' = config \/ \E p \in GetProxy(Head(words)) : config' = [config EXCEPT !.proxy = p]
    BY <1>3 DEF ParseProxy
  <2>2. QED
    BY <2>1
<1>4. CASE ParsePort \/ ParseStops \/ CheckPort \/ CheckRequired \/ Listen
  BY <1>4 DEF ParsePort, ParseStops, CheckPort, CheckRequired, Listen
<1>5. CASE Connect
  BY <1>5 DEF Connect
<1>6. QED
  BY <1>1, <1>2, <1>3, <1>4, <1>5 DEF Start

\* The operator writes words, and a URL for the proxy's.
LEMMA EditTyped ==
  ASSUME StartTypes, NEW v \in DOMAIN Edits, Edit(v)
  PROVE  settings' \in [DOMAIN Base -> Word] /\ settings'["IAS_PROXY_URL"] \in ProxyUrls \union {""}
<1>1. PICK value \in Edits[v] : settings' = [settings EXCEPT ![v] = value]
  BY DEF Edit
<1>2. v \in DOMAIN Base
  BY StartAssumption
<1>3. value \in Word
  <2>1. value \in UNION {Edits[d] : d \in DOMAIN Edits}
    OBVIOUS
  <2>2. value \in FileWords
    BY <2>1 DEF FileWords
  <2>3. QED
    BY <2>2 DEF Word
<1>4. settings' \in [DOMAIN Base -> Word]
  BY <1>1, <1>2, <1>3 DEF StartTypes
<1>5. settings'["IAS_PROXY_URL"] \in ProxyUrls \union {""}
  <2>1. CASE v = "IAS_PROXY_URL"
    <3>1. value \in ProxyUrls \union {""}
      BY <2>1, WordsAssumption
    <3>2. settings'["IAS_PROXY_URL"] = value
      BY <1>1, <1>2, <2>1 DEF StartTypes
    <3>3. QED
      BY <3>1, <3>2
  <2>2. CASE v # "IAS_PROXY_URL"
    <3>1. settings'["IAS_PROXY_URL"] = settings["IAS_PROXY_URL"]
      BY <1>1, <2>2, WordsAssumption DEF StartTypes
    <3>2. QED
      BY <3>1 DEF StartTypes
  <2>3. QED
    BY <2>1, <2>2
<1>6. QED
  BY <1>4, <1>5

\* The types of files, configuration and reasons are kept.
LEMMA TypesStep == StartTypes /\ Next => StartTypes'
<1> SUFFICES ASSUME StartTypes, Next PROVE StartTypes'
  OBVIOUS
<1>1. CASE Start
  <2>1. UNCHANGED <<settings, args, script>> /\ (pc' = "exited" <=> why' # "none")
    BY <1>1, StartKeeps
  <2>2. DOMAIN config' = Fields
    BY <1>1, FieldsStay DEF StartTypes
  <2>3. QED
    BY <2>1, <2>2 DEF StartTypes
<1>2. CASE RunServer
  <2>1. script' \in BOOLEAN /\ (script' => args' \in Arguments)
    BY <1>2 DEF RunServer
  <2>2. pc = "editing" /\ pc' = "options" /\ UNCHANGED <<settings, config, why>>
    BY <1>2 DEF RunServer
  <2>3. QED
    BY <2>1, <2>2 DEF StartTypes
<1>3. ASSUME NEW v \in DOMAIN Edits, Edit(v) PROVE StartTypes'
  <2>1. settings' \in [DOMAIN Base -> Word] /\ settings'["IAS_PROXY_URL"] \in ProxyUrls \union {""}
    BY <1>3, EditTyped
  <2>2. UNCHANGED <<pc, args, script, config, why>>
    BY <1>3 DEF Edit
  <2>3. QED
    BY <2>1, <2>2 DEF StartTypes
<1>4. QED
  BY <1>1, <1>2, <1>3 DEF Next

\* --proxy and --no-proxy are refused together, whichever comes first.
LEMMA ProxyStep == StartTypes /\ ProxyInv /\ Next => ProxyInv'
<1> SUFFICES ASSUME StartTypes, ProxyInv, Next, pc' # "exited" PROVE ProxyInv'
  BY DEF ProxyInv
<1>1. DOMAIN config = Fields
  BY DEF StartTypes
<1>2. CASE ParseLone
  <2> DEFINE o == Head(words)
  <2>1. /\ pc = "options" /\ o \in LoneOptions /\ given' = given \union {o}
        /\ o # "-x" \/ config.proxy = NoProxy
        /\ config' = Stored(o, "")
    BY <1>2 DEF ParseLone, Options, ExitFor
  <2> HIDE DEF o
  <2>2. StoresInto(config', o, "")
    BY <1>1, <2>1, StoredFields
  <2>3. /\ config'.proxy = config.proxy
        /\ config'.noproxy = IF o = "-x" THEN TRUE ELSE config.noproxy
    BY <2>2 DEF StoresInto
  <2>4. o # "-p"
    BY <2>1 DEF LoneOptions
  <2>5. QED
    BY <2>1, <2>3, <2>4 DEF ProxyInv
<1>3. CASE ParseArgument
  <2> DEFINE o == Head(words)
  <2>1. /\ pc = "options" /\ o \in ArgumentOptions /\ given' = given \union {o}
        /\ config' = Stored(o, words[2])
    BY <1>3 DEF ParseArgument, Options, ExitFor
  <2> HIDE DEF o
  <2>2. StoresInto(config', o, words[2])
    BY <1>1, <2>1, StoredFields
  <2>3. o # "-x" /\ o # "-p"
    BY <2>1 DEF ArgumentOptions
  <2>4. config'.proxy = config.proxy /\ config'.noproxy = config.noproxy
    BY <2>2, <2>3 DEF StoresInto
  <2>5. QED
    BY <2>1, <2>3, <2>4 DEF ProxyInv
<1>4. CASE ParseProxy
  <2>1. /\ pc = "options" /\ given' = given \union {"-p"} /\ ~config.noproxy
        /\ \E p \in GetProxy(Head(words)) : config' = [config EXCEPT !.proxy = p]
    BY <1>4 DEF ParseProxy, Options, ExitFor
  <2>2. "-x" \notin given
    BY <2>1 DEF ProxyInv
  <2>3. PICK p \in GetProxy(Head(words)) : config' = [config EXCEPT !.proxy = p]
    BY <2>1
  <2>4. p = [host |-> "h", port |-> UrlPort(Head(words))]
    BY <2>3 DEF GetProxy
  <2>5. p # NoProxy
    <3>1. p.host = "h" /\ NoProxy.host = ""
      BY <2>4 DEF NoProxy
    <3>2. QED
      BY <3>1
  <2>6. config'.proxy = p /\ config'.noproxy = config.noproxy
    BY <1>1, <2>3 DEF Fields
  <2>7. QED
    BY <2>1, <2>2, <2>5, <2>6 DEF ProxyInv
<1>5. CASE ParsePort \/ ParseStops \/ CheckPort \/ CheckRequired \/ Listen
  <2>1. UNCHANGED <<config, given>> /\ pc # "exited"
    BY <1>5 DEF ParsePort, ParseStops, CheckPort, CheckRequired, Listen, Options, ExitFor
  <2>2. QED
    BY <2>1 DEF ProxyInv
<1>6. CASE Connect
  <2>1. /\ pc = "connection" /\ given' = given
        /\ config' = [config EXCEPT !.primary = NoKey, !.secondary = NoKey]
    BY <1>6 DEF Connect
  <2>2. config'.proxy = config.proxy /\ config'.noproxy = config.noproxy
    BY <1>1, <2>1 DEF Fields
  <2>3. QED
    BY <2>1, <2>2 DEF ProxyInv
<1>7. CASE RunServer \/ \E v \in DOMAIN Edits : Edit(v)
  <2>1. UNCHANGED <<config, given>> /\ pc # "exited"
    BY <1>7 DEF RunServer, Edit
  <2>2. QED
    BY <2>1 DEF ProxyInv
<1>8. QED
  BY <1>2, <1>3, <1>4, <1>5, <1>6, <1>7 DEF Next, Start

\* main goes on from one word to the next.
LEMMA OptionsStep ==
  ASSUME StartInv, ByScript, pc = "options", Start
  PROVE  ScriptInv'
<1>1. /\ DOMAIN config = Fields /\ args \in Arguments /\ Lonely /\ ~Overrides(args)
      /\ Demanding \/ Flagging \/ Ending
  <2>1. args \in Arguments /\ ~Overrides(args)
    BY DEF StartInv, StartTypes, ByScript
  <2>2. QED
    BY <2>1 DEF StartInv, StartTypes, ScriptInv
<1>2. LinesTyped
  BY <1>1, ArgumentsAreLate DEF LinesTyped, StartInv, StartTypes
<1>3. ASSUME Demanding PROVE Goes
  <2>1. Plain /\ Unrouted
    BY <1>3 DEF Demanding
  <2>2. CASE words = FromProxy /\ Demanded(7)
    BY <1>1, <1>2, <2>1, <2>2, RouteGoes DEF StartInv
  <2>3. CASE words = FromProdId /\ Demanded(6)
    BY <1>1, <1>2, <2>1, <2>3, ProdIdGoes
  <2>4. CASE \/ words = FromSpid /\ Demanded(0)
             \/ words = FromPrimary /\ Demanded(1)
             \/ words = FromSecondary /\ Demanded(2)
             \/ words = FromCa /\ Demanded(3)
             \/ words = FromSigner /\ Demanded(4)
             \/ words = FromMinSvn /\ Demanded(5)
    BY <1>1, <1>2, <2>1, <2>4, DemandingGoes
  <2>5. QED
    BY <1>3, <2>2, <2>3, <2>4 DEF Demanding
<1>4. ASSUME Flagging PROVE Goes
  BY <1>1, <1>2, <1>4, FlaggingGoes
<1>5. ASSUME Ending PROVE Goes
  BY <1>1, <1>5, EndingGoes
<1>6. Goes
  BY <1>1, <1>3, <1>4, <1>5
<1>7. pc' # "editing"
  BY StartKeeps DEF StartInv
<1>8. CASE pc' = "exited" /\ Excused'
  BY <1>7, <1>8 DEF ScriptInv
<1>9. CASE pc' = "options" /\ Lonely' /\ (Demanding \/ Flagging \/ Ending)'
  BY <1>7, <1>9 DEF ScriptInv
<1>10. CASE pc' = "required" /\ Lonely' /\ Heard'
  BY <1>7, <1>10 DEF ScriptInv
<1>11. QED
  BY <1>6, <1>8, <1>9, <1>10 DEF Goes

\* What main has heard when it has heard all options that speak for the files.
LEMMA AllDemanded ==
  ASSUME Demanded(7)
  PROVE  /\ "-s" \in given /\ "-A" \in given /\ "-N" \in given /\ "-V" \in given /\ "-R" \in given
         /\ config.spid = settings["SPID"]
         /\ config.primary = settings["IAS_PRIMARY_SUBSCRIPTION_KEY"]
         /\ config.secondary = settings["IAS_SECONDARY_SUBSCRIPTION_KEY"]
         /\ config.signer \in {settings["MRSIGNER"], "garbage"}
         /\ settings["MIN_ISVSVN"] \in Numerals
         /\ config.minSvn = NumberOf(settings["MIN_ISVSVN"])
         /\ settings["PRODID"] = "" => args # <<>>
         /\ settings["PRODID"] # "" => config.prodId = NumberOf(settings["PRODID"])
<1>1. 7 > 0 /\ 7 > 1 /\ 7 > 2 /\ 7 > 3 /\ 7 > 4 /\ 7 > 5 /\ 7 > 6
  OBVIOUS
<1>2. QED
  BY <1>1, Zenon DEF Demanded

\* What is required is what run-server gives.
LEMMA RequiredStep ==
  ASSUME StartInv, ByScript, CheckRequired
  PROVE  ScriptInv'
<1>1. /\ pc = "required" /\ Heard /\ Lonely
      /\ UNCHANGED <<settings, args, script, words, ports, config, given>>
  BY DEF CheckRequired, StartInv, ScriptInv
<1>2. {"-s", "-A", "-N", "-V", "-R"} \subseteq given
  <2>1. Demanded(7)
    BY <1>1 DEF Heard
  <2>2. QED
    BY <2>1, AllDemanded
<1>3. \A alternatives \in Required : given \intersect alternatives # {}
  BY <1>2 DEF Required
<1>4. pc' = "connection"
  BY <1>3 DEF CheckRequired
<1>5. Heard' /\ Lonely'
  <2>1. Heard'
    BY <1>1, HeardSame
  <2>2. Lonely'
    BY <1>1 DEF Lonely
  <2>3. QED
    BY <2>1, <2>2
<1>6. QED
  BY <1>1, <1>4, <1>5 DEF ScriptInv

\* The connection takes the keys and the route; 16 bits of the port.
LEMMA ConnectStep ==
  ASSUME StartInv, ByScript, Connect
  PROVE  ScriptInv'
<1>1. /\ pc = "connection" /\ Heard /\ Lonely /\ DOMAIN config = Fields
      /\ UNCHANGED <<settings, args, script, words, ports, given>>
      /\ config' = [config EXCEPT !.primary = NoKey, !.secondary = NoKey]
      /\ ias' = [primary |-> config.primary, secondary |-> config.secondary,
                 production |-> config.production, route |-> Route]
  BY DEF Connect, StartInv, StartTypes, ScriptInv
<1>2. /\ config'.spid = config.spid /\ config'.signer = config.signer
      /\ config'.minSvn = config.minSvn /\ config'.prodId = config.prodId
      /\ config'.strict = config.strict /\ config'.linkable = config.linkable
      /\ config'.production = config.production /\ config'.allowDebug = config.allowDebug
      /\ config'.agent = config.agent /\ config'.stdio = config.stdio
  BY <1>1 DEF Fields
<1>3. Lonely' /\ Demanded(7) /\ Routed
  <2>1. Lonely'
    BY <1>1, <1>2 DEF Lonely
  <2>2. QED
    BY <1>1, <2>1 DEF Heard
<1>4. HeardButKeys'
  <2>1. /\ config'.spid = settings'["SPID"]
        /\ config'.signer \in {settings'["MRSIGNER"], "garbage"}
        /\ settings'["MIN_ISVSVN"] \in Numerals
        /\ config'.minSvn = NumberOf(settings'["MIN_ISVSVN"])
    BY <1>1, <1>2, <1>3, AllDemanded
  <2>2. /\ settings'["PRODID"] = "" => args' # <<>>
        /\ settings'["PRODID"] # "" => config'.prodId = NumberOf(settings'["PRODID"])
    BY <1>1, <1>2, <1>3, AllDemanded
  <2>3. StrictRight'
    BY <1>1, <1>2 DEF Heard, StrictRight, On
  <2>4. LinkableRight' /\ ProductionRight' /\ DebugRight'
    BY <1>1, <1>2 DEF Heard, LinkableRight, ProductionRight, DebugRight, ProductionTaken,
                      NoDebugTaken, On, Off
  <2>5. QED
    BY <2>1, <2>2, <2>3, <2>4 DEF HeardButKeys
<1>5. Connected'
  <2>1. ias'.primary = settings'["IAS_PRIMARY_SUBSCRIPTION_KEY"]
        /\ ias'.secondary = settings'["IAS_SECONDARY_SUBSCRIPTION_KEY"]
    BY <1>1, <1>3, AllDemanded
  <2>2. On("IAS_DISABLE_PROXY")' => ias'.route.direct = TRUE
    <3>1. On("IAS_DISABLE_PROXY")' => On("IAS_DISABLE_PROXY")
      BY <1>1 DEF On
    <3>2. On("IAS_DISABLE_PROXY") => config.noproxy = TRUE
      BY <1>3 DEF Routed
    <3>3. ias'.route.direct = config.noproxy
      BY <1>1 DEF Route
    <3>4. QED
      BY <3>1, <3>2, <3>3
  <2>3. ASSUME NamesProxy', Range(args') \intersect ProxyUrls = {}
        PROVE  ias'.route.proxy = ProxyReached'
    <3> DEFINE url == settings["IAS_PROXY_URL"]
    <3>1. NamesProxy /\ Range(args) \intersect ProxyUrls = {}
      BY <1>1, <2>3 DEF NamesProxy, On
    <3>2. config.proxy = [host |-> "h", port |-> UrlPort(url)]
      BY <1>3, <3>1 DEF Routed
    <3>3. config.proxy # NoProxy
      <4>1. config.proxy.host = "h" /\ NoProxy.host = ""
        BY <3>2 DEF NoProxy
      <4>2. QED
        BY <4>1
    <3>4. config.noproxy = FALSE
      BY <1>1, <3>3 DEF StartInv, ProxyInv
    <3>5. ias'.route.proxy = [config.proxy EXCEPT !.port = @ % 65536]
      BY <1>1, <3>4 DEF Route
    <3>6. ias'.route.proxy = ProxyReached
      BY <3>2, <3>5 DEF ProxyReached
    <3>7. ProxyReached' = ProxyReached
      BY <1>1 DEF ProxyReached
    <3>8. QED
      BY <3>6, <3>7
  <2>4. QED
    BY <2>1, <2>2, <2>3 DEF Connected
<1>6. CASE pc' = "listen"
  BY <1>1, <1>3, <1>4, <1>5, <1>6 DEF ScriptInv
<1>7. CASE pc' # "listen"
  <2>1. pc' = "exited" /\ config.agent \notin {"", "wget"}
    BY <1>7 DEF Connect, ExitFor
  <2>2. args' # <<>>
    BY <1>1, <2>1 DEF Lonely
  <2>3. Excused'
    BY <2>2 DEF Excused
  <2>4. QED
    BY <1>1, <2>1, <2>3 DEF ScriptInv
<1>8. QED
  BY <1>6, <1>7

\* A server that listens is what it was when it was configured.
LEMMA ListenStep ==
  ASSUME StartInv, ByScript, Listen
  PROVE  ScriptInv'
<1>1. /\ pc = "listen" /\ HeardButKeys /\ Connected /\ Lonely
      /\ UNCHANGED <<settings, args, script, edited, words, ports, config, given, ias>>
  BY DEF Listen, StartInv, ScriptInv
<1>2. CASE pc' = "serving"
  <2>1. Lonely'
    BY <1>1 DEF Lonely
  <2>2. HeardButKeys'
    <3>1. StrictRight'
      BY <1>1 DEF HeardButKeys, StrictRight, On
    <3>2. LinkableRight' /\ ProductionRight' /\ DebugRight'
      BY <1>1 DEF HeardButKeys, LinkableRight, ProductionRight, DebugRight, ProductionTaken,
                  NoDebugTaken, On, Off
    <3>3. QED
      BY <1>1, <3>1, <3>2 DEF HeardButKeys
  <2>3. Connected'
    <3>1. ProxyReached' = ProxyReached
      BY <1>1 DEF ProxyReached
    <3>2. QED
      BY <1>1, <3>1 DEF Connected, NamesProxy, On
  <2>4. QED
    BY <1>1, <1>2, <2>1, <2>2, <2>3 DEF ScriptInv
<1>3. CASE pc' # "serving"
  <2>1. pc' = "exited" /\ why' = "environment"
    BY <1>3 DEF Listen, ExitFor
  <2>2. QED
    BY <1>1, <2>1 DEF ScriptInv, Excused
<1>4. QED
  BY <1>2, <1>3

\* run-server gives main the line from its first option on.
LEMMA RunServerStep ==
  ASSUME StartInv, RunServer
  PROVE  ScriptInv'
<1>1. /\ pc = "editing" /\ pc' = "options" /\ given = {} /\ ports = <<>> /\ Plain
      /\ config.agent = "" /\ config.stdio = FALSE
      /\ UNCHANGED <<settings, args, edited, ports, config, given, ias, why>>
  BY DEF RunServer, StartInv, ScriptInv
<1>2. CASE ~ByScript'
  BY <1>1, <1>2 DEF ScriptInv
<1>3. CASE ByScript'
  <2>1. args \in Arguments /\ words' = CommandLine /\ ~Overrides(args)
    <3>1. script' = TRUE /\ ~Overrides(args)
      BY <1>1, <1>3 DEF ByScript, Overrides
    <3>2. QED
      BY <3>1 DEF RunServer
  <2>2. LinesTyped
    BY <2>1, ArgumentsAreLate DEF LinesTyped, StartInv, StartTypes
  <2>3. words' = FromSpid
    BY <2>1, <2>2, TheWholeLine
  <2>4. FromSpid' = FromSpid
    <3>1. FromPrimary' = FromPrimary
      BY <1>1, LinesStay
    <3>2. QED
      BY <1>1, <3>1 DEF FromSpid, Unquoted
  <2>5. Plain' /\ Unrouted' /\ Lonely'
    <3>1. Plain'
      BY <1>1 DEF Plain
    <3>2. Unrouted' /\ Lonely'
      BY <1>1 DEF Unrouted, Lonely
    <3>3. QED
      BY <3>1, <3>2
  <2>6. Demanded(0)'
    BY DEF Demanded
  <2>7. Demanding'
    BY <2>3, <2>4, <2>5, <2>6 DEF Demanding
  <2>8. QED
    BY <1>1, <2>5, <2>7 DEF ScriptInv
<1>4. QED
  BY <1>2, <1>3

\* The start-up keeps its invariant.
LEMMA StartStepKeeps ==
  ASSUME StartInv, Next
  PROVE  StartInv'
<1>1. StartTypes' /\ ProxyInv'
  BY TypesStep, ProxyStep DEF StartInv
<1>2. CASE Start
  <2>1. /\ UNCHANGED <<script, args>>
        /\ pc \notin {"editing", "serving", "exited"} /\ pc' # "editing"
    BY <1>2, StartKeeps DEF StartInv
  <2>2. ASSUME ~ByScript PROVE ScriptInv'
    <3>1. ~ByScript'
      BY <2>1, <2>2 DEF ByScript, Overrides
    <3>2. QED
      BY <2>1, <3>1 DEF ScriptInv
  <2>3. ASSUME ByScript PROVE ScriptInv'
    <3>1. CASE pc = "options"
      BY <1>2, <2>3, <3>1, OptionsStep
    <3>2. CASE pc # "options"
      <4>1. CheckRequired \/ Connect \/ Listen
        BY <1>2, <3>2 DEF Start, ParseLone, ParseArgument, ParseProxy, ParsePort, ParseStops,
                          CheckPort, Options
      <4>2. QED
        BY <2>3, <4>1, RequiredStep, ConnectStep, ListenStep
    <3>3. QED
      BY <3>1, <3>2
  <2>4. QED
    BY <1>1, <2>2, <2>3 DEF StartInv
<1>3. CASE RunServer
  BY <1>1, <1>3, RunServerStep DEF StartInv
<1>4. ASSUME NEW v \in DOMAIN Edits, Edit(v) PROVE StartInv'
  <2>1. pc = "editing" /\ UNCHANGED <<pc, args, script, words, ports, config, given, ias, why>>
    BY <1>4 DEF Edit
  <2>2. /\ script = FALSE /\ given = {} /\ ports = <<>> /\ Plain /\ config.agent = ""
        /\ config.stdio = FALSE
    BY <2>1 DEF StartInv, ScriptInv
  <2>3. Plain' /\ ~ByScript'
    BY <2>1, <2>2 DEF Plain, ByScript
  <2>4. ScriptInv'
    BY <2>1, <2>2, <2>3 DEF ScriptInv
  <2>5. QED
    BY <1>1, <2>4 DEF StartInv
<1>5. QED
  BY <1>2, <1>3, <1>4 DEF Next

\* What does not touch the start-up keeps its invariant.
LEMMA StartSame == StartInv /\ UNCHANGED vars => StartInv'
<1> SUFFICES ASSUME StartInv, UNCHANGED vars PROVE StartInv'
  OBVIOUS
<1>1. UNCHANGED <<pc, settings, args, script, edited, words, ports, config, given, ias, why>>
  BY DEF vars
<1>2. StartTypes' /\ ProxyInv'
  BY <1>1 DEF StartInv, StartTypes, ProxyInv
<1>3. /\ Plain' = Plain /\ Lonely' = Lonely /\ Heard' = Heard /\ Excused' = Excused
      /\ ByScript' => ByScript
  <2>1. Plain' = Plain /\ Lonely' = Lonely
    BY <1>1 DEF Plain, Lonely
  <2>2. Excused' = Excused
    BY <1>1 DEF Excused, WellFormed
  <2>3. Heard' = Heard
    BY <1>1 DEF Heard, Demanded, Routed, NamesProxy, StrictRight, LinkableRight, ProductionRight,
                DebugRight, ProductionTaken, NoDebugTaken, On, Off
  <2>4. ByScript' => ByScript
    BY <1>1 DEF ByScript, Overrides
  <2>5. QED
    BY <2>1, <2>2, <2>3, <2>4
<1>4. HeardButKeys' = HeardButKeys /\ Connected' = Connected
  <2>1. HeardButKeys' = HeardButKeys
    BY <1>1 DEF HeardButKeys, StrictRight, LinkableRight, ProductionRight, DebugRight,
                ProductionTaken, NoDebugTaken, On, Off
  <2>2. Connected' = Connected
    <3>1. ProxyReached' = ProxyReached
      BY <1>1 DEF ProxyReached
    <3>2. QED
      BY <1>1, <3>1 DEF Connected, NamesProxy, On
  <2>3. QED
    BY <2>1, <2>2
<1>5. Demanding => Demanding'
  <2>1. ASSUME NEW n \in 0 .. 7, Demanded(n) PROVE Demanded(n)'
    BY <1>1, <2>1 DEF Demanded
  <2>2. Plain' = Plain /\ Unrouted' = Unrouted
    BY <1>1 DEF Plain, Unrouted
  <2>3. FromSpid' = FromSpid
    BY <1>1, LinesStay DEF FromSpid, Unquoted
  <2>4. QED
    BY <1>1, <2>1, <2>2, <2>3, LinesStay DEF Demanding
<1>6. Flagging => Flagging'
  <2>1. Demanded(7) => Demanded(7)'
    BY <1>1 DEF Demanded
  <2>2. Routed => Routed'
    BY <1>1 DEF Routed, NamesProxy, On
  <2>3. LinkableRight' = LinkableRight /\ StrictRight' = StrictRight
        /\ ProductionRight' = ProductionRight
    BY <1>1 DEF LinkableRight, StrictRight, ProductionRight, ProductionTaken, On
  <2>4. /\ ProductionTaken' = ProductionTaken /\ NoDebugTaken' = NoDebugTaken
        /\ On("POLICY_STRICT_TRUST")' = On("POLICY_STRICT_TRUST") /\ On("DEBUG")' = On("DEBUG")
    BY <1>1 DEF ProductionTaken, NoDebugTaken, On
  <2>5. QED
    BY <1>1, <2>1, <2>2, <2>3, <2>4, LinesStay DEF Flagging
<1>7. Ending => Ending'
  <2>1. LateWord' = LateWord
    BY <1>1 DEF LateWord, LateWords
  <2>2. QED
    BY <1>1, <1>3, <2>1 DEF Ending
<1>8. ScriptInv'
  BY <1>1, <1>3, <1>4, <1>5, <1>6, <1>7 DEF StartInv, ScriptInv
<1>9. QED
  BY <1>2, <1>8 DEF StartInv

\* A step of the process is a step of its start-up, or none.
LEMMA ProcessStartsUp == ProcessNext => Next \/ UNCHANGED vars
<1>1. Listen => Next
  BY DEF Next, Start
<1>2. QED
  BY <1>1 DEF ProcessNext, StartUp, ListenStdio, ListenSocket, Serve, ServeStdio, Signal

\* The invariant of the start-up holds in the whole process.
THEOREM StartInvariance == ProcessSpec => []StartInv
<1>1. Init => StartInv
  <2> SUFFICES ASSUME Init PROVE StartInv
    OBVIOUS
  <2>1. settings \in [DOMAIN Base -> Word] /\ settings["IAS_PROXY_URL"] \in ProxyUrls \union {""}
    <3>1. settings = Base
      BY DEF Init
    <3>2. ASSUME NEW v \in DOMAIN Base PROVE Base[v] \in Word
      BY DEF Word, FileWords
    <3>3. QED
      BY <3>1, <3>2, WordsAssumption
  <2>2. /\ pc = "editing" /\ script = FALSE /\ why = "none" /\ ports = <<>> /\ given = {}
        /\ config.strict = FALSE /\ config.allowDebug = TRUE /\ config.production = FALSE
        /\ config.linkable = FALSE /\ config.noproxy = FALSE /\ config.stdio = FALSE
        /\ config.proxy = NoProxy /\ config.agent = "" /\ DOMAIN config = Fields
    BY DEF Init, Fields
  <2>3. StartTypes
    BY <2>1, <2>2 DEF StartTypes
  <2>4. ProxyInv
    BY <2>2 DEF ProxyInv
  <2>5. ScriptInv
    <3>1. Plain /\ ~ByScript
      BY <2>2 DEF Plain, ByScript
    <3>2. QED
      BY <2>2, <3>1 DEF ScriptInv
  <2>6. QED
    BY <2>3, <2>4, <2>5 DEF StartInv
<1>2. StartInv /\ [ProcessNext]_processVars => StartInv'
  <2>1. UNCHANGED processVars => UNCHANGED vars
    BY DEF processVars
  <2>2. QED
    BY <2>1, ProcessStartsUp, StartStepKeeps, StartSame
<1>3. ProcessInit => StartInv
  BY <1>1 DEF ProcessInit
<1>4. QED
  BY <1>2, <1>3, PTL DEF ProcessSpec

\* A server that run-server has started demands of an enclave, and asks of IAS,
\* what the files say: no variable, empty or not, takes a neighbour's word, but for
\* an empty PRODID, and no flag is lost but the one behind -X; and it reaches IAS as
\* they say, at 16 bits of the port.  (An option of "$@" that speaks for the files
\* is meant to have the last word.)
THEOREM FilesReachServers == ASSUME NoOverrides PROVE ProcessSpec => []FilesReachTheServer
<1>1. StartInv => FilesReachTheServer
  <2> SUFFICES ASSUME StartInv PROVE FilesReachTheServer
    OBVIOUS
  <2>4. ASSUME script PROVE ByScript
    <3>1. script = TRUE /\ args \in Arguments
      BY <2>4 DEF StartInv, StartTypes
    <3>2. QED
      BY <3>1 DEF NoOverrides, ByScript
  <2>1. DemandsAreTheOperators
    <3> SUFFICES ASSUME pc = "serving", script PROVE DemandsAreTheOperators
      BY DEF DemandsAreTheOperators, Serving
    <3>1. HeardButKeys /\ Connected
      BY <2>4 DEF StartInv, ScriptInv
    <3>2. QED
      BY <3>1 DEF DemandsAreTheOperators, HeardButKeys, Connected, StrictRight
  <2>2. FlagsAreTheOperators
    <3> SUFFICES ASSUME pc = "serving", script PROVE FlagsAreTheOperators
      BY DEF FlagsAreTheOperators, Serving
    <3>1. LinkableRight /\ ProductionRight /\ DebugRight
      BY <2>4 DEF StartInv, ScriptInv, HeardButKeys
    <3>2. config.production = (On("QUERY_IAS_PRODUCTION") /\ ~ProductionTaken)
      BY <3>1 DEF ProductionRight, ProductionTaken, On
    <3>3. config.allowDebug = ~(Off("ALLOW_DEBUG_ENCLAVE") /\ ~NoDebugTaken)
      BY <3>1 DEF DebugRight, NoDebugTaken, ProductionTaken, On, Off
    <3>4. config.linkable = On("LINKABLE")
      BY <3>1 DEF LinkableRight, On
    <3>5. QED
      BY <3>2, <3>3, <3>4 DEF FlagsAreTheOperators
  <2>3. RouteIsTheOperators
    <3>1. Serving => ~({"-p", "-x"} \subseteq given)
      BY DEF Serving, StartInv, ProxyInv
    <3>2. ASSUME pc = "serving", script, Range(args) \intersect ProxyUrls = {}
          PROVE  /\ On("IAS_DISABLE_PROXY") => ias.route.direct
                 /\ ~On("IAS_DISABLE_PROXY") /\ settings["IAS_PROXY_URL"] # "" =>
                      ias.route.proxy = ProxyReached
      <4>1. Connected
        BY <2>4, <3>2 DEF StartInv, ScriptInv
      <4>2. QED
        BY <3>2, <4>1 DEF Connected, NamesProxy
    <3>3. QED
      BY <3>1, <3>2 DEF RouteIsTheOperators, Serving
  <2>5. QED
    BY <2>1, <2>2, <2>3 DEF FilesReachTheServer
<1>2. QED
  BY <1>1, StartInvariance, PTL

\* Files that are complete and well-formed make a server: main refuses nothing,
\* unless -X is the last word and lacks its argument.
THEOREM CompleteFilesAreServed == ProcessSpec => []WellFormedIsServed
<1>1. StartInv => WellFormedIsServed
  <2> SUFFICES ASSUME StartInv, script, WellFormed, args = <<>>, why \in {"usage", "refused"}
               PROVE  words # <<>> /\ Last(words) = "-X"
    BY DEF WellFormedIsServed
  <2>1. pc = "exited"
    BY DEF StartInv, StartTypes
  <2>2. Excused
    <3>1. ~Overrides(args)
      BY DEF Overrides, Range
    <3>2. script = TRUE
      BY DEF StartInv, StartTypes
    <3>3. QED
      BY <2>1, <3>1, <3>2 DEF StartInv, ScriptInv, ByScript
  <2>3. QED
    BY <2>2 DEF Excused
<1>2. QED
  BY <1>1, StartInvariance, PTL

==============================================================================
