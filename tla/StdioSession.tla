----------------------------- MODULE StdioSession -----------------------------
(***************************************************************************)
(* The server and its clients in the mode of option -z, over stdin and     *)
(* stdout (service-provider/msgio.cpp): server_loop always returns 1 and   *)
(* disconnect does nothing, read_msg takes whole lines, and what is sent   *)
(* without a newline stays in stdout's buffer.                             *)
(*                                                                         *)
(* The relay between the two is external.  It is a pair of pipes, with one *)
(* client, whose end is the end of the server's input; or an operator, who *)
(* copies from one terminal and pastes into the other, one client after    *)
(* another.  On a terminal the C library shows what stdout holds when it   *)
(* reads from stdin, and pasting ends the line.  Bounds: lines fit in      *)
(* read_msg's buffer, and pipes are not broken.                            *)
(***************************************************************************)
EXTENDS Sequences

VARIABLES
  relay,    \* none when the server is not in this mode, a pipe, or an operator
  server,   \* which message the server reads
  held,     \* what its stdout holds, no newline yet
  up,       \* the lines on their way to the server
  eof,      \* whether the server's input has ended
  client,   \* what the client reads, or done when there is none
  down,     \* the lines on their way to the client, each a sequence of parts
  got,      \* the parts of the line the client took for msg4
  verdict,  \* history: the verdict of the client's session
  failed    \* history: the client's session has failed

vars == <<relay, server, held, up, eof, client, down, got, verdict, failed>>

-----------------------------------------------------------------------------
(* The server *)

\* MUTANT of Take: a line of odd length stays, as it does on a socket.
TakeNotOdd == up # <<>> /\ up' = IF Head(up) = "odd" THEN up ELSE Tail(up)

\* MsgIO::read, that is read_msg: a line is taken, whatever it holds.
Take == up # <<>> /\ up' = Tail(up)

\* send_msg prints the last part, ends the line and flushes.
SendLine(part) == down' = Append(down, Append(held, part)) /\ held' = <<>>

\* process_msg01, which may fail for many reasons, and does for what is no msg1.
ProcessMsg01 ==
  /\ server = "msg1"
  /\ Take
  /\ \/ Head(up) = "msg1" /\ SendLine("msg2") /\ server' = "msg3" /\ UNCHANGED failed
     \/ failed' = (failed \/ Head(up) = "msg1") /\ UNCHANGED <<server, held, down>>
  /\ UNCHANGED <<relay, eof, client, got, verdict>>

\* MUTANT of SendMsg4: the ciphertext is not shown.
SendMsg4Unshown ==
  /\ down' = Append(down, held \o <<"trusted", "cipher">>)
  /\ held' = <<>>

\* Status, platform info blob and ciphertext are one msg4.  But between the second
\* and the third the ciphertext is shown, on stdout, as a text with a newline.
SendMsg4 ==
  /\ down' = down \o <<held \o <<"trusted", "text">>, <<"cipher">>>>
  /\ held' = <<>>

\* process_msg3: the status of a refused client is a part without a newline.
ProcessMsg3 ==
  /\ server = "msg3"
  /\ Take
  /\ server' = "msg1"
  /\ \/ Head(up) = "msg3" /\ verdict' = "trusted" /\ SendMsg4 /\ UNCHANGED failed
     \/ Head(up) = "msg3" /\ verdict' = "refused" /\ held' = Append(held, "refused")
        /\ UNCHANGED <<down, failed>>
     \/ failed' = TRUE /\ UNCHANGED <<held, down, verdict>>
  /\ UNCHANGED <<relay, eof, client, got>>

\* At the end of the input read_msg returns 0, the session is over, and server_loop
\* begins the next one.
EndOfInput ==
  /\ eof /\ up = <<>>
  /\ server' = "msg1"
  /\ UNCHANGED <<relay, held, up, eof, client, down, got, verdict, failed>>

-----------------------------------------------------------------------------
(* The client, do_attestation without a server's name *)

\* Its first line.  The operator starts it when the server waits for one.
Start ==
  /\ client = "done" /\ ~eof
  /\ server = "msg1" /\ held = <<>> /\ up \in {<<>>, <<"odd">>}
  /\ up' = Append(up, "msg1")
  /\ client' = "msg2"
  /\ down' = <<>> /\ got' = <<>> /\ verdict' = "none" /\ failed' = FALSE
  /\ UNCHANGED <<relay, server, held, eof>>

\* The client ends, and with it the pipe.
Ends == client' = "done" /\ eof' = (relay = "pipe")

\* sgx_ra_proc_msg2 takes msg2, if that is what the line holds, or does not.
ReadMsg2 ==
  /\ client = "msg2" /\ down # <<>>
  /\ down' = Tail(down)
  /\ \/ Head(down) = <<"msg2">> /\ client' = "msg4" /\ up' = Append(up, "msg3") /\ UNCHANGED eof
     \/ Ends /\ UNCHANGED up
  /\ UNCHANGED <<relay, server, held, got, verdict, failed>>

\* The line is decoded as far as it is hexadecimal, if memory can be had for it.  A
\* trusted client shows its ciphertext on stdout, too, where an operator does not
\* take it for a message.
ReadMsg4 ==
  /\ client = "msg4" /\ down # <<>>
  /\ down' = Tail(down)
  /\ got' \in {Head(down), <<>>}
  /\ Ends
  /\ up' = IF relay = "pipe" /\ got' # <<>> /\ Head(got') = "trusted" THEN Append(up, "text") ELSE up
  /\ UNCHANGED <<relay, server, held, verdict, failed>>

-----------------------------------------------------------------------------
(* The operator *)

\* What the terminal shows is pasted, which ends the line.
Paste ==
  /\ relay = "operator" /\ held # <<>>
  /\ down' = Append(down, held) /\ held' = <<>>
  /\ UNCHANGED <<relay, server, up, eof, client, got, verdict, failed>>

\* Something else is pasted, of odd length; or the client's input is ended.
Slip ==
  /\ relay = "operator" /\ up = <<>>
  /\ up' = <<"odd">>
  /\ UNCHANGED <<relay, server, held, eof, client, down, got, verdict, failed>>

GiveUp ==
  /\ relay = "operator" /\ client # "done"
  /\ Ends
  /\ UNCHANGED <<relay, server, held, up, down, got, verdict, failed>>

-----------------------------------------------------------------------------
Init ==
  /\ relay = "none" /\ server = "msg1" /\ held = <<>> /\ up = <<>> /\ eof = FALSE
  /\ client = "done" /\ down = <<>> /\ got = <<>> /\ verdict = "none" /\ failed = FALSE

\* new MsgIO(): no socket, and nothing that could fail.
Construct ==
  /\ relay' \in {"pipe", "operator"}
  /\ UNCHANGED <<server, held, up, eof, client, down, got, verdict, failed>>

Server == ProcessMsg01 \/ ProcessMsg3 \/ EndOfInput
Client == ReadMsg2 \/ ReadMsg4

Next == relay # "none" /\ (Server \/ Client \/ Start \/ Paste \/ Slip \/ GiveUp)

-----------------------------------------------------------------------------
(* Properties *)

\* What a client takes for its msg4 begins with its own verdict, and never holds
\* the ciphertext, which another printf of process_msg3 has cut off; and a client
\* that is refused over pipes gets nothing at all, and never ends.
OnlyTheStatus ==
  /\ got # <<>> => Head(got) = verdict /\ \A n \in DOMAIN got : got[n] # "cipher"
  /\ relay = "pipe" /\ verdict = "refused" => client = "msg4"

\* Server and client read in turn, and neither can hang up on the other.  Yet a
\* client waits for ever only when its session failed, as disconnect does nothing
\* here, or when it was refused over a pipe, as its status is not flushed; a line
\* of odd length costs its session, but not, as on a socket, all later ones.
ClientsFinish ==
  client # "done" ~> client = "done" \/ failed \/ (relay = "pipe" /\ verdict = "refused")
===============================================================================
