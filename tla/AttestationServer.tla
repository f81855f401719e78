-------------------------- MODULE AttestationServer --------------------------
(***************************************************************************)
(* The attestation service provider (service-provider/sp.cpp) in server    *)
(* mode, its one MsgIO object (msgio.cpp), the TCP connections, and the    *)
(* clients that run the attestation of App/App.cpp against it.             *)
(*                                                                         *)
(* The server handles one connection at a time, but its MsgIO object, with *)
(* the buffers rbuffer and wbuffer, lives as long as the process: what one *)
(* session leaves in a buffer is there when the next one starts.           *)
(*                                                                         *)
(* A stream is a sequence of tokens.  A token stands for one field of a    *)
(* message in base 16, for a newline, or for the part of a field that is   *)
(* left when a connection breaks in the middle of it; such a part has an   *)
(* odd or an even number of characters, which is all MsgIO::read tells     *)
(* apart.  Each client attests once: a host that tries again is another    *)
(* member of Clients.                                                      *)
(***************************************************************************)
EXTENDS Integers, Sequences, FiniteSets, TrustPolicy

CONSTANTS
  Clients,        \* the sessions' clients, one connection each
  NoClient,       \* no client: the server is between sessions
  Quotes,         \* the quotes that clients' platforms and enclaves produce
  Policy,         \* the identity policy and trust mode of the server
  MallocMayFail,  \* whether the malloc in MsgIO::read may fail
  Silent          \* the clients whose hosts may stop for good and stay connected

ASSUME ServerAssumption ==
  /\ NoClient \notin Clients
  /\ Quotes \subseteq [status : QuoteStatuses,
                       gidMatches : BOOLEAN,   \* same EPID group as msg1
                       dataMatches : BOOLEAN,  \* report data = SHA256(Ga||Gb||VK)
                       body : [debug : BOOLEAN, prodId : Nat, isvSvn : Nat, mrSigner : Nat]]
  /\ Policy \in [strict : BOOLEAN, allowDebug : BOOLEAN,
                 prodId : Nat, minSvn : Nat, mrSigner : Nat]
  /\ MallocMayFail \in BOOLEAN
  /\ Silent \subseteq Clients

VARIABLES
  pc,        \* where the server is in main, process_msg01 and process_msg3
  peer,      \* the client at the other end of the accepted socket s
  session,   \* whose g_a is in ra_session_t and msg1
  status,    \* msg4.status
  rbuffer,   \* MsgIO::rbuffer of the server
  wbuffer,   \* MsgIO::wbuffer of the server
  conn,      \* each connection, as the server's kernel sees it
  toSP,      \* bytes under way from each client to the server
  toClient,  \* bytes under way from the server to each client
  client,    \* where each client is in do_attestation
  quote,     \* the quote each client's platform produces
  dirty,     \* history: a buffer was not empty when the session began
  cause,     \* history: why the server left the session
  decided    \* history: the status process_msg3 decided for each client

spVars     == <<pc, peer, session, status, rbuffer, wbuffer>>
netVars    == <<conn, toSP, toClient>>
histVars   == <<dirty, cause, decided>>
vars       == <<spVars, netVars, client, quote, histVars>>

InSession == {"read01", "sigrl", "send2", "read3", "report", "send4", "disconnect"}
Stopped   == {"exited", "killed"}
ClientAlive == {"connected", "wait2", "wait4"}
ClientGone  == {"attested", "refused", "failed", "gaveup", "dropped"}
Causes == {"none", "eof", "odd", "malloc", "garbage", "ias", "evidence", "served"}

Fields == {"msg01", "msg2", "msg3", "ciphertext", "newline", "odd", "even"} \union Statuses
Token  == [of : Clients, is : Fields]

-----------------------------------------------------------------------------
(* Messages and lines *)

Tok(c, f) == [of |-> c, is |-> f]
Newline(c) == Tok(c, "newline")

Msg01Line(c) == <<Tok(c, "msg01"), Newline(c)>>
Msg2Line(c)  == <<Tok(c, "msg2"), Newline(c)>>
Msg3Line(c)  == <<Tok(c, "msg3"), Newline(c)>>

HasLine(buf) == \E n \in DOMAIN buf : buf[n].is = "newline"

\* The position of the first newline of buf.
EndOfLine(buf) ==
  CHOOSE n \in DOMAIN buf : /\ buf[n].is = "newline"
                            /\ \A m \in 1 .. n - 1 : buf[m].is # "newline"

\* MUTANT of AfterLine: read erases idx bytes instead of idx + ws.
AfterLineKeepsNewline(buf) == SubSeq(buf, EndOfLine(buf), Len(buf))

FirstLine(buf) == SubSeq(buf, 1, EndOfLine(buf) - 1)
AfterLine(buf) == SubSeq(buf, EndOfLine(buf) + 1, Len(buf))

\* idx % 2 in MsgIO::read: a whole field is a number of bytes, two characters each.
OddLine(buf) ==
  Cardinality({n \in 1 .. EndOfLine(buf) - 1 : buf[n].is = "odd"}) % 2 = 1

\* What is left of s, from either end, when a connection breaks inside it.
Torn(t) == IF t.is = "newline" THEN {} ELSE {Tok(t.of, "odd"), Tok(t.of, "even")}
Heads(s) ==
  {SubSeq(s, 1, n) : n \in 0 .. Len(s)}
    \union UNION {{Append(SubSeq(s, 1, n - 1), t) : t \in Torn(s[n])} : n \in 1 .. Len(s)}
Tails(s) ==
  {SubSeq(s, n, Len(s)) : n \in 1 .. Len(s)}
    \union UNION {{<<t>> \o SubSeq(s, n + 1, Len(s)) : t \in Torn(s[n])} : n \in 1 .. Len(s)}

\* process_msg01 uses the first sizeof(msg01) bytes of the line, whatever the
\* length of the line: it goes on only if these are the msg0||msg1 of some
\* client.  Any other start makes the extended group id non-zero or the point
\* g_a invalid, and ends the session.
Msg01Owner(line) ==
  IF line # <<>> /\ line[1].is = "msg01" THEN line[1].of ELSE NoClient

\* process_msg3 compares g_a with that of msg1 and the MAC over the rest of the
\* line: only the msg3 its own client made for this very session passes.
GenuineMsg3(line) == session # NoClient /\ line = <<Tok(session, "msg3")>>

VerdictFor(c) == Verdict(quote[c].status, quote[c].body, Policy)

Acceptable(c) ==
  /\ quote[c].gidMatches
  /\ quote[c].dataMatches
  /\ VerdictFor(c) \in TrustedStatuses

-----------------------------------------------------------------------------
(* The server *)

CloseAll ==
  conn' = [c \in Clients |-> IF conn[c] = "none" THEN "none" ELSE "closed"]

\* Leave the session: every "goto disconnect" and early return 0.
Leave(why) ==
  /\ pc' = "disconnect"
  /\ cause' = [cause EXCEPT ![peer] = why]

\* MsgIO::server_loop, then the memset of the session at the top of the loop.
Accept(c) ==
  /\ pc = "accept"
  /\ conn[c] = "backlog"
  /\ conn' = [conn EXCEPT ![c] = "accepted"]
  /\ pc' = "read01"
  /\ peer' = c
  /\ session' = NoClient
  /\ dirty' = [dirty EXCEPT ![c] = rbuffer # <<>> \/ wbuffer # <<>>]
  /\ UNCHANGED <<status, rbuffer, wbuffer, toSP, toClient, client, quote, cause, decided>>

\* accept fails: server_loop closes the listening socket and main returns.
AcceptFails ==
  /\ pc = "accept"
  /\ pc' = "exited"
  /\ CloseAll
  /\ UNCHANGED <<peer, session, status, rbuffer, wbuffer, toSP, toClient, client, quote, histVars>>

\* cleanup_and_exit, on SIGHUP, SIGINT, SIGTERM or SIGQUIT.
Signal ==
  /\ pc \notin Stopped
  /\ pc' = "exited"
  /\ CloseAll
  /\ UNCHANGED <<peer, session, status, rbuffer, wbuffer, toSP, toClient, client, quote, histVars>>

\* process_msg01 with its line, up to the request for the revocation list.
UseMsg01(line) ==
  /\ pc = "read01"
  /\ \/ /\ Msg01Owner(line) # NoClient
        /\ pc' = "sigrl"
        /\ session' = Msg01Owner(line)
        /\ UNCHANGED cause
     \/ /\ Msg01Owner(line) = NoClient
        /\ Leave("garbage")
        /\ UNCHANGED session

\* process_msg3 with its line, up to the comparison of the group ids.
UseMsg3(line) ==
  /\ pc = "read3"
  /\ \/ GenuineMsg3(line) /\ pc' = "report" /\ UNCHANGED cause
     \/ ~GenuineMsg3(line) /\ Leave("garbage")
  /\ UNCHANGED session

\* MUTANT of ReadLine: no early return for a line of odd length.
ReadLineTakesOdd ==
  /\ pc \in {"read01", "read3"}
  /\ \E n \in 1 .. Len(toSP[peer]) :
       LET buf == rbuffer \o SubSeq(toSP[peer], 1, n) IN
       /\ toSP' = [toSP EXCEPT ![peer] = SubSeq(@, n + 1, Len(@))]
       /\ \/ /\ ~HasLine(buf)
             /\ rbuffer' = buf
             /\ UNCHANGED <<pc, session, cause>>
          \/ /\ HasLine(buf)
             /\ MallocMayFail
             /\ rbuffer' = buf
             /\ Leave("malloc")
             /\ UNCHANGED session
          \/ /\ HasLine(buf)
             /\ rbuffer' = AfterLine(buf)
             /\ UseMsg01(FirstLine(buf)) \/ UseMsg3(FirstLine(buf))
  /\ UNCHANGED <<peer, status, wbuffer, conn, toClient, client, quote, dirty, decided>>

\* One turn of the loop of MsgIO::read: recv returns the first n tokens of what
\* the peer has sent, these are appended to rbuffer, and if rbuffer now holds a
\* line, the caller goes on with it.  A line of odd length, or one malloc has no
\* room for, ends the session and stays in rbuffer.
ReadLine ==
  /\ pc \in {"read01", "read3"}
  /\ \E n \in 1 .. Len(toSP[peer]) :
       LET buf == rbuffer \o SubSeq(toSP[peer], 1, n) IN
       /\ toSP' = [toSP EXCEPT ![peer] = SubSeq(@, n + 1, Len(@))]
       /\ \/ /\ ~HasLine(buf)
             /\ rbuffer' = buf
             /\ UNCHANGED <<pc, session, cause>>
          \/ /\ HasLine(buf) /\ OddLine(buf)
             /\ rbuffer' = buf
             /\ Leave("odd")
             /\ UNCHANGED session
          \/ /\ HasLine(buf) /\ ~OddLine(buf)
             /\ MallocMayFail
             /\ rbuffer' = buf
             /\ Leave("malloc")
             /\ UNCHANGED session
          \/ /\ HasLine(buf) /\ ~OddLine(buf)
             /\ rbuffer' = AfterLine(buf)
             /\ UseMsg01(FirstLine(buf)) \/ UseMsg3(FirstLine(buf))
  /\ UNCHANGED <<peer, status, wbuffer, conn, toClient, client, quote, dirty, decided>>

\* recv returns 0 or -1: the peer's end is gone and nothing of it is left.
ReadEof ==
  /\ pc \in {"read01", "read3"}
  /\ client[peer] \in ClientGone
  /\ toSP[peer] = <<>>
  /\ Leave("eof")
  /\ UNCHANGED <<peer, session, status, rbuffer, wbuffer, netVars, client, quote, dirty, decided>>

\* get_sigrl, with the key generation before it and the signing after it.
GetSigrl ==
  /\ pc = "sigrl"
  /\ \/ pc' = "send2" /\ UNCHANGED cause
     \/ Leave("ias")
  /\ UNCHANGED <<peer, session, status, rbuffer, wbuffer, netVars, client, quote, dirty, decided>>

\* MUTANT of Send: wbuffer is not cleared when all of it has been sent.
SendKeepsBuffer(out, next) ==
  LET all == wbuffer \o out IN
  /\ wbuffer' = all
  /\ toClient' = IF client[peer] \in ClientGone THEN toClient
                 ELSE [toClient EXCEPT ![peer] = @ \o all]
  /\ pc' = next
  /\ UNCHANGED conn

\* The loop of MsgIO::send over wbuffer \o out, then on to next.  Bytes sent to
\* a client that is gone are lost; once the connection is reset, send fails and
\* keeps in wbuffer what it has not sent, or SIGPIPE, which main does not
\* handle, kills the server.
Send(out, next) ==
  LET all == wbuffer \o out IN
  \/ /\ wbuffer' = <<>>
     /\ toClient' = IF client[peer] \in ClientGone THEN toClient
                    ELSE [toClient EXCEPT ![peer] = @ \o all]
     /\ pc' = next
     /\ UNCHANGED conn
  \/ /\ client[peer] \in ClientGone
     /\ wbuffer' \in Tails(all)
     /\ pc' = next
     /\ UNCHANGED <<toClient, conn>>
  \/ /\ client[peer] \in ClientGone
     /\ pc' = "killed"
     /\ CloseAll
     /\ UNCHANGED <<wbuffer, toClient>>

\* MUTANT of SendMsg2: send_partial where send is needed.
SendMsg2Partial ==
  /\ pc = "send2"
  /\ wbuffer' = wbuffer \o Msg2Line(session)
  /\ pc' = "read3"
  /\ UNCHANGED <<conn, toClient>>
  /\ UNCHANGED <<peer, session, status, rbuffer, toSP, client, quote, histVars>>

SendMsg2 ==
  /\ pc = "send2"
  /\ Send(Msg2Line(session), "read3")
  /\ UNCHANGED <<peer, session, status, rbuffer, toSP, client, quote, histVars>>

\* MUTANT of GetReport: the report data of the quote are not compared.
GetReportIgnoresData ==
  /\ pc = "report"
  /\ \/ /\ quote[session].gidMatches
        /\ status' = VerdictFor(session)
        /\ decided' = [decided EXCEPT ![session] = VerdictFor(session)]
        /\ pc' = "send4"
        /\ UNCHANGED cause
     \/ Leave("ias") /\ UNCHANGED <<status, decided>>
  /\ UNCHANGED <<peer, session, rbuffer, wbuffer, netVars, client, quote, dirty>>

\* The comparison of the group ids, get_attestation_report, the comparison of
\* the report data, and verify_enclave_identity.  IAS may fail to report.
GetReport ==
  /\ pc = "report"
  /\ \/ /\ quote[session].gidMatches /\ quote[session].dataMatches
        /\ status' = VerdictFor(session)
        /\ decided' = [decided EXCEPT ![session] = VerdictFor(session)]
        /\ pc' = "send4"
        /\ UNCHANGED cause
     \/ /\ ~(quote[session].gidMatches /\ quote[session].dataMatches)
        /\ Leave("evidence")
        /\ UNCHANGED <<status, decided>>
     \/ /\ quote[session].gidMatches
        /\ Leave("ias")
        /\ UNCHANGED <<status, decided>>
  /\ UNCHANGED <<peer, session, rbuffer, wbuffer, netVars, client, quote, dirty>>

\* MUTANT of SendMsg4: the ciphertext is sent whatever the status.
SendMsg4Always ==
  /\ pc = "send4"
  /\ cause' = [cause EXCEPT ![peer] = "served"]
  /\ Send(<<Tok(session, status), Tok(session, "ciphertext"), Newline(session)>>, "disconnect")
  /\ UNCHANGED <<peer, session, status, rbuffer, toSP, client, quote, dirty, decided>>

\* The end of process_msg3.  The status and the platform info blob only go to
\* wbuffer; the send of the ciphertext, which follows for a trusted enclave, is
\* what hands them to the socket.
SendMsg4 ==
  /\ pc = "send4"
  /\ cause' = [cause EXCEPT ![peer] = "served"]
  /\ IF status \in TrustedStatuses
     THEN Send(<<Tok(session, status), Tok(session, "ciphertext"), Newline(session)>>,
               "disconnect")
     ELSE /\ wbuffer' = wbuffer \o <<Tok(session, status)>>
          /\ pc' = "disconnect"
          /\ UNCHANGED <<toClient, conn>>
  /\ UNCHANGED <<peer, session, status, rbuffer, toSP, client, quote, dirty, decided>>

\* MUTANT of Disconnect: the socket is not closed.
DisconnectKeepsSocket ==
  /\ pc = "disconnect"
  /\ pc' = "accept"
  /\ peer' = NoClient
  /\ session' = NoClient
  /\ UNCHANGED <<status, rbuffer, wbuffer, netVars, client, quote, histVars>>

\* MsgIO::disconnect.  It closes the socket and touches neither buffer.
Disconnect ==
  /\ pc = "disconnect"
  /\ pc' = "accept"
  /\ conn' = [conn EXCEPT ![peer] = "closed"]
  /\ toSP' = [toSP EXCEPT ![peer] = <<>>]
  /\ peer' = NoClient
  /\ session' = NoClient
  /\ UNCHANGED <<status, rbuffer, wbuffer, toClient, client, quote, histVars>>

-----------------------------------------------------------------------------
(* The clients: do_attestation, as far as the server can tell *)

\* The MsgIO constructor: connect succeeds while the server listens.
ClientConnect(c) ==
  /\ client[c] = "start"
  /\ \/ /\ pc \notin Stopped
        /\ client' = [client EXCEPT ![c] = "connected"]
        /\ conn' = [conn EXCEPT ![c] = "backlog"]
     \/ /\ pc \in Stopped
        /\ client' = [client EXCEPT ![c] = "failed"]
        /\ UNCHANGED conn
  /\ UNCHANGED <<spVars, toSP, toClient, quote, histVars>>

ClientSendMsg01(c) ==
  /\ client[c] = "connected"
  /\ client' = [client EXCEPT ![c] = "wait2"]
  /\ toSP' = [toSP EXCEPT ![c] = @ \o Msg01Line(c)]
  /\ UNCHANGED <<spVars, conn, toClient, quote, histVars>>

\* A line has come.  sgx_ra_proc_msg2 takes it only if it starts with the msg2
\* made for the g_a of this client.  (An empty line leaves msg2 NULL, and the
\* client dies when it reads sig_rl_size through it: it has failed as well.)
ClientReadMsg2(c) ==
  /\ client[c] = "wait2"
  /\ HasLine(toClient[c])
  /\ toClient' = [toClient EXCEPT ![c] = AfterLine(@)]
  /\ \/ /\ toClient[c][1] = Tok(c, "msg2")
        /\ client' = [client EXCEPT ![c] = "wait4"]
        /\ toSP' = [toSP EXCEPT ![c] = @ \o Msg3Line(c)]
     \/ /\ toClient[c][1] # Tok(c, "msg2")
        /\ client' = [client EXCEPT ![c] = "failed"]
        /\ UNCHANGED toSP
  /\ UNCHANGED <<spVars, conn, quote, histVars>>

\* msg4 has come: its status decides whether the key hashes are fetched.
ClientReadMsg4(c) ==
  /\ client[c] = "wait4"
  /\ HasLine(toClient[c])
  /\ toClient' = [toClient EXCEPT ![c] = AfterLine(@)]
  /\ client' = [client EXCEPT ![c] =
       IF toClient[c][1].is \in TrustedStatuses THEN "attested" ELSE "refused"]
  /\ UNCHANGED <<spVars, conn, toSP, quote, histVars>>

\* recv returns 0 or -1 while the client waits for msg2 or msg4: exit(1).
ClientReadEof(c) ==
  /\ client[c] \in {"wait2", "wait4"}
  /\ conn[c] = "closed"
  /\ ~HasLine(toClient[c])
  /\ client' = [client EXCEPT ![c] = "failed"]
  /\ toClient' = [toClient EXCEPT ![c] = <<>>]
  /\ UNCHANGED <<spVars, conn, toSP, quote, histVars>>

\* The enclave cannot make msg1, or msg3 from a genuine msg2: the client closes
\* the context and its socket and returns 1.
ClientGivesUp(c) ==
  /\ \/ client[c] = "connected" /\ UNCHANGED toClient
     \/ /\ client[c] = "wait2"
        /\ HasLine(toClient[c])
        /\ toClient' = [toClient EXCEPT ![c] = <<>>]
  /\ client' = [client EXCEPT ![c] = "gaveup"]
  /\ UNCHANGED <<spVars, conn, toSP, quote, histVars>>

\* The client's host or the network fails: the server receives no more than a
\* head of what the client has sent.
ClientDrop(c) ==
  /\ client[c] \in ClientAlive
  /\ client' = [client EXCEPT ![c] = "dropped"]
  /\ \E s \in Heads(toSP[c]) : toSP' = [toSP EXCEPT ![c] = s]
  /\ toClient' = [toClient EXCEPT ![c] = <<>>]
  /\ UNCHANGED <<spVars, conn, quote, histVars>>

-----------------------------------------------------------------------------
Init ==
  /\ pc = "accept"
  /\ peer = NoClient
  /\ session = NoClient
  /\ status = "NotTrusted"
  /\ rbuffer = <<>>
  /\ wbuffer = <<>>
  /\ conn = [c \in Clients |-> "none"]
  /\ toSP = [c \in Clients |-> <<>>]
  /\ toClient = [c \in Clients |-> <<>>]
  /\ client = [c \in Clients |-> "start"]
  /\ quote \in [Clients -> Quotes]
  /\ dirty = [c \in Clients |-> FALSE]
  /\ cause = [c \in Clients |-> "none"]
  /\ decided = [c \in Clients |-> "none"]

\* The steps of the session the server is in.
Serve ==
  \/ ReadLine \/ ReadEof \/ GetSigrl \/ SendMsg2
  \/ GetReport \/ SendMsg4 \/ Disconnect

\* The steps a client takes as its program runs.
ClientStep(c) ==
  \/ ClientConnect(c) \/ ClientSendMsg01(c) \/ ClientReadMsg2(c)
  \/ ClientReadMsg4(c) \/ ClientReadEof(c)

Next ==
  \/ Serve
  \/ AcceptFails
  \/ Signal
  \/ \E c \in Clients : Accept(c) \/ ClientStep(c) \/ ClientGivesUp(c) \/ ClientDrop(c)

Spec == Init /\ [][Next]_vars

\* The server's process runs, IAS answers or its agent gives up, and so do the
\* clients that are not silent.  recv has no timeout, so a silent client ends
\* only if its host does.
Fairness ==
  /\ WF_vars(Serve)
  /\ WF_vars(\E c \in Clients : Accept(c))
  /\ \A c \in Clients \ Silent : WF_vars(ClientStep(c))

FairSpec == Spec /\ Fairness

-----------------------------------------------------------------------------
(* Properties *)

\* MsgIO's buffers and the streams hold whole fields and parts of fields, and the
\* server is at one of its steps.
TypeOK ==
  /\ pc \in {"accept"} \union InSession \union Stopped
  /\ peer \in Clients \union {NoClient}
  /\ session \in Clients \union {NoClient}
  /\ status \in Statuses
  /\ rbuffer \in Seq(Token)
  /\ wbuffer \in Seq(Token)
  /\ conn \in [Clients -> {"none", "backlog", "accepted", "closed"}]
  /\ toSP \in [Clients -> Seq(Token)]
  /\ toClient \in [Clients -> Seq(Token)]
  /\ client \in [Clients -> {"start"} \union ClientAlive \union ClientGone]
  /\ quote \in [Clients -> Quotes]
  /\ dirty \in [Clients -> BOOLEAN]
  /\ cause \in [Clients -> Causes]
  /\ decided \in [Clients -> Statuses \union {"none"}]

\* A client that ends up with the shared keys has been accepted by the policy:
\* whatever was left in the buffers by other sessions, do_attestation only
\* reports "Enclave TRUSTED" to a client whose own quote, with its group id and
\* report data matching, earns a trusted status.
AttestedIsAcceptable ==
  \A c \in Clients : client[c] = "attested" => Acceptable(c) /\ decided[c] = VerdictFor(c)

\* process_msg3 only makes a ciphertext for a client the policy accepts; neither
\* what is under way nor what stays in wbuffer holds one made for anybody else.
SecretsOnlyForAcceptable ==
  /\ \A c \in Clients : \A n \in DOMAIN toClient[c] :
       toClient[c][n].is = "ciphertext" => Acceptable(toClient[c][n].of)
  /\ \A n \in DOMAIN wbuffer : wbuffer[n].is = "ciphertext" => Acceptable(wbuffer[n].of)

\* What one session may leave behind: a client that broke off, a failed malloc,
\* or a status that process_msg3 put in wbuffer and never sent.
BrokeOff == \E c \in Clients : client[c] = "dropped" \/ cause[c] = "malloc"
StatusLeft == \E c \in Clients : decided[c] \in Statuses \ TrustedStatuses

\* Between sessions MsgIO has something in rbuffer only after a session broke
\* off, and in wbuffer only then or after an unfavourable status.
ResidueHasACulprit ==
  pc = "accept" => /\ rbuffer # <<>> => BrokeOff
                   /\ wbuffer # <<>> => BrokeOff \/ StatusLeft

\* For the same reasons only, a client is sent bytes made for another one.
ForeignBytesHaveACulprit ==
  (\E c \in Clients : \E n \in DOMAIN toClient[c] : toClient[c][n].of # c)
     => BrokeOff \/ StatusLeft

\* A session that starts with clean buffers, and whose client stays, is never
\* refused because of how its messages were framed.
CleanSessionsFrameRight ==
  \A c \in Clients :
    ~dirty[c] /\ cause[c] \in {"eof", "odd", "garbage"} =>
      client[c] \in {"gaveup", "dropped"}

\* The line at the head of rbuffer is odd.
Wedged == HasLine(rbuffer) /\ OddLine(rbuffer)

\* MsgIO::read never consumes an odd line: once there is one at the head of
\* rbuffer it is there for good, and no session, neither the present one nor a
\* later one, gets past its next message.
WedgedServesNobody ==
  [][Wedged => Wedged' /\ (pc' \in {"sigrl", "report"} => UNCHANGED pc)]_vars

\* protocol.h:24 has the status transferred from server to client as message 4:
\* a session the server completes does not end in a protocol error for the client.
StatusReachesClient == \A c \in Clients : cause[c] = "served" => client[c] # "failed"

\* The server is in a session with a silent client and never leaves it.
HeldBySilent == [](peer \in Silent)

\* Every accepted session ends, unless its own client falls silent in it: the
\* server and its client never wait for each other, whatever earlier sessions
\* left in the buffers, and when the server dies the kernel closes the connection.
SessionsEnd ==
  \A c \in Clients : conn[c] = "accepted" ~> (conn[c] = "closed" \/ HeldBySilent)

\* Every client that connects gets a status, gives up itself, or sees the
\* connection end, and only a silent client that holds the server for good, as
\* MsgIO::read waits for it without a timeout, can keep it from that.
ClientsFinish ==
  \A c \in Clients \ Silent :
    client[c] = "connected" ~> (client[c] \in ClientGone \/ HeldBySilent)

-----------------------------------------------------------------------------
(* The server and its clients keep the contract of remote attestation *)

ClientStage(c) ==
  CASE client[c] \in {"start", "connected", "wait2"} -> "unproven"
    [] client[c] = "wait4" -> "answered"
    [] client[c] = "attested" -> "trusted"
    [] OTHER -> "lost"

Contract == INSTANCE AttestationContract WITH
  worthy  <- {c \in Clients : Acceptable(c)},
  stage   <- [c \in Clients |-> ClientStage(c)],
  granted <- {c \in Clients : decided[c] \in TrustedStatuses}

\* do_attestation and process_msg3 together implement AttestationContract.
KeepsContract == Contract!Spec
==============================================================================
