----------------------- MODULE AttestationServerProofs -----------------------
(***************************************************************************)
(* Proofs about AttestationServer, for every set of clients, every set of  *)
(* quotes, every policy, and whether or not malloc may fail.               *)
(*                                                                         *)
(* A property of every token of a buffer is written as membership of the   *)
(* buffer in Seq(S), S the set of the tokens that have it.  The lemmas     *)
(* about sequences then serve for types and for invariants alike.          *)
(***************************************************************************)
EXTENDS AttestationServer, FiniteSetTheorems, SequenceTheorems, WellFoundedInduction, TLAPS

-----------------------------------------------------------------------------
(* The inductive invariant *)

\* The client has not made msg3.
Before3 == {"start", "connected", "wait2"}

\* The server has accepted c's connection at some time.
Met(c) == conn[c] \in {"accepted", "closed"}

\* The server is past the send of msg2, in a session that is not over.
Past2 == {"read3", "report", "send4", "disconnect"}

\* What can be in the streams.
InToken     == {t \in Token : /\ t.is = "msg3" => client[t.of] \notin Before3}
RToken      == {t \in InToken : Met(t.of)}
OutToken    == {t \in Token : t.is = "ciphertext" => Acceptable(t.of)}
WToken      == {t \in OutToken : Met(t.of) /\ (conn[t.of] = "accepted" => pc \in Past2)}

StreamsInv ==
  /\ rbuffer \in Seq(RToken)
  /\ wbuffer \in Seq(WToken)
  /\ \A c \in Clients : toSP[c] \in Seq({t \in InToken : t.of = c})
  /\ \A c \in Clients : toClient[c] \in Seq(OutToken)

\* The server's socket is the one accepted connection.
ConnInv ==
  /\ pc \in InSession => peer \in Clients /\ conn[peer] = "accepted"
  /\ \A c \in Clients : conn[c] = "accepted" => pc \in InSession /\ c = peer
  /\ pc \in {"sigrl", "send2", "read3", "report", "send4"} => session \in Clients
  /\ session \in Clients => Met(session)
  /\ \A c \in Clients : client[c] = "start" => conn[c] = "none"
  /\ \A c \in Clients :
       ~Met(c) => toClient[c] = <<>> /\ client[c] \notin {"wait4", "attested"}

\* A msg2 that its own client will take came alone, and its server waits for the msg3.
Msg2Inv ==
  /\ pc \in {"read01", "sigrl", "send2"} => toClient[peer] = <<>>
  /\ pc \in {"read3", "report", "send4"} /\ client[peer] \in Before3 => toClient[peer] # <<>>
  /\ \A c \in Clients :
       /\ client[c] \in Before3
       /\ toClient[c] # <<>>
       /\ toClient[c][1] = Tok(c, "msg2")
       => /\ toClient[c] = Msg2Line(c)
          /\ conn[c] = "accepted" =>
               session = c /\ wbuffer = <<>> /\ pc \in {"read3", "disconnect"}

\* Only its own session's verdict reaches a client that waits for msg4.
Msg4Inv ==
  \A c \in Clients : client[c] = "wait4" =>
    /\ conn[c] = "accepted" =>
         /\ session = c /\ pc \in Past2
         /\ pc # "disconnect" => wbuffer = <<>> /\ toClient[c] = <<>>
    /\ toClient[c] # <<>> => Acceptable(c) /\ decided[c] = VerdictFor(c)

\* Where a verdict comes from.
VerdictInv ==
  /\ pc \in {"report", "send4"} => client[session] \notin Before3
  /\ pc = "send4" =>
       /\ quote[session].gidMatches /\ quote[session].dataMatches
       /\ status = VerdictFor(session) /\ decided[session] = VerdictFor(session)
  /\ \A c \in Clients :
       \/ decided[c] = "none"
       \/ decided[c] = VerdictFor(c) /\ quote[c].gidMatches /\ quote[c].dataMatches
  /\ AttestedIsAcceptable

IInv == TypeOK /\ StreamsInv /\ ConnInv /\ Msg2Inv /\ Msg4Inv /\ VerdictInv

-----------------------------------------------------------------------------
(* Sequences *)

\* A non-empty set of naturals has a least element.
LEMMA LeastElement ==
  ASSUME NEW T, T \subseteq Nat, T # {}
  PROVE  \E n \in T : \A m \in T : n <= m
<1>1. IsWellFoundedOn(OpToRel(<,Nat), Nat)
  BY NatLessThanWellFounded
<1>2. PICK n \in T : \A m \in T : ~(<<m, n>> \in OpToRel(<,Nat))
  BY <1>1, WFMin, Zenon
<1>3. \A m \in T : ~(m < n)
  BY <1>2 DEF OpToRel
<1>4. QED
  BY <1>3

\* Where a buffer holds a line, MsgIO::read finds the first end of a line.
LEMMA EndOfLineProperties ==
  ASSUME NEW S, NEW buf \in Seq(S), HasLine(buf)
  PROVE  /\ EndOfLine(buf) \in 1 .. Len(buf)
         /\ buf[EndOfLine(buf)].is = "newline"
         /\ \A m \in 1 .. EndOfLine(buf) - 1 : buf[m].is # "newline"
<1> DEFINE T == {n \in DOMAIN buf : buf[n].is = "newline"}
<1>1. DOMAIN buf = 1 .. Len(buf) /\ Len(buf) \in Nat
  BY LenProperties
<1>2. T \subseteq Nat /\ T # {}
  BY <1>1 DEF HasLine
<1>3. PICK n \in T : \A m \in T : n <= m
  BY <1>2, LeastElement
<1>4. n \in DOMAIN buf /\ buf[n].is = "newline" /\ \A m \in 1 .. n - 1 : buf[m].is # "newline"
  BY <1>1, <1>3
<1>5. /\ EndOfLine(buf) \in DOMAIN buf
      /\ buf[EndOfLine(buf)].is = "newline"
      /\ \A m \in 1 .. EndOfLine(buf) - 1 : buf[m].is # "newline"
  BY <1>4 DEF EndOfLine
<1>6. QED
  BY <1>1, <1>5

\* A part of a sequence is a sequence over the same set.
LEMMA PartOfSeq ==
  ASSUME NEW S, NEW s \in Seq(S), NEW m \in Int, NEW n \in Int, 1 <= m, n <= Len(s)
  PROVE  /\ SubSeq(s, m, n) \in Seq(S)
         /\ Len(SubSeq(s, m, n)) = IF m <= n THEN n - m + 1 ELSE 0
         /\ \A i \in 1 .. n - m + 1 : SubSeq(s, m, n)[i] = s[m + i - 1]
<1>1. \A i \in m .. n : s[i] \in S
  BY ElementOfSeq
<1>2. QED
  BY <1>1, SubSeqProperties

\* Appending to a non-empty sequence keeps its first element.
LEMMA ConcatHead ==
  ASSUME NEW S, NEW s \in Seq(S), NEW t \in Seq(S), s # <<>>
  PROVE  (s \o t)[1] = s[1] /\ s \o t # <<>>
<1>1. Len(s) \in Nat \ {0} /\ Len(t) \in Nat
  BY EmptySeq, LenProperties
<1>2. 1 \in 1 .. Len(s) + Len(t) /\ 1 <= Len(s)
  BY <1>1
<1>3. (s \o t)[1] = s[1] /\ Len(s \o t) = Len(s) + Len(t)
  BY <1>2, ConcatProperties
<1>4. QED
  BY <1>1, <1>3

\* The rest of a buffer after its first line.
LEMMA AfterLineProperties ==
  ASSUME NEW S, NEW buf \in Seq(S), HasLine(buf)
  PROVE  AfterLine(buf) \in Seq(S)
<1>1. Len(buf) \in Nat
  BY LenProperties
<1>2. QED
  BY <1>1, EndOfLineProperties, PartOfSeq DEF AfterLine

\* A line of one token is the first token of the buffer.
LEMMA LineOfOne ==
  ASSUME NEW S, NEW buf \in Seq(S), HasLine(buf), NEW t, FirstLine(buf) = <<t>>
  PROVE  1 \in 1 .. Len(buf) /\ buf[1] = t
<1> DEFINE e == EndOfLine(buf)
           l == SubSeq(buf, 1, e - 1)
<1>1. Len(buf) \in Nat /\ e \in 1 .. Len(buf) /\ e \in Int
  BY LenProperties, EndOfLineProperties
<1>2. /\ Len(l) = IF 1 <= e - 1 THEN e - 1 ELSE 0
      /\ \A i \in 1 .. e - 1 : l[i] = buf[i]
  <2>1. 1 \in Int /\ e - 1 \in Int /\ e - 1 <= Len(buf)
    BY <1>1
  <2>2. QED
    BY <1>1, <2>1, PartOfSeq
<1>3. l = <<t>>
  BY DEF FirstLine
<1> HIDE DEF e, l
<1>4. Len(l) = 1 /\ l[1] = t
  BY <1>3
<1>5. e \in Int /\ 1 = IF 1 <= e - 1 THEN e - 1 ELSE 0
  BY <1>1, <1>2, <1>4, Zenon
<1>6. e = 2
  BY <1>5
<1>7. l[1] = buf[1]
  BY <1>2, <1>6
<1>8. QED
  BY <1>1, <1>4, <1>6, <1>7

\* The first token of a line is the first token of the buffer.
LEMMA HeadOfLine ==
  ASSUME NEW S, NEW buf \in Seq(S), HasLine(buf), FirstLine(buf) # <<>>
  PROVE  1 \in 1 .. Len(buf) /\ FirstLine(buf)[1] = buf[1]
<1> DEFINE e == EndOfLine(buf)
<1>1. Len(buf) \in Nat /\ e \in 1 .. Len(buf)
  BY LenProperties, EndOfLineProperties
<1>2. CASE e = 1
  <2>1. FirstLine(buf) = <<>>
    BY <1>2, SubSeqEmpty DEF FirstLine
  <2>2. QED
    BY <2>1
<1>3. CASE e > 1
  <2>1. 1 \in Int /\ e - 1 \in Int /\ e - 1 <= Len(buf) /\ 1 \in 1 .. e - 1
    BY <1>1, <1>3
  <2>2. SubSeq(buf, 1, e - 1)[1] = buf[1]
    BY <1>1, <2>1, PartOfSeq
  <2>3. QED
    BY <1>1, <2>2 DEF FirstLine
<1>4. QED
  BY <1>1, <1>2, <1>3

-----------------------------------------------------------------------------
(* Tokens from one state to the next *)

\* Quotes never change, a client never takes msg3 back, and a connection that
\* was accepted stays accepted or closed.
Forward ==
  /\ UNCHANGED quote
  /\ \A c \in Clients : client[c] \notin Before3 => client'[c] \notin Before3
  /\ \A c \in Clients : conn[c] \in {"accepted", "closed"} => conn'[c] \in {"accepted", "closed"}

\* The sets of tokens only grow.
LEMMA TokensGrow ==
  ASSUME Forward
  PROVE  /\ InToken \subseteq InToken' /\ RToken \subseteq RToken' /\ OutToken \subseteq OutToken'
         /\ \A c \in Clients : {t \in InToken : t.of = c} \subseteq {t \in InToken' : t.of = c}
<1>1. \A t \in Token : t.of \in Clients
  BY DEF Token
<1>2. InToken \subseteq InToken'
  BY <1>1 DEF InToken, Forward
<1>3. RToken \subseteq RToken'
  BY <1>1, <1>2 DEF RToken, Met, Forward, InToken
<1>4. \A c \in Clients : Acceptable(c) <=> Acceptable(c)'
  BY DEF Acceptable, VerdictFor, Forward
<1>5. OutToken \subseteq OutToken'
  BY <1>1, <1>4 DEF OutToken
<1>6. QED
  BY <1>2, <1>3, <1>5

\* What is in wbuffer may stay there as long as no connection is accepted and no
\* session begins anew.
LEMMA WTokensGrow ==
  ASSUME Forward,
         \A c \in Clients : Met(c) /\ (conn[c] = "accepted" => pc \in Past2)
                              => (conn'[c] = "accepted" => pc' \in Past2)
  PROVE  WToken \subseteq WToken'
<1>1. \A t \in Token : t.of \in Clients
  BY DEF Token
<1>2. OutToken \subseteq OutToken'
  BY TokensGrow
<1>3. QED
  BY <1>1, <1>2 DEF WToken, Met, Forward, OutToken

\* StreamsInv types the streams, now and in the next state.
LEMMA StreamTypes ==
  ASSUME StreamsInv
  PROVE  /\ rbuffer \in Seq(Token) /\ wbuffer \in Seq(Token)
         /\ \A c \in Clients : toSP[c] \in Seq(Token) /\ toClient[c] \in Seq(Token)
<1>1. /\ RToken \subseteq Token /\ WToken \subseteq Token /\ OutToken \subseteq Token
      /\ \A c \in Clients : {t \in InToken : t.of = c} \subseteq Token
  BY DEF RToken, WToken, OutToken, InToken
<1>2. QED
  BY <1>1, SeqMonotonic DEF StreamsInv

\* The same of the primed streams, for the steps of Send.
LEMMA StreamTypesNext ==
  ASSUME StreamsInv'
  PROVE  /\ rbuffer' \in Seq(Token) /\ wbuffer' \in Seq(Token)
         /\ \A c \in Clients : toSP'[c] \in Seq(Token) /\ toClient'[c] \in Seq(Token)
<1>1. /\ RToken' \subseteq Token /\ WToken' \subseteq Token /\ OutToken' \subseteq Token
      /\ \A c \in Clients : {t \in InToken' : t.of = c} \subseteq Token
  BY DEF RToken, WToken, OutToken, InToken
<1>2. QED
  BY <1>1, SeqMonotonic DEF StreamsInv

\* The streams as they are remain legal where the sets of tokens grow.
LEMMA StreamsKept ==
  ASSUME StreamsInv, Forward
  PROVE  /\ rbuffer \in Seq(RToken')
         /\ wbuffer \in Seq(OutToken')
         /\ WToken \subseteq WToken' => wbuffer \in Seq(WToken')
         /\ \A c \in Clients : /\ toSP[c] \in Seq({t \in InToken' : t.of = c})
                               /\ toClient[c] \in Seq(OutToken')
<1>1. WToken \subseteq OutToken'
  BY TokensGrow DEF WToken
<1>2. QED
  BY <1>1, TokensGrow, SeqMonotonic DEF StreamsInv

-----------------------------------------------------------------------------
(* Each step preserves the invariant *)

\* The server stops: every connection closes and nothing else happens.
LEMMA StopStep ==
  ASSUME IInv, pc' \in Stopped, CloseAll, cause' \in [Clients -> Causes],
         UNCHANGED <<peer, session, status, rbuffer, wbuffer, toSP, toClient, client, quote, dirty, decided>>
  PROVE  IInv'
<1> USE DEF IInv
<1>0. pc' \in {"exited", "killed"}
  BY DEF Stopped
<1>1. conn' \in [Clients -> {"none", "closed"}] /\ \A c \in Clients : conn'[c] = "none" <=> conn[c] = "none"
  BY <1>0 DEF CloseAll, TypeOK
<1>2. Forward /\ WToken \subseteq WToken'
  <2>1. Forward
    BY <1>0, <1>1 DEF Forward
  <2>2. QED
    BY <2>1, <1>1, WTokensGrow
<1>3. StreamsInv'
  BY <1>0, <1>2, StreamsKept DEF StreamsInv
<1>4. TypeOK'
  BY <1>0, <1>1 DEF TypeOK, Stopped
<1>5. ConnInv'
  BY <1>0, <1>1 DEF ConnInv, InSession, Met, TypeOK
<1>6. Msg2Inv' /\ Msg4Inv'
  BY <1>0, <1>1 DEF Msg2Inv, Msg4Inv, VerdictFor, Acceptable
<1>7. VerdictInv'
  BY <1>0 DEF VerdictInv, VerdictFor, Acceptable, AttestedIsAcceptable
<1>8. QED
  BY <1>3, <1>4, <1>5, <1>6, <1>7

\* A signal to the server, or a failing accept, ends the session it finds: cleanup_and_exit
\* and server_loop's return keep the invariant.
LEMMA SignalStep ==
  ASSUME IInv, Signal \/ AcceptFails
  PROVE  IInv'
<1>1. /\ pc' = "exited" /\ CloseAll /\ cause' \in [Clients -> Causes]
      /\ UNCHANGED <<peer, session, status, rbuffer, wbuffer, toSP, toClient, client, quote, dirty, decided>>
  BY DEF Signal, AcceptFails, histVars, IInv, TypeOK
<1>2. QED
  BY <1>1, StopStep DEF Stopped

\* The initial states satisfy the invariant.
LEMMA InitStep ==
  ASSUME Init
  PROVE  IInv
<1>1. /\ <<>> \in Seq(RToken) /\ <<>> \in Seq(WToken) /\ <<>> \in Seq(OutToken) /\ <<>> \in Seq(Token)
      /\ \A c \in Clients : <<>> \in Seq({t \in InToken : t.of = c})
  BY EmptySeq
<1>2. TypeOK
  BY <1>1 DEF Init, TypeOK, Statuses, Causes
<1>3. StreamsInv
  BY <1>1 DEF Init, StreamsInv
<1>4. ConnInv
  BY ServerAssumption DEF Init, ConnInv, InSession
<1>5. Msg2Inv /\ Msg4Inv /\ VerdictInv
  BY DEF Init, Msg2Inv, Msg4Inv, VerdictInv, AttestedIsAcceptable, Before3
<1>6. QED
  BY <1>2, <1>3, <1>4, <1>5 DEF IInv

\* A step that changes nothing keeps the invariant.
LEMMA StutterStep ==
  ASSUME IInv, UNCHANGED vars
  PROVE  IInv'
<1> USE DEF IInv, vars, spVars, netVars, histVars
<1>1. TypeOK'
  BY DEF TypeOK
<1>2. StreamsInv'
  <2>1. UNCHANGED <<InToken, RToken, OutToken, WToken>>
    BY DEF InToken, RToken, OutToken, WToken, Met, Acceptable, VerdictFor
  <2>2. QED
    BY <2>1 DEF StreamsInv
<1>3. ConnInv'
  BY DEF ConnInv, Met
<1>4. Msg2Inv'
  BY DEF Msg2Inv
<1>5. Msg4Inv'
  BY DEF Msg4Inv, Acceptable, VerdictFor
<1>6. VerdictInv'
  BY DEF VerdictInv, AttestedIsAcceptable, Acceptable, VerdictFor
<1>7. QED
  BY <1>1, <1>2, <1>3, <1>4, <1>5, <1>6

\* MsgIO::server_loop takes a client from the backlog.
LEMMA AcceptStep ==
  ASSUME IInv, NEW c \in Clients, Accept(c)
  PROVE  IInv'
<1> USE DEF IInv, Accept
<1>1. c # NoClient /\ \A d \in Clients : conn[d] # "accepted"
  BY ServerAssumption DEF ConnInv, InSession
<1>2. conn' = [conn EXCEPT ![c] = "accepted"] /\ conn \in [Clients -> {"none", "backlog", "accepted", "closed"}]
  BY DEF TypeOK
<1>3. Forward /\ WToken \subseteq WToken'
  <2>1. Forward
    BY <1>2 DEF Forward
  <2>2. \A d \in Clients : Met(d) => d # c /\ conn'[d] = conn[d]
    BY <1>2 DEF Met
  <2>3. QED
    BY <1>1, <2>1, <2>2, WTokensGrow DEF Met
<1>4. StreamsInv'
  BY <1>3, StreamsKept DEF StreamsInv
<1>5. TypeOK'
  BY <1>2 DEF TypeOK, InSession
<1>6. ConnInv'
  BY <1>1, <1>2, ServerAssumption DEF ConnInv, InSession, Met
<1>7. toClient[c] = <<>> /\ client[c] # "wait4"
  BY DEF ConnInv, Met
<1>8. Msg2Inv'
  BY <1>2, <1>7 DEF Msg2Inv
<1>9. Msg4Inv'
  BY <1>1, <1>2, <1>7 DEF Msg4Inv, VerdictFor, Acceptable
<1>10. VerdictInv'
  BY DEF VerdictInv, VerdictFor, Acceptable, AttestedIsAcceptable
<1>11. QED
  BY <1>4, <1>5, <1>6, <1>8, <1>9, <1>10

\* MsgIO::disconnect closes the socket and leaves both buffers as they are.
LEMMA DisconnectStep ==
  ASSUME IInv, Disconnect
  PROVE  IInv'
<1> USE DEF IInv, Disconnect, histVars
<1>1. peer \in Clients /\ conn[peer] = "accepted" /\ \A d \in Clients : conn[d] = "accepted" => d = peer
  BY DEF ConnInv, InSession
<1>2. conn' = [conn EXCEPT ![peer] = "closed"] /\ conn \in [Clients -> {"none", "backlog", "accepted", "closed"}]
  BY DEF TypeOK
<1>3. \A d \in Clients : /\ conn'[d] # "accepted"
                         /\ conn'[d] = "closed" <=> Met(d)
                         /\ conn'[d] = "none" <=> conn[d] = "none"
  BY <1>1, <1>2 DEF Met
<1>4. Forward /\ WToken \subseteq WToken'
  <2>1. Forward
    BY <1>3 DEF Forward, Met
  <2>2. QED
    BY <1>3, <2>1, WTokensGrow
<1>5. StreamsInv'
  <2>1. \A d \in Clients : toSP'[d] = <<>> \/ toSP'[d] = toSP[d]
    BY DEF TypeOK
  <2>2. \A d \in Clients : <<>> \in Seq({t \in InToken' : t.of = d})
    BY EmptySeq
  <2>3. QED
    BY <1>4, <2>1, <2>2, StreamsKept DEF StreamsInv
<1>6. TypeOK'
  BY <1>1, <1>2, <1>5, StreamTypesNext, EmptySeq DEF TypeOK
<1>7. ConnInv'
  BY <1>3, ServerAssumption DEF ConnInv, InSession, Met
<1>8. Msg2Inv' /\ Msg4Inv'
  BY <1>3 DEF Msg2Inv, Msg4Inv, VerdictFor, Acceptable
<1>9. VerdictInv'
  BY DEF VerdictInv, VerdictFor, Acceptable, AttestedIsAcceptable
<1>10. QED
  BY <1>5, <1>6, <1>7, <1>8, <1>9

\* The server's steps that touch neither a stream nor a connection.
LEMMA QuietStep ==
  ASSUME IInv, ReadEof \/ GetSigrl \/ GetReport
  PROVE  IInv'
<1> USE DEF IInv
<1>1. /\ UNCHANGED <<peer, session, rbuffer, wbuffer, conn, toSP, toClient, client, quote, dirty>>
      /\ peer \in Clients /\ conn[peer] = "accepted"
      /\ \A d \in Clients : conn[d] = "accepted" => d = peer
  BY DEF ReadEof, GetSigrl, GetReport, netVars, ConnInv, InSession
<1>2. \/ pc' = "disconnect" /\ UNCHANGED <<status, decided>>
      \/ pc = "sigrl" /\ pc' = "send2" /\ UNCHANGED <<status, decided>>
      \/ /\ pc = "report" /\ pc' = "send4"
         /\ quote[session].gidMatches /\ quote[session].dataMatches
         /\ status' = VerdictFor(session)
         /\ decided' = [decided EXCEPT ![session] = VerdictFor(session)]
  BY DEF ReadEof, GetSigrl, GetReport, Leave
<1>3. cause' = cause \/ \E why \in Causes : cause' = [cause EXCEPT ![peer] = why]
  BY DEF ReadEof, GetSigrl, GetReport, Leave, Causes
<1>4. \A d \in Clients : VerdictFor(d) \in Statuses /\ VerdictFor(d)' = VerdictFor(d)
  BY <1>1 DEF VerdictFor, Verdict, ReportStatus, Statuses
<1>5. pc \in {"sigrl", "send2", "read3", "report", "send4"} => session \in Clients
  BY DEF ConnInv
<1>6. \A d \in Clients : decided'[d] = decided[d] \/ decided'[d] = VerdictFor(d)
  BY <1>2, <1>5 DEF TypeOK
<1>7. Forward /\ WToken \subseteq WToken'
  <2>1. Forward
    BY <1>1 DEF Forward
  <2>2. pc \in Past2 => pc' \in Past2
    BY <1>2 DEF Past2
  <2>3. QED
    BY <1>1, <2>1, <2>2, WTokensGrow
<1>8. StreamsInv'
  BY <1>1, <1>7, StreamsKept DEF StreamsInv
<1>9. TypeOK'
  <2>1. pc' \in InSession
    BY <1>2 DEF InSession
  <2>2. cause' \in [Clients -> Causes]
    BY <1>1, <1>3 DEF TypeOK
  <2>3. status' \in Statuses /\ decided' \in [Clients -> Statuses \union {"none"}]
    BY <1>2, <1>4, <1>5 DEF TypeOK
  <2>4. QED
    BY <1>1, <2>1, <2>2, <2>3 DEF TypeOK
<1>10. ConnInv'
  BY <1>1, <1>2, <1>5 DEF ConnInv, InSession, Met
<1>11. Msg2Inv'
  <2>1. pc = "report" => client[session] \notin Before3
    BY DEF VerdictInv
  <2>2. QED
    BY <1>1, <1>2, <2>1 DEF Msg2Inv
<1>12. Msg4Inv'
  <2> SUFFICES ASSUME NEW d \in Clients, client'[d] = "wait4"
               PROVE  /\ conn'[d] = "accepted" =>
                           /\ session' = d /\ pc' \in Past2
                           /\ pc' # "disconnect" => wbuffer' = <<>> /\ toClient'[d] = <<>>
                      /\ toClient'[d] # <<>> => Acceptable(d)' /\ decided'[d] = VerdictFor(d)'
    BY DEF Msg4Inv
  <2>1. /\ conn[d] = "accepted" =>
             /\ session = d /\ pc \in Past2
             /\ pc # "disconnect" => wbuffer = <<>> /\ toClient[d] = <<>>
        /\ toClient[d] # <<>> => Acceptable(d) /\ decided[d] = VerdictFor(d)
    BY <1>1 DEF Msg4Inv
  <2>2. pc \in Past2 => \/ pc # "disconnect" /\ pc' \in Past2
                        \/ pc' = "disconnect"
    BY <1>2 DEF Past2
  <2>3. conn'[d] = "accepted" =>
             /\ session' = d /\ pc' \in Past2
             /\ pc' # "disconnect" => wbuffer' = <<>> /\ toClient'[d] = <<>>
    BY <1>1, <2>1, <2>2 DEF Past2
  <2>4. toClient'[d] # <<>> => Acceptable(d)' /\ decided'[d] = VerdictFor(d)'
    BY <1>1, <1>4, <1>6, <2>1 DEF Acceptable
  <2>5. QED
    BY <2>3, <2>4
<1>13. VerdictInv'
  <2>1. pc' = "send4" => /\ session \in Clients /\ client[session] \notin Before3
                         /\ decided'[session] = VerdictFor(session)
                         /\ status' = VerdictFor(session)
                         /\ quote[session].gidMatches /\ quote[session].dataMatches
    BY <1>2, <1>5 DEF TypeOK, VerdictInv
  <2>2. pc' # "report"
    BY <1>2
  <2>3. \A d \in Clients :
           \/ decided'[d] = "none"
           \/ decided'[d] = VerdictFor(d) /\ quote[d].gidMatches /\ quote[d].dataMatches
    BY <1>2, <1>5 DEF TypeOK, VerdictInv
  <2>4. \A d \in Clients : client[d] = "attested" => Acceptable(d) /\ decided'[d] = VerdictFor(d)
    BY <1>6 DEF VerdictInv, AttestedIsAcceptable
  <2>5. \A d \in Clients : Acceptable(d)' <=> Acceptable(d)
    BY <1>1, <1>4 DEF Acceptable
  <2>6. AttestedIsAcceptable'
    BY <1>1, <1>4, <2>4, <2>5 DEF AttestedIsAcceptable
  <2>7. QED
    BY <1>1, <1>4, <2>1, <2>2, <2>3, <2>6 DEF VerdictInv
<1>14. QED
  BY <1>8, <1>9, <1>10, <1>11, <1>12, <1>13

\* What a broken connection leaves of a stream consists of tokens that are in
\* it, or parts of such.
LEMMA HeadsOfSeq ==
  ASSUME NEW S, NEW s \in Seq(S), NEW h \in Heads(s),
         \A t \in S : Torn(t) \subseteq S
  PROVE  h \in Seq(S)
<1>1. Len(s) \in Nat
  BY LenProperties
<1>2. CASE h \in {SubSeq(s, 1, n) : n \in 0 .. Len(s)}
  BY <1>1, <1>2, PartOfSeq
<1>3. CASE h \in UNION {{Append(SubSeq(s, 1, n - 1), t) : t \in Torn(s[n])} : n \in 1 .. Len(s)}
  <2>1. PICK n \in 1 .. Len(s) : h \in {Append(SubSeq(s, 1, n - 1), t) : t \in Torn(s[n])}
    BY <1>3
  <2>2. PICK t \in Torn(s[n]) : h = Append(SubSeq(s, 1, n - 1), t)
    BY <2>1
  <2>3. t \in S
    BY <2>2, ElementOfSeq
  <2>4. SubSeq(s, 1, n - 1) \in Seq(S)
    BY <1>1, PartOfSeq
  <2>5. QED
    BY <2>2, <2>3, <2>4, AppendProperties
<1>4. QED
  BY <1>2, <1>3 DEF Heads

\* The same of what a torn line leaves behind.
LEMMA TailsOfSeq ==
  ASSUME NEW S, NEW s \in Seq(S), NEW h \in Tails(s),
         \A t \in S : Torn(t) \subseteq S
  PROVE  h \in Seq(S)
<1>1. Len(s) \in Nat
  BY LenProperties
<1>2. CASE h \in {SubSeq(s, n, Len(s)) : n \in 1 .. Len(s)}
  <2>1. PICK n \in 1 .. Len(s) : h = SubSeq(s, n, Len(s))
    BY <1>2
  <2>2. SubSeq(s, n, Len(s)) \in Seq(S)
    BY <1>1, PartOfSeq
  <2>3. QED
    BY <2>1, <2>2
<1>3. CASE h \in UNION {{<<t>> \o SubSeq(s, n + 1, Len(s)) : t \in Torn(s[n])} : n \in 1 .. Len(s)}
  <2>1. PICK n \in 1 .. Len(s) : h \in {<<t>> \o SubSeq(s, n + 1, Len(s)) : t \in Torn(s[n])}
    BY <1>3
  <2>2. PICK t \in Torn(s[n]) : h = <<t>> \o SubSeq(s, n + 1, Len(s))
    BY <2>1
  <2>3. t \in S
    BY <2>2, ElementOfSeq
  <2>4. <<t>> \in Seq(S)
    BY <2>3
  <2>5. SubSeq(s, n + 1, Len(s)) \in Seq(S)
    BY <1>1, PartOfSeq
  <2>6. QED
    BY <2>2, <2>4, <2>5, ConcatProperties
<1>4. QED
  BY <1>2, <1>3 DEF Tails

\* A part of a field is no message.
LEMMA TornTokens ==
  /\ \A c \in Clients : \A t \in {u \in InToken : u.of = c} : Torn(t) \subseteq {u \in InToken : u.of = c}
  /\ \A t \in WToken : Torn(t) \subseteq WToken
BY DEF Torn, Tok, InToken, WToken, OutToken, Token, Fields

-----------------------------------------------------------------------------
(* The clients' steps *)

\* What the steps of a client that make no message have in common.
LEMMA ClientQuietStep ==
  ASSUME IInv, NEW c \in Clients,
         ClientConnect(c) \/ ClientReadMsg4(c) \/ ClientReadEof(c) \/ ClientGivesUp(c) \/ ClientDrop(c)
  PROVE  IInv'
<1> USE DEF IInv
<1>1. UNCHANGED <<pc, peer, session, status, rbuffer, wbuffer, quote, dirty, cause, decided>>
  BY DEF ClientConnect, ClientReadMsg4, ClientReadEof, ClientGivesUp, ClientDrop, spVars, histVars
<1>2. \E s \in {"connected", "failed", "attested", "refused", "gaveup", "dropped"} :
         client' = [client EXCEPT ![c] = s]
  BY DEF ClientConnect, ClientReadMsg4, ClientReadEof, ClientGivesUp, ClientDrop
<1>3. /\ client' \in [Clients -> {"start"} \union ClientAlive \union ClientGone]
      /\ \A d \in Clients \ {c} : client'[d] = client[d]
      /\ client'[c] \in {"connected", "failed", "attested", "refused", "gaveup", "dropped"}
  BY <1>2 DEF TypeOK, ClientAlive, ClientGone
<1>4. conn' = conn \/ (conn' = [conn EXCEPT ![c] = "backlog"] /\ client[c] = "start")
  BY DEF ClientConnect, ClientReadMsg4, ClientReadEof, ClientGivesUp, ClientDrop
<1>5. /\ conn' \in [Clients -> {"none", "backlog", "accepted", "closed"}]
      /\ \A d \in Clients : (Met(d)' <=> Met(d)) /\ (conn'[d] = "accepted" <=> conn[d] = "accepted")
  <2>1. conn \in [Clients -> {"none", "backlog", "accepted", "closed"}]
    BY DEF TypeOK
  <2>2. client[c] = "start" => conn[c] = "none"
    BY DEF ConnInv
  <2>3. CASE conn' = conn
    BY <2>1, <2>3 DEF Met
  <2>4. CASE conn' = [conn EXCEPT ![c] = "backlog"] /\ client[c] = "start"
    BY <2>1, <2>2, <2>4 DEF Met
  <2>5. QED
    BY <1>4, <2>3, <2>4
<1>6. /\ client'[c] = "connected" => client[c] = "start"
      /\ client'[c] = "attested" => client[c] = "wait4" /\ HasLine(toClient[c])
      /\ client[c] # "start" => client'[c] \notin Before3
  <2>1. client \in [Clients -> {"start"} \union ClientAlive \union ClientGone]
    BY DEF TypeOK
  <2>2. CASE ClientConnect(c)
    BY <2>1, <2>2 DEF ClientConnect
  <2>3. CASE ClientReadMsg4(c)
    BY <2>1, <2>3 DEF ClientReadMsg4, Before3
  <2>4. CASE ClientReadEof(c) \/ ClientGivesUp(c) \/ ClientDrop(c)
    BY <2>1, <2>4 DEF ClientReadEof, ClientGivesUp, ClientDrop, Before3
  <2>5. QED
    BY <2>2, <2>3, <2>4
<1>7. Forward /\ WToken \subseteq WToken'
  <2>1. Forward
    BY <1>1, <1>3, <1>5, <1>6 DEF Forward, Met, Before3
  <2>2. QED
    BY <1>1, <1>5, <2>1, WTokensGrow
<1>8. toSP' \in [Clients -> Seq(Token)] /\ \A d \in Clients : toSP'[d] \in Seq({t \in InToken : t.of = d})
  <2>1. CASE toSP' = toSP
    BY <2>1 DEF TypeOK, StreamsInv
  <2>2. CASE ClientDrop(c)
    <3>1. PICK h \in Heads(toSP[c]) : toSP' = [toSP EXCEPT ![c] = h]
      BY <2>2 DEF ClientDrop
    <3>2. h \in Seq({t \in InToken : t.of = c})
      BY HeadsOfSeq, TornTokens DEF StreamsInv
    <3>3. h \in Seq(Token)
      BY <3>2, SeqMonotonic DEF InToken
    <3>4. QED
      BY <3>1, <3>2, <3>3 DEF TypeOK, StreamsInv
  <2>3. QED
    BY <2>1, <2>2 DEF ClientConnect, ClientReadMsg4, ClientReadEof, ClientGivesUp
<1>9. /\ toClient' \in [Clients -> Seq(Token)]
      /\ \A d \in Clients : toClient'[d] \in Seq(OutToken)
      /\ \A d \in Clients \ {c} : toClient'[d] = toClient[d]
      /\ toClient[c] = <<>> => toClient'[c] = <<>>
  <2>1. CASE toClient' = toClient
    BY <2>1 DEF TypeOK, StreamsInv
  <2>2. CASE toClient' = [toClient EXCEPT ![c] = <<>>]
    BY <2>2, EmptySeq DEF TypeOK, StreamsInv
  <2>3. CASE HasLine(toClient[c]) /\ toClient' = [toClient EXCEPT ![c] = AfterLine(@)]
    <3>1. AfterLine(toClient[c]) \in Seq(Token) /\ AfterLine(toClient[c]) \in Seq(OutToken)
      BY <2>3, AfterLineProperties DEF TypeOK, StreamsInv
    <3>2. toClient[c] # <<>>
      BY <2>3 DEF HasLine
    <3>3. QED
      BY <2>3, <3>1, <3>2 DEF TypeOK, StreamsInv
  <2>4. QED
    BY <2>1, <2>2, <2>3 DEF ClientConnect, ClientReadMsg4, ClientReadEof, ClientGivesUp, ClientDrop
<1>10. StreamsInv'
  <2>1. \A d \in Clients : /\ toSP'[d] \in Seq({t \in InToken' : t.of = d})
                           /\ toClient'[d] \in Seq(OutToken')
    BY <1>7, <1>8, <1>9, TokensGrow, SeqMonotonic
  <2>2. QED
    BY <1>1, <1>7, <2>1, StreamsKept DEF StreamsInv
<1>11. TypeOK'
  BY <1>1, <1>3, <1>5, <1>8, <1>9 DEF TypeOK
<1>12. ConnInv'
  <2>1. client'[c] # "start" /\ client'[c] # "wait4"
    BY <1>3
  <2>2. client'[c] = "attested" => Met(c)
    BY <1>6 DEF ConnInv
  <2>3. \A d \in Clients \ {c} : conn'[d] = conn[d]
    BY <1>4 DEF TypeOK
  <2>4. QED
    BY <1>1, <1>3, <1>5, <1>9, <2>1, <2>2, <2>3 DEF ConnInv
<1>13. Msg2Inv'
  <2>1. client'[c] \in Before3 => toClient'[c] = <<>> /\ conn[c] # "accepted"
    BY <1>3, <1>6, <1>9 DEF ConnInv, Met
  <2>2. pc \in InSession => conn[peer] = "accepted" /\ peer \in Clients
    BY DEF ConnInv
  <2>3. \A d \in Clients \ {c} : conn'[d] = conn[d]
    BY <1>4 DEF TypeOK
  <2>4. pc' \in {"read01", "sigrl", "send2"} => toClient'[peer'] = <<>>
    BY <1>1, <1>9, <2>2 DEF Msg2Inv, InSession
  <2>5. pc' \in {"read3", "report", "send4"} /\ client'[peer'] \in Before3 => toClient'[peer'] # <<>>
    BY <1>1, <1>3, <1>9, <2>1, <2>2 DEF Msg2Inv, InSession
  <2>6. \A d \in Clients : client'[d] \in Before3 /\ toClient'[d] # <<>> => d # c
    BY <2>1
  <2>7. QED
    BY <1>1, <1>3, <1>9, <2>3, <2>4, <2>5, <2>6 DEF Msg2Inv
<1>14. Msg4Inv'
  <2>1. \A d \in Clients : client'[d] = "wait4" => d # c
    BY <1>3
  <2>2. QED
    BY <1>1, <1>3, <1>4, <1>9, <2>1 DEF Msg4Inv, Acceptable, VerdictFor, TypeOK
<1>15. VerdictInv'
  <2>1. pc \in {"report", "send4"} => session \in Clients
    BY DEF ConnInv
  <2>2. client'[c] = "attested" => Acceptable(c) /\ decided[c] = VerdictFor(c)
    BY <1>6 DEF Msg4Inv, HasLine
  <2>3. AttestedIsAcceptable'
    BY <1>1, <1>3, <2>2 DEF VerdictInv, AttestedIsAcceptable, Acceptable, VerdictFor
  <2>4. \A d \in Clients : client[d] \notin Before3 => client'[d] \notin Before3
    BY <1>7 DEF Forward
  <2>5. QED
    BY <1>1, <2>1, <2>3, <2>4 DEF VerdictInv, VerdictFor
<1>16. QED
  BY <1>10, <1>11, <1>12, <1>13, <1>14, <1>15

\* do_attestation sends msg0 and msg1.
LEMMA ClientSendMsg01Step ==
  ASSUME IInv, NEW c \in Clients, ClientSendMsg01(c)
  PROVE  IInv'
<1> USE DEF IInv
<1>1. /\ UNCHANGED <<pc, peer, session, status, rbuffer, wbuffer, quote, dirty, cause, decided, conn, toClient>>
      /\ client[c] = "connected"
      /\ client' = [client EXCEPT ![c] = "wait2"]
      /\ toSP' = [toSP EXCEPT ![c] = @ \o Msg01Line(c)]
  BY DEF ClientSendMsg01, spVars, histVars
<1>2. /\ client' \in [Clients -> {"start"} \union ClientAlive \union ClientGone]
      /\ \A d \in Clients \ {c} : client'[d] = client[d]
      /\ client'[c] = "wait2"
  BY <1>1 DEF TypeOK, ClientAlive
<1>3. Forward /\ WToken \subseteq WToken'
  <2>1. Forward
    BY <1>1, <1>2 DEF Forward, Before3
  <2>2. QED
    BY <1>1, <2>1, WTokensGrow
<1>4. /\ toSP' \in [Clients -> Seq(Token)]
      /\ \A d \in Clients : toSP'[d] \in Seq({t \in InToken : t.of = d})
  <2>1. Tok(c, "msg01") \in {t \in InToken : t.of = c} /\ Newline(c) \in {t \in InToken : t.of = c}
    BY DEF Tok, Newline, InToken, Token, Fields
  <2>2. Msg01Line(c) \in Seq({t \in InToken : t.of = c})
    BY <2>1 DEF Msg01Line
  <2>3. toSP[c] \o Msg01Line(c) \in Seq({t \in InToken : t.of = c})
    BY <2>2, ConcatProperties DEF StreamsInv
  <2>4. toSP[c] \o Msg01Line(c) \in Seq(Token)
    BY <2>3, SeqMonotonic DEF InToken
  <2>5. QED
    BY <1>1, <2>3, <2>4 DEF TypeOK, StreamsInv
<1>5. StreamsInv'
  <2>1. \A d \in Clients : toSP'[d] \in Seq({t \in InToken' : t.of = d})
    BY <1>3, <1>4, TokensGrow, SeqMonotonic
  <2>2. QED
    BY <1>1, <1>3, <2>1, StreamsKept DEF StreamsInv
<1>6. TypeOK'
  BY <1>1, <1>2, <1>4 DEF TypeOK
<1>7. ConnInv'
  BY <1>1, <1>2 DEF ConnInv, Met
<1>8. Msg2Inv'
  <2>1. pc \in InSession => peer \in Clients
    BY DEF ConnInv
  <2>2. \A d \in Clients : client'[d] \in Before3 <=> client[d] \in Before3
    BY <1>1, <1>2 DEF Before3
  <2>3. QED
    BY <1>1, <2>1, <2>2 DEF Msg2Inv, InSession
<1>9. Msg4Inv'
  BY <1>1, <1>2 DEF Msg4Inv, Acceptable, VerdictFor
<1>10. VerdictInv'
  <2>1. pc \in {"report", "send4"} => session \in Clients
    BY DEF ConnInv
  <2>2. QED
    BY <1>1, <1>2, <2>1 DEF VerdictInv, AttestedIsAcceptable, Acceptable, VerdictFor, Before3
<1>11. QED
  BY <1>5, <1>6, <1>7, <1>8, <1>9, <1>10

\* A msg2 line that came alone leaves nothing behind.
LEMMA AfterMsg2 ==
  ASSUME NEW c \in Clients
  PROVE  HasLine(Msg2Line(c)) /\ AfterLine(Msg2Line(c)) = <<>>
<1> DEFINE buf == Msg2Line(c)
<1>1. /\ buf \in Seq(Token) /\ Len(buf) = 2
      /\ buf[1].is = "msg2" /\ buf[2].is = "newline"
  BY DEF Msg2Line, Newline, Tok, Token, Fields
<1> HIDE DEF buf
<1>2. HasLine(buf)
  BY <1>1, LenProperties DEF HasLine
<1>3. EndOfLine(buf) \in 1 .. 2 /\ buf[EndOfLine(buf)].is = "newline"
  BY <1>1, <1>2, EndOfLineProperties
<1>4. EndOfLine(buf) = 2
  BY <1>1, <1>3
<1>5. AfterLine(buf) = <<>>
  BY <1>1, <1>4, SubSeqEmpty DEF AfterLine
<1>6. QED
  BY <1>2, <1>5 DEF buf

\* do_attestation reads msg2 and answers with msg3.
LEMMA ClientReadMsg2Step ==
  ASSUME IInv, NEW c \in Clients, ClientReadMsg2(c)
  PROVE  IInv'
<1> USE DEF IInv
<1>1. /\ UNCHANGED <<pc, peer, session, status, rbuffer, wbuffer, quote, dirty, cause, decided, conn>>
      /\ client[c] = "wait2" /\ HasLine(toClient[c]) /\ toClient[c] # <<>>
      /\ toClient' = [toClient EXCEPT ![c] = AfterLine(@)]
  BY DEF ClientReadMsg2, spVars, histVars, HasLine
<1>2. \/ /\ toClient[c][1] = Tok(c, "msg2")
         /\ client' = [client EXCEPT ![c] = "wait4"]
         /\ toSP' = [toSP EXCEPT ![c] = @ \o Msg3Line(c)]
      \/ client' = [client EXCEPT ![c] = "failed"] /\ toSP' = toSP
  BY DEF ClientReadMsg2
<1>3. /\ client' \in [Clients -> {"start"} \union ClientAlive \union ClientGone]
      /\ \A d \in Clients \ {c} : client'[d] = client[d]
      /\ client'[c] \in {"wait4", "failed"}
      /\ client'[c] = "wait4" => toClient[c][1] = Tok(c, "msg2")
  BY <1>2 DEF TypeOK, ClientAlive, ClientGone
<1>4. Forward /\ WToken \subseteq WToken'
  <2>1. Forward
    BY <1>1, <1>3 DEF Forward, Before3
  <2>2. QED
    BY <1>1, <2>1, WTokensGrow
<1>5. /\ toSP' \in [Clients -> Seq(Token)]
      /\ \A d \in Clients : toSP'[d] \in Seq({t \in InToken' : t.of = d})
  <2>1. \A d \in Clients : toSP[d] \in Seq({t \in InToken' : t.of = d})
    BY <1>4, StreamsKept
  <2>2. CASE toSP' = [toSP EXCEPT ![c] = @ \o Msg3Line(c)] /\ client'[c] = "wait4"
    <3>1. Tok(c, "msg3") \in {t \in InToken' : t.of = c} /\ Newline(c) \in {t \in InToken' : t.of = c}
      BY <2>2 DEF Tok, Newline, InToken, Token, Fields, Before3
    <3>2. Msg3Line(c) \in Seq({t \in InToken' : t.of = c})
      BY <3>1 DEF Msg3Line
    <3>3. toSP[c] \o Msg3Line(c) \in Seq({t \in InToken' : t.of = c})
      BY <2>1, <3>2, ConcatProperties
    <3>4. toSP[c] \o Msg3Line(c) \in Seq(Token)
      BY <3>3, SeqMonotonic DEF InToken
    <3>5. QED
      BY <2>1, <2>2, <3>3, <3>4 DEF TypeOK
  <2>3. CASE toSP' = toSP
    BY <2>1, <2>3 DEF TypeOK
  <2>4. QED
    BY <1>2, <2>2, <2>3 DEF TypeOK, ClientAlive, ClientGone
<1>6. /\ toClient' \in [Clients -> Seq(Token)]
      /\ \A d \in Clients : toClient'[d] \in Seq(OutToken)
      /\ \A d \in Clients \ {c} : toClient'[d] = toClient[d]
      /\ toClient'[c] = AfterLine(toClient[c])
  <2>1. AfterLine(toClient[c]) \in Seq(Token) /\ AfterLine(toClient[c]) \in Seq(OutToken)
    BY <1>1, AfterLineProperties DEF TypeOK, StreamsInv
  <2>2. QED
    BY <1>1, <2>1 DEF TypeOK, StreamsInv
<1>7. StreamsInv'
  <2>1. \A d \in Clients : toClient'[d] \in Seq(OutToken')
    BY <1>4, <1>6, TokensGrow, SeqMonotonic
  <2>2. QED
    BY <1>1, <1>4, <1>5, <2>1, StreamsKept DEF StreamsInv
<1>8. TypeOK'
  BY <1>1, <1>3, <1>5, <1>6 DEF TypeOK
<1>10. Met(c)
  BY <1>1 DEF ConnInv
<1>11. ConnInv'
  BY <1>1, <1>3, <1>6, <1>10 DEF ConnInv, Met
<1>12. client'[c] = "wait4" =>
         /\ toClient'[c] = <<>>
         /\ conn[c] = "accepted" =>
              session = c /\ wbuffer = <<>> /\ pc \in {"read3", "disconnect"}
  BY <1>1, <1>3, <1>6, AfterMsg2 DEF Msg2Inv, Before3
<1>13. Msg2Inv'
  <2>1. pc \in InSession => peer \in Clients /\ conn[peer] = "accepted"
    BY DEF ConnInv
  <2>2. client'[c] \notin Before3
    BY <1>3 DEF Before3
  <2>3. pc \in {"read01", "sigrl", "send2"} => peer # c
    BY <1>1 DEF Msg2Inv
  <2>4. QED
    BY <1>1, <1>3, <1>6, <2>1, <2>2, <2>3 DEF Msg2Inv, InSession
<1>14. Msg4Inv'
  BY <1>1, <1>3, <1>6, <1>12 DEF Msg4Inv, Acceptable, VerdictFor, Past2
<1>15. VerdictInv'
  <2>1. pc \in {"report", "send4"} => session \in Clients
    BY DEF ConnInv
  <2>2. QED
    BY <1>1, <1>3, <2>1 DEF VerdictInv, AttestedIsAcceptable, Acceptable, VerdictFor, Before3
<1>16. QED
  BY <1>7, <1>8, <1>11, <1>13, <1>14, <1>15

-----------------------------------------------------------------------------
(* The server's reads and sends *)

\* MsgIO::read and the handler of the line it returns: process_msg01 or process_msg3.
LEMMA ReadLineStep ==
  ASSUME IInv, ReadLine
  PROVE  IInv'
<1> USE DEF IInv
<1>1. /\ pc \in {"read01", "read3"}
      /\ UNCHANGED <<peer, status, wbuffer, conn, toClient, client, quote, dirty, decided>>
      /\ peer \in Clients /\ conn[peer] = "accepted" /\ Met(peer)
      /\ \A d \in Clients : conn[d] = "accepted" => d = peer
  BY DEF ReadLine, ConnInv, InSession, Met
<1>2. PICK n \in 1 .. Len(toSP[peer]) :
        LET buf == rbuffer \o SubSeq(toSP[peer], 1, n) IN
        /\ toSP' = [toSP EXCEPT ![peer] = SubSeq(@, n + 1, Len(@))]
        /\ \/ rbuffer' = buf /\ UNCHANGED <<pc, session, cause>>
           \/ /\ rbuffer' = buf /\ UNCHANGED session
              /\ \E why \in Causes : Leave(why)
           \/ /\ HasLine(buf) /\ rbuffer' = AfterLine(buf)
              /\ UseMsg01(FirstLine(buf)) \/ UseMsg3(FirstLine(buf))
  BY DEF ReadLine, Causes
<1> DEFINE buf == rbuffer \o SubSeq(toSP[peer], 1, n)
<1>3. /\ Len(toSP[peer]) \in Nat
      /\ toSP[peer] \in Seq({t \in InToken : t.of = peer})
  BY <1>1, LenProperties DEF StreamsInv
<1>4. buf \in Seq(RToken)
  <2>1. {t \in InToken : t.of = peer} \subseteq RToken
    BY <1>1 DEF RToken
  <2>2. SubSeq(toSP[peer], 1, n) \in Seq({t \in InToken : t.of = peer})
    BY <1>3, PartOfSeq
  <2>3. SubSeq(toSP[peer], 1, n) \in Seq(RToken)
    BY <2>1, <2>2, SeqMonotonic
  <2>4. QED
    BY <2>3, ConcatProperties DEF StreamsInv
<1>5. SubSeq(toSP[peer], n + 1, Len(toSP[peer])) \in Seq({t \in InToken : t.of = peer})
  BY <1>3, PartOfSeq
<1> HIDE DEF buf
<1>6. /\ toSP' = [toSP EXCEPT ![peer] = SubSeq(@, n + 1, Len(@))]
      /\ \/ rbuffer' = buf /\ UNCHANGED <<pc, session, cause>>
         \/ rbuffer' = buf /\ UNCHANGED session /\ \E why \in Causes : Leave(why)
         \/ /\ HasLine(buf) /\ rbuffer' = AfterLine(buf)
            /\ UseMsg01(FirstLine(buf)) \/ UseMsg3(FirstLine(buf))
  BY <1>2 DEF buf
<1>7. rbuffer' \in Seq(RToken)
  BY <1>4, <1>6, AfterLineProperties
\* What the server does with the line, in terms of its own variables.
<1>8. \/ UNCHANGED <<pc, session, cause>>
      \/ pc' = "disconnect" /\ UNCHANGED session
      \/ pc = "read01" /\ pc' = "sigrl" /\ session' \in Clients /\ Met(session')
      \/ pc = "read3" /\ pc' = "report" /\ UNCHANGED session
         /\ session \in Clients /\ client[session] \notin Before3
  <2>1. CASE UNCHANGED <<pc, session, cause>>
    BY <2>1
  <2>2. CASE UNCHANGED session /\ \E why \in Causes : Leave(why)
    BY <2>2 DEF Leave
  <2>3. CASE HasLine(buf) /\ UseMsg01(FirstLine(buf))
    <3>1. CASE Msg01Owner(FirstLine(buf)) = NoClient
      BY <2>3, <3>1 DEF UseMsg01, Leave
    <3>2. CASE Msg01Owner(FirstLine(buf)) # NoClient
      <4>1. FirstLine(buf) # <<>> /\ session' = FirstLine(buf)[1].of /\ pc = "read01" /\ pc' = "sigrl"
        BY <2>3, <3>2 DEF UseMsg01, Msg01Owner
      <4>2. session' = buf[1].of /\ buf[1] \in RToken
        BY <1>4, <2>3, <4>1, HeadOfLine, ElementOfSeq
      <4>3. session' \in Clients /\ Met(session')
        BY <4>2 DEF RToken, InToken, Token
      <4>4. QED
        BY <4>1, <4>3
    <3>3. QED
      BY <3>1, <3>2
  <2>4. CASE HasLine(buf) /\ UseMsg3(FirstLine(buf))
    <3>1. CASE ~GenuineMsg3(FirstLine(buf))
      BY <2>4, <3>1 DEF UseMsg3, Leave
    <3>2. CASE GenuineMsg3(FirstLine(buf))
      <4>1. /\ session # NoClient /\ FirstLine(buf) = <<Tok(session, "msg3")>>
            /\ pc = "read3" /\ pc' = "report" /\ UNCHANGED session
        BY <2>4, <3>2 DEF UseMsg3, GenuineMsg3
      <4>2. Tok(session, "msg3") \in RToken
        BY <1>4, <2>4, <4>1, LineOfOne, ElementOfSeq
      <4>3. session \in Clients /\ client[session] \notin Before3
        BY <4>2 DEF RToken, InToken, Token, Tok
      <4>4. QED
        BY <4>1, <4>3
    <3>3. QED
      BY <3>1, <3>2
  <2>5. QED
    BY <1>6, <2>1, <2>2, <2>3, <2>4
<1>9. cause' \in [Clients -> Causes]
  BY <1>1, <1>6 DEF TypeOK, Leave, UseMsg01, UseMsg3, Causes
<1>10. Forward /\ WToken \subseteq WToken'
  <2>1. Forward
    BY <1>1 DEF Forward
  <2>2. pc \in Past2 => pc' \in Past2
    BY <1>1, <1>8 DEF Past2
  <2>3. QED
    BY <1>1, <2>1, <2>2, WTokensGrow
<1>11. StreamsInv'
  <2>1. rbuffer' \in Seq(RToken')
    BY <1>7, <1>10, TokensGrow, SeqMonotonic
  <2>2. \A d \in Clients : toSP'[d] \in Seq({t \in InToken : t.of = d})
    BY <1>5, <1>6 DEF TypeOK, StreamsInv
  <2>3. \A d \in Clients : toSP'[d] \in Seq({t \in InToken' : t.of = d})
    BY <1>10, <2>2, TokensGrow, SeqMonotonic
  <2>4. QED
    BY <1>1, <1>10, <2>1, <2>3, StreamsKept DEF StreamsInv
<1>12. TypeOK'
  <2>1. toSP' = [d \in Clients |-> toSP'[d]]
    BY <1>6 DEF TypeOK
  <2>2. toSP' \in [Clients -> Seq(Token)] /\ rbuffer' \in Seq(Token)
    BY <1>11, <2>1, StreamTypesNext
  <2>3. QED
    BY <1>1, <1>8, <1>9, <2>2 DEF TypeOK, InSession
<1>13. ConnInv'
  BY <1>1, <1>8 DEF ConnInv, InSession, Met
<1>14. Msg2Inv'
  BY <1>1, <1>8 DEF Msg2Inv
<1>15. Msg4Inv'
  BY <1>1, <1>8 DEF Msg4Inv, Past2, Acceptable, VerdictFor
<1>16. VerdictInv'
  BY <1>1, <1>8 DEF VerdictInv, AttestedIsAcceptable, Acceptable, VerdictFor
<1>17. QED
  BY <1>11, <1>12, <1>13, <1>14, <1>15, <1>16

\* What MsgIO::send does to its buffer and to the stream, for a message whose
\* tokens may be sent and belong to clients the server has met.
LEMMA SendEffect ==
  ASSUME StreamsInv, peer \in Clients, NEW out, NEW next, Send(out, next),
         out \in Seq({t \in OutToken : Met(t.of)})
  PROVE  /\ wbuffer' = wbuffer \/ wbuffer' \in Seq({t \in OutToken : Met(t.of)})
         /\ \/ client[peer] \in ClientGone /\ pc' = next /\ UNCHANGED <<conn, toClient>>
               /\ wbuffer' \in Seq({t \in OutToken : Met(t.of)})
            \/ client[peer] \notin ClientGone /\ pc' = next /\ UNCHANGED conn /\ wbuffer' = <<>>
               /\ toClient' = [toClient EXCEPT ![peer] = @ \o (wbuffer \o out)]
            \/ client[peer] \in ClientGone /\ pc' = "killed" /\ CloseAll /\ UNCHANGED <<wbuffer, toClient>>
<1> DEFINE M == {t \in OutToken : Met(t.of)}
<1>1. wbuffer \o out \in Seq(M)
  <2>1. WToken \subseteq M
    BY DEF WToken
  <2>2. wbuffer \in Seq(M)
    BY <2>1, SeqMonotonic DEF StreamsInv
  <2>3. QED
    BY <2>2, ConcatProperties
<1>2. \A t \in M : Torn(t) \subseteq M
  BY DEF Torn, Tok, OutToken, Token, Fields
<1>3. \A w \in Tails(wbuffer \o out) : w \in Seq(M)
  BY <1>1, <1>2, TailsOfSeq
<1>4. <<>> \in Seq(M)
  BY EmptySeq
<1>5. QED
  BY <1>3, <1>4 DEF Send

\* The streams are legal after a send in a session that is not over.
LEMMA SendStreams ==
  ASSUME IInv, peer \in Clients, NEW out, NEW next \in Past2, Send(out, next),
         out \in Seq({t \in OutToken : Met(t.of)}), pc' = next, UNCHANGED conn,
         UNCHANGED <<rbuffer, toSP, client, quote>>
  PROVE  /\ StreamsInv'
         /\ toClient' \in [Clients -> Seq(Token)] /\ wbuffer' \in Seq(Token)
<1> DEFINE M == {t \in OutToken : Met(t.of)}
<1>1. Forward
  BY DEF Forward
<1>2. M \subseteq WToken'
  <2>1. OutToken \subseteq OutToken'
    BY <1>1, TokensGrow
  <2>2. QED
    BY <2>1 DEF WToken, Met
<1>3. StreamsInv
  BY DEF IInv
<1>4. wbuffer \in Seq(M)
  <2>1. WToken \subseteq M
    BY DEF WToken
  <2>2. QED
    BY <1>3, <2>1, SeqMonotonic DEF StreamsInv
<1>5. wbuffer' \in Seq(M)
  BY <1>3, <1>4, SendEffect
<1>6. wbuffer' \in Seq(WToken')
  BY <1>2, <1>5, SeqMonotonic
<1>7. toClient' \in [Clients -> Seq(Token)] /\ \A c \in Clients : toClient'[c] \in Seq(OutToken)
  <2>1. CASE toClient' = toClient
    BY <1>3, <2>1 DEF IInv, TypeOK, StreamsInv
  <2>2. CASE toClient' = [toClient EXCEPT ![peer] = @ \o (wbuffer \o out)]
    <3>1. wbuffer \in Seq(OutToken) /\ out \in Seq(OutToken)
      BY <1>4, SeqMonotonic
    <3>2. toClient[peer] \o (wbuffer \o out) \in Seq(OutToken)
      BY <1>3, <3>1, ConcatProperties DEF StreamsInv
    <3>3. toClient[peer] \o (wbuffer \o out) \in Seq(Token)
      BY <3>2, SeqMonotonic DEF OutToken
    <3>4. QED
      BY <1>3, <2>2, <3>2, <3>3 DEF IInv, TypeOK, StreamsInv
  <2>3. QED
    BY <1>3, <2>1, <2>2, SendEffect
<1>8. \A c \in Clients : toClient'[c] \in Seq(OutToken')
  BY <1>1, <1>7, TokensGrow, SeqMonotonic
<1>9. StreamsInv'
  BY <1>1, <1>3, <1>6, <1>8, StreamsKept DEF StreamsInv
<1>10. QED
  BY <1>7, <1>9, StreamTypesNext

\* The end of process_msg01: msg2 is signed and sent.
LEMMA SendMsg2Step ==
  ASSUME IInv, SendMsg2
  PROVE  IInv'
<1> USE DEF IInv
<1>1. /\ pc = "send2" /\ Send(Msg2Line(session), "read3")
      /\ UNCHANGED <<peer, session, status, rbuffer, toSP, client, quote, dirty, cause, decided>>
      /\ peer \in Clients /\ conn[peer] = "accepted" /\ session \in Clients /\ Met(session)
      /\ \A d \in Clients : conn[d] = "accepted" => d = peer
      /\ toClient[peer] = <<>>
  BY DEF SendMsg2, histVars, ConnInv, InSession, Met, Msg2Inv
<1>2. Msg2Line(session) \in Seq({t \in OutToken : Met(t.of)})
  <2>1. Tok(session, "msg2") \in OutToken /\ Newline(session) \in OutToken
    BY <1>1 DEF Tok, Newline, OutToken, Token, Fields
  <2>2. Tok(session, "msg2").of = session /\ Newline(session).of = session
    BY DEF Tok, Newline
  <2>3. QED
    BY <1>1, <2>1, <2>2 DEF Msg2Line
<1>3. CASE pc' = "killed" /\ CloseAll /\ UNCHANGED <<wbuffer, toClient>>
  BY <1>1, <1>3, StopStep DEF Stopped, TypeOK
<1>4. CASE pc' = "read3" /\ UNCHANGED conn
  <2>1. StreamsInv' /\ toClient' \in [Clients -> Seq(Token)] /\ wbuffer' \in Seq(Token)
    BY <1>1, <1>2, <1>4, SendStreams DEF Past2
  <2>2. TypeOK'
    BY <1>1, <1>4, <2>1 DEF TypeOK, InSession
  <2>3. \/ client[peer] \in ClientGone /\ UNCHANGED toClient
        \/ /\ client[peer] \notin ClientGone /\ wbuffer' = <<>>
           /\ toClient' = [toClient EXCEPT ![peer] = @ \o (wbuffer \o Msg2Line(session))]
    BY <1>1, <1>2, <1>4, SendEffect
  <2>4. \A d \in Clients \ {peer} : toClient'[d] = toClient[d] /\ conn[d] # "accepted"
    BY <1>1, <2>3 DEF TypeOK
  <2>5. client[peer] \in Before3 => client[peer] \notin ClientGone
    BY DEF Before3, ClientGone
  <2>6. client[peer] # "wait4"
    BY <1>1 DEF Msg4Inv, Past2
  <2>7. client[peer] \notin ClientGone =>
          toClient'[peer] = wbuffer \o Msg2Line(session) /\ wbuffer' = <<>>
    <3>1. wbuffer \o Msg2Line(session) \in Seq(Token)
      BY <1>1, ConcatProperties DEF TypeOK, Msg2Line, Newline, Tok, Token, Fields
    <3>2. <<>> \o (wbuffer \o Msg2Line(session)) = wbuffer \o Msg2Line(session)
      BY <3>1, ConcatEmptySeq
    <3>3. QED
      BY <1>1, <2>3, <3>2 DEF TypeOK
  \* An accepted client has nothing in wbuffer yet, so that a first token of its
  \* own is the one of this very message.
  <2>8. \/ wbuffer = <<>> /\ wbuffer \o Msg2Line(session) = Msg2Line(session)
        \/ /\ wbuffer \o Msg2Line(session) # <<>>
           /\ (wbuffer \o Msg2Line(session))[1].of # peer
    <3>1. Msg2Line(session) \in Seq(Token) /\ wbuffer \in Seq(Token) /\ Len(wbuffer) \in Nat
      BY <1>1, LenProperties DEF TypeOK, Msg2Line, Newline, Tok, Token, Fields
    <3>2. CASE wbuffer = <<>>
      BY <3>1, <3>2, ConcatEmptySeq
    <3>3. CASE wbuffer # <<>>
      <4>1. 1 \in 1 .. Len(wbuffer)
        BY <3>1, <3>3, EmptySeq
      <4>2. wbuffer[1] \in WToken
        BY <4>1, ElementOfSeq DEF StreamsInv
      <4>3. wbuffer[1].of # peer
        BY <1>1, <4>2 DEF WToken, Past2
      <4>4. /\ (wbuffer \o Msg2Line(session))[1] = wbuffer[1]
            /\ wbuffer \o Msg2Line(session) # <<>>
        BY <3>1, <3>3, ConcatHead
      <4>5. QED
        BY <4>3, <4>4
    <3>4. QED
      BY <3>2, <3>3
  <2>9. Msg2Line(session) # <<>> /\ Msg2Line(session)[1] = Tok(session, "msg2")
    BY DEF Msg2Line
  <2>10. ConnInv'
    BY <1>1, <1>4, <2>4 DEF ConnInv, InSession, Met
  <2>11. Msg2Inv'
    <3>1. client[peer] \in Before3 => toClient'[peer] # <<>>
      BY <2>5, <2>7, <2>8, <2>9
    <3>2. client[peer] \in Before3 /\ toClient'[peer][1] = Tok(peer, "msg2") =>
            toClient'[peer] = Msg2Line(peer) /\ session = peer /\ wbuffer' = <<>>
      BY <2>5, <2>7, <2>8, <2>9 DEF Tok
    <3>3. QED
      BY <1>1, <1>4, <2>4, <3>1, <3>2 DEF Msg2Inv
  <2>12. Msg4Inv'
    BY <1>1, <1>4, <2>4, <2>6 DEF Msg4Inv, Acceptable, VerdictFor
  <2>13. VerdictInv'
    BY <1>1, <1>4 DEF VerdictInv, AttestedIsAcceptable, Acceptable, VerdictFor
  <2>14. QED
    BY <2>1, <2>2, <2>10, <2>11, <2>12, <2>13
<1>5. QED
  BY <1>1, <1>2, <1>3, <1>4, SendEffect

\* The end of process_msg3: the status and, for a trusted client only, the ciphertext.
LEMMA SendMsg4Step ==
  ASSUME IInv, SendMsg4
  PROVE  IInv'
<1> USE DEF IInv
<1> DEFINE Msg4 == <<Tok(session, status), Tok(session, "ciphertext"), Newline(session)>>
<1>1. /\ pc = "send4" /\ cause' = [cause EXCEPT ![peer] = "served"]
      /\ UNCHANGED <<peer, session, status, rbuffer, toSP, client, quote, dirty, decided>>
      /\ peer \in Clients /\ conn[peer] = "accepted" /\ session \in Clients /\ Met(session)
      /\ \A d \in Clients : conn[d] = "accepted" => d = peer
      /\ quote[session].gidMatches /\ quote[session].dataMatches
      /\ status = VerdictFor(session) /\ decided[session] = VerdictFor(session)
      /\ client[session] \notin Before3 /\ status \in Statuses
  BY DEF SendMsg4, ConnInv, InSession, Met, VerdictInv, TypeOK
<1>2. cause' \in [Clients -> Causes]
  BY <1>1 DEF TypeOK, Causes
<1>3. Tok(session, status) \in OutToken /\ Tok(session, status).of = session
  BY <1>1 DEF Tok, OutToken, Token, Fields, Statuses
\* A client that waits for msg2 has not been sent its own, and one that waits for
\* msg4 is the session's client.
<1>4. client[peer] \in Before3 => toClient[peer] # <<>> /\ toClient[peer][1] # Tok(peer, "msg2")
  BY <1>1 DEF Msg2Inv
<1>5. client[peer] = "wait4" => session = peer /\ toClient[peer] = <<>>
  BY <1>1 DEF Msg4Inv
<1>6. CASE status \in TrustedStatuses
  <2>1. Send(Msg4, "disconnect")
    BY <1>1, <1>6 DEF SendMsg4
  <2>2. Acceptable(session)
    BY <1>1, <1>6 DEF Acceptable
  <2>3. Msg4 \in Seq({t \in OutToken : Met(t.of)})
    <3>1. Tok(session, "ciphertext") \in OutToken /\ Newline(session) \in OutToken
      BY <1>1, <2>2 DEF Tok, Newline, OutToken, Token, Fields
    <3>2. Tok(session, "ciphertext").of = session /\ Newline(session).of = session
      BY DEF Tok, Newline
    <3>3. QED
      BY <1>1, <1>3, <3>1, <3>2
  <2> HIDE DEF Msg4
  <2>4. CASE pc' = "killed" /\ CloseAll /\ UNCHANGED <<wbuffer, toClient>>
    BY <1>1, <1>2, <2>4, StopStep DEF Stopped
  <2>5. CASE pc' = "disconnect" /\ UNCHANGED conn
    <3>1. StreamsInv' /\ toClient' \in [Clients -> Seq(Token)] /\ wbuffer' \in Seq(Token)
      BY <1>1, <2>1, <2>3, <2>5, SendStreams DEF Past2
    <3>2. TypeOK'
      BY <1>1, <1>2, <2>5, <3>1 DEF TypeOK, InSession
    <3>3. \/ UNCHANGED toClient
          \/ toClient' = [toClient EXCEPT ![peer] = @ \o (wbuffer \o Msg4)]
      BY <1>1, <2>1, <2>3, <2>5, SendEffect
    <3>4. \A d \in Clients \ {peer} : toClient'[d] = toClient[d]
      BY <3>3 DEF TypeOK
    <3>5. toClient[peer] # <<>> => toClient'[peer][1] = toClient[peer][1] /\ toClient'[peer] # <<>>
      <4>1. toClient[peer] \in Seq(Token) /\ wbuffer \in Seq(Token) /\ Msg4 \in Seq(Token)
        BY <1>1, <2>3, SeqMonotonic DEF TypeOK, OutToken
      <4>2. wbuffer \o Msg4 \in Seq(Token)
        BY <4>1, ConcatProperties
      <4>3. ASSUME toClient[peer] # <<>>
            PROVE  /\ (toClient[peer] \o (wbuffer \o Msg4))[1] = toClient[peer][1]
                   /\ toClient[peer] \o (wbuffer \o Msg4) # <<>>
        BY <4>1, <4>2, <4>3, ConcatHead
      <4>4. QED
        BY <1>1, <3>3, <4>3 DEF TypeOK
    <3>6. ConnInv'
      BY <1>1, <2>5, <3>4 DEF ConnInv, InSession, Met
    <3>7. Msg2Inv'
      BY <1>1, <1>4, <2>5, <3>4, <3>5 DEF Msg2Inv
    <3>8. Msg4Inv'
      BY <1>1, <1>5, <2>2, <2>5, <3>4 DEF Msg4Inv, Acceptable, VerdictFor, Past2
    <3>9. VerdictInv'
      BY <1>1, <2>5 DEF VerdictInv, AttestedIsAcceptable, Acceptable, VerdictFor
    <3>10. QED
      BY <3>1, <3>2, <3>6, <3>7, <3>8, <3>9
  <2>6. QED
    BY <1>1, <2>1, <2>3, <2>4, <2>5, SendEffect
<1>7. CASE status \notin TrustedStatuses
  <2>1. wbuffer' = wbuffer \o <<Tok(session, status)>> /\ pc' = "disconnect" /\ UNCHANGED <<toClient, conn>>
    BY <1>1, <1>7 DEF SendMsg4
  <2>2. Forward
    BY <1>1, <2>1 DEF Forward
  <2>3. wbuffer' \in Seq(WToken')
    <3>1. WToken \subseteq WToken'
      BY <1>1, <2>1, <2>2, WTokensGrow DEF Past2
    <3>2. Tok(session, status) \in WToken'
      <4>1. Tok(session, status) \in OutToken'
        BY <1>3, <2>2, TokensGrow
      <4>2. QED
        BY <1>1, <1>3, <2>1, <4>1 DEF WToken, Met, Past2
    <3>3. wbuffer \in Seq(WToken') /\ <<Tok(session, status)>> \in Seq(WToken')
      BY <3>1, <3>2, SeqMonotonic DEF StreamsInv
    <3>4. QED
      BY <2>1, <3>3, ConcatProperties
  <2>4. StreamsInv'
    BY <1>1, <2>1, <2>2, <2>3, StreamsKept DEF StreamsInv
  <2>5. TypeOK'
    BY <1>1, <1>2, <2>1, <2>4, StreamTypesNext DEF TypeOK, InSession
  <2>6. ConnInv'
    BY <1>1, <2>1 DEF ConnInv, InSession, Met
  <2>7. Msg2Inv'
    BY <1>1, <1>4, <2>1 DEF Msg2Inv
  <2>8. Msg4Inv'
    BY <1>1, <1>5, <2>1 DEF Msg4Inv, Acceptable, VerdictFor, Past2
  <2>9. VerdictInv'
    BY <1>1, <2>1 DEF VerdictInv, AttestedIsAcceptable, Acceptable, VerdictFor
  <2>10. QED
    BY <2>4, <2>5, <2>6, <2>7, <2>8, <2>9
<1>8. QED
  BY <1>6, <1>7

-----------------------------------------------------------------------------
(* The theorems *)

\* The invariant is inductive.
LEMMA NextStep ==
  ASSUME IInv, [Next]_vars
  PROVE  IInv'
<1>1. CASE Serve
  BY <1>1, ReadLineStep, QuietStep, SendMsg2Step, SendMsg4Step, DisconnectStep DEF Serve
<1>2. CASE AcceptFails \/ Signal
  BY <1>2, SignalStep
<1>3. ASSUME NEW c \in Clients, Accept(c) \/ ClientStep(c) \/ ClientGivesUp(c) \/ ClientDrop(c)
      PROVE  IInv'
  BY <1>3, AcceptStep, ClientQuietStep, ClientSendMsg01Step, ClientReadMsg2Step DEF ClientStep
<1>4. CASE UNCHANGED vars
  BY <1>4, StutterStep
<1>5. QED
  BY <1>1, <1>2, <1>3, <1>4 DEF Next

\* Every reachable state of the server and its clients satisfies the inductive invariant.
THEOREM Invariance == Spec => []IInv
<1>1. Init => IInv
  BY InitStep
<1>2. IInv /\ [Next]_vars => IInv'
  BY NextStep
<1>3. QED
  BY <1>1, <1>2, PTL DEF Spec

\* The variables of server, connections and clients keep their types, whatever
\* the streams are broken into.
THEOREM TypeCorrect == Spec => []TypeOK
<1>1. IInv => TypeOK
  BY DEF IInv
<1>2. QED
  BY <1>1, Invariance, PTL

\* A client that comes to share keys with the server has evidence the policy
\* accepts: bytes that other sessions left in MsgIO's buffers never make
\* do_attestation report a trusted enclave.
THEOREM AttestedOnlyIfAcceptable == Spec => []AttestedIsAcceptable
<1>1. IInv => AttestedIsAcceptable
  BY DEF IInv, VerdictInv
<1>2. QED
  BY <1>1, Invariance, PTL

\* process_msg3 hands the secret to MsgIO::send for acceptable clients only, and
\* none for another client is ever in wbuffer or on its way.
THEOREM SecretsAreForAcceptable == Spec => []SecretsOnlyForAcceptable
<1>1. ASSUME IInv
      PROVE  SecretsOnlyForAcceptable
  <2>1. /\ wbuffer \in Seq(OutToken)
        /\ \A c \in Clients : toClient[c] \in Seq(OutToken)
    BY <1>1, SeqMonotonic DEF IInv, StreamsInv, WToken
  <2>2. \A t \in OutToken : t.is = "ciphertext" => Acceptable(t.of)
    BY DEF OutToken
  <2>3. \A n \in DOMAIN wbuffer : wbuffer[n] \in OutToken
    BY <2>1, LenProperties, ElementOfSeq
  <2>4. \A c \in Clients : \A n \in DOMAIN toClient[c] : toClient[c][n] \in OutToken
    BY <2>1, LenProperties, ElementOfSeq
  <2>5. QED
    BY <2>2, <2>3, <2>4 DEF SecretsOnlyForAcceptable
<1>2. QED
  BY <1>1, Invariance, PTL

-----------------------------------------------------------------------------
(* The refinement of AttestationContract *)

\* The contract's state as a function of the server's.
worthyBar  == {c \in Clients : Acceptable(c)}
stageBar   == [c \in Clients |-> ClientStage(c)]
grantedBar == {c \in Clients : decided[c] \in TrustedStatuses}

\* A step that changes no client and decides nothing is not seen.
LEMMA UnseenStep ==
  ASSUME UNCHANGED <<client, quote, decided>>
  PROVE  UNCHANGED <<worthyBar, stageBar, grantedBar>>
BY DEF worthyBar, stageBar, grantedBar, ClientStage, Acceptable, VerdictFor

\* A step of one client moves its stage, and only its stage.
LEMMA ClientStageStep ==
  ASSUME TypeOK, NEW c \in Clients, NEW s, client' = [client EXCEPT ![c] = s], UNCHANGED <<quote, decided>>
  PROVE  /\ UNCHANGED <<worthyBar, grantedBar>>
         /\ stageBar' = [stageBar EXCEPT ![c] =
              CASE s \in {"start", "connected", "wait2"} -> "unproven"
                [] s = "wait4" -> "answered"
                [] s = "attested" -> "trusted"
                [] OTHER -> "lost"]
<1>1. UNCHANGED <<worthyBar, grantedBar>>
  BY DEF worthyBar, grantedBar, Acceptable, VerdictFor
<1>2. client'[c] = s /\ \A d \in Clients \ {c} : client'[d] = client[d]
  BY DEF TypeOK
<1>3. \A d \in Clients \ {c} : ClientStage(d)' = ClientStage(d)
  BY <1>2 DEF ClientStage
<1>4. ClientStage(c)' = CASE s \in {"start", "connected", "wait2"} -> "unproven"
                           [] s = "wait4" -> "answered"
                           [] s = "attested" -> "trusted"
                           [] OTHER -> "lost"
  BY <1>2 DEF ClientStage
<1>5. stageBar' = [d \in Clients |-> IF d = c THEN ClientStage(c)' ELSE stageBar[d]]
  BY <1>3 DEF stageBar
<1>6. stageBar' = [stageBar EXCEPT ![c] = ClientStage(c)']
  BY <1>5 DEF stageBar
<1>7. QED
  BY <1>1, <1>4, <1>6

\* The abstract step that a step of the server or of a client is.
LEMMA ContractStep ==
  ASSUME IInv, [Next]_vars
  PROVE  \/ UNCHANGED <<worthyBar, stageBar, grantedBar>>
         \/ \E c \in Clients :
              \/ /\ stageBar[c] = "unproven"
                 /\ stageBar' = [stageBar EXCEPT ![c] = "answered"]
                 /\ UNCHANGED <<worthyBar, grantedBar>>
              \/ /\ c \in worthyBar \ grantedBar
                 /\ stageBar[c] \in {"answered", "lost"}
                 /\ grantedBar' = grantedBar \union {c}
                 /\ UNCHANGED <<worthyBar, stageBar>>
              \/ /\ stageBar[c] = "answered" /\ c \in grantedBar
                 /\ stageBar' = [stageBar EXCEPT ![c] = "trusted"]
                 /\ UNCHANGED <<worthyBar, grantedBar>>
              \/ /\ stageBar[c] \in {"unproven", "answered"}
                 /\ stageBar' = [stageBar EXCEPT ![c] = "lost"]
                 /\ UNCHANGED <<worthyBar, grantedBar>>
<1> USE DEF IInv
<1>1. CASE UNCHANGED <<client, quote, decided>>
  BY <1>1, UnseenStep
<1>2. CASE GetReport /\ ~UNCHANGED decided
  <2>1. /\ session \in Clients /\ client[session] \notin Before3
        /\ quote[session].gidMatches /\ quote[session].dataMatches
        /\ decided' = [decided EXCEPT ![session] = VerdictFor(session)]
        /\ UNCHANGED <<client, quote>>
    BY <1>2 DEF GetReport, ConnInv, VerdictInv
  <2>2. decided[session] = "none"
    BY <2>1, <1>2 DEF VerdictInv, TypeOK
  <2>3. stageBar' = stageBar /\ worthyBar' = worthyBar
    BY <2>1 DEF stageBar, ClientStage, worthyBar, Acceptable, VerdictFor
  <2>4. session \notin grantedBar
    BY <2>2 DEF grantedBar, TrustedStatuses
  <2>5. CASE VerdictFor(session) \in TrustedStatuses
    <3>1. session \in worthyBar
      BY <2>1, <2>5 DEF worthyBar, Acceptable
    <3>2. grantedBar' = grantedBar \union {session}
      BY <2>1, <2>5 DEF grantedBar, TypeOK
    <3>3. client[session] # "attested"
      BY <2>1, <2>2, <2>5 DEF VerdictInv, AttestedIsAcceptable, TrustedStatuses
    <3>4. stageBar[session] \in {"answered", "lost"}
      BY <2>1, <3>3 DEF stageBar, ClientStage, Before3
    <3>5. QED
      BY <2>1, <2>3, <2>4, <3>1, <3>2, <3>4
  <2>6. CASE VerdictFor(session) \notin TrustedStatuses
    <3>1. grantedBar' = grantedBar
      BY <2>1, <2>4, <2>6 DEF grantedBar, TypeOK
    <3>2. QED
      BY <2>3, <3>1
  <2>7. QED
    BY <2>5, <2>6
<1>3. ASSUME NEW c \in Clients, ClientStep(c) \/ ClientGivesUp(c) \/ ClientDrop(c)
      PROVE  /\ UNCHANGED <<worthyBar, grantedBar>>
             /\ \/ UNCHANGED stageBar
                \/ stageBar[c] = "unproven" /\ stageBar' = [stageBar EXCEPT ![c] = "answered"]
                \/ /\ stageBar[c] = "answered" /\ c \in grantedBar
                   /\ stageBar' = [stageBar EXCEPT ![c] = "trusted"]
                \/ /\ stageBar[c] \in {"unproven", "answered"}
                   /\ stageBar' = [stageBar EXCEPT ![c] = "lost"]
  <2>1. UNCHANGED <<quote, decided>>
    BY <1>3 DEF ClientStep, ClientConnect, ClientSendMsg01, ClientReadMsg2, ClientReadMsg4,
                ClientReadEof, ClientGivesUp, ClientDrop, histVars
  <2>2. \E s \in {"connected", "wait2", "wait4", "attested", "refused", "failed", "gaveup", "dropped"} :
           /\ client' = [client EXCEPT ![c] = s]
           /\ s \in {"connected", "wait2"} => client[c] \in Before3
           /\ s = "wait4" => client[c] \in Before3
           /\ s = "attested" => client[c] = "wait4" /\ HasLine(toClient[c])
           /\ client[c] \in Before3 \union {"wait4"}
    <3>1. CASE ClientConnect(c) \/ ClientSendMsg01(c) \/ ClientReadMsg2(c)
      BY <3>1 DEF ClientConnect, ClientSendMsg01, ClientReadMsg2, Before3
    <3>2. CASE ClientReadMsg4(c) \/ ClientReadEof(c) \/ ClientGivesUp(c) \/ ClientDrop(c)
      BY <3>2 DEF ClientReadMsg4, ClientReadEof, ClientGivesUp, ClientDrop, Before3, ClientAlive
    <3>3. QED
      BY <1>3, <3>1, <3>2 DEF ClientStep
  <2>3. PICK s \in {"connected", "wait2", "wait4", "attested", "refused", "failed", "gaveup", "dropped"} :
           /\ client' = [client EXCEPT ![c] = s]
           /\ s \in {"connected", "wait2"} => client[c] \in Before3
           /\ s = "wait4" => client[c] \in Before3
           /\ s = "attested" => client[c] = "wait4" /\ HasLine(toClient[c])
           /\ client[c] \in Before3 \union {"wait4"}
    BY <2>2
  <2>4. /\ client[c] \in Before3 => stageBar[c] = "unproven"
        /\ client[c] = "wait4" => stageBar[c] = "answered"
        /\ stageBar = [stageBar EXCEPT ![c] = stageBar[c]]
    BY DEF stageBar, ClientStage, Before3
  <2>5. UNCHANGED <<worthyBar, grantedBar>>
    BY <2>1, <2>3, ClientStageStep
  <2>6. CASE s \in {"connected", "wait2"}
    BY <2>1, <2>3, <2>4, <2>5, <2>6, ClientStageStep
  <2>7. CASE s = "wait4"
    BY <2>1, <2>3, <2>4, <2>5, <2>7, ClientStageStep
  <2>8. CASE s = "attested"
    <3>1. Acceptable(c) /\ decided[c] = VerdictFor(c)
      BY <2>3, <2>8 DEF Msg4Inv, HasLine
    <3>2. c \in grantedBar
      BY <3>1 DEF grantedBar, Acceptable
    <3>3. QED
      BY <2>1, <2>3, <2>4, <2>5, <2>8, <3>2, ClientStageStep
  <2>9. CASE s \in {"refused", "failed", "gaveup", "dropped"}
    BY <2>1, <2>3, <2>4, <2>5, <2>9, ClientStageStep
  <2>10. QED
    BY <2>3, <2>6, <2>7, <2>8, <2>9
<1>4. CASE Serve /\ ~GetReport
  BY <1>1, <1>4 DEF Serve, ReadLine, ReadEof, GetSigrl, SendMsg2, SendMsg4, Disconnect, histVars
<1>5. CASE GetReport /\ UNCHANGED decided
  BY <1>1, <1>5 DEF GetReport
<1>6. CASE AcceptFails \/ Signal \/ UNCHANGED vars \/ \E c \in Clients : Accept(c)
  BY <1>1, <1>6 DEF AcceptFails, Signal, vars, spVars, netVars, histVars, Accept
<1>7. CASE \E c \in Clients : ClientStep(c) \/ ClientGivesUp(c) \/ ClientDrop(c)
  BY <1>3, <1>7
<1>8. QED
  BY <1>2, <1>4, <1>5, <1>6, <1>7 DEF Next, Serve

\* The server and its clients implement AttestationContract: keys are granted
\* only to clients that answered the challenge and that the policy accepts, and a
\* client learns of trust only after that.
THEOREM Refinement == Spec => KeepsContract
<1>1. Init => Contract!Init
  BY DEF Init, Contract!Init, ClientStage, TrustedStatuses
<1>2. IInv /\ [Next]_vars => [Contract!Next]_(Contract!contractVars)
  BY ContractStep DEF Contract!Next, Contract!Challenge, Contract!Grant, Contract!Learn, Contract!Lose,
     Contract!contractVars, worthyBar, stageBar, grantedBar
<1>3. QED
  BY <1>1, <1>2, Invariance, PTL DEF Spec, KeepsContract, Contract!Spec

-----------------------------------------------------------------------------
(***************************************************************************)
(* The residue of sessions                                                 *)
(*                                                                         *)
(* What sessions leave behind in the buffers of the server's one MsgIO     *)
(* object, for every set of clients: who is to blame for it, what it does  *)
(* to the sessions after it, and that a session which starts without it    *)
(* frames its messages right.  IInv says what can be in the streams; the   *)
(* invariant here, where it is.                                            *)
(***************************************************************************)

(* The inductive invariant *)

\* The session began with clean buffers, and its client has stayed.
Clean == ~dirty[peer] /\ client[peer] # "dropped"

\* The session began with a clean rbuffer, and its client has stayed.
Framed == ~BrokeOff \/ Clean

\* The server has all that client c has sent.
NothingSent(c) == rbuffer = <<>> /\ toSP[c] = <<>>

\* Client c has sent the line of field f, of which the server has the field at most.
LineSent(c, f) ==
  \/ rbuffer = <<>> /\ toSP[c] = <<Tok(c, f), Newline(c)>>
  \/ rbuffer = <<Tok(c, f)>> /\ toSP[c] = <<Newline(c)>>

\* A session has one reason to end.
CauseInv ==
  /\ \A c \in Clients : ~Met(c) => cause[c] = "none"
  /\ pc \in InSession \ {"disconnect"} => cause[peer] = "none"

\* What a client in the backlog has sent.
BacklogInv ==
  \A c \in Clients :
    /\ conn[c] = "backlog" => client[c] \in {"connected", "wait2", "gaveup", "dropped"}
    /\ ~Met(c) /\ client[c] # "dropped" =>
         toSP[c] = IF client[c] = "wait2" THEN Msg01Line(c) ELSE <<>>

\* Where the line is that the server of a session waits for.
FrameInv ==
  /\ pc = "read01" /\ Framed =>
       \/ client[peer] \in {"connected", "gaveup"} /\ NothingSent(peer)
       \/ client[peer] = "wait2" /\ LineSent(peer, "msg01")
  /\ pc \in {"sigrl", "send2"} /\ Framed =>
       session = peer /\ client[peer] = "wait2" /\ NothingSent(peer)
  /\ pc = "read3" /\ Framed =>
       /\ session = peer
       /\ \/ client[peer] \in {"wait2", "gaveup", "failed"} /\ NothingSent(peer)
          \/ client[peer] = "wait4" /\ LineSent(peer, "msg3")
  /\ pc \in {"report", "send4"} /\ ~BrokeOff =>
       session = peer /\ client[peer] = "wait4" /\ rbuffer = <<>>
  /\ pc \in {"accept", "disconnect"} /\ ~BrokeOff => rbuffer = <<>>

\* Each client's own tokens.
OwnToken(c) == {t \in Token : t.of = c}

\* As long as nobody is to blame, only the bytes of a session's own client are on
\* their way to it; so too, up to msg3, in a session that began clean.
WriteInv ==
  /\ ~BrokeOff /\ ~StatusLeft => wbuffer = <<>> /\ \A c \in Clients : toClient[c] \in Seq(OwnToken(c))
  /\ pc \in {"read01", "sigrl", "send2", "read3"} /\ Clean => wbuffer = <<>>
  /\ pc = "read3" /\ Clean =>
       client[peer] # "failed" /\ (client[peer] = "wait2" => toClient[peer] = Msg2Line(peer))

RInv == CauseInv /\ BacklogInv /\ FrameInv /\ WriteInv /\ CleanSessionsFrameRight

-----------------------------------------------------------------------------
(* Lines *)

\* The parts of sequences of one and of two tokens.
LEMMA ShortSeqs ==
  ASSUME NEW t \in Token, NEW u \in Token
  PROVE  /\ SubSeq(<<t, u>>, 1, 1) = <<t>> /\ SubSeq(<<t, u>>, 2, 2) = <<u>>
         /\ SubSeq(<<t, u>>, 1, 2) = <<t, u>> /\ SubSeq(<<t, u>>, 3, 2) = <<>>
         /\ SubSeq(<<u>>, 1, 1) = <<u>> /\ SubSeq(<<u>>, 2, 1) = <<>>
         /\ <<>> \o <<t>> = <<t>> /\ <<>> \o <<t, u>> = <<t, u>>
         /\ <<t>> \o <<u>> = <<t, u>>
<1>1. \A v \in Token : <<v>> \in Seq(Token) /\ Len(<<v>>) = 1 /\ <<v>>[1] = v
  OBVIOUS
<1>2. <<t, u>> \in Seq(Token) /\ Len(<<t, u>>) = 2 /\ <<t, u>>[1] = t /\ <<t, u>>[2] = u
  OBVIOUS
<1>3. \A m \in 1 .. 2 : SubSeq(<<t, u>>, m, m) = <<(<<t, u>>)[m]>>
  <2> TAKE m \in 1 .. 2
  <2>1. SubSeq(<<t, u>>, m, m) = <<(<<t, u>>)[m]>> \o SubSeq(<<t, u>>, m + 1, m)
    BY <1>2, SubSeqRecursiveFirst
  <2>2. SubSeq(<<t, u>>, m + 1, m) = <<>>
    BY SubSeqEmpty
  <2>3. <<(<<t, u>>)[m]>> \in Seq(Token)
    BY <1>1, <1>2
  <2>4. QED
    BY <2>1, <2>2, <2>3, ConcatEmptySeq
<1>4. SubSeq(<<t, u>>, 1, 2) = <<t, u>> /\ SubSeq(<<u>>, 1, 1) = <<u>>
  <2>1. SubSeq(<<t, u>>, 1, Len(<<t, u>>)) = <<t, u>>
    BY <1>2, SubSeqFull
  <2>2. SubSeq(<<u>>, 1, Len(<<u>>)) = <<u>>
    BY <1>1, SubSeqFull
  <2>3. QED
    BY <1>1, <1>2, <2>1, <2>2
<1>5. SubSeq(<<t, u>>, 3, 2) = <<>> /\ SubSeq(<<u>>, 2, 1) = <<>>
  BY SubSeqEmpty
<1>6. <<>> \o <<t>> = <<t>> /\ <<>> \o <<t, u>> = <<t, u>>
  BY <1>1, <1>2, ConcatEmptySeq
<1>7. <<t>> \o <<u>> = <<t, u>>
  <2>1. /\ <<t>> \o <<u>> \in Seq(Token) /\ Len(<<t>> \o <<u>>) = 2
        /\ \A i \in 1 .. 2 : (<<t>> \o <<u>>)[i] = IF i <= 1 THEN (<<t>>)[i] ELSE (<<u>>)[i - 1]
    <3> DEFINE a == <<t>>
               b == <<u>>
    <3>1. a \in Seq(Token) /\ b \in Seq(Token) /\ Len(a) = 1 /\ Len(b) = 1
      OBVIOUS
    <3> HIDE DEF a, b
    <3>2. /\ a \o b \in Seq(Token) /\ Len(a \o b) = 2
          /\ \A i \in 1 .. 2 : (a \o b)[i] = IF i <= 1 THEN a[i] ELSE b[i - 1]
      BY <3>1, ConcatProperties
    <3>3. QED
      BY <3>2 DEF a, b
  <2>2. (<<t>> \o <<u>>)[1] = t /\ (<<t>> \o <<u>>)[2] = u
    BY <2>1
  <2>3. \A i \in 1 .. 2 : (<<t>> \o <<u>>)[i] = (<<t, u>>)[i]
    BY <1>2, <2>2
  <2>4. QED
    BY <1>2, <2>1, <2>3, SeqEqual
<1>8. QED
  BY <1>3, <1>4, <1>5, <1>6, <1>7

\* MsgIO::read on a line of one field that is whole: it takes the field and
\* leaves nothing.
LEMMA WholeLine ==
  ASSUME NEW t \in Token, NEW u \in Token, t.is \notin {"newline", "odd"}, u.is = "newline"
  PROVE  /\ ~HasLine(<<t>>)
         /\ HasLine(<<t, u>>) /\ ~OddLine(<<t, u>>)
         /\ FirstLine(<<t, u>>) = <<t>> /\ AfterLine(<<t, u>>) = <<>>
<1> DEFINE b == <<t, u>>
<1>1. b \in Seq(Token) /\ Len(b) = 2 /\ b[1] = t /\ b[2] = u /\ DOMAIN b = 1 .. 2
  OBVIOUS
<1>2. ~HasLine(<<t>>)
  BY DEF HasLine
<1> HIDE DEF b
<1>3. HasLine(b)
  BY <1>1 DEF HasLine
<1>4. EndOfLine(b) = 2
  <2>1. EndOfLine(b) \in 1 .. 2 /\ b[EndOfLine(b)].is = "newline"
    BY <1>1, <1>3, EndOfLineProperties
  <2>2. QED
    BY <1>1, <2>1
<1>5. ~OddLine(b)
  <2>1. {n \in 1 .. EndOfLine(b) - 1 : b[n].is = "odd"} = {}
    BY <1>1, <1>4
  <2>2. Cardinality({n \in 1 .. EndOfLine(b) - 1 : b[n].is = "odd"}) = 0
    BY <2>1, FS_EmptySet
  <2>3. QED
    BY <2>2 DEF OddLine
<1>6. FirstLine(b) = <<t>>
  <2>1. EndOfLine(b) - 1 = 1
    BY <1>4
  <2>2. QED
    BY <2>1, ShortSeqs DEF FirstLine, b
<1>7. AfterLine(b) = <<>>
  BY <1>1, <1>4, SubSeqEmpty DEF AfterLine
<1>8. QED
  BY <1>2, <1>3, <1>5, <1>6, <1>7 DEF b

\* What recv makes of the line of a field: the field alone, or the whole line.
LEMMA RecvOfLine ==
  ASSUME NEW c \in Clients, NEW f \in Fields, LineSent(c, f), NEW n \in 1 .. Len(toSP[c])
  PROVE  \/ /\ rbuffer \o SubSeq(toSP[c], 1, n) = <<Tok(c, f)>>
            /\ SubSeq(toSP[c], n + 1, Len(toSP[c])) = <<Newline(c)>>
         \/ /\ rbuffer \o SubSeq(toSP[c], 1, n) = <<Tok(c, f), Newline(c)>>
            /\ SubSeq(toSP[c], n + 1, Len(toSP[c])) = <<>>
<1> DEFINE t == Tok(c, f)
           u == Newline(c)
<1>1. t \in Token /\ u \in Token
  BY DEF Tok, Newline, Token, Fields
<1> HIDE DEF t, u
<1>0. /\ SubSeq(<<t, u>>, 1, 1) = <<t>> /\ SubSeq(<<t, u>>, 2, 2) = <<u>>
      /\ SubSeq(<<t, u>>, 1, 2) = <<t, u>> /\ SubSeq(<<t, u>>, 3, 2) = <<>>
      /\ SubSeq(<<u>>, 1, 1) = <<u>> /\ SubSeq(<<u>>, 2, 1) = <<>>
  BY <1>1, ShortSeqs
<1>2. CASE rbuffer = <<>> /\ toSP[c] = <<t, u>>
  <2>1. n \in {1, 2} /\ Len(toSP[c]) = 2
    BY <1>2
  <2>2. CASE n = 1
    <3>0. n + 1 = 2
      BY <2>2
    <3>1. SubSeq(toSP[c], 1, n) = <<t>> /\ SubSeq(toSP[c], n + 1, Len(toSP[c])) = <<u>>
      BY <1>0, <1>2, <2>1, <2>2, <3>0, Zenon
    <3>2. QED
      BY <1>1, <1>2, <3>1, ShortSeqs DEF t, u
  <2>3. CASE n = 2
    <3>0. n + 1 = 3
      BY <2>3
    <3>1. SubSeq(toSP[c], 1, n) = <<t, u>> /\ SubSeq(toSP[c], n + 1, Len(toSP[c])) = <<>>
      BY <1>0, <1>2, <2>1, <2>3, <3>0, Zenon
    <3>2. QED
      BY <1>1, <1>2, <3>1, ShortSeqs DEF t, u
  <2>4. QED
    BY <2>1, <2>2, <2>3
<1>3. CASE rbuffer = <<t>> /\ toSP[c] = <<u>>
  <2>1. n = 1 /\ n + 1 = 2 /\ Len(toSP[c]) = 1
    BY <1>3
  <2>2. SubSeq(toSP[c], 1, n) = <<u>> /\ SubSeq(toSP[c], n + 1, Len(toSP[c])) = <<>>
    BY <1>0, <1>3, <2>1, Zenon
  <2>3. QED
    BY <1>1, <1>3, <2>2, ShortSeqs DEF t, u
<1>4. QED
  BY <1>2, <1>3 DEF LineSent, t, u

-----------------------------------------------------------------------------
(* Steps that leave the streams of the session alone *)

\* Blame is for good: a client that broke off stays away, a failed malloc ends its
\* session, and a status is decided once.
LEMMA Blame ==
  ASSUME IInv, CauseInv, [Next]_vars
  PROVE  /\ BrokeOff => BrokeOff'
         /\ StatusLeft => StatusLeft'
         /\ \A c \in Clients : client[c] = "dropped" => client'[c] = "dropped"
<1> USE DEF IInv
<1>1. \A c \in Clients : client[c] = "dropped" => client'[c] = "dropped"
  <2>1. CASE Serve \/ AcceptFails \/ Signal \/ UNCHANGED vars \/ \E d \in Clients : Accept(d)
    BY <2>1 DEF Serve, ReadLine, ReadEof, GetSigrl, SendMsg2, GetReport, SendMsg4, Disconnect,
                AcceptFails, Signal, vars, Accept
  <2>2. ASSUME NEW d \in Clients, ClientStep(d) \/ ClientGivesUp(d) \/ ClientDrop(d)
        PROVE  client[d] # "dropped" /\ \E s : client' = [client EXCEPT ![d] = s]
    BY <2>2 DEF ClientStep, ClientConnect, ClientSendMsg01, ClientReadMsg2, ClientReadMsg4,
                ClientReadEof, ClientGivesUp, ClientDrop, ClientAlive
  <2>3. QED
    BY <2>1, <2>2 DEF Next, TypeOK
<1>2. \A c \in Clients : cause[c] = "malloc" => cause'[c] = "malloc"
  <2>1. CASE UNCHANGED cause
    BY <2>1
  <2>2. ASSUME pc \in InSession \ {"disconnect"}, \E w : cause' = [cause EXCEPT ![peer] = w]
        PROVE  \A c \in Clients : cause[c] = "malloc" => cause'[c] = "malloc"
    BY <2>2 DEF CauseInv, TypeOK
  <2>3. CASE ReadLine \/ ReadEof \/ GetSigrl \/ GetReport \/ SendMsg4
    BY <2>1, <2>2, <2>3 DEF ReadLine, UseMsg01, UseMsg3, ReadEof, GetSigrl, GetReport, SendMsg4, Leave, InSession
  <2>4. CASE SendMsg2 \/ Disconnect \/ AcceptFails \/ Signal \/ UNCHANGED vars
    BY <2>1, <2>4 DEF SendMsg2, Disconnect, AcceptFails, Signal, vars, histVars
  <2>5. ASSUME NEW d \in Clients, Accept(d) \/ ClientStep(d) \/ ClientGivesUp(d) \/ ClientDrop(d)
        PROVE  UNCHANGED cause
    BY <2>5 DEF Accept, ClientStep, ClientConnect, ClientSendMsg01, ClientReadMsg2, ClientReadMsg4,
                ClientReadEof, ClientGivesUp, ClientDrop, histVars
  <2>6. QED
    BY <2>1, <2>3, <2>4, <2>5 DEF Next, Serve
<1>3. \A c \in Clients : decided[c] \in Statuses \ TrustedStatuses => decided'[c] = decided[c]
  <2>1. CASE GetReport
    <3>1. session \in Clients
      BY <2>1 DEF GetReport, ConnInv
    <3>2. UNCHANGED decided \/ decided' = [decided EXCEPT ![session] = VerdictFor(session)]
      BY <2>1 DEF GetReport
    <3>3. \A c \in Clients : decided[c] = "none" \/ decided[c] = VerdictFor(c)
      BY DEF VerdictInv
    <3>4. "none" \notin Statuses
      BY DEF Statuses
    <3>5. QED
      BY <3>1, <3>2, <3>3, <3>4 DEF TypeOK
  <2>2. CASE (Serve /\ ~GetReport) \/ AcceptFails \/ Signal \/ UNCHANGED vars
    BY <2>2 DEF Serve, ReadLine, ReadEof, GetSigrl, SendMsg2, SendMsg4, Disconnect,
                AcceptFails, Signal, vars, histVars
  <2>3. ASSUME NEW d \in Clients, Accept(d) \/ ClientStep(d) \/ ClientGivesUp(d) \/ ClientDrop(d)
        PROVE  UNCHANGED decided
    BY <2>3 DEF Accept, ClientStep, ClientConnect, ClientSendMsg01, ClientReadMsg2, ClientReadMsg4,
                ClientReadEof, ClientGivesUp, ClientDrop, histVars
  <2>4. QED
    BY <2>1, <2>2, <2>3 DEF Next
<1>4. QED
  BY <1>1, <1>2, <1>3 DEF BrokeOff, StatusLeft

\* The server stops.
LEMMA StopLeaves ==
  ASSUME IInv, RInv, pc' \in Stopped, CloseAll, BrokeOff => BrokeOff', StatusLeft => StatusLeft',
         \/ UNCHANGED cause
         \/ pc \in InSession /\ cause' = [cause EXCEPT ![peer] = "served"],
         UNCHANGED <<peer, session, rbuffer, wbuffer, toSP, toClient, client, dirty>>
  PROVE  RInv'
<1> USE DEF IInv, RInv
<1>1. pc' \notin {"accept"} \union InSession
  BY DEF Stopped, InSession
<1>2. \A c \in Clients : conn'[c] # "backlog" /\ (Met(c) => Met(c)')
  BY DEF CloseAll, Met
<1>3. CauseInv'
  BY <1>1, <1>2 DEF CauseInv, ConnInv, TypeOK, Met
<1>4. BacklogInv'
  BY <1>2 DEF BacklogInv
<1>5. FrameInv'
  BY <1>1 DEF FrameInv, InSession
<1>6. WriteInv'
  BY <1>1 DEF WriteInv, OwnToken, InSession
<1>7. CleanSessionsFrameRight'
  BY DEF CleanSessionsFrameRight, TypeOK, ConnInv
<1>8. QED
  BY <1>3, <1>4, <1>5, <1>6, <1>7

\* A signal, or an accept that fails, leaves the buffers as they are.
LEMMA SignalLeaves ==
  ASSUME IInv, RInv, [Next]_vars, Signal \/ AcceptFails
  PROVE  RInv'
<1>1. pc' \in Stopped /\ CloseAll /\ UNCHANGED <<peer, session, rbuffer, wbuffer, toSP, toClient, client, dirty, cause>>
  BY DEF Signal, AcceptFails, Stopped, histVars
<1>2. QED
  BY <1>1, StopLeaves, Blame DEF RInv

\* A session begins with what the buffers hold, and with what its client has sent.
LEMMA AcceptLeaves ==
  ASSUME IInv, RInv, [Next]_vars, NEW c \in Clients, Accept(c)
  PROVE  RInv'
<1> USE DEF IInv, RInv, Accept
<1>1. ~Met(c) /\ cause[c] = "none"
  BY DEF Met, CauseInv
<1>2. Met(c)' /\ \A d \in Clients \ {c} : conn'[d] = conn[d]
  BY DEF TypeOK, Met
<1>3. CauseInv'
  BY <1>1, <1>2 DEF CauseInv, Met
<1>4. BacklogInv'
  BY <1>1, <1>2 DEF BacklogInv, Met
<1>5. BrokeOff' <=> BrokeOff
  BY DEF BrokeOff
<1>6. Clean' => rbuffer = <<>> /\ wbuffer = <<>> /\ client[c] # "dropped"
  BY DEF Clean, TypeOK
<1>7. Framed' => rbuffer = <<>> /\ client[c] # "dropped"
  BY <1>5, <1>6 DEF Framed, FrameInv, BrokeOff
<1>8. client[c] # "dropped" =>
        \/ client[c] \in {"connected", "gaveup"} /\ toSP[c] = <<>>
        \/ client[c] = "wait2" /\ toSP[c] = <<Tok(c, "msg01"), Newline(c)>>
  BY <1>1 DEF BacklogInv, Msg01Line
<1>9. FrameInv'
  BY <1>7, <1>8 DEF FrameInv, NothingSent, LineSent
<1>10. WriteInv'
  BY <1>5, <1>6 DEF WriteInv, StatusLeft, OwnToken
<1>11. CleanSessionsFrameRight'
  BY <1>1 DEF CleanSessionsFrameRight, TypeOK
<1>12. QED
  BY <1>3, <1>4, <1>9, <1>10, <1>11

\* MsgIO::disconnect touches neither buffer.
LEMMA DisconnectLeaves ==
  ASSUME IInv, RInv, [Next]_vars, Disconnect
  PROVE  RInv'
<1> USE DEF IInv, RInv, Disconnect, histVars
<1>1. peer \in Clients /\ conn[peer] = "accepted"
  BY DEF ConnInv, InSession
<1>2. /\ Met(peer) /\ \A d \in Clients : Met(d)' <=> Met(d)
      /\ \A d \in Clients : conn'[d] = "backlog" => conn[d] = "backlog"
      /\ \A d \in Clients \ {peer} : toSP'[d] = toSP[d]
  BY <1>1 DEF TypeOK, Met
<1>3. CauseInv'
  BY <1>2 DEF CauseInv, InSession
<1>4. BacklogInv'
  BY <1>2 DEF BacklogInv
<1>5. FrameInv'
  BY DEF FrameInv, BrokeOff
<1>6. WriteInv'
  BY DEF WriteInv, BrokeOff, StatusLeft, OwnToken
<1>7. CleanSessionsFrameRight'
  BY DEF CleanSessionsFrameRight
<1>8. QED
  BY <1>3, <1>4, <1>5, <1>6, <1>7

-----------------------------------------------------------------------------
(* Steps of the session *)

\* What every step of the session that changes neither clients nor connections keeps.
LEMMA SessionLeaves ==
  ASSUME IInv, RInv, [Next]_vars, pc \in InSession,
         UNCHANGED <<peer, conn, client, dirty>>,
         \A d \in Clients \ {peer} : toSP'[d] = toSP[d],
         \/ UNCHANGED cause
         \/ pc' = "disconnect" /\ \E w \in Causes : cause' = [cause EXCEPT ![peer] = w],
         pc \notin {"disconnect"} /\ pc' \in InSession
  PROVE  /\ peer \in Clients /\ CauseInv' /\ BacklogInv'
         /\ Clean' <=> Clean
         /\ Framed' => Framed
         /\ \/ UNCHANGED cause
            \/ cause'[peer] \notin {"eof", "odd", "garbage"}
            \/ ~dirty[peer] => client[peer] \in {"gaveup", "dropped"}
            => CleanSessionsFrameRight'
<1> USE DEF IInv, RInv
<1>1. peer \in Clients /\ conn[peer] = "accepted" /\ Met(peer)
  BY DEF ConnInv, Met
<1>2. CauseInv'
  BY <1>1 DEF CauseInv, Met, TypeOK
<1>3. BacklogInv'
  BY <1>1 DEF BacklogInv, Met
<1>4. Clean' <=> Clean
  BY DEF Clean
<1>5. Framed' => Framed
  BY <1>4, Blame DEF Framed
<1>6. ASSUME \/ UNCHANGED cause
             \/ cause'[peer] \notin {"eof", "odd", "garbage"}
             \/ ~dirty[peer] => client[peer] \in {"gaveup", "dropped"}
      PROVE  CleanSessionsFrameRight'
  BY <1>1, <1>6 DEF CleanSessionsFrameRight, TypeOK
<1>7. QED
  BY <1>1, <1>2, <1>3, <1>4, <1>5, <1>6

\* IAS gives the revocation list and the report, or fails to: no stream changes.
LEMMA IasLeaves ==
  ASSUME IInv, RInv, [Next]_vars, GetSigrl \/ GetReport
  PROVE  RInv'
<1> USE DEF IInv, RInv
<1>1. /\ pc \in {"sigrl", "report"} /\ pc' \in {"send2", "send4", "disconnect"}
      /\ pc = "sigrl" => pc' \in {"send2", "disconnect"}
      /\ pc = "report" => pc' \in {"send4", "disconnect"}
      /\ UNCHANGED <<peer, session, rbuffer, wbuffer, conn, toSP, toClient, client, dirty>>
  BY DEF GetSigrl, GetReport, Leave, netVars
<1>2. \/ UNCHANGED cause
      \/ pc' = "disconnect" /\ cause' = [cause EXCEPT ![peer] = "ias"]
      \/ pc' = "disconnect" /\ cause' = [cause EXCEPT ![peer] = "evidence"]
  BY DEF GetSigrl, GetReport, Leave
<1>3. /\ peer \in Clients /\ CauseInv' /\ BacklogInv' /\ (Clean' <=> Clean) /\ (Framed' => Framed)
      /\ CleanSessionsFrameRight'
  <2>1. UNCHANGED cause \/ cause'[peer] \notin {"eof", "odd", "garbage"}
    BY <1>1, <1>2 DEF TypeOK, ConnInv, InSession
  <2>2. \/ UNCHANGED cause
        \/ pc' = "disconnect" /\ \E w \in Causes : cause' = [cause EXCEPT ![peer] = w]
    BY <1>2 DEF Causes
  <2>3. pc \in InSession /\ pc \notin {"disconnect"} /\ pc' \in InSession
    BY <1>1 DEF InSession
  <2>4. QED
    BY <1>1, <2>1, <2>2, <2>3, SessionLeaves
<1>4. FrameInv'
  <2>1. pc = "sigrl" /\ ~BrokeOff' => rbuffer = <<>>
    BY Blame DEF FrameInv, Framed, NothingSent
  <2>2. pc = "report" /\ ~BrokeOff' => rbuffer = <<>> /\ session = peer /\ client[peer] = "wait4"
    BY Blame DEF FrameInv
  <2>3. pc' = "send2" /\ Framed' => session = peer /\ client[peer] = "wait2" /\ NothingSent(peer)
    BY <1>1, <1>3 DEF FrameInv
  <2>4. QED
    BY <1>1, <2>1, <2>2, <2>3 DEF FrameInv, NothingSent
<1>5. WriteInv'
  BY <1>1, <1>3, Blame DEF WriteInv, OwnToken
<1>6. QED
  BY <1>3, <1>4, <1>5

\* recv finds the connection ended: MsgIO::read returns with what it has in rbuffer.
LEMMA ReadEofLeaves ==
  ASSUME IInv, RInv, [Next]_vars, ReadEof
  PROVE  RInv'
<1> USE DEF IInv, RInv
<1>1. /\ pc \in {"read01", "read3"} /\ pc' = "disconnect" /\ client[peer] \in ClientGone /\ toSP[peer] = <<>>
      /\ cause' = [cause EXCEPT ![peer] = "eof"]
      /\ UNCHANGED <<peer, session, rbuffer, wbuffer, conn, toSP, toClient, client, dirty>>
  BY DEF ReadEof, Leave, netVars
\* A client that waits for a message is not gone.
<1>2. Framed => NothingSent(peer) /\ client[peer] \in {"gaveup", "failed"} /\ (pc = "read01" => client[peer] = "gaveup")
  BY <1>1 DEF FrameInv, ClientGone
<1>3. Clean => client[peer] = "gaveup"
  BY <1>1, <1>2 DEF Framed, WriteInv
<1>4. ~dirty[peer] => client[peer] \in {"gaveup", "dropped"}
  BY <1>3 DEF Clean
<1>5. peer \in Clients /\ CauseInv' /\ BacklogInv' /\ CleanSessionsFrameRight'
  BY <1>1, <1>4, SessionLeaves DEF InSession, Causes
<1>6. FrameInv'
  <2>1. ~BrokeOff' => rbuffer = <<>>
    BY <1>2, Blame DEF Framed, NothingSent
  <2>2. QED
    BY <1>1, <2>1 DEF FrameInv
<1>7. WriteInv'
  BY <1>1, Blame DEF WriteInv, OwnToken
<1>8. QED
  BY <1>5, <1>6, <1>7

\* MsgIO::read in a session that frames its messages right takes whole lines and
\* leaves nothing behind them.
LEMMA ReadLineLeaves ==
  ASSUME IInv, RInv, [Next]_vars, ReadLine
  PROVE  RInv'
<1> USE DEF IInv, RInv
<1>1. /\ pc \in {"read01", "read3"}
      /\ UNCHANGED <<peer, wbuffer, conn, toClient, client, dirty>>
  BY DEF ReadLine
<1>2. peer \in Clients
  BY <1>1 DEF ConnInv, InSession
<1>3. PICK n \in 1 .. Len(toSP[peer]) :
        LET buf == rbuffer \o SubSeq(toSP[peer], 1, n) IN
        /\ toSP' = [toSP EXCEPT ![peer] = SubSeq(@, n + 1, Len(@))]
        /\ \/ /\ ~HasLine(buf)
              /\ rbuffer' = buf
              /\ UNCHANGED <<pc, session, cause>>
           \/ /\ HasLine(buf) /\ OddLine(buf)
              /\ Leave("odd")
           \/ /\ HasLine(buf) /\ ~OddLine(buf)
              /\ Leave("malloc")
           \/ /\ HasLine(buf) /\ ~OddLine(buf)
              /\ rbuffer' = AfterLine(buf)
              /\ UseMsg01(FirstLine(buf)) \/ UseMsg3(FirstLine(buf))
  BY DEF ReadLine
<1> DEFINE buf == rbuffer \o SubSeq(toSP[peer], 1, n)
           rest == SubSeq(toSP[peer], n + 1, Len(toSP[peer]))
           f == IF pc = "read01" THEN "msg01" ELSE "msg3"
<1>4. toSP'[peer] = rest /\ \A d \in Clients \ {peer} : toSP'[d] = toSP[d]
  BY <1>2, <1>3 DEF TypeOK
\* The lines of a session that framed its messages right are those of its client.
<1>5. ASSUME Framed
      PROVE  /\ LineSent(peer, f)
             /\ client[peer] = IF pc = "read01" THEN "wait2" ELSE "wait4"
             /\ pc = "read3" => session = peer
             /\ \/ buf = <<Tok(peer, f)>> /\ rest = <<Newline(peer)>>
                \/ buf = <<Tok(peer, f), Newline(peer)>> /\ rest = <<>>
             /\ ~HasLine(<<Tok(peer, f)>>)
             /\ LET line == <<Tok(peer, f), Newline(peer)>> IN
                ~OddLine(line) /\ FirstLine(line) = <<Tok(peer, f)>> /\ AfterLine(line) = <<>>
  <2>1. toSP[peer] # <<>>
    BY <1>3
  <2>2. /\ LineSent(peer, f) /\ client[peer] = IF pc = "read01" THEN "wait2" ELSE "wait4"
        /\ pc = "read3" => session = peer
    BY <1>1, <1>5, <2>1 DEF FrameInv, NothingSent
  <2>3. f \in Fields \ {"newline", "odd"}
    BY DEF Fields
  <2>4. \/ buf = <<Tok(peer, f)>> /\ rest = <<Newline(peer)>>
        \/ buf = <<Tok(peer, f), Newline(peer)>> /\ rest = <<>>
    BY <1>2, <1>3, <2>2, <2>3, RecvOfLine
  <2>5. /\ Tok(peer, f) \in Token /\ Newline(peer) \in Token
        /\ Tok(peer, f).is \notin {"newline", "odd"} /\ Newline(peer).is = "newline"
    BY <1>2, <2>3 DEF Tok, Newline, Token, Fields
  <2>6. QED
    BY <2>2, <2>4, <2>5, WholeLine
<1> HIDE DEF buf, rest, f
<1>6. \/ pc' = pc /\ rbuffer' = buf /\ UNCHANGED <<session, cause>> /\ ~HasLine(buf)
      \/ pc' = "disconnect" /\ cause' = [cause EXCEPT ![peer] = "odd"] /\ HasLine(buf) /\ OddLine(buf)
      \/ pc' = "disconnect" /\ cause' = [cause EXCEPT ![peer] = "malloc"]
      \/ /\ HasLine(buf) /\ rbuffer' = AfterLine(buf)
         /\ \/ /\ pc = "read01" /\ pc' = "sigrl" /\ UNCHANGED cause
               /\ session' = Msg01Owner(FirstLine(buf))
            \/ /\ pc = "read01" /\ pc' = "disconnect" /\ cause' = [cause EXCEPT ![peer] = "garbage"]
               /\ Msg01Owner(FirstLine(buf)) = NoClient
            \/ pc = "read3" /\ pc' = "report" /\ UNCHANGED <<session, cause>>
            \/ /\ pc = "read3" /\ pc' = "disconnect" /\ cause' = [cause EXCEPT ![peer] = "garbage"]
               /\ ~GenuineMsg3(FirstLine(buf))
  BY <1>3 DEF buf, UseMsg01, UseMsg3, Leave
\* If it is the whole line, the server goes on with it, unless malloc fails.
<1>7. ASSUME Framed
      PROVE  /\ ~HasLine(buf) => buf = <<Tok(peer, f)>> /\ rest = <<Newline(peer)>>
             /\ HasLine(buf) => AfterLine(buf) = <<>> /\ rest = <<>> /\ ~OddLine(buf)
             /\ HasLine(buf) /\ pc = "read01" => Msg01Owner(FirstLine(buf)) = peer /\ peer # NoClient
             /\ HasLine(buf) /\ pc = "read3" => GenuineMsg3(FirstLine(buf))
  <2>1. Msg01Owner(<<Tok(peer, "msg01")>>) = peer
    BY DEF Msg01Owner, Tok
  <2>2. peer # NoClient
    BY <1>2, ServerAssumption
  <2>3. pc = "read3" => GenuineMsg3(<<Tok(peer, "msg3")>>)
    BY <1>5, <1>7, <2>2 DEF GenuineMsg3
  <2>4. HasLine(<<Tok(peer, f), Newline(peer)>>)
    BY DEF HasLine, Newline, Tok
  <2>5. CASE buf = <<Tok(peer, f)>> /\ rest = <<Newline(peer)>>
    BY <1>5, <1>7, <2>5
  <2>6. CASE buf = <<Tok(peer, f), Newline(peer)>> /\ rest = <<>>
    BY <1>1, <1>5, <1>7, <2>1, <2>2, <2>3, <2>4, <2>6 DEF f
  <2>7. QED
    BY <1>5, <1>7, <2>5, <2>6
<1>8. /\ CauseInv' /\ BacklogInv' /\ (Clean' <=> Clean) /\ (Framed' => Framed)
      /\ CleanSessionsFrameRight'
  <2>1. \/ UNCHANGED cause
        \/ pc' = "disconnect" /\ \E w \in Causes : cause' = [cause EXCEPT ![peer] = w]
    BY <1>6 DEF Causes
  <2>2. ASSUME cause' # cause, cause'[peer] \in {"odd", "garbage"}
        PROVE  ~Framed
    <3>1. SUFFICES ASSUME Framed PROVE FALSE
      OBVIOUS
    <3>2. \/ HasLine(buf) /\ OddLine(buf)
          \/ HasLine(buf) /\ pc = "read01" /\ Msg01Owner(FirstLine(buf)) = NoClient
          \/ HasLine(buf) /\ pc = "read3" /\ ~GenuineMsg3(FirstLine(buf))
      BY <1>2, <1>6, <2>2 DEF TypeOK
    <3>3. QED
      BY <1>7, <3>1, <3>2
  <2>3. UNCHANGED cause \/ cause'[peer] \in {"odd", "malloc", "garbage"}
    BY <1>2, <1>6 DEF TypeOK
  <2>4. ~Framed /\ ~dirty[peer] => client[peer] = "dropped"
    BY DEF Framed, Clean
  <2>5. \/ UNCHANGED cause
        \/ cause'[peer] \notin {"eof", "odd", "garbage"}
        \/ ~dirty[peer] => client[peer] \in {"gaveup", "dropped"}
    BY <2>2, <2>3, <2>4
  <2>6. pc \in InSession /\ pc \notin {"disconnect"} /\ pc' \in InSession
    BY <1>1, <1>6 DEF InSession
  <2>7. QED
    BY <1>1, <1>4, <2>1, <2>5, <2>6, SessionLeaves
<1>9. FrameInv'
  <2>1. CASE ~Framed
    <3>1. ~Framed' /\ BrokeOff'
      BY <1>8, <2>1, Blame DEF Framed
    <3>2. QED
      BY <3>1 DEF FrameInv
  <2>2. CASE Framed
    <3>1. CASE pc' = pc /\ rbuffer' = buf /\ UNCHANGED <<session, cause>> /\ ~HasLine(buf)
      <4>1. LineSent(peer, f)'
        BY <1>1, <1>4, <1>7, <2>2, <3>1 DEF LineSent, f
      <4>2. QED
        BY <1>1, <1>5, <2>2, <3>1, <4>1 DEF FrameInv, f
    <3>2. CASE pc' = "disconnect" /\ cause' = [cause EXCEPT ![peer] = "malloc"]
      <4>1. BrokeOff'
        BY <1>2, <3>2 DEF BrokeOff, TypeOK
      <4>2. QED
        BY <3>2, <4>1 DEF FrameInv
    <3>3. CASE HasLine(buf) /\ rbuffer' = AfterLine(buf)
      <4>1. NothingSent(peer)'
        BY <1>1, <1>4, <1>7, <2>2, <3>3 DEF NothingSent
      <4>2. QED
        BY <1>1, <1>5, <1>6, <1>7, <2>2, <3>3, <4>1 DEF FrameInv, NothingSent
    <3>4. CASE pc' = "disconnect" /\ cause' = [cause EXCEPT ![peer] = "odd"] /\ HasLine(buf) /\ OddLine(buf)
      BY <1>7, <2>2, <3>4
    <3>5. QED
      BY <1>6, <3>1, <3>2, <3>3, <3>4
  <2>3. QED
    BY <2>1, <2>2
<1>10. WriteInv'
  BY <1>1, <1>6, <1>8, Blame DEF WriteInv, OwnToken
<1>11. QED
  BY <1>8, <1>9, <1>10

\* In a session whose client stays and frames its messages right, send empties
\* wbuffer into the socket.
LEMMA SendWaits ==
  ASSUME IInv, NEW out, NEW next, Send(out, next), peer \in Clients,
         client[peer] \in {"wait2", "wait4"}
  PROVE  /\ wbuffer' = <<>> /\ pc' = next /\ UNCHANGED conn
         /\ toClient'[peer] = toClient[peer] \o (wbuffer \o out)
         /\ \A d \in Clients \ {peer} : toClient'[d] = toClient[d]
<1>1. client[peer] \notin ClientGone
  BY DEF ClientGone
<1>2. toClient' = [toClient EXCEPT ![peer] = @ \o (wbuffer \o out)]
  BY <1>1 DEF Send
<1>3. wbuffer' = <<>> /\ pc' = next /\ UNCHANGED conn
  BY <1>1 DEF Send
<1>4. QED
  BY <1>2, <1>3 DEF IInv, TypeOK

\* A send ends in the next step of the session, or the signal SIGPIPE ends the server.
LEMMA SendEnds ==
  ASSUME NEW out, NEW next, Send(out, next)
  PROVE  \/ pc' = next /\ UNCHANGED conn
         \/ pc' \in Stopped /\ CloseAll /\ UNCHANGED <<wbuffer, toClient>>
BY DEF Send, Stopped

\* After the send of msg2 the client, if the session frames its messages right, has
\* its msg2 and nothing else.
LEMMA SendMsg2Leaves ==
  ASSUME IInv, RInv, [Next]_vars, SendMsg2
  PROVE  RInv'
<1> USE DEF IInv, RInv
<1> DEFINE Msg2 == Msg2Line(session)
<1>1. /\ pc = "send2" /\ Send(Msg2, "read3")
      /\ UNCHANGED <<peer, session, rbuffer, toSP, client, dirty, cause>>
  BY DEF SendMsg2, histVars
<1>2. peer \in Clients /\ toClient[peer] = <<>> /\ wbuffer \in Seq(Token)
  BY <1>1, StreamTypes DEF ConnInv, InSession, Msg2Inv
<1> HIDE DEF Msg2
<1>3. CASE pc' \in Stopped /\ CloseAll /\ UNCHANGED <<wbuffer, toClient>>
  BY <1>1, <1>3, StopLeaves, Blame
<1>4. CASE pc' = "read3" /\ UNCHANGED conn
  <2>1. CauseInv' /\ BacklogInv' /\ (Clean' <=> Clean) /\ (Framed' => Framed) /\ CleanSessionsFrameRight'
    BY <1>1, <1>4, SessionLeaves DEF InSession
  <2>2. ASSUME Framed
        PROVE  /\ session = peer /\ client[peer] = "wait2" /\ NothingSent(peer)
               /\ wbuffer' = <<>> /\ toClient'[peer] = wbuffer \o Msg2
               /\ \A d \in Clients \ {peer} : toClient'[d] = toClient[d]
    <3>1. session = peer /\ client[peer] = "wait2" /\ NothingSent(peer)
      BY <1>1, <2>2 DEF FrameInv
    <3>2. /\ wbuffer' = <<>> /\ toClient'[peer] = <<>> \o (wbuffer \o Msg2)
          /\ \A d \in Clients \ {peer} : toClient'[d] = toClient[d]
      BY <1>1, <1>2, <3>1, SendWaits
    <3>3. Msg2 \in Seq(Token)
      <4>1. Tok(session, "msg2") \in Token /\ Newline(session) \in Token
        BY <1>2, <3>1 DEF Tok, Newline, Token, Fields
      <4>2. QED
        BY <4>1 DEF Msg2, Msg2Line
    <3>4. wbuffer \o Msg2 \in Seq(Token)
      BY <1>2, <3>3, ConcatProperties
    <3>5. <<>> \o (wbuffer \o Msg2) = wbuffer \o Msg2
      BY <3>4, ConcatEmptySeq
    <3>6. QED
      BY <3>1, <3>2, <3>5
  <2>3. FrameInv'
    BY <1>1, <1>4, <2>1, <2>2 DEF FrameInv, NothingSent
  <2>4. wbuffer = <<>> /\ Framed => toClient'[peer] = Msg2Line(peer)
    <3>1. SUFFICES ASSUME wbuffer = <<>>, Framed
                   PROVE  toClient'[peer] = Msg2Line(peer)
      OBVIOUS
    <3>2. Tok(peer, "msg2") \in Token /\ Newline(peer) \in Token
      BY <1>2 DEF Tok, Newline, Token, Fields
    <3>3. <<>> \o Msg2Line(peer) = Msg2Line(peer)
      BY <3>2, ShortSeqs DEF Msg2Line
    <3>4. QED
      BY <2>2, <3>1, <3>3 DEF Msg2
  <2>5. Msg2Line(peer) \in Seq(OwnToken(peer))
    <3>1. Tok(peer, "msg2") \in OwnToken(peer) /\ Newline(peer) \in OwnToken(peer)
      BY <1>2 DEF OwnToken, Tok, Newline, Token, Fields
    <3>2. QED
      BY <3>1 DEF Msg2Line
  <2>6. /\ Clean => wbuffer' = <<>> /\ client[peer] = "wait2" /\ toClient'[peer] = Msg2Line(peer)
    BY <1>1, <2>2, <2>4 DEF WriteInv, Framed
  <2>7. ~BrokeOff' /\ ~StatusLeft' =>
           wbuffer' = <<>> /\ \A d \in Clients : toClient'[d] \in Seq(OwnToken(d))
    BY <1>2, <2>2, <2>4, <2>5, Blame DEF WriteInv, Framed
  <2>8. WriteInv'
    BY <1>1, <1>4, <2>1, <2>6, <2>7 DEF WriteInv, OwnToken
  <2>9. QED
    BY <2>1, <2>3, <2>8
<1>5. QED
  BY <1>1, <1>3, <1>4, SendEnds

\* After the end of process_msg3 something stays in wbuffer only if the client is
\* gone, or if the status is not one of trust.
LEMMA SendMsg4Leaves ==
  ASSUME IInv, RInv, [Next]_vars, SendMsg4
  PROVE  RInv'
<1> USE DEF IInv, RInv
<1> DEFINE Msg4 == <<Tok(session, status), Tok(session, "ciphertext"), Newline(session)>>
<1>1. /\ pc = "send4" /\ cause' = [cause EXCEPT ![peer] = "served"]
      /\ UNCHANGED <<peer, session, status, rbuffer, toSP, client, dirty, decided>>
  BY DEF SendMsg4
<1>2. \/ status \in TrustedStatuses /\ Send(Msg4, "disconnect")
      \/ status \notin TrustedStatuses /\ pc' = "disconnect" /\ UNCHANGED <<toClient, conn>>
  BY DEF SendMsg4
<1>3. peer \in Clients /\ session \in Clients /\ status \in Statuses /\ decided[session] = status
  BY <1>1 DEF ConnInv, InSession, VerdictInv, TypeOK
<1> HIDE DEF Msg4
<1>4. CASE pc' \in Stopped /\ CloseAll /\ UNCHANGED <<wbuffer, toClient>>
  <2>1. pc \in InSession
    BY <1>1 DEF InSession
  <2>2. QED
    BY <1>1, <1>4, <2>1, StopLeaves, Blame
<1>5. CASE pc' = "disconnect" /\ UNCHANGED conn
  <2>1. CauseInv' /\ BacklogInv' /\ (Framed' => Framed) /\ CleanSessionsFrameRight'
    <3>1. cause'[peer] = "served" /\ "served" \in Causes
      BY <1>1, <1>3 DEF TypeOK, Causes
    <3>2. pc \in InSession /\ pc \notin {"disconnect"} /\ pc' \in InSession
      BY <1>1, <1>5 DEF InSession
    <3>3. \E w \in Causes : cause' = [cause EXCEPT ![peer] = w]
      BY <1>1, <3>1
    <3>4. QED
      BY <1>1, <1>5, <3>1, <3>2, <3>3, SessionLeaves
  <2>2. ~BrokeOff' => rbuffer' = <<>> /\ session = peer /\ client[peer] = "wait4"
    BY <1>1, Blame DEF FrameInv
  <2>3. FrameInv'
    BY <1>5, <2>2 DEF FrameInv
  <2>4. ASSUME ~BrokeOff', ~StatusLeft'
        PROVE  wbuffer' = <<>> /\ \A d \in Clients : toClient'[d] \in Seq(OwnToken(d))
    <3>1. session = peer /\ client[peer] = "wait4"
      BY <2>2, <2>4
    <3>2. status \in TrustedStatuses
      BY <1>1, <1>3, <2>4 DEF StatusLeft
    <3>3. /\ wbuffer' = <<>> /\ toClient'[peer] = toClient[peer] \o (wbuffer \o Msg4)
          /\ \A d \in Clients \ {peer} : toClient'[d] = toClient[d]
      BY <1>2, <1>3, <3>1, <3>2, SendWaits
    <3>4. wbuffer = <<>> /\ \A d \in Clients : toClient[d] \in Seq(OwnToken(d))
      BY <2>4, Blame DEF WriteInv
    <3>5. Msg4 \in Seq(OwnToken(peer))
      <4>1. /\ Tok(peer, status) \in OwnToken(peer) /\ Tok(peer, "ciphertext") \in OwnToken(peer)
            /\ Newline(peer) \in OwnToken(peer)
        BY <1>3 DEF OwnToken, Tok, Newline, Token, Fields
      <4>2. QED
        BY <3>1, <4>1 DEF Msg4
    <3>6. toClient'[peer] \in Seq(OwnToken(peer))
      <4>1. wbuffer \in Seq(OwnToken(peer))
        BY <3>4, EmptySeq
      <4>2. wbuffer \o Msg4 \in Seq(OwnToken(peer))
        BY <3>5, <4>1, ConcatProperties
      <4>3. QED
        BY <1>3, <3>3, <3>4, <4>2, ConcatProperties
    <3>7. QED
      BY <3>3, <3>4, <3>6
  <2>5. WriteInv'
    BY <1>5, <2>4 DEF WriteInv, OwnToken
  <2>6. QED
    BY <2>1, <2>3, <2>5
<1>6. QED
  BY <1>2, <1>4, <1>5, SendEnds

-----------------------------------------------------------------------------
(* Steps of the clients *)

\* What every step of a client keeps.  It is the session's client only if the
\* step is one its state allows.
LEMMA ClientLeaves ==
  ASSUME IInv, RInv, [Next]_vars, NEW c \in Clients,
         UNCHANGED <<pc, peer, session, rbuffer, wbuffer, dirty, cause>>,
         \A d \in Clients \ {c} : /\ conn'[d] = conn[d] /\ client'[d] = client[d]
                                  /\ toSP'[d] = toSP[d] /\ toClient'[d] = toClient[d],
         Met(c) => Met(c)'
  PROVE  /\ CauseInv'
         /\ (Clean' => Clean \/ pc \notin InSession) /\ (Framed' => Framed \/ pc \notin InSession)
         /\ pc \in InSession => peer \in Clients
         /\ ~Met(c) \/ client'[c] \in {"gaveup", "dropped"} \/ client[c] \in ClientAlive
              => CleanSessionsFrameRight'
         /\ pc \in InSession /\ c # peer => FrameInv'
         /\ pc \notin InSession => FrameInv'
<1> USE DEF IInv, RInv
<1>1. CauseInv'
  BY DEF CauseInv, Met
<1>2. pc \in InSession => peer \in Clients
  BY DEF ConnInv
<1>3. pc \in InSession /\ Clean' => Clean
  BY <1>2, Blame DEF Clean
<1>4. pc \in InSession /\ Framed' => Framed
  BY <1>3, Blame DEF Framed
<1>5. ASSUME ~Met(c) \/ client'[c] \in {"gaveup", "dropped"} \/ client[c] \in ClientAlive
      PROVE  CleanSessionsFrameRight'
  BY <1>5 DEF CleanSessionsFrameRight, CauseInv, ClientAlive
<1>6. ASSUME pc \in InSession, c # peer
      PROVE  FrameInv'
  <2>1. client'[peer] = client[peer] /\ toSP'[peer] = toSP[peer]
    BY <1>2, <1>6
  <2>2. /\ NothingSent(peer) => NothingSent(peer)'
        /\ \A f \in Fields : LineSent(peer, f) => LineSent(peer, f)'
    BY <2>1 DEF NothingSent, LineSent
  <2>3. "msg01" \in Fields /\ "msg3" \in Fields
    BY DEF Fields
  <2>4. BrokeOff => BrokeOff'
    BY Blame
  <2>5. QED
    BY <1>4, <1>6, <2>1, <2>2, <2>3, <2>4 DEF FrameInv
<1>7. ASSUME pc \notin InSession
      PROVE  FrameInv'
  BY <1>7, Blame DEF FrameInv, InSession
<1>8. QED
  BY <1>1, <1>2, <1>3, <1>4, <1>5, <1>6, <1>7

\* The MsgIO constructor of a client connects, with nothing sent so far.
LEMMA ClientConnectLeaves ==
  ASSUME IInv, RInv, [Next]_vars, NEW c \in Clients, ClientConnect(c)
  PROVE  RInv'
<1> USE DEF IInv, RInv
<1>1. /\ client[c] = "start" /\ conn[c] = "none" /\ ~Met(c) /\ toSP[c] = <<>>
      /\ UNCHANGED <<pc, peer, session, rbuffer, wbuffer, toSP, toClient, dirty, cause>>
      /\ client'[c] \in {"connected", "failed"}
      /\ conn'[c] = "backlog" => client'[c] = "connected"
      /\ \A d \in Clients \ {c} : conn'[d] = conn[d] /\ client'[d] = client[d]
  BY DEF ClientConnect, ConnInv, BacklogInv, TypeOK, spVars, histVars, Met
<1>2. pc \in InSession => c # peer
  BY <1>1 DEF ConnInv
<1>3. CauseInv' /\ CleanSessionsFrameRight' /\ FrameInv'
      /\ (Clean' => Clean \/ pc \notin InSession)
  BY <1>1, <1>2, ClientLeaves
<1>4. BacklogInv'
  BY <1>1 DEF BacklogInv, Met
<1>5. WriteInv'
  BY <1>1, <1>2, <1>3, Blame DEF WriteInv, OwnToken, InSession, ConnInv
<1>6. QED
  BY <1>3, <1>4, <1>5

\* A client sends its msg0||msg1: to a server that has nothing else of it.
LEMMA ClientSendMsg01Leaves ==
  ASSUME IInv, RInv, [Next]_vars, NEW c \in Clients, ClientSendMsg01(c)
  PROVE  RInv'
<1> USE DEF IInv, RInv
<1>1. /\ client[c] = "connected" /\ client'[c] = "wait2" /\ toSP'[c] = toSP[c] \o Msg01Line(c)
      /\ UNCHANGED <<pc, peer, session, rbuffer, wbuffer, conn, toClient, dirty, cause>>
      /\ \A d \in Clients \ {c} : toSP'[d] = toSP[d] /\ client'[d] = client[d]
  BY DEF ClientSendMsg01, TypeOK, spVars, histVars
<1>2. <<>> \o Msg01Line(c) = <<Tok(c, "msg01"), Newline(c)>>
  <2>1. Tok(c, "msg01") \in Token /\ Newline(c) \in Token
    BY DEF Tok, Newline, Token, Fields
  <2>2. QED
    BY <2>1, ShortSeqs DEF Msg01Line
<1>3. /\ CauseInv' /\ CleanSessionsFrameRight'
      /\ (Clean' => Clean \/ pc \notin InSession) /\ (Framed' => Framed \/ pc \notin InSession)
      /\ (c # peer \/ pc \notin InSession => FrameInv')
  BY <1>1, ClientLeaves DEF Met, ClientAlive
<1>4. BacklogInv'
  BY <1>1, <1>2 DEF BacklogInv, Met, Msg01Line
<1>5. ASSUME c = peer, pc \in InSession
      PROVE  FrameInv'
  <2>1. pc = "read01" /\ Framed => LineSent(peer, "msg01")'
    BY <1>1, <1>2, <1>5 DEF FrameInv, NothingSent, LineSent
  <2>2. pc \in {"sigrl", "send2", "read3"} => ~Framed
    BY <1>1, <1>5 DEF FrameInv
  <2>3. pc \in {"report", "send4"} => BrokeOff
    BY <1>1, <1>5 DEF FrameInv
  <2>4. QED
    BY <1>1, <1>3, <1>5, <2>1, <2>2, <2>3, Blame DEF FrameInv
<1>6. WriteInv'
  <2>1. pc = "read3" /\ Clean => c # peer
    BY <1>1 DEF FrameInv, Framed
  <2>2. QED
    BY <1>1, <1>3, <2>1, Blame DEF WriteInv, OwnToken, InSession, ConnInv
<1>7. QED
  BY <1>3, <1>4, <1>5, <1>6

\* A client takes msg2 and answers it with msg3, or finds another line there.
LEMMA ClientReadMsg2Leaves ==
  ASSUME IInv, RInv, [Next]_vars, NEW c \in Clients, ClientReadMsg2(c)
  PROVE  RInv'
<1> USE DEF IInv, RInv
<1>1. /\ client[c] = "wait2" /\ HasLine(toClient[c]) /\ toClient'[c] = AfterLine(toClient[c])
      /\ \/ client'[c] = "wait4" /\ toSP'[c] = toSP[c] \o Msg3Line(c)
         \/ toClient[c][1] # Tok(c, "msg2") /\ client'[c] = "failed" /\ toSP'[c] = toSP[c]
      /\ UNCHANGED <<pc, peer, session, rbuffer, wbuffer, conn, dirty, cause>>
      /\ \A d \in Clients \ {c} : /\ toSP'[d] = toSP[d] /\ client'[d] = client[d]
                                  /\ toClient'[d] = toClient[d]
  BY DEF ClientReadMsg2, TypeOK, spVars, histVars
<1>2. toClient[c] # <<>> /\ Met(c)
  BY <1>1 DEF HasLine, ConnInv
<1>3. <<>> \o Msg3Line(c) = <<Tok(c, "msg3"), Newline(c)>>
  <2>1. Tok(c, "msg3") \in Token /\ Newline(c) \in Token
    BY DEF Tok, Newline, Token, Fields
  <2>2. QED
    BY <2>1, ShortSeqs DEF Msg3Line
<1>4. /\ CauseInv' /\ CleanSessionsFrameRight'
      /\ (Clean' => Clean \/ pc \notin InSession) /\ (Framed' => Framed \/ pc \notin InSession)
      /\ (c # peer \/ pc \notin InSession => FrameInv')
  BY <1>1, ClientLeaves DEF Met, ClientAlive
<1>5. BacklogInv'
  BY <1>1, <1>2 DEF BacklogInv, Met
<1>6. c = peer => pc \notin {"read01", "sigrl", "send2"}
  BY <1>2 DEF Msg2Inv
<1>7. ASSUME c = peer, pc \in InSession
      PROVE  FrameInv'
  <2>1. pc = "read3" /\ Framed =>
          /\ session = peer
          /\ \/ client'[peer] = "failed" /\ NothingSent(peer)'
             \/ client'[peer] = "wait4" /\ LineSent(peer, "msg3")'
    BY <1>1, <1>3, <1>7 DEF FrameInv, NothingSent, LineSent
  <2>2. pc \in {"report", "send4"} => BrokeOff
    BY <1>1, <1>7 DEF FrameInv
  <2>3. QED
    BY <1>1, <1>4, <1>6, <1>7, <2>1, <2>2, Blame DEF FrameInv
<1>8. WriteInv'
  <2>1. toClient[c] \in Seq(OwnToken(c)) => toClient'[c] \in Seq(OwnToken(c))
    BY <1>1, AfterLineProperties
  <2>2. pc = "read3" /\ Clean /\ c = peer => client'[peer] = "wait4"
    <3>1. pc = "read3" /\ Clean /\ c = peer => toClient[c] = Msg2Line(c)
      BY <1>1 DEF WriteInv
    <3>2. Msg2Line(c)[1] = Tok(c, "msg2")
      BY DEF Msg2Line
    <3>3. QED
      BY <1>1, <3>1, <3>2
  <2>3. ~BrokeOff' /\ ~StatusLeft' => wbuffer' = <<>> /\ \A d \in Clients : toClient'[d] \in Seq(OwnToken(d))
    BY <1>1, <2>1, Blame DEF WriteInv
  <2>4. QED
    BY <1>1, <1>4, <2>2, <2>3 DEF WriteInv, OwnToken, InSession, ConnInv
<1>9. QED
  BY <1>4, <1>5, <1>7, <1>8

\* A client takes msg4, or sees its connection end: the server is not in its
\* session, or is about to leave it.
LEMMA ClientEndLeaves ==
  ASSUME IInv, RInv, [Next]_vars, NEW c \in Clients, ClientReadMsg4(c) \/ ClientReadEof(c)
  PROVE  RInv'
<1> USE DEF IInv, RInv
<1>1. /\ client[c] \in {"wait2", "wait4"} /\ client'[c] \in {"attested", "refused", "failed"}
      /\ \/ client[c] = "wait4" /\ HasLine(toClient[c]) /\ toClient'[c] = AfterLine(toClient[c])
         \/ conn[c] = "closed" /\ toClient'[c] = <<>>
      /\ UNCHANGED <<pc, peer, session, rbuffer, wbuffer, conn, toSP, dirty, cause>>
      /\ \A d \in Clients \ {c} : client'[d] = client[d] /\ toClient'[d] = toClient[d]
  BY DEF ClientReadMsg4, ClientReadEof, TypeOK, spVars, histVars
<1>2. Met(c)
  BY <1>1 DEF ConnInv, Met
<1>3. pc \in InSession \ {"disconnect"} => c # peer
  <2>1. HasLine(toClient[c]) => toClient[c] # <<>>
    BY DEF HasLine
  <2>2. QED
    BY <1>1, <2>1 DEF ConnInv, Msg4Inv
<1>4. /\ CauseInv' /\ CleanSessionsFrameRight'
      /\ (Clean' => Clean \/ pc \notin InSession)
      /\ (c # peer \/ pc \notin InSession => FrameInv')
  BY <1>1, ClientLeaves DEF Met, ClientAlive
<1>5. BacklogInv'
  BY <1>1, <1>2 DEF BacklogInv, Met
<1>6. FrameInv'
  <2>1. CASE pc = "disconnect"
    BY <1>1, <2>1, Blame DEF FrameInv
  <2>2. QED
    BY <1>3, <1>4, <2>1
<1>7. WriteInv'
  <2>1. toClient[c] \in Seq(OwnToken(c)) => toClient'[c] \in Seq(OwnToken(c))
    BY <1>1, AfterLineProperties, EmptySeq
  <2>2. ~BrokeOff' /\ ~StatusLeft' => wbuffer' = <<>> /\ \A d \in Clients : toClient'[d] \in Seq(OwnToken(d))
    BY <1>1, <2>1, Blame DEF WriteInv
  <2>3. QED
    BY <1>1, <1>3, <1>4, <2>2 DEF WriteInv, OwnToken, InSession, ConnInv
<1>8. QED
  BY <1>4, <1>5, <1>6, <1>7

\* A client closes its socket: the server has all that it has sent.
LEMMA ClientGivesUpLeaves ==
  ASSUME IInv, RInv, [Next]_vars, NEW c \in Clients, ClientGivesUp(c)
  PROVE  RInv'
<1> USE DEF IInv, RInv
<1>1. /\ client'[c] = "gaveup"
      /\ \/ client[c] = "connected" /\ toClient'[c] = toClient[c]
         \/ client[c] = "wait2" /\ HasLine(toClient[c]) /\ toClient'[c] = <<>>
      /\ UNCHANGED <<pc, peer, session, rbuffer, wbuffer, conn, toSP, dirty, cause>>
      /\ \A d \in Clients \ {c} : client'[d] = client[d] /\ toClient'[d] = toClient[d]
  BY DEF ClientGivesUp, TypeOK, spVars, histVars
<1>2. client[c] = "wait2" => Met(c) /\ toClient[c] # <<>>
  BY <1>1 DEF ConnInv, HasLine
<1>3. /\ CauseInv' /\ CleanSessionsFrameRight'
      /\ (Clean' => Clean \/ pc \notin InSession) /\ (Framed' => Framed \/ pc \notin InSession)
      /\ (c # peer \/ pc \notin InSession => FrameInv')
  BY <1>1, ClientLeaves DEF Met
<1>4. BacklogInv'
  BY <1>1, <1>2 DEF BacklogInv, Met
<1>5. ASSUME c = peer, pc \in InSession
      PROVE  FrameInv'
  <2>1. pc \in {"read01", "read3"} /\ Framed => NothingSent(peer)' /\ (pc = "read3" => session = peer)
    BY <1>1, <1>2, <1>5 DEF FrameInv, NothingSent, Msg2Inv
  <2>2. pc \in {"sigrl", "send2"} => ~Framed
    BY <1>1, <1>2, <1>5 DEF FrameInv, Msg2Inv
  <2>3. pc \in {"report", "send4"} => BrokeOff
    BY <1>1, <1>5 DEF FrameInv
  <2>4. QED
    BY <1>1, <1>3, <1>5, <2>1, <2>2, <2>3, Blame DEF FrameInv
<1>6. WriteInv'
  <2>1. ~BrokeOff' /\ ~StatusLeft' => wbuffer' = <<>> /\ \A d \in Clients : toClient'[d] \in Seq(OwnToken(d))
    BY <1>1, EmptySeq, Blame DEF WriteInv
  <2>2. QED
    BY <1>1, <1>3, <2>1 DEF WriteInv, OwnToken, InSession, ConnInv
<1>7. QED
  BY <1>3, <1>4, <1>5, <1>6

\* A host or the network fails: the client is to blame from now on.
LEMMA ClientDropLeaves ==
  ASSUME IInv, RInv, [Next]_vars, NEW c \in Clients, ClientDrop(c)
  PROVE  RInv'
<1> USE DEF IInv, RInv
<1>1. /\ client'[c] = "dropped" /\ BrokeOff'
      /\ UNCHANGED <<pc, peer, session, rbuffer, wbuffer, conn, dirty, cause>>
      /\ \A d \in Clients \ {c} : /\ toSP'[d] = toSP[d] /\ client'[d] = client[d]
                                  /\ toClient'[d] = toClient[d]
  BY DEF ClientDrop, TypeOK, spVars, histVars, BrokeOff
<1>2. /\ CauseInv' /\ CleanSessionsFrameRight'
      /\ (Clean' => Clean \/ pc \notin InSession)
      /\ (c # peer \/ pc \notin InSession => FrameInv')
  BY <1>1, ClientLeaves DEF Met
<1>3. c = peer => ~Clean' /\ ~Framed'
  BY <1>1 DEF Clean, Framed
<1>4. FrameInv'
  BY <1>1, <1>2, <1>3 DEF FrameInv
<1>5. BacklogInv'
  BY <1>1 DEF BacklogInv, Met
<1>6. WriteInv'
  BY <1>1, <1>2, <1>3 DEF WriteInv, OwnToken, InSession, ConnInv
<1>7. QED
  BY <1>2, <1>4, <1>5, <1>6

-----------------------------------------------------------------------------
(* The theorems about residue *)

\* The invariant holds initially.
LEMMA InitClean ==
  ASSUME Init
  PROVE  RInv
<1>1. CauseInv /\ BacklogInv
  BY DEF Init, CauseInv, BacklogInv, InSession, Met
<1>2. FrameInv /\ CleanSessionsFrameRight
  BY DEF Init, FrameInv, CleanSessionsFrameRight
<1>3. WriteInv
  BY EmptySeq DEF Init, WriteInv
<1>4. QED
  BY <1>1, <1>2, <1>3 DEF RInv

\* A step that changes nothing keeps the invariant.
LEMMA StutterLeaves ==
  ASSUME RInv, UNCHANGED vars
  PROVE  RInv'
<1> USE DEF RInv, vars, spVars, netVars, histVars
<1>1. CauseInv' /\ BacklogInv'
  BY DEF CauseInv, BacklogInv, Met
<1>2. FrameInv'
  BY DEF FrameInv, Framed, Clean, BrokeOff, NothingSent, LineSent
<1>3. WriteInv'
  BY DEF WriteInv, Clean, BrokeOff, StatusLeft, OwnToken
<1>4. CleanSessionsFrameRight'
  BY DEF CleanSessionsFrameRight
<1>5. QED
  BY <1>1, <1>2, <1>3, <1>4

\* The invariant is inductive.
LEMMA NextLeaves ==
  ASSUME IInv, RInv, [Next]_vars
  PROVE  RInv'
<1>1. CASE Serve
  BY <1>1, ReadLineLeaves, ReadEofLeaves, IasLeaves, SendMsg2Leaves, SendMsg4Leaves,
     DisconnectLeaves DEF Serve
<1>2. CASE AcceptFails \/ Signal
  BY <1>2, SignalLeaves
<1>3. ASSUME NEW c \in Clients, Accept(c) \/ ClientStep(c) \/ ClientGivesUp(c) \/ ClientDrop(c)
      PROVE  RInv'
  BY <1>3, AcceptLeaves, ClientConnectLeaves, ClientSendMsg01Leaves, ClientReadMsg2Leaves,
     ClientEndLeaves, ClientGivesUpLeaves, ClientDropLeaves DEF ClientStep
<1>4. CASE UNCHANGED vars
  BY <1>4, StutterLeaves
<1>5. QED
  BY <1>1, <1>2, <1>3, <1>4 DEF Next

\* Every reachable state satisfies the invariant about residue.
THEOREM ResidueInvariance == Spec => [](IInv /\ RInv)
<1>1. Init => IInv /\ RInv
  BY InitStep, InitClean
<1>2. IInv /\ RInv /\ [Next]_vars => IInv' /\ RInv'
  BY NextStep, NextLeaves
<1>3. QED
  BY <1>1, <1>2, PTL DEF Spec

\* Between sessions MsgIO's rbuffer is empty unless a client broke off or a malloc
\* failed, and its wbuffer unless, besides, a status was left unsent: disconnect clears neither.
THEOREM BuffersAreCleanWithoutCulprit == Spec => []ResidueHasACulprit
<1>1. IInv /\ RInv => ResidueHasACulprit
  BY DEF RInv, FrameInv, WriteInv, ResidueHasACulprit
<1>2. QED
  BY <1>1, ResidueInvariance, PTL

\* Without such a culprit MsgIO::send never hands a client bytes made for another one.
THEOREM StreamsAreOwnWithoutCulprit == Spec => []ForeignBytesHaveACulprit
<1>1. ASSUME RInv, ~BrokeOff, ~StatusLeft, NEW c \in Clients, NEW n \in DOMAIN toClient[c]
      PROVE  toClient[c][n].of = c
  <2>1. toClient[c] \in Seq(OwnToken(c))
    BY <1>1 DEF RInv, WriteInv
  <2>2. toClient[c][n] \in OwnToken(c)
    BY <1>1, <2>1, LenProperties, ElementOfSeq
  <2>3. QED
    BY <2>2 DEF OwnToken
<1>2. IInv /\ RInv => ForeignBytesHaveACulprit
  BY <1>1 DEF ForeignBytesHaveACulprit
<1>3. QED
  BY <1>2, ResidueInvariance, PTL

\* A session that begins with clean buffers and whose client stays is not ended by
\* MsgIO::read, or by what it made of the client's lines.
THEOREM CleanSessionsAreFramedRight == Spec => []CleanSessionsFrameRight
<1>1. IInv /\ RInv => CleanSessionsFrameRight
  BY DEF RInv
<1>2. QED
  BY <1>1, ResidueInvariance, PTL

-----------------------------------------------------------------------------
(* A wedged server *)

\* Bytes that recv appends do not change the line at the head of a buffer.
LEMMA LineKept ==
  ASSUME NEW s \in Seq(Token), NEW t \in Seq(Token), HasLine(s)
  PROVE  /\ HasLine(s \o t)
         /\ EndOfLine(s \o t) = EndOfLine(s)
         /\ OddLine(s \o t) <=> OddLine(s)
<1> DEFINE e == EndOfLine(s)
           b == s \o t
           d == EndOfLine(b)
<1>1. e \in 1 .. Len(s) /\ s[e].is = "newline" /\ \A m \in 1 .. e - 1 : s[m].is # "newline"
  BY EndOfLineProperties
<1>2. Len(s) \in Nat /\ Len(t) \in Nat
  BY LenProperties
<1>3. /\ b \in Seq(Token) /\ Len(b) = Len(s) + Len(t)
      /\ \A i \in 1 .. Len(s) + Len(t) : b[i] = IF i <= Len(s) THEN s[i] ELSE t[i - Len(s)]
  BY ConcatProperties
<1> HIDE DEF b, e
<1>4. \A i \in 1 .. e : b[i] = s[i]
  BY <1>1, <1>2, <1>3
<1>5. e \in DOMAIN b /\ b[e].is = "newline"
  <2>1. DOMAIN b = 1 .. Len(b)
    BY <1>3, LenProperties
  <2>2. QED
    BY <1>1, <1>2, <1>3, <1>4, <2>1
<1>6. HasLine(b)
  BY <1>5 DEF HasLine
<1>7. d \in 1 .. Len(b) /\ b[d].is = "newline" /\ \A m \in 1 .. d - 1 : b[m].is # "newline"
  BY <1>3, <1>6, EndOfLineProperties
<1> HIDE DEF d
<1>8. d = e
  <2>1. ~(e \in 1 .. d - 1)
    BY <1>5, <1>7
  <2>2. ~(d \in 1 .. e - 1)
    BY <1>1, <1>4, <1>7
  <2>3. d \in Nat /\ e \in Nat /\ d >= 1 /\ e >= 1
    BY <1>1, <1>2, <1>3, <1>7
  <2>4. QED
    BY <2>1, <2>2, <2>3
<1>9. {n \in 1 .. e - 1 : b[n].is = "odd"} = {n \in 1 .. e - 1 : s[n].is = "odd"}
  BY <1>1, <1>2, <1>4
<1>10. QED
  BY <1>6, <1>8, <1>9 DEF OddLine, b, d, e

\* MsgIO::read never gets past an odd line: the step that finds one leaves the
\* session and the line, and no other step takes anything from rbuffer or goes on
\* with a message.
LEMMA WedgedStep ==
  ASSUME IInv, [Next]_vars, Wedged
  PROVE  Wedged' /\ (pc' \in {"sigrl", "report"} => UNCHANGED pc)
<1>1. CASE ReadLine
  <2>1. peer \in Clients /\ rbuffer \in Seq(Token) /\ toSP[peer] \in Seq(Token)
    BY <1>1, StreamTypes DEF IInv, ConnInv, InSession, ReadLine
  <2>2. PICK n \in 1 .. Len(toSP[peer]) :
          LET buf == rbuffer \o SubSeq(toSP[peer], 1, n) IN
          \/ ~HasLine(buf)
          \/ OddLine(buf) /\ rbuffer' = buf /\ Leave("odd")
          \/ ~OddLine(buf)
    BY <1>1 DEF ReadLine
  <2> DEFINE t == SubSeq(toSP[peer], 1, n)
             buf == rbuffer \o t
  <2>3. t \in Seq(Token)
    BY <2>1, LenProperties, PartOfSeq
  <2> HIDE DEF t
  <2>4. HasLine(buf) /\ OddLine(buf)
    BY <2>1, <2>3, LineKept DEF Wedged
  <2>5. rbuffer' = buf /\ pc' = "disconnect"
    BY <2>2, <2>4 DEF Leave, t
  <2>6. QED
    BY <2>4, <2>5 DEF Wedged
<1>2. CASE Serve /\ ~ReadLine
  <2>1. UNCHANGED rbuffer
    BY <1>2 DEF Serve, ReadEof, GetSigrl, SendMsg2, GetReport, SendMsg4, Disconnect
  <2>2. pc' \notin {"sigrl", "report"}
    BY <1>2 DEF Serve, ReadEof, GetSigrl, SendMsg2, GetReport, SendMsg4, Disconnect, Send, Leave
  <2>3. QED
    BY <2>1, <2>2 DEF Wedged
<1>3. CASE AcceptFails \/ Signal \/ UNCHANGED vars
  BY <1>3 DEF AcceptFails, Signal, vars, spVars, Wedged
<1>4. ASSUME NEW c \in Clients, Accept(c) \/ ClientStep(c) \/ ClientGivesUp(c) \/ ClientDrop(c)
      PROVE  UNCHANGED rbuffer /\ (pc' = "read01" \/ UNCHANGED pc)
  BY <1>4 DEF Accept, ClientStep, ClientConnect, ClientSendMsg01, ClientReadMsg2, ClientReadMsg4,
              ClientReadEof, ClientGivesUp, ClientDrop, spVars
<1>5. CASE \E c \in Clients : Accept(c) \/ ClientStep(c) \/ ClientGivesUp(c) \/ ClientDrop(c)
  BY <1>4, <1>5 DEF Wedged
<1>6. QED
  BY <1>1, <1>2, <1>3, <1>5 DEF Next

\* Once an odd line is at the head of rbuffer MsgIO::read returns it to nobody and
\* nobody after it: the process serves no message until it is started anew.
THEOREM WedgedIsForGood == Spec => WedgedServesNobody
<1>1. IInv /\ [Next]_vars => [Wedged => Wedged' /\ (pc' \in {"sigrl", "report"} => UNCHANGED pc)]_vars
  BY WedgedStep
<1>2. QED
  BY <1>1, Invariance, PTL DEF Spec, WedgedServesNobody

==============================================================================
