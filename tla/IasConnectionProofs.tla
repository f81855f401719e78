-------------------------- MODULE IasConnectionProofs --------------------------
(***************************************************************************)
(* The safety properties of IasConnection, for any number of rotations of  *)
(* the subscription keys, chains of any length and both API versions: what *)
(* is read of a report was signed; a 401 ends no more sessions than the    *)
(* primary key has been revoked, as long as the secondary holds; agents    *)
(* and certificates are freed once, but for the leaks on record.           *)
(***************************************************************************)
EXTENDS IasConnection, SequenceTheorems, WellFoundedInduction, TLAPS

KeyTypes ==
  /\ key \in Keys /\ good \subseteq Keys /\ everBad \subseteq Keys
  /\ refused \in Nat /\ revoked \in Nat /\ rotations \in Nat

\* everBad forgets no key that IAS refuses now.
BadKnown == Keys \ good \subseteq everBad

\* currentKeyID does not change while a request is under way.
WireInv ==
  pc \in {"sigrlSent", "sigrlBack", "reportSent", "reportBack"} => wire = key

\* A 401 is about the key that the request carried.
RefusalInv ==
  pc \in {"sigrlBack", "reportBack"} /\ reply.status = 401 => wire \in everBad

\* The session under way has had its revocation list with the primary key, which
\* has been revoked since: a 401 that is still to come, or has come.
Owed ==
  /\ key = "Primary"
  /\ \/ pc \in {"msg3", "report", "reportSent"} /\ "Primary" \notin good
     \/ pc = "sigrlBack" /\ reply.status = 200 /\ "Primary" \notin good
     \/ pc = "reportBack" /\ reply.status = 401

\* Every refused session has a revocation of its own, the one under way too.
AccountInv ==
  "Secondary" \notin everBad => refused <= revoked /\ (Owed => refused < revoked)

\* What the checks of a report have established when the next one is made.
CheckedInv ==
  /\ pc \in {"signature", "version"} => Head(reply.chain) = "issued"
  /\ pc = "version" => SignatureHolds

IInv ==
  KeyTypes /\ BadKnown /\ WireInv /\ RefusalInv /\ AccountInv /\ CheckedInv
  /\ UsedReportsAreSigned

-----------------------------------------------------------------------------

\* The initial states satisfy the invariant.
LEMMA InitInv == Init => IInv
BY DEF Init, IInv, KeyTypes, Keys, BadKnown, WireInv, RefusalInv, AccountInv, Owed,
       CheckedInv, UsedReportsAreSigned, NoReply

\* The beginning of a session, and what happens between its two requests.
LEMMA SessionInv == IInv /\ Session => IInv'
BY DEF Session, Return, IInv, KeyTypes, BadKnown, WireInv, RefusalInv, AccountInv, Owed,
       CheckedInv, SignatureHolds, UsedReportsAreSigned, NoReply, conn, memory, ias, history

\* A query carries the current key.
LEMMA QueryInv == IInv /\ Query => IInv'
BY DEF Query, Return, IInv, KeyTypes, BadKnown, WireInv, RefusalInv, AccountInv, Owed,
       CheckedInv, SignatureHolds, UsedReportsAreSigned, NoReply, ias, history

\* A 401 is given to a key that is not accepted, a revocation list to one that is.
LEMMA AnswerInv == IInv /\ Answer => IInv'
<1> SUFFICES ASSUME IInv, Answer PROVE IInv'
  OBVIOUS
<1>1. /\ UNCHANGED <<key, wire, memory, ias, history>>
      /\ pc \in {"sigrlSent", "reportSent"}
      /\ pc' = IF pc = "sigrlSent" THEN "sigrlBack" ELSE "reportBack"
  BY DEF Answer
<1>2. /\ reply'.status = 401 => wire \notin good
      /\ reply'.status = 200 => wire \in good
  BY DEF Answer, Replies
<1>3. wire = key /\ key \in Keys
  BY <1>1 DEF IInv, WireInv, KeyTypes
<1>4. KeyTypes' /\ BadKnown' /\ WireInv' /\ CheckedInv' /\ UsedReportsAreSigned'
  BY <1>1, <1>3 DEF IInv, KeyTypes, BadKnown, WireInv, CheckedInv, SignatureHolds,
                    UsedReportsAreSigned, NoReply, ias, history
<1>5. RefusalInv'
  BY <1>1, <1>2, <1>3 DEF IInv, BadKnown, RefusalInv, ias
<1>6. AccountInv'
  BY <1>1, <1>2, <1>3 DEF IInv, AccountInv, Owed, ias, history
<1> QED
  BY <1>4, <1>5, <1>6 DEF IInv

\* A revocation of the primary key is counted before a session can owe it.
LEMMA RotateInv == IInv /\ Rotate => IInv'
<1> SUFFICES ASSUME IInv, Rotate PROVE IInv'
  OBVIOUS
<1>1. /\ UNCHANGED <<conn, memory, history>>
      /\ good' \subseteq Keys
      /\ rotations' = rotations + 1
      /\ everBad' = everBad \union (Keys \ good')
      /\ revoked' = IF "Primary" \in good \ good' THEN revoked + 1 ELSE revoked
  BY DEF Rotate
<1>2. KeyTypes' /\ BadKnown'
  BY <1>1 DEF IInv, KeyTypes, BadKnown, conn, history
<1>3. WireInv' /\ RefusalInv' /\ CheckedInv' /\ UsedReportsAreSigned'
  BY <1>1 DEF IInv, WireInv, RefusalInv, CheckedInv, SignatureHolds,
              UsedReportsAreSigned, NoReply, conn, history
<1>4. AccountInv'
  <2> SUFFICES ASSUME "Secondary" \notin everBad'
               PROVE  refused' <= revoked' /\ (Owed' => refused' < revoked')
    BY DEF AccountInv
  <2>1. refused <= revoked /\ (Owed => refused < revoked)
    BY <1>1 DEF IInv, AccountInv
  <2>2. refused' = refused /\ refused \in Nat /\ revoked \in Nat
    BY <1>1 DEF IInv, KeyTypes, history
  <2>3. CASE "Primary" \in good \ good'
    BY <1>1, <2>1, <2>2, <2>3
  <2>4. CASE "Primary" \notin good \ good'
    <3>1. revoked' = revoked
      BY <1>1, <2>4
    <3>2. Owed' => Owed
      BY <1>1, <2>4 DEF Owed, conn
    <3> QED
      BY <2>1, <2>2, <3>1, <3>2
  <2> QED
    BY <2>3, <2>4
<1> QED
  BY <1>2, <1>3, <1>4 DEF IInv

\* Counting a refused session adds at most one.
LEMMA RefuseStep ==
  ASSUME Refuse, refused \in Nat
  PROVE  refused' \in Nat /\ refused' <= refused + 1
BY DEF Refuse

\* get_sigrl: a 401 for the primary key refuses nobody, one for the secondary key
\* means that it did not hold.
LEMMA SigrlReturnInv == IInv /\ SigrlReturn => IInv'
<1> SUFFICES ASSUME IInv, SigrlReturn PROVE IInv'
  OBVIOUS
<1>1. /\ pc = "sigrlBack" /\ wire = key /\ key \in Keys
      /\ UNCHANGED <<certs, ias, accepted, leaks>>
      /\ refused \in Nat
  BY DEF SigrlReturn, IInv, WireInv, KeyTypes
<1>2. refused' \in Nat /\ key' \in Keys
  BY <1>1, RefuseStep DEF SigrlReturn, Keys
<1>3. KeyTypes' /\ BadKnown' /\ UsedReportsAreSigned'
  BY <1>1, <1>2 DEF IInv, KeyTypes, BadKnown, UsedReportsAreSigned, NoReply, ias
<1>4. pc' \in {"sigrl", "idle", "msg3"}
  BY DEF SigrlReturn, Return
<1>5. WireInv' /\ RefusalInv' /\ CheckedInv'
  BY <1>4 DEF WireInv, RefusalInv, CheckedInv
<1>6. AccountInv'
  <2> SUFFICES ASSUME "Secondary" \notin everBad
               PROVE  refused' <= revoked' /\ (Owed' => refused' < revoked')
    BY <1>1 DEF AccountInv, ias
  <2>1. refused <= revoked /\ (Owed => refused < revoked) /\ revoked' = revoked /\ good' = good
    BY <1>1 DEF IInv, AccountInv, ias
  <2>2. reply.status = 401 => key # "Secondary"
    BY <1>1 DEF IInv, RefusalInv
  <2>3. refused' = refused
    BY <2>2 DEF SigrlReturn, Return
  <2>4. Owed' => Owed
    BY <1>1, <1>4, <2>1 DEF SigrlReturn, Return, Owed
  <2> QED
    BY <2>1, <2>3, <2>4
<1> QED
  BY <1>3, <1>5, <1>6 DEF IInv

\* A report query that is refused ends a session that owed a revocation.
LEMMA ReportRefusedInv == IInv /\ ReportRefused => IInv'
<1> SUFFICES ASSUME IInv, ReportRefused PROVE IInv'
  OBVIOUS
<1>1. /\ pc = "reportBack" /\ pc' = "idle" /\ wire = key /\ key \in Keys
      /\ UNCHANGED <<key, certs, ias, accepted, leaks>>
      /\ refused \in Nat /\ revoked \in Nat
  BY DEF ReportRefused, Return, IInv, WireInv, KeyTypes
<1>2. refused' \in Nat /\ refused' <= refused + 1
      /\ (reply.status # 401 => refused' = refused)
  BY <1>1, RefuseStep DEF ReportRefused
<1>3. KeyTypes' /\ BadKnown' /\ UsedReportsAreSigned'
  BY <1>1, <1>2 DEF IInv, KeyTypes, BadKnown, UsedReportsAreSigned, NoReply, ias
<1>4. WireInv' /\ RefusalInv' /\ CheckedInv' /\ ~Owed'
  BY <1>1 DEF WireInv, RefusalInv, CheckedInv, Owed
<1>5. AccountInv'
  <2> SUFFICES ASSUME "Secondary" \notin everBad PROVE refused' <= revoked'
    BY <1>1, <1>4 DEF AccountInv, ias
  <2>1. refused <= revoked /\ (Owed => refused < revoked) /\ revoked' = revoked
    BY <1>1 DEF IInv, AccountInv, ias
  <2>2. CASE reply.status = 401
    <3>1. key = "Primary"
      BY <1>1, <2>2 DEF IInv, RefusalInv, Keys
    <3>2. Owed
      BY <1>1, <2>2, <3>1 DEF Owed
    <3> QED
      BY <1>1, <1>2, <2>1, <3>2
  <2>3. CASE reply.status # 401
    BY <1>2, <2>1, <2>3
  <2> QED
    BY <2>2, <2>3
<1> QED
  BY <1>3, <1>4, <1>5 DEF IInv

\* The checks of a report change neither keys nor counts; each leaves behind what
\* the next one presumes.
LEMMA CheckInv ==
  IInv /\ (LoadChain \/ VerifyChain \/ VerifySignature \/ CheckVersion) => IInv'
<1> SUFFICES ASSUME IInv, LoadChain \/ VerifyChain \/ VerifySignature \/ CheckVersion
             PROVE  IInv'
  OBVIOUS
<1>1. /\ UNCHANGED <<key, good, everBad, refused, revoked, rotations>>
      /\ pc' \in {"idle", "chain", "signature", "version"}
  BY DEF LoadChain, VerifyChain, VerifySignature, CheckVersion, Return, ias, history
<1>2. KeyTypes' /\ BadKnown' /\ WireInv' /\ RefusalInv' /\ AccountInv'
  BY <1>1 DEF IInv, KeyTypes, BadKnown, WireInv, RefusalInv, AccountInv, Owed
<1>3. CheckedInv'
  BY DEF IInv, LoadChain, VerifyChain, VerifySignature, CheckVersion, Return, CheckedInv,
         SignatureHolds
<1>4. UsedReportsAreSigned'
  <2>1. CASE CheckVersion
    BY <2>1 DEF IInv, CheckVersion, CheckedInv, SignatureHolds, UsedReportsAreSigned, NoReply
  <2>2. CASE LoadChain \/ VerifyChain \/ VerifySignature
    BY <2>2 DEF IInv, LoadChain, VerifyChain, VerifySignature, UsedReportsAreSigned,
                NoReply, history
  <2> QED
    BY <2>1, <2>2
<1> QED
  BY <1>2, <1>3, <1>4 DEF IInv

\* Every step of the connection, and of its environment, keeps the invariant.
LEMMA NextInv == IInv /\ [Next]_vars => IInv'
<1> SUFFICES ASSUME IInv, [Next]_vars PROVE IInv'
  OBVIOUS
<1>1. CASE UNCHANGED vars
  BY <1>1 DEF vars, conn, memory, ias, history, IInv, KeyTypes, BadKnown, WireInv,
              RefusalInv, AccountInv, Owed, CheckedInv, SignatureHolds,
              UsedReportsAreSigned, NoReply
<1>2. CASE Next
  BY <1>2, SessionInv, QueryInv, AnswerInv, RotateInv, SigrlReturnInv, ReportRefusedInv,
     CheckInv DEF Next, Serve
<1> QED
  BY <1>1, <1>2

\* The invariant of all the above holds of every state.
THEOREM ConnectionInvariance == Spec => []IInv
BY InitInv, NextInv, PTL DEF Spec

\* While the secondary key holds, a 401 (report does not fail over) ends no more
\* sessions than there are revocations of the primary key, at any rate of both.
THEOREM RefusalsArePaidFor == Spec => []NoMoreRefusedThanRevoked
<1>1. IInv => NoMoreRefusedThanRevoked
  BY DEF IInv, AccountInv, NoMoreRefusedThanRevoked
<1> QED
  BY <1>1, ConnectionInvariance, PTL

\* get_attestation_report reads a report only if its first certificate was
\* verified against the store, signed it as it stands, and its version is the one
\* in use, for chains of any length.
THEOREM ReportsAreSigned == Spec => []UsedReportsAreSigned
<1>1. IInv => UsedReportsAreSigned
  BY DEF IInv
<1> QED
  BY <1>1, ConnectionInvariance, PTL

-----------------------------------------------------------------------------
(* Agents and certificates *)

\* A set of numbers has a least one, which Min returns.
LEMMA MinIsLeast ==
  ASSUME NEW S \in SUBSET Nat, S # {}
  PROVE  Min(S) \in S /\ \A y \in S : Min(S) <= y
<1>1. PICK x \in S : \A y \in S : ~(<<y, x>> \in OpToRel(<, Nat))
  BY NatLessThanWellFounded, WFMin, Zenon
<1>2. \A y \in S : ~(y < x)
  BY <1>1 DEF OpToRel
<1>3. \A y \in S : x <= y
  BY <1>2
<1> QED
  BY <1>3 DEF Min

\* The chain of a reply is a sequence, whatever its header held.
LEMMA ChainIsSeq ==
  ASSUME NEW r \in Replies
  PROVE  r.chain \in Seq(Certificates) /\ Len(r.chain) \in Nat
<1>1. r.chain \in SeqOf(Certificates, MaxChain)
  BY DEF Replies
<1>2. PICK m \in 0 .. MaxChain : r.chain \in [1 .. m -> Certificates]
  BY <1>1 DEF SeqOf
<1>3. m \in Nat
  BY ConnectionAssumption
<1>4. r.chain \in Seq(Certificates)
  BY <1>2, <1>3, SeqDef
<1> QED
  BY <1>4, LenProperties

\* The certificates before the first that does not load: fewer than the chain has.
LEMMA LoadedBound ==
  ASSUME NEW chain \in Seq(Certificates), Contains(chain, "junk")
  PROVE  Loaded(chain) \in Nat /\ Loaded(chain) < Len(chain)
<1> DEFINE Junk == {i \in 1 .. Len(chain) : chain[i] = "junk"}
<1>1. Junk # {} /\ Junk \in SUBSET Nat
  BY DEF Contains
<1>2. Loaded(chain) = Min(Junk) - 1
  BY <1>1, Zenon DEF Loaded, SelectInSeq
<1>3. Min(Junk) \in 1 .. Len(chain)
  BY <1>1, MinIsLeast
<1> QED
  BY <1>2, <1>3, LenProperties

\* A reply is a report's only as the answer to a report query, and while its checks
\* last.
ReplyInv ==
  /\ pc \in {"chain", "signature", "version"} => reply \in Replies
  /\ pc = "reportBack" /\ reply.status = 200 => reply \in Replies

\* One agent from the query to its return; the certificates of the chain from
\* its loading to the cleanup, besides those that were left behind.
MemoryInv ==
  /\ agents = IF pc \in {"sigrlSent", "sigrlBack", "reportSent", "reportBack", "chain", "signature"}
              THEN 1 ELSE 0
  /\ pc \in {"chain", "signature"} =>
       /\ certs >= Len(reply.chain)
       /\ leaks = {} => certs = Len(reply.chain)
  /\ pc \notin {"chain", "signature"} /\ leaks = {} => certs = 0

MInv == TypeOK /\ ReplyInv /\ MemoryInv /\ revoked <= rotations

\* In the beginning there is nothing to free.
LEMMA InitMemory == Init => MInv
BY ConnectionAssumption DEF Init, MInv, TypeOK, Keys, NoReply, ReplyInv, MemoryInv

\* No agent and no certificate before the first query.
LEMMA SessionMemory == MInv /\ Session => MInv'
<1> SUFFICES ASSUME MInv, Session PROVE MInv'
  OBVIOUS
<1>1. \/ pc' \in {"sigrl", "report"} /\ UNCHANGED <<wire, reply>>
      \/ pc' = "idle" /\ wire' = "none" /\ reply' = NoReply
  BY DEF Session, Return
<1>2. pc \in {"idle", "msg3"} /\ (accepted' = accepted \/ accepted' = NoReply)
  BY DEF Session, history
<1>3. UNCHANGED <<key, agents, certs, good, rotations, everBad, revoked, refused, leaks>>
  BY DEF Session, memory, ias, history
<1> QED
  BY <1>1, <1>2, <1>3 DEF MInv, TypeOK, NoReply, ReplyInv, MemoryInv

\* A query allocates its agent, or none.
LEMMA QueryMemory == MInv /\ Query => MInv'
<1> SUFFICES ASSUME MInv, Query PROVE MInv'
  OBVIOUS
<1>1. agents = 0 /\ UNCHANGED <<key, certs, good, rotations, everBad, revoked, accepted, refused, leaks>>
  BY DEF MInv, MemoryInv, Query, ias, history
<1>2. \/ pc' \in {"sigrlSent", "reportSent"} /\ agents' = 1 /\ wire' = key /\ reply' = reply
      \/ pc' = "idle" /\ agents' = 0 /\ wire' = "none" /\ reply' = NoReply
  BY <1>1 DEF Query, Return
<1>3. pc \in {"sigrl", "report"}
  BY DEF Query
<1> QED
  BY <1>1, <1>2, <1>3 DEF MInv, TypeOK, NoReply, ReplyInv, MemoryInv

\* Only a report query is answered with a report.
LEMMA AnswerMemory == MInv /\ Answer => MInv'
<1> SUFFICES ASSUME MInv, Answer PROVE MInv'
  OBVIOUS
<1>1. /\ pc \in {"sigrlSent", "reportSent"}
      /\ pc' = IF pc = "sigrlSent" THEN "sigrlBack" ELSE "reportBack"
      /\ UNCHANGED <<key, wire, agents, certs, good, rotations, everBad, revoked, accepted, refused, leaks>>
  BY DEF Answer, memory, ias, history
<1>2. /\ reply' \in Replies \union [status : {0, 200, 401, 404, 500}]
      /\ pc = "reportSent" /\ reply'.status = 200 => reply' \in Replies
  BY DEF Answer
<1> QED
  BY <1>1, <1>2 DEF MInv, TypeOK, ReplyInv, MemoryInv

\* A rotation is counted before the revocation that it may be.
LEMMA RotateMemory == MInv /\ Rotate => MInv'
<1> SUFFICES ASSUME MInv, Rotate PROVE MInv'
  OBVIOUS
<1>1. revoked' \in 0 .. Rotations /\ rotations' \in 0 .. Rotations /\ revoked' <= rotations'
  BY ConnectionAssumption DEF Rotate, MInv, TypeOK
<1>2. good' \subseteq Keys /\ everBad' \subseteq Keys
  BY DEF Rotate, MInv, TypeOK
<1> QED
  BY <1>1, <1>2 DEF Rotate, MInv, TypeOK, ReplyInv, MemoryInv, conn, memory, history

\* A refused session is counted up to the bound.
LEMMA RefuseType == Refuse /\ refused \in 0 .. Rotations + 1 => refused' \in 0 .. Rotations + 1
BY ConnectionAssumption DEF Refuse

\* IAS_Request::sigrl deletes its agent on each of its returns.
LEMMA SigrlReturnMemory == MInv /\ SigrlReturn => MInv'
<1> SUFFICES ASSUME MInv, SigrlReturn PROVE MInv'
  OBVIOUS
<1>1. agents' = 0 /\ pc = "sigrlBack" /\ UNCHANGED <<certs, good, rotations, everBad, revoked, accepted, leaks>>
  BY DEF MInv, MemoryInv, SigrlReturn, ias
<1>2. refused' \in 0 .. Rotations + 1
  BY RefuseType DEF MInv, TypeOK, SigrlReturn
<1>3. \/ pc' \in {"sigrl", "msg3"} /\ key' \in {key, "Secondary"} /\ UNCHANGED <<wire, reply>>
      \/ pc' = "idle" /\ key' = key /\ wire' = "none" /\ reply' = NoReply
  BY DEF SigrlReturn, Return
<1> QED
  BY <1>1, <1>2, <1>3 DEF MInv, TypeOK, Keys, NoReply, ReplyInv, MemoryInv

\* IAS_Request::report deletes its agent when the reply is no report.
LEMMA ReportRefusedMemory == MInv /\ ReportRefused => MInv'
<1> SUFFICES ASSUME MInv, ReportRefused PROVE MInv'
  OBVIOUS
<1>1. agents' = 0 /\ pc = "reportBack"
      /\ UNCHANGED <<key, certs, good, rotations, everBad, revoked, accepted, leaks>>
  BY DEF MInv, MemoryInv, ReportRefused, DeleteAgent, ias
<1>2. refused' \in 0 .. Rotations + 1
  BY RefuseType DEF MInv, TypeOK, ReportRefused
<1>3. pc' = "idle" /\ wire' = "none" /\ reply' = NoReply
  BY DEF ReportRefused, Return
<1> QED
  BY <1>1, <1>2, <1>3 DEF MInv, TypeOK, NoReply, ReplyInv, MemoryInv

\* What is left of a chain is on record in leaks; what is loaded whole is counted.
LEMMA LoadChainMemory == MInv /\ LoadChain => MInv'
<1> SUFFICES ASSUME MInv, LoadChain PROVE MInv'
  OBVIOUS
<1>1. /\ pc = "reportBack" /\ agents = 1 /\ certs \in Nat /\ leaks \subseteq {"chain", "malloc"}
      /\ UNCHANGED <<key, good, rotations, everBad, revoked, accepted, refused>>
      /\ leaks = {} => certs = 0
  BY DEF MInv, TypeOK, MemoryInv, LoadChain, ias
<1>2. reply \in Replies
  BY DEF MInv, ReplyInv, LoadChain
<1>3. reply.chain \in Seq(Certificates) /\ Len(reply.chain) \in Nat
  BY <1>2, ChainIsSeq
<1>4. CASE UNCHANGED <<certs, leaks>> /\ DeleteAgent /\ Return
  BY <1>1, <1>4 DEF DeleteAgent, Return, MInv, TypeOK, NoReply, ReplyInv, MemoryInv
<1>5. CASE /\ Contains(reply.chain, "junk") /\ certs' = certs + Loaded(reply.chain)
           /\ leaks' = leaks \union {"chain"} /\ DeleteAgent /\ Return
  <2>1. certs' \in Nat /\ leaks' \subseteq {"chain", "malloc"} /\ leaks' # {}
    BY <1>1, <1>3, <1>5, LoadedBound
  <2> QED
    BY <1>1, <1>5, <2>1 DEF DeleteAgent, Return, MInv, TypeOK, NoReply, ReplyInv, MemoryInv
<1>6. CASE certs' = certs + Len(reply.chain) /\ pc' = "chain" /\ UNCHANGED <<wire, reply, agents, leaks>>
  BY <1>1, <1>2, <1>3, <1>6 DEF MInv, TypeOK, ReplyInv, MemoryInv
<1>7. CASE /\ certs' = certs + Len(reply.chain) /\ DeleteAgent /\ Return
           /\ leaks' = leaks \union {"malloc"}
  <2>1. certs' \in Nat /\ leaks' \subseteq {"chain", "malloc"} /\ leaks' # {}
    BY <1>1, <1>3, <1>7
  <2> QED
    BY <1>1, <1>7, <2>1 DEF DeleteAgent, Return, MInv, TypeOK, NoReply, ReplyInv, MemoryInv
<1> QED
  BY <1>4, <1>5, <1>6, <1>7 DEF LoadChain

\* The cleanup label deletes one agent and frees the chain that was loaded.
LEMMA CleanupMemory ==
  ASSUME MInv, Cleanup, pc \in {"chain", "signature"}
  PROVE  agents' = 0 /\ certs' \in Nat /\ (leaks = {} => certs' = 0)
<1>1. reply \in Replies /\ agents = 1 /\ certs \in Nat
  BY DEF MInv, TypeOK, ReplyInv, MemoryInv
<1>2. Len(reply.chain) \in Nat
  BY <1>1, ChainIsSeq
<1> QED
  BY <1>1, <1>2 DEF MInv, MemoryInv, Cleanup, DeleteAgent

\* The checks of the certificate and the signature pass by the cleanup once.
LEMMA VerifyMemory == MInv /\ (VerifyChain \/ VerifySignature) => MInv'
<1> SUFFICES ASSUME MInv, VerifyChain \/ VerifySignature PROVE MInv'
  OBVIOUS
<1>1. pc \in {"chain", "signature"} /\ UNCHANGED <<key, good, rotations, everBad, revoked, accepted, refused, leaks>>
  BY DEF VerifyChain, VerifySignature, ias, history
<1>2. \/ pc' = "signature" /\ pc = "chain" /\ UNCHANGED <<wire, reply, agents, certs>>
      \/ pc' = "version" /\ Cleanup /\ UNCHANGED <<wire, reply>>
      \/ pc' = "idle" /\ Cleanup /\ wire' = "none" /\ reply' = NoReply
  BY DEF VerifyChain, VerifySignature, Return, memory
<1>3. CASE pc' = "signature"
  BY <1>1, <1>2, <1>3 DEF MInv, TypeOK, ReplyInv, MemoryInv
<1>4. CASE pc' # "signature"
  <2>1. agents' = 0 /\ certs' \in Nat /\ (leaks = {} => certs' = 0)
    BY <1>1, <1>2, <1>4, CleanupMemory
  <2> QED
    BY <1>1, <1>2, <1>4, <2>1 DEF MInv, TypeOK, NoReply, ReplyInv, MemoryInv
<1> QED
  BY <1>3, <1>4

\* The version is looked at when all is freed.
LEMMA CheckVersionMemory == MInv /\ CheckVersion => MInv'
BY DEF CheckVersion, Return, MInv, TypeOK, NoReply, ReplyInv, MemoryInv, memory, ias

\* Every step keeps the account of agents and certificates.
LEMMA NextMemory == MInv /\ [Next]_vars => MInv'
<1>1. MInv /\ UNCHANGED vars => MInv'
  BY DEF vars, conn, memory, ias, history, MInv, TypeOK, ReplyInv, MemoryInv
<1> QED
  BY <1>1, SessionMemory, QueryMemory, AnswerMemory, RotateMemory, SigrlReturnMemory, ReportRefusedMemory,
     LoadChainMemory, VerifyMemory, CheckVersionMemory DEF Next, Serve

LEMMA MemoryInvariance == Spec => []MInv
BY InitMemory, NextMemory, PTL DEF Spec

\* The values of the variables of IAS_Request; the counts of agents and certificates
\* are never negative, the histories never past their bounds.
THEOREM TypeCorrect == Spec => []TypeOK
<1>1. MInv => TypeOK
  BY DEF MInv
<1> QED
  BY <1>1, MemoryInvariance, PTL

\* IAS_Request::sigrl and ::report delete their agent once on every return, and
\* ::report frees every certificate of a chain of any length at most once, all of
\* them unless it took one of the two returns that leaks has on record.
THEOREM RequestsAreFreed == Spec => []RequestsFreeWhatTheyMake
<1>1. MInv => RequestsFreeWhatTheyMake
  BY DEF MInv, TypeOK, MemoryInv, RequestsFreeWhatTheyMake
<1> QED
  BY <1>1, MemoryInvariance, PTL

==============================================================================
