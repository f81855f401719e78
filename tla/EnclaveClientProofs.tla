-------------------------- MODULE EnclaveClientProofs --------------------------
(***************************************************************************)
(* The safety properties of EnclaveClient, for any number of enclaves and  *)
(* log files, and whatever of the SGX runtime lacks: what do_attestation   *)
(* leaves behind and what its callers do, which enclave the ECALLs reach,  *)
(* and who gets the hashes of the keys.                                    *)
(***************************************************************************)
EXTENDS EnclaveClient, FiniteSetTheorems, TLAPS

-----------------------------------------------------------------------------
(* The inductive invariant *)

\* The values that the properties do not bound by themselves.
StubTypes ==
  /\ lacking \subseteq Libraries \union Symbols
  /\ known \in [Symbols -> {"0", "found", "failed"}]

\* What the process is, as far as the place where it is tells.
HostInv ==
  /\ pc = "host" => host = "library"
  /\ pc = "main" => host # "library"
  /\ pc \in {"options", "search", "quote", "getquote"} => host = "options"
  /\ pc \in {"add", "config", "create"} => host # "options"

InSession == {"init", "msg1", "read2", "proc", "msg3", "read4", "status", "keys", "end"}

\* How far the RA context is at each point of do_attestation; outside of it there
\* is none, nor a connection or a message.
SessionInv ==
  /\ pc \notin InSession \union Dead => ctx = "none" /\ ~sock /\ heap \subseteq {"quote"}
  /\ pc = "msg1" => ctx = "open"
  /\ pc \in {"read2", "proc"} => ctx = "g_a"
  /\ pc \in {"msg3", "read4", "status", "keys", "end"} => ctx = "keys"
  /\ ctx # "none" => ctxIn = eid
  /\ pc = "keys" => trust \in Trusting

\* The enclaves that are left and the one of add_nums; the log files that are left
\* and the one of the call under way.
CountInv ==
  /\ entered <= Cardinality(enclaves) /\ Cardinality(enclaves) <= EpcLimit
  /\ host # "options" /\ pc \notin Dead =>
       Cardinality(enclaves) = IF pc = "add" THEN entered + 1 ELSE entered
  /\ pc \notin Dead => logs = IF pc \in {"host", "main", "add", "log"} THEN aborted ELSE aborted + 1
  /\ pc \in {"add", "connect", "quote"} \union InSession => eid \in enclaves

\* The functions that each attestation calls.
Always == {"sgx_create_enclave", "sgx_ecall", "sgx_get_extended_epid_group_id",
           "sgx_init_quote", "sgx_calc_quote_size", "sgx_get_quote"}

\* Which functions have been found at each point, and what is known when one is
\* not.
KnownInv ==
  /\ pc \in {"connect", "init", "msg1", "read2", "proc"} => known["sgx_create_enclave"] = "found"
  /\ pc \in {"msg1", "read2", "proc"} => known["sgx_ecall"] = "found"
  /\ pc \in {"read2", "proc"} =>
       known["sgx_get_extended_epid_group_id"] = "found" /\ known["sgx_init_quote"] = "found"
  /\ pc \notin Dead /\ known["sgx_get_quote"] = "found" =>
       \/ host = "options" /\ pc = "closelog"
       \/ \A f \in Always : known[f] = "found"
  /\ host = "options" /\ pc \notin {"main", "log", "nonce", "rdrand", "options"} \union Dead =>
       lacking \intersect Libraries = {}

IInv ==
  TypeOK /\ StubTypes /\ HostInv /\ SessionInv /\ CountInv /\ KnownInv
  /\ AttestationLeavesNothing

-----------------------------------------------------------------------------
(* What the steps share *)

\* While the process lives, no stub has found its function lacking.
LEMMA NoneFailed == ASSUME IInv, pc \notin Dead PROVE \A f \in Symbols : known[f] # "failed"
BY DEF IInv, AttestationLeavesNothing, Dead

\* The functions of fs have been called: they are found, the rest is as it was.
Learns(fs) ==
  /\ StubTypes' /\ lacking' = lacking
  /\ \A f \in Symbols : known'[f] = IF f \in fs THEN "found" ELSE known[f]

\* A call of the stubs that goes through finds its functions, once and for all.
LEMMA CallsLearn ==
  ASSUME IInv, pc \notin Dead, NEW fs \in SUBSET Symbols, Calls(fs)
  PROVE  Learns(fs)
<1>1. \A f \in Symbols : known'[f] = IF f \in fs THEN "found" ELSE known[f]
  BY NoneFailed DEF Calls, New, IInv, StubTypes
<1>2. known' \in [Symbols -> {"0", "found", "failed"}] /\ lacking' = lacking
  BY DEF Calls, IInv, StubTypes
<1> QED BY <1>1, <1>2 DEF Learns, IInv, StubTypes

\* There are finitely many enclaves.
LEMMA EnclavesFinite ==
  ASSUME TypeOK PROVE IsFiniteSet(enclaves) /\ Cardinality(enclaves) \in Nat
<1>1. IsFiniteSet(1 .. EpcLimit + 1)
  BY FS_Interval, ClientAssumption
<1>2. enclaves \in SUBSET (1 .. EpcLimit + 1)
  BY DEF TypeOK
<1>3. IsFiniteSet(enclaves)
  BY <1>1, <1>2, FS_Subset
<1> QED BY <1>3, FS_CardinalityType

\* There is an id for sgx_create_enclave to give that no live enclave has, nor the
\* one of eid.
LEMMA NewIdIsFree ==
  ASSUME TypeOK, Cardinality(enclaves) < EpcLimit
  PROVE  NewId \in (1 .. EpcLimit + 1) \ (enclaves \union {eid})
<1> DEFINE Taken == enclaves \union {eid}
<1>1. IsFiniteSet(enclaves)
  BY EnclavesFinite
<1>2. IsFiniteSet(Taken) /\ Cardinality(Taken) <= Cardinality(enclaves) + 1
  <2>1. /\ IsFiniteSet(Taken)
        /\ Cardinality(Taken) = IF eid \in enclaves THEN Cardinality(enclaves) ELSE Cardinality(enclaves) + 1
    BY <1>1, FS_AddElement
  <2> QED BY <2>1, EnclavesFinite
<1>3. Cardinality(1 .. EpcLimit + 1) = EpcLimit + 1 /\ IsFiniteSet(1 .. EpcLimit + 1)
  BY FS_Interval, ClientAssumption
<1>4. Cardinality(Taken) < Cardinality(1 .. EpcLimit + 1)
  BY <1>1, <1>2, <1>3, FS_CardinalityType, ClientAssumption
<1>5. ~(1 .. EpcLimit + 1 \subseteq Taken)
  BY <1>2, <1>3, <1>4, FS_Subset, FS_CardinalityType
<1>6. \E n \in 1 .. EpcLimit + 1 : n \notin Taken
  BY <1>5
<1> QED BY <1>6 DEF NewId

\* sgx_create_enclave adds one enclave, which fits, and eid is its id.
LEMMA CreateAdds ==
  ASSUME TypeOK, NEW next, Create(next)
  PROVE  /\ eid' \in 1 .. EpcLimit + 1 /\ eid' \in enclaves'
         /\ enclaves' \subseteq 1 .. EpcLimit + 1
         /\ Cardinality(enclaves') = Cardinality(enclaves) + 1
         /\ Cardinality(enclaves') <= EpcLimit
<1>1. NewId \in (1 .. EpcLimit + 1) \ enclaves
  BY NewIdIsFree DEF Create
<1>2. IsFiniteSet(enclaves)
  BY EnclavesFinite
<1>3. Cardinality(enclaves \union {NewId}) = Cardinality(enclaves) + 1
  BY <1>1, <1>2, FS_AddElement
<1>4. eid' = NewId /\ enclaves' = enclaves \union {NewId} /\ Cardinality(enclaves) < EpcLimit
  BY DEF Create
<1> QED BY <1>1, <1>2, <1>3, <1>4, FS_CardinalityType, ClientAssumption DEF TypeOK

\* sgx_destroy_enclave takes one away that was alive.
LEMMA DestroyRemoves ==
  ASSUME TypeOK, eid \in enclaves
  PROVE  Cardinality(enclaves \ {eid}) = Cardinality(enclaves) - 1
<1>1. IsFiniteSet(enclaves)
  BY EnclavesFinite
<1> QED BY <1>1, FS_RemoveElement

-----------------------------------------------------------------------------
(* Every step preserves the invariant *)

\* A host calls attestation_with_custom_config.
LEMMA AttestInv == IInv /\ Attest => IInv'
<1> SUFFICES ASSUME IInv, Attest PROVE IInv'
  OBVIOUS
<1> USE ClientAssumption DEF IInv, Attest, program, lib, session, history, stubs, Dead
<1>1. \A f \in Symbols : known[f] # "failed"
  BY NoneFailed
<1>2. TypeOK'
  BY EnclavesFinite DEF TypeOK, Lines, Statuses, Trusting, CountInv, InSession
<1>3. StubTypes' /\ KnownInv'
  BY DEF StubTypes, KnownInv, HostInv, Always, Symbols, UaeService, Urts
<1>4. HostInv' /\ SessionInv'
  BY DEF HostInv, SessionInv, InSession, TypeOK, Hosts
<1>5. CountInv'
  BY EnclavesFinite DEF CountInv, InSession, TypeOK, Hosts
<1>6. AttestationLeavesNothing'
  BY <1>1 DEF AttestationLeavesNothing, SessionInv, InSession
<1> QED BY <1>2, <1>3, <1>4, <1>5, <1>6

\* A log file more is open, and it is the call's own.
LEMMA OpenLogInv == IInv /\ OpenLog => IInv'
<1> SUFFICES ASSUME IInv, OpenLog PROVE IInv'
  OBVIOUS
<1> USE ClientAssumption DEF IInv, OpenLog, program, lib, session, history, stubs, Dead
<1>1. \A f \in Symbols : known[f] # "failed"
  BY NoneFailed
<1>2. TypeOK'
  BY EnclavesFinite DEF TypeOK, Lines, Statuses, Trusting, CountInv, InSession
<1>3. StubTypes' /\ KnownInv'
  BY DEF StubTypes, KnownInv, HostInv, Always, Symbols, UaeService, Urts
<1>4. HostInv' /\ SessionInv'
  BY DEF HostInv, SessionInv, InSession, TypeOK, Hosts
<1>5. CountInv'
  BY EnclavesFinite DEF CountInv, InSession, TypeOK, Hosts
<1>6. AttestationLeavesNothing'
  BY <1>1 DEF AttestationLeavesNothing, SessionInv, InSession
<1> QED BY <1>2, <1>3, <1>4, <1>5, <1>6

\* A call that ends here leaves its log file.
LEMMA ConfigureInv == IInv /\ Configure => IInv'
<1> SUFFICES ASSUME IInv, Configure PROVE IInv'
  OBVIOUS
<1> USE ClientAssumption DEF IInv, Configure, Done, Abort, OneMore, program, lib, session, history, stubs, Dead
<1>1. \A f \in Symbols : known[f] # "failed"
  BY NoneFailed
<1>2. TypeOK'
  BY EnclavesFinite DEF TypeOK, Lines, Statuses, Trusting, CountInv, InSession
<1>3. StubTypes' /\ KnownInv'
  BY DEF StubTypes, KnownInv, HostInv, Always, Symbols, UaeService, Urts
<1>4. HostInv' /\ SessionInv'
  BY DEF HostInv, SessionInv, InSession, TypeOK, Hosts
<1>5. CountInv'
  BY EnclavesFinite DEF CountInv, InSession, TypeOK, Hosts
<1>6. AttestationLeavesNothing'
  BY <1>1 DEF AttestationLeavesNothing, SessionInv, InSession
<1> QED BY <1>2, <1>3, <1>4, <1>5, <1>6

\* The loop of the nonce is entered.
LEMMA NonceInv == IInv /\ Nonce => IInv'
<1> SUFFICES ASSUME IInv, Nonce PROVE IInv'
  OBVIOUS
<1> USE ClientAssumption DEF IInv, Nonce, program, lib, session, history, stubs, Dead
<1>1. \A f \in Symbols : known[f] # "failed"
  BY NoneFailed
<1>2. TypeOK'
  BY EnclavesFinite DEF TypeOK, Lines, Statuses, Trusting, CountInv, InSession
<1>3. StubTypes' /\ KnownInv'
  BY DEF StubTypes, KnownInv, HostInv, Always, Symbols, UaeService, Urts
<1>4. HostInv' /\ SessionInv'
  BY DEF HostInv, SessionInv, InSession, TypeOK, Hosts
<1>5. CountInv'
  BY EnclavesFinite DEF CountInv, InSession, TypeOK, Hosts
<1>6. AttestationLeavesNothing'
  BY <1>1 DEF AttestationLeavesNothing, SessionInv, InSession
<1> QED BY <1>2, <1>3, <1>4, <1>5, <1>6

\* The bits of RDRAND change nothing but the place.
LEMMA RdrandInv == ASSUME NEW ok \in BOOLEAN PROVE IInv /\ Rdrand(ok) => IInv'
<1> SUFFICES ASSUME IInv, Rdrand(ok) PROVE IInv'
  OBVIOUS
<1> USE ClientAssumption DEF IInv, Rdrand, program, lib, session, history, stubs, Dead
<1>1. \A f \in Symbols : known[f] # "failed"
  BY NoneFailed
<1>2. TypeOK'
  BY EnclavesFinite DEF TypeOK, Lines, Statuses, Trusting, CountInv, InSession
<1>3. StubTypes' /\ KnownInv'
  BY DEF StubTypes, KnownInv, HostInv, Always, Symbols, UaeService, Urts
<1>4. HostInv' /\ SessionInv'
  BY DEF HostInv, SessionInv, InSession, TypeOK, Hosts
<1>5. CountInv'
  BY EnclavesFinite DEF CountInv, InSession, TypeOK, Hosts
<1>6. AttestationLeavesNothing'
  BY <1>1 DEF AttestationLeavesNothing, SessionInv, InSession
<1> QED BY <1>2, <1>3, <1>4, <1>5, <1>6

\* The call's log file is closed, and no other.
LEMMA CloseLogInv == IInv /\ CloseLog => IInv'
<1> SUFFICES ASSUME IInv, CloseLog PROVE IInv'
  OBVIOUS
<1> USE ClientAssumption DEF IInv, CloseLog, Done, program, lib, session, history, stubs, Dead
<1>1. \A f \in Symbols : known[f] # "failed"
  BY NoneFailed
<1>2. TypeOK'
  BY EnclavesFinite DEF TypeOK, Lines, Statuses, Trusting, CountInv, InSession
<1>3. StubTypes' /\ KnownInv'
  BY DEF StubTypes, KnownInv, HostInv, Always, Symbols, UaeService, Urts
<1>4. HostInv' /\ SessionInv'
  BY DEF HostInv, SessionInv, InSession, TypeOK, Hosts
<1>5. CountInv'
  BY EnclavesFinite DEF CountInv, InSession, TypeOK, Hosts
<1>6. AttestationLeavesNothing'
  BY <1>1 DEF AttestationLeavesNothing, SessionInv, InSession
<1> QED BY <1>2, <1>3, <1>4, <1>5, <1>6

\* The hashes are asked for in the session whose keys were agreed on.
LEMMA KeyHashesInv == IInv /\ KeyHashes => IInv'
<1> SUFFICES ASSUME IInv, KeyHashes PROVE IInv'
  OBVIOUS
<1> USE ClientAssumption DEF IInv, KeyHashes, program, lib, session, history, stubs, Dead
<1>1. \A f \in Symbols : known[f] # "failed"
  BY NoneFailed
<1>2. TypeOK'
  BY EnclavesFinite DEF TypeOK, Lines, Statuses, Trusting, CountInv, InSession
<1>3. StubTypes' /\ KnownInv'
  BY DEF StubTypes, KnownInv, HostInv, Always, Symbols, UaeService, Urts
<1>4. HostInv' /\ SessionInv'
  BY DEF HostInv, SessionInv, InSession, TypeOK, Hosts
<1>5. CountInv'
  BY EnclavesFinite DEF CountInv, InSession, TypeOK, Hosts
<1>6. AttestationLeavesNothing'
  BY <1>1 DEF AttestationLeavesNothing, SessionInv, InSession
<1> QED BY <1>2, <1>3, <1>4, <1>5, <1>6

\* A connection is made, or the process ends.
LEMMA ConnectInv == IInv /\ Connect => IInv'
<1> SUFFICES ASSUME IInv, Connect PROVE IInv'
  OBVIOUS
<1> USE ClientAssumption DEF IInv, Connect, program, lib, session, history, stubs, Dead
<1>1. \A f \in Symbols : known[f] # "failed"
  BY NoneFailed
<1>2. TypeOK'
  BY EnclavesFinite DEF TypeOK, Lines, Statuses, Trusting, CountInv, InSession
<1>3. StubTypes' /\ KnownInv'
  BY DEF StubTypes, KnownInv, HostInv, Always, Symbols, UaeService, Urts
<1>4. HostInv' /\ SessionInv'
  BY DEF HostInv, SessionInv, InSession, TypeOK, Hosts
<1>5. CountInv'
  BY EnclavesFinite DEF CountInv, InSession, TypeOK, Hosts
<1>6. AttestationLeavesNothing'
  BY <1>1 DEF AttestationLeavesNothing, SessionInv, InSession
<1> QED BY <1>2, <1>3, <1>4, <1>5, <1>6

\* What is read is a message, or the process ends with nothing left.
LEMMA ReadMsg2Inv == IInv /\ ReadMsg2 => IInv'
<1> SUFFICES ASSUME IInv, ReadMsg2 PROVE IInv'
  OBVIOUS
<1> USE ClientAssumption DEF IInv, ReadMsg2, ExitError, CloseContext, DeleteMsgio, FreeAll, program, lib, session, history, stubs, Dead
<1>1. \A f \in Symbols : known[f] # "failed"
  BY NoneFailed
<1>2. TypeOK'
  <2>1. heap' \subseteq {"msg2", "msg3", "msg4", "quote"}
    BY DEF TypeOK
  <2>2. ctx' \in {"none", "open", "g_a", "keys"} /\ ctxIn' \in 0 .. EpcLimit + 1
    BY DEF TypeOK
  <2>3. sock' \in BOOLEAN
    BY DEF TypeOK
  <2>4. line' \in Lines \union {"none"} /\ trust' \in Statuses \union {"none"}
    BY DEF TypeOK
  <2> QED BY <2>1, <2>2, <2>3, <2>4 DEF TypeOK
<1>3. StubTypes' /\ KnownInv'
  BY DEF StubTypes, KnownInv, HostInv, Always, Symbols, UaeService, Urts
<1>4. HostInv' /\ SessionInv'
  BY DEF HostInv, SessionInv, InSession, TypeOK, Hosts
<1>5. CountInv'
  BY EnclavesFinite DEF CountInv, InSession, TypeOK, Hosts
<1>6. AttestationLeavesNothing'
  BY <1>1 DEF AttestationLeavesNothing, SessionInv, InSession
<1> QED BY <1>2, <1>3, <1>4, <1>5, <1>6

\* msg3 is sent and freed, or the process ends.
LEMMA SendMsg3Inv == IInv /\ SendMsg3 => IInv'
<1> SUFFICES ASSUME IInv, SendMsg3 PROVE IInv'
  OBVIOUS
<1> USE ClientAssumption DEF IInv, SendMsg3, SendKills, program, lib, session, history, stubs, Dead
<1>1. \A f \in Symbols : known[f] # "failed"
  BY NoneFailed
<1>2. TypeOK'
  BY EnclavesFinite DEF TypeOK, Lines, Statuses, Trusting, CountInv, InSession
<1>3. StubTypes' /\ KnownInv'
  BY DEF StubTypes, KnownInv, HostInv, Always, Symbols, UaeService, Urts
<1>4. HostInv' /\ SessionInv'
  BY DEF HostInv, SessionInv, InSession, TypeOK, Hosts
<1>5. CountInv'
  BY EnclavesFinite DEF CountInv, InSession, TypeOK, Hosts
<1>6. AttestationLeavesNothing'
  BY <1>1 DEF AttestationLeavesNothing, SessionInv, InSession
<1> QED BY <1>2, <1>3, <1>4, <1>5, <1>6

\* The status of msg4 is what the service provider says.
LEMMA ReadMsg4Inv == IInv /\ ReadMsg4 => IInv'
<1> SUFFICES ASSUME IInv, ReadMsg4 PROVE IInv'
  OBVIOUS
<1> USE ClientAssumption DEF IInv, ReadMsg4, ExitError, CloseContext, DeleteMsgio, FreeAll, program, lib, session, history, stubs, Dead
<1>1. \A f \in Symbols : known[f] # "failed"
  BY NoneFailed
<1>2. TypeOK'
  <2>1. heap' \subseteq {"msg2", "msg3", "msg4", "quote"}
    BY DEF TypeOK
  <2>2. ctx' \in {"none", "open", "g_a", "keys"} /\ ctxIn' \in 0 .. EpcLimit + 1
    BY DEF TypeOK
  <2>3. sock' \in BOOLEAN
    BY DEF TypeOK
  <2>4. line' \in Lines \union {"none"} /\ trust' \in Statuses \union {"none"}
    BY DEF TypeOK
  <2> QED BY <2>1, <2>2, <2>3, <2>4 DEF TypeOK
<1>3. StubTypes' /\ KnownInv'
  BY DEF StubTypes, KnownInv, HostInv, Always, Symbols, UaeService, Urts
<1>4. HostInv' /\ SessionInv'
  BY DEF HostInv, SessionInv, InSession, TypeOK, Hosts
<1>5. CountInv'
  BY EnclavesFinite DEF CountInv, InSession, TypeOK, Hosts
<1>6. AttestationLeavesNothing'
  BY <1>1 DEF AttestationLeavesNothing, SessionInv, InSession
<1> QED BY <1>2, <1>3, <1>4, <1>5, <1>6

\* do_attestation ends with nothing left.
LEMMA EndAttestationInv == IInv /\ EndAttestation => IInv'
<1> SUFFICES ASSUME IInv, EndAttestation PROVE IInv'
  OBVIOUS
<1> USE ClientAssumption DEF IInv, EndAttestation, CloseContext, DeleteMsgio, FreeAll, program, lib, session, history, stubs, Dead
<1>1. \A f \in Symbols : known[f] # "failed"
  BY NoneFailed
<1>2. TypeOK'
  <2>1. heap' \subseteq {"msg2", "msg3", "msg4", "quote"}
    BY DEF TypeOK
  <2>2. ctx' \in {"none", "open", "g_a", "keys"} /\ ctxIn' \in 0 .. EpcLimit + 1
    BY DEF TypeOK
  <2>3. sock' \in BOOLEAN
    BY DEF TypeOK
  <2>4. line' \in Lines \union {"none"} /\ trust' \in Statuses \union {"none"}
    BY DEF TypeOK
  <2> QED BY <2>1, <2>2, <2>3, <2>4 DEF TypeOK
<1>3. StubTypes' /\ KnownInv'
  BY DEF StubTypes, KnownInv, HostInv, Always, Symbols, UaeService, Urts
<1>4. HostInv' /\ SessionInv'
  BY DEF HostInv, SessionInv, InSession, TypeOK, Hosts
<1>5. CountInv'
  BY EnclavesFinite DEF CountInv, InSession, TypeOK, Hosts
<1>6. AttestationLeavesNothing'
  BY <1>1 DEF AttestationLeavesNothing, SessionInv, InSession
<1> QED BY <1>2, <1>3, <1>4, <1>5, <1>6

\* What the service provider sends changes the line only.
LEMMA ReplyInv == IInv /\ Reply => IInv'
<1> SUFFICES ASSUME IInv, Reply PROVE IInv'
  OBVIOUS
<1> USE ClientAssumption DEF IInv, Reply, program, lib, session, history, stubs, Dead
<1>1. \A f \in Symbols : known[f] # "failed"
  BY NoneFailed
<1>2. TypeOK'
  BY EnclavesFinite DEF TypeOK, Lines, Statuses, Trusting, CountInv, InSession
<1>3. StubTypes' /\ KnownInv'
  BY DEF StubTypes, KnownInv, HostInv, Always, Symbols, UaeService, Urts
<1>4. HostInv' /\ SessionInv'
  BY DEF HostInv, SessionInv, InSession, TypeOK, Hosts
<1>5. CountInv'
  BY EnclavesFinite DEF CountInv, InSession, TypeOK, Hosts
<1>6. AttestationLeavesNothing'
  BY <1>1 DEF AttestationLeavesNothing, SessionInv, InSession
<1> QED BY <1>2, <1>3, <1>4, <1>5, <1>6

\* The context is in the enclave that was just created.
LEMMA RaInitInv == IInv /\ RaInit => IInv'
<1> SUFFICES ASSUME IInv, RaInit PROVE IInv'
  OBVIOUS
<1> USE ClientAssumption DEF IInv, RaInit, ReturnError, CloseContext, DeleteMsgio, FreeAll, program, lib, session, history, stubs, Dead
<1>1. \A f \in Symbols : known[f] # "failed"
  BY NoneFailed
<1>2. Learns({"sgx_ecall"})
  BY CallsLearn DEF Symbols, UaeService, Urts
<1>3. TypeOK'
  <2>1. heap' \subseteq {"msg2", "msg3", "msg4", "quote"}
    BY DEF TypeOK
  <2>2. ctx' \in {"none", "open", "g_a", "keys"} /\ ctxIn' \in 0 .. EpcLimit + 1
    BY DEF TypeOK
  <2>3. sock' \in BOOLEAN
    BY DEF TypeOK
  <2>4. line' \in Lines \union {"none"} /\ trust' \in Statuses \union {"none"}
    BY DEF TypeOK
  <2> QED BY <2>1, <2>2, <2>3, <2>4 DEF TypeOK
<1>4. StubTypes' /\ KnownInv'
  BY <1>2 DEF Learns, StubTypes, KnownInv, HostInv, Always, Symbols, UaeService, Urts
<1>5. HostInv' /\ SessionInv'
  BY DEF HostInv, SessionInv, InSession, TypeOK, Hosts
<1>6. CountInv'
  BY EnclavesFinite DEF CountInv, InSession, TypeOK, Hosts
<1>7. AttestationLeavesNothing'
  BY <1>1, <1>2 DEF Learns, AttestationLeavesNothing, SessionInv, InSession
<1> QED BY <1>3, <1>4, <1>5, <1>6, <1>7

\* msg1 is sent by a context whose functions are found.
LEMMA SendMsg1Inv == IInv /\ SendMsg1 => IInv'
<1> SUFFICES ASSUME IInv, SendMsg1 PROVE IInv'
  OBVIOUS
<1> USE ClientAssumption DEF IInv, SendMsg1, ReturnError, CloseContext, DeleteMsgio, FreeAll, SendKills, program, lib, session, history, stubs, Dead
<1>1. \A f \in Symbols : known[f] # "failed"
  BY NoneFailed
<1>2. \/ Learns({"sgx_get_extended_epid_group_id"}) /\ pc' = "closelog"
      \/ Learns({"sgx_get_extended_epid_group_id", "sgx_init_quote"})
  BY CallsLearn DEF Symbols, UaeService, Urts
<1>3. TypeOK'
  <2>1. heap' \subseteq {"msg2", "msg3", "msg4", "quote"}
    BY DEF TypeOK
  <2>2. ctx' \in {"none", "open", "g_a", "keys"} /\ ctxIn' \in 0 .. EpcLimit + 1
    BY DEF TypeOK
  <2>3. sock' \in BOOLEAN
    BY DEF TypeOK
  <2>4. line' \in Lines \union {"none"} /\ trust' \in Statuses \union {"none"}
    BY DEF TypeOK
  <2> QED BY <2>1, <2>2, <2>3, <2>4 DEF TypeOK
<1>4. StubTypes' /\ KnownInv'
  BY <1>2 DEF Learns, StubTypes, KnownInv, HostInv, Always, Symbols, UaeService, Urts
<1>5. HostInv' /\ SessionInv'
  BY DEF HostInv, SessionInv, InSession, TypeOK, Hosts
<1>6. CountInv'
  BY EnclavesFinite DEF CountInv, InSession, TypeOK, Hosts
<1>7. AttestationLeavesNothing'
  BY <1>1, <1>2 DEF Learns, AttestationLeavesNothing, SessionInv, InSession
<1> QED BY <1>3, <1>4, <1>5, <1>6, <1>7

\* With the first quote, all functions that every attestation calls are found.
LEMMA ProcMsg2Inv == IInv /\ ProcMsg2 => IInv'
<1> SUFFICES ASSUME IInv, ProcMsg2 PROVE IInv'
  OBVIOUS
<1> USE ClientAssumption DEF IInv, ProcMsg2, ReturnError, CloseContext, DeleteMsgio, FreeAll, program, lib, session, history, stubs, Dead
<1>1. \A f \in Symbols : known[f] # "failed"
  BY NoneFailed
<1>2. UNCHANGED stubs \/ Learns({"sgx_calc_quote_size", "sgx_get_quote"})
  BY CallsLearn DEF Symbols, UaeService, Urts
<1>3. TypeOK'
  <2>1. heap' \subseteq {"msg2", "msg3", "msg4", "quote"}
    BY DEF TypeOK
  <2>2. ctx' \in {"none", "open", "g_a", "keys"} /\ ctxIn' \in 0 .. EpcLimit + 1
    BY DEF TypeOK
  <2>3. sock' \in BOOLEAN
    BY DEF TypeOK
  <2>4. line' \in Lines \union {"none"} /\ trust' \in Statuses \union {"none"}
    BY DEF TypeOK
  <2> QED BY <2>1, <2>2, <2>3, <2>4 DEF TypeOK
<1>4. StubTypes' /\ KnownInv'
  BY <1>2 DEF Learns, StubTypes, KnownInv, HostInv, Always, Symbols, UaeService, Urts
<1>5. HostInv' /\ SessionInv'
  BY DEF HostInv, SessionInv, InSession, TypeOK, Hosts
<1>6. CountInv'
  BY EnclavesFinite DEF CountInv, InSession, TypeOK, Hosts
<1>7. AttestationLeavesNothing'
  BY <1>1, <1>2 DEF Learns, AttestationLeavesNothing, SessionInv, InSession
<1> QED BY <1>3, <1>4, <1>5, <1>6, <1>7

\* Only a trusted enclave goes on to the hashes of the keys.
LEMMA UseStatusInv == IInv /\ UseStatus => IInv'
<1> SUFFICES ASSUME IInv, UseStatus PROVE IInv'
  OBVIOUS
<1> USE ClientAssumption DEF IInv, UseStatus, program, lib, session, history, stubs, Dead
<1>1. \A f \in Symbols : known[f] # "failed"
  BY NoneFailed
<1>2. PICK fs \in SUBSET {"sgx_report_attestation_status"} : Calls(fs)
  OBVIOUS
<1>3. Learns(fs)
  BY <1>2, CallsLearn DEF Symbols, UaeService
<1>4. TypeOK'
  BY EnclavesFinite DEF TypeOK, Lines, Statuses, Trusting, CountInv, InSession
<1>5. StubTypes' /\ KnownInv'
  BY <1>3 DEF Learns, StubTypes, KnownInv, HostInv, Always, Symbols, UaeService, Urts
<1>6. HostInv' /\ SessionInv'
  BY DEF HostInv, SessionInv, InSession, TypeOK, Hosts
<1>7. CountInv'
  BY EnclavesFinite DEF CountInv, InSession, TypeOK, Hosts
<1>8. AttestationLeavesNothing'
  BY <1>1, <1>3 DEF Learns, AttestationLeavesNothing, SessionInv, InSession
<1> QED BY <1>4, <1>5, <1>6, <1>7, <1>8

\* do_quote has no context, no connection and no message.
LEMMA QuoteInv == IInv /\ Quote => IInv'
<1> SUFFICES ASSUME IInv, Quote PROVE IInv'
  OBVIOUS
<1> USE ClientAssumption DEF IInv, Quote, program, lib, session, history, stubs, Dead
<1>1. \A f \in Symbols : known[f] # "failed"
  BY NoneFailed
<1>2. Learns({"sgx_init_quote"}) \/ Learns({"sgx_init_quote", "sgx_ecall"})
  BY CallsLearn DEF Symbols, UaeService, Urts
<1>3. TypeOK'
  BY EnclavesFinite DEF TypeOK, Lines, Statuses, Trusting, CountInv, InSession
<1>4. StubTypes' /\ KnownInv'
  BY <1>2 DEF Learns, StubTypes, KnownInv, HostInv, Always, Symbols, UaeService, Urts
<1>5. HostInv' /\ SessionInv'
  BY DEF HostInv, SessionInv, InSession, TypeOK, Hosts
<1>6. CountInv'
  BY EnclavesFinite DEF CountInv, InSession, TypeOK, Hosts
<1>7. AttestationLeavesNothing'
  BY <1>1, <1>2 DEF Learns, AttestationLeavesNothing, SessionInv, InSession
<1> QED BY <1>3, <1>4, <1>5, <1>6, <1>7

\* The first quote of a process with options is its last.
LEMMA GetQuoteInv == IInv /\ GetQuote => IInv'
<1> SUFFICES ASSUME IInv, GetQuote PROVE IInv'
  OBVIOUS
<1> USE ClientAssumption DEF IInv, GetQuote, program, lib, session, history, stubs, Dead
<1>1. \A f \in Symbols : known[f] # "failed"
  BY NoneFailed
<1>2. Learns({"sgx_get_quote"})
  BY CallsLearn DEF Symbols, UaeService, Urts
<1>3. TypeOK'
  BY EnclavesFinite DEF TypeOK, Lines, Statuses, Trusting, CountInv, InSession
<1>4. StubTypes' /\ KnownInv'
  BY <1>2 DEF Learns, StubTypes, KnownInv, HostInv, Always, Symbols, UaeService, Urts
<1>5. HostInv' /\ SessionInv'
  BY DEF HostInv, SessionInv, InSession, TypeOK, Hosts
<1>6. CountInv'
  BY EnclavesFinite DEF CountInv, InSession, TypeOK, Hosts
<1>7. AttestationLeavesNothing'
  BY <1>1, <1>2 DEF Learns, AttestationLeavesNothing, SessionInv, InSession
<1> QED BY <1>3, <1>4, <1>5, <1>6, <1>7

\* add_nums and main without arguments create the enclave that they will destroy.
LEMMA AddCreateInv == IInv /\ AddCreate => IInv'
<1> SUFFICES ASSUME IInv, AddCreate PROVE IInv'
  OBVIOUS
<1> USE ClientAssumption DEF IInv, AddCreate, Done, lib, session, history, Dead
<1>1. \A f \in Symbols : known[f] # "failed"
  BY NoneFailed
<1>2. Learns({"sgx_create_enclave"})
  BY CallsLearn DEF CallsCreate, Symbols, Urts
<1>3. \/ Create(pc') /\ pc' \in {"add"}
      \/ UNCHANGED <<eid, enclaves, entered>> /\ pc' \in {"host", "exited"}
  BY DEF Create
<1>4. CASE Create(pc') /\ pc' \in {"add"}
  <2>1. /\ eid' \in 1 .. EpcLimit + 1 /\ eid' \in enclaves'
        /\ enclaves' \subseteq 1 .. EpcLimit + 1
        /\ Cardinality(enclaves') = Cardinality(enclaves) + 1
        /\ Cardinality(enclaves') <= EpcLimit
    BY <1>4, CreateAdds
  <2>2. CountInv'
    BY <1>4, <2>1, EnclavesFinite DEF CountInv, TypeOK, Hosts, HostInv, InSession
  <2>3. TypeOK'
    BY <1>4, <2>1, <2>2, EnclavesFinite DEF TypeOK, CountInv
  <2>4. StubTypes' /\ KnownInv'
    BY <1>2, <1>4 DEF Learns, StubTypes, KnownInv, HostInv, Always, Symbols, UaeService, Urts
  <2>5. HostInv' /\ SessionInv'
    BY <1>4 DEF HostInv, SessionInv, InSession, TypeOK, Hosts
  <2>6. AttestationLeavesNothing'
    BY <1>1, <1>2, <1>4 DEF Learns, AttestationLeavesNothing, SessionInv, InSession
  <2> QED BY <2>2, <2>3, <2>4, <2>5, <2>6
<1>5. CASE UNCHANGED <<eid, enclaves, entered>> /\ pc' \in {"host", "exited"}
  <2>1. TypeOK' /\ CountInv'
    BY <1>5, EnclavesFinite DEF TypeOK, CountInv, HostInv, InSession, Hosts
  <2>2. StubTypes' /\ KnownInv'
    BY <1>2, <1>5 DEF Learns, StubTypes, KnownInv, HostInv, Always, Symbols, UaeService, Urts
  <2>3. HostInv' /\ SessionInv'
    BY <1>5 DEF Create, HostInv, SessionInv, InSession, TypeOK, Hosts
  <2>4. AttestationLeavesNothing'
    BY <1>1, <1>2, <1>5 DEF Learns, AttestationLeavesNothing, SessionInv, InSession
  <2> QED BY <2>1, <2>2, <2>3, <2>4
<1> QED BY <1>3, <1>4, <1>5

\* Each attestation of a host adds its enclave, or leaves its log file.
LEMMA InitializeEnclaveInv == IInv /\ InitializeEnclave => IInv'
<1> SUFFICES ASSUME IInv, InitializeEnclave PROVE IInv'
  OBVIOUS
<1> USE ClientAssumption DEF IInv, InitializeEnclave, Done, Enter, Abort, OneMore, lib, session, history, Dead
<1>1. \A f \in Symbols : known[f] # "failed"
  BY NoneFailed
<1>2. Learns({"sgx_create_enclave"})
  BY CallsLearn DEF CallsCreate, Symbols, Urts
<1>3. \/ Create(pc') /\ pc' \in {"connect"}
      \/ UNCHANGED <<eid, enclaves, entered>> /\ pc' \in {"host", "exited"}
  BY DEF Create
<1>4. CASE Create(pc') /\ pc' \in {"connect"}
  <2>1. /\ eid' \in 1 .. EpcLimit + 1 /\ eid' \in enclaves'
        /\ enclaves' \subseteq 1 .. EpcLimit + 1
        /\ Cardinality(enclaves') = Cardinality(enclaves) + 1
        /\ Cardinality(enclaves') <= EpcLimit
    BY <1>4, CreateAdds
  <2>2. CountInv'
    BY <1>4, <2>1, EnclavesFinite DEF CountInv, TypeOK, Hosts, HostInv, InSession
  <2>3. TypeOK'
    BY <1>4, <2>1, <2>2, EnclavesFinite DEF TypeOK, CountInv
  <2>4. StubTypes' /\ KnownInv'
    BY <1>2, <1>4 DEF Learns, StubTypes, KnownInv, HostInv, Always, Symbols, UaeService, Urts
  <2>5. HostInv' /\ SessionInv'
    BY <1>4 DEF HostInv, SessionInv, InSession, TypeOK, Hosts
  <2>6. AttestationLeavesNothing'
    BY <1>1, <1>2, <1>4 DEF Learns, AttestationLeavesNothing, SessionInv, InSession
  <2> QED BY <2>2, <2>3, <2>4, <2>5, <2>6
<1>5. CASE UNCHANGED <<eid, enclaves, entered>> /\ pc' \in {"host", "exited"}
  <2>1. TypeOK' /\ CountInv'
    BY <1>5, EnclavesFinite DEF TypeOK, CountInv, HostInv, InSession, Hosts
  <2>2. StubTypes' /\ KnownInv'
    BY <1>2, <1>5 DEF Learns, StubTypes, KnownInv, HostInv, Always, Symbols, UaeService, Urts
  <2>3. HostInv' /\ SessionInv'
    BY <1>5 DEF Create, HostInv, SessionInv, InSession, TypeOK, Hosts
  <2>4. AttestationLeavesNothing'
    BY <1>1, <1>2, <1>5 DEF Learns, AttestationLeavesNothing, SessionInv, InSession
  <2> QED BY <2>1, <2>2, <2>3, <2>4
<1> QED BY <1>3, <1>4, <1>5

\* main with options has at most one enclave.
LEMMA SearchEnclaveInv == IInv /\ SearchEnclave => IInv'
<1> SUFFICES ASSUME IInv, SearchEnclave PROVE IInv'
  OBVIOUS
<1> USE ClientAssumption DEF IInv, SearchEnclave, Enter, OneMore, lib, session, history, Dead
<1>1. \A f \in Symbols : known[f] # "failed"
  BY NoneFailed
<1>2. Learns({"sgx_create_enclave"})
  BY CallsLearn DEF CallsCreate, Symbols, Urts
<1>3. \/ Create(pc') /\ pc' \in {"connect", "quote"}
      \/ UNCHANGED <<eid, enclaves, entered>> /\ pc' = "exited"
  BY DEF Create
<1>4. CASE Create(pc') /\ pc' \in {"connect", "quote"}
  <2>1. /\ eid' \in 1 .. EpcLimit + 1 /\ eid' \in enclaves'
        /\ enclaves' \subseteq 1 .. EpcLimit + 1
        /\ Cardinality(enclaves') = Cardinality(enclaves) + 1
        /\ Cardinality(enclaves') <= EpcLimit
    BY <1>4, CreateAdds
  <2>2. CountInv'
    BY <1>4, <2>1, EnclavesFinite DEF CountInv, TypeOK, Hosts, HostInv, InSession
  <2>3. TypeOK'
    BY <1>4, <2>1, <2>2, EnclavesFinite DEF TypeOK, CountInv
  <2>4. StubTypes' /\ KnownInv'
    BY <1>2, <1>4 DEF Learns, StubTypes, KnownInv, HostInv, Always, Symbols, UaeService, Urts
  <2>5. HostInv' /\ SessionInv'
    BY <1>4 DEF HostInv, SessionInv, InSession, TypeOK, Hosts
  <2>6. AttestationLeavesNothing'
    BY <1>1, <1>2, <1>4 DEF Learns, AttestationLeavesNothing, SessionInv, InSession
  <2> QED BY <2>2, <2>3, <2>4, <2>5, <2>6
<1>5. CASE UNCHANGED <<eid, enclaves, entered>> /\ pc' = "exited"
  <2>1. TypeOK' /\ CountInv'
    BY <1>5, EnclavesFinite DEF TypeOK, CountInv, HostInv, InSession, Hosts
  <2>2. StubTypes' /\ KnownInv'
    BY <1>2, <1>5 DEF Learns, StubTypes, KnownInv, HostInv, Always, Symbols, UaeService, Urts
  <2>3. HostInv' /\ SessionInv'
    BY <1>5 DEF Create, HostInv, SessionInv, InSession, TypeOK, Hosts
  <2>4. AttestationLeavesNothing'
    BY <1>1, <1>2, <1>5 DEF Learns, AttestationLeavesNothing, SessionInv, InSession
  <2> QED BY <2>1, <2>2, <2>3, <2>4
<1> QED BY <1>3, <1>4, <1>5

\* The enclave of add_nums is destroyed, which leaves those of the attestations.
LEMMA AddDestroyInv == IInv /\ AddDestroy => IInv'
<1> SUFFICES ASSUME IInv, AddDestroy PROVE IInv'
  OBVIOUS
<1> USE ClientAssumption DEF IInv, AddDestroy, session, history, Dead
<1>1. \A f \in Symbols : known[f] # "failed"
  BY NoneFailed
<1>2. Learns({"sgx_ecall", "sgx_destroy_enclave"})
  BY CallsLearn DEF Symbols, Urts
<1>3. Cardinality(enclaves') = Cardinality(enclaves) - 1
  BY DestroyRemoves DEF CountInv
<1>4. TypeOK'
  BY DEF TypeOK
<1>5. StubTypes' /\ KnownInv'
  BY <1>2 DEF Learns, StubTypes, KnownInv, HostInv, Always, Symbols, UaeService, Urts
<1>6. HostInv' /\ SessionInv'
  BY DEF HostInv, SessionInv, InSession, TypeOK, Hosts
<1>7. CountInv'
  BY <1>3, EnclavesFinite DEF CountInv, InSession, TypeOK, Hosts, HostInv
<1>8. AttestationLeavesNothing'
  BY <1>1, <1>2 DEF Learns, AttestationLeavesNothing, SessionInv, InSession
<1> QED BY <1>4, <1>5, <1>6, <1>7, <1>8

\* Past get_sgx_support, an application with options lacks no library.
LEMMA OptionsInv == IInv /\ Options => IInv'
<1> SUFFICES ASSUME IInv, Options PROVE IInv'
  OBVIOUS
<1> USE ClientAssumption DEF IInv, Options, lib, session, history, stubs, Dead
<1>1. \A f \in Symbols : known[f] # "failed"
  BY NoneFailed
<1>2. UNCHANGED <<known, lacking>>
  BY DEF GetSgxSupport
<1>3. pc' = "search" => lacking' \intersect Libraries = {}
  BY DEF GetSgxSupport
<1>4. TypeOK'
  BY DEF TypeOK
<1>5. StubTypes' /\ KnownInv'
  BY <1>2, <1>3 DEF StubTypes, KnownInv
<1>6. HostInv' /\ SessionInv'
  BY DEF HostInv, SessionInv, InSession
<1>7. CountInv'
  BY EnclavesFinite DEF CountInv, InSession, TypeOK
<1>8. AttestationLeavesNothing'
  BY <1>1, <1>2 DEF AttestationLeavesNothing, SessionInv, InSession
<1> QED BY <1>4, <1>5, <1>6, <1>7, <1>8

\* A stub that finds its function lacking ends the process, at a point that tells
\* which function it was.
LEMMA StubEndsInv == IInv /\ StubEnds => IInv'
<1> SUFFICES ASSUME IInv, StubEnds PROVE IInv'
  OBVIOUS
<1>0. PICK stub \in NextCalls :
        /\ \/ NotFound(stub) /\ pc' = "exited"
           \/ FoundItself(stub) /\ pc' = "crashed"
        /\ UNCHANGED <<host, lib, session, logs, history>>
  BY DEF StubEnds
<1> USE <1>0, ClientAssumption DEF IInv, lib, session, history, Dead
<1>1. pc \notin Dead /\ stub \in Symbols /\ known[stub] = "0" /\ lacking' = lacking
  BY DEF NextCalls, NotFound, FoundItself, New, Symbols, UaeService, Urts
<1>2. \A g \in Symbols : known[g] # "failed"
  BY <1>1, NoneFailed
<1>3. TypeOK' /\ HostInv' /\ SessionInv'
  BY DEF TypeOK, HostInv, SessionInv, InSession
<1>4. StubTypes' /\ KnownInv'
  BY <1>1 DEF NotFound, FoundItself, StubTypes, KnownInv
<1>5. CountInv'
  BY <1>1, EnclavesFinite DEF CountInv, InSession, TypeOK
<1>6. ASSUME NotFound(stub), pc' = "exited" PROVE AttestationLeavesNothing'
  <2>1. /\ known'[stub] = "failed"
        /\ \A g \in Symbols \ {stub} : known'[g] = known[g]
    BY <1>1, <1>6 DEF NotFound, StubTypes
  <2>2. known["sgx_get_quote"] = "found" => stub \in {"sgx_report_attestation_status", "sgx_destroy_enclave"}
    BY <1>1 DEF KnownInv, NextCalls, Always
  <2>3. host = "options" => LibraryOf(stub) \notin lacking
    BY <1>1 DEF KnownInv, NextCalls, HostInv, LibraryOf, Libraries
  <2> QED BY <1>1, <1>2, <1>6, <2>1, <2>2, <2>3 DEF AttestationLeavesNothing, Symbols, UaeService
<1>7. ASSUME FoundItself(stub), pc' = "crashed" PROVE AttestationLeavesNothing'
  <2>1. \A g \in Symbols : known'[g] # "failed"
    BY <1>1, <1>2, <1>7 DEF FoundItself, StubTypes
  <2>2. pc' \notin {"host", "closelog", "exited"}
    BY <1>7
  <2> QED BY <2>1, <2>2 DEF AttestationLeavesNothing
<1> QED BY <1>3, <1>4, <1>5, <1>6, <1>7

-----------------------------------------------------------------------------

\* The initial states satisfy the invariant.
LEMMA InitInv == Init => IInv
<1> SUFFICES ASSUME Init PROVE IInv
  OBVIOUS
<1> USE ClientAssumption DEF Init, StubsInit, Dead
<1>1. TypeOK
  <2>1. enclaves \subseteq 1 .. EpcLimit + 1 /\ heap \subseteq {"msg2", "msg3", "msg4", "quote"}
    OBVIOUS
  <2>2. eid \in 0 .. EpcLimit + 1 /\ ctxIn \in 0 .. EpcLimit + 1 /\ logs \in 0 .. FileLimit
        /\ entered \in 0 .. EpcLimit /\ aborted \in 0 .. FileLimit
    OBVIOUS
  <2> QED BY <2>1, <2>2 DEF TypeOK
<1>2. StubTypes /\ KnownInv
  BY DEF StubTypes, KnownInv, Hosts, Symbols, UaeService
<1>3. HostInv /\ SessionInv
  BY DEF HostInv, SessionInv, Hosts
<1>4. CountInv
  BY FS_EmptySet DEF CountInv, InSession, Hosts
<1>5. AttestationLeavesNothing
  BY DEF AttestationLeavesNothing
<1> QED BY <1>1, <1>2, <1>3, <1>4, <1>5 DEF IInv

\* Every step preserves it.
LEMMA NextInv == IInv /\ [Next]_vars => IInv'
<1>1. IInv /\ Attestation => IInv'
  BY ConnectInv, RaInitInv, SendMsg1Inv, ReadMsg2Inv, ProcMsg2Inv, SendMsg3Inv, ReadMsg4Inv,
     UseStatusInv, KeyHashesInv, EndAttestationInv DEF Attestation
<1>2. IInv /\ Client => IInv'
  BY <1>1, AddDestroyInv, OpenLogInv, ConfigureInv, InitializeEnclaveInv, CloseLogInv, OptionsInv,
     SearchEnclaveInv, QuoteInv, GetQuoteInv, AddCreateInv, NonceInv, RdrandInv, StubEndsInv DEF Client
<1>3. IInv /\ UNCHANGED vars => IInv'
  BY DEF vars, lib, session, history, stubs, IInv, TypeOK, StubTypes, HostInv, SessionInv, CountInv,
         KnownInv, AttestationLeavesNothing
<1> QED BY <1>2, <1>3, AddCreateInv, AttestInv, ReplyInv, StubEndsInv DEF Next

LEMMA InvariantHolds == Spec => []IInv
BY InitInv, NextInv, PTL DEF Spec

\* The values of the variables: of the client's enclaves and log files there are
\* never more than fit, and the histories' bounds are never reached.
THEOREM TypeCorrect == Spec => []TypeOK
<1>1. IInv => TypeOK
  BY DEF IInv
<1> QED BY <1>1, InvariantHolds, PTL

\* do_attestation leaves no context, connection or message on any way out, but by
\* a stub of sgx_stub.c, and those end the process only at the places and for the
\* functions that AttestationLeavesNothing lists, whatever is not installed.
THEOREM DoAttestationCleansUp == Spec => []AttestationLeavesNothing
<1>1. IInv => AttestationLeavesNothing
  BY DEF IInv
<1> QED BY <1>1, InvariantHolds, PTL

\* Each call of attestation_with_custom_config costs its host an enclave or, if it
\* got none, an open log file, and nothing else: after any number of calls.
THEOREM EachCallLeaksOne == Spec => []LeaksAreExact
<1>1. IInv => LeaksAreExact
  BY DEF IInv, LeaksAreExact, CountInv, HostInv, Dead
<1> QED BY <1>1, InvariantHolds, PTL

\* Although eid outlives its enclave, no ECALL of do_attestation or do_quote goes
\* to a dead one, and none to another than the context's.
THEOREM EcallsAreServed == Spec => []EcallsReachTheEnclave
<1>1. IInv => EcallsReachTheEnclave
  BY DEF IInv, EcallsReachTheEnclave, CountInv, SessionInv, InSession
<1> QED BY <1>1, InvariantHolds, PTL

\* enclave_ra_get_key_hash is called under keys of this session's own agreement,
\* after a msg4 that says trusted.
THEOREM KeyHashesFollowTrust == Spec => []KeysAreForTheTrusted
<1>1. IInv => KeysAreForTheTrusted
  BY DEF IInv, KeysAreForTheTrusted, SessionInv
<1> QED BY <1>1, InvariantHolds, PTL

==============================================================================
