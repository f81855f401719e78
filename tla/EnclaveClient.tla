---------------------------- MODULE EnclaveClient ----------------------------
(***************************************************************************)
(* The client (App/App.cpp and the ECALLs of Enclave/Enclave.c) inside its *)
(* process: what attestation_with_custom_config, add_nums, main, and the   *)
(* functions they call, do_attestation and do_quote, create and release.   *)
(*                                                                         *)
(* The process is a host that calls the library for ever (main.py, with    *)
(* app.so), the application without arguments, or the application with     *)
(* options, which attests or makes a quote, once.  The service provider is *)
(* external, and so is the SGX runtime, but for the stubs through which    *)
(* the program calls it (SgxStubs).                                        *)
(***************************************************************************)
EXTENDS Integers, SgxStubs

CONSTANTS
  EpcLimit,      \* enclaves that fit in the machine at a time
  FileLimit      \* log files that the process can have open

ASSUME ClientAssumption == EpcLimit \in Nat /\ FileLimit \in Nat \ {0}

Hosts == {"library", "app", "options"}
Trusting == {"Trusted", "Trusted_ItsComplicated"}
Statuses == Trusting \union {"NotTrusted", "NotTrusted_ItsComplicated"}

\* A line that holds the message expected, one that sgx_ra_proc_msg2 does not
\* take, an empty one, the end of the stream or an odd line, a failed malloc.
Lines == {"good", "bad", "empty", "protocol", "system"}

VARIABLES
  host,      \* what the process is
  pc,        \* where it is
  eid,       \* the global eid, 0 at first
  enclaves,  \* the enclaves that are alive
  ctx,       \* how far the RA context is: none, open, g_a known, keys agreed
  ctxIn,     \* the enclave the context is in
  sock,      \* whether msgio exists
  heap,      \* the messages and the quote that are allocated
  logs,      \* log files that are open
  line,      \* what msgio->read has to return
  trust,     \* msg4->status, none before there is a msg4
  entered,   \* history: calls of do_attestation
  aborted    \* history: calls that ended with their log file open

lib == <<eid, enclaves>>
session == <<ctx, ctxIn, sock, heap, line, trust>>
history == <<entered, aborted>>
vars == <<host, pc, lib, session, logs, history, stubs>>

\* What a step that calls no function of the SDK leaves alone.
program == <<host, stubs>>

Dead == {"exited", "crashed"}

\* A call is over: a library's host goes on, a program ends.
Done == pc' = IF host = "library" THEN "host" ELSE "exited"

\* The runtime does not give an enclave the id of one that was just destroyed.
NewId == CHOOSE n \in 1 .. EpcLimit + 1 : n \notin enclaves \union {eid}

\* Bound: the histories count to one past what the limits allow.
OneMore(n, limit) == IF n <= limit THEN n + 1 ELSE n
Enter == entered' = OneMore(entered, EpcLimit)
Abort == aborted' = OneMore(aborted, FileLimit)

\* sgx_create_enclave, which may fail for want of memory or for other reasons.
CallsCreate == Calls({"sgx_create_enclave"})
Create(next) ==
  /\ Cardinality(enclaves) < EpcLimit
  /\ eid' = NewId
  /\ enclaves' = enclaves \union {NewId}
  /\ pc' = next

-----------------------------------------------------------------------------
(* add_nums, and the first half of main without arguments *)

AddCreate ==
  /\ \/ pc = "host" /\ host = "library"
     \/ pc = "main" /\ host = "app"
  /\ \/ Create("add")
     \/ Done /\ UNCHANGED lib
  /\ CallsCreate
  /\ UNCHANGED <<host, session, logs, history>>

\* addition, and sgx_destroy_enclave.
AddDestroy ==
  /\ pc = "add"
  /\ enclaves' = enclaves \ {eid}
  /\ pc' = IF host = "app" THEN "log" ELSE "host"
  /\ Calls({"sgx_ecall", "sgx_destroy_enclave"})
  /\ UNCHANGED <<host, eid, session, logs, history>>

-----------------------------------------------------------------------------
(* attestation_with_custom_config *)

Attest ==
  /\ pc = "host" /\ host = "library"
  /\ pc' = "log"
  /\ UNCHANGED <<program, lib, session, logs, history>>

\* create_logfile exits if it cannot open the file.  Main with options goes on to
\* them, the making of a nonce among them.
OpenLog ==
  /\ pc = "log"
  /\ \/ logs < FileLimit /\ logs' = logs + 1
        /\ pc' \in IF host = "options" THEN {"nonce", "options"} ELSE {"config"}
     \/ pc' = "exited" /\ UNCHANGED logs
  /\ UNCHANGED <<program, lib, session, history>>

\* The time, and the server's name.
Configure ==
  /\ pc = "config"
  /\ \/ pc' = "nonce" /\ UNCHANGED aborted
     \/ Done /\ Abort
  /\ UNCHANGED <<program, lib, session, logs, entered>>

\* The loop around _rdrand64_step: its condition is ~ok /\ retry, and retry, 10,
\* never changes, so that the loop is entered and only a success leaves it.
Nonce ==
  /\ pc = "nonce"
  /\ pc' = "rdrand"
  /\ UNCHANGED <<program, lib, session, logs, history>>

Rdrand(ok) ==
  /\ pc = "rdrand"
  /\ pc' = IF ~ok THEN "nonce" ELSE IF host = "options" THEN "options" ELSE "create"
  /\ UNCHANGED <<program, lib, session, logs, history>>

\* MUTANT of InitializeEnclave: a failure is not noticed.
InitializeUnchecked ==
  /\ pc = "create"
  /\ \/ Create("connect") /\ UNCHANGED aborted
     \/ pc' = "connect" /\ UNCHANGED <<lib, aborted>>
  /\ CallsCreate /\ Enter
  /\ UNCHANGED <<host, session, logs>>

\* initialize_enclave; its failure waits for a character and returns.
InitializeEnclave ==
  /\ pc = "create"
  /\ \/ Create("connect") /\ Enter /\ UNCHANGED aborted
     \/ Done /\ Abort /\ UNCHANGED <<lib, entered>>
  /\ CallsCreate
  /\ UNCHANGED <<host, session, logs>>

\* MUTANT of CloseLog: the enclave is destroyed too.
CloseLogDestroys ==
  /\ pc = "closelog"
  /\ logs' = logs - 1
  /\ enclaves' = enclaves \ {eid}
  /\ Done
  /\ UNCHANGED <<program, eid, session, history>>

\* After do_attestation or do_quote, whatever they return: close_logfile.
\* Nobody destroys the enclave.
CloseLog ==
  /\ pc = "closelog"
  /\ logs' = logs - 1
  /\ Done
  /\ UNCHANGED <<program, lib, session, history>>

-----------------------------------------------------------------------------
(* main with options *)

\* The options, which may be wrong, and the support for SGX: the libraries may
\* lack, the device may not be enabled.
Options ==
  /\ host = "options"
  /\ \/ pc = "main" /\ pc' = "log" /\ UNCHANGED stubs
     \/ pc = "options" /\ pc' = "exited" /\ UNCHANGED stubs
     \/ /\ pc = "options"
        /\ GetSgxSupport
        /\ pc' \in IF support' = "yes" THEN {"search", "exited"} ELSE {"exited"}
  /\ UNCHANGED <<host, lib, session, logs, history>>

\* sgx_create_enclave_search, and the mode.
SearchEnclave ==
  /\ pc = "search"
  /\ \/ Create("connect") /\ Enter
     \/ Create("quote") /\ UNCHANGED entered
     \/ pc' = "exited" /\ UNCHANGED <<lib, entered>>
  /\ CallsCreate
  /\ UNCHANGED <<host, session, logs, aborted>>

\* do_quote: sgx_init_quote, which is all that the mode for the EPID group needs,
\* the ECALL get_report, and the size of the quote.
Quote ==
  /\ pc = "quote"
  /\ \/ Calls({"sgx_init_quote"}) /\ pc' \in {"exited", "closelog"}      \* the EPID group, an error
     \/ Calls({"sgx_init_quote", "sgx_ecall"}) /\ pc' = "closelog"       \* an error
     \/ Calls({"sgx_init_quote", "sgx_ecall"}) /\ QuoteSizeKnown /\ pc' = "getquote"
  /\ heap' = IF pc' = "getquote" THEN heap \union {"quote"} ELSE heap
  /\ UNCHANGED <<host, lib, ctx, ctxIn, sock, line, trust, logs, history>>

\* sgx_get_quote and the printing; the quote is not freed.
GetQuote ==
  /\ pc = "getquote"
  /\ pc' = "closelog"
  /\ Calls({"sgx_get_quote"})
  /\ UNCHANGED <<host, lib, session, logs, history>>

-----------------------------------------------------------------------------
(* do_attestation *)

\* new MsgIO.
Connect ==
  /\ pc = "connect"
  /\ \/ sock' = TRUE /\ pc' = "init"
     \/ pc' = "exited" /\ UNCHANGED sock
  /\ UNCHANGED <<program, lib, ctx, ctxIn, heap, line, trust, logs, history>>

CloseContext == ctx' = "none" /\ ctxIn' = 0
DeleteMsgio == sock' = FALSE
FreeAll == heap' = {} /\ line' = "none" /\ trust' = "none"

\* A return 1 of do_attestation; its caller does not look at it.
ReturnError == CloseContext /\ DeleteMsgio /\ FreeAll /\ pc' = "closelog"

\* enclave_ra_init or enclave_ra_init_def: the ECALL or sgx_ra_init may fail.  The
\* ECALLs after it find sgx_ecall known.
RaInit ==
  /\ pc = "init"
  /\ \/ ctx' = "open" /\ ctxIn' = eid /\ pc' = "msg1" /\ UNCHANGED <<sock, heap, line, trust>>
     \/ ReturnError
  /\ Calls({"sgx_ecall"})
  /\ UNCHANGED <<host, lib, logs, history>>

\* A send to a server that has closed ends a program by SIGPIPE; Python, the
\* library's host, ignores the signal.
SendKills == host # "library" /\ pc' = "crashed" /\ UNCHANGED session

\* sgx_get_extended_epid_group_id, sgx_ra_get_msg1, which calls sgx_init_quote,
\* and the sending of both.
SendMsg1 ==
  /\ pc = "msg1"
  /\ \/ Calls({"sgx_get_extended_epid_group_id"}) /\ ReturnError
     \/ /\ Calls({"sgx_get_extended_epid_group_id", "sgx_init_quote"})
        /\ \/ ctx' = "g_a" /\ pc' = "read2" /\ UNCHANGED <<ctxIn, sock, heap, line, trust>>
           \/ ReturnError
           \/ SendKills
  /\ UNCHANGED <<host, lib, logs, history>>

\* External: the service provider's line, or its end.
Reply ==
  /\ pc \in {"read2", "read4"} /\ line = "none"
  /\ line' \in Lines
  /\ UNCHANGED <<program, pc, lib, ctx, ctxIn, sock, heap, trust, logs, history>>

\* exit(1), after a read that failed, from inside do_attestation.
ExitError == CloseContext /\ DeleteMsgio /\ FreeAll /\ pc' = "exited"

\* MUTANT of ReadMsg2: the exit is taken with the RA context open.
ReadMsg2NoClose ==
  /\ pc = "read2" /\ line # "none"
  /\ \/ /\ line \in {"good", "bad"}
        /\ heap' = heap \union {"msg2"} /\ pc' = "proc" /\ UNCHANGED <<ctx, ctxIn, sock, line, trust>>
     \/ /\ line \in {"protocol", "system"}
        /\ DeleteMsgio /\ FreeAll /\ pc' = "exited" /\ UNCHANGED <<ctx, ctxIn>>
     \/ line = "empty" /\ pc' = "crashed" /\ UNCHANGED session
  /\ UNCHANGED <<program, lib, logs, history>>

\* msgio->read of msg2.  An empty line is a success without a message, whose
\* fields the next statement reads.
ReadMsg2 ==
  /\ pc = "read2" /\ line # "none"
  /\ \/ /\ line \in {"good", "bad"}
        /\ heap' = heap \union {"msg2"}
        /\ pc' = "proc"
        /\ UNCHANGED <<ctx, ctxIn, sock, line, trust>>
     \/ line \in {"protocol", "system"} /\ ExitError
     \/ line = "empty" /\ pc' = "crashed" /\ UNCHANGED session
  /\ UNCHANGED <<program, lib, logs, history>>

\* sgx_ra_proc_msg2, which sizes and gets the quote and allocates msg3, unless it
\* does not take msg2; msg2 is freed.
ProcMsg2 ==
  /\ pc = "proc"
  /\ \/ UNCHANGED stubs /\ ReturnError
     \/ /\ line = "good"
        /\ Calls({"sgx_calc_quote_size", "sgx_get_quote"})
        /\ \/ ReturnError
           \/ /\ ctx' = "keys"
              /\ heap' = (heap \ {"msg2"}) \union {"msg3"}
              /\ line' = "none"
              /\ pc' = "msg3"
              /\ UNCHANGED <<ctxIn, sock, trust>>
  /\ UNCHANGED <<host, lib, logs, history>>

SendMsg3 ==
  /\ pc = "msg3"
  /\ \/ heap' = heap \ {"msg3"} /\ pc' = "read4" /\ UNCHANGED <<ctx, ctxIn, sock, line, trust>>
     \/ SendKills
  /\ UNCHANGED <<program, lib, logs, history>>

\* MUTANT of ReadMsg4: the end of the stream is read again.
ReadMsg4Again ==
  /\ pc = "read4" /\ line # "none"
  /\ \/ /\ line \in {"good", "bad"}
        /\ heap' = heap \union {"msg4"} /\ trust' \in Statuses /\ pc' = "status"
        /\ UNCHANGED <<ctx, ctxIn, sock, line>>
     \/ line = "protocol" /\ UNCHANGED <<pc, session>>
     \/ line = "system" /\ ExitError
     \/ line = "empty" /\ pc' = "crashed" /\ UNCHANGED session
  /\ UNCHANGED <<program, lib, logs, history>>

\* msgio->read of msg4, and its status.
ReadMsg4 ==
  /\ pc = "read4" /\ line # "none"
  /\ \/ /\ line \in {"good", "bad"}
        /\ heap' = heap \union {"msg4"}
        /\ trust' \in Statuses
        /\ pc' = "status"
        /\ UNCHANGED <<ctx, ctxIn, sock, line>>
     \/ line \in {"protocol", "system"} /\ ExitError
     \/ line = "empty" /\ pc' = "crashed" /\ UNCHANGED session
  /\ UNCHANGED <<program, lib, logs, history>>

\* MUTANT of UseStatus: every status but NotTrusted gets the key hashes.
UseStatusNotNotTrusted ==
  /\ pc = "status"
  /\ pc' = IF trust # "NotTrusted" THEN "keys" ELSE "end"
  /\ \E fs \in SUBSET {"sgx_report_attestation_status"} : Calls(fs)
  /\ UNCHANGED <<host, lib, session, logs, history>>

\* The status is printed; the platform information, if there is any, is handed to
\* sgx_report_attestation_status; a trusted enclave goes on to the hashes of MK and
\* SK.
UseStatus ==
  /\ pc = "status"
  /\ pc' = IF trust \in Trusting THEN "keys" ELSE "end"
  /\ \E fs \in SUBSET {"sgx_report_attestation_status"} : Calls(fs)
  /\ UNCHANGED <<host, lib, session, logs, history>>

\* enclave_ra_get_key_hash, for MK and for SK, which decrypts the ciphertext.
\* What the ECALLs return changes nothing.
KeyHashes ==
  /\ pc = "keys"
  /\ pc' = "end"
  /\ UNCHANGED <<program, lib, session, logs, history>>

EndAttestation ==
  /\ pc = "end"
  /\ CloseContext /\ DeleteMsgio /\ FreeAll
  /\ pc' = "closelog"
  /\ UNCHANGED <<program, lib, logs, history>>

-----------------------------------------------------------------------------
(* A function of the SDK that is not there *)

\* The functions that may be called next, in this state.
NextCalls ==
  CASE pc \in {"create", "search"} -> {"sgx_create_enclave"}
    [] (pc = "host" /\ host = "library") \/ (pc = "main" /\ host = "app") -> {"sgx_create_enclave"}
    [] pc = "add" -> {"sgx_ecall", "sgx_destroy_enclave"}
    [] pc = "init" -> {"sgx_ecall"}
    [] pc = "msg1" -> {"sgx_get_extended_epid_group_id", "sgx_init_quote"}
    [] pc = "proc" /\ line = "good" -> {"sgx_calc_quote_size", "sgx_get_quote"}
    [] pc = "status" -> {"sgx_report_attestation_status"}
    [] pc = "quote" -> {"sgx_init_quote", "sgx_ecall"}
    [] pc = "getquote" -> {"sgx_get_quote"}
    [] OTHER -> {}

\* The stub exits, or recurses without end, with everything as it stands.
StubEnds ==
  \E f \in NextCalls :
    /\ \/ NotFound(f) /\ pc' = "exited"
       \/ FoundItself(f) /\ pc' = "crashed"
    /\ UNCHANGED <<host, lib, session, logs, history>>

-----------------------------------------------------------------------------
Init ==
  /\ host \in Hosts
  /\ pc = IF host = "library" THEN "host" ELSE "main"
  /\ eid = 0 /\ enclaves = {}
  /\ ctx = "none" /\ ctxIn = 0 /\ sock = FALSE /\ heap = {} /\ line = "none" /\ trust = "none"
  /\ logs = 0 /\ entered = 0 /\ aborted = 0
  /\ StubsInit

Attestation ==
  \/ Connect \/ RaInit \/ SendMsg1 \/ ReadMsg2 \/ ProcMsg2 \/ SendMsg3 \/ ReadMsg4
  \/ UseStatus \/ KeyHashes \/ EndAttestation

\* The steps of the client's own program, from the entry of a call to its end.
Client ==
  \/ AddDestroy \/ OpenLog \/ Configure \/ InitializeEnclave \/ CloseLog
  \/ Options \/ SearchEnclave \/ Quote \/ GetQuote
  \/ pc = "main" /\ AddCreate
  \/ Nonce \/ \E ok \in BOOLEAN : Rdrand(ok)
  \/ Attestation
  \/ pc # "host" /\ StubEnds

Next == AddCreate \/ Attest \/ Client \/ Reply \/ StubEnds

Spec == Init /\ [][Next]_vars

\* A service provider that answers, or closes.
FairSpec == Spec /\ WF_vars(Client) /\ WF_vars(Reply)

\* And an RDRAND that does not fail for ever, and a host that goes on attesting.
BusySpec == FairSpec /\ SF_vars(Rdrand(TRUE)) /\ SF_vars(Attest)

-----------------------------------------------------------------------------
(* Properties *)

\* A context, a connection, a message is there or not; no enclave is destroyed
\* twice, no log file closed twice: the counts of both stay within their limits.
TypeOK ==
  /\ host \in Hosts
  /\ pc \in Dead \union
       {"host", "main", "add", "log", "config", "nonce", "rdrand", "options", "search", "create",
        "connect", "init", "msg1", "read2", "proc", "msg3", "read4", "status", "keys",
        "end", "closelog", "quote", "getquote"}
  /\ eid \in 0 .. EpcLimit + 1 /\ enclaves \subseteq 1 .. EpcLimit + 1
  /\ ctx \in {"none", "open", "g_a", "keys"} /\ ctxIn \in 0 .. EpcLimit + 1
  /\ sock \in BOOLEAN /\ heap \subseteq {"msg2", "msg3", "msg4", "quote"}
  /\ line \in Lines \union {"none"} /\ trust \in Statuses \union {"none"}
  /\ logs \in 0 .. FileLimit /\ entered \in 0 .. EpcLimit /\ aborted \in 0 .. FileLimit

\* Whichever of its dozen ways out do_attestation takes, an exit from the middle
\* of a host's process among them, it has closed the RA context, deleted the
\* connection and freed the messages: unless a stub has found its function lacking.
\* That it does before the process has got its first quote, if at all, or else for
\* one of the two functions that not every call needs; and an application that has
\* asked get_sgx_support never finds a library lacking.
AttestationLeavesNothing ==
  /\ pc \in {"host", "closelog", "exited"} =>
       \/ ctx = "none" /\ ~sock /\ heap \subseteq {"quote"}
       \/ \E f \in Symbols : known[f] = "failed"
  /\ \A f \in Symbols :
       known[f] = "failed" =>
         /\ pc = "exited"
         /\ known["sgx_get_quote"] = "found" =>
              f \in {"sgx_report_attestation_status", "sgx_destroy_enclave"}
         /\ host = "options" => LibraryOf(f) \notin lacking

\* What does stay, exactly: the enclave of each attestation, and the log file of
\* each call that ended before it had an enclave.
LeaksAreExact ==
  pc = "host" => Cardinality(enclaves) = entered /\ logs = aborted

\* eid is global, and stays when its enclave is destroyed or the next one is not
\* created; but no ECALL of an attestation or a quote goes to a dead enclave, and
\* the context is in the enclave that is called.
EcallsReachTheEnclave ==
  /\ pc \in {"connect", "init", "msg1", "read2", "proc", "msg3", "read4", "status",
             "keys", "end", "quote"} => eid \in enclaves
  /\ ctx # "none" => ctxIn = eid

\* The service provider's ciphertext is decrypted only under keys agreed on in
\* this session, and only if its msg4 says that the enclave is trusted.
KeysAreForTheTrusted == pc = "keys" => ctx = "keys" /\ trust \in Trusting

\* Every call returns or ends its process, and a host that keeps attesting does not
\* live: enclaves are left until no more can be created, then log files until no
\* more can be opened, and create_logfile exits.
HostEnds == <>(pc \in Dead)

\* The source's way out of a failing RDRAND: retry is 10, and a nonce that is not
\* ok after the loop is an underflow, and exit(1).
UnderflowEnds == pc = "nonce" ~> pc \notin {"nonce", "rdrand"}
==============================================================================
