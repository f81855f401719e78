# A formal model of the remote attestation sample

This directory holds TLA+ modules that model the remote attestation sample: the
service provider's server from its operator's files to its end, the client program and
library, their protocol, and the server's conversation with the Intel Attestation
Service (IAS). TLC checks the models on small instances, and TLAPS checks proofs of the
theorems about most of them. Line references are to the repository's files.

## 1. The system

A **client** (`src/App/App.cpp`, with its enclave `src/Enclave/Enclave.c`) attests its
enclave to a **service provider** (`src/service-provider/sp.cpp`) over one TCP
connection, in four messages, each a line of hexadecimal digits:

    client                      service provider                    IAS
      |--- msg0 || msg1 ------------->|                               |
      |                               |--- revocation list? --------->|  (wget)
      |<-- msg2 || SigRL -------------|<------------------------------|
      |--- msg3 (with the quote) ---->|                               |
      |                               |--- report on the quote? ----->|  (wget)
      |<-- msg4: status, blob --------|<------------------------------|
      |<-- || ciphertext, if trusted -|

| Component | State it keeps | Operations | What makes it correct |
|---|---|---|---|
| Session loop and handlers, `sp.cpp:675-1366` | the session (`msg1`, `msg4`, keys), its place in the protocol | `process_msg01`, `process_msg3` | a client is trusted only for its own quote; secrets only for accepted clients; every session ends |
| MsgIO, `msgio.cpp` | two sockets, `rbuffer`, `wbuffer` (both outlive sessions); or stdin and stdout | `server_loop`, `read`, `send_partial`, `send`, `disconnect`, the destructor | lines are framed as they were sent; nothing of a session is left for the next |
| Configuration, `run-server`, `settings`, `policy.in`, `sp.cpp:149-690, 1783-1923` | the variables of two files, the words of a command line, `config_t`, flags | edit, start, parse, check, `get_proxy`, listen | what the files say reaches the server, but for what `-X` takes and what nobody reads; what is complete is served |
| Signals, `sp.cpp:692-710, 1857-1871` | what main was doing, handlers on top of each other | `cleanup_and_exit`, which deletes `msgio` | the sockets are shut down before the exit; a signal ends the process |
| Trust policy, `sp.cpp:1000-1060, 1616-1708`, `enclave_verify.c` | the configured requirements | the verdict on a report | stricter policies give no better verdicts, newer enclaves no worse |
| IAS connection, `iasrequest.cpp`, `sp.cpp:1420-1779` | the current subscription key, the agent, certificates in memory | `sigrl`, `report`, `get_sigrl` with its failover, `get_attestation_report` | only signed and verified reports are used; a revoked key is replaced; all returns free what was allocated |
| Cryptography, `crypto.c`, `base64.c` | `error_type`, the objects of each routine | its routines, and the handlers made of them | what is made is freed once; answers and `error_type` are what has happened; a message hides known failures only |
| wget agent, `agent_wget.cpp` | a pipe, a child, a temporary file | `request` | the whole answer or a failure; nothing is left behind; it ends |
| HTTP parser, `httpparser/httpresponseparser.h` | its state, `contentSize`, `chunkSize`, `chunked` | `parse` | a completed response has the whole body or, where its framing is missed, none of it |
| Client, `App.cpp` | the global `eid`, RA context, connection, messages, log file | `main`, `add_nums`, `attestation_with_custom_config`, `do_attestation`, `do_quote` | keys only for a trusted status; every way out cleans up; calls go to a live enclave |
| SGX stubs, `sgx_stub.c`, `sgx_detect_linux.c`, `quote_size.c` | which libraries are loaded, which names have been looked up | a stub for each function of the SDK, `get_sgx_support`, `get_quote_size` | a lacking function is met before there is something to lose |
| JSON parser, build tools, samples | - | - | not modelled, see section 7 |

How they interact. The server is one process and one thread: one session at a time,
further clients in the backlog. Its session loop calls MsgIO for lines and the IAS
connection for the two queries; these fork a `wget` each and read its output from a
pipe. The client is another process; both sides read in turn. What is hard here: the
interleavings of server, clients and `wget` over sockets and pipes; clients that die in
the middle of a line; the state that the server keeps *between* sessions (buffers, the
key, descriptors, certificates); many returns with hand-written clean-up; retry loops;
signals at any point, also on top of each other; a command line made of unquoted words;
libraries that are looked for when they are first needed.
`PROJECT.json` lists each hazard at its line with the properties that cover it.

## 2. The modules

| Module | Models | Its actions are |
|---|---|---|
| `TrustPolicy` | the verdict as a pure operator: `ReportStatus` (IAS's status and strict mode), `IdentityAccepted` (`verify_enclave_identity`), `Verdict` | - |
| `PolicyEvolution` | policy, enclave and platform changing over time | an operator's edit of the options, another enclave, another IAS opinion |
| `AttestationServer` | server and clients at the level of messages | each blocking or failing step of the loop, of `process_msg01` and `process_msg3`, and of the client's `do_attestation` |
| `AttestationContract` | what remote attestation promises, with no messages | challenge, grant, learn, lose |
| `AgentWget` | `AgentWget::request`, its child, the descriptor table | each system call with its failures |
| `IasConnection` | sessions on one `IAS_Connection` | each return and check of the two requests; IAS answers, revokes and renews keys |
| `EnclaveClient` | the client's program or library over many calls | each stage of a call with all its ways out |
| `HttpResponseParser` | the parser, against an external sender of HTTP | one token sent and consumed |
| `ServerStart` | `run-server`, and `main` up to the listening socket | an edit, the script, each option and check, the connection to IAS |
| `SignalShutdown` | main's sockets, its handlers and `cleanup_and_exit` | each step of main and of a handler that the other can tell apart |
| `StdioSession` | server and client with `-z`, and what is between them | the two handlers, the client's two reads, an operator's paste |
| `ServerProcess` | the three of them as one process | theirs, joined in the constructors of MsgIO |
| `CryptoRoutines` | every routine of `crypto.c` and `base64.c`, and the handlers' use of them | the next call of the routine on top of the stack: success, failure, negative result; entry, return |
| `SgxStubs` | the stubs, lazy loading, detection | used by `EnclaveClient`: each of its steps calls the stubs it needs |
| `MC*` | instances for TLC | |
| `*Proofs` | theorems of `AttestationServer`, `PolicyEvolution`, `IasConnection`, `AgentWget`, `EnclaveClient`, `HttpResponseParser`, `ServerProcess`, `CryptoRoutines` | |

`AttestationServer` extends `TrustPolicy` and contains `AttestationContract` as an
instance, with the refinement mapping in its last section. `AgentWget` and
`IasConnection` are the two halves of what `GetSigrl` and `GetReport` of
`AttestationServer` take as one step that succeeds or fails. `ServerProcess` extends
`ServerStart` and instantiates `SignalShutdown` and `StdioSession`: the last step of the
start-up is the first of the server's life, over a socket or over stdin and stdout.
`EnclaveClient` extends `SgxStubs`.

Abstractions worth knowing:

* *Bytes.* A buffer or a stream is a sequence of tokens `[of, is]`: whose field it is
  and which. When a connection breaks inside a field there remains a part of an odd or
  an even number of characters, which is all that `MsgIO::read` tells apart (`idx % 2`),
  since the handlers refuse every part. `recv` returns any number of whole tokens.
  A `"\r\n"`, which no client of this repository sends, is not modelled.
* *Cryptography.* `GenuineMsg3` says what the comparison of `g_a` and of the MAC lets
  through: the msg3 made for this very session. The quote of a client is a record with
  IAS's status, the body, and whether group id and report data match; it is chosen
  once per client.
* *`Msg01Owner`.* `process_msg01` takes the first bytes of its line whatever its
  length; anything that does not begin with a client's msg0||msg1 is refused.
* *Certificates.* `issued` (the store verifies it), `stranger`, `junk` (`cert_load`
  fails). A signature says who made it and over what.
* *Processes.* Programs die at any step; the kernel then closes their sockets and
  pipes. A write to a reset connection kills the server and the client program by
  SIGPIPE, which neither handles (the library's host, Python, ignores it).

* *Words.* A command line is a sequence of words, each of which stands for its kind
  (`SPID` for 32 hex digits); what is an option and what is an option's argument is
  decided the way `getopt_long` does, by the words alone.
* *Routines.* In `CryptoRoutines` a routine is a sequence of steps, each with what it
  makes, frees, or calls and where its failure leads, and a cleanup label; one set of
  actions runs them all on a stack. A routine's frame says what it owns and what it has
  freed since it made it, so that an object freed again, on the way or at the label, is
  seen wherever the first time was. `key_load` is two sequences, with and without a
  private key.
* *Stdio.* Between server and client there are pipes, or an operator with two
  terminals, who pastes what he is shown, may paste something else, and may give up.

## 3. The runs

| Run | Bounds | Shows |
|---|---|---|
| `server_safety` | 3 clients, 3 kinds of quote, failing mallocs; 3.4 million states | `AttestedIsAcceptable`, `SecretsOnlyForAcceptable`: dirty buffers deny service but never buy trust. `ResidueHasACulprit`, `ForeignBytesHaveACulprit`: what can leave something in the buffers is a client that broke off, a failed malloc, or an unfavourable status, and nothing else. `CleanSessionsFrameRight`: without these no session is refused for its framing. `WedgedServesNobody`: an odd line at the head of `rbuffer` ends the service for good. `KeepsContract`: the refinement of `AttestationContract` |
| `server_liveness` | 3 clients, one of which may fall silent; 1 quote, which is refused | every session ends, every client finishes, unless a silent client holds the server for ever, as there is no timeout |
| `server_status_lost` | 1 client | *violated*: finding 1 |
| `policy_monotone` | 2 products, 3 SVNs, 2 signers | tightening never upgrades, updating never downgrades, `ItsComplicated` is about platforms only |
| `policy_configuration_needed` | the same | *violated*: finding 2 |
| `agent` | 7 descriptors, a pipe of 2 chunks, answers of up to 3 | `RequestsLeaveExactly`: one descriptor, or two after a failed fork, never a child, a temporary file only after failures. Nothing is cut off; a request ends, unless a read failed; a busy server runs out of pipes (`AtLastNoRequestRuns`) but never of descriptors for `accept` |
| `connection` | API version 3, chains of 2, 3 key changes | used reports are signed; refused sessions are paid for by revocations; agents and certificates are freed, once (`RequestsFreeWhatTheyMake`); sessions end |
| `process` | 2 edited variables, 14 kinds of arguments; signals for the unedited files; 350,000 states | `FilesReachTheServer`: a server that run-server started has the SPID, the numbers and the keys of the files, whatever is empty, too large or too short (an empty PRODID takes the first of `$@`, a bad MRSIGNER is garbage); their flags, but for exactly the one that `-X` takes, and with no part in it for the policy's `ALLOW_DEBUG`; their proxy, at 16 bits of its port. `WellFormedIsServed`: complete files are refused only if `-X` is the last word. `GracefulShutdown`, `OnlyTwoWindows`, `SignalEnds`: what four stacked handlers can do. `StdioOnlyTheStatus`, `StdioClientsFinish`: with `-z`, what a client learns and when it waits for ever |
| `crypto` | none: each call fails or not; one session's calls after the other's | `LossesAreKnown`, `FreedOnce`: the exact leaks, and the one double free. `FailureIsExplained`: at each return of `crypto.c`, `error_type` is set exactly if the routine has noticed a failure, and the answer says so too; each branch's own assignment is a field of its step. `HiddenFailuresAreKnown`: behind a message processed with success, exactly which failures can lie hidden |
| `client` | 3 enclaves and 3 log files at most; at most 2 libraries and functions lacking; 150,000 states | every way out leaves nothing but the enclave and, before there is one, the log file, unless a stub ends the process, which it only does before the first quote or for two functions; calls go to live enclaves; keys for the trusted; a host that keeps calling is ended by its leaks |
| `client_underflow` | the same, nothing lacking | *violated*: finding 3 |
| `http` | 4 header lines, 4 bytes, 3 chunks | `CompletedIsWholeOrEmpty`: a completed response has the whole body, or, where its framing was missed, no byte of it; never a part, wherever the output was cut off. `WholeIsCompleted`: a message is completed at its last byte; what is refused has an odd line or a bare status line, and only one with a bare status line and no header is waited after |

Why these bounds are enough to mean something. Three clients are what it takes for one
session to leave something, a second to meet and move it, and a third to be served from
it. A pipe smaller than an answer lets the child block; 7 descriptors give room for two
sessions' leaks before the table is full. Three key changes are the fewest that can
revoke the primary key twice, with a renewal between: with two, the stronger and false
claim that a revocation costs at most one session for all time would hold. Two
certificates make a difference between the first, which is verified, and the last.
`LeakBound` stops new sessions once more than one certificate has leaked, which keeps
the model finite; by then each leaking return has been taken. The counters `forked`,
`unforked`, `entered`, `aborted` and `refused` saturate one past what can matter.
Three enclaves let `main`, an attestation and one call after it differ, and the fourth fail.
Two edited variables let one be empty and take the next one's word; two lacking names
let both libraries, or both functions for the size of a quote, be away. The life of a
server is followed for the unedited files, as main does not look at them any more, and
a server over stdin is not signalled.

The definitions `TypeOK` of `AgentWget`, `EnclaveClient`, `PolicyEvolution`,
`IasConnection`, `ServerStart` and `SignalShutdown` document the types and are where an
inductive invariant begins; the runs spend their properties on what could go wrong.

Symmetry is used in `server_safety` only, which checks no liveness; the quotes do not
name clients, so all clients are alike.

`CHECK_DEADLOCK FALSE` is set where the system may really stop: a server that was
signalled or killed, clients that have all finished, a parser that has returned, a
client program that has exited.

## 4. Fairness

* `AttestationServer`: weak fairness of the server's steps, of accepting each client in
  the backlog, and of the steps of each client that is not in `Silent`. A silent client
  may stop for ever with its connection open, as the code has no timeout: both liveness
  properties say that this is what they except. A signal, a failing accept, and giving
  up are never forced.
* `AgentWget`: weak fairness of the server and of the child (`wget` has its own
  timeouts, so its answer or its exit comes).
* `IasConnection`: weak fairness of the server's steps and of an answer, a failed query
  being one. New sessions and key changes are never forced.
* `EnclaveClient`: weak fairness of the program's steps and of the provider's reply (a
  line or the end of the connection). `BusySpec` adds strong fairness of a successful
  RDRAND and of the host's next call; without the first, finding 3 is the
  counterexample to `HostEnds`, and `UnderflowEnds` is checked without it.
* `ServerProcess`: weak fairness of the steps of a signal handler, which nothing but
  another handler preempts; with `-z`, of the server's and the client's steps on a line
  that is there, and of the operator's paste. No signal, start, slip or giving up is
  forced, nor is it assumed that main gets on.

## 5. Disagreements found while modelling

1. *The status of an untrusted client is never sent* (`sp.cpp:1058`). It is put in
   `wbuffer`, and only the trusted branch flushes. The client exits with a protocol
   error; the bytes go out before the next client's msg2, which then fails too.
2. *CONFIGURATION_NEEDED is not trusted by default* (`sp.cpp:1674`), against
   `README-old.md:435`, the usage text and the comment above the code.
3. *The RDRAND underflow cannot be reached* (`App.cpp:270`): `retry` never changes.

Other things the models state as the code has them, without a run of their own:

* the leaked descriptor per IAS request, the odd line that wedges the server, the
  certificates leaked by two returns, the report query without failover, the enclave
  leaked per library call, the crash on an empty line;
* the API keys are not among the options that main requires (`sp.cpp:587`); a short
  MRSIGNER is accepted and completed by bytes nobody wrote (`hexutil.c:36`); an empty
  PRODID takes the next word; a proxy's port beyond 16 bits is wrapped;
* the policy file does not decide on debug enclaves: it has `ALLOW_DEBUG`, with 0
  "to force only production (non-debuggable) enclaves" (`policy.in:24-27`,
  `README-old.md:187-194`), and `run-server:91` reads `ALLOW_DEBUG_ENCLAVE`, which no file
  of the repository sets. With `ALLOW_DEBUG=0` a server accepts debug enclaves: the run
  edits both variables, and `FlagsAreTheOperators` says that only the latter counts;
* strict mode takes the production IAS away: `-X` has an argument in getopt's string
  (`sp.cpp:232`), and none in the table (`sp.cpp:187`) nor in the usage text, and so
  takes the next word. Behind it run-server writes `-d`, `-v`, `-P` and `-D`, as far as
  they are asked for. If the first of them is `-P`, the server asks the development IAS
  although `QUERY_IAS_PRODUCTION` is set (`ProductionTaken`); if it is `-D`, debug enclaves
  are accepted although `ALLOW_DEBUG_ENCLAVE` is 0 (`NoDebugTaken`). As the last word
  `-X` ends main with the usage text;
* the HTTP parser takes a status line with an empty reason phrase for one that goes on:
  the next line becomes a part of the status (`httpresponseparser.h:196-220`), and a
  `Content-Length` there is lost. `Transfer-Encoding` is known by the exact word
  `chunked`: with a second blank before it, one after it, or another coding beside it,
  the body is taken for none (`:285-318`). A body that ends with the connection is taken
  for none, too. All of these are completed at the empty line, with an empty content
  (`:357-360`), which for a 200 is a report or a list without a character
  (`CompletedIsWholeOrEmpty` says exactly when);
* nobody looks at what `cmac128` returns: not for KDK, where `derive_kdk` returns 1
  whatever it gives (`sp.cpp:1415`), so that "Could not derive the KDK"
  (`sp.cpp:1236-1241`) is not said; not for SMK (`sp.cpp:1254`) and the MAC of msg2, nor
  for VK (`sp.cpp:963`), MK and SK (`sp.cpp:1081-1083`) and the MAC of msg3. The same
  goes for the signature of msg2 and for the digests. `HiddenInMsg01`
  and `HiddenInMsg3` are the complete lists;
* the EVP functions' negative results pass the tests for 0 (`crypto.c:420`): a session's
  key or its shared secret can be missing although `key_generate` or `key_shared_secret`
  has noticed nothing, and `key_to_sgx_ec256` and `ecdsa_sign` can so overlook
  a `BN_bn2lebinpad` or `BN_bn2binpad`;
* `key_load_file` looks neither at what `EVP_PKEY_new` gives (`crypto.c:221`) nor at what
  `PEM_read` does: it may return an empty key, or none, as a success;
* `cleanup_and_exit` frees in a signal handler (`sp.cpp:1863-1868`): the two windows;
* `sha256_verify` never writes the result it is handed (`iasrequest.cpp:632`), so that
  only `error_type` tells a bad signature;
* with `-z`: a server at the end of its input goes round its loop for ever
  (`msgio.cpp:214`, `EndOfInput`); the ciphertext is cut off msg4 by a `printf`
  (`sp.cpp:1109`); a refused client that is piped to the server waits for ever.

## 6. What is proved

The theorems hold for every value of the constants, under the assumptions stated next
to the constants in the modules (`ServerAssumption`, `AgentAssumption`,
`WordsAssumption`, ...), which TLC evaluates in every run, and under two hypotheses
that are named where they are used. Of each module every safety property that a run
checks is a theorem. None of the properties is inductive by itself; what each needs
around it is below.

**`AttestationServerProofs`** (any set of clients, any quotes, any policy).
`AttestedIsAcceptable` depends on what is in the client's stream, that on what the
server had in `wbuffer`, that on what other sessions left there. The inductive
invariant `IInv` is the conjunction of

* `TypeOK`;
* `StreamsInv`: each of the four kinds of buffer holds only tokens of the kinds that
  can get there, from clients that have got so far (`InToken`, `RToken`, `OutToken`,
  `WToken`): this is where a ciphertext is tied to an acceptable client;
* `ConnInv`: which states of connection, server and client go together;
* `Msg2Inv`, `Msg4Inv`: what a client that waits for msg2 or msg4 may find in front of
  its stream. A msg4 that a client takes for its own is preceded by nothing foreign,
  because foreign bytes would have broken its msg2 before;
* `VerdictInv`: a decision is the verdict on the client that it is made for.

One lemma per action shows that it is kept (`NextStep` puts them together); lemmas
about lines (`EndOfLineProperties`, `AfterLineProperties`, `HeadOfLine`, `TornTokens`,
`AfterMsg2`, ...) carry the sequences. From `Invariance` follow `TypeCorrect`,
`AttestedOnlyIfAcceptable`, `SecretsAreForAcceptable`, and, with one lemma that maps
each step to a step or a stutter of the contract, `Refinement`.

*Residue* (the last part of the module). `IInv` says what can be in the buffers,
`RInv` where it is: `FrameInv` follows the one line that is on its way between a client
and a server that began the session clean, through stream and `rbuffer`, so that it
arrives whole; `WriteInv` does it for what is sent; `BacklogInv` says what a client has
sent before it is met; `CauseInv` that a session has one reason to end. The culprits
are counted, not remembered, so each conjunct holds *unless* one of the counters has
moved. From `ResidueInvariance` (`IInv` and `RInv` together) follow
`BuffersAreCleanWithoutCulprit`, `StreamsAreOwnWithoutCulprit` and
`CleanSessionsAreFramedRight`. `WedgedIsForGood` is an action property: with an odd
part at the head of `rbuffer`, `EndOfLine` finds the part in every line to come, and no
step takes it away.

**`PolicyEvolutionProofs`**: `StricterIsNeverBetter` and `UpdatesAreSafe`, action
properties, and `ComplicatedIsThePlatform`, from three lemmas on the operators of
`TrustPolicy` and, for the last one, what the state has of the last report.

**`IasConnectionProofs`** (any number of key changes, chains of any length):
`RefusalsArePaidFor` by an accounting invariant (`Owed`: a session that has been given
the primary key and will be refused has seen, since its first query, a revocation that
no earlier refusal was counted against); `ReportsAreSigned` by `CheckedInv`, which says
at each point of the two functions what the reply has passed; `RequestsAreFreed` by
`MemoryInv`, which says at each point how many certificates of the chain are loaded,
freed and left behind.

**`AgentWgetProofs`** (any table, any pipe, answers of any length): who holds which end
of the pipe at each point of `request` and of the child (`EndsInv`, `ChildInv`), how many
entries of the table are used, by what earlier requests have left plus what this one
has open (`TableInv`), and that written, read and lying in the pipe add up
(`AnswerInv`). `AcceptNeverLacks` assumes `FdLimit > 0`: the first connection has its
descriptor, since nothing has been leaked by then; the theorem is that every later one
has. Without it a server could never accept at all.

**`EnclaveClientProofs`** (any limits, any libraries and functions lacking): which host
can be where (`HostInv`); the state of context, connection and message at each point of
`do_attestation` (`SessionInv`); the numbers of enclaves and log files as functions of
the calls made (`CountInv`, where the theorems of finite sets count the set of live
enclaves); and which functions have been looked up by then (`KnownInv`), without which it
could not be said that a stub only ends the process where `AttestationLeavesNothing`
lets it: the conjunct `known["sgx_get_quote"]` carries a first attestation's knowledge
over to all later ones.

**`HttpResponseParserProofs`** (any numbers of headers, bytes and chunks): the sender is
a state machine too, so no induction over a message is needed. `InStep` says where the
parser is at each phase of the sender: before the first token (`AtStart`), after a bare
status line with nothing behind it (`AtStatusText`), or with it (`InMessage`), when the
headers are those sent but for the one that a bare status line has taken (`Kept`), the
content is the body sent so far, and `contentSize` and `chunked` frame the body, or,
where the framing is lost (`Lost`), say that there is none. It is kept token by token.
From it `CompletedWholeOrEmpty` and `WholeAlwaysCompleted`.

**`ServerProcessProofs`** (any files, any `$@`, any command line by hand).

* *Signals*: `ShutdownTypes`, `MainInv` (main has what its place says), `HandlerInv`
  (a handler anywhere on the stack has done what lies before its place, however many
  came on top of it) and `EndInv` give `ExitsAreGraceful` and `OnlyTwoWaysToCrash`.
* *Stdio*: `UpInv`, `DownInv`, `UnusedInv` say what lies in the two pipes or terminals
  for each pair of places of server and client: `StdioClientsGetTheirStatus`.
* *Start-up*: the invariant `StartInv` says what is left of the command line. As long as
  main is at the options that speak for the files, `words` is exactly the rest of
  run-server's line from one of them on (`FromSpid`, `FromPrimary`, ...: `Demanding`, then
  `Flagging`), and the configuration has what the options before it say; then only words
  of `$@` are left, which cannot speak for the files (`LateWords`: `Ending`). Behind -X
  `Flagging` goes on flag by flag with what -X has not taken: it takes the next
  word, whatever that is (`StrictTakes`): the first of the flags behind it
  (`StrictTakesFlag`), or, if there is none, of `$@` (`StrictTakesArgument`). Each lemma
  takes one option: an empty variable lets it take the next option for its argument,
  which none of them accepts (`AcceptedWords`); an empty PRODID takes the next word,
  which is a number only if it is the first of `$@` (`NumbersAreArguments`). `TheWholeLine` regroups the
  script's concatenation; `ProxyInv` ties `given` to the flags of the proxy, which is
  why --proxy and --no-proxy cannot both be given. From `StartInvariance` follow
  `FilesReachServers` and `CompleteFilesAreServed`. The first is exact: the flags are as
  the files have them but for `ProductionTaken` and `NoDebugTaken`, in which cases they are
  not. It assumes `NoOverrides`: no word of `$@` is an option that run-server itself uses
  for a demand or a flag, as the later one would win, and is meant to; all `$@`s of the run are of this kind. The
  second needs no such hypothesis, as it is about an empty `$@`. `WordsAssumption` says
  that the two files have the variables that run-server names, that `$@` is a sequence,
  and that the proxy's URL is one of the URLs the model knows, or empty.

**`CryptoRoutinesProofs`** (`CryptoRoutines` has no constants; what the proof adds to
the run is the reason). It is an outline of each of the 27 routines, as Floyd annotates
a flow chart:

* `Owned`: what the routine owns before each of its steps if nothing has failed. The
  table is claimed, and the text of each routine bears it out: `Facts_<routine>` has one
  step for each call, which shows that the call takes one entry of the table to the
  next (`Objective`), that what it leaves behind if it fails is a known loss (`Lossy`),
  and that what it calls, and what becomes of a failure there, is as its kind allows
  (`Answered`). These lemmas are long and alike: a new call in a routine needs a new
  entry and a new step, and a leak shows as a step without a proof.
* `IInv`: the invariant of the stack, which needs only those facts. `StackInv`: each
  frame is on its way and owns what the table says, or has stopped and owns what may be
  lost; each but the top waits for the one above it. Four routines, which can go on
  without an object they wanted, own what the table says or less (`Loose`). `ErrorInv`:
  of a routine on top that answers by `error_type`, or sets it beside its answer, it is
  set exactly if that routine has noticed a failure. All of `crypto.c` share the
  variable, so the invariant rests on three things that are shown call by call: each
  routine resets it first, each branch that leads out sets it (`sets`, a field of every
  call), and only `ecdsa_sign` calls another of them, whose failure ends it. `ReportInv`:
  while a message is processed, a failure that has been noticed is on its way up
  (`Rising`), has arrived, or is one that the callers tolerate; and what has been
  overlooked is on the list of the message (`HiddenInMsg01`, `HiddenInMsg3`).
  `LossInv`: a message 1 has lost at least what the calls behind it cost (`Due`) and at
  most what every session loses, until it fails.

One lemma for each action, the return split into three (to the program, of a success, of
a failure), gives `Invariance`; from it `LossesKnown`, `NothingFreedTwice`,
`FailuresExplained` and `HiddenFailuresKnown`.

Only model-checked: all liveness (`SessionsEnd`, `ClientsFinish`, `RequestsEnd`, `SignalEnds` and
the others under section 4), as fairness and ENABLED are out of the prover's reach.

## 7. What is not modelled

* The JSON parser (`json.hpp`, vendored); reports arrive parsed.
* What `wget` makes of an answer before it prints it: the parser is handed the message as
  the server has sent it. A body's bytes are letters and the special characters of the
  parser's own list, which is what base64 and JSON are made of.
* The Windows branches, help texts, wording and the log copies of messages; `run-client`,
  which is `run-server` under another name with the client's three flags.
* Byte orders, hexdumps, the growing buffer of `hexstring` and the reading of files are
  pure functions on bytes; of hex and base64 the models have what the callers depend on
  (even and odd lengths, the end of a short string, the buffers that are lost).
* Lengths from outside that are not compared with a structure (`sp.cpp:825`, `1722`):
  the models have no sizes; this hazard is listed without a property.
* Lines longer than `read_msg`'s buffer, signals of a server over stdin, broken pipes of
  the stdio mode.
* Inside the enclave, what the SDK's key exchange computes: its ECALLs have an effect on
  the context and no more.
* The curl agent and `src/client.cpp`, which are not built; `ser.c`, `cli.c`,
  `mrsigner.c`, `evp-key-to-file-struct.c`, which run outside the system.
* OpenSSL, the SDK and IAS, external throughout.

## 8. Plan

Done, in this order: `TrustPolicy` and `AttestationServer` with its contract and
proofs; `PolicyEvolution`; `AgentWget`; `IasConnection` with proofs; `EnclaveClient`;
`HttpResponseParser`; `SignalShutdown`, `ServerStart` and `ServerProcess`;
`CryptoRoutines`; `SgxStubs`; `StdioSession`; silent clients.

Proved since: every safety property of every run that should pass (section 6).

Next, to extend the model: compose `AgentWget`'s results with `IasConnection`'s answers
(an exit code of 6 becomes a 401, a cut-off output a failed query), and have the
composition implement the one-step requests of `AttestationServer`.

## 9. Running it

    tlc -workers 2 -config ServerSafety.cfg MCAttestationServer
    tlapm AttestationServerProofs.tla

`PROJECT.json` names the configuration and module of each run, and with each property a
mutant: an operator marked `MUTANT` in its module that, put in the place of the one it
follows, makes the run find the property violated.
