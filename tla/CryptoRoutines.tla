--------------------------- MODULE CryptoRoutines ---------------------------
(***************************************************************************)
(* The routines of service-provider/crypto.c and base64.c, and those of    *)
(* sp.cpp and iasrequest.cpp that are made of them: which objects each one *)
(* makes, frees and hands to its caller, what it does where a call fails,  *)
(* and how error_type, the static that crypto_perror prints, gets from a   *)
(* failure to whoever reports it.                                          *)
(*                                                                         *)
(* A routine is a sequence of steps and a cleanup label.  OpenSSL is       *)
(* external: any of its calls may fail, and some (the EVP_PKEY family) may *)
(* return a negative number, which the code's test for 0 takes for a       *)
(* success.  What the bytes are is not part of it.                         *)
(***************************************************************************)
EXTENDS Naturals, Sequences, SequencesExt

-----------------------------------------------------------------------------
(* Steps.  A step may go wrong: then a branch sets error_type and goes to    *)
(* the cleanup label, unless one of the following says otherwise.            *)

Call == [obj |-> "", frees |-> FALSE, of |-> "", fail |-> "cleanup", free |-> <<>>,
         blind |-> FALSE, drop |-> "", sets |-> TRUE]

Make(o)      == [Call EXCEPT !.obj = o]                  \* a call that makes o
Free(o)      == [Call EXCEPT !.obj = o, !.frees = TRUE]
Run(r, o)    == [Call EXCEPT !.of = r, !.obj = o]        \* a call of routine r, which gives o
Else(st, os) == [st EXCEPT !.free = os]                  \* if it fails, os are freed
Drop(st, o)  == [st EXCEPT !.drop = o]                   \* if it fails, o is set to NULL
Return(st)   == [st EXCEPT !.fail = "return"]            \* if it fails, return at once
Noted(st)    == [st EXCEPT !.fail = "noted"]             \* if it fails, go on, and return 0
Unchecked(st) == [st EXCEPT !.fail = "unchecked"]
Sure(st)     == [st EXCEPT !.fail = "never"]             \* NULL would be used, and crash
Spare(st)    == [st EXCEPT !.fail = "spare"]             \* NULL does as well
Negative(st) == [st EXCEPT !.blind = TRUE]               \* it may return less than 0
Only(st)     == [st EXCEPT !.blind = TRUE, !.fail = "blind"]  \* it never returns 0

\* What a routine returns says whether error_type is e_none ("error"), whether the
\* object that it gives is there ("pointer", or "plain" if it knows no error_type),
\* or which path it took.
Routine(steps, cleanup, gives, by) ==
  [steps |-> steps, cleanup |-> cleanup, gives |-> gives, by |-> by]

-----------------------------------------------------------------------------
(* crypto.c: keys *)

key_load_private == Routine(
  << Return(Call), Make("eckey"), Spare(Make("ctx")), Make("gx"), Call, Else(Make("pubpt"), <<"ctx">>),
     Else(Call, <<"ctx", "pubpt">>), Free("ctx"), Else(Call, <<"pubpt", "pubpt">>), Free("pubpt"),
     Make("pkey"), Drop(Call, "pkey") >>,
  {"gy", "gx"}, {"pkey"}, "error")

key_load_public == Routine(
  << Return(Call), Make("eckey"), Make("gx"), Make("gy"), Call, Make("pkey"), Drop(Call, "pkey") >>,
  {"gy", "gx"}, {"pkey"}, "error")

\* PEM_read puts a new key in the place of the empty one, or of none.  Its result is
\* not looked at: key may still be empty, or NULL, in what is returned as a success.
key_load_file == Routine(
  << Spare(Make("key")), Return(Make("fp")), Unchecked(Make("key")), Free("fp") >>,
  {}, {"key"}, "error")

key_to_sgx_ec256 == Routine(
  << Make("eckey"), Make("ecgroup"), Make("gx"), Make("gy"), Call, Only(Call), Only(Call) >>,
  {"gy", "gx", "ecgroup"}, {}, "error")

key_private_from_bytes == Routine(
  << Make("key"), Make("prv"), Call, Make("pkey"), Else(Call, <<"pkey">>) >>,
  {"prv", "key"}, {"pkey"}, "pointer")

key_from_sgx_ec256 == Routine(
  << Make("gx"), Make("gy"), Make("key"), Else(Call, <<"key">>), Make("pkey"), Else(Call, <<"pkey">>) >>,
  {"gy", "gx"}, {"pkey"}, "pointer")

\* MUTANT of key_generate: the parameters are not freed.
key_generateKeepsParams == Routine(
  << Make("pctx"), Negative(Call), Negative(Call), Negative(Make("params")), Make("kctx"),
     Negative(Call), Negative(Make("key")) >>,
  {"kctx", "pctx"}, {"key"}, "pointer")

key_generate == Routine(
  << Make("pctx"), Negative(Call), Negative(Call), Negative(Make("params")), Make("kctx"),
     Negative(Call), Negative(Make("key")) >>,
  {"kctx", "params", "pctx"}, {"key"}, "pointer")

\* MUTANT of key_shared_secret: the cleanup label frees the secret, too.
key_shared_secretFreesTwice == Routine(
  << Make("sctx"), Negative(Call), Negative(Call), Negative(Call), Make("secret"),
     Else(Negative(Call), <<"secret">>) >>,
  {"sctx", "secret"}, {"secret"}, "pointer")

key_shared_secret == Routine(
  << Make("sctx"), Negative(Call), Negative(Call), Negative(Call), Make("secret"),
     Else(Negative(Call), <<"secret">>) >>,
  {"sctx"}, {"secret"}, "pointer")

(* crypto.c: MACs, digests and signatures *)

cmac128       == Routine(<< Make("ctx"), Call, Call, Call >>, {"ctx"}, {}, "error")
sha256_digest == Routine(<< Make("ctx"), Call, Call, Call >>, {"ctx"}, {}, "error")

\* MUTANT of sha256_verify: the result of the last call is not noted.
sha256_verifyIgnoresFinal == Routine(<< Make("ctx"), Call, Call, Unchecked(Call) >>, {"ctx"}, {}, "error")

sha256_verify == Routine(<< Make("ctx"), Call, Call, Call >>, {"ctx"}, {}, "error")

ecdsa_sign == Routine(
  << Make("eckey"), Run("sha256_digest", ""), Make("sig"), Only(Call), Only(Call) >>,
  {"sig", "eckey"}, {}, "error")

(* crypto.c: certificates *)

cert_load_file == Routine(<< Return(Make("fp")), Noted(Make("cert")), Free("fp") >>, {}, {"cert"}, "error")
cert_load      == Routine(<< Make("bmem"), Call, Make("cert") >>, {"bmem"}, {"cert"}, "error")
cert_init_ca   == Routine(<< Return(Make("store")), Return(Else(Call, <<"store">>)) >>, {}, {"store"}, "pointer")

\* MUTANT of cert_verify: the branch of the last call does not set error_type.
cert_verifyForgets == Routine(
  << Return(Make("ctx")), Call, [Call EXCEPT !.sets = FALSE] >>, {"ctx"}, {}, "error")

cert_verify == Routine(<< Return(Make("ctx")), Call, Call >>, {"ctx"}, {}, "error")

cert_stack_build == Routine(<< Return(Make("stack")), Unchecked(Call) >>, {}, {"stack"}, "pointer")

(* base64.c.  The filter of a decoded string is never freed, and neither of the *)
(* two BIOs if the reading fails.                                               *)

base64_encode == Routine(
  << Sure(Make("b64")), Sure(Make("bmem")), Return(Else(Call, <<"bmem", "b64">>)),
     Return(Else(Make("dup"), <<"bmem", "b64">>)), Free("bmem"), Free("b64") >>, {}, {"dup"}, "plain")

base64_decode == Routine(
  << Return(Make("buf")), Sure(Make("b64")), Sure(Make("bmem")), Return(Else(Call, <<"buf">>)),
     Free("bmem") >>, {}, {"buf"}, "plain")

-----------------------------------------------------------------------------
(* Their callers *)

derive_kdk == Routine(
  << Return(Run("key_from_sgx_ec256", "Ga")), Return(Run("key_shared_secret", "Gab_x")),
     Unchecked(Run("cmac128", "")) >>, {}, {}, "path")

get_sigrl == Routine(
  << Return(Make("req")), Return(Else(Call, <<"req">>)),
     Return(Else(Run("base64_decode", "sig_rl"), <<"req">>)), Free("req") >>, {}, {"sig_rl"}, "path")

process_msg01 == Routine(
  << Return(Make("msg01")), Return(Else(Call, <<"msg01">>)),
     Return(Else(Run("key_generate", "Gb"), <<"msg01">>)),
     Return(Else(Run("derive_kdk", ""), <<"msg01">>)), Unchecked(Run("cmac128", "")),
     Unchecked(Run("key_to_sgx_ec256", "")),
     Return(Else(Run("get_sigrl", "sigrl"), <<"msg01">>)),
     Unchecked(Run("ecdsa_sign", "")), Unchecked(Run("cmac128", "")), Free("msg01") >>,
  {}, {}, "path")

\* The two comparisons, the quote, its group id, IAS's report, the report data; and
\* for an enclave that is trusted MK and SK, and a digest of each.
process_msg3 == Routine(
  << Return(Make("msg3")), Return(Else(Call, <<"msg3">>)), Unchecked(Run("cmac128", "")),
     Return(Else(Call, <<"msg3">>)), Return(Else(Run("base64_encode", "b64quote"), <<"msg3">>)),
     Return(Else(Call, <<"b64quote", "msg3">>)),
     Return(Else(Run("get_attestation_report", ""), <<"msg3", "b64quote">>)),
     Unchecked(Run("cmac128", "")), Unchecked(Run("sha256_digest", "")),
     Return(Else(Call, <<"b64quote", "msg3">>)),
     Unchecked(Run("cmac128", "")), Unchecked(Run("cmac128", "")),
     Unchecked(Run("sha256_digest", "")), Unchecked(Run("sha256_digest", "")),
     Free("b64quote"), Free("msg3") >>,
  {}, {}, "path")

\* For one that is not.
process_msg3_refused == Routine(
  << Return(Make("msg3")), Return(Else(Call, <<"msg3">>)), Unchecked(Run("cmac128", "")),
     Return(Else(Call, <<"msg3">>)), Return(Else(Run("base64_encode", "b64quote"), <<"msg3">>)),
     Return(Else(Call, <<"b64quote", "msg3">>)),
     Return(Else(Run("get_attestation_report", ""), <<"msg3", "b64quote">>)),
     Unchecked(Run("cmac128", "")), Unchecked(Run("sha256_digest", "")),
     Return(Else(Call, <<"b64quote", "msg3">>)), Free("b64quote"), Free("msg3") >>,
  {}, {}, "path")

\* IAS_Request::report, for a chain of one certificate.  sha256_verify does not
\* write its result: rv is still what cert_verify returned.
report == Routine(
  << Return(Run("cert_load", "cert")), Return(Make("certar")), Run("cert_stack_build", "stack"),
     Run("cert_verify", ""), Run("base64_decode", "sig"), Make("pkey"), Run("sha256_verify", "") >>,
  {"pkey", "stack", "certar", "cert", "sig"}, {}, "path")

get_attestation_report == Routine(
  << Return(Make("req")), Return(Else(Run("report", ""), <<"req">>)), Free("req") >>, {}, {}, "path")

\* Option -A of main.
signing_ca == Routine(
  << Return(Run("cert_load_file", "signing_ca")), Return(Run("cert_init_ca", "store")) >>,
  {}, {"signing_ca", "store"}, "path")

Code == [
  key_load_private |-> key_load_private, key_load_public |-> key_load_public,
  key_load_file |-> key_load_file, key_to_sgx_ec256 |-> key_to_sgx_ec256,
  key_private_from_bytes |-> key_private_from_bytes, key_from_sgx_ec256 |-> key_from_sgx_ec256,
  key_generate |-> key_generate, key_shared_secret |-> key_shared_secret, cmac128 |-> cmac128,
  sha256_digest |-> sha256_digest, sha256_verify |-> sha256_verify, ecdsa_sign |-> ecdsa_sign,
  cert_load_file |-> cert_load_file, cert_load |-> cert_load, cert_init_ca |-> cert_init_ca,
  cert_verify |-> cert_verify, cert_stack_build |-> cert_stack_build,
  base64_encode |-> base64_encode, base64_decode |-> base64_decode, derive_kdk |-> derive_kdk,
  get_sigrl |-> get_sigrl, process_msg01 |-> process_msg01, process_msg3 |-> process_msg3,
  process_msg3_refused |-> process_msg3_refused,
  report |-> report, get_attestation_report |-> get_attestation_report, signing_ca |-> signing_ca]

HandlersOfMsg3 == {"process_msg3", "process_msg3_refused"}

\* The service key, the authority and the messages, each as often as it comes.
Jobs == {"key_load_private", "key_load_public", "key_load_file", "key_private_from_bytes",
         "signing_ca", "process_msg01"} \union HandlersOfMsg3

VARIABLES
  stack,       \* the routines that run, the last one on top
  error,       \* error_type: FALSE is e_none
  job,         \* the routine called last from outside
  returned,    \* what it returned: success, failure, or none while it runs
  lost,        \* of this job: objects that nobody can free any more
  twice,       \* of this job: objects that were freed twice
  noted,       \* of this job: routines that have noticed a failure
  overlooked   \* of this job: routines that have not noticed one, and what they had called

history == <<lost, twice, noted, overlooked>>
vars == <<stack, error, job, returned, history>>

Frame(r) == [of |-> r, at |-> 1, owns |-> {}, freed |-> {}, failed |-> FALSE, cleans |-> TRUE]

Depth  == Len(stack)
Top    == stack[Depth]
Of(f)  == Code[f.of]
Step(f)  == Of(f).steps[f.at]
AtEnd(f) == f.at > Len(Of(f).steps)

NoErrorType == {"plain", "path"}
Names(f, os) == {f.of} \X os

-----------------------------------------------------------------------------
(* What a step does to its frame *)

Done(f) ==
  [f EXCEPT !.at = @ + 1,
            !.owns = IF Step(f).frees THEN @ \ {Step(f).obj} ELSE @ \union ({Step(f).obj} \ {""}),
            !.freed = IF Step(f).frees THEN @ \union {Step(f).obj} ELSE @ \ {Step(f).obj}]

\* A failure that is not looked at, or looks like a success.
Skipped(f) ==
  [f EXCEPT !.at = @ + 1, !.freed = @ \ {Step(f).obj}, !.failed = @ \/ Step(f).fail = "noted"]

\* The branch of a failed test.
Jumped(f) ==
  [f EXCEPT !.at = Len(Of(f).steps) + 1,
            !.owns = (@ \ Range(Step(f).free)) \ {Step(f).drop},
            !.freed = (@ \ {Step(f).obj}) \union Range(Step(f).free),
            !.failed = TRUE,
            !.cleans = Step(f).fail = "cleanup"]

Failed(f) == IF Step(f).fail \in {"cleanup", "return"} THEN Jumped(f) ELSE Skipped(f)

Repeated(s) == {s[n] : n \in {m \in DOMAIN s : \E k \in 1 .. m - 1 : s[k] = s[m]}}

\* What of os, which is freed now, has been freed before.
Again(f, os) == Names(f, Repeated(os) \union (Range(os) \intersect f.freed))

Notices(f) == Step(f).fail \in {"cleanup", "return", "noted"}

\* Where a failure is overlooked: the routine, and the one that it has called, if any.
Place(f) == <<f.of, Step(f).of>>

\* The books a failed step keeps.
FailureNoted(f) ==
  /\ noted' = IF Notices(f) THEN noted \union {f.of} ELSE noted
  /\ overlooked' = IF Notices(f) \/ Step(f).fail = "spare" THEN overlooked ELSE overlooked \union {Place(f)}

Dropped(f) == IF Step(f).drop # "" THEN Names(f, {Step(f).drop}) ELSE {}

\* error_type is set by the branch of a failed step, if it sets it.
SetsError(f) == Of(f).by \notin NoErrorType /\ Notices(f) /\ Step(f).sets

-----------------------------------------------------------------------------
Replace(f) == stack' = [stack EXCEPT ![Depth] = f]

\* error_type= e_none, first of all.
Reset(r) == error' = IF Code[r].by \in NoErrorType THEN error ELSE FALSE

Begin(r) ==
  /\ stack = <<>>
  /\ stack' = <<Frame(r)>>
  /\ Reset(r)
  /\ job' = r /\ returned' = "none"
  /\ lost' = {} /\ twice' = {} /\ noted' = {} /\ overlooked' = {}

\* A call of the library, or a free, that succeeds.
Succeed ==
  /\ stack # <<>> /\ ~AtEnd(Top) /\ Step(Top).of = ""
  /\ Replace(Done(Top))
  /\ twice' = IF Step(Top).frees THEN twice \union Again(Top, <<Step(Top).obj>>) ELSE twice
  /\ UNCHANGED <<error, job, returned, lost, noted, overlooked>>

\* One that returns 0 or NULL.
Fail ==
  /\ stack # <<>> /\ ~AtEnd(Top) /\ Step(Top).of = "" /\ ~Step(Top).frees
  /\ Step(Top).fail \notin {"never", "blind"}
  /\ Replace(Failed(Top))
  /\ error' = (error \/ SetsError(Top))
  /\ FailureNoted(Top)
  /\ twice' = twice \union Again(Top, Step(Top).free)
  /\ lost' = lost \union Dropped(Top)
  /\ UNCHANGED <<job, returned>>

\* One that returns less than 0, which the code takes for a success.
FailBelowZero ==
  /\ stack # <<>> /\ ~AtEnd(Top) /\ Step(Top).of = ""
  /\ Step(Top).blind
  /\ Replace(Skipped(Top))
  /\ overlooked' = overlooked \union {Place(Top)}
  /\ UNCHANGED <<error, job, returned, lost, twice, noted>>

\* A routine is called.
Enter ==
  /\ stack # <<>> /\ ~AtEnd(Top) /\ Step(Top).of # ""
  /\ stack' = Append(stack, Frame(Step(Top).of))
  /\ Reset(Step(Top).of)
  /\ UNCHANGED <<job, returned, history>>

\* What is left after the cleanup label, for the caller or for nobody.
Left(f)  == IF f.cleans THEN f.owns \ Of(f).cleanup ELSE f.owns
Given(f) == Left(f) \intersect Of(f).gives

\* What the cleanup label frees although it has been freed before.
Cleaned(f) == IF f.cleans THEN Names(f, Of(f).cleanup \intersect f.freed) ELSE {}

Succeeded(f) ==
  CASE Of(f).by = "error" -> ~error
    [] Of(f).by \in {"pointer", "plain"} -> Given(f) # {}
    [] Of(f).by = "path" -> ~f.failed

\* The cleanup label, the return, and what the caller makes of it.
Leave ==
  /\ stack # <<>> /\ AtEnd(Top)
  /\ lost' = lost \union Names(Top, IF Succeeded(Top) THEN Left(Top) \ Given(Top) ELSE Left(Top))
  /\ \/ /\ Depth = 1
        /\ stack' = <<>>
        /\ returned' = IF Succeeded(Top) THEN "success" ELSE "failure"
        /\ twice' = twice \union Cleaned(Top)
        /\ UNCHANGED <<error, noted, overlooked>>
     \/ /\ Depth > 1
        /\ LET caller == stack[Depth - 1]
               Goes(f) == stack' = Append(SubSeq(stack, 1, Depth - 2), f)
           IN  \/ /\ Succeeded(Top)
                  /\ Goes(Done(caller))
                  /\ twice' = twice \union Cleaned(Top)
                  /\ UNCHANGED <<error, noted, overlooked>>
               \/ /\ ~Succeeded(Top)
                  /\ Goes(Failed(caller))
                  /\ error' = (error \/ SetsError(caller))
                  /\ FailureNoted(caller)
                  /\ twice' = twice \union Cleaned(Top) \union Again(caller, Step(caller).free)
        /\ UNCHANGED returned
  /\ UNCHANGED job

Init ==
  /\ stack = <<>> /\ error = FALSE /\ job = "none" /\ returned = "none"
  /\ lost = {} /\ twice = {} /\ noted = {} /\ overlooked = {}

Next == Succeed \/ Fail \/ FailBelowZero \/ Enter \/ Leave \/ \E r \in Jobs : Begin(r)

Spec == Init /\ [][Next]_vars

-----------------------------------------------------------------------------
(* Properties *)

\* What a session that gets as far as msg2 loses for good: the peer's key twice,
\* the shared secret, its own key, the revocation list, and a filter; and mostly
\* the reference to its own key that key_to_sgx_ec256 has taken.
SessionLoses ==
  { <<"key_from_sgx_ec256", "key">>, <<"derive_kdk", "Ga">>, <<"derive_kdk", "Gab_x">>,
    <<"process_msg01", "Gb">>, <<"process_msg01", "sigrl">>, <<"base64_decode", "b64">> }

OwnKey == <<"key_to_sgx_ec256", "eckey">>

\* What else a failure loses: what the loading of a key at start-up leaves, the
\* certificate of an authority that has no store, a buffer that base64_decode could
\* not read from, and the certificates of a report whose array was not to be had.
KnownLosses == SessionLoses \union {
  OwnKey, <<"key_load_private", "eckey">>, <<"key_load_private", "ctx">>,
  <<"key_load_private", "pkey">>, <<"key_load_public", "eckey">>, <<"key_load_public", "pkey">>,
  <<"key_load_file", "key">>, <<"signing_ca", "signing_ca">>,
  <<"base64_decode", "bmem">>, <<"report", "cert">> }

\* Whatever fails, nothing else is ever lost: every other path through the routines
\* and their cleanup labels frees all it has made.  And a session that succeeds
\* loses exactly what it must.
LossesAreKnown ==
  /\ lost \subseteq KnownLosses
  /\ job = "process_msg01" /\ returned = "success" => lost \ {OwnKey} = SessionLoses

\* No path frees an object twice but one, the failure of the last call on the
\* public point of a private key, at start-up: what a cleanup label frees, no
\* branch that leads to it has freed.
FreedOnce == twice \subseteq {<<"key_load_private", "pubpt">>}

\* What a routine of crypto.c answers is what has happened: at its return error_type is
\* set exactly if one of its own calls has failed and it has noticed that, whatever an
\* earlier routine or one it has called left there and whichever branch it took; and it
\* answers success exactly if none has.  The one exception is key_generate, which may
\* have no key to give although it has noticed nothing.
FailureIsExplained ==
  stack # <<>> /\ AtEnd(Top) /\ Of(Top).by \notin NoErrorType =>
    /\ error <=> Top.failed
    /\ Succeeded(Top) => ~Top.failed
    /\ ~Succeeded(Top) => Top.failed \/ (Top.of = "key_generate" /\ <<"key_generate", "">> \in overlooked)

\* The failures behind which a session goes on as if nothing had happened: the MACs that
\* are KDK (derive_kdk, which returns 1 all the same), SMK and the MAC of msg2, the signature of msg2 and the key in
\* it; an EVP_PKEY function that returns less than 0 while the session's key is made or
\* the secret derived, and a BN_bn2lebinpad or BN_bn2binpad that does.
HiddenInMsg01 ==
  { <<"derive_kdk", "cmac128">>, <<"process_msg01", "cmac128">>,
    <<"process_msg01", "key_to_sgx_ec256">>, <<"process_msg01", "ecdsa_sign">>,
    <<"key_generate", "">>, <<"key_shared_secret", "">>, <<"key_to_sgx_ec256", "">>,
    <<"ecdsa_sign", "">> }

\* The MACs that are msg3's, VK, and MK and SK if the enclave is trusted; the digest of
\* the report data, those of MK and SK; a certificate that did not get onto the chain.
HiddenInMsg3 ==
  (HandlersOfMsg3 \X {"cmac128", "sha256_digest"}) \union { <<"cert_stack_build", "">> }

\* A message that is processed with success hides those failures at most; any other, of
\* a key's import, of the revocation list, of the quote, of the chain and of the report's
\* signature among them, has ended the session.  What has been noticed further down and
\* is still no reason to end it is a MAC, a digest or a signature.
HiddenFailuresAreKnown ==
  returned = "success" =>
    /\ job = "process_msg01" =>
         /\ overlooked \subseteq HiddenInMsg01
         /\ noted \subseteq {"cmac128", "key_to_sgx_ec256", "ecdsa_sign", "sha256_digest"}
    /\ job \in HandlersOfMsg3 =>
         /\ overlooked \subseteq HiddenInMsg3
         /\ noted \subseteq {"cmac128", "sha256_digest"}
=============================================================================
