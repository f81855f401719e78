------------------------ MODULE CryptoRoutinesProofs ------------------------
(***************************************************************************)
(* What CryptoRoutines says of lost and freed objects and of reported      *)
(* failures, proved.  The proof is an outline of each routine in the sense *)
(* of Floyd: a table of what the routine owns before each of its steps     *)
(* (Owned), facts about each step that follow from the text of the routine *)
(* (StepFacts), and an invariant of the stack of calls that needs nothing  *)
(* else.                                                                   *)
(***************************************************************************)
EXTENDS CryptoRoutines, SequenceTheorems, TLAPS

Routines == DOMAIN Code

-----------------------------------------------------------------------------
(* The outline *)

\* What a routine owns before each of its steps, and at its end, if no call has failed.
Owned == [
  key_load_private |->
    <<{}, {}, {"eckey"}, {"ctx", "eckey"}, {"ctx", "eckey", "gx"}, {"ctx", "eckey", "gx"},
     {"ctx", "eckey", "gx", "pubpt"}, {"ctx", "eckey", "gx", "pubpt"},
     {"eckey", "gx", "pubpt"}, {"eckey", "gx", "pubpt"}, {"eckey", "gx"},
     {"eckey", "gx", "pkey"}, {"eckey", "gx", "pkey"}>>,
  key_load_public |->
    <<{}, {}, {"eckey"}, {"eckey", "gx"}, {"eckey", "gx", "gy"}, {"eckey", "gx", "gy"},
     {"eckey", "gx", "gy", "pkey"}, {"eckey", "gx", "gy", "pkey"}>>,
  key_load_file |->
    <<{}, {"key"}, {"fp", "key"}, {"fp", "key"}, {"key"}>>,
  key_to_sgx_ec256 |->
    <<{}, {"eckey"}, {"ecgroup", "eckey"}, {"ecgroup", "eckey", "gx"},
     {"ecgroup", "eckey", "gx", "gy"}, {"ecgroup", "eckey", "gx", "gy"},
     {"ecgroup", "eckey", "gx", "gy"}, {"ecgroup", "eckey", "gx", "gy"}>>,
  key_private_from_bytes |->
    <<{}, {"key"}, {"key", "prv"}, {"key", "prv"}, {"key", "pkey", "prv"}, {"key", "pkey", "prv"}>>,
  key_from_sgx_ec256 |->
    <<{}, {"gx"}, {"gx", "gy"}, {"gx", "gy", "key"}, {"gx", "gy", "key"},
     {"gx", "gy", "key", "pkey"}, {"gx", "gy", "key", "pkey"}>>,
  key_generate |->
    <<{}, {"pctx"}, {"pctx"}, {"pctx"}, {"params", "pctx"}, {"kctx", "params", "pctx"},
     {"kctx", "params", "pctx"}, {"kctx", "key", "params", "pctx"}>>,
  key_shared_secret |->
    <<{}, {"sctx"}, {"sctx"}, {"sctx"}, {"sctx"}, {"sctx", "secret"}, {"sctx", "secret"}>>,
  cmac128 |->
    <<{}, {"ctx"}, {"ctx"}, {"ctx"}, {"ctx"}>>,
  sha256_digest |->
    <<{}, {"ctx"}, {"ctx"}, {"ctx"}, {"ctx"}>>,
  sha256_verify |->
    <<{}, {"ctx"}, {"ctx"}, {"ctx"}, {"ctx"}>>,
  ecdsa_sign |->
    <<{}, {"eckey"}, {"eckey"}, {"eckey", "sig"}, {"eckey", "sig"}, {"eckey", "sig"}>>,
  cert_load_file |->
    <<{}, {"fp"}, {"cert", "fp"}, {"cert"}>>,
  cert_load |->
    <<{}, {"bmem"}, {"bmem"}, {"bmem", "cert"}>>,
  cert_init_ca |->
    <<{}, {"store"}, {"store"}>>,
  cert_verify |->
    <<{}, {"ctx"}, {"ctx"}, {"ctx"}>>,
  cert_stack_build |->
    <<{}, {"stack"}, {"stack"}>>,
  base64_encode |->
    <<{}, {"b64"}, {"b64", "bmem"}, {"b64", "bmem"}, {"b64", "bmem", "dup"}, {"b64", "dup"},
     {"dup"}>>,
  base64_decode |->
    <<{}, {"buf"}, {"b64", "buf"}, {"b64", "bmem", "buf"}, {"b64", "bmem", "buf"}, {"b64", "buf"}>>,
  derive_kdk |->
    <<{}, {"Ga"}, {"Ga", "Gab_x"}, {"Ga", "Gab_x"}>>,
  get_sigrl |->
    <<{}, {"req"}, {"req"}, {"req", "sig_rl"}, {"sig_rl"}>>,
  process_msg01 |->
    <<{}, {"msg01"}, {"msg01"}, {"Gb", "msg01"}, {"Gb", "msg01"}, {"Gb", "msg01"},
     {"Gb", "msg01"}, {"Gb", "msg01", "sigrl"}, {"Gb", "msg01", "sigrl"},
     {"Gb", "msg01", "sigrl"}, {"Gb", "sigrl"}>>,
  process_msg3 |->
    <<{}, {"msg3"}, {"msg3"}, {"msg3"}, {"msg3"}, {"b64quote", "msg3"}, {"b64quote", "msg3"},
     {"b64quote", "msg3"}, {"b64quote", "msg3"}, {"b64quote", "msg3"}, {"b64quote", "msg3"},
     {"b64quote", "msg3"}, {"b64quote", "msg3"}, {"b64quote", "msg3"}, {"b64quote", "msg3"},
     {"msg3"}, {}>>,
  process_msg3_refused |->
    <<{}, {"msg3"}, {"msg3"}, {"msg3"}, {"msg3"}, {"b64quote", "msg3"}, {"b64quote", "msg3"},
     {"b64quote", "msg3"}, {"b64quote", "msg3"}, {"b64quote", "msg3"}, {"b64quote", "msg3"},
     {"msg3"}, {}>>,
  report |->
    <<{}, {"cert"}, {"cert", "certar"}, {"cert", "certar", "stack"}, {"cert", "certar", "stack"},
     {"cert", "certar", "sig", "stack"}, {"cert", "certar", "pkey", "sig", "stack"},
     {"cert", "certar", "pkey", "sig", "stack"}>>,
  get_attestation_report |->
    <<{}, {"req"}, {"req"}, {}>>,
  signing_ca |->
    <<{}, {"signing_ca"}, {"signing_ca", "store"}>>]

Objects == UNION { UNION { Owned[r][n] : n \in DOMAIN Owned[r] } : r \in Routines }

\* The routines that go on without an object they wanted.
Loose == {"key_load_private", "key_load_file", "cert_load_file", "key_generate"}

\* The routines whose failure some caller does not look at.
Tolerated == {"cmac128", "key_to_sgx_ec256", "ecdsa_sign", "sha256_digest"}

\* Those that the processing of a message runs.
OfMsg01 ==
  {"process_msg01", "key_generate", "derive_kdk", "key_from_sgx_ec256", "key_shared_secret",
   "cmac128", "key_to_sgx_ec256", "get_sigrl", "base64_decode", "ecdsa_sign", "sha256_digest"}
OfMsg3 ==
  {"process_msg3", "process_msg3_refused", "cmac128", "base64_encode", "get_attestation_report",
   "sha256_digest", "report", "cert_load", "cert_stack_build", "cert_verify", "base64_decode",
   "sha256_verify"}

Tests == {"cleanup", "return"}
GoesOn(s) == s.blind \/ s.fail \in {"noted", "unchecked", "spare"}

\* What step s of routine r, which owns o, may do to its objects.
Objective(r, s, o, p) ==
  /\ \A x : x \in p <=> IF s.frees THEN x \in o /\ x # s.obj ELSE x \in o \/ (x = s.obj /\ x # "")
  /\ s.frees => s.obj \in o \ Code[r].cleanup /\ s.of = "" /\ s.blind = FALSE
  /\ Range(s.free) \subseteq o \ Code[r].cleanup
  /\ \A x \in Repeated(s.free) : r = "key_load_private" /\ x = "pubpt"
  /\ s.fail \notin Tests => s.free = <<>> /\ s.drop = ""
  /\ GoesOn(s) /\ ~s.frees => s.obj = "" \/ r \in Loose
  /\ s.blind => s.fail # "noted"
  /\ r = "key_generate" => s.fail \notin {"noted", "unchecked", "spare"} /\ s.of = ""
  /\ s.drop # "" => <<r, s.drop>> \in KnownLosses /\ r \in {"key_load_private", "key_load_public"}

\* What it may leave behind if it fails.
Lossy(r, s, o) ==
  LET kept == (o \ Range(s.free)) \ {s.drop}
      left == IF s.fail = "cleanup" THEN kept \ Code[r].cleanup ELSE kept
  IN  s.fail \in Tests /\ ~s.frees =>
        /\ \A x \in left : <<r, x>> \in KnownLosses
        /\ Code[r].by \in {"pointer", "plain"} => left \intersect Code[r].gives = {}

\* What it may call, and what becomes of a failure.
Answered(r, s) ==
  /\ s.fail \in Tests \union {"noted", "unchecked", "spare", "never", "blind"}
  /\ s.fail = "noted" => r = "cert_load_file"
  /\ s.fail = "spare" => r \in {"key_load_private", "key_load_file"}
  /\ s.blind \/ s.fail \notin Tests \union {"never"} =>
       /\ r \in OfMsg01 => <<r, s.of>> \in HiddenInMsg01
       /\ r \in OfMsg3 => <<r, s.of>> \in HiddenInMsg3
  /\ s.sets
  /\ s.of # "" =>
       /\ s.of \in Routines /\ s.fail \in Tests \union {"unchecked"} /\ s.blind = FALSE /\ s.frees = FALSE
       /\ Code[r].by # "path" => r = "ecdsa_sign" /\ s.of = "sha256_digest" /\ s.fail = "cleanup"
       /\ s.fail = "unchecked" \/ r \in Tolerated => s.of \in Tolerated
       /\ r \in OfMsg01 => s.of \in OfMsg01
       /\ r \in OfMsg3 => s.of \in OfMsg3
       /\ r # "cert_load_file"

StepFacts(r, s, o, p) == Objective(r, s, o, p) /\ Lossy(r, s, o) /\ Answered(r, s)

\* What it owns at the end is lost only if it must be.
EndFacts(r, o) ==
  LET left == o \ Code[r].cleanup
  IN  /\ \A x \in left \ Code[r].gives : <<r, x>> \in KnownLosses
      /\ Code[r].by = "pointer" => left \intersect Code[r].gives # {}
      /\ Code[r].by \in {"error", "pointer", "plain", "path"}

HoldsAt(r, n) == StepFacts(r, Code[r].steps[n], Owned[r][n], Owned[r][n + 1])

Facts(r) ==
  LET last == Len(Code[r].steps) IN
  /\ last \in Nat \ {0}
  /\ Owned[r][1] = {}
  /\ \A n \in 1 .. last : HoldsAt(r, n)
  /\ EndFacts(r, Owned[r][last + 1])
  /\ \A n \in 1 .. last + 1 : Owned[r][n] \subseteq Objects

-----------------------------------------------------------------------------
(* The invariant *)

Frames == [of : Routines, at : Nat, owns : SUBSET Objects, freed : SUBSET Objects,
           failed : BOOLEAN, cleans : BOOLEAN]

Before(f) == Owned[f.of][f.at]

\* A routine on its way: it owns what the outline says, or less if it is a loose one.
\* ov is where a failure has been overlooked.
Going(f, ov) ==
  /\ f.cleans
  /\ f.owns \subseteq Before(f)
  /\ f.freed \intersect Before(f) = {}
  /\ f.of \notin Loose => f.owns = Before(f)
  /\ f.of = "key_generate" /\ <<"key_generate", "">> \notin ov => f.owns = Before(f)
  /\ f.failed => f.of = "cert_load_file" /\ f.at \in {3, 4} /\ f.owns \subseteq {"fp"}

\* One that has failed, at its cleanup label or its early return.
Stopped(f) ==
  /\ AtEnd(f) /\ f.failed
  /\ \A x \in Left(f) : <<f.of, x>> \in KnownLosses
  /\ Of(f).by \in {"pointer", "plain"} => Given(f) = {}

FrameOK(f, ov) ==
  /\ f.at \in 1 .. Len(Of(f).steps) + 1
  /\ f.freed \intersect Of(f).cleanup = {}
  /\ Going(f, ov) \/ Stopped(f)

\* One that waits for the routine that is called g.
Waits(f, g) == ~f.failed /\ ~AtEnd(f) /\ Step(f).of = g

StackInv ==
  /\ stack \in Seq(Frames)
  /\ \A n \in 1 .. Depth : FrameOK(stack[n], overlooked)
  /\ \A n \in 1 .. Depth - 1 : Waits(stack[n], stack[n + 1].of)
  /\ stack # <<>> => stack[1].of = job /\ returned = "none"
  /\ job = "process_msg01" => \A n \in 1 .. Depth : stack[n].of \in OfMsg01
  /\ job \in HandlersOfMsg3 => \A n \in 1 .. Depth : stack[n].of \in OfMsg3

\* error_type says what the routine on top has noticed.
ErrorInv == stack # <<>> /\ Of(Top).by \notin NoErrorType => (error <=> Top.failed)

\* A failure that no caller tolerates is on its way up, or has arrived.
Rising ==
  \/ stack # <<>> /\ Top.failed /\ Top.of \notin Tolerated
  \/ stack = <<>> /\ returned = "failure"

ReportInv ==
  /\ job = "process_msg01" =>
       /\ noted \subseteq Tolerated \/ Rising
       /\ overlooked \subseteq HiddenInMsg01
  /\ job \in HandlersOfMsg3 =>
       /\ noted \subseteq Tolerated \/ Rising
       /\ noted \subseteq OfMsg3
       /\ overlooked \subseteq HiddenInMsg3

\* What the calls that a routine has made on its way have cost.
Due(f) ==
  IF f.of = "process_msg01"
  THEN (IF f.at > 4
        THEN {<<"key_from_sgx_ec256", "key">>, <<"derive_kdk", "Ga">>, <<"derive_kdk", "Gab_x">>}
        ELSE {}) \union
       (IF f.at > 7 THEN {<<"base64_decode", "b64">>} ELSE {})
  ELSE IF f.of = "derive_kdk" /\ f.at > 1 THEN {<<"key_from_sgx_ec256", "key">>}
  ELSE IF f.of = "get_sigrl" /\ f.at > 3 THEN {<<"base64_decode", "b64">>}
  ELSE {}

LossInv ==
  /\ lost \subseteq KnownLosses
  /\ \A n \in 1 .. Depth : ~stack[n].failed => Due(stack[n]) \subseteq lost
  /\ job = "process_msg01" => lost \subseteq SessionLoses \union {OwnKey} \/ Rising
  /\ job = "process_msg01" /\ returned = "success" => SessionLoses \subseteq lost

IInv == StackInv /\ ErrorInv /\ ReportInv /\ LossInv /\ FreedOnce

-----------------------------------------------------------------------------
(* Steps, field by field *)

Fields == {"obj", "frees", "of", "fail", "free", "blind", "drop", "sets"}

IsStep(s) == s = [x \in Fields |-> s[x]]

\* All of a step that matters.
Is(s, obj, frees, of, fail, blind, drop, freed, again) ==
  /\ IsStep(s)
  /\ s.obj = obj /\ s.frees = frees /\ s.of = of /\ s.fail = fail /\ s.blind = blind /\ s.drop = drop
  /\ s.sets = TRUE
  /\ Range(s.free) = freed /\ Repeated(s.free) = again
  /\ freed = {} => s.free = <<>>

LEMMA SmallSequences ==
  /\ Range(<<>>) = {} /\ Repeated(<<>>) = {}
  /\ \A a : Range(<<a>>) = {a} /\ Repeated(<<a>>) = {}
  /\ \A a, b : Range(<<a, b>>) = {a, b} /\ Repeated(<<a, b>>) = IF a = b THEN {a} ELSE {}
<1>1. Range(<<>>) = {} /\ Repeated(<<>>) = {}
  BY DEF Range, Repeated
<1>2. ASSUME NEW a PROVE Range(<<a>>) = {a} /\ Repeated(<<a>>) = {}
  BY DEF Range, Repeated
<1>3. ASSUME NEW a, NEW b PROVE Range(<<a, b>>) = {a, b}
  BY DEF Range
<1>4. ASSUME NEW a, NEW b PROVE Repeated(<<a, b>>) = IF a = b THEN {a} ELSE {}
  BY DEF Repeated
<1>5. QED  BY <1>1, <1>2, <1>3, <1>4

LEMMA CallIs ==
  Is(Call, "", FALSE, "", "cleanup", FALSE, "", {}, {})
BY SmallSequences DEF Is, IsStep, Fields, Call

LEMMA MakeIs ==
  ASSUME NEW o
  PROVE  Is(Make(o), o, FALSE, "", "cleanup", FALSE, "", {}, {})
BY CallIs, SmallSequences DEF Is, IsStep, Fields, Make

LEMMA FreeIs ==
  ASSUME NEW o
  PROVE  Is(Free(o), o, TRUE, "", "cleanup", FALSE, "", {}, {})
BY CallIs, SmallSequences DEF Is, IsStep, Fields, Free

LEMMA RunIs ==
  ASSUME NEW r, NEW o
  PROVE  Is(Run(r, o), o, FALSE, r, "cleanup", FALSE, "", {}, {})
BY CallIs, SmallSequences DEF Is, IsStep, Fields, Run

LEMMA ElseIs ==
  ASSUME NEW s, NEW obj, NEW frees, NEW of, NEW fail, NEW blind, NEW drop, NEW freed, NEW again,
         Is(s, obj, frees, of, fail, blind, drop, freed, again),
         NEW os, NEW fr, NEW ag, Range(os) = fr, Repeated(os) = ag, fr # {}
  PROVE  Is(Else(s, os), obj, frees, of, fail, blind, drop, fr, ag)
BY DEF Is, IsStep, Fields, Else

LEMMA DropIs ==
  ASSUME NEW s, NEW obj, NEW frees, NEW of, NEW fail, NEW blind, NEW drop, NEW freed, NEW again,
         Is(s, obj, frees, of, fail, blind, drop, freed, again),
         NEW d
  PROVE  Is(Drop(s, d), obj, frees, of, fail, blind, d, freed, again)
BY DEF Is, IsStep, Fields, Drop

LEMMA ReturnIs ==
  ASSUME NEW s, NEW obj, NEW frees, NEW of, NEW fail, NEW blind, NEW drop, NEW freed, NEW again,
         Is(s, obj, frees, of, fail, blind, drop, freed, again)
  PROVE  Is(Return(s), obj, frees, of, "return", blind, drop, freed, again)
BY DEF Is, IsStep, Fields, Return

LEMMA NotedIs ==
  ASSUME NEW s, NEW obj, NEW frees, NEW of, NEW fail, NEW blind, NEW drop, NEW freed, NEW again,
         Is(s, obj, frees, of, fail, blind, drop, freed, again)
  PROVE  Is(Noted(s), obj, frees, of, "noted", blind, drop, freed, again)
BY DEF Is, IsStep, Fields, Noted

LEMMA UncheckedIs ==
  ASSUME NEW s, NEW obj, NEW frees, NEW of, NEW fail, NEW blind, NEW drop, NEW freed, NEW again,
         Is(s, obj, frees, of, fail, blind, drop, freed, again)
  PROVE  Is(Unchecked(s), obj, frees, of, "unchecked", blind, drop, freed, again)
BY DEF Is, IsStep, Fields, Unchecked

LEMMA SureIs ==
  ASSUME NEW s, NEW obj, NEW frees, NEW of, NEW fail, NEW blind, NEW drop, NEW freed, NEW again,
         Is(s, obj, frees, of, fail, blind, drop, freed, again)
  PROVE  Is(Sure(s), obj, frees, of, "never", blind, drop, freed, again)
BY DEF Is, IsStep, Fields, Sure

LEMMA SpareIs ==
  ASSUME NEW s, NEW obj, NEW frees, NEW of, NEW fail, NEW blind, NEW drop, NEW freed, NEW again,
         Is(s, obj, frees, of, fail, blind, drop, freed, again)
  PROVE  Is(Spare(s), obj, frees, of, "spare", blind, drop, freed, again)
BY DEF Is, IsStep, Fields, Spare

LEMMA NegativeIs ==
  ASSUME NEW s, NEW obj, NEW frees, NEW of, NEW fail, NEW blind, NEW drop, NEW freed, NEW again,
         Is(s, obj, frees, of, fail, blind, drop, freed, again)
  PROVE  Is(Negative(s), obj, frees, of, fail, TRUE, drop, freed, again)
BY DEF Is, IsStep, Fields, Negative

LEMMA OnlyIs ==
  ASSUME NEW s, NEW obj, NEW frees, NEW of, NEW fail, NEW blind, NEW drop, NEW freed, NEW again,
         Is(s, obj, frees, of, fail, blind, drop, freed, again)
  PROVE  Is(Only(s), obj, frees, of, "blind", TRUE, drop, freed, again)
BY DEF Is, IsStep, Fields, Only

-----------------------------------------------------------------------------
(* The facts of each routine, from its text.  One lemma per routine: the    *)
(* n-th step takes what the table says it owns to what the table says next, *)
(* and whatever it may leave behind is known.                               *)

\* The names of the routines.
LEMMA RoutineNames ==
  Routines = {"key_load_private", "key_load_public", "key_load_file", "key_to_sgx_ec256",
    "key_private_from_bytes", "key_from_sgx_ec256", "key_generate", "key_shared_secret",
    "cmac128", "sha256_digest", "sha256_verify", "ecdsa_sign", "cert_load_file", "cert_load",
    "cert_init_ca", "cert_verify", "cert_stack_build", "base64_encode", "base64_decode",
    "derive_kdk", "get_sigrl", "process_msg01", "process_msg3", "process_msg3_refused",
    "report", "get_attestation_report", "signing_ca"}
BY DEF Routines, Code

LEMMA Facts_key_load_private == Facts("key_load_private")
<1>1. Code["key_load_private"] = key_load_private /\ "key_load_private" \in Routines
  BY RoutineNames DEF Code
<1>2. /\ Len(key_load_private.steps) = 12 /\ key_load_private.cleanup = {"gx", "gy"}
      /\ key_load_private.gives = {"pkey"} /\ key_load_private.by = "error"
  BY DEF key_load_private, Routine
<1>3. Owned["key_load_private"] = <<{}, {}, {"eckey"}, {"ctx", "eckey"}, {"ctx", "eckey", "gx"},
     {"ctx", "eckey", "gx"}, {"ctx", "eckey", "gx", "pubpt"},
     {"ctx", "eckey", "gx", "pubpt"}, {"eckey", "gx", "pubpt"}, {"eckey", "gx", "pubpt"},
     {"eckey", "gx"}, {"eckey", "gx", "pkey"}, {"eckey", "gx", "pkey"}>>
  BY DEF Owned
<1>4. HoldsAt("key_load_private", 1)
  <2>1. Is(key_load_private.steps[1], "", FALSE, "", "return", FALSE, "", {}, {})
    BY CallIs, ReturnIs DEF key_load_private, Routine
  <2>2. StepFacts("key_load_private", key_load_private.steps[1], {}, {})
    BY <1>1, <1>2, <2>1, RoutineNames
       DEF StepFacts, Objective, Lossy, Answered, Is, GoesOn, Tests, Loose, KnownLosses,
           SessionLoses, OwnKey, Tolerated, OfMsg01, OfMsg3,
           HiddenInMsg01, HiddenInMsg3, HandlersOfMsg3
  <2> QED  BY <1>1, <1>3, <2>2 DEF HoldsAt
<1>5. HoldsAt("key_load_private", 2)
  <2>1. Is(key_load_private.steps[2], "eckey", FALSE, "", "cleanup", FALSE, "", {}, {})
    BY MakeIs DEF key_load_private, Routine
  <2>2. StepFacts("key_load_private", key_load_private.steps[2], {}, {"eckey"})
    BY <1>1, <1>2, <2>1, RoutineNames
       DEF StepFacts, Objective, Lossy, Answered, Is, GoesOn, Tests, Loose, KnownLosses,
           SessionLoses, OwnKey, Tolerated, OfMsg01, OfMsg3,
           HiddenInMsg01, HiddenInMsg3, HandlersOfMsg3
  <2> QED  BY <1>1, <1>3, <2>2 DEF HoldsAt
<1>6. HoldsAt("key_load_private", 3)
  <2>1. Is(key_load_private.steps[3], "ctx", FALSE, "", "spare", FALSE, "", {}, {})
    BY MakeIs, SpareIs DEF key_load_private, Routine
  <2>2. StepFacts("key_load_private", key_load_private.steps[3], {"eckey"}, {"ctx", "eckey"})
    BY <1>1, <1>2, <2>1, RoutineNames
       DEF StepFacts, Objective, Lossy, Answered, Is, GoesOn, Tests, Loose, KnownLosses,
           SessionLoses, OwnKey, Tolerated, OfMsg01, OfMsg3,
           HiddenInMsg01, HiddenInMsg3, HandlersOfMsg3
  <2> QED  BY <1>1, <1>3, <2>2 DEF HoldsAt
<1>7. HoldsAt("key_load_private", 4)
  <2>1. Is(key_load_private.steps[4], "gx", FALSE, "", "cleanup", FALSE, "", {}, {})
    BY MakeIs DEF key_load_private, Routine
  <2>2. StepFacts("key_load_private", key_load_private.steps[4], {"ctx", "eckey"}, {"ctx", "eckey", "gx"})
    BY <1>1, <1>2, <2>1, RoutineNames
       DEF StepFacts, Objective, Lossy, Answered, Is, GoesOn, Tests, Loose, KnownLosses,
           SessionLoses, OwnKey, Tolerated, OfMsg01, OfMsg3,
           HiddenInMsg01, HiddenInMsg3, HandlersOfMsg3
  <2> QED  BY <1>1, <1>3, <2>2 DEF HoldsAt
<1>8. HoldsAt("key_load_private", 5)
  <2>1. Is(key_load_private.steps[5], "", FALSE, "", "cleanup", FALSE, "", {}, {})
    BY CallIs DEF key_load_private, Routine
  <2>2. StepFacts("key_load_private", key_load_private.steps[5], {"ctx", "eckey", "gx"}, {"ctx", "eckey", "gx"})
    BY <1>1, <1>2, <2>1, RoutineNames
       DEF StepFacts, Objective, Lossy, Answered, Is, GoesOn, Tests, Loose, KnownLosses,
           SessionLoses, OwnKey, Tolerated, OfMsg01, OfMsg3,
           HiddenInMsg01, HiddenInMsg3, HandlersOfMsg3
  <2> QED  BY <1>1, <1>3, <2>2 DEF HoldsAt
<1>9. HoldsAt("key_load_private", 6)
  <2>1. Range(<<"ctx">>) = {"ctx"} /\ Repeated(<<"ctx">>) = {}
    BY SmallSequences
  <2>2. Is(key_load_private.steps[6], "pubpt", FALSE, "", "cleanup", FALSE, "", {"ctx"}, {})
    BY <2>1, MakeIs, ElseIs DEF key_load_private, Routine
  <2>3. StepFacts("key_load_private", key_load_private.steps[6], {"ctx", "eckey", "gx"}, {"ctx", "eckey", "gx", "pubpt"})
    BY <1>1, <1>2, <2>2, RoutineNames
       DEF StepFacts, Objective, Lossy, Answered, Is, GoesOn, Tests, Loose, KnownLosses,
           SessionLoses, OwnKey, Tolerated, OfMsg01, OfMsg3,
           HiddenInMsg01, HiddenInMsg3, HandlersOfMsg3
  <2> QED  BY <1>1, <1>3, <2>3 DEF HoldsAt
<1>10. HoldsAt("key_load_private", 7)
  <2>1. Range(<<"ctx", "pubpt">>) = {"ctx", "pubpt"} /\ Repeated(<<"ctx", "pubpt">>) = {}
    BY SmallSequences
  <2>2. Is(key_load_private.steps[7], "", FALSE, "", "cleanup", FALSE, "", {"ctx", "pubpt"}, {})
    BY <2>1, CallIs, ElseIs DEF key_load_private, Routine
  <2>3. StepFacts("key_load_private", key_load_private.steps[7], {"ctx", "eckey", "gx", "pubpt"}, {"ctx", "eckey", "gx", "pubpt"})
    BY <1>1, <1>2, <2>2, RoutineNames
       DEF StepFacts, Objective, Lossy, Answered, Is, GoesOn, Tests, Loose, KnownLosses,
           SessionLoses, OwnKey, Tolerated, OfMsg01, OfMsg3,
           HiddenInMsg01, HiddenInMsg3, HandlersOfMsg3
  <2> QED  BY <1>1, <1>3, <2>3 DEF HoldsAt
<1>11. HoldsAt("key_load_private", 8)
  <2>1. Is(key_load_private.steps[8], "ctx", TRUE, "", "cleanup", FALSE, "", {}, {})
    BY FreeIs DEF key_load_private, Routine
  <2>2. StepFacts("key_load_private", key_load_private.steps[8], {"ctx", "eckey", "gx", "pubpt"}, {"eckey", "gx", "pubpt"})
    BY <1>1, <1>2, <2>1, RoutineNames
       DEF StepFacts, Objective, Lossy, Answered, Is, GoesOn, Tests, Loose, KnownLosses,
           SessionLoses, OwnKey, Tolerated, OfMsg01, OfMsg3,
           HiddenInMsg01, HiddenInMsg3, HandlersOfMsg3
  <2> QED  BY <1>1, <1>3, <2>2 DEF HoldsAt
<1>12. HoldsAt("key_load_private", 9)
  <2>1. Range(<<"pubpt", "pubpt">>) = {"pubpt"} /\ Repeated(<<"pubpt", "pubpt">>) = {"pubpt"}
    BY SmallSequences
  <2>2. Is(key_load_private.steps[9], "", FALSE, "", "cleanup", FALSE, "", {"pubpt"}, {"pubpt"})
    BY <2>1, CallIs, ElseIs DEF key_load_private, Routine
  <2>3. StepFacts("key_load_private", key_load_private.steps[9], {"eckey", "gx", "pubpt"}, {"eckey", "gx", "pubpt"})
    BY <1>1, <1>2, <2>2, RoutineNames
       DEF StepFacts, Objective, Lossy, Answered, Is, GoesOn, Tests, Loose, KnownLosses,
           SessionLoses, OwnKey, Tolerated, OfMsg01, OfMsg3,
           HiddenInMsg01, HiddenInMsg3, HandlersOfMsg3
  <2> QED  BY <1>1, <1>3, <2>3 DEF HoldsAt
<1>13. HoldsAt("key_load_private", 10)
  <2>1. Is(key_load_private.steps[10], "pubpt", TRUE, "", "cleanup", FALSE, "", {}, {})
    BY FreeIs DEF key_load_private, Routine
  <2>2. StepFacts("key_load_private", key_load_private.steps[10], {"eckey", "gx", "pubpt"}, {"eckey", "gx"})
    BY <1>1, <1>2, <2>1, RoutineNames
       DEF StepFacts, Objective, Lossy, Answered, Is, GoesOn, Tests, Loose, KnownLosses,
           SessionLoses, OwnKey, Tolerated, OfMsg01, OfMsg3,
           HiddenInMsg01, HiddenInMsg3, HandlersOfMsg3
  <2> QED  BY <1>1, <1>3, <2>2 DEF HoldsAt
<1>14. HoldsAt("key_load_private", 11)
  <2>1. Is(key_load_private.steps[11], "pkey", FALSE, "", "cleanup", FALSE, "", {}, {})
    BY MakeIs DEF key_load_private, Routine
  <2>2. StepFacts("key_load_private", key_load_private.steps[11], {"eckey", "gx"}, {"eckey", "gx", "pkey"})
    BY <1>1, <1>2, <2>1, RoutineNames
       DEF StepFacts, Objective, Lossy, Answered, Is, GoesOn, Tests, Loose, KnownLosses,
           SessionLoses, OwnKey, Tolerated, OfMsg01, OfMsg3,
           HiddenInMsg01, HiddenInMsg3, HandlersOfMsg3
  <2> QED  BY <1>1, <1>3, <2>2 DEF HoldsAt
<1>15. HoldsAt("key_load_private", 12)
  <2>1. Is(key_load_private.steps[12], "", FALSE, "", "cleanup", FALSE, "pkey", {}, {})
    BY CallIs, DropIs DEF key_load_private, Routine
  <2>2. StepFacts("key_load_private", key_load_private.steps[12], {"eckey", "gx", "pkey"}, {"eckey", "gx", "pkey"})
    BY <1>1, <1>2, <2>1, RoutineNames
       DEF StepFacts, Objective, Lossy, Answered, Is, GoesOn, Tests, Loose, KnownLosses,
           SessionLoses, OwnKey, Tolerated, OfMsg01, OfMsg3,
           HiddenInMsg01, HiddenInMsg3, HandlersOfMsg3
  <2> QED  BY <1>1, <1>3, <2>2 DEF HoldsAt
<1>16. \A n \in 1 .. 12 : HoldsAt("key_load_private", n)
  BY <1>4, <1>5, <1>6, <1>7, <1>8, <1>9, <1>10, <1>11, <1>12, <1>13, <1>14, <1>15
<1>17. EndFacts("key_load_private", {"eckey", "gx", "pkey"})
  BY <1>1, <1>2 DEF EndFacts, KnownLosses, SessionLoses, OwnKey
<1>18. \A n \in 1 .. 13 : Owned["key_load_private"][n] \subseteq Objects
  BY <1>1, <1>3 DEF Objects
<1> QED  BY <1>1, <1>2, <1>3, <1>16, <1>17, <1>18 DEF Facts

LEMMA Facts_key_load_public == Facts("key_load_public")
<1>1. Code["key_load_public"] = key_load_public /\ "key_load_public" \in Routines
  BY RoutineNames DEF Code
<1>2. /\ Len(key_load_public.steps) = 7 /\ key_load_public.cleanup = {"gx", "gy"}
      /\ key_load_public.gives = {"pkey"} /\ key_load_public.by = "error"
  BY DEF key_load_public, Routine
<1>3. Owned["key_load_public"] = <<{}, {}, {"eckey"}, {"eckey", "gx"}, {"eckey", "gx", "gy"},
     {"eckey", "gx", "gy"}, {"eckey", "gx", "gy", "pkey"}, {"eckey", "gx", "gy", "pkey"}>>
  BY DEF Owned
<1>4. HoldsAt("key_load_public", 1)
  <2>1. Is(key_load_public.steps[1], "", FALSE, "", "return", FALSE, "", {}, {})
    BY CallIs, ReturnIs DEF key_load_public, Routine
  <2>2. StepFacts("key_load_public", key_load_public.steps[1], {}, {})
    BY <1>1, <1>2, <2>1, RoutineNames
       DEF StepFacts, Objective, Lossy, Answered, Is, GoesOn, Tests, Loose, KnownLosses,
           SessionLoses, OwnKey, Tolerated, OfMsg01, OfMsg3,
           HiddenInMsg01, HiddenInMsg3, HandlersOfMsg3
  <2> QED  BY <1>1, <1>3, <2>2 DEF HoldsAt
<1>5. HoldsAt("key_load_public", 2)
  <2>1. Is(key_load_public.steps[2], "eckey", FALSE, "", "cleanup", FALSE, "", {}, {})
    BY MakeIs DEF key_load_public, Routine
  <2>2. StepFacts("key_load_public", key_load_public.steps[2], {}, {"eckey"})
    BY <1>1, <1>2, <2>1, RoutineNames
       DEF StepFacts, Objective, Lossy, Answered, Is, GoesOn, Tests, Loose, KnownLosses,
           SessionLoses, OwnKey, Tolerated, OfMsg01, OfMsg3,
           HiddenInMsg01, HiddenInMsg3, HandlersOfMsg3
  <2> QED  BY <1>1, <1>3, <2>2 DEF HoldsAt
<1>6. HoldsAt("key_load_public", 3)
  <2>1. Is(key_load_public.steps[3], "gx", FALSE, "", "cleanup", FALSE, "", {}, {})
    BY MakeIs DEF key_load_public, Routine
  <2>2. StepFacts("key_load_public", key_load_public.steps[3], {"eckey"}, {"eckey", "gx"})
    BY <1>1, <1>2, <2>1, RoutineNames
       DEF StepFacts, Objective, Lossy, Answered, Is, GoesOn, Tests, Loose, KnownLosses,
           SessionLoses, OwnKey, Tolerated, OfMsg01, OfMsg3,
           HiddenInMsg01, HiddenInMsg3, HandlersOfMsg3
  <2> QED  BY <1>1, <1>3, <2>2 DEF HoldsAt
<1>7. HoldsAt("key_load_public", 4)
  <2>1. Is(key_load_public.steps[4], "gy", FALSE, "", "cleanup", FALSE, "", {}, {})
    BY MakeIs DEF key_load_public, Routine
  <2>2. StepFacts("key_load_public", key_load_public.steps[4], {"eckey", "gx"}, {"eckey", "gx", "gy"})
    BY <1>1, <1>2, <2>1, RoutineNames
       DEF StepFacts, Objective, Lossy, Answered, Is, GoesOn, Tests, Loose, KnownLosses,
           SessionLoses, OwnKey, Tolerated, OfMsg01, OfMsg3,
           HiddenInMsg01, HiddenInMsg3, HandlersOfMsg3
  <2> QED  BY <1>1, <1>3, <2>2 DEF HoldsAt
<1>8. HoldsAt("key_load_public", 5)
  <2>1. Is(key_load_public.steps[5], "", FALSE, "", "cleanup", FALSE, "", {}, {})
    BY CallIs DEF key_load_public, Routine
  <2>2. StepFacts("key_load_public", key_load_public.steps[5], {"eckey", "gx", "gy"}, {"eckey", "gx", "gy"})
    BY <1>1, <1>2, <2>1, RoutineNames
       DEF StepFacts, Objective, Lossy, Answered, Is, GoesOn, Tests, Loose, KnownLosses,
           SessionLoses, OwnKey, Tolerated, OfMsg01, OfMsg3,
           HiddenInMsg01, HiddenInMsg3, HandlersOfMsg3
  <2> QED  BY <1>1, <1>3, <2>2 DEF HoldsAt
<1>9. HoldsAt("key_load_public", 6)
  <2>1. Is(key_load_public.steps[6], "pkey", FALSE, "", "cleanup", FALSE, "", {}, {})
    BY MakeIs DEF key_load_public, Routine
  <2>2. StepFacts("key_load_public", key_load_public.steps[6], {"eckey", "gx", "gy"}, {"eckey", "gx", "gy", "pkey"})
    BY <1>1, <1>2, <2>1, RoutineNames
       DEF StepFacts, Objective, Lossy, Answered, Is, GoesOn, Tests, Loose, KnownLosses,
           SessionLoses, OwnKey, Tolerated, OfMsg01, OfMsg3,
           HiddenInMsg01, HiddenInMsg3, HandlersOfMsg3
  <2> QED  BY <1>1, <1>3, <2>2 DEF HoldsAt
<1>10. HoldsAt("key_load_public", 7)
  <2>1. Is(key_load_public.steps[7], "", FALSE, "", "cleanup", FALSE, "pkey", {}, {})
    BY CallIs, DropIs DEF key_load_public, Routine
  <2>2. StepFacts("key_load_public", key_load_public.steps[7], {"eckey", "gx", "gy", "pkey"}, {"eckey", "gx", "gy", "pkey"})
    BY <1>1, <1>2, <2>1, RoutineNames
       DEF StepFacts, Objective, Lossy, Answered, Is, GoesOn, Tests, Loose, KnownLosses,
           SessionLoses, OwnKey, Tolerated, OfMsg01, OfMsg3,
           HiddenInMsg01, HiddenInMsg3, HandlersOfMsg3
  <2> QED  BY <1>1, <1>3, <2>2 DEF HoldsAt
<1>11. \A n \in 1 .. 7 : HoldsAt("key_load_public", n)
  BY <1>4, <1>5, <1>6, <1>7, <1>8, <1>9, <1>10
<1>12. EndFacts("key_load_public", {"eckey", "gx", "gy", "pkey"})
  BY <1>1, <1>2 DEF EndFacts, KnownLosses, SessionLoses, OwnKey
<1>13. \A n \in 1 .. 8 : Owned["key_load_public"][n] \subseteq Objects
  BY <1>1, <1>3 DEF Objects
<1> QED  BY <1>1, <1>2, <1>3, <1>11, <1>12, <1>13 DEF Facts

LEMMA Facts_key_load_file == Facts("key_load_file")
<1>1. Code["key_load_file"] = key_load_file /\ "key_load_file" \in Routines
  BY RoutineNames DEF Code
<1>2. /\ Len(key_load_file.steps) = 4 /\ key_load_file.cleanup = {}
      /\ key_load_file.gives = {"key"} /\ key_load_file.by = "error"
  BY DEF key_load_file, Routine
<1>3. Owned["key_load_file"] = <<{}, {"key"}, {"fp", "key"}, {"fp", "key"}, {"key"}>>
  BY DEF Owned
<1>4. HoldsAt("key_load_file", 1)
  <2>1. Is(key_load_file.steps[1], "key", FALSE, "", "spare", FALSE, "", {}, {})
    BY MakeIs, SpareIs DEF key_load_file, Routine
  <2>2. StepFacts("key_load_file", key_load_file.steps[1], {}, {"key"})
    BY <1>1, <1>2, <2>1, RoutineNames
       DEF StepFacts, Objective, Lossy, Answered, Is, GoesOn, Tests, Loose, KnownLosses,
           SessionLoses, OwnKey, Tolerated, OfMsg01, OfMsg3,
           HiddenInMsg01, HiddenInMsg3, HandlersOfMsg3
  <2> QED  BY <1>1, <1>3, <2>2 DEF HoldsAt
<1>5. HoldsAt("key_load_file", 2)
  <2>1. Is(key_load_file.steps[2], "fp", FALSE, "", "return", FALSE, "", {}, {})
    BY MakeIs, ReturnIs DEF key_load_file, Routine
  <2>2. StepFacts("key_load_file", key_load_file.steps[2], {"key"}, {"fp", "key"})
    BY <1>1, <1>2, <2>1, RoutineNames
       DEF StepFacts, Objective, Lossy, Answered, Is, GoesOn, Tests, Loose, KnownLosses,
           SessionLoses, OwnKey, Tolerated, OfMsg01, OfMsg3,
           HiddenInMsg01, HiddenInMsg3, HandlersOfMsg3
  <2> QED  BY <1>1, <1>3, <2>2 DEF HoldsAt
<1>6. HoldsAt("key_load_file", 3)
  <2>1. Is(key_load_file.steps[3], "key", FALSE, "", "unchecked", FALSE, "", {}, {})
    BY MakeIs, UncheckedIs DEF key_load_file, Routine
  <2>2. StepFacts("key_load_file", key_load_file.steps[3], {"fp", "key"}, {"fp", "key"})
    BY <1>1, <1>2, <2>1, RoutineNames
       DEF StepFacts, Objective, Lossy, Answered, Is, GoesOn, Tests, Loose, KnownLosses,
           SessionLoses, OwnKey, Tolerated, OfMsg01, OfMsg3,
           HiddenInMsg01, HiddenInMsg3, HandlersOfMsg3
  <2> QED  BY <1>1, <1>3, <2>2 DEF HoldsAt
<1>7. HoldsAt("key_load_file", 4)
  <2>1. Is(key_load_file.steps[4], "fp", TRUE, "", "cleanup", FALSE, "", {}, {})
    BY FreeIs DEF key_load_file, Routine
  <2>2. StepFacts("key_load_file", key_load_file.steps[4], {"fp", "key"}, {"key"})
    BY <1>1, <1>2, <2>1, RoutineNames
       DEF StepFacts, Objective, Lossy, Answered, Is, GoesOn, Tests, Loose, KnownLosses,
           SessionLoses, OwnKey, Tolerated, OfMsg01, OfMsg3,
           HiddenInMsg01, HiddenInMsg3, HandlersOfMsg3
  <2> QED  BY <1>1, <1>3, <2>2 DEF HoldsAt
<1>8. \A n \in 1 .. 4 : HoldsAt("key_load_file", n)
  BY <1>4, <1>5, <1>6, <1>7
<1>9. EndFacts("key_load_file", {"key"})
  BY <1>1, <1>2 DEF EndFacts, KnownLosses, SessionLoses, OwnKey
<1>10. \A n \in 1 .. 5 : Owned["key_load_file"][n] \subseteq Objects
  BY <1>1, <1>3 DEF Objects
<1> QED  BY <1>1, <1>2, <1>3, <1>8, <1>9, <1>10 DEF Facts

LEMMA Facts_key_to_sgx_ec256 == Facts("key_to_sgx_ec256")
<1>1. Code["key_to_sgx_ec256"] = key_to_sgx_ec256 /\ "key_to_sgx_ec256" \in Routines
  BY RoutineNames DEF Code
<1>2. /\ Len(key_to_sgx_ec256.steps) = 7 /\ key_to_sgx_ec256.cleanup = {"ecgroup", "gx", "gy"}
      /\ key_to_sgx_ec256.gives = {} /\ key_to_sgx_ec256.by = "error"
  BY DEF key_to_sgx_ec256, Routine
<1>3. Owned["key_to_sgx_ec256"] = <<{}, {"eckey"}, {"ecgroup", "eckey"},
     {"ecgroup", "eckey", "gx"}, {"ecgroup", "eckey", "gx", "gy"},
     {"ecgroup", "eckey", "gx", "gy"}, {"ecgroup", "eckey", "gx", "gy"},
     {"ecgroup", "eckey", "gx", "gy"}>>
  BY DEF Owned
<1>4. HoldsAt("key_to_sgx_ec256", 1)
  <2>1. Is(key_to_sgx_ec256.steps[1], "eckey", FALSE, "", "cleanup", FALSE, "", {}, {})
    BY MakeIs DEF key_to_sgx_ec256, Routine
  <2>2. StepFacts("key_to_sgx_ec256", key_to_sgx_ec256.steps[1], {}, {"eckey"})
    BY <1>1, <1>2, <2>1, RoutineNames
       DEF StepFacts, Objective, Lossy, Answered, Is, GoesOn, Tests, Loose, KnownLosses,
           SessionLoses, OwnKey, Tolerated, OfMsg01, OfMsg3,
           HiddenInMsg01, HiddenInMsg3, HandlersOfMsg3
  <2> QED  BY <1>1, <1>3, <2>2 DEF HoldsAt
<1>5. HoldsAt("key_to_sgx_ec256", 2)
  <2>1. Is(key_to_sgx_ec256.steps[2], "ecgroup", FALSE, "", "cleanup", FALSE, "", {}, {})
    BY MakeIs DEF key_to_sgx_ec256, Routine
  <2>2. StepFacts("key_to_sgx_ec256", key_to_sgx_ec256.steps[2], {"eckey"}, {"ecgroup", "eckey"})
    BY <1>1, <1>2, <2>1, RoutineNames
       DEF StepFacts, Objective, Lossy, Answered, Is, GoesOn, Tests, Loose, KnownLosses,
           SessionLoses, OwnKey, Tolerated, OfMsg01, OfMsg3,
           HiddenInMsg01, HiddenInMsg3, HandlersOfMsg3
  <2> QED  BY <1>1, <1>3, <2>2 DEF HoldsAt
<1>6. HoldsAt("key_to_sgx_ec256", 3)
  <2>1. Is(key_to_sgx_ec256.steps[3], "gx", FALSE, "", "cleanup", FALSE, "", {}, {})
    BY MakeIs DEF key_to_sgx_ec256, Routine
  <2>2. StepFacts("key_to_sgx_ec256", key_to_sgx_ec256.steps[3], {"ecgroup", "eckey"}, {"ecgroup", "eckey", "gx"})
    BY <1>1, <1>2, <2>1, RoutineNames
       DEF StepFacts, Objective, Lossy, Answered, Is, GoesOn, Tests, Loose, KnownLosses,
           SessionLoses, OwnKey, Tolerated, OfMsg01, OfMsg3,
           HiddenInMsg01, HiddenInMsg3, HandlersOfMsg3
  <2> QED  BY <1>1, <1>3, <2>2 DEF HoldsAt
<1>7. HoldsAt("key_to_sgx_ec256", 4)
  <2>1. Is(key_to_sgx_ec256.steps[4], "gy", FALSE, "", "cleanup", FALSE, "", {}, {})
    BY MakeIs DEF key_to_sgx_ec256, Routine
  <2>2. StepFacts("key_to_sgx_ec256", key_to_sgx_ec256.steps[4], {"ecgroup", "eckey", "gx"}, {"ecgroup", "eckey", "gx", "gy"})
    BY <1>1, <1>2, <2>1, RoutineNames
       DEF StepFacts, Objective, Lossy, Answered, Is, GoesOn, Tests, Loose, KnownLosses,
           SessionLoses, OwnKey, Tolerated, OfMsg01, OfMsg3,
           HiddenInMsg01, HiddenInMsg3, HandlersOfMsg3
  <2> QED  BY <1>1, <1>3, <2>2 DEF HoldsAt
<1>8. HoldsAt("key_to_sgx_ec256", 5)
  <2>1. Is(key_to_sgx_ec256.steps[5], "", FALSE, "", "cleanup", FALSE, "", {}, {})
    BY CallIs DEF key_to_sgx_ec256, Routine
  <2>2. StepFacts("key_to_sgx_ec256", key_to_sgx_ec256.steps[5], {"ecgroup", "eckey", "gx", "gy"}, {"ecgroup", "eckey", "gx", "gy"})
    BY <1>1, <1>2, <2>1, RoutineNames
       DEF StepFacts, Objective, Lossy, Answered, Is, GoesOn, Tests, Loose, KnownLosses,
           SessionLoses, OwnKey, Tolerated, OfMsg01, OfMsg3,
           HiddenInMsg01, HiddenInMsg3, HandlersOfMsg3
  <2> QED  BY <1>1, <1>3, <2>2 DEF HoldsAt
<1>9. HoldsAt("key_to_sgx_ec256", 6)
  <2>1. Is(key_to_sgx_ec256.steps[6], "", FALSE, "", "blind", TRUE, "", {}, {})
    BY CallIs, OnlyIs DEF key_to_sgx_ec256, Routine
  <2>2. StepFacts("key_to_sgx_ec256", key_to_sgx_ec256.steps[6], {"ecgroup", "eckey", "gx", "gy"}, {"ecgroup", "eckey", "gx", "gy"})
    BY <1>1, <1>2, <2>1, RoutineNames
       DEF StepFacts, Objective, Lossy, Answered, Is, GoesOn, Tests, Loose, KnownLosses,
           SessionLoses, OwnKey, Tolerated, OfMsg01, OfMsg3,
           HiddenInMsg01, HiddenInMsg3, HandlersOfMsg3
  <2> QED  BY <1>1, <1>3, <2>2 DEF HoldsAt
<1>10. HoldsAt("key_to_sgx_ec256", 7)
  <2>1. Is(key_to_sgx_ec256.steps[7], "", FALSE, "", "blind", TRUE, "", {}, {})
    BY CallIs, OnlyIs DEF key_to_sgx_ec256, Routine
  <2>2. StepFacts("key_to_sgx_ec256", key_to_sgx_ec256.steps[7], {"ecgroup", "eckey", "gx", "gy"}, {"ecgroup", "eckey", "gx", "gy"})
    BY <1>1, <1>2, <2>1, RoutineNames
       DEF StepFacts, Objective, Lossy, Answered, Is, GoesOn, Tests, Loose, KnownLosses,
           SessionLoses, OwnKey, Tolerated, OfMsg01, OfMsg3,
           HiddenInMsg01, HiddenInMsg3, HandlersOfMsg3
  <2> QED  BY <1>1, <1>3, <2>2 DEF HoldsAt
<1>11. \A n \in 1 .. 7 : HoldsAt("key_to_sgx_ec256", n)
  BY <1>4, <1>5, <1>6, <1>7, <1>8, <1>9, <1>10
<1>12. EndFacts("key_to_sgx_ec256", {"ecgroup", "eckey", "gx", "gy"})
  BY <1>1, <1>2 DEF EndFacts, KnownLosses, SessionLoses, OwnKey
<1>13. \A n \in 1 .. 8 : Owned["key_to_sgx_ec256"][n] \subseteq Objects
  BY <1>1, <1>3 DEF Objects
<1> QED  BY <1>1, <1>2, <1>3, <1>11, <1>12, <1>13 DEF Facts

LEMMA Facts_key_private_from_bytes == Facts("key_private_from_bytes")
<1>1. Code["key_private_from_bytes"] = key_private_from_bytes /\ "key_private_from_bytes" \in Routines
  BY RoutineNames DEF Code
<1>2. /\ Len(key_private_from_bytes.steps) = 5 /\ key_private_from_bytes.cleanup = {"key", "prv"}
      /\ key_private_from_bytes.gives = {"pkey"} /\ key_private_from_bytes.by = "pointer"
  BY DEF key_private_from_bytes, Routine
<1>3. Owned["key_private_from_bytes"] = <<{}, {"key"}, {"key", "prv"}, {"key", "prv"},
     {"key", "pkey", "prv"}, {"key", "pkey", "prv"}>>
  BY DEF Owned
<1>4. HoldsAt("key_private_from_bytes", 1)
  <2>1. Is(key_private_from_bytes.steps[1], "key", FALSE, "", "cleanup", FALSE, "", {}, {})
    BY MakeIs DEF key_private_from_bytes, Routine
  <2>2. StepFacts("key_private_from_bytes", key_private_from_bytes.steps[1], {}, {"key"})
    BY <1>1, <1>2, <2>1, RoutineNames
       DEF StepFacts, Objective, Lossy, Answered, Is, GoesOn, Tests, Loose, KnownLosses,
           SessionLoses, OwnKey, Tolerated, OfMsg01, OfMsg3,
           HiddenInMsg01, HiddenInMsg3, HandlersOfMsg3
  <2> QED  BY <1>1, <1>3, <2>2 DEF HoldsAt
<1>5. HoldsAt("key_private_from_bytes", 2)
  <2>1. Is(key_private_from_bytes.steps[2], "prv", FALSE, "", "cleanup", FALSE, "", {}, {})
    BY MakeIs DEF key_private_from_bytes, Routine
  <2>2. StepFacts("key_private_from_bytes", key_private_from_bytes.steps[2], {"key"}, {"key", "prv"})
    BY <1>1, <1>2, <2>1, RoutineNames
       DEF StepFacts, Objective, Lossy, Answered, Is, GoesOn, Tests, Loose, KnownLosses,
           SessionLoses, OwnKey, Tolerated, OfMsg01, OfMsg3,
           HiddenInMsg01, HiddenInMsg3, HandlersOfMsg3
  <2> QED  BY <1>1, <1>3, <2>2 DEF HoldsAt
<1>6. HoldsAt("key_private_from_bytes", 3)
  <2>1. Is(key_private_from_bytes.steps[3], "", FALSE, "", "cleanup", FALSE, "", {}, {})
    BY CallIs DEF key_private_from_bytes, Routine
  <2>2. StepFacts("key_private_from_bytes", key_private_from_bytes.steps[3], {"key", "prv"}, {"key", "prv"})
    BY <1>1, <1>2, <2>1, RoutineNames
       DEF StepFacts, Objective, Lossy, Answered, Is, GoesOn, Tests, Loose, KnownLosses,
           SessionLoses, OwnKey, Tolerated, OfMsg01, OfMsg3,
           HiddenInMsg01, HiddenInMsg3, HandlersOfMsg3
  <2> QED  BY <1>1, <1>3, <2>2 DEF HoldsAt
<1>7. HoldsAt("key_private_from_bytes", 4)
  <2>1. Is(key_private_from_bytes.steps[4], "pkey", FALSE, "", "cleanup", FALSE, "", {}, {})
    BY MakeIs DEF key_private_from_bytes, Routine
  <2>2. StepFacts("key_private_from_bytes", key_private_from_bytes.steps[4], {"key", "prv"}, {"key", "pkey", "prv"})
    BY <1>1, <1>2, <2>1, RoutineNames
       DEF StepFacts, Objective, Lossy, Answered, Is, GoesOn, Tests, Loose, KnownLosses,
           SessionLoses, OwnKey, Tolerated, OfMsg01, OfMsg3,
           HiddenInMsg01, HiddenInMsg3, HandlersOfMsg3
  <2> QED  BY <1>1, <1>3, <2>2 DEF HoldsAt
<1>8. HoldsAt("key_private_from_bytes", 5)
  <2>1. Range(<<"pkey">>) = {"pkey"} /\ Repeated(<<"pkey">>) = {}
    BY SmallSequences
  <2>2. Is(key_private_from_bytes.steps[5], "", FALSE, "", "cleanup", FALSE, "", {"pkey"}, {})
    BY <2>1, CallIs, ElseIs DEF key_private_from_bytes, Routine
  <2>3. StepFacts("key_private_from_bytes", key_private_from_bytes.steps[5], {"key", "pkey", "prv"}, {"key", "pkey", "prv"})
    BY <1>1, <1>2, <2>2, RoutineNames
       DEF StepFacts, Objective, Lossy, Answered, Is, GoesOn, Tests, Loose, KnownLosses,
           SessionLoses, OwnKey, Tolerated, OfMsg01, OfMsg3,
           HiddenInMsg01, HiddenInMsg3, HandlersOfMsg3
  <2> QED  BY <1>1, <1>3, <2>3 DEF HoldsAt
<1>9. \A n \in 1 .. 5 : HoldsAt("key_private_from_bytes", n)
  BY <1>4, <1>5, <1>6, <1>7, <1>8
<1>10. EndFacts("key_private_from_bytes", {"key", "pkey", "prv"})
  BY <1>1, <1>2 DEF EndFacts, KnownLosses, SessionLoses, OwnKey
<1>11. \A n \in 1 .. 6 : Owned["key_private_from_bytes"][n] \subseteq Objects
  BY <1>1, <1>3 DEF Objects
<1> QED  BY <1>1, <1>2, <1>3, <1>9, <1>10, <1>11 DEF Facts

LEMMA Facts_key_from_sgx_ec256 == Facts("key_from_sgx_ec256")
<1>1. Code["key_from_sgx_ec256"] = key_from_sgx_ec256 /\ "key_from_sgx_ec256" \in Routines
  BY RoutineNames DEF Code
<1>2. /\ Len(key_from_sgx_ec256.steps) = 6 /\ key_from_sgx_ec256.cleanup = {"gx", "gy"}
      /\ key_from_sgx_ec256.gives = {"pkey"} /\ key_from_sgx_ec256.by = "pointer"
  BY DEF key_from_sgx_ec256, Routine
<1>3. Owned["key_from_sgx_ec256"] = <<{}, {"gx"}, {"gx", "gy"}, {"gx", "gy", "key"},
     {"gx", "gy", "key"}, {"gx", "gy", "key", "pkey"}, {"gx", "gy", "key", "pkey"}>>
  BY DEF Owned
<1>4. HoldsAt("key_from_sgx_ec256", 1)
  <2>1. Is(key_from_sgx_ec256.steps[1], "gx", FALSE, "", "cleanup", FALSE, "", {}, {})
    BY MakeIs DEF key_from_sgx_ec256, Routine
  <2>2. StepFacts("key_from_sgx_ec256", key_from_sgx_ec256.steps[1], {}, {"gx"})
    BY <1>1, <1>2, <2>1, RoutineNames
       DEF StepFacts, Objective, Lossy, Answered, Is, GoesOn, Tests, Loose, KnownLosses,
           SessionLoses, OwnKey, Tolerated, OfMsg01, OfMsg3,
           HiddenInMsg01, HiddenInMsg3, HandlersOfMsg3
  <2> QED  BY <1>1, <1>3, <2>2 DEF HoldsAt
<1>5. HoldsAt("key_from_sgx_ec256", 2)
  <2>1. Is(key_from_sgx_ec256.steps[2], "gy", FALSE, "", "cleanup", FALSE, "", {}, {})
    BY MakeIs DEF key_from_sgx_ec256, Routine
  <2>2. StepFacts("key_from_sgx_ec256", key_from_sgx_ec256.steps[2], {"gx"}, {"gx", "gy"})
    BY <1>1, <1>2, <2>1, RoutineNames
       DEF StepFacts, Objective, Lossy, Answered, Is, GoesOn, Tests, Loose, KnownLosses,
           SessionLoses, OwnKey, Tolerated, OfMsg01, OfMsg3,
           HiddenInMsg01, HiddenInMsg3, HandlersOfMsg3
  <2> QED  BY <1>1, <1>3, <2>2 DEF HoldsAt
<1>6. HoldsAt("key_from_sgx_ec256", 3)
  <2>1. Is(key_from_sgx_ec256.steps[3], "key", FALSE, "", "cleanup", FALSE, "", {}, {})
    BY MakeIs DEF key_from_sgx_ec256, Routine
  <2>2. StepFacts("key_from_sgx_ec256", key_from_sgx_ec256.steps[3], {"gx", "gy"}, {"gx", "gy", "key"})
    BY <1>1, <1>2, <2>1, RoutineNames
       DEF StepFacts, Objective, Lossy, Answered, Is, GoesOn, Tests, Loose, KnownLosses,
           SessionLoses, OwnKey, Tolerated, OfMsg01, OfMsg3,
           HiddenInMsg01, HiddenInMsg3, HandlersOfMsg3
  <2> QED  BY <1>1, <1>3, <2>2 DEF HoldsAt
<1>7. HoldsAt("key_from_sgx_ec256", 4)
  <2>1. Range(<<"key">>) = {"key"} /\ Repeated(<<"key">>) = {}
    BY SmallSequences
  <2>2. Is(key_from_sgx_ec256.steps[4], "", FALSE, "", "cleanup", FALSE, "", {"key"}, {})
    BY <2>1, CallIs, ElseIs DEF key_from_sgx_ec256, Routine
  <2>3. StepFacts("key_from_sgx_ec256", key_from_sgx_ec256.steps[4], {"gx", "gy", "key"}, {"gx", "gy", "key"})
    BY <1>1, <1>2, <2>2, RoutineNames
       DEF StepFacts, Objective, Lossy, Answered, Is, GoesOn, Tests, Loose, KnownLosses,
           SessionLoses, OwnKey, Tolerated, OfMsg01, OfMsg3,
           HiddenInMsg01, HiddenInMsg3, HandlersOfMsg3
  <2> QED  BY <1>1, <1>3, <2>3 DEF HoldsAt
<1>8. HoldsAt("key_from_sgx_ec256", 5)
  <2>1. Is(key_from_sgx_ec256.steps[5], "pkey", FALSE, "", "cleanup", FALSE, "", {}, {})
    BY MakeIs DEF key_from_sgx_ec256, Routine
  <2>2. StepFacts("key_from_sgx_ec256", key_from_sgx_ec256.steps[5], {"gx", "gy", "key"}, {"gx", "gy", "key", "pkey"})
    BY <1>1, <1>2, <2>1, RoutineNames
       DEF StepFacts, Objective, Lossy, Answered, Is, GoesOn, Tests, Loose, KnownLosses,
           SessionLoses, OwnKey, Tolerated, OfMsg01, OfMsg3,
           HiddenInMsg01, HiddenInMsg3, HandlersOfMsg3
  <2> QED  BY <1>1, <1>3, <2>2 DEF HoldsAt
<1>9. HoldsAt("key_from_sgx_ec256", 6)
  <2>1. Range(<<"pkey">>) = {"pkey"} /\ Repeated(<<"pkey">>) = {}
    BY SmallSequences
  <2>2. Is(key_from_sgx_ec256.steps[6], "", FALSE, "", "cleanup", FALSE, "", {"pkey"}, {})
    BY <2>1, CallIs, ElseIs DEF key_from_sgx_ec256, Routine
  <2>3. StepFacts("key_from_sgx_ec256", key_from_sgx_ec256.steps[6], {"gx", "gy", "key", "pkey"}, {"gx", "gy", "key", "pkey"})
    BY <1>1, <1>2, <2>2, RoutineNames
       DEF StepFacts, Objective, Lossy, Answered, Is, GoesOn, Tests, Loose, KnownLosses,
           SessionLoses, OwnKey, Tolerated, OfMsg01, OfMsg3,
           HiddenInMsg01, HiddenInMsg3, HandlersOfMsg3
  <2> QED  BY <1>1, <1>3, <2>3 DEF HoldsAt
<1>10. \A n \in 1 .. 6 : HoldsAt("key_from_sgx_ec256", n)
  BY <1>4, <1>5, <1>6, <1>7, <1>8, <1>9
<1>11. EndFacts("key_from_sgx_ec256", {"gx", "gy", "key", "pkey"})
  BY <1>1, <1>2 DEF EndFacts, KnownLosses, SessionLoses, OwnKey
<1>12. \A n \in 1 .. 7 : Owned["key_from_sgx_ec256"][n] \subseteq Objects
  BY <1>1, <1>3 DEF Objects
<1> QED  BY <1>1, <1>2, <1>3, <1>10, <1>11, <1>12 DEF Facts

LEMMA Facts_key_generate == Facts("key_generate")
<1>1. Code["key_generate"] = key_generate /\ "key_generate" \in Routines
  BY RoutineNames DEF Code
<1>2. /\ Len(key_generate.steps) = 7 /\ key_generate.cleanup = {"kctx", "params", "pctx"}
      /\ key_generate.gives = {"key"} /\ key_generate.by = "pointer"
  BY DEF key_generate, Routine
<1>3. Owned["key_generate"] = <<{}, {"pctx"}, {"pctx"}, {"pctx"}, {"params", "pctx"},
     {"kctx", "params", "pctx"}, {"kctx", "params", "pctx"}, {"kctx", "key", "params", "pctx"}>>
  BY DEF Owned
<1>4. HoldsAt("key_generate", 1)
  <2>1. Is(key_generate.steps[1], "pctx", FALSE, "", "cleanup", FALSE, "", {}, {})
    BY MakeIs DEF key_generate, Routine
  <2>2. StepFacts("key_generate", key_generate.steps[1], {}, {"pctx"})
    BY <1>1, <1>2, <2>1, RoutineNames
       DEF StepFacts, Objective, Lossy, Answered, Is, GoesOn, Tests, Loose, KnownLosses,
           SessionLoses, OwnKey, Tolerated, OfMsg01, OfMsg3,
           HiddenInMsg01, HiddenInMsg3, HandlersOfMsg3
  <2> QED  BY <1>1, <1>3, <2>2 DEF HoldsAt
<1>5. HoldsAt("key_generate", 2)
  <2>1. Is(key_generate.steps[2], "", FALSE, "", "cleanup", TRUE, "", {}, {})
    BY CallIs, NegativeIs DEF key_generate, Routine
  <2>2. StepFacts("key_generate", key_generate.steps[2], {"pctx"}, {"pctx"})
    BY <1>1, <1>2, <2>1, RoutineNames
       DEF StepFacts, Objective, Lossy, Answered, Is, GoesOn, Tests, Loose, KnownLosses,
           SessionLoses, OwnKey, Tolerated, OfMsg01, OfMsg3,
           HiddenInMsg01, HiddenInMsg3, HandlersOfMsg3
  <2> QED  BY <1>1, <1>3, <2>2 DEF HoldsAt
<1>6. HoldsAt("key_generate", 3)
  <2>1. Is(key_generate.steps[3], "", FALSE, "", "cleanup", TRUE, "", {}, {})
    BY CallIs, NegativeIs DEF key_generate, Routine
  <2>2. StepFacts("key_generate", key_generate.steps[3], {"pctx"}, {"pctx"})
    BY <1>1, <1>2, <2>1, RoutineNames
       DEF StepFacts, Objective, Lossy, Answered, Is, GoesOn, Tests, Loose, KnownLosses,
           SessionLoses, OwnKey, Tolerated, OfMsg01, OfMsg3,
           HiddenInMsg01, HiddenInMsg3, HandlersOfMsg3
  <2> QED  BY <1>1, <1>3, <2>2 DEF HoldsAt
<1>7. HoldsAt("key_generate", 4)
  <2>1. Is(key_generate.steps[4], "params", FALSE, "", "cleanup", TRUE, "", {}, {})
    BY MakeIs, NegativeIs DEF key_generate, Routine
  <2>2. StepFacts("key_generate", key_generate.steps[4], {"pctx"}, {"params", "pctx"})
    BY <1>1, <1>2, <2>1, RoutineNames
       DEF StepFacts, Objective, Lossy, Answered, Is, GoesOn, Tests, Loose, KnownLosses,
           SessionLoses, OwnKey, Tolerated, OfMsg01, OfMsg3,
           HiddenInMsg01, HiddenInMsg3, HandlersOfMsg3
  <2> QED  BY <1>1, <1>3, <2>2 DEF HoldsAt
<1>8. HoldsAt("key_generate", 5)
  <2>1. Is(key_generate.steps[5], "kctx", FALSE, "", "cleanup", FALSE, "", {}, {})
    BY MakeIs DEF key_generate, Routine
  <2>2. StepFacts("key_generate", key_generate.steps[5], {"params", "pctx"}, {"kctx", "params", "pctx"})
    BY <1>1, <1>2, <2>1, RoutineNames
       DEF StepFacts, Objective, Lossy, Answered, Is, GoesOn, Tests, Loose, KnownLosses,
           SessionLoses, OwnKey, Tolerated, OfMsg01, OfMsg3,
           HiddenInMsg01, HiddenInMsg3, HandlersOfMsg3
  <2> QED  BY <1>1, <1>3, <2>2 DEF HoldsAt
<1>9. HoldsAt("key_generate", 6)
  <2>1. Is(key_generate.steps[6], "", FALSE, "", "cleanup", TRUE, "", {}, {})
    BY CallIs, NegativeIs DEF key_generate, Routine
  <2>2. StepFacts("key_generate", key_generate.steps[6], {"kctx", "params", "pctx"}, {"kctx", "params", "pctx"})
    BY <1>1, <1>2, <2>1, RoutineNames
       DEF StepFacts, Objective, Lossy, Answered, Is, GoesOn, Tests, Loose, KnownLosses,
           SessionLoses, OwnKey, Tolerated, OfMsg01, OfMsg3,
           HiddenInMsg01, HiddenInMsg3, HandlersOfMsg3
  <2> QED  BY <1>1, <1>3, <2>2 DEF HoldsAt
<1>10. HoldsAt("key_generate", 7)
  <2>1. Is(key_generate.steps[7], "key", FALSE, "", "cleanup", TRUE, "", {}, {})
    BY MakeIs, NegativeIs DEF key_generate, Routine
  <2>2. StepFacts("key_generate", key_generate.steps[7], {"kctx", "params", "pctx"}, {"kctx", "key", "params", "pctx"})
    BY <1>1, <1>2, <2>1, RoutineNames
       DEF StepFacts, Objective, Lossy, Answered, Is, GoesOn, Tests, Loose, KnownLosses,
           SessionLoses, OwnKey, Tolerated, OfMsg01, OfMsg3,
           HiddenInMsg01, HiddenInMsg3, HandlersOfMsg3
  <2> QED  BY <1>1, <1>3, <2>2 DEF HoldsAt
<1>11. \A n \in 1 .. 7 : HoldsAt("key_generate", n)
  BY <1>4, <1>5, <1>6, <1>7, <1>8, <1>9, <1>10
<1>12. EndFacts("key_generate", {"kctx", "key", "params", "pctx"})
  BY <1>1, <1>2 DEF EndFacts, KnownLosses, SessionLoses, OwnKey
<1>13. \A n \in 1 .. 8 : Owned["key_generate"][n] \subseteq Objects
  BY <1>1, <1>3 DEF Objects
<1> QED  BY <1>1, <1>2, <1>3, <1>11, <1>12, <1>13 DEF Facts

LEMMA Facts_key_shared_secret == Facts("key_shared_secret")
<1>1. Code["key_shared_secret"] = key_shared_secret /\ "key_shared_secret" \in Routines
  BY RoutineNames DEF Code
<1>2. /\ Len(key_shared_secret.steps) = 6 /\ key_shared_secret.cleanup = {"sctx"}
      /\ key_shared_secret.gives = {"secret"} /\ key_shared_secret.by = "pointer"
  BY DEF key_shared_secret, Routine
<1>3. Owned["key_shared_secret"] = <<{}, {"sctx"}, {"sctx"}, {"sctx"}, {"sctx"},
     {"sctx", "secret"}, {"sctx", "secret"}>>
  BY DEF Owned
<1>4. HoldsAt("key_shared_secret", 1)
  <2>1. Is(key_shared_secret.steps[1], "sctx", FALSE, "", "cleanup", FALSE, "", {}, {})
    BY MakeIs DEF key_shared_secret, Routine
  <2>2. StepFacts("key_shared_secret", key_shared_secret.steps[1], {}, {"sctx"})
    BY <1>1, <1>2, <2>1, RoutineNames
       DEF StepFacts, Objective, Lossy, Answered, Is, GoesOn, Tests, Loose, KnownLosses,
           SessionLoses, OwnKey, Tolerated, OfMsg01, OfMsg3,
           HiddenInMsg01, HiddenInMsg3, HandlersOfMsg3
  <2> QED  BY <1>1, <1>3, <2>2 DEF HoldsAt
<1>5. HoldsAt("key_shared_secret", 2)
  <2>1. Is(key_shared_secret.steps[2], "", FALSE, "", "cleanup", TRUE, "", {}, {})
    BY CallIs, NegativeIs DEF key_shared_secret, Routine
  <2>2. StepFacts("key_shared_secret", key_shared_secret.steps[2], {"sctx"}, {"sctx"})
    BY <1>1, <1>2, <2>1, RoutineNames
       DEF StepFacts, Objective, Lossy, Answered, Is, GoesOn, Tests, Loose, KnownLosses,
           SessionLoses, OwnKey, Tolerated, OfMsg01, OfMsg3,
           HiddenInMsg01, HiddenInMsg3, HandlersOfMsg3
  <2> QED  BY <1>1, <1>3, <2>2 DEF HoldsAt
<1>6. HoldsAt("key_shared_secret", 3)
  <2>1. Is(key_shared_secret.steps[3], "", FALSE, "", "cleanup", TRUE, "", {}, {})
    BY CallIs, NegativeIs DEF key_shared_secret, Routine
  <2>2. StepFacts("key_shared_secret", key_shared_secret.steps[3], {"sctx"}, {"sctx"})
    BY <1>1, <1>2, <2>1, RoutineNames
       DEF StepFacts, Objective, Lossy, Answered, Is, GoesOn, Tests, Loose, KnownLosses,
           SessionLoses, OwnKey, Tolerated, OfMsg01, OfMsg3,
           HiddenInMsg01, HiddenInMsg3, HandlersOfMsg3
  <2> QED  BY <1>1, <1>3, <2>2 DEF HoldsAt
<1>7. HoldsAt("key_shared_secret", 4)
  <2>1. Is(key_shared_secret.steps[4], "", FALSE, "", "cleanup", TRUE, "", {}, {})
    BY CallIs, NegativeIs DEF key_shared_secret, Routine
  <2>2. StepFacts("key_shared_secret", key_shared_secret.steps[4], {"sctx"}, {"sctx"})
    BY <1>1, <1>2, <2>1, RoutineNames
       DEF StepFacts, Objective, Lossy, Answered, Is, GoesOn, Tests, Loose, KnownLosses,
           SessionLoses, OwnKey, Tolerated, OfMsg01, OfMsg3,
           HiddenInMsg01, HiddenInMsg3, HandlersOfMsg3
  <2> QED  BY <1>1, <1>3, <2>2 DEF HoldsAt
<1>8. HoldsAt("key_shared_secret", 5)
  <2>1. Is(key_shared_secret.steps[5], "secret", FALSE, "", "cleanup", FALSE, "", {}, {})
    BY MakeIs DEF key_shared_secret, Routine
  <2>2. StepFacts("key_shared_secret", key_shared_secret.steps[5], {"sctx"}, {"sctx", "secret"})
    BY <1>1, <1>2, <2>1, RoutineNames
       DEF StepFacts, Objective, Lossy, Answered, Is, GoesOn, Tests, Loose, KnownLosses,
           SessionLoses, OwnKey, Tolerated, OfMsg01, OfMsg3,
           HiddenInMsg01, HiddenInMsg3, HandlersOfMsg3
  <2> QED  BY <1>1, <1>3, <2>2 DEF HoldsAt
<1>9. HoldsAt("key_shared_secret", 6)
  <2>1. Range(<<"secret">>) = {"secret"} /\ Repeated(<<"secret">>) = {}
    BY SmallSequences
  <2>2. Is(key_shared_secret.steps[6], "", FALSE, "", "cleanup", TRUE, "", {"secret"}, {})
    BY <2>1, CallIs, ElseIs, NegativeIs DEF key_shared_secret, Routine
  <2>3. StepFacts("key_shared_secret", key_shared_secret.steps[6], {"sctx", "secret"}, {"sctx", "secret"})
    BY <1>1, <1>2, <2>2, RoutineNames
       DEF StepFacts, Objective, Lossy, Answered, Is, GoesOn, Tests, Loose, KnownLosses,
           SessionLoses, OwnKey, Tolerated, OfMsg01, OfMsg3,
           HiddenInMsg01, HiddenInMsg3, HandlersOfMsg3
  <2> QED  BY <1>1, <1>3, <2>3 DEF HoldsAt
<1>10. \A n \in 1 .. 6 : HoldsAt("key_shared_secret", n)
  BY <1>4, <1>5, <1>6, <1>7, <1>8, <1>9
<1>11. EndFacts("key_shared_secret", {"sctx", "secret"})
  BY <1>1, <1>2 DEF EndFacts, KnownLosses, SessionLoses, OwnKey
<1>12. \A n \in 1 .. 7 : Owned["key_shared_secret"][n] \subseteq Objects
  BY <1>1, <1>3 DEF Objects
<1> QED  BY <1>1, <1>2, <1>3, <1>10, <1>11, <1>12 DEF Facts

LEMMA Facts_cmac128 == Facts("cmac128")
<1>1. Code["cmac128"] = cmac128 /\ "cmac128" \in Routines
  BY RoutineNames DEF Code
<1>2. /\ Len(cmac128.steps) = 4 /\ cmac128.cleanup = {"ctx"}
      /\ cmac128.gives = {} /\ cmac128.by = "error"
  BY DEF cmac128, Routine
<1>3. Owned["cmac128"] = <<{}, {"ctx"}, {"ctx"}, {"ctx"}, {"ctx"}>>
  BY DEF Owned
<1>4. HoldsAt("cmac128", 1)
  <2>1. Is(cmac128.steps[1], "ctx", FALSE, "", "cleanup", FALSE, "", {}, {})
    BY MakeIs DEF cmac128, Routine
  <2>2. StepFacts("cmac128", cmac128.steps[1], {}, {"ctx"})
    BY <1>1, <1>2, <2>1, RoutineNames
       DEF StepFacts, Objective, Lossy, Answered, Is, GoesOn, Tests, Loose, KnownLosses,
           SessionLoses, OwnKey, Tolerated, OfMsg01, OfMsg3,
           HiddenInMsg01, HiddenInMsg3, HandlersOfMsg3
  <2> QED  BY <1>1, <1>3, <2>2 DEF HoldsAt
<1>5. HoldsAt("cmac128", 2)
  <2>1. Is(cmac128.steps[2], "", FALSE, "", "cleanup", FALSE, "", {}, {})
    BY CallIs DEF cmac128, Routine
  <2>2. StepFacts("cmac128", cmac128.steps[2], {"ctx"}, {"ctx"})
    BY <1>1, <1>2, <2>1, RoutineNames
       DEF StepFacts, Objective, Lossy, Answered, Is, GoesOn, Tests, Loose, KnownLosses,
           SessionLoses, OwnKey, Tolerated, OfMsg01, OfMsg3,
           HiddenInMsg01, HiddenInMsg3, HandlersOfMsg3
  <2> QED  BY <1>1, <1>3, <2>2 DEF HoldsAt
<1>6. HoldsAt("cmac128", 3)
  <2>1. Is(cmac128.steps[3], "", FALSE, "", "cleanup", FALSE, "", {}, {})
    BY CallIs DEF cmac128, Routine
  <2>2. StepFacts("cmac128", cmac128.steps[3], {"ctx"}, {"ctx"})
    BY <1>1, <1>2, <2>1, RoutineNames
       DEF StepFacts, Objective, Lossy, Answered, Is, GoesOn, Tests, Loose, KnownLosses,
           SessionLoses, OwnKey, Tolerated, OfMsg01, OfMsg3,
           HiddenInMsg01, HiddenInMsg3, HandlersOfMsg3
  <2> QED  BY <1>1, <1>3, <2>2 DEF HoldsAt
<1>7. HoldsAt("cmac128", 4)
  <2>1. Is(cmac128.steps[4], "", FALSE, "", "cleanup", FALSE, "", {}, {})
    BY CallIs DEF cmac128, Routine
  <2>2. StepFacts("cmac128", cmac128.steps[4], {"ctx"}, {"ctx"})
    BY <1>1, <1>2, <2>1, RoutineNames
       DEF StepFacts, Objective, Lossy, Answered, Is, GoesOn, Tests, Loose, KnownLosses,
           SessionLoses, OwnKey, Tolerated, OfMsg01, OfMsg3,
           HiddenInMsg01, HiddenInMsg3, HandlersOfMsg3
  <2> QED  BY <1>1, <1>3, <2>2 DEF HoldsAt
<1>8. \A n \in 1 .. 4 : HoldsAt("cmac128", n)
  BY <1>4, <1>5, <1>6, <1>7
<1>9. EndFacts("cmac128", {"ctx"})
  BY <1>1, <1>2 DEF EndFacts, KnownLosses, SessionLoses, OwnKey
<1>10. \A n \in 1 .. 5 : Owned["cmac128"][n] \subseteq Objects
  BY <1>1, <1>3 DEF Objects
<1> QED  BY <1>1, <1>2, <1>3, <1>8, <1>9, <1>10 DEF Facts

LEMMA Facts_sha256_digest == Facts("sha256_digest")
<1>1. Code["sha256_digest"] = sha256_digest /\ "sha256_digest" \in Routines
  BY RoutineNames DEF Code
<1>2. /\ Len(sha256_digest.steps) = 4 /\ sha256_digest.cleanup = {"ctx"}
      /\ sha256_digest.gives = {} /\ sha256_digest.by = "error"
  BY DEF sha256_digest, Routine
<1>3. Owned["sha256_digest"] = <<{}, {"ctx"}, {"ctx"}, {"ctx"}, {"ctx"}>>
  BY DEF Owned
<1>4. HoldsAt("sha256_digest", 1)
  <2>1. Is(sha256_digest.steps[1], "ctx", FALSE, "", "cleanup", FALSE, "", {}, {})
    BY MakeIs DEF sha256_digest, Routine
  <2>2. StepFacts("sha256_digest", sha256_digest.steps[1], {}, {"ctx"})
    BY <1>1, <1>2, <2>1, RoutineNames
       DEF StepFacts, Objective, Lossy, Answered, Is, GoesOn, Tests, Loose, KnownLosses,
           SessionLoses, OwnKey, Tolerated, OfMsg01, OfMsg3,
           HiddenInMsg01, HiddenInMsg3, HandlersOfMsg3
  <2> QED  BY <1>1, <1>3, <2>2 DEF HoldsAt
<1>5. HoldsAt("sha256_digest", 2)
  <2>1. Is(sha256_digest.steps[2], "", FALSE, "", "cleanup", FALSE, "", {}, {})
    BY CallIs DEF sha256_digest, Routine
  <2>2. StepFacts("sha256_digest", sha256_digest.steps[2], {"ctx"}, {"ctx"})
    BY <1>1, <1>2, <2>1, RoutineNames
       DEF StepFacts, Objective, Lossy, Answered, Is, GoesOn, Tests, Loose, KnownLosses,
           SessionLoses, OwnKey, Tolerated, OfMsg01, OfMsg3,
           HiddenInMsg01, HiddenInMsg3, HandlersOfMsg3
  <2> QED  BY <1>1, <1>3, <2>2 DEF HoldsAt
<1>6. HoldsAt("sha256_digest", 3)
  <2>1. Is(sha256_digest.steps[3], "", FALSE, "", "cleanup", FALSE, "", {}, {})
    BY CallIs DEF sha256_digest, Routine
  <2>2. StepFacts("sha256_digest", sha256_digest.steps[3], {"ctx"}, {"ctx"})
    BY <1>1, <1>2, <2>1, RoutineNames
       DEF StepFacts, Objective, Lossy, Answered, Is, GoesOn, Tests, Loose, KnownLosses,
           SessionLoses, OwnKey, Tolerated, OfMsg01, OfMsg3,
           HiddenInMsg01, HiddenInMsg3, HandlersOfMsg3
  <2> QED  BY <1>1, <1>3, <2>2 DEF HoldsAt
<1>7. HoldsAt("sha256_digest", 4)
  <2>1. Is(sha256_digest.steps[4], "", FALSE, "", "cleanup", FALSE, "", {}, {})
    BY CallIs DEF sha256_digest, Routine
  <2>2. StepFacts("sha256_digest", sha256_digest.steps[4], {"ctx"}, {"ctx"})
    BY <1>1, <1>2, <2>1, RoutineNames
       DEF StepFacts, Objective, Lossy, Answered, Is, GoesOn, Tests, Loose, KnownLosses,
           SessionLoses, OwnKey, Tolerated, OfMsg01, OfMsg3,
           HiddenInMsg01, HiddenInMsg3, HandlersOfMsg3
  <2> QED  BY <1>1, <1>3, <2>2 DEF HoldsAt
<1>8. \A n \in 1 .. 4 : HoldsAt("sha256_digest", n)
  BY <1>4, <1>5, <1>6, <1>7
<1>9. EndFacts("sha256_digest", {"ctx"})
  BY <1>1, <1>2 DEF EndFacts, KnownLosses, SessionLoses, OwnKey
<1>10. \A n \in 1 .. 5 : Owned["sha256_digest"][n] \subseteq Objects
  BY <1>1, <1>3 DEF Objects
<1> QED  BY <1>1, <1>2, <1>3, <1>8, <1>9, <1>10 DEF Facts

LEMMA Facts_sha256_verify == Facts("sha256_verify")
<1>1. Code["sha256_verify"] = sha256_verify /\ "sha256_verify" \in Routines
  BY RoutineNames DEF Code
<1>2. /\ Len(sha256_verify.steps) = 4 /\ sha256_verify.cleanup = {"ctx"}
      /\ sha256_verify.gives = {} /\ sha256_verify.by = "error"
  BY DEF sha256_verify, Routine
<1>3. Owned["sha256_verify"] = <<{}, {"ctx"}, {"ctx"}, {"ctx"}, {"ctx"}>>
  BY DEF Owned
<1>4. HoldsAt("sha256_verify", 1)
  <2>1. Is(sha256_verify.steps[1], "ctx", FALSE, "", "cleanup", FALSE, "", {}, {})
    BY MakeIs DEF sha256_verify, Routine
  <2>2. StepFacts("sha256_verify", sha256_verify.steps[1], {}, {"ctx"})
    BY <1>1, <1>2, <2>1, RoutineNames
       DEF StepFacts, Objective, Lossy, Answered, Is, GoesOn, Tests, Loose, KnownLosses,
           SessionLoses, OwnKey, Tolerated, OfMsg01, OfMsg3,
           HiddenInMsg01, HiddenInMsg3, HandlersOfMsg3
  <2> QED  BY <1>1, <1>3, <2>2 DEF HoldsAt
<1>5. HoldsAt("sha256_verify", 2)
  <2>1. Is(sha256_verify.steps[2], "", FALSE, "", "cleanup", FALSE, "", {}, {})
    BY CallIs DEF sha256_verify, Routine
  <2>2. StepFacts("sha256_verify", sha256_verify.steps[2], {"ctx"}, {"ctx"})
    BY <1>1, <1>2, <2>1, RoutineNames
       DEF StepFacts, Objective, Lossy, Answered, Is, GoesOn, Tests, Loose, KnownLosses,
           SessionLoses, OwnKey, Tolerated, OfMsg01, OfMsg3,
           HiddenInMsg01, HiddenInMsg3, HandlersOfMsg3
  <2> QED  BY <1>1, <1>3, <2>2 DEF HoldsAt
<1>6. HoldsAt("sha256_verify", 3)
  <2>1. Is(sha256_verify.steps[3], "", FALSE, "", "cleanup", FALSE, "", {}, {})
    BY CallIs DEF sha256_verify, Routine
  <2>2. StepFacts("sha256_verify", sha256_verify.steps[3], {"ctx"}, {"ctx"})
    BY <1>1, <1>2, <2>1, RoutineNames
       DEF StepFacts, Objective, Lossy, Answered, Is, GoesOn, Tests, Loose, KnownLosses,
           SessionLoses, OwnKey, Tolerated, OfMsg01, OfMsg3,
           HiddenInMsg01, HiddenInMsg3, HandlersOfMsg3
  <2> QED  BY <1>1, <1>3, <2>2 DEF HoldsAt
<1>7. HoldsAt("sha256_verify", 4)
  <2>1. Is(sha256_verify.steps[4], "", FALSE, "", "cleanup", FALSE, "", {}, {})
    BY CallIs DEF sha256_verify, Routine
  <2>2. StepFacts("sha256_verify", sha256_verify.steps[4], {"ctx"}, {"ctx"})
    BY <1>1, <1>2, <2>1, RoutineNames
       DEF StepFacts, Objective, Lossy, Answered, Is, GoesOn, Tests, Loose, KnownLosses,
           SessionLoses, OwnKey, Tolerated, OfMsg01, OfMsg3,
           HiddenInMsg01, HiddenInMsg3, HandlersOfMsg3
  <2> QED  BY <1>1, <1>3, <2>2 DEF HoldsAt
<1>8. \A n \in 1 .. 4 : HoldsAt("sha256_verify", n)
  BY <1>4, <1>5, <1>6, <1>7
<1>9. EndFacts("sha256_verify", {"ctx"})
  BY <1>1, <1>2 DEF EndFacts, KnownLosses, SessionLoses, OwnKey
<1>10. \A n \in 1 .. 5 : Owned["sha256_verify"][n] \subseteq Objects
  BY <1>1, <1>3 DEF Objects
<1> QED  BY <1>1, <1>2, <1>3, <1>8, <1>9, <1>10 DEF Facts

LEMMA Facts_ecdsa_sign == Facts("ecdsa_sign")
<1>1. Code["ecdsa_sign"] = ecdsa_sign /\ "ecdsa_sign" \in Routines
  BY RoutineNames DEF Code
<1>2. /\ Len(ecdsa_sign.steps) = 5 /\ ecdsa_sign.cleanup = {"eckey", "sig"}
      /\ ecdsa_sign.gives = {} /\ ecdsa_sign.by = "error"
  BY DEF ecdsa_sign, Routine
<1>3. Owned["ecdsa_sign"] = <<{}, {"eckey"}, {"eckey"}, {"eckey", "sig"}, {"eckey", "sig"},
     {"eckey", "sig"}>>
  BY DEF Owned
<1>4. HoldsAt("ecdsa_sign", 1)
  <2>1. Is(ecdsa_sign.steps[1], "eckey", FALSE, "", "cleanup", FALSE, "", {}, {})
    BY MakeIs DEF ecdsa_sign, Routine
  <2>2. StepFacts("ecdsa_sign", ecdsa_sign.steps[1], {}, {"eckey"})
    BY <1>1, <1>2, <2>1, RoutineNames
       DEF StepFacts, Objective, Lossy, Answered, Is, GoesOn, Tests, Loose, KnownLosses,
           SessionLoses, OwnKey, Tolerated, OfMsg01, OfMsg3,
           HiddenInMsg01, HiddenInMsg3, HandlersOfMsg3
  <2> QED  BY <1>1, <1>3, <2>2 DEF HoldsAt
<1>5. HoldsAt("ecdsa_sign", 2)
  <2>1. Is(ecdsa_sign.steps[2], "", FALSE, "sha256_digest", "cleanup", FALSE, "", {}, {})
    BY RunIs DEF ecdsa_sign, Routine
  <2>2. StepFacts("ecdsa_sign", ecdsa_sign.steps[2], {"eckey"}, {"eckey"})
    BY <1>1, <1>2, <2>1, RoutineNames
       DEF StepFacts, Objective, Lossy, Answered, Is, GoesOn, Tests, Loose, KnownLosses,
           SessionLoses, OwnKey, Tolerated, OfMsg01, OfMsg3,
           HiddenInMsg01, HiddenInMsg3, HandlersOfMsg3
  <2> QED  BY <1>1, <1>3, <2>2 DEF HoldsAt
<1>6. HoldsAt("ecdsa_sign", 3)
  <2>1. Is(ecdsa_sign.steps[3], "sig", FALSE, "", "cleanup", FALSE, "", {}, {})
    BY MakeIs DEF ecdsa_sign, Routine
  <2>2. StepFacts("ecdsa_sign", ecdsa_sign.steps[3], {"eckey"}, {"eckey", "sig"})
    BY <1>1, <1>2, <2>1, RoutineNames
       DEF StepFacts, Objective, Lossy, Answered, Is, GoesOn, Tests, Loose, KnownLosses,
           SessionLoses, OwnKey, Tolerated, OfMsg01, OfMsg3,
           HiddenInMsg01, HiddenInMsg3, HandlersOfMsg3
  <2> QED  BY <1>1, <1>3, <2>2 DEF HoldsAt
<1>7. HoldsAt("ecdsa_sign", 4)
  <2>1. Is(ecdsa_sign.steps[4], "", FALSE, "", "blind", TRUE, "", {}, {})
    BY CallIs, OnlyIs DEF ecdsa_sign, Routine
  <2>2. StepFacts("ecdsa_sign", ecdsa_sign.steps[4], {"eckey", "sig"}, {"eckey", "sig"})
    BY <1>1, <1>2, <2>1, RoutineNames
       DEF StepFacts, Objective, Lossy, Answered, Is, GoesOn, Tests, Loose, KnownLosses,
           SessionLoses, OwnKey, Tolerated, OfMsg01, OfMsg3,
           HiddenInMsg01, HiddenInMsg3, HandlersOfMsg3
  <2> QED  BY <1>1, <1>3, <2>2 DEF HoldsAt
<1>8. HoldsAt("ecdsa_sign", 5)
  <2>1. Is(ecdsa_sign.steps[5], "", FALSE, "", "blind", TRUE, "", {}, {})
    BY CallIs, OnlyIs DEF ecdsa_sign, Routine
  <2>2. StepFacts("ecdsa_sign", ecdsa_sign.steps[5], {"eckey", "sig"}, {"eckey", "sig"})
    BY <1>1, <1>2, <2>1, RoutineNames
       DEF StepFacts, Objective, Lossy, Answered, Is, GoesOn, Tests, Loose, KnownLosses,
           SessionLoses, OwnKey, Tolerated, OfMsg01, OfMsg3,
           HiddenInMsg01, HiddenInMsg3, HandlersOfMsg3
  <2> QED  BY <1>1, <1>3, <2>2 DEF HoldsAt
<1>9. \A n \in 1 .. 5 : HoldsAt("ecdsa_sign", n)
  BY <1>4, <1>5, <1>6, <1>7, <1>8
<1>10. EndFacts("ecdsa_sign", {"eckey", "sig"})
  BY <1>1, <1>2 DEF EndFacts, KnownLosses, SessionLoses, OwnKey
<1>11. \A n \in 1 .. 6 : Owned["ecdsa_sign"][n] \subseteq Objects
  BY <1>1, <1>3 DEF Objects
<1> QED  BY <1>1, <1>2, <1>3, <1>9, <1>10, <1>11 DEF Facts

LEMMA Facts_cert_load_file == Facts("cert_load_file")
<1>1. Code["cert_load_file"] = cert_load_file /\ "cert_load_file" \in Routines
  BY RoutineNames DEF Code
<1>2. /\ Len(cert_load_file.steps) = 3 /\ cert_load_file.cleanup = {}
      /\ cert_load_file.gives = {"cert"} /\ cert_load_file.by = "error"
  BY DEF cert_load_file, Routine
<1>3. Owned["cert_load_file"] = <<{}, {"fp"}, {"cert", "fp"}, {"cert"}>>
  BY DEF Owned
<1>4. HoldsAt("cert_load_file", 1)
  <2>1. Is(cert_load_file.steps[1], "fp", FALSE, "", "return", FALSE, "", {}, {})
    BY MakeIs, ReturnIs DEF cert_load_file, Routine
  <2>2. StepFacts("cert_load_file", cert_load_file.steps[1], {}, {"fp"})
    BY <1>1, <1>2, <2>1, RoutineNames
       DEF StepFacts, Objective, Lossy, Answered, Is, GoesOn, Tests, Loose, KnownLosses,
           SessionLoses, OwnKey, Tolerated, OfMsg01, OfMsg3,
           HiddenInMsg01, HiddenInMsg3, HandlersOfMsg3
  <2> QED  BY <1>1, <1>3, <2>2 DEF HoldsAt
<1>5. HoldsAt("cert_load_file", 2)
  <2>1. Is(cert_load_file.steps[2], "cert", FALSE, "", "noted", FALSE, "", {}, {})
    BY MakeIs, NotedIs DEF cert_load_file, Routine
  <2>2. StepFacts("cert_load_file", cert_load_file.steps[2], {"fp"}, {"cert", "fp"})
    BY <1>1, <1>2, <2>1, RoutineNames
       DEF StepFacts, Objective, Lossy, Answered, Is, GoesOn, Tests, Loose, KnownLosses,
           SessionLoses, OwnKey, Tolerated, OfMsg01, OfMsg3,
           HiddenInMsg01, HiddenInMsg3, HandlersOfMsg3
  <2> QED  BY <1>1, <1>3, <2>2 DEF HoldsAt
<1>6. HoldsAt("cert_load_file", 3)
  <2>1. Is(cert_load_file.steps[3], "fp", TRUE, "", "cleanup", FALSE, "", {}, {})
    BY FreeIs DEF cert_load_file, Routine
  <2>2. StepFacts("cert_load_file", cert_load_file.steps[3], {"cert", "fp"}, {"cert"})
    BY <1>1, <1>2, <2>1, RoutineNames
       DEF StepFacts, Objective, Lossy, Answered, Is, GoesOn, Tests, Loose, KnownLosses,
           SessionLoses, OwnKey, Tolerated, OfMsg01, OfMsg3,
           HiddenInMsg01, HiddenInMsg3, HandlersOfMsg3
  <2> QED  BY <1>1, <1>3, <2>2 DEF HoldsAt
<1>7. \A n \in 1 .. 3 : HoldsAt("cert_load_file", n)
  BY <1>4, <1>5, <1>6
<1>8. EndFacts("cert_load_file", {"cert"})
  BY <1>1, <1>2 DEF EndFacts, KnownLosses, SessionLoses, OwnKey
<1>9. \A n \in 1 .. 4 : Owned["cert_load_file"][n] \subseteq Objects
  BY <1>1, <1>3 DEF Objects
<1> QED  BY <1>1, <1>2, <1>3, <1>7, <1>8, <1>9 DEF Facts

LEMMA Facts_cert_load == Facts("cert_load")
<1>1. Code["cert_load"] = cert_load /\ "cert_load" \in Routines
  BY RoutineNames DEF Code
<1>2. /\ Len(cert_load.steps) = 3 /\ cert_load.cleanup = {"bmem"}
      /\ cert_load.gives = {"cert"} /\ cert_load.by = "error"
  BY DEF cert_load, Routine
<1>3. Owned["cert_load"] = <<{}, {"bmem"}, {"bmem"}, {"bmem", "cert"}>>
  BY DEF Owned
<1>4. HoldsAt("cert_load", 1)
  <2>1. Is(cert_load.steps[1], "bmem", FALSE, "", "cleanup", FALSE, "", {}, {})
    BY MakeIs DEF cert_load, Routine
  <2>2. StepFacts("cert_load", cert_load.steps[1], {}, {"bmem"})
    BY <1>1, <1>2, <2>1, RoutineNames
       DEF StepFacts, Objective, Lossy, Answered, Is, GoesOn, Tests, Loose, KnownLosses,
           SessionLoses, OwnKey, Tolerated, OfMsg01, OfMsg3,
           HiddenInMsg01, HiddenInMsg3, HandlersOfMsg3
  <2> QED  BY <1>1, <1>3, <2>2 DEF HoldsAt
<1>5. HoldsAt("cert_load", 2)
  <2>1. Is(cert_load.steps[2], "", FALSE, "", "cleanup", FALSE, "", {}, {})
    BY CallIs DEF cert_load, Routine
  <2>2. StepFacts("cert_load", cert_load.steps[2], {"bmem"}, {"bmem"})
    BY <1>1, <1>2, <2>1, RoutineNames
       DEF StepFacts, Objective, Lossy, Answered, Is, GoesOn, Tests, Loose, KnownLosses,
           SessionLoses, OwnKey, Tolerated, OfMsg01, OfMsg3,
           HiddenInMsg01, HiddenInMsg3, HandlersOfMsg3
  <2> QED  BY <1>1, <1>3, <2>2 DEF HoldsAt
<1>6. HoldsAt("cert_load", 3)
  <2>1. Is(cert_load.steps[3], "cert", FALSE, "", "cleanup", FALSE, "", {}, {})
    BY MakeIs DEF cert_load, Routine
  <2>2. StepFacts("cert_load", cert_load.steps[3], {"bmem"}, {"bmem", "cert"})
    BY <1>1, <1>2, <2>1, RoutineNames
       DEF StepFacts, Objective, Lossy, Answered, Is, GoesOn, Tests, Loose, KnownLosses,
           SessionLoses, OwnKey, Tolerated, OfMsg01, OfMsg3,
           HiddenInMsg01, HiddenInMsg3, HandlersOfMsg3
  <2> QED  BY <1>1, <1>3, <2>2 DEF HoldsAt
<1>7. \A n \in 1 .. 3 : HoldsAt("cert_load", n)
  BY <1>4, <1>5, <1>6
<1>8. EndFacts("cert_load", {"bmem", "cert"})
  BY <1>1, <1>2 DEF EndFacts, KnownLosses, SessionLoses, OwnKey
<1>9. \A n \in 1 .. 4 : Owned["cert_load"][n] \subseteq Objects
  BY <1>1, <1>3 DEF Objects
<1> QED  BY <1>1, <1>2, <1>3, <1>7, <1>8, <1>9 DEF Facts

LEMMA Facts_cert_init_ca == Facts("cert_init_ca")
<1>1. Code["cert_init_ca"] = cert_init_ca /\ "cert_init_ca" \in Routines
  BY RoutineNames DEF Code
<1>2. /\ Len(cert_init_ca.steps) = 2 /\ cert_init_ca.cleanup = {}
      /\ cert_init_ca.gives = {"store"} /\ cert_init_ca.by = "pointer"
  BY DEF cert_init_ca, Routine
<1>3. Owned["cert_init_ca"] = <<{}, {"store"}, {"store"}>>
  BY DEF Owned
<1>4. HoldsAt("cert_init_ca", 1)
  <2>1. Is(cert_init_ca.steps[1], "store", FALSE, "", "return", FALSE, "", {}, {})
    BY MakeIs, ReturnIs DEF cert_init_ca, Routine
  <2>2. StepFacts("cert_init_ca", cert_init_ca.steps[1], {}, {"store"})
    BY <1>1, <1>2, <2>1, RoutineNames
       DEF StepFacts, Objective, Lossy, Answered, Is, GoesOn, Tests, Loose, KnownLosses,
           SessionLoses, OwnKey, Tolerated, OfMsg01, OfMsg3,
           HiddenInMsg01, HiddenInMsg3, HandlersOfMsg3
  <2> QED  BY <1>1, <1>3, <2>2 DEF HoldsAt
<1>5. HoldsAt("cert_init_ca", 2)
  <2>1. Range(<<"store">>) = {"store"} /\ Repeated(<<"store">>) = {}
    BY SmallSequences
  <2>2. Is(cert_init_ca.steps[2], "", FALSE, "", "return", FALSE, "", {"store"}, {})
    BY <2>1, CallIs, ElseIs, ReturnIs DEF cert_init_ca, Routine
  <2>3. StepFacts("cert_init_ca", cert_init_ca.steps[2], {"store"}, {"store"})
    BY <1>1, <1>2, <2>2, RoutineNames
       DEF StepFacts, Objective, Lossy, Answered, Is, GoesOn, Tests, Loose, KnownLosses,
           SessionLoses, OwnKey, Tolerated, OfMsg01, OfMsg3,
           HiddenInMsg01, HiddenInMsg3, HandlersOfMsg3
  <2> QED  BY <1>1, <1>3, <2>3 DEF HoldsAt
<1>6. \A n \in 1 .. 2 : HoldsAt("cert_init_ca", n)
  BY <1>4, <1>5
<1>7. EndFacts("cert_init_ca", {"store"})
  BY <1>1, <1>2 DEF EndFacts, KnownLosses, SessionLoses, OwnKey
<1>8. \A n \in 1 .. 3 : Owned["cert_init_ca"][n] \subseteq Objects
  BY <1>1, <1>3 DEF Objects
<1> QED  BY <1>1, <1>2, <1>3, <1>6, <1>7, <1>8 DEF Facts

LEMMA Facts_cert_verify == Facts("cert_verify")
<1>1. Code["cert_verify"] = cert_verify /\ "cert_verify" \in Routines
  BY RoutineNames DEF Code
<1>2. /\ Len(cert_verify.steps) = 3 /\ cert_verify.cleanup = {"ctx"}
      /\ cert_verify.gives = {} /\ cert_verify.by = "error"
  BY DEF cert_verify, Routine
<1>3. Owned["cert_verify"] = <<{}, {"ctx"}, {"ctx"}, {"ctx"}>>
  BY DEF Owned
<1>4. HoldsAt("cert_verify", 1)
  <2>1. Is(cert_verify.steps[1], "ctx", FALSE, "", "return", FALSE, "", {}, {})
    BY MakeIs, ReturnIs DEF cert_verify, Routine
  <2>2. StepFacts("cert_verify", cert_verify.steps[1], {}, {"ctx"})
    BY <1>1, <1>2, <2>1, RoutineNames
       DEF StepFacts, Objective, Lossy, Answered, Is, GoesOn, Tests, Loose, KnownLosses,
           SessionLoses, OwnKey, Tolerated, OfMsg01, OfMsg3,
           HiddenInMsg01, HiddenInMsg3, HandlersOfMsg3
  <2> QED  BY <1>1, <1>3, <2>2 DEF HoldsAt
<1>5. HoldsAt("cert_verify", 2)
  <2>1. Is(cert_verify.steps[2], "", FALSE, "", "cleanup", FALSE, "", {}, {})
    BY CallIs DEF cert_verify, Routine
  <2>2. StepFacts("cert_verify", cert_verify.steps[2], {"ctx"}, {"ctx"})
    BY <1>1, <1>2, <2>1, RoutineNames
       DEF StepFacts, Objective, Lossy, Answered, Is, GoesOn, Tests, Loose, KnownLosses,
           SessionLoses, OwnKey, Tolerated, OfMsg01, OfMsg3,
           HiddenInMsg01, HiddenInMsg3, HandlersOfMsg3
  <2> QED  BY <1>1, <1>3, <2>2 DEF HoldsAt
<1>6. HoldsAt("cert_verify", 3)
  <2>1. Is(cert_verify.steps[3], "", FALSE, "", "cleanup", FALSE, "", {}, {})
    BY CallIs DEF cert_verify, Routine
  <2>2. StepFacts("cert_verify", cert_verify.steps[3], {"ctx"}, {"ctx"})
    BY <1>1, <1>2, <2>1, RoutineNames
       DEF StepFacts, Objective, Lossy, Answered, Is, GoesOn, Tests, Loose, KnownLosses,
           SessionLoses, OwnKey, Tolerated, OfMsg01, OfMsg3,
           HiddenInMsg01, HiddenInMsg3, HandlersOfMsg3
  <2> QED  BY <1>1, <1>3, <2>2 DEF HoldsAt
<1>7. \A n \in 1 .. 3 : HoldsAt("cert_verify", n)
  BY <1>4, <1>5, <1>6
<1>8. EndFacts("cert_verify", {"ctx"})
  BY <1>1, <1>2 DEF EndFacts, KnownLosses, SessionLoses, OwnKey
<1>9. \A n \in 1 .. 4 : Owned["cert_verify"][n] \subseteq Objects
  BY <1>1, <1>3 DEF Objects
<1> QED  BY <1>1, <1>2, <1>3, <1>7, <1>8, <1>9 DEF Facts

LEMMA Facts_cert_stack_build == Facts("cert_stack_build")
<1>1. Code["cert_stack_build"] = cert_stack_build /\ "cert_stack_build" \in Routines
  BY RoutineNames DEF Code
<1>2. /\ Len(cert_stack_build.steps) = 2 /\ cert_stack_build.cleanup = {}
      /\ cert_stack_build.gives = {"stack"} /\ cert_stack_build.by = "pointer"
  BY DEF cert_stack_build, Routine
<1>3. Owned["cert_stack_build"] = <<{}, {"stack"}, {"stack"}>>
  BY DEF Owned
<1>4. HoldsAt("cert_stack_build", 1)
  <2>1. Is(cert_stack_build.steps[1], "stack", FALSE, "", "return", FALSE, "", {}, {})
    BY MakeIs, ReturnIs DEF cert_stack_build, Routine
  <2>2. StepFacts("cert_stack_build", cert_stack_build.steps[1], {}, {"stack"})
    BY <1>1, <1>2, <2>1, RoutineNames
       DEF StepFacts, Objective, Lossy, Answered, Is, GoesOn, Tests, Loose, KnownLosses,
           SessionLoses, OwnKey, Tolerated, OfMsg01, OfMsg3,
           HiddenInMsg01, HiddenInMsg3, HandlersOfMsg3
  <2> QED  BY <1>1, <1>3, <2>2 DEF HoldsAt
<1>5. HoldsAt("cert_stack_build", 2)
  <2>1. Is(cert_stack_build.steps[2], "", FALSE, "", "unchecked", FALSE, "", {}, {})
    BY CallIs, UncheckedIs DEF cert_stack_build, Routine
  <2>2. StepFacts("cert_stack_build", cert_stack_build.steps[2], {"stack"}, {"stack"})
    BY <1>1, <1>2, <2>1, RoutineNames
       DEF StepFacts, Objective, Lossy, Answered, Is, GoesOn, Tests, Loose, KnownLosses,
           SessionLoses, OwnKey, Tolerated, OfMsg01, OfMsg3,
           HiddenInMsg01, HiddenInMsg3, HandlersOfMsg3
  <2> QED  BY <1>1, <1>3, <2>2 DEF HoldsAt
<1>6. \A n \in 1 .. 2 : HoldsAt("cert_stack_build", n)
  BY <1>4, <1>5
<1>7. EndFacts("cert_stack_build", {"stack"})
  BY <1>1, <1>2 DEF EndFacts, KnownLosses, SessionLoses, OwnKey
<1>8. \A n \in 1 .. 3 : Owned["cert_stack_build"][n] \subseteq Objects
  BY <1>1, <1>3 DEF Objects
<1> QED  BY <1>1, <1>2, <1>3, <1>6, <1>7, <1>8 DEF Facts

LEMMA Facts_base64_encode == Facts("base64_encode")
<1>1. Code["base64_encode"] = base64_encode /\ "base64_encode" \in Routines
  BY RoutineNames DEF Code
<1>2. /\ Len(base64_encode.steps) = 6 /\ base64_encode.cleanup = {}
      /\ base64_encode.gives = {"dup"} /\ base64_encode.by = "plain"
  BY DEF base64_encode, Routine
<1>3. Owned["base64_encode"] = <<{}, {"b64"}, {"b64", "bmem"}, {"b64", "bmem"},
     {"b64", "bmem", "dup"}, {"b64", "dup"}, {"dup"}>>
  BY DEF Owned
<1>4. HoldsAt("base64_encode", 1)
  <2>1. Is(base64_encode.steps[1], "b64", FALSE, "", "never", FALSE, "", {}, {})
    BY MakeIs, SureIs DEF base64_encode, Routine
  <2>2. StepFacts("base64_encode", base64_encode.steps[1], {}, {"b64"})
    BY <1>1, <1>2, <2>1, RoutineNames
       DEF StepFacts, Objective, Lossy, Answered, Is, GoesOn, Tests, Loose, KnownLosses,
           SessionLoses, OwnKey, Tolerated, OfMsg01, OfMsg3,
           HiddenInMsg01, HiddenInMsg3, HandlersOfMsg3
  <2> QED  BY <1>1, <1>3, <2>2 DEF HoldsAt
<1>5. HoldsAt("base64_encode", 2)
  <2>1. Is(base64_encode.steps[2], "bmem", FALSE, "", "never", FALSE, "", {}, {})
    BY MakeIs, SureIs DEF base64_encode, Routine
  <2>2. StepFacts("base64_encode", base64_encode.steps[2], {"b64"}, {"b64", "bmem"})
    BY <1>1, <1>2, <2>1, RoutineNames
       DEF StepFacts, Objective, Lossy, Answered, Is, GoesOn, Tests, Loose, KnownLosses,
           SessionLoses, OwnKey, Tolerated, OfMsg01, OfMsg3,
           HiddenInMsg01, HiddenInMsg3, HandlersOfMsg3
  <2> QED  BY <1>1, <1>3, <2>2 DEF HoldsAt
<1>6. HoldsAt("base64_encode", 3)
  <2>1. Range(<<"bmem", "b64">>) = {"bmem", "b64"} /\ Repeated(<<"bmem", "b64">>) = {}
    BY SmallSequences
  <2>2. Is(base64_encode.steps[3], "", FALSE, "", "return", FALSE, "", {"bmem", "b64"}, {})
    BY <2>1, CallIs, ElseIs, ReturnIs DEF base64_encode, Routine
  <2>3. StepFacts("base64_encode", base64_encode.steps[3], {"b64", "bmem"}, {"b64", "bmem"})
    BY <1>1, <1>2, <2>2, RoutineNames
       DEF StepFacts, Objective, Lossy, Answered, Is, GoesOn, Tests, Loose, KnownLosses,
           SessionLoses, OwnKey, Tolerated, OfMsg01, OfMsg3,
           HiddenInMsg01, HiddenInMsg3, HandlersOfMsg3
  <2> QED  BY <1>1, <1>3, <2>3 DEF HoldsAt
<1>7. HoldsAt("base64_encode", 4)
  <2>1. Range(<<"bmem", "b64">>) = {"bmem", "b64"} /\ Repeated(<<"bmem", "b64">>) = {}
    BY SmallSequences
  <2>2. Is(base64_encode.steps[4], "dup", FALSE, "", "return", FALSE, "", {"bmem", "b64"}, {})
    BY <2>1, MakeIs, ElseIs, ReturnIs DEF base64_encode, Routine
  <2>3. StepFacts("base64_encode", base64_encode.steps[4], {"b64", "bmem"}, {"b64", "bmem", "dup"})
    BY <1>1, <1>2, <2>2, RoutineNames
       DEF StepFacts, Objective, Lossy, Answered, Is, GoesOn, Tests, Loose, KnownLosses,
           SessionLoses, OwnKey, Tolerated, OfMsg01, OfMsg3,
           HiddenInMsg01, HiddenInMsg3, HandlersOfMsg3
  <2> QED  BY <1>1, <1>3, <2>3 DEF HoldsAt
<1>8. HoldsAt("base64_encode", 5)
  <2>1. Is(base64_encode.steps[5], "bmem", TRUE, "", "cleanup", FALSE, "", {}, {})
    BY FreeIs DEF base64_encode, Routine
  <2>2. StepFacts("base64_encode", base64_encode.steps[5], {"b64", "bmem", "dup"}, {"b64", "dup"})
    BY <1>1, <1>2, <2>1, RoutineNames
       DEF StepFacts, Objective, Lossy, Answered, Is, GoesOn, Tests, Loose, KnownLosses,
           SessionLoses, OwnKey, Tolerated, OfMsg01, OfMsg3,
           HiddenInMsg01, HiddenInMsg3, HandlersOfMsg3
  <2> QED  BY <1>1, <1>3, <2>2 DEF HoldsAt
<1>9. HoldsAt("base64_encode", 6)
  <2>1. Is(base64_encode.steps[6], "b64", TRUE, "", "cleanup", FALSE, "", {}, {})
    BY FreeIs DEF base64_encode, Routine
  <2>2. StepFacts("base64_encode", base64_encode.steps[6], {"b64", "dup"}, {"dup"})
    BY <1>1, <1>2, <2>1, RoutineNames
       DEF StepFacts, Objective, Lossy, Answered, Is, GoesOn, Tests, Loose, KnownLosses,
           SessionLoses, OwnKey, Tolerated, OfMsg01, OfMsg3,
           HiddenInMsg01, HiddenInMsg3, HandlersOfMsg3
  <2> QED  BY <1>1, <1>3, <2>2 DEF HoldsAt
<1>10. \A n \in 1 .. 6 : HoldsAt("base64_encode", n)
  BY <1>4, <1>5, <1>6, <1>7, <1>8, <1>9
<1>11. EndFacts("base64_encode", {"dup"})
  BY <1>1, <1>2 DEF EndFacts, KnownLosses, SessionLoses, OwnKey
<1>12. \A n \in 1 .. 7 : Owned["base64_encode"][n] \subseteq Objects
  BY <1>1, <1>3 DEF Objects
<1> QED  BY <1>1, <1>2, <1>3, <1>10, <1>11, <1>12 DEF Facts

LEMMA Facts_base64_decode == Facts("base64_decode")
<1>1. Code["base64_decode"] = base64_decode /\ "base64_decode" \in Routines
  BY RoutineNames DEF Code
<1>2. /\ Len(base64_decode.steps) = 5 /\ base64_decode.cleanup = {}
      /\ base64_decode.gives = {"buf"} /\ base64_decode.by = "plain"
  BY DEF base64_decode, Routine
<1>3. Owned["base64_decode"] = <<{}, {"buf"}, {"b64", "buf"}, {"b64", "bmem", "buf"},
     {"b64", "bmem", "buf"}, {"b64", "buf"}>>
  BY DEF Owned
<1>4. HoldsAt("base64_decode", 1)
  <2>1. Is(base64_decode.steps[1], "buf", FALSE, "", "return", FALSE, "", {}, {})
    BY MakeIs, ReturnIs DEF base64_decode, Routine
  <2>2. StepFacts("base64_decode", base64_decode.steps[1], {}, {"buf"})
    BY <1>1, <1>2, <2>1, RoutineNames
       DEF StepFacts, Objective, Lossy, Answered, Is, GoesOn, Tests, Loose, KnownLosses,
           SessionLoses, OwnKey, Tolerated, OfMsg01, OfMsg3,
           HiddenInMsg01, HiddenInMsg3, HandlersOfMsg3
  <2> QED  BY <1>1, <1>3, <2>2 DEF HoldsAt
<1>5. HoldsAt("base64_decode", 2)
  <2>1. Is(base64_decode.steps[2], "b64", FALSE, "", "never", FALSE, "", {}, {})
    BY MakeIs, SureIs DEF base64_decode, Routine
  <2>2. StepFacts("base64_decode", base64_decode.steps[2], {"buf"}, {"b64", "buf"})
    BY <1>1, <1>2, <2>1, RoutineNames
       DEF StepFacts, Objective, Lossy, Answered, Is, GoesOn, Tests, Loose, KnownLosses,
           SessionLoses, OwnKey, Tolerated, OfMsg01, OfMsg3,
           HiddenInMsg01, HiddenInMsg3, HandlersOfMsg3
  <2> QED  BY <1>1, <1>3, <2>2 DEF HoldsAt
<1>6. HoldsAt("base64_decode", 3)
  <2>1. Is(base64_decode.steps[3], "bmem", FALSE, "", "never", FALSE, "", {}, {})
    BY MakeIs, SureIs DEF base64_decode, Routine
  <2>2. StepFacts("base64_decode", base64_decode.steps[3], {"b64", "buf"}, {"b64", "bmem", "buf"})
    BY <1>1, <1>2, <2>1, RoutineNames
       DEF StepFacts, Objective, Lossy, Answered, Is, GoesOn, Tests, Loose, KnownLosses,
           SessionLoses, OwnKey, Tolerated, OfMsg01, OfMsg3,
           HiddenInMsg01, HiddenInMsg3, HandlersOfMsg3
  <2> QED  BY <1>1, <1>3, <2>2 DEF HoldsAt
<1>7. HoldsAt("base64_decode", 4)
  <2>1. Range(<<"buf">>) = {"buf"} /\ Repeated(<<"buf">>) = {}
    BY SmallSequences
  <2>2. Is(base64_decode.steps[4], "", FALSE, "", "return", FALSE, "", {"buf"}, {})
    BY <2>1, CallIs, ElseIs, ReturnIs DEF base64_decode, Routine
  <2>3. StepFacts("base64_decode", base64_decode.steps[4], {"b64", "bmem", "buf"}, {"b64", "bmem", "buf"})
    BY <1>1, <1>2, <2>2, RoutineNames
       DEF StepFacts, Objective, Lossy, Answered, Is, GoesOn, Tests, Loose, KnownLosses,
           SessionLoses, OwnKey, Tolerated, OfMsg01, OfMsg3,
           HiddenInMsg01, HiddenInMsg3, HandlersOfMsg3
  <2> QED  BY <1>1, <1>3, <2>3 DEF HoldsAt
<1>8. HoldsAt("base64_decode", 5)
  <2>1. Is(base64_decode.steps[5], "bmem", TRUE, "", "cleanup", FALSE, "", {}, {})
    BY FreeIs DEF base64_decode, Routine
  <2>2. StepFacts("base64_decode", base64_decode.steps[5], {"b64", "bmem", "buf"}, {"b64", "buf"})
    BY <1>1, <1>2, <2>1, RoutineNames
       DEF StepFacts, Objective, Lossy, Answered, Is, GoesOn, Tests, Loose, KnownLosses,
           SessionLoses, OwnKey, Tolerated, OfMsg01, OfMsg3,
           HiddenInMsg01, HiddenInMsg3, HandlersOfMsg3
  <2> QED  BY <1>1, <1>3, <2>2 DEF HoldsAt
<1>9. \A n \in 1 .. 5 : HoldsAt("base64_decode", n)
  BY <1>4, <1>5, <1>6, <1>7, <1>8
<1>10. EndFacts("base64_decode", {"b64", "buf"})
  BY <1>1, <1>2 DEF EndFacts, KnownLosses, SessionLoses, OwnKey
<1>11. \A n \in 1 .. 6 : Owned["base64_decode"][n] \subseteq Objects
  BY <1>1, <1>3 DEF Objects
<1> QED  BY <1>1, <1>2, <1>3, <1>9, <1>10, <1>11 DEF Facts

LEMMA Facts_derive_kdk == Facts("derive_kdk")
<1>1. Code["derive_kdk"] = derive_kdk /\ "derive_kdk" \in Routines
  BY RoutineNames DEF Code
<1>2. /\ Len(derive_kdk.steps) = 3 /\ derive_kdk.cleanup = {}
      /\ derive_kdk.gives = {} /\ derive_kdk.by = "path"
  BY DEF derive_kdk, Routine
<1>3. Owned["derive_kdk"] = <<{}, {"Ga"}, {"Ga", "Gab_x"}, {"Ga", "Gab_x"}>>
  BY DEF Owned
<1>4. HoldsAt("derive_kdk", 1)
  <2>1. Is(derive_kdk.steps[1], "Ga", FALSE, "key_from_sgx_ec256", "return", FALSE, "", {}, {})
    BY RunIs, ReturnIs DEF derive_kdk, Routine
  <2>2. StepFacts("derive_kdk", derive_kdk.steps[1], {}, {"Ga"})
    BY <1>1, <1>2, <2>1, RoutineNames
       DEF StepFacts, Objective, Lossy, Answered, Is, GoesOn, Tests, Loose, KnownLosses,
           SessionLoses, OwnKey, Tolerated, OfMsg01, OfMsg3,
           HiddenInMsg01, HiddenInMsg3, HandlersOfMsg3
  <2> QED  BY <1>1, <1>3, <2>2 DEF HoldsAt
<1>5. HoldsAt("derive_kdk", 2)
  <2>1. Is(derive_kdk.steps[2], "Gab_x", FALSE, "key_shared_secret", "return", FALSE, "", {}, {})
    BY RunIs, ReturnIs DEF derive_kdk, Routine
  <2>2. StepFacts("derive_kdk", derive_kdk.steps[2], {"Ga"}, {"Ga", "Gab_x"})
    BY <1>1, <1>2, <2>1, RoutineNames
       DEF StepFacts, Objective, Lossy, Answered, Is, GoesOn, Tests, Loose, KnownLosses,
           SessionLoses, OwnKey, Tolerated, OfMsg01, OfMsg3,
           HiddenInMsg01, HiddenInMsg3, HandlersOfMsg3
  <2> QED  BY <1>1, <1>3, <2>2 DEF HoldsAt
<1>6. HoldsAt("derive_kdk", 3)
  <2>1. Is(derive_kdk.steps[3], "", FALSE, "cmac128", "unchecked", FALSE, "", {}, {})
    BY RunIs, UncheckedIs DEF derive_kdk, Routine
  <2>2. StepFacts("derive_kdk", derive_kdk.steps[3], {"Ga", "Gab_x"}, {"Ga", "Gab_x"})
    BY <1>1, <1>2, <2>1, RoutineNames
       DEF StepFacts, Objective, Lossy, Answered, Is, GoesOn, Tests, Loose, KnownLosses,
           SessionLoses, OwnKey, Tolerated, OfMsg01, OfMsg3,
           HiddenInMsg01, HiddenInMsg3, HandlersOfMsg3
  <2> QED  BY <1>1, <1>3, <2>2 DEF HoldsAt
<1>7. \A n \in 1 .. 3 : HoldsAt("derive_kdk", n)
  BY <1>4, <1>5, <1>6
<1>8. EndFacts("derive_kdk", {"Ga", "Gab_x"})
  BY <1>1, <1>2 DEF EndFacts, KnownLosses, SessionLoses, OwnKey
<1>9. \A n \in 1 .. 4 : Owned["derive_kdk"][n] \subseteq Objects
  BY <1>1, <1>3 DEF Objects
<1> QED  BY <1>1, <1>2, <1>3, <1>7, <1>8, <1>9 DEF Facts

LEMMA Facts_get_sigrl == Facts("get_sigrl")
<1>1. Code["get_sigrl"] = get_sigrl /\ "get_sigrl" \in Routines
  BY RoutineNames DEF Code
<1>2. /\ Len(get_sigrl.steps) = 4 /\ get_sigrl.cleanup = {}
      /\ get_sigrl.gives = {"sig_rl"} /\ get_sigrl.by = "path"
  BY DEF get_sigrl, Routine
<1>3. Owned["get_sigrl"] = <<{}, {"req"}, {"req"}, {"req", "sig_rl"}, {"sig_rl"}>>
  BY DEF Owned
<1>4. HoldsAt("get_sigrl", 1)
  <2>1. Is(get_sigrl.steps[1], "req", FALSE, "", "return", FALSE, "", {}, {})
    BY MakeIs, ReturnIs DEF get_sigrl, Routine
  <2>2. StepFacts("get_sigrl", get_sigrl.steps[1], {}, {"req"})
    BY <1>1, <1>2, <2>1, RoutineNames
       DEF StepFacts, Objective, Lossy, Answered, Is, GoesOn, Tests, Loose, KnownLosses,
           SessionLoses, OwnKey, Tolerated, OfMsg01, OfMsg3,
           HiddenInMsg01, HiddenInMsg3, HandlersOfMsg3
  <2> QED  BY <1>1, <1>3, <2>2 DEF HoldsAt
<1>5. HoldsAt("get_sigrl", 2)
  <2>1. Range(<<"req">>) = {"req"} /\ Repeated(<<"req">>) = {}
    BY SmallSequences
  <2>2. Is(get_sigrl.steps[2], "", FALSE, "", "return", FALSE, "", {"req"}, {})
    BY <2>1, CallIs, ElseIs, ReturnIs DEF get_sigrl, Routine
  <2>3. StepFacts("get_sigrl", get_sigrl.steps[2], {"req"}, {"req"})
    BY <1>1, <1>2, <2>2, RoutineNames
       DEF StepFacts, Objective, Lossy, Answered, Is, GoesOn, Tests, Loose, KnownLosses,
           SessionLoses, OwnKey, Tolerated, OfMsg01, OfMsg3,
           HiddenInMsg01, HiddenInMsg3, HandlersOfMsg3
  <2> QED  BY <1>1, <1>3, <2>3 DEF HoldsAt
<1>6. HoldsAt("get_sigrl", 3)
  <2>1. Range(<<"req">>) = {"req"} /\ Repeated(<<"req">>) = {}
    BY SmallSequences
  <2>2. Is(get_sigrl.steps[3], "sig_rl", FALSE, "base64_decode", "return", FALSE, "", {"req"}, {})
    BY <2>1, RunIs, ElseIs, ReturnIs DEF get_sigrl, Routine
  <2>3. StepFacts("get_sigrl", get_sigrl.steps[3], {"req"}, {"req", "sig_rl"})
    BY <1>1, <1>2, <2>2, RoutineNames
       DEF StepFacts, Objective, Lossy, Answered, Is, GoesOn, Tests, Loose, KnownLosses,
           SessionLoses, OwnKey, Tolerated, OfMsg01, OfMsg3,
           HiddenInMsg01, HiddenInMsg3, HandlersOfMsg3
  <2> QED  BY <1>1, <1>3, <2>3 DEF HoldsAt
<1>7. HoldsAt("get_sigrl", 4)
  <2>1. Is(get_sigrl.steps[4], "req", TRUE, "", "cleanup", FALSE, "", {}, {})
    BY FreeIs DEF get_sigrl, Routine
  <2>2. StepFacts("get_sigrl", get_sigrl.steps[4], {"req", "sig_rl"}, {"sig_rl"})
    BY <1>1, <1>2, <2>1, RoutineNames
       DEF StepFacts, Objective, Lossy, Answered, Is, GoesOn, Tests, Loose, KnownLosses,
           SessionLoses, OwnKey, Tolerated, OfMsg01, OfMsg3,
           HiddenInMsg01, HiddenInMsg3, HandlersOfMsg3
  <2> QED  BY <1>1, <1>3, <2>2 DEF HoldsAt
<1>8. \A n \in 1 .. 4 : HoldsAt("get_sigrl", n)
  BY <1>4, <1>5, <1>6, <1>7
<1>9. EndFacts("get_sigrl", {"sig_rl"})
  BY <1>1, <1>2 DEF EndFacts, KnownLosses, SessionLoses, OwnKey
<1>10. \A n \in 1 .. 5 : Owned["get_sigrl"][n] \subseteq Objects
  BY <1>1, <1>3 DEF Objects
<1> QED  BY <1>1, <1>2, <1>3, <1>8, <1>9, <1>10 DEF Facts

LEMMA Facts_process_msg01 == Facts("process_msg01")
<1>1. Code["process_msg01"] = process_msg01 /\ "process_msg01" \in Routines
  BY RoutineNames DEF Code
<1>2. /\ Len(process_msg01.steps) = 10 /\ process_msg01.cleanup = {}
      /\ process_msg01.gives = {} /\ process_msg01.by = "path"
  BY DEF process_msg01, Routine
<1>3. Owned["process_msg01"] = <<{}, {"msg01"}, {"msg01"}, {"Gb", "msg01"}, {"Gb", "msg01"},
     {"Gb", "msg01"}, {"Gb", "msg01"}, {"Gb", "msg01", "sigrl"}, {"Gb", "msg01", "sigrl"},
     {"Gb", "msg01", "sigrl"}, {"Gb", "sigrl"}>>
  BY DEF Owned
<1>4. HoldsAt("process_msg01", 1)
  <2>1. Is(process_msg01.steps[1], "msg01", FALSE, "", "return", FALSE, "", {}, {})
    BY MakeIs, ReturnIs DEF process_msg01, Routine
  <2>2. StepFacts("process_msg01", process_msg01.steps[1], {}, {"msg01"})
    BY <1>1, <1>2, <2>1, RoutineNames
       DEF StepFacts, Objective, Lossy, Answered, Is, GoesOn, Tests, Loose, KnownLosses,
           SessionLoses, OwnKey, Tolerated, OfMsg01, OfMsg3,
           HiddenInMsg01, HiddenInMsg3, HandlersOfMsg3
  <2> QED  BY <1>1, <1>3, <2>2 DEF HoldsAt
<1>5. HoldsAt("process_msg01", 2)
  <2>1. Range(<<"msg01">>) = {"msg01"} /\ Repeated(<<"msg01">>) = {}
    BY SmallSequences
  <2>2. Is(process_msg01.steps[2], "", FALSE, "", "return", FALSE, "", {"msg01"}, {})
    BY <2>1, CallIs, ElseIs, ReturnIs DEF process_msg01, Routine
  <2>3. StepFacts("process_msg01", process_msg01.steps[2], {"msg01"}, {"msg01"})
    BY <1>1, <1>2, <2>2, RoutineNames
       DEF StepFacts, Objective, Lossy, Answered, Is, GoesOn, Tests, Loose, KnownLosses,
           SessionLoses, OwnKey, Tolerated, OfMsg01, OfMsg3,
           HiddenInMsg01, HiddenInMsg3, HandlersOfMsg3
  <2> QED  BY <1>1, <1>3, <2>3 DEF HoldsAt
<1>6. HoldsAt("process_msg01", 3)
  <2>1. Range(<<"msg01">>) = {"msg01"} /\ Repeated(<<"msg01">>) = {}
    BY SmallSequences
  <2>2. Is(process_msg01.steps[3], "Gb", FALSE, "key_generate", "return", FALSE, "", {"msg01"}, {})
    BY <2>1, RunIs, ElseIs, ReturnIs DEF process_msg01, Routine
  <2>3. StepFacts("process_msg01", process_msg01.steps[3], {"msg01"}, {"Gb", "msg01"})
    BY <1>1, <1>2, <2>2, RoutineNames
       DEF StepFacts, Objective, Lossy, Answered, Is, GoesOn, Tests, Loose, KnownLosses,
           SessionLoses, OwnKey, Tolerated, OfMsg01, OfMsg3,
           HiddenInMsg01, HiddenInMsg3, HandlersOfMsg3
  <2> QED  BY <1>1, <1>3, <2>3 DEF HoldsAt
<1>7. HoldsAt("process_msg01", 4)
  <2>1. Range(<<"msg01">>) = {"msg01"} /\ Repeated(<<"msg01">>) = {}
    BY SmallSequences
  <2>2. Is(process_msg01.steps[4], "", FALSE, "derive_kdk", "return", FALSE, "", {"msg01"}, {})
    BY <2>1, RunIs, ElseIs, ReturnIs DEF process_msg01, Routine
  <2>3. StepFacts("process_msg01", process_msg01.steps[4], {"Gb", "msg01"}, {"Gb", "msg01"})
    BY <1>1, <1>2, <2>2, RoutineNames
       DEF StepFacts, Objective, Lossy, Answered, Is, GoesOn, Tests, Loose, KnownLosses,
           SessionLoses, OwnKey, Tolerated, OfMsg01, OfMsg3,
           HiddenInMsg01, HiddenInMsg3, HandlersOfMsg3
  <2> QED  BY <1>1, <1>3, <2>3 DEF HoldsAt
<1>8. HoldsAt("process_msg01", 5)
  <2>1. Is(process_msg01.steps[5], "", FALSE, "cmac128", "unchecked", FALSE, "", {}, {})
    BY RunIs, UncheckedIs DEF process_msg01, Routine
  <2>2. StepFacts("process_msg01", process_msg01.steps[5], {"Gb", "msg01"}, {"Gb", "msg01"})
    BY <1>1, <1>2, <2>1, RoutineNames
       DEF StepFacts, Objective, Lossy, Answered, Is, GoesOn, Tests, Loose, KnownLosses,
           SessionLoses, OwnKey, Tolerated, OfMsg01, OfMsg3,
           HiddenInMsg01, HiddenInMsg3, HandlersOfMsg3
  <2> QED  BY <1>1, <1>3, <2>2 DEF HoldsAt
<1>9. HoldsAt("process_msg01", 6)
  <2>1. Is(process_msg01.steps[6], "", FALSE, "key_to_sgx_ec256", "unchecked", FALSE, "", {}, {})
    BY RunIs, UncheckedIs DEF process_msg01, Routine
  <2>2. StepFacts("process_msg01", process_msg01.steps[6], {"Gb", "msg01"}, {"Gb", "msg01"})
    BY <1>1, <1>2, <2>1, RoutineNames
       DEF StepFacts, Objective, Lossy, Answered, Is, GoesOn, Tests, Loose, KnownLosses,
           SessionLoses, OwnKey, Tolerated, OfMsg01, OfMsg3,
           HiddenInMsg01, HiddenInMsg3, HandlersOfMsg3
  <2> QED  BY <1>1, <1>3, <2>2 DEF HoldsAt
<1>10. HoldsAt("process_msg01", 7)
  <2>1. Range(<<"msg01">>) = {"msg01"} /\ Repeated(<<"msg01">>) = {}
    BY SmallSequences
  <2>2. Is(process_msg01.steps[7], "sigrl", FALSE, "get_sigrl", "return", FALSE, "", {"msg01"}, {})
    BY <2>1, RunIs, ElseIs, ReturnIs DEF process_msg01, Routine
  <2>3. StepFacts("process_msg01", process_msg01.steps[7], {"Gb", "msg01"}, {"Gb", "msg01", "sigrl"})
    BY <1>1, <1>2, <2>2, RoutineNames
       DEF StepFacts, Objective, Lossy, Answered, Is, GoesOn, Tests, Loose, KnownLosses,
           SessionLoses, OwnKey, Tolerated, OfMsg01, OfMsg3,
           HiddenInMsg01, HiddenInMsg3, HandlersOfMsg3
  <2> QED  BY <1>1, <1>3, <2>3 DEF HoldsAt
<1>11. HoldsAt("process_msg01", 8)
  <2>1. Is(process_msg01.steps[8], "", FALSE, "ecdsa_sign", "unchecked", FALSE, "", {}, {})
    BY RunIs, UncheckedIs DEF process_msg01, Routine
  <2>2. StepFacts("process_msg01", process_msg01.steps[8], {"Gb", "msg01", "sigrl"}, {"Gb", "msg01", "sigrl"})
    BY <1>1, <1>2, <2>1, RoutineNames
       DEF StepFacts, Objective, Lossy, Answered, Is, GoesOn, Tests, Loose, KnownLosses,
           SessionLoses, OwnKey, Tolerated, OfMsg01, OfMsg3,
           HiddenInMsg01, HiddenInMsg3, HandlersOfMsg3
  <2> QED  BY <1>1, <1>3, <2>2 DEF HoldsAt
<1>12. HoldsAt("process_msg01", 9)
  <2>1. Is(process_msg01.steps[9], "", FALSE, "cmac128", "unchecked", FALSE, "", {}, {})
    BY RunIs, UncheckedIs DEF process_msg01, Routine
  <2>2. StepFacts("process_msg01", process_msg01.steps[9], {"Gb", "msg01", "sigrl"}, {"Gb", "msg01", "sigrl"})
    BY <1>1, <1>2, <2>1, RoutineNames
       DEF StepFacts, Objective, Lossy, Answered, Is, GoesOn, Tests, Loose, KnownLosses,
           SessionLoses, OwnKey, Tolerated, OfMsg01, OfMsg3,
           HiddenInMsg01, HiddenInMsg3, HandlersOfMsg3
  <2> QED  BY <1>1, <1>3, <2>2 DEF HoldsAt
<1>13. HoldsAt("process_msg01", 10)
  <2>1. Is(process_msg01.steps[10], "msg01", TRUE, "", "cleanup", FALSE, "", {}, {})
    BY FreeIs DEF process_msg01, Routine
  <2>2. StepFacts("process_msg01", process_msg01.steps[10], {"Gb", "msg01", "sigrl"}, {"Gb", "sigrl"})
    BY <1>1, <1>2, <2>1, RoutineNames
       DEF StepFacts, Objective, Lossy, Answered, Is, GoesOn, Tests, Loose, KnownLosses,
           SessionLoses, OwnKey, Tolerated, OfMsg01, OfMsg3,
           HiddenInMsg01, HiddenInMsg3, HandlersOfMsg3
  <2> QED  BY <1>1, <1>3, <2>2 DEF HoldsAt
<1>14. \A n \in 1 .. 10 : HoldsAt("process_msg01", n)
  BY <1>4, <1>5, <1>6, <1>7, <1>8, <1>9, <1>10, <1>11, <1>12, <1>13
<1>15. EndFacts("process_msg01", {"Gb", "sigrl"})
  BY <1>1, <1>2 DEF EndFacts, KnownLosses, SessionLoses, OwnKey
<1>16. \A n \in 1 .. 11 : Owned["process_msg01"][n] \subseteq Objects
  BY <1>1, <1>3 DEF Objects
<1> QED  BY <1>1, <1>2, <1>3, <1>14, <1>15, <1>16 DEF Facts

LEMMA Facts_process_msg3 == Facts("process_msg3")
<1>1. Code["process_msg3"] = process_msg3 /\ "process_msg3" \in Routines
  BY RoutineNames DEF Code
<1>2. /\ Len(process_msg3.steps) = 16 /\ process_msg3.cleanup = {}
      /\ process_msg3.gives = {} /\ process_msg3.by = "path"
  BY DEF process_msg3, Routine
<1>3. Owned["process_msg3"] = <<{}, {"msg3"}, {"msg3"}, {"msg3"}, {"msg3"}, {"b64quote", "msg3"},
     {"b64quote", "msg3"}, {"b64quote", "msg3"}, {"b64quote", "msg3"}, {"b64quote", "msg3"},
     {"b64quote", "msg3"}, {"b64quote", "msg3"}, {"b64quote", "msg3"}, {"b64quote", "msg3"},
     {"b64quote", "msg3"}, {"msg3"}, {}>>
  BY DEF Owned
<1>4. HoldsAt("process_msg3", 1)
  <2>1. Is(process_msg3.steps[1], "msg3", FALSE, "", "return", FALSE, "", {}, {})
    BY MakeIs, ReturnIs DEF process_msg3, Routine
  <2>2. StepFacts("process_msg3", process_msg3.steps[1], {}, {"msg3"})
    BY <1>1, <1>2, <2>1, RoutineNames
       DEF StepFacts, Objective, Lossy, Answered, Is, GoesOn, Tests, Loose, KnownLosses,
           SessionLoses, OwnKey, Tolerated, OfMsg01, OfMsg3,
           HiddenInMsg01, HiddenInMsg3, HandlersOfMsg3
  <2> QED  BY <1>1, <1>3, <2>2 DEF HoldsAt
<1>5. HoldsAt("process_msg3", 2)
  <2>1. Range(<<"msg3">>) = {"msg3"} /\ Repeated(<<"msg3">>) = {}
    BY SmallSequences
  <2>2. Is(process_msg3.steps[2], "", FALSE, "", "return", FALSE, "", {"msg3"}, {})
    BY <2>1, CallIs, ElseIs, ReturnIs DEF process_msg3, Routine
  <2>3. StepFacts("process_msg3", process_msg3.steps[2], {"msg3"}, {"msg3"})
    BY <1>1, <1>2, <2>2, RoutineNames
       DEF StepFacts, Objective, Lossy, Answered, Is, GoesOn, Tests, Loose, KnownLosses,
           SessionLoses, OwnKey, Tolerated, OfMsg01, OfMsg3,
           HiddenInMsg01, HiddenInMsg3, HandlersOfMsg3
  <2> QED  BY <1>1, <1>3, <2>3 DEF HoldsAt
<1>6. HoldsAt("process_msg3", 3)
  <2>1. Is(process_msg3.steps[3], "", FALSE, "cmac128", "unchecked", FALSE, "", {}, {})
    BY RunIs, UncheckedIs DEF process_msg3, Routine
  <2>2. StepFacts("process_msg3", process_msg3.steps[3], {"msg3"}, {"msg3"})
    BY <1>1, <1>2, <2>1, RoutineNames
       DEF StepFacts, Objective, Lossy, Answered, Is, GoesOn, Tests, Loose, KnownLosses,
           SessionLoses, OwnKey, Tolerated, OfMsg01, OfMsg3,
           HiddenInMsg01, HiddenInMsg3, HandlersOfMsg3
  <2> QED  BY <1>1, <1>3, <2>2 DEF HoldsAt
<1>7. HoldsAt("process_msg3", 4)
  <2>1. Range(<<"msg3">>) = {"msg3"} /\ Repeated(<<"msg3">>) = {}
    BY SmallSequences
  <2>2. Is(process_msg3.steps[4], "", FALSE, "", "return", FALSE, "", {"msg3"}, {})
    BY <2>1, CallIs, ElseIs, ReturnIs DEF process_msg3, Routine
  <2>3. StepFacts("process_msg3", process_msg3.steps[4], {"msg3"}, {"msg3"})
    BY <1>1, <1>2, <2>2, RoutineNames
       DEF StepFacts, Objective, Lossy, Answered, Is, GoesOn, Tests, Loose, KnownLosses,
           SessionLoses, OwnKey, Tolerated, OfMsg01, OfMsg3,
           HiddenInMsg01, HiddenInMsg3, HandlersOfMsg3
  <2> QED  BY <1>1, <1>3, <2>3 DEF HoldsAt
<1>8. HoldsAt("process_msg3", 5)
  <2>1. Range(<<"msg3">>) = {"msg3"} /\ Repeated(<<"msg3">>) = {}
    BY SmallSequences
  <2>2. Is(process_msg3.steps[5], "b64quote", FALSE, "base64_encode", "return", FALSE, "", {"msg3"}, {})
    BY <2>1, RunIs, ElseIs, ReturnIs DEF process_msg3, Routine
  <2>3. StepFacts("process_msg3", process_msg3.steps[5], {"msg3"}, {"b64quote", "msg3"})
    BY <1>1, <1>2, <2>2, RoutineNames
       DEF StepFacts, Objective, Lossy, Answered, Is, GoesOn, Tests, Loose, KnownLosses,
           SessionLoses, OwnKey, Tolerated, OfMsg01, OfMsg3,
           HiddenInMsg01, HiddenInMsg3, HandlersOfMsg3
  <2> QED  BY <1>1, <1>3, <2>3 DEF HoldsAt
<1>9. HoldsAt("process_msg3", 6)
  <2>1. Range(<<"b64quote", "msg3">>) = {"b64quote", "msg3"} /\ Repeated(<<"b64quote", "msg3">>) = {}
    BY SmallSequences
  <2>2. Is(process_msg3.steps[6], "", FALSE, "", "return", FALSE, "", {"b64quote", "msg3"}, {})
    BY <2>1, CallIs, ElseIs, ReturnIs DEF process_msg3, Routine
  <2>3. StepFacts("process_msg3", process_msg3.steps[6], {"b64quote", "msg3"}, {"b64quote", "msg3"})
    BY <1>1, <1>2, <2>2, RoutineNames
       DEF StepFacts, Objective, Lossy, Answered, Is, GoesOn, Tests, Loose, KnownLosses,
           SessionLoses, OwnKey, Tolerated, OfMsg01, OfMsg3,
           HiddenInMsg01, HiddenInMsg3, HandlersOfMsg3
  <2> QED  BY <1>1, <1>3, <2>3 DEF HoldsAt
<1>10. HoldsAt("process_msg3", 7)
  <2>1. Range(<<"msg3", "b64quote">>) = {"msg3", "b64quote"} /\ Repeated(<<"msg3", "b64quote">>) = {}
    BY SmallSequences
  <2>2. Is(process_msg3.steps[7], "", FALSE, "get_attestation_report", "return", FALSE, "", {"msg3", "b64quote"}, {})
    BY <2>1, RunIs, ElseIs, ReturnIs DEF process_msg3, Routine
  <2>3. StepFacts("process_msg3", process_msg3.steps[7], {"b64quote", "msg3"}, {"b64quote", "msg3"})
    BY <1>1, <1>2, <2>2, RoutineNames
       DEF StepFacts, Objective, Lossy, Answered, Is, GoesOn, Tests, Loose, KnownLosses,
           SessionLoses, OwnKey, Tolerated, OfMsg01, OfMsg3,
           HiddenInMsg01, HiddenInMsg3, HandlersOfMsg3
  <2> QED  BY <1>1, <1>3, <2>3 DEF HoldsAt
<1>11. HoldsAt("process_msg3", 8)
  <2>1. Is(process_msg3.steps[8], "", FALSE, "cmac128", "unchecked", FALSE, "", {}, {})
    BY RunIs, UncheckedIs DEF process_msg3, Routine
  <2>2. StepFacts("process_msg3", process_msg3.steps[8], {"b64quote", "msg3"}, {"b64quote", "msg3"})
    BY <1>1, <1>2, <2>1, RoutineNames
       DEF StepFacts, Objective, Lossy, Answered, Is, GoesOn, Tests, Loose, KnownLosses,
           SessionLoses, OwnKey, Tolerated, OfMsg01, OfMsg3,
           HiddenInMsg01, HiddenInMsg3, HandlersOfMsg3
  <2> QED  BY <1>1, <1>3, <2>2 DEF HoldsAt
<1>12. HoldsAt("process_msg3", 9)
  <2>1. Is(process_msg3.steps[9], "", FALSE, "sha256_digest", "unchecked", FALSE, "", {}, {})
    BY RunIs, UncheckedIs DEF process_msg3, Routine
  <2>2. StepFacts("process_msg3", process_msg3.steps[9], {"b64quote", "msg3"}, {"b64quote", "msg3"})
    BY <1>1, <1>2, <2>1, RoutineNames
       DEF StepFacts, Objective, Lossy, Answered, Is, GoesOn, Tests, Loose, KnownLosses,
           SessionLoses, OwnKey, Tolerated, OfMsg01, OfMsg3,
           HiddenInMsg01, HiddenInMsg3, HandlersOfMsg3
  <2> QED  BY <1>1, <1>3, <2>2 DEF HoldsAt
<1>13. HoldsAt("process_msg3", 10)
  <2>1. Range(<<"b64quote", "msg3">>) = {"b64quote", "msg3"} /\ Repeated(<<"b64quote", "msg3">>) = {}
    BY SmallSequences
  <2>2. Is(process_msg3.steps[10], "", FALSE, "", "return", FALSE, "", {"b64quote", "msg3"}, {})
    BY <2>1, CallIs, ElseIs, ReturnIs DEF process_msg3, Routine
  <2>3. StepFacts("process_msg3", process_msg3.steps[10], {"b64quote", "msg3"}, {"b64quote", "msg3"})
    BY <1>1, <1>2, <2>2, RoutineNames
       DEF StepFacts, Objective, Lossy, Answered, Is, GoesOn, Tests, Loose, KnownLosses,
           SessionLoses, OwnKey, Tolerated, OfMsg01, OfMsg3,
           HiddenInMsg01, HiddenInMsg3, HandlersOfMsg3
  <2> QED  BY <1>1, <1>3, <2>3 DEF HoldsAt
<1>14. HoldsAt("process_msg3", 11)
  <2>1. Is(process_msg3.steps[11], "", FALSE, "cmac128", "unchecked", FALSE, "", {}, {})
    BY RunIs, UncheckedIs DEF process_msg3, Routine
  <2>2. StepFacts("process_msg3", process_msg3.steps[11], {"b64quote", "msg3"}, {"b64quote", "msg3"})
    BY <1>1, <1>2, <2>1, RoutineNames
       DEF StepFacts, Objective, Lossy, Answered, Is, GoesOn, Tests, Loose, KnownLosses,
           SessionLoses, OwnKey, Tolerated, OfMsg01, OfMsg3,
           HiddenInMsg01, HiddenInMsg3, HandlersOfMsg3
  <2> QED  BY <1>1, <1>3, <2>2 DEF HoldsAt
<1>15. HoldsAt("process_msg3", 12)
  <2>1. Is(process_msg3.steps[12], "", FALSE, "cmac128", "unchecked", FALSE, "", {}, {})
    BY RunIs, UncheckedIs DEF process_msg3, Routine
  <2>2. StepFacts("process_msg3", process_msg3.steps[12], {"b64quote", "msg3"}, {"b64quote", "msg3"})
    BY <1>1, <1>2, <2>1, RoutineNames
       DEF StepFacts, Objective, Lossy, Answered, Is, GoesOn, Tests, Loose, KnownLosses,
           SessionLoses, OwnKey, Tolerated, OfMsg01, OfMsg3,
           HiddenInMsg01, HiddenInMsg3, HandlersOfMsg3
  <2> QED  BY <1>1, <1>3, <2>2 DEF HoldsAt
<1>16. HoldsAt("process_msg3", 13)
  <2>1. Is(process_msg3.steps[13], "", FALSE, "sha256_digest", "unchecked", FALSE, "", {}, {})
    BY RunIs, UncheckedIs DEF process_msg3, Routine
  <2>2. StepFacts("process_msg3", process_msg3.steps[13], {"b64quote", "msg3"}, {"b64quote", "msg3"})
    BY <1>1, <1>2, <2>1, RoutineNames
       DEF StepFacts, Objective, Lossy, Answered, Is, GoesOn, Tests, Loose, KnownLosses,
           SessionLoses, OwnKey, Tolerated, OfMsg01, OfMsg3,
           HiddenInMsg01, HiddenInMsg3, HandlersOfMsg3
  <2> QED  BY <1>1, <1>3, <2>2 DEF HoldsAt
<1>17. HoldsAt("process_msg3", 14)
  <2>1. Is(process_msg3.steps[14], "", FALSE, "sha256_digest", "unchecked", FALSE, "", {}, {})
    BY RunIs, UncheckedIs DEF process_msg3, Routine
  <2>2. StepFacts("process_msg3", process_msg3.steps[14], {"b64quote", "msg3"}, {"b64quote", "msg3"})
    BY <1>1, <1>2, <2>1, RoutineNames
       DEF StepFacts, Objective, Lossy, Answered, Is, GoesOn, Tests, Loose, KnownLosses,
           SessionLoses, OwnKey, Tolerated, OfMsg01, OfMsg3,
           HiddenInMsg01, HiddenInMsg3, HandlersOfMsg3
  <2> QED  BY <1>1, <1>3, <2>2 DEF HoldsAt
<1>18. HoldsAt("process_msg3", 15)
  <2>1. Is(process_msg3.steps[15], "b64quote", TRUE, "", "cleanup", FALSE, "", {}, {})
    BY FreeIs DEF process_msg3, Routine
  <2>2. StepFacts("process_msg3", process_msg3.steps[15], {"b64quote", "msg3"}, {"msg3"})
    BY <1>1, <1>2, <2>1, RoutineNames
       DEF StepFacts, Objective, Lossy, Answered, Is, GoesOn, Tests, Loose, KnownLosses,
           SessionLoses, OwnKey, Tolerated, OfMsg01, OfMsg3,
           HiddenInMsg01, HiddenInMsg3, HandlersOfMsg3
  <2> QED  BY <1>1, <1>3, <2>2 DEF HoldsAt
<1>19. HoldsAt("process_msg3", 16)
  <2>1. Is(process_msg3.steps[16], "msg3", TRUE, "", "cleanup", FALSE, "", {}, {})
    BY FreeIs DEF process_msg3, Routine
  <2>2. StepFacts("process_msg3", process_msg3.steps[16], {"msg3"}, {})
    BY <1>1, <1>2, <2>1, RoutineNames
       DEF StepFacts, Objective, Lossy, Answered, Is, GoesOn, Tests, Loose, KnownLosses,
           SessionLoses, OwnKey, Tolerated, OfMsg01, OfMsg3,
           HiddenInMsg01, HiddenInMsg3, HandlersOfMsg3
  <2> QED  BY <1>1, <1>3, <2>2 DEF HoldsAt
<1>20. \A n \in 1 .. 16 : HoldsAt("process_msg3", n)
  BY <1>4, <1>5, <1>6, <1>7, <1>8, <1>9, <1>10, <1>11, <1>12, <1>13, <1>14, <1>15, <1>16, <1>17, <1>18, <1>19
<1>21. EndFacts("process_msg3", {})
  BY <1>1, <1>2 DEF EndFacts, KnownLosses, SessionLoses, OwnKey
<1>22. \A n \in 1 .. 17 : Owned["process_msg3"][n] \subseteq Objects
  BY <1>1, <1>3 DEF Objects
<1> QED  BY <1>1, <1>2, <1>3, <1>20, <1>21, <1>22 DEF Facts

LEMMA Facts_process_msg3_refused == Facts("process_msg3_refused")
<1>1. Code["process_msg3_refused"] = process_msg3_refused /\ "process_msg3_refused" \in Routines
  BY RoutineNames DEF Code
<1>2. /\ Len(process_msg3_refused.steps) = 12 /\ process_msg3_refused.cleanup = {}
      /\ process_msg3_refused.gives = {} /\ process_msg3_refused.by = "path"
  BY DEF process_msg3_refused, Routine
<1>3. Owned["process_msg3_refused"] = <<{}, {"msg3"}, {"msg3"}, {"msg3"}, {"msg3"},
     {"b64quote", "msg3"}, {"b64quote", "msg3"}, {"b64quote", "msg3"}, {"b64quote", "msg3"},
     {"b64quote", "msg3"}, {"b64quote", "msg3"}, {"msg3"}, {}>>
  BY DEF Owned
<1>4. HoldsAt("process_msg3_refused", 1)
  <2>1. Is(process_msg3_refused.steps[1], "msg3", FALSE, "", "return", FALSE, "", {}, {})
    BY MakeIs, ReturnIs DEF process_msg3_refused, Routine
  <2>2. StepFacts("process_msg3_refused", process_msg3_refused.steps[1], {}, {"msg3"})
    BY <1>1, <1>2, <2>1, RoutineNames
       DEF StepFacts, Objective, Lossy, Answered, Is, GoesOn, Tests, Loose, KnownLosses,
           SessionLoses, OwnKey, Tolerated, OfMsg01, OfMsg3,
           HiddenInMsg01, HiddenInMsg3, HandlersOfMsg3
  <2> QED  BY <1>1, <1>3, <2>2 DEF HoldsAt
<1>5. HoldsAt("process_msg3_refused", 2)
  <2>1. Range(<<"msg3">>) = {"msg3"} /\ Repeated(<<"msg3">>) = {}
    BY SmallSequences
  <2>2. Is(process_msg3_refused.steps[2], "", FALSE, "", "return", FALSE, "", {"msg3"}, {})
    BY <2>1, CallIs, ElseIs, ReturnIs DEF process_msg3_refused, Routine
  <2>3. StepFacts("process_msg3_refused", process_msg3_refused.steps[2], {"msg3"}, {"msg3"})
    BY <1>1, <1>2, <2>2, RoutineNames
       DEF StepFacts, Objective, Lossy, Answered, Is, GoesOn, Tests, Loose, KnownLosses,
           SessionLoses, OwnKey, Tolerated, OfMsg01, OfMsg3,
           HiddenInMsg01, HiddenInMsg3, HandlersOfMsg3
  <2> QED  BY <1>1, <1>3, <2>3 DEF HoldsAt
<1>6. HoldsAt("process_msg3_refused", 3)
  <2>1. Is(process_msg3_refused.steps[3], "", FALSE, "cmac128", "unchecked", FALSE, "", {}, {})
    BY RunIs, UncheckedIs DEF process_msg3_refused, Routine
  <2>2. StepFacts("process_msg3_refused", process_msg3_refused.steps[3], {"msg3"}, {"msg3"})
    BY <1>1, <1>2, <2>1, RoutineNames
       DEF StepFacts, Objective, Lossy, Answered, Is, GoesOn, Tests, Loose, KnownLosses,
           SessionLoses, OwnKey, Tolerated, OfMsg01, OfMsg3,
           HiddenInMsg01, HiddenInMsg3, HandlersOfMsg3
  <2> QED  BY <1>1, <1>3, <2>2 DEF HoldsAt
<1>7. HoldsAt("process_msg3_refused", 4)
  <2>1. Range(<<"msg3">>) = {"msg3"} /\ Repeated(<<"msg3">>) = {}
    BY SmallSequences
  <2>2. Is(process_msg3_refused.steps[4], "", FALSE, "", "return", FALSE, "", {"msg3"}, {})
    BY <2>1, CallIs, ElseIs, ReturnIs DEF process_msg3_refused, Routine
  <2>3. StepFacts("process_msg3_refused", process_msg3_refused.steps[4], {"msg3"}, {"msg3"})
    BY <1>1, <1>2, <2>2, RoutineNames
       DEF StepFacts, Objective, Lossy, Answered, Is, GoesOn, Tests, Loose, KnownLosses,
           SessionLoses, OwnKey, Tolerated, OfMsg01, OfMsg3,
           HiddenInMsg01, HiddenInMsg3, HandlersOfMsg3
  <2> QED  BY <1>1, <1>3, <2>3 DEF HoldsAt
<1>8. HoldsAt("process_msg3_refused", 5)
  <2>1. Range(<<"msg3">>) = {"msg3"} /\ Repeated(<<"msg3">>) = {}
    BY SmallSequences
  <2>2. Is(process_msg3_refused.steps[5], "b64quote", FALSE, "base64_encode", "return", FALSE, "", {"msg3"}, {})
    BY <2>1, RunIs, ElseIs, ReturnIs DEF process_msg3_refused, Routine
  <2>3. StepFacts("process_msg3_refused", process_msg3_refused.steps[5], {"msg3"}, {"b64quote", "msg3"})
    BY <1>1, <1>2, <2>2, RoutineNames
       DEF StepFacts, Objective, Lossy, Answered, Is, GoesOn, Tests, Loose, KnownLosses,
           SessionLoses, OwnKey, Tolerated, OfMsg01, OfMsg3,
           HiddenInMsg01, HiddenInMsg3, HandlersOfMsg3
  <2> QED  BY <1>1, <1>3, <2>3 DEF HoldsAt
<1>9. HoldsAt("process_msg3_refused", 6)
  <2>1. Range(<<"b64quote", "msg3">>) = {"b64quote", "msg3"} /\ Repeated(<<"b64quote", "msg3">>) = {}
    BY SmallSequences
  <2>2. Is(process_msg3_refused.steps[6], "", FALSE, "", "return", FALSE, "", {"b64quote", "msg3"}, {})
    BY <2>1, CallIs, ElseIs, ReturnIs DEF process_msg3_refused, Routine
  <2>3. StepFacts("process_msg3_refused", process_msg3_refused.steps[6], {"b64quote", "msg3"}, {"b64quote", "msg3"})
    BY <1>1, <1>2, <2>2, RoutineNames
       DEF StepFacts, Objective, Lossy, Answered, Is, GoesOn, Tests, Loose, KnownLosses,
           SessionLoses, OwnKey, Tolerated, OfMsg01, OfMsg3,
           HiddenInMsg01, HiddenInMsg3, HandlersOfMsg3
  <2> QED  BY <1>1, <1>3, <2>3 DEF HoldsAt
<1>10. HoldsAt("process_msg3_refused", 7)
  <2>1. Range(<<"msg3", "b64quote">>) = {"msg3", "b64quote"} /\ Repeated(<<"msg3", "b64quote">>) = {}
    BY SmallSequences
  <2>2. Is(process_msg3_refused.steps[7], "", FALSE, "get_attestation_report", "return", FALSE, "", {"msg3", "b64quote"}, {})
    BY <2>1, RunIs, ElseIs, ReturnIs DEF process_msg3_refused, Routine
  <2>3. StepFacts("process_msg3_refused", process_msg3_refused.steps[7], {"b64quote", "msg3"}, {"b64quote", "msg3"})
    BY <1>1, <1>2, <2>2, RoutineNames
       DEF StepFacts, Objective, Lossy, Answered, Is, GoesOn, Tests, Loose, KnownLosses,
           SessionLoses, OwnKey, Tolerated, OfMsg01, OfMsg3,
           HiddenInMsg01, HiddenInMsg3, HandlersOfMsg3
  <2> QED  BY <1>1, <1>3, <2>3 DEF HoldsAt
<1>11. HoldsAt("process_msg3_refused", 8)
  <2>1. Is(process_msg3_refused.steps[8], "", FALSE, "cmac128", "unchecked", FALSE, "", {}, {})
    BY RunIs, UncheckedIs DEF process_msg3_refused, Routine
  <2>2. StepFacts("process_msg3_refused", process_msg3_refused.steps[8], {"b64quote", "msg3"}, {"b64quote", "msg3"})
    BY <1>1, <1>2, <2>1, RoutineNames
       DEF StepFacts, Objective, Lossy, Answered, Is, GoesOn, Tests, Loose, KnownLosses,
           SessionLoses, OwnKey, Tolerated, OfMsg01, OfMsg3,
           HiddenInMsg01, HiddenInMsg3, HandlersOfMsg3
  <2> QED  BY <1>1, <1>3, <2>2 DEF HoldsAt
<1>12. HoldsAt("process_msg3_refused", 9)
  <2>1. Is(process_msg3_refused.steps[9], "", FALSE, "sha256_digest", "unchecked", FALSE, "", {}, {})
    BY RunIs, UncheckedIs DEF process_msg3_refused, Routine
  <2>2. StepFacts("process_msg3_refused", process_msg3_refused.steps[9], {"b64quote", "msg3"}, {"b64quote", "msg3"})
    BY <1>1, <1>2, <2>1, RoutineNames
       DEF StepFacts, Objective, Lossy, Answered, Is, GoesOn, Tests, Loose, KnownLosses,
           SessionLoses, OwnKey, Tolerated, OfMsg01, OfMsg3,
           HiddenInMsg01, HiddenInMsg3, HandlersOfMsg3
  <2> QED  BY <1>1, <1>3, <2>2 DEF HoldsAt
<1>13. HoldsAt("process_msg3_refused", 10)
  <2>1. Range(<<"b64quote", "msg3">>) = {"b64quote", "msg3"} /\ Repeated(<<"b64quote", "msg3">>) = {}
    BY SmallSequences
  <2>2. Is(process_msg3_refused.steps[10], "", FALSE, "", "return", FALSE, "", {"b64quote", "msg3"}, {})
    BY <2>1, CallIs, ElseIs, ReturnIs DEF process_msg3_refused, Routine
  <2>3. StepFacts("process_msg3_refused", process_msg3_refused.steps[10], {"b64quote", "msg3"}, {"b64quote", "msg3"})
    BY <1>1, <1>2, <2>2, RoutineNames
       DEF StepFacts, Objective, Lossy, Answered, Is, GoesOn, Tests, Loose, KnownLosses,
           SessionLoses, OwnKey, Tolerated, OfMsg01, OfMsg3,
           HiddenInMsg01, HiddenInMsg3, HandlersOfMsg3
  <2> QED  BY <1>1, <1>3, <2>3 DEF HoldsAt
<1>14. HoldsAt("process_msg3_refused", 11)
  <2>1. Is(process_msg3_refused.steps[11], "b64quote", TRUE, "", "cleanup", FALSE, "", {}, {})
    BY FreeIs DEF process_msg3_refused, Routine
  <2>2. StepFacts("process_msg3_refused", process_msg3_refused.steps[11], {"b64quote", "msg3"}, {"msg3"})
    BY <1>1, <1>2, <2>1, RoutineNames
       DEF StepFacts, Objective, Lossy, Answered, Is, GoesOn, Tests, Loose, KnownLosses,
           SessionLoses, OwnKey, Tolerated, OfMsg01, OfMsg3,
           HiddenInMsg01, HiddenInMsg3, HandlersOfMsg3
  <2> QED  BY <1>1, <1>3, <2>2 DEF HoldsAt
<1>15. HoldsAt("process_msg3_refused", 12)
  <2>1. Is(process_msg3_refused.steps[12], "msg3", TRUE, "", "cleanup", FALSE, "", {}, {})
    BY FreeIs DEF process_msg3_refused, Routine
  <2>2. StepFacts("process_msg3_refused", process_msg3_refused.steps[12], {"msg3"}, {})
    BY <1>1, <1>2, <2>1, RoutineNames
       DEF StepFacts, Objective, Lossy, Answered, Is, GoesOn, Tests, Loose, KnownLosses,
           SessionLoses, OwnKey, Tolerated, OfMsg01, OfMsg3,
           HiddenInMsg01, HiddenInMsg3, HandlersOfMsg3
  <2> QED  BY <1>1, <1>3, <2>2 DEF HoldsAt
<1>16. \A n \in 1 .. 12 : HoldsAt("process_msg3_refused", n)
  BY <1>4, <1>5, <1>6, <1>7, <1>8, <1>9, <1>10, <1>11, <1>12, <1>13, <1>14, <1>15
<1>17. EndFacts("process_msg3_refused", {})
  BY <1>1, <1>2 DEF EndFacts, KnownLosses, SessionLoses, OwnKey
<1>18. \A n \in 1 .. 13 : Owned["process_msg3_refused"][n] \subseteq Objects
  BY <1>1, <1>3 DEF Objects
<1> QED  BY <1>1, <1>2, <1>3, <1>16, <1>17, <1>18 DEF Facts

LEMMA Facts_report == Facts("report")
<1>1. Code["report"] = report /\ "report" \in Routines
  BY RoutineNames DEF Code
<1>2. /\ Len(report.steps) = 7 /\ report.cleanup = {"cert", "certar", "pkey", "sig", "stack"}
      /\ report.gives = {} /\ report.by = "path"
  BY DEF report, Routine
<1>3. Owned["report"] = <<{}, {"cert"}, {"cert", "certar"}, {"cert", "certar", "stack"},
     {"cert", "certar", "stack"}, {"cert", "certar", "sig", "stack"},
     {"cert", "certar", "pkey", "sig", "stack"}, {"cert", "certar", "pkey", "sig", "stack"}>>
  BY DEF Owned
<1>4. HoldsAt("report", 1)
  <2>1. Is(report.steps[1], "cert", FALSE, "cert_load", "return", FALSE, "", {}, {})
    BY RunIs, ReturnIs DEF report, Routine
  <2>2. StepFacts("report", report.steps[1], {}, {"cert"})
    BY <1>1, <1>2, <2>1, RoutineNames
       DEF StepFacts, Objective, Lossy, Answered, Is, GoesOn, Tests, Loose, KnownLosses,
           SessionLoses, OwnKey, Tolerated, OfMsg01, OfMsg3,
           HiddenInMsg01, HiddenInMsg3, HandlersOfMsg3
  <2> QED  BY <1>1, <1>3, <2>2 DEF HoldsAt
<1>5. HoldsAt("report", 2)
  <2>1. Is(report.steps[2], "certar", FALSE, "", "return", FALSE, "", {}, {})
    BY MakeIs, ReturnIs DEF report, Routine
  <2>2. StepFacts("report", report.steps[2], {"cert"}, {"cert", "certar"})
    BY <1>1, <1>2, <2>1, RoutineNames
       DEF StepFacts, Objective, Lossy, Answered, Is, GoesOn, Tests, Loose, KnownLosses,
           SessionLoses, OwnKey, Tolerated, OfMsg01, OfMsg3,
           HiddenInMsg01, HiddenInMsg3, HandlersOfMsg3
  <2> QED  BY <1>1, <1>3, <2>2 DEF HoldsAt
<1>6. HoldsAt("report", 3)
  <2>1. Is(report.steps[3], "stack", FALSE, "cert_stack_build", "cleanup", FALSE, "", {}, {})
    BY RunIs DEF report, Routine
  <2>2. StepFacts("report", report.steps[3], {"cert", "certar"}, {"cert", "certar", "stack"})
    BY <1>1, <1>2, <2>1, RoutineNames
       DEF StepFacts, Objective, Lossy, Answered, Is, GoesOn, Tests, Loose, KnownLosses,
           SessionLoses, OwnKey, Tolerated, OfMsg01, OfMsg3,
           HiddenInMsg01, HiddenInMsg3, HandlersOfMsg3
  <2> QED  BY <1>1, <1>3, <2>2 DEF HoldsAt
<1>7. HoldsAt("report", 4)
  <2>1. Is(report.steps[4], "", FALSE, "cert_verify", "cleanup", FALSE, "", {}, {})
    BY RunIs DEF report, Routine
  <2>2. StepFacts("report", report.steps[4], {"cert", "certar", "stack"}, {"cert", "certar", "stack"})
    BY <1>1, <1>2, <2>1, RoutineNames
       DEF StepFacts, Objective, Lossy, Answered, Is, GoesOn, Tests, Loose, KnownLosses,
           SessionLoses, OwnKey, Tolerated, OfMsg01, OfMsg3,
           HiddenInMsg01, HiddenInMsg3, HandlersOfMsg3
  <2> QED  BY <1>1, <1>3, <2>2 DEF HoldsAt
<1>8. HoldsAt("report", 5)
  <2>1. Is(report.steps[5], "sig", FALSE, "base64_decode", "cleanup", FALSE, "", {}, {})
    BY RunIs DEF report, Routine
  <2>2. StepFacts("report", report.steps[5], {"cert", "certar", "stack"}, {"cert", "certar", "sig", "stack"})
    BY <1>1, <1>2, <2>1, RoutineNames
       DEF StepFacts, Objective, Lossy, Answered, Is, GoesOn, Tests, Loose, KnownLosses,
           SessionLoses, OwnKey, Tolerated, OfMsg01, OfMsg3,
           HiddenInMsg01, HiddenInMsg3, HandlersOfMsg3
  <2> QED  BY <1>1, <1>3, <2>2 DEF HoldsAt
<1>9. HoldsAt("report", 6)
  <2>1. Is(report.steps[6], "pkey", FALSE, "", "cleanup", FALSE, "", {}, {})
    BY MakeIs DEF report, Routine
  <2>2. StepFacts("report", report.steps[6], {"cert", "certar", "sig", "stack"}, {"cert", "certar", "pkey", "sig", "stack"})
    BY <1>1, <1>2, <2>1, RoutineNames
       DEF StepFacts, Objective, Lossy, Answered, Is, GoesOn, Tests, Loose, KnownLosses,
           SessionLoses, OwnKey, Tolerated, OfMsg01, OfMsg3,
           HiddenInMsg01, HiddenInMsg3, HandlersOfMsg3
  <2> QED  BY <1>1, <1>3, <2>2 DEF HoldsAt
<1>10. HoldsAt("report", 7)
  <2>1. Is(report.steps[7], "", FALSE, "sha256_verify", "cleanup", FALSE, "", {}, {})
    BY RunIs DEF report, Routine
  <2>2. StepFacts("report", report.steps[7], {"cert", "certar", "pkey", "sig", "stack"}, {"cert", "certar", "pkey", "sig", "stack"})
    BY <1>1, <1>2, <2>1, RoutineNames
       DEF StepFacts, Objective, Lossy, Answered, Is, GoesOn, Tests, Loose, KnownLosses,
           SessionLoses, OwnKey, Tolerated, OfMsg01, OfMsg3,
           HiddenInMsg01, HiddenInMsg3, HandlersOfMsg3
  <2> QED  BY <1>1, <1>3, <2>2 DEF HoldsAt
<1>11. \A n \in 1 .. 7 : HoldsAt("report", n)
  BY <1>4, <1>5, <1>6, <1>7, <1>8, <1>9, <1>10
<1>12. EndFacts("report", {"cert", "certar", "pkey", "sig", "stack"})
  BY <1>1, <1>2 DEF EndFacts, KnownLosses, SessionLoses, OwnKey
<1>13. \A n \in 1 .. 8 : Owned["report"][n] \subseteq Objects
  BY <1>1, <1>3 DEF Objects
<1> QED  BY <1>1, <1>2, <1>3, <1>11, <1>12, <1>13 DEF Facts

LEMMA Facts_get_attestation_report == Facts("get_attestation_report")
<1>1. Code["get_attestation_report"] = get_attestation_report /\ "get_attestation_report" \in Routines
  BY RoutineNames DEF Code
<1>2. /\ Len(get_attestation_report.steps) = 3 /\ get_attestation_report.cleanup = {}
      /\ get_attestation_report.gives = {} /\ get_attestation_report.by = "path"
  BY DEF get_attestation_report, Routine
<1>3. Owned["get_attestation_report"] = <<{}, {"req"}, {"req"}, {}>>
  BY DEF Owned
<1>4. HoldsAt("get_attestation_report", 1)
  <2>1. Is(get_attestation_report.steps[1], "req", FALSE, "", "return", FALSE, "", {}, {})
    BY MakeIs, ReturnIs DEF get_attestation_report, Routine
  <2>2. StepFacts("get_attestation_report", get_attestation_report.steps[1], {}, {"req"})
    BY <1>1, <1>2, <2>1, RoutineNames
       DEF StepFacts, Objective, Lossy, Answered, Is, GoesOn, Tests, Loose, KnownLosses,
           SessionLoses, OwnKey, Tolerated, OfMsg01, OfMsg3,
           HiddenInMsg01, HiddenInMsg3, HandlersOfMsg3
  <2> QED  BY <1>1, <1>3, <2>2 DEF HoldsAt
<1>5. HoldsAt("get_attestation_report", 2)
  <2>1. Range(<<"req">>) = {"req"} /\ Repeated(<<"req">>) = {}
    BY SmallSequences
  <2>2. Is(get_attestation_report.steps[2], "", FALSE, "report", "return", FALSE, "", {"req"}, {})
    BY <2>1, RunIs, ElseIs, ReturnIs DEF get_attestation_report, Routine
  <2>3. StepFacts("get_attestation_report", get_attestation_report.steps[2], {"req"}, {"req"})
    BY <1>1, <1>2, <2>2, RoutineNames
       DEF StepFacts, Objective, Lossy, Answered, Is, GoesOn, Tests, Loose, KnownLosses,
           SessionLoses, OwnKey, Tolerated, OfMsg01, OfMsg3,
           HiddenInMsg01, HiddenInMsg3, HandlersOfMsg3
  <2> QED  BY <1>1, <1>3, <2>3 DEF HoldsAt
<1>6. HoldsAt("get_attestation_report", 3)
  <2>1. Is(get_attestation_report.steps[3], "req", TRUE, "", "cleanup", FALSE, "", {}, {})
    BY FreeIs DEF get_attestation_report, Routine
  <2>2. StepFacts("get_attestation_report", get_attestation_report.steps[3], {"req"}, {})
    BY <1>1, <1>2, <2>1, RoutineNames
       DEF StepFacts, Objective, Lossy, Answered, Is, GoesOn, Tests, Loose, KnownLosses,
           SessionLoses, OwnKey, Tolerated, OfMsg01, OfMsg3,
           HiddenInMsg01, HiddenInMsg3, HandlersOfMsg3
  <2> QED  BY <1>1, <1>3, <2>2 DEF HoldsAt
<1>7. \A n \in 1 .. 3 : HoldsAt("get_attestation_report", n)
  BY <1>4, <1>5, <1>6
<1>8. EndFacts("get_attestation_report", {})
  BY <1>1, <1>2 DEF EndFacts, KnownLosses, SessionLoses, OwnKey
<1>9. \A n \in 1 .. 4 : Owned["get_attestation_report"][n] \subseteq Objects
  BY <1>1, <1>3 DEF Objects
<1> QED  BY <1>1, <1>2, <1>3, <1>7, <1>8, <1>9 DEF Facts

LEMMA Facts_signing_ca == Facts("signing_ca")
<1>1. Code["signing_ca"] = signing_ca /\ "signing_ca" \in Routines
  BY RoutineNames DEF Code
<1>2. /\ Len(signing_ca.steps) = 2 /\ signing_ca.cleanup = {}
      /\ signing_ca.gives = {"signing_ca", "store"} /\ signing_ca.by = "path"
  BY DEF signing_ca, Routine
<1>3. Owned["signing_ca"] = <<{}, {"signing_ca"}, {"signing_ca", "store"}>>
  BY DEF Owned
<1>4. HoldsAt("signing_ca", 1)
  <2>1. Is(signing_ca.steps[1], "signing_ca", FALSE, "cert_load_file", "return", FALSE, "", {}, {})
    BY RunIs, ReturnIs DEF signing_ca, Routine
  <2>2. StepFacts("signing_ca", signing_ca.steps[1], {}, {"signing_ca"})
    BY <1>1, <1>2, <2>1, RoutineNames
       DEF StepFacts, Objective, Lossy, Answered, Is, GoesOn, Tests, Loose, KnownLosses,
           SessionLoses, OwnKey, Tolerated, OfMsg01, OfMsg3,
           HiddenInMsg01, HiddenInMsg3, HandlersOfMsg3
  <2> QED  BY <1>1, <1>3, <2>2 DEF HoldsAt
<1>5. HoldsAt("signing_ca", 2)
  <2>1. Is(signing_ca.steps[2], "store", FALSE, "cert_init_ca", "return", FALSE, "", {}, {})
    BY RunIs, ReturnIs DEF signing_ca, Routine
  <2>2. StepFacts("signing_ca", signing_ca.steps[2], {"signing_ca"}, {"signing_ca", "store"})
    BY <1>1, <1>2, <2>1, RoutineNames
       DEF StepFacts, Objective, Lossy, Answered, Is, GoesOn, Tests, Loose, KnownLosses,
           SessionLoses, OwnKey, Tolerated, OfMsg01, OfMsg3,
           HiddenInMsg01, HiddenInMsg3, HandlersOfMsg3
  <2> QED  BY <1>1, <1>3, <2>2 DEF HoldsAt
<1>6. \A n \in 1 .. 2 : HoldsAt("signing_ca", n)
  BY <1>4, <1>5
<1>7. EndFacts("signing_ca", {"signing_ca", "store"})
  BY <1>1, <1>2 DEF EndFacts, KnownLosses, SessionLoses, OwnKey
<1>8. \A n \in 1 .. 3 : Owned["signing_ca"][n] \subseteq Objects
  BY <1>1, <1>3 DEF Objects
<1> QED  BY <1>1, <1>2, <1>3, <1>6, <1>7, <1>8 DEF Facts

-----------------------------------------------------------------------------
(* A frame and its step *)

LEMMA AllFacts == \A r \in Routines : Facts(r)
BY RoutineNames,
    Facts_key_load_private, Facts_key_load_public, Facts_key_load_file,
    Facts_key_to_sgx_ec256, Facts_key_private_from_bytes, Facts_key_from_sgx_ec256,
    Facts_key_generate, Facts_key_shared_secret, Facts_cmac128, Facts_sha256_digest,
    Facts_sha256_verify, Facts_ecdsa_sign, Facts_cert_load_file, Facts_cert_load,
    Facts_cert_init_ca, Facts_cert_verify, Facts_cert_stack_build, Facts_base64_encode,
    Facts_base64_decode, Facts_derive_kdk, Facts_get_sigrl, Facts_process_msg01,
    Facts_process_msg3, Facts_process_msg3_refused, Facts_report,
    Facts_get_attestation_report, Facts_signing_ca

\* The steps that the invariant speaks of.
LEMMA NamedSteps ==
  /\ Len(Code["cert_load_file"].steps) = 3
  /\ Code["cert_load_file"].steps[1].fail = "return"
  /\ Code["cert_load_file"].steps[3].frees /\ Code["cert_load_file"].steps[3].obj = "fp"
  /\ Code["process_msg01"].steps[4].of = "derive_kdk" /\ Code["process_msg01"].steps[4].fail = "return"
  /\ Code["process_msg01"].steps[7].of = "get_sigrl" /\ Code["process_msg01"].steps[7].fail = "return"
  /\ Code["derive_kdk"].steps[1].of = "key_from_sgx_ec256" /\ Code["derive_kdk"].steps[1].fail = "return"
  /\ Code["get_sigrl"].steps[3].of = "base64_decode" /\ Code["get_sigrl"].steps[3].fail = "return"
  /\ Code["cert_load_file"].by = "error" /\ Code["sha256_digest"].by = "error"
  /\ Code["key_load_private"].by = "error" /\ Code["key_load_file"].by = "error"
<1>1. /\ Code["cert_load_file"] = cert_load_file /\ Code["process_msg01"] = process_msg01
      /\ Code["derive_kdk"] = derive_kdk /\ Code["get_sigrl"] = get_sigrl
      /\ Code["sha256_digest"] = sha256_digest /\ Code["key_load_private"] = key_load_private
      /\ Code["key_load_file"] = key_load_file
  BY DEF Code
<1>2. Range(<<"msg01">>) = {"msg01"} /\ Repeated(<<"msg01">>) = {}
  BY SmallSequences
<1>3. Range(<<"req">>) = {"req"} /\ Repeated(<<"req">>) = {}
  BY SmallSequences
<1>4. /\ Len(cert_load_file.steps) = 3 /\ cert_load_file.by = "error" /\ sha256_digest.by = "error"
      /\ key_load_private.by = "error" /\ key_load_file.by = "error"
  BY DEF cert_load_file, sha256_digest, key_load_private, key_load_file, Routine
<1>5. Is(cert_load_file.steps[1], "fp", FALSE, "", "return", FALSE, "", {}, {})
  BY MakeIs, ReturnIs DEF cert_load_file, Routine
<1>6. Is(cert_load_file.steps[3], "fp", TRUE, "", "cleanup", FALSE, "", {}, {})
  BY FreeIs DEF cert_load_file, Routine
<1>7. Is(process_msg01.steps[4], "", FALSE, "derive_kdk", "return", FALSE, "", {"msg01"}, {})
  BY <1>2, RunIs, ElseIs, ReturnIs DEF process_msg01, Routine
<1>8. Is(process_msg01.steps[7], "sigrl", FALSE, "get_sigrl", "return", FALSE, "", {"msg01"}, {})
  BY <1>2, RunIs, ElseIs, ReturnIs DEF process_msg01, Routine
<1>9. Is(derive_kdk.steps[1], "Ga", FALSE, "key_from_sgx_ec256", "return", FALSE, "", {}, {})
  BY RunIs, ReturnIs DEF derive_kdk, Routine
<1>10. Is(get_sigrl.steps[3], "sig_rl", FALSE, "base64_decode", "return", FALSE, "", {"req"}, {})
  BY <1>3, RunIs, ElseIs, ReturnIs DEF get_sigrl, Routine
<1>11. /\ cert_load_file.steps[1].fail = "return"
       /\ cert_load_file.steps[3].frees /\ cert_load_file.steps[3].obj = "fp"
  BY <1>5, <1>6 DEF Is
<1>12. /\ process_msg01.steps[4].of = "derive_kdk" /\ process_msg01.steps[4].fail = "return"
       /\ process_msg01.steps[7].of = "get_sigrl" /\ process_msg01.steps[7].fail = "return"
  BY <1>7, <1>8 DEF Is
<1>13. /\ derive_kdk.steps[1].of = "key_from_sgx_ec256" /\ derive_kdk.steps[1].fail = "return"
       /\ get_sigrl.steps[3].of = "base64_decode" /\ get_sigrl.steps[3].fail = "return"
  BY <1>9, <1>10 DEF Is
<1> QED
  BY <1>1, <1>4, <1>11, <1>12, <1>13, Zenon

\* What is known of the step that f is at.
LEMMA AtStep ==
  ASSUME NEW f \in Frames, f.at \in 1 .. Len(Of(f).steps) + 1, ~AtEnd(f)
  PROVE  /\ f.of \in Routines /\ f.at \in 1 .. Len(Of(f).steps) /\ Len(Of(f).steps) \in Nat
         /\ StepFacts(f.of, Step(f), Before(f), Owned[f.of][f.at + 1])
         /\ Before(f) \subseteq Objects /\ Owned[f.of][f.at + 1] \subseteq Objects
<1>1. f.of \in Routines /\ Facts(f.of) /\ f.at \in Nat
  BY AllFacts DEF Frames
<1>2. Len(Code[f.of].steps) \in Nat
  BY <1>1 DEF Facts
<1>3. f.at \in 1 .. Len(Code[f.of].steps)
  BY <1>1, <1>2 DEF AtEnd, Of
<1>4. StepFacts(f.of, Code[f.of].steps[f.at], Owned[f.of][f.at], Owned[f.of][f.at + 1])
  BY <1>1, <1>3 DEF Facts, HoldsAt
<1>5. Owned[f.of][f.at] \subseteq Objects /\ Owned[f.of][f.at + 1] \subseteq Objects
  BY <1>1, <1>2, <1>3 DEF Facts
<1> QED  BY <1>1, <1>2, <1>3, <1>4, <1>5 DEF Of, Step, Before

\* A frame that is at a step is on its way.
LEMMA AtStepGoes ==
  ASSUME NEW f \in Frames, NEW ov, FrameOK(f, ov), ~AtEnd(f)
  PROVE  Going(f, ov)
BY DEF FrameOK, Stopped

\* What has been noticed on the way is that there is no certificate in a file.
LEMMA FailedIs ==
  ASSUME NEW f \in Frames, NEW ov, FrameOK(f, ov), ~AtEnd(f), f.failed
  PROVE  Step(f).frees /\ Step(f).obj = "fp" /\ f.of = "cert_load_file" /\ f.at = 3
<1>1. f.of = "cert_load_file" /\ f.at \in {3, 4}
  BY AtStepGoes DEF Going
<1>2. Len(Code[f.of].steps) = 3
  BY <1>1, NamedSteps
<1>3. f.at = 3
  BY <1>1, <1>2 DEF AtEnd, Of
<1> QED  BY <1>1, <1>3, NamedSteps DEF Of, Step

LEMMA Remade ==
  ASSUME NEW f \in Frames, NEW a \in Nat, NEW o \in SUBSET Objects, NEW e \in SUBSET Objects,
         NEW b \in BOOLEAN, NEW c \in BOOLEAN
  PROVE  /\ [f EXCEPT !.at = a, !.owns = o, !.freed = e] \in Frames
         /\ [f EXCEPT !.at = a, !.freed = e, !.failed = b] \in Frames
         /\ [f EXCEPT !.at = a, !.owns = o, !.freed = e, !.failed = b, !.cleans = c] \in Frames
BY DEF Frames

LEMMA DoneGoes ==
  ASSUME NEW f \in Frames, NEW ov, NEW ov2, ov \subseteq ov2, FrameOK(f, ov), ~AtEnd(f)
  PROVE  /\ Done(f) \in Frames /\ FrameOK(Done(f), ov2)
         /\ Done(f).of = f.of /\ Done(f).at = f.at + 1 /\ Done(f).failed = f.failed
<1> DEFINE g == Done(f)  s == Step(f)  p == Owned[f.of][f.at + 1]
<1>1. Going(f, ov) /\ f.at \in 1 .. Len(Of(f).steps) /\ Len(Of(f).steps) \in Nat /\ p \subseteq Objects
  BY AtStep, AtStepGoes DEF FrameOK
<1>2. Objective(f.of, s, Before(f), p)
  BY AtStep DEF FrameOK, StepFacts
<1>3. /\ g.of = f.of /\ g.at = f.at + 1 /\ g.failed = f.failed /\ g.cleans = f.cleans
      /\ g.owns = IF s.frees THEN f.owns \ {s.obj} ELSE f.owns \union ({s.obj} \ {""})
      /\ g.freed = IF s.frees THEN f.freed \union {s.obj} ELSE f.freed \ {s.obj}
  BY DEF Done, Frames
<1>4. g.owns \subseteq p /\ g.freed \intersect p = {}
  BY <1>1, <1>2, <1>3 DEF Going, Objective
<1>5. f.owns = Before(f) => g.owns = p
  BY <1>2, <1>3 DEF Objective
<1>6. g \in Frames
  <2>1. g.freed \subseteq Objects
    BY <1>1, <1>2, <1>3, AtStep DEF Objective, Frames, FrameOK
  <2>2. f.at + 1 \in Nat
    BY <1>1
  <2>3. g.owns \subseteq Objects
    BY <1>1, <1>4
  <2>4. g = [f EXCEPT !.at = f.at + 1, !.owns = g.owns, !.freed = g.freed]
    BY <1>3 DEF Done, Frames
  <2>5. [f EXCEPT !.at = f.at + 1, !.owns = g.owns, !.freed = g.freed] \in Frames
    <3> HIDE DEF g
    <3> QED  BY <2>1, <2>2, <2>3, Remade
  <2> QED  BY <2>4, <2>5
<1>7. ASSUME f.failed  PROVE f.of = "cert_load_file" /\ g.at \in {3, 4} /\ g.owns \subseteq {"fp"}
  <2>1. s.frees /\ f.at = 3 /\ f.of = "cert_load_file"
    BY <1>7, FailedIs
  <2> QED  BY <1>1, <1>3, <1>7, <2>1 DEF Going
<1>8. g.freed \intersect Of(g).cleanup = {}
  BY <1>2, <1>3 DEF FrameOK, Objective, Of
<1>9. Going(g, ov2)
  <2>1. Before(g) = p
    BY <1>3 DEF Before
  <2> HIDE DEF g, p
  <2> QED  BY <1>1, <1>3, <1>4, <1>5, <1>7, <2>1 DEF Going
<1>10. g.at \in 1 .. Len(Of(g).steps) + 1
  <2>1. Of(g) = Of(f) /\ g.at = f.at + 1
    BY <1>3 DEF Of
  <2> HIDE DEF g
  <2> QED  BY <1>1, <2>1
<1> HIDE DEF g
<1>11. FrameOK(g, ov2)
  BY <1>8, <1>9, <1>10 DEF FrameOK
<1> QED  BY <1>3, <1>6, <1>11 DEF g

LEMMA SkipGoes ==
  ASSUME NEW f \in Frames, NEW ov, NEW ov2, ov \subseteq ov2, FrameOK(f, ov), ~AtEnd(f),
         ~Step(f).frees, GoesOn(Step(f)),
         Step(f).fail \in {"noted", "unchecked", "spare"} \/ Place(f) \in ov2
  PROVE  /\ Skipped(f) \in Frames /\ FrameOK(Skipped(f), ov2)
         /\ Skipped(f).of = f.of /\ Skipped(f).at = f.at + 1
         /\ Skipped(f).failed <=> Step(f).fail = "noted"
<1> DEFINE g == Skipped(f)  s == Step(f)  p == Owned[f.of][f.at + 1]
<1>1. Going(f, ov) /\ ~f.failed /\ f.at \in 1 .. Len(Of(f).steps) /\ p \subseteq Objects /\ f.of \in Routines
  BY AtStep, AtStepGoes, FailedIs DEF FrameOK
<1>2. Objective(f.of, s, Before(f), p) /\ Answered(f.of, s)
  BY AtStep DEF FrameOK, StepFacts
<1>3. /\ g.of = f.of /\ g.at = f.at + 1 /\ g.cleans = f.cleans /\ g.owns = f.owns
      /\ g.freed = f.freed \ {s.obj} /\ g.failed = (f.failed \/ s.fail = "noted")
  BY DEF Skipped, Frames
<1>4. g.owns \subseteq p /\ g.freed \intersect p = {}
  BY <1>1, <1>2, <1>3 DEF Going, Objective
<1>5. ASSUME f.of \notin Loose  PROVE g.owns = p
  <2>1. s.obj = "" /\ f.owns = Before(f)
    BY <1>1, <1>2, <1>5 DEF Going, Objective
  <2>2. \A x : x \in p <=> x \in Before(f)
    BY <1>2, <2>1 DEF Objective
  <2> QED  BY <1>3, <2>1, <2>2
<1>6. f.of = "key_generate" => <<"key_generate", "">> \in ov2
  BY <1>2 DEF Objective, Place
<1>7. g \in Frames
  <2>1. g = [f EXCEPT !.at = f.at + 1, !.freed = f.freed \ {s.obj}, !.failed = g.failed]
    BY <1>3 DEF Skipped, Frames
  <2>2. f.at + 1 \in Nat /\ f.freed \ {s.obj} \in SUBSET Objects /\ g.failed \in BOOLEAN
    BY <1>1, <1>3 DEF Frames
  <2>3. [f EXCEPT !.at = f.at + 1, !.freed = f.freed \ {s.obj}, !.failed = g.failed] \in Frames
    BY <2>2, Remade
  <2> QED  BY <2>1, <2>3
<1>8. ASSUME s.fail = "noted"  PROVE f.of = "cert_load_file" /\ f.at = 2
  <2>1. f.of = "cert_load_file"
    BY <1>2, <1>8 DEF Answered
  <2>2. f.at \in 1 .. 3
    BY <1>1, <2>1, NamedSteps DEF Of
  <2>3. f.at # 1 /\ f.at # 3
    BY <1>8, <2>1, NamedSteps DEF Of, Step
  <2> QED  BY <2>1, <2>2, <2>3
<1>9. s.fail = "noted" => g.owns \subseteq {"fp"}
  <2>1. Owned["cert_load_file"][2] = {"fp"}
    BY DEF Owned
  <2> QED  BY <1>1, <1>3, <1>8, <2>1 DEF Going, Before
<1>10. g.freed \intersect Of(g).cleanup = {}
  BY <1>3 DEF FrameOK, Of
<1>11. Going(g, ov2)
  <2>1. Before(g) = p
    BY <1>3 DEF Before
  <2>2. g.failed => s.fail = "noted"
    BY <1>1, <1>3
  <2>3. s.fail = "noted" => f.of = "cert_load_file" /\ g.at = 3 /\ g.owns \subseteq {"fp"}
    BY <1>3, <1>8, <1>9
  <2> HIDE DEF g, p
  <2> QED  BY <1>1, <1>3, <1>4, <1>5, <1>6, <2>1, <2>2, <2>3 DEF Going
<1>12. g.at \in 1 .. Len(Of(g).steps) + 1
  BY <1>1, <1>3 DEF Of, Frames
<1> HIDE DEF g
<1>13. FrameOK(g, ov2)
  BY <1>10, <1>11, <1>12 DEF FrameOK
<1> QED  BY <1>1, <1>3, <1>7, <1>13 DEF g

LEMMA JumpStops ==
  ASSUME NEW f \in Frames, NEW ov, NEW ov2, FrameOK(f, ov), ~AtEnd(f),
         ~Step(f).frees, Step(f).fail \in Tests
  PROVE  /\ Jumped(f) \in Frames /\ FrameOK(Jumped(f), ov2)
         /\ Jumped(f).of = f.of /\ Jumped(f).failed
<1> DEFINE g == Jumped(f)  s == Step(f)
<1>1. Going(f, ov) /\ f.at \in 1 .. Len(Of(f).steps) /\ Before(f) \subseteq Objects /\ f.of \in Routines
  BY AtStep, AtStepGoes DEF FrameOK
<1>2. Objective(f.of, s, Before(f), Owned[f.of][f.at + 1]) /\ Lossy(f.of, s, Before(f))
  BY AtStep DEF FrameOK, StepFacts
<1>3. /\ g.of = f.of /\ g.at = Len(Of(f).steps) + 1 /\ g.cleans = (s.fail = "cleanup")
      /\ g.owns = (f.owns \ Range(s.free)) \ {s.drop} /\ g.failed
      /\ g.freed = (f.freed \ {s.obj}) \union Range(s.free)
  BY DEF Jumped, Frames
<1>4. Len(Of(f).steps) \in Nat \ {0}
  BY <1>1, AllFacts DEF Facts, Of
<1>5. g \in Frames
  <2>1. Range(s.free) \subseteq Objects
    BY <1>1, <1>2 DEF Objective
  <2>2. g.freed \subseteq Objects /\ g.owns \subseteq Objects
    BY <1>3, <2>1 DEF Frames
  <2>3. g.cleans \in BOOLEAN /\ g.failed \in BOOLEAN
    BY <1>3
  <2>4. g = [f EXCEPT !.at = g.at, !.owns = g.owns, !.freed = g.freed, !.failed = g.failed, !.cleans = g.cleans]
    BY <1>3 DEF Jumped, Frames
  <2>5. g.at \in Nat
    BY <1>3, <1>4
  <2>6. [f EXCEPT !.at = g.at, !.owns = g.owns, !.freed = g.freed, !.failed = g.failed, !.cleans = g.cleans] \in Frames
    <3> HIDE DEF g
    <3> QED  BY <2>2, <2>3, <2>5, Remade
  <2> QED  BY <2>4, <2>6
<1>6. g.freed \intersect Of(g).cleanup = {}
  BY <1>2, <1>3 DEF FrameOK, Of, Objective
<1>7. Left(g) \subseteq (IF s.fail = "cleanup"
                         THEN ((Before(f) \ Range(s.free)) \ {s.drop}) \ Of(f).cleanup
                         ELSE (Before(f) \ Range(s.free)) \ {s.drop})
  BY <1>1, <1>3 DEF Left, Of, Going
<1>8. Stopped(g)
  BY <1>2, <1>3, <1>4, <1>7 DEF Stopped, AtEnd, Of, Lossy, Given
<1> QED  BY <1>3, <1>4, <1>5, <1>6, <1>8 DEF FrameOK, Of

\* A failed step, looked at or not.
LEMMA FailedGoes ==
  ASSUME NEW f \in Frames, NEW ov, NEW ov2, ov \subseteq ov2, FrameOK(f, ov), ~AtEnd(f),
         ~Step(f).frees, Step(f).fail \in Tests \union {"noted", "unchecked", "spare"}
  PROVE  /\ Failed(f) \in Frames /\ FrameOK(Failed(f), ov2)
         /\ Failed(f).of = f.of
         /\ Failed(f).failed <=> Notices(f)
         /\ ~Notices(f) => Failed(f).at = f.at + 1
<1>1. CASE Step(f).fail \in Tests
  BY <1>1, JumpStops DEF Failed, Notices, Tests
<1>2. CASE Step(f).fail \notin Tests
  <2>1. GoesOn(Step(f)) /\ Step(f).fail \in {"noted", "unchecked", "spare"}
    BY <1>2 DEF GoesOn
  <2>2. Failed(f) = Skipped(f)
    BY <1>2 DEF Failed, Tests
  <2>3. Notices(f) <=> Step(f).fail = "noted"
    BY <1>2 DEF Notices, Tests
  <2> QED  BY <2>1, <2>2, <2>3, SkipGoes
<1> QED  BY <1>1, <1>2

\* A frame that is about to return: its cleanup label frees nothing twice, and what it
\* leaves to nobody must be lost.  That holds also for what it would give to its caller,
\* if it has failed.
LEMMA LeftIsKnown ==
  ASSUME NEW f \in Frames, NEW ov, FrameOK(f, ov), AtEnd(f)
  PROVE  /\ \A x \in Left(f) \ Given(f) : <<f.of, x>> \in KnownLosses
         /\ f.failed => \A x \in Left(f) : <<f.of, x>> \in KnownLosses
         /\ Cleaned(f) = {}
<1>1. f.of \in Routines /\ Facts(f.of) /\ Len(Of(f).steps) \in Nat
  BY AllFacts DEF Frames, Facts, Of
<1>2. f.at = Len(Of(f).steps) + 1
  BY <1>1 DEF FrameOK, AtEnd, Frames
<1>3. EndFacts(f.of, Before(f))
  BY <1>1, <1>2 DEF Facts, Before, Of
<1>4. Cleaned(f) = {}
  BY DEF Cleaned, Names, FrameOK
<1>5. ASSUME Going(f, ov), NEW x \in Left(f), x \notin Given(f)  PROVE <<f.of, x>> \in KnownLosses
  <2>1. x \in (Before(f) \ Of(f).cleanup) \ Of(f).gives
    BY <1>5 DEF Going, Left, Given
  <2> QED  BY <1>3, <2>1 DEF EndFacts, Of
<1>6. ASSUME Going(f, ov), f.failed, NEW x \in Left(f)  PROVE <<f.of, x>> \in KnownLosses
  <2>1. f.of = "cert_load_file" /\ f.owns \subseteq {"fp"} /\ f.owns \subseteq Before(f)
    BY <1>6 DEF Going
  <2>2. f.at = 4
    BY <1>2, <2>1, NamedSteps DEF Of
  <2>3. Before(f) = {"cert"}
    BY <2>1, <2>2 DEF Before, Owned
  <2>4. Left(f) \subseteq f.owns
    BY DEF Left
  <2> QED  BY <1>6, <2>1, <2>3, <2>4
<1> QED  BY <1>4, <1>5, <1>6 DEF FrameOK, Stopped

\* A success has noticed nothing, and what a routine that sets error_type answers is what
\* it has noticed.
LEMMA SucceededIs ==
  ASSUME NEW f \in Frames, NEW ov, FrameOK(f, ov), AtEnd(f),
         Of(f).by \notin NoErrorType => (error <=> f.failed)
  PROVE  /\ Succeeded(f) => Going(f, ov) /\ ~f.failed
         /\ ~Succeeded(f) => \A x \in Left(f) : <<f.of, x>> \in KnownLosses
         /\ ~Succeeded(f) /\ Of(f).by \notin NoErrorType =>
              f.failed \/ (f.of = "key_generate" /\ <<"key_generate", "">> \in ov)
<1>1. f.of \in Routines /\ Facts(f.of) /\ Len(Of(f).steps) \in Nat
  BY AllFacts DEF Frames, Facts, Of
<1>2. f.at = Len(Of(f).steps) + 1
  BY <1>1 DEF FrameOK, AtEnd, Frames
<1>3. EndFacts(f.of, Before(f))
  BY <1>1, <1>2 DEF Facts, Before, Of
<1>4. Of(f).by \in {"error", "pointer", "plain", "path"}
  BY <1>3 DEF EndFacts, Of
<1>5. CASE Of(f).by = "error"
  <2>1. Succeeded(f) <=> ~error
    BY <1>5 DEF Succeeded
  <2>2. Succeeded(f) <=> ~f.failed
    BY <1>5, <2>1 DEF NoErrorType
  <2> QED  BY <2>1, <2>2, LeftIsKnown DEF FrameOK, Stopped
<1>6. CASE Of(f).by \in {"pointer", "plain"}
  <2>1. Succeeded(f) <=> Given(f) # {}
    BY <1>6 DEF Succeeded
  <2>2. f.failed => Stopped(f)
    BY <1>6, NamedSteps DEF FrameOK, Going, Of
  <2>3. Succeeded(f) => Going(f, ov) /\ ~f.failed
    BY <1>6, <2>1, <2>2 DEF FrameOK, Stopped
  <2>4. ~Succeeded(f) => \A x \in Left(f) : <<f.of, x>> \in KnownLosses
    BY <2>1, LeftIsKnown
  <2>5. ASSUME ~Succeeded(f), Of(f).by \notin NoErrorType
        PROVE  f.failed \/ (f.of = "key_generate" /\ <<"key_generate", "">> \in ov)
    <3>1. Of(f).by = "pointer"
      BY <1>6, <2>5 DEF NoErrorType
    <3>2. CASE f.failed
      BY <2>5, <3>2
    <3>3. CASE ~f.failed
      <4>1. Going(f, ov)
        BY <3>3 DEF FrameOK, Stopped
      <4>2. f.owns # Before(f)
        BY <2>1, <2>5, <3>1, <4>1, <1>3 DEF EndFacts, Given, Left, Going, Of
      <4>3. f.of \in Loose
        BY <4>1, <4>2 DEF Going
      <4>4. f.of \notin {"key_load_private", "key_load_file", "cert_load_file"}
        BY <3>1, NamedSteps DEF Of
      <4> QED  BY <4>1, <4>2, <4>3, <4>4 DEF Going, Loose
    <3> QED  BY <3>2, <3>3
  <2> QED  BY <2>3, <2>4, <2>5
<1>7. CASE Of(f).by = "path"
  <2>1. Succeeded(f) <=> ~f.failed
    BY <1>7 DEF Succeeded
  <2> QED  BY <1>7, <2>1, LeftIsKnown DEF FrameOK, Stopped, NoErrorType
<1> QED  BY <1>4, <1>5, <1>6, <1>7

-----------------------------------------------------------------------------
(* The stack *)

LEMMA TopIs ==
  ASSUME StackInv, stack # <<>>
  PROVE  /\ Depth \in Nat \ {0} /\ Depth = Len(stack) /\ Depth \in 1 .. Depth /\ Top = stack[Depth]
         /\ Top \in Frames /\ FrameOK(Top, overlooked)
         /\ returned = "none" /\ stack[1].of = job
         /\ \A n \in 1 .. Depth : stack[n] \in Frames
BY EmptySeq, LenProperties, ElementOfSeq DEF StackInv, Depth, Top

\* A frame of the stack gives way to g, and those above it are gone.
Cut(d, g) ==
  /\ stack' \in Seq(Frames) /\ Len(stack') = d
  /\ \A n \in 1 .. d - 1 : stack'[n] = stack[n]
  /\ stack'[d] = g

LEMMA ReplaceCuts ==
  ASSUME StackInv, stack # <<>>, NEW g \in Frames, Replace(g)
  PROVE  Cut(Depth, g)
BY TopIs, ExceptSeq DEF Replace, Cut, StackInv, Depth

LEMMA ReturnCuts ==
  ASSUME StackInv, stack # <<>>, Depth > 1, NEW g \in Frames,
         stack' = Append(SubSeq(stack, 1, Depth - 2), g)
  PROVE  Cut(Depth - 1, g)
<1>1. stack \in Seq(Frames) /\ Len(stack) = Depth /\ Depth \in Nat
  BY TopIs DEF StackInv
<1> DEFINE s == SubSeq(stack, 1, Depth - 2)
<1>2. s \in Seq(Frames) /\ Len(s) = Depth - 2 /\ \A n \in 1 .. Depth - 2 : s[n] = stack[n]
  BY <1>1, SubSeqProperties
<1> HIDE DEF s
<1>3. stack' \in Seq(Frames) /\ Len(stack') = Depth - 1 /\ stack'[Depth - 1] = g
  BY <1>1, <1>2, AppendProperties DEF s
<1>4. \A n \in 1 .. Depth - 2 : stack'[n] = s[n]
  BY <1>1, <1>2, AppendProperties DEF s
<1> QED  BY <1>1, <1>2, <1>3, <1>4 DEF Cut

\* The caller of the routine on top is at the step that calls it.
LEMMA CallerIs ==
  ASSUME StackInv, stack # <<>>, Depth > 1
  PROVE  /\ stack[Depth - 1] \in Frames /\ FrameOK(stack[Depth - 1], overlooked)
         /\ ~stack[Depth - 1].failed /\ ~AtEnd(stack[Depth - 1])
         /\ Step(stack[Depth - 1]).of = Top.of /\ Top.of # ""
         /\ Answered(stack[Depth - 1].of, Step(stack[Depth - 1]))
         /\ ~Step(stack[Depth - 1]).frees
<1> DEFINE c == stack[Depth - 1]
<1>1. Depth \in Nat /\ Depth - 1 \in 1 .. Depth /\ Depth - 1 \in 1 .. Depth - 1 /\ (Depth - 1) + 1 = Depth
  BY TopIs
<1>2. c \in Frames /\ FrameOK(c, overlooked) /\ Waits(c, Top.of)
  BY <1>1, TopIs DEF StackInv, Top
<1>3. Top.of \in Routines /\ Top.of # ""
  BY TopIs, RoutineNames DEF Frames
<1>4. ~AtEnd(c) /\ ~c.failed /\ Step(c).of = Top.of
  BY <1>2 DEF Waits
<1>5. Answered(c.of, Step(c))
  BY <1>2, <1>4, AtStep DEF FrameOK, StepFacts
<1> QED  BY <1>2, <1>3, <1>4, <1>5 DEF Answered

\* The two ways in which the stack changes keep it in order.
LEMMA CutKeeps ==
  ASSUME StackInv, stack # <<>>, NEW d \in 1 .. Depth, NEW g \in Frames, Cut(d, g),
         g.of = stack[d].of, FrameOK(g, overlooked'), overlooked \subseteq overlooked',
         job' = job, returned' = returned
  PROVE  StackInv' /\ stack' # <<>> /\ Depth' = d /\ Top' = g
<1>1. Depth' = d /\ Top' = g /\ d \in Nat \ {0} /\ Depth \in Nat
  BY TopIs DEF Cut, Depth, Top
<1>2. stack' # <<>>
  BY <1>1 DEF Cut
<1>3. \A n \in 1 .. d : stack'[n].of = stack[n].of
  BY <1>1 DEF Cut
<1>4. ASSUME NEW n \in 1 .. d  PROVE FrameOK(stack'[n], overlooked')
  <2>1. CASE n = d
    BY <2>1 DEF Cut
  <2>2. CASE n # d
    <3>1. stack'[n] = stack[n] /\ FrameOK(stack[n], overlooked)
      BY <1>1, <2>2 DEF Cut, StackInv
    <3> QED  BY <3>1 DEF FrameOK, Going
  <2> QED  BY <2>1, <2>2
<1>5. ASSUME NEW n \in 1 .. d - 1  PROVE Waits(stack'[n], stack'[n + 1].of)
  <2>1. n \in 1 .. Depth - 1 /\ n + 1 \in 1 .. d
    BY <1>1
  <2>2. stack'[n] = stack[n] /\ stack'[n + 1].of = stack[n + 1].of
    BY <1>1, <1>3, <2>1 DEF Cut
  <2> QED  BY <2>1, <2>2 DEF StackInv
<1>6. stack'[1].of = job' /\ returned' = "none"
  BY <1>1, <1>3, TopIs
<1>7. ASSUME NEW S, \A n \in 1 .. Depth : stack[n].of \in S  PROVE \A n \in 1 .. d : stack'[n].of \in S
  BY <1>1, <1>3, <1>7
<1>8. /\ job' = "process_msg01" => \A n \in 1 .. d : stack'[n].of \in OfMsg01
      /\ job' \in HandlersOfMsg3 => \A n \in 1 .. d : stack'[n].of \in OfMsg3
  BY <1>7 DEF StackInv
<1> QED  BY <1>1, <1>2, <1>4, <1>5, <1>6, <1>8 DEF StackInv, Cut

-----------------------------------------------------------------------------
(* What the books need to know of a step *)

\* Only two branches free what they have freed, those of the public point.
LEMMA AgainIs ==
  ASSUME NEW f \in Frames, NEW ov, FrameOK(f, ov), ~AtEnd(f)
  PROVE  /\ Again(f, Step(f).free) \subseteq {<<"key_load_private", "pubpt">>}
         /\ Step(f).frees => Again(f, <<Step(f).obj>>) = {}
<1>1. Going(f, ov) /\ Objective(f.of, Step(f), Before(f), Owned[f.of][f.at + 1])
  BY AtStep, AtStepGoes DEF FrameOK, StepFacts
<1>2. Range(Step(f).free) \intersect f.freed = {}
  BY <1>1 DEF Going, Objective
<1>3. \A x \in Repeated(Step(f).free) : f.of = "key_load_private" /\ x = "pubpt"
  BY <1>1 DEF Objective
<1>4. ASSUME NEW y \in Again(f, Step(f).free)  PROVE y = <<"key_load_private", "pubpt">>
  <2>1. y \in {f.of} \X Repeated(Step(f).free)
    BY <1>2, <1>4 DEF Again, Names
  <2> QED  BY <1>3, <2>1
<1>5. ASSUME Step(f).frees  PROVE Again(f, <<Step(f).obj>>) = {}
  <2>1. Range(<<Step(f).obj>>) = {Step(f).obj} /\ Repeated(<<Step(f).obj>>) = {}
    BY SmallSequences
  <2>2. Step(f).obj \notin f.freed
    BY <1>1, <1>5 DEF Going, Objective
  <2> QED  BY <2>1, <2>2 DEF Again, Names
<1> QED  BY <1>4, <1>5

\* What is set to NULL unfreed is known.
LEMMA DroppedIs ==
  ASSUME NEW f \in Frames, NEW ov, FrameOK(f, ov), ~AtEnd(f)
  PROVE  /\ Dropped(f) \subseteq KnownLosses
         /\ f.of \in OfMsg01 => Dropped(f) = {}
         /\ Step(f).fail \notin Tests => Dropped(f) = {}
<1>1. Objective(f.of, Step(f), Before(f), Owned[f.of][f.at + 1])
  BY AtStep DEF FrameOK, StepFacts
<1>2. Dropped(f) = IF Step(f).drop = "" THEN {} ELSE {<<f.of, Step(f).drop>>}
  <2>1. \A a, b : {a} \X {b} = {<<a, b>>}
    OBVIOUS
  <2> QED  BY <2>1 DEF Dropped, Names
<1>3. /\ Step(f).drop # "" => <<f.of, Step(f).drop>> \in KnownLosses
      /\ Step(f).drop # "" => f.of \in {"key_load_private", "key_load_public"}
      /\ Step(f).fail \notin Tests => Step(f).drop = ""
  BY <1>1 DEF Objective
<1>4. f.of \in OfMsg01 => Step(f).drop = ""
  BY <1>3 DEF OfMsg01
<1> QED  BY <1>2, <1>3, <1>4

LEMMA Beyond ==
  ASSUME NEW f, f.at \in Nat, NEW g, g.at = f.at + 1
  PROVE  /\ f.at # 4 => (g.at > 4 <=> f.at > 4)
         /\ f.at # 7 => (g.at > 7 <=> f.at > 7)
         /\ f.at # 1 => (g.at > 1 <=> f.at > 1)
         /\ f.at # 3 => (g.at > 3 <=> f.at > 3)
OBVIOUS

Costless(s) == s.of = "" \/ s.fail = "unchecked"

\* A step that is not one of the four calls that cost something adds nothing to what is due.
LEMMA DueSame ==
  ASSUME NEW f, f.at \in Nat, NEW g, g.of = f.of, g.at = f.at + 1,
         Costless(Step(f))
  PROVE  Due(g) = Due(f)
<1>1. /\ f.at # 4 => (g.at > 4 <=> f.at > 4)
      /\ f.at # 7 => (g.at > 7 <=> f.at > 7)
      /\ f.at # 1 => (g.at > 1 <=> f.at > 1)
      /\ f.at # 3 => (g.at > 3 <=> f.at > 3)
  BY Beyond
<1>2. f.of = "process_msg01" => f.at # 4 /\ f.at # 7
  BY NamedSteps DEF Step, Of, Costless
<1>3. f.of = "derive_kdk" => f.at # 1
  BY NamedSteps DEF Step, Of, Costless
<1>4. f.of = "get_sigrl" => f.at # 3
  BY NamedSteps DEF Step, Of, Costless
<1>5. CASE f.of = "process_msg01"
  <2>1. (g.at > 4 <=> f.at > 4) /\ (g.at > 7 <=> f.at > 7)
    BY <1>1, <1>2, <1>5
  <2> QED  BY <1>5, <2>1 DEF Due
<1>6. CASE f.of = "derive_kdk"
  <2>1. g.at > 1 <=> f.at > 1
    BY <1>1, <1>3, <1>6
  <2> QED  BY <1>6, <2>1 DEF Due
<1>7. CASE f.of = "get_sigrl"
  <2>1. g.at > 3 <=> f.at > 3
    BY <1>1, <1>4, <1>7
  <2> QED  BY <1>7, <2>1 DEF Due
<1>8. CASE f.of \notin {"process_msg01", "derive_kdk", "get_sigrl"}
  BY <1>8 DEF Due
<1> QED  BY <1>5, <1>6, <1>7, <1>8

LEMMA DueTop ==
  ASSUME StackInv, LossInv, stack # <<>>, ~Top.failed
  PROVE  Due(Top) \subseteq lost
BY TopIs DEF LossInv

LEMMA DueKeeps ==
  ASSUME LossInv, Depth \in Nat, NEW d \in 1 .. Depth, NEW g, Cut(d, g), Depth' = d,
         lost \subseteq lost', ~g.failed => Due(g) \subseteq lost'
  PROVE  \A n \in 1 .. Depth' : ~stack'[n].failed => Due(stack'[n]) \subseteq lost'
<1>1. ASSUME NEW n \in 1 .. d, ~stack'[n].failed  PROVE Due(stack'[n]) \subseteq lost'
  <2>1. CASE n = d
    BY <1>1, <2>1 DEF Cut
  <2>2. CASE n # d
    <3>1. n \in 1 .. d - 1 /\ n \in 1 .. Depth
      BY <2>2
    <3>2. stack'[n] = stack[n]
      BY <3>1 DEF Cut
    <3> QED  BY <1>1, <3>1, <3>2 DEF LossInv
  <2> QED  BY <2>1, <2>2
<1> QED  BY <1>1

-----------------------------------------------------------------------------
(* The actions *)

LEMMA SucceedKeeps ==
  ASSUME IInv, Succeed
  PROVE  IInv'
<1> DEFINE g == Done(Top)
<1>1. stack # <<>> /\ ~AtEnd(Top) /\ Step(Top).of = "" /\ Replace(g)
      /\ error' = error /\ job' = job /\ returned' = returned /\ lost' = lost
      /\ noted' = noted /\ overlooked' = overlooked
  BY DEF Succeed
<1>2. StackInv /\ ErrorInv /\ ReportInv /\ LossInv /\ FreedOnce
  BY DEF IInv
<1>3. Top \in Frames /\ FrameOK(Top, overlooked) /\ Depth \in Nat \ {0} /\ returned = "none"
  BY <1>1, <1>2, TopIs
<1>4. /\ g \in Frames /\ FrameOK(g, overlooked')
      /\ g.of = Top.of /\ g.at = Top.at + 1 /\ g.failed = Top.failed
  BY <1>1, <1>3, DoneGoes
<1> HIDE DEF g
<1>5. Cut(Depth, g)
  BY <1>1, <1>2, <1>4, ReplaceCuts
<1>6. StackInv' /\ stack' # <<>> /\ Depth' = Depth /\ Top' = g
  <2>1. Depth \in 1 .. Depth /\ g.of = stack[Depth].of
    BY <1>1, <1>2, <1>4, TopIs
  <2> QED  BY <1>1, <1>2, <1>4, <1>5, <2>1, CutKeeps
<1>7. ErrorInv'
  BY <1>1, <1>2, <1>4, <1>6 DEF ErrorInv, Of
<1>8. Rising => Rising'
  BY <1>1, <1>4, <1>6 DEF Rising
<1>9. ReportInv'
  BY <1>1, <1>2, <1>8 DEF ReportInv
<1>10. ~g.failed => Due(g) \subseteq lost'
  <2>1. ~Top.failed => Due(Top) \subseteq lost
    BY <1>1, <1>2, DueTop
  <2>2. Due(g) = Due(Top)
    BY <1>1, <1>3, <1>4, DueSame DEF Frames, Costless
  <2> QED  BY <1>1, <1>4, <2>1, <2>2
<1>11. LossInv'
  <2>1. \A n \in 1 .. Depth' : ~stack'[n].failed => Due(stack'[n]) \subseteq lost'
    <3>1. Depth \in 1 .. Depth
      BY <1>3
    <3> QED  BY <1>1, <1>2, <1>3, <1>5, <1>6, <1>10, <3>1, DueKeeps
  <2> QED  BY <1>1, <1>2, <1>3, <1>8, <2>1 DEF LossInv
<1>12. FreedOnce'
  BY <1>1, <1>2, <1>3, AgainIs DEF FreedOnce, Succeed
<1> QED  BY <1>6, <1>7, <1>9, <1>11, <1>12 DEF IInv

\* The books of a failed step: whoever notices it has failed, and whoever overlooks it
\* is on the list.
LEMMA FailureNotedIs ==
  ASSUME NEW f, FailureNoted(f)
  PROVE  /\ noted' = IF Notices(f) THEN noted \union {f.of} ELSE noted
         /\ overlooked \subseteq overlooked'
         /\ overlooked' \subseteq overlooked \union {Place(f)}
         /\ Notices(f) \/ Step(f).fail = "spare" => overlooked' = overlooked
BY DEF FailureNoted

LEMMA HiddenIs ==
  ASSUME NEW f, Answered(f.of, Step(f)), FailureNoted(f), Step(f).fail # "never"
  PROVE  /\ f.of \in OfMsg01 => overlooked' \subseteq overlooked \union HiddenInMsg01
         /\ f.of \in OfMsg3 => overlooked' \subseteq overlooked \union HiddenInMsg3
<1>1. CASE Step(f).fail \in Tests
  BY <1>1 DEF FailureNoted, Notices, Tests
<1>2. CASE Step(f).fail \notin Tests
  <2>1. /\ f.of \in OfMsg01 => Place(f) \in HiddenInMsg01
        /\ f.of \in OfMsg3 => Place(f) \in HiddenInMsg3
    BY <1>2 DEF Answered, Place
  <2> QED  BY <2>1 DEF FailureNoted
<1> QED  BY <1>1, <1>2

LEMMA FailKeeps ==
  ASSUME IInv, Fail
  PROVE  IInv'
<1> DEFINE g == Failed(Top)
<1>1. stack # <<>> /\ ~AtEnd(Top) /\ Step(Top).of = "" /\ ~Step(Top).frees
      /\ Step(Top).fail \notin {"never", "blind"} /\ Replace(g) /\ error' = (error \/ SetsError(Top))
      /\ FailureNoted(Top) /\ job' = job /\ returned' = returned
      /\ twice' = twice \union Again(Top, Step(Top).free)
      /\ lost' = lost \union Dropped(Top)
  BY DEF Fail
<1>2. StackInv /\ ErrorInv /\ ReportInv /\ LossInv /\ FreedOnce
  BY DEF IInv
<1>3. /\ Top \in Frames /\ FrameOK(Top, overlooked) /\ Depth \in Nat \ {0} /\ returned = "none"
      /\ Depth \in 1 .. Depth /\ Top = stack[Depth]
  BY <1>1, <1>2, TopIs
<1>4. Answered(Top.of, Step(Top))
  BY <1>1, <1>3, AtStep DEF FrameOK, StepFacts
<1>5. Step(Top).fail \in Tests \union {"noted", "unchecked", "spare"}
  BY <1>1, <1>4 DEF Answered
<1>6. ~Top.failed
  BY <1>1, <1>3, FailedIs
<1>7. /\ g \in Frames /\ FrameOK(g, overlooked')
      /\ g.of = Top.of /\ (g.failed <=> Notices(Top)) /\ (~Notices(Top) => g.at = Top.at + 1)
  BY <1>1, <1>3, <1>5, FailedGoes, FailureNotedIs
<1> HIDE DEF g
<1>8. Cut(Depth, g)
  BY <1>1, <1>2, <1>7, ReplaceCuts
<1>9. StackInv' /\ stack' # <<>> /\ Depth' = Depth /\ Top' = g
  BY <1>1, <1>2, <1>3, <1>7, <1>8, CutKeeps, FailureNotedIs
<1>10. ErrorInv'
  <2>1. SetsError(Top) <=> Of(g).by \notin NoErrorType /\ g.failed
    BY <1>4, <1>7 DEF SetsError, Of, Answered
  <2>2. Of(g) = Of(Top)
    BY <1>7 DEF Of
  <2>3. ErrorInv' <=> (Of(g).by \notin NoErrorType => (error' <=> g.failed))
    BY <1>9 DEF ErrorInv, Of
  <2> QED  BY <1>1, <1>2, <1>6, <2>1, <2>2, <2>3 DEF ErrorInv
<1>11. Rising' <=> g.failed /\ g.of \notin Tolerated
  BY <1>9 DEF Rising
<1>12. ~Rising
  BY <1>1, <1>6 DEF Rising
<1>13. job = "process_msg01" => Top.of \in OfMsg01
  BY <1>2, <1>3 DEF StackInv
<1>14. job \in HandlersOfMsg3 => Top.of \in OfMsg3
  BY <1>2, <1>3 DEF StackInv
<1>15. noted \subseteq Tolerated => noted' \subseteq Tolerated \/ Rising'
  BY <1>1, <1>7, <1>11, FailureNotedIs
<1>16. /\ job = "process_msg01" => overlooked' \subseteq overlooked \union HiddenInMsg01
       /\ job \in HandlersOfMsg3 => overlooked' \subseteq overlooked \union HiddenInMsg3
  BY <1>1, <1>4, <1>13, <1>14, HiddenIs
<1>17. ReportInv'
  <2>1. job \in HandlersOfMsg3 => noted' \subseteq OfMsg3
    BY <1>1, <1>2, <1>14, FailureNotedIs DEF ReportInv
  <2> QED  BY <1>1, <1>2, <1>12, <1>15, <1>16, <2>1 DEF ReportInv
<1>18. ~g.failed => Due(g) \subseteq lost'
  <2>1. Due(Top) \subseteq lost
    BY <1>1, <1>2, <1>6, DueTop
  <2>2. ~g.failed => Due(g) = Due(Top)
    BY <1>1, <1>3, <1>7, DueSame DEF Frames, Costless
  <2> QED  BY <1>1, <2>1, <2>2
<1>19. LossInv'
  <2>1. \A n \in 1 .. Depth' : ~stack'[n].failed => Due(stack'[n]) \subseteq lost'
    BY <1>1, <1>2, <1>3, <1>8, <1>9, <1>18, DueKeeps
  <2>2. lost' \subseteq KnownLosses
    BY <1>1, <1>2, <1>3, DroppedIs DEF LossInv
  <2>3. job = "process_msg01" => lost' = lost
    BY <1>1, <1>3, <1>13, DroppedIs
  <2> QED  BY <1>1, <1>2, <1>3, <1>12, <2>1, <2>2, <2>3 DEF LossInv
<1>20. FreedOnce'
  BY <1>1, <1>2, <1>3, AgainIs DEF FreedOnce
<1> QED  BY <1>9, <1>10, <1>17, <1>19, <1>20 DEF IInv

LEMMA FailBelowZeroKeeps ==
  ASSUME IInv, FailBelowZero
  PROVE  IInv'
<1> DEFINE g == Skipped(Top)
<1>1. stack # <<>> /\ ~AtEnd(Top) /\ Step(Top).of = "" /\ Step(Top).blind /\ Replace(g)
      /\ error' = error /\ job' = job /\ returned' = returned /\ lost' = lost
      /\ noted' = noted /\ twice' = twice /\ overlooked' = overlooked \union {Place(Top)}
  BY DEF FailBelowZero
<1>2. StackInv /\ ErrorInv /\ ReportInv /\ LossInv /\ FreedOnce
  BY DEF IInv
<1>3. /\ Top \in Frames /\ FrameOK(Top, overlooked) /\ Depth \in Nat \ {0} /\ returned = "none"
      /\ Depth \in 1 .. Depth /\ Top = stack[Depth]
  BY <1>1, <1>2, TopIs
<1>4. Answered(Top.of, Step(Top)) /\ Objective(Top.of, Step(Top), Before(Top), Owned[Top.of][Top.at + 1])
  BY <1>1, <1>3, AtStep DEF FrameOK, StepFacts
<1>5. GoesOn(Step(Top)) /\ ~Step(Top).frees /\ Step(Top).fail # "noted"
  BY <1>1, <1>4 DEF GoesOn, Objective
<1>6. ~Top.failed
  BY <1>1, <1>3, <1>5, FailedIs
<1>7. /\ g \in Frames /\ FrameOK(g, overlooked')
      /\ g.of = Top.of /\ g.at = Top.at + 1 /\ ~g.failed
  <2>1. overlooked \subseteq overlooked' /\ Place(Top) \in overlooked'
    BY <1>1
  <2> QED  BY <1>1, <1>3, <1>5, <2>1, SkipGoes
<1> HIDE DEF g
<1>8. Cut(Depth, g)
  BY <1>1, <1>2, <1>7, ReplaceCuts
<1>9. StackInv' /\ stack' # <<>> /\ Depth' = Depth /\ Top' = g
  BY <1>1, <1>2, <1>3, <1>7, <1>8, CutKeeps
<1>10. ErrorInv'
  BY <1>1, <1>2, <1>6, <1>7, <1>9 DEF ErrorInv, Of
<1>11. ~Rising
  BY <1>1, <1>6 DEF Rising
<1>12. /\ job = "process_msg01" => Place(Top) \in HiddenInMsg01
       /\ job \in HandlersOfMsg3 => Place(Top) \in HiddenInMsg3
  <2>1. /\ job = "process_msg01" => Top.of \in OfMsg01
        /\ job \in HandlersOfMsg3 => Top.of \in OfMsg3
    BY <1>2, <1>3 DEF StackInv
  <2> QED  BY <1>1, <1>4, <2>1 DEF Answered, Place
<1>13. ReportInv'
  BY <1>1, <1>2, <1>11, <1>12 DEF ReportInv
<1>14. ~g.failed => Due(g) \subseteq lost'
  <2>1. Due(Top) \subseteq lost
    BY <1>1, <1>2, <1>6, DueTop
  <2>2. Due(g) = Due(Top)
    BY <1>1, <1>3, <1>7, DueSame DEF Frames, Costless
  <2> QED  BY <1>1, <2>1, <2>2
<1>15. LossInv'
  <2>1. \A n \in 1 .. Depth' : ~stack'[n].failed => Due(stack'[n]) \subseteq lost'
    BY <1>1, <1>2, <1>3, <1>8, <1>9, <1>14, DueKeeps
  <2> QED  BY <1>1, <1>2, <1>3, <1>11, <2>1 DEF LossInv
<1>16. FreedOnce'
  BY <1>1, <1>2 DEF FreedOnce
<1> QED  BY <1>9, <1>10, <1>13, <1>15, <1>16 DEF IInv

\* A frame that has just been made.
LEMMA FrameIs ==
  ASSUME NEW r \in Routines, NEW ov
  PROVE  /\ Frame(r) \in Frames /\ FrameOK(Frame(r), ov)
         /\ Frame(r).of = r /\ ~Frame(r).failed /\ Due(Frame(r)) = {}
<1> DEFINE f == Frame(r)
<1>1. /\ f.of = r /\ f.at = 1 /\ f.owns = {} /\ f.freed = {} /\ f.failed = FALSE /\ f.cleans
  BY DEF Frame
<1>2. f \in Frames
  BY DEF Frame, Frames
<1> HIDE DEF f
<1>3. Facts(r)
  BY AllFacts
<1>4. Len(Code[r].steps) \in Nat \ {0} /\ Owned[r][1] = {}
  BY <1>3 DEF Facts
<1>5. FrameOK(f, ov)
  BY <1>1, <1>4 DEF FrameOK, Going, Of, Before
<1>6. Due(f) = {}
  <2>1. ~(f.at > 1) /\ ~(f.at > 3) /\ ~(f.at > 4) /\ ~(f.at > 7)
    BY <1>1
  <2> QED  BY <2>1 DEF Due
<1> QED  BY <1>1, <1>2, <1>5, <1>6 DEF f

LEMMA EnterKeeps ==
  ASSUME IInv, Enter
  PROVE  IInv'
<1> DEFINE r == Step(Top).of  g == Frame(r)
<1>1. stack # <<>> /\ ~AtEnd(Top) /\ r # "" /\ stack' = Append(stack, g) /\ Reset(r)
      /\ job' = job /\ returned' = returned /\ lost' = lost /\ twice' = twice
      /\ noted' = noted /\ overlooked' = overlooked
  BY DEF Enter, history
<1>2. StackInv /\ ErrorInv /\ ReportInv /\ LossInv /\ FreedOnce
  BY DEF IInv
<1>3. /\ Top \in Frames /\ FrameOK(Top, overlooked) /\ Depth \in Nat \ {0} /\ returned = "none"
      /\ Depth \in 1 .. Depth /\ Top = stack[Depth] /\ Depth = Len(stack) /\ stack \in Seq(Frames)
  BY <1>1, <1>2, TopIs DEF StackInv
<1>4. Answered(Top.of, Step(Top))
  BY <1>1, <1>3, AtStep DEF FrameOK, StepFacts
<1>5. r \in Routines /\ Top.of # "cert_load_file"
  BY <1>1, <1>4 DEF Answered
<1>6. ~Top.failed
  BY <1>1, <1>3, <1>5, FailedIs
<1>7. g \in Frames /\ FrameOK(g, overlooked) /\ g.of = r /\ ~g.failed /\ Due(g) = {}
  BY <1>5, FrameIs
<1> HIDE DEF g
<1>8. /\ stack' \in Seq(Frames) /\ Len(stack') = Depth + 1 /\ stack'[Depth + 1] = g
      /\ \A n \in 1 .. Depth : stack'[n] = stack[n]
  <2>1. /\ Append(stack, g) \in Seq(Frames) /\ Len(Append(stack, g)) = Len(stack) + 1
        /\ Append(stack, g)[Len(stack) + 1] = g
        /\ \A n \in 1 .. Len(stack) : Append(stack, g)[n] = stack[n]
    BY <1>3, <1>7, AppendProperties
  <2> QED  BY <1>1, <1>3, <2>1
<1>9. stack' # <<>> /\ Depth' = Depth + 1 /\ Top' = g
  BY <1>3, <1>8 DEF Depth, Top
<1>10. StackInv'
  <2>1. ASSUME NEW n \in 1 .. Depth + 1  PROVE FrameOK(stack'[n], overlooked')
    <3>1. CASE n = Depth + 1
      BY <1>1, <1>7, <1>8, <3>1
    <3>2. CASE n # Depth + 1
      <4>1. n \in 1 .. Depth
        BY <1>3, <3>2
      <4> QED  BY <1>1, <1>2, <1>8, <4>1 DEF StackInv
    <3> QED  BY <3>1, <3>2
  <2>2. ASSUME NEW n \in 1 .. Depth  PROVE Waits(stack'[n], stack'[n + 1].of)
    <3>1. CASE n = Depth
      BY <1>1, <1>3, <1>6, <1>7, <1>8, <3>1 DEF Waits
    <3>2. CASE n # Depth
      <4>1. n \in 1 .. Depth - 1 /\ n \in 1 .. Depth /\ n + 1 \in 1 .. Depth
        BY <1>3, <3>2
      <4>2. stack'[n] = stack[n] /\ stack'[n + 1] = stack[n + 1]
        BY <1>8, <4>1
      <4> QED  BY <1>2, <4>1, <4>2 DEF StackInv
    <3> QED  BY <3>1, <3>2
  <2>3. stack'[1].of = job' /\ returned' = "none"
    <3>1. 1 \in 1 .. Depth
      BY <1>3
    <3> QED  BY <1>1, <1>2, <1>8, <3>1, TopIs
  <2>4. job' = "process_msg01" => \A n \in 1 .. Depth + 1 : stack'[n].of \in OfMsg01
    <3>1. job = "process_msg01" => \A n \in 1 .. Depth : stack[n].of \in OfMsg01
      BY <1>2 DEF StackInv
    <3>2. job = "process_msg01" => r \in OfMsg01
      BY <1>1, <1>3, <1>4, <3>1 DEF Answered
    <3>3. \A n \in 1 .. Depth + 1 : n = Depth + 1 \/ n \in 1 .. Depth
      BY <1>3
    <3> QED  BY <1>1, <1>7, <1>8, <3>1, <3>2, <3>3
  <2>5. job' \in HandlersOfMsg3 => \A n \in 1 .. Depth + 1 : stack'[n].of \in OfMsg3
    <3>1. job \in HandlersOfMsg3 => \A n \in 1 .. Depth : stack[n].of \in OfMsg3
      BY <1>2 DEF StackInv
    <3>2. job \in HandlersOfMsg3 => r \in OfMsg3
      BY <1>1, <1>3, <1>4, <3>1 DEF Answered
    <3>3. \A n \in 1 .. Depth + 1 : n = Depth + 1 \/ n \in 1 .. Depth
      BY <1>3
    <3> QED  BY <1>1, <1>7, <1>8, <3>1, <3>2, <3>3
  <2>6. Depth' - 1 = Depth
    BY <1>3, <1>9
  <2> QED  BY <1>8, <1>9, <2>1, <2>2, <2>3, <2>4, <2>5, <2>6 DEF StackInv
<1>11. ErrorInv'
  <2>1. Code[r].by \notin NoErrorType => ~error'
    BY <1>1 DEF Reset, NoErrorType
  <2> QED  BY <1>7, <1>9, <2>1 DEF ErrorInv, Of
<1>12. ~Rising
  BY <1>1, <1>6 DEF Rising
<1>13. ReportInv'
  BY <1>1, <1>2, <1>12 DEF ReportInv
<1>14. LossInv'
  <2>1. ASSUME NEW n \in 1 .. Depth', ~stack'[n].failed  PROVE Due(stack'[n]) \subseteq lost'
    <3>1. CASE n = Depth + 1
      BY <1>7, <1>8, <3>1
    <3>2. CASE n # Depth + 1
      <4>1. n \in 1 .. Depth
        BY <1>3, <1>9, <3>2
      <4> QED  BY <1>1, <1>2, <1>8, <2>1, <4>1 DEF LossInv
    <3> QED  BY <3>1, <3>2
  <2> QED  BY <1>1, <1>2, <1>3, <1>12, <2>1 DEF LossInv
<1>15. FreedOnce'
  BY <1>1, <1>2 DEF FreedOnce
<1> QED  BY <1>10, <1>11, <1>13, <1>14, <1>15 DEF IInv

LEMMA BeginKeeps ==
  ASSUME IInv, NEW r \in Jobs, Begin(r)
  PROVE  IInv'
<1> DEFINE g == Frame(r)
<1>1. stack' = <<g>> /\ Reset(r) /\ job' = r /\ returned' = "none"
      /\ lost' = {} /\ twice' = {} /\ noted' = {} /\ overlooked' = {}
  BY DEF Begin
<1>2. r \in Routines
  BY RoutineNames DEF Jobs, HandlersOfMsg3
<1>3. g \in Frames /\ FrameOK(g, {}) /\ g.of = r /\ ~g.failed /\ Due(g) = {}
  BY <1>2, FrameIs
<1> HIDE DEF g
<1>4. /\ stack' \in Seq(Frames) /\ stack' # <<>> /\ Depth' = 1 /\ Top' = g /\ stack'[1] = g
      /\ \A n \in 1 .. Depth' : stack'[n] = g
  <2>1. Len(stack') = 1 /\ stack'[1] = g /\ stack' \in Seq(Frames)
    BY <1>1, <1>3
  <2>2. Depth' = 1 /\ Top' = g
    BY <2>1 DEF Depth, Top
  <2>3. stack' # <<>>
    BY <2>1
  <2>4. \A n \in 1 .. 1 : n = 1
    OBVIOUS
  <2> QED  BY <2>1, <2>2, <2>3, <2>4
<1>5. StackInv'
  <2>1. r = "process_msg01" => r \in OfMsg01
    BY DEF OfMsg01
  <2>2. r \in HandlersOfMsg3 => r \in OfMsg3
    BY DEF OfMsg3, HandlersOfMsg3
  <2>3. 1 .. Depth' - 1 = {}
    BY <1>4
  <2> QED  BY <1>1, <1>3, <1>4, <2>1, <2>2, <2>3 DEF StackInv
<1>6. ErrorInv'
  <2>1. Code[r].by \notin NoErrorType => ~error'
    BY <1>1 DEF Reset, NoErrorType
  <2> QED  BY <1>3, <1>4, <2>1 DEF ErrorInv, Of
<1>7. ReportInv' /\ LossInv' /\ FreedOnce'
  BY <1>1, <1>3, <1>4 DEF ReportInv, LossInv, FreedOnce
<1> QED  BY <1>5, <1>6, <1>7 DEF IInv

\* The ends of the routines that a session's success runs to, and loses something at.
LEMMA Ends ==
  /\ Len(Code["key_from_sgx_ec256"].steps) = 6 /\ Len(Code["derive_kdk"].steps) = 3
  /\ Len(Code["base64_decode"].steps) = 5 /\ Len(Code["get_sigrl"].steps) = 4
  /\ Len(Code["process_msg01"].steps) = 10
  /\ Owned["key_from_sgx_ec256"][7] \ Code["key_from_sgx_ec256"].cleanup = {"key", "pkey"}
  /\ Owned["derive_kdk"][4] \ Code["derive_kdk"].cleanup = {"Ga", "Gab_x"}
  /\ Owned["base64_decode"][6] = {"b64", "buf"}
  /\ Owned["base64_decode"][6] \ Code["base64_decode"].cleanup = {"b64", "buf"}
  /\ Owned["process_msg01"][11] \ Code["process_msg01"].cleanup = {"Gb", "sigrl"}
  /\ Code["key_from_sgx_ec256"].gives = {"pkey"} /\ Code["derive_kdk"].gives = {}
  /\ Code["base64_decode"].gives = {"buf"} /\ Code["process_msg01"].gives = {}
<1>1. /\ Code["key_from_sgx_ec256"] = key_from_sgx_ec256 /\ Code["derive_kdk"] = derive_kdk
      /\ Code["base64_decode"] = base64_decode /\ Code["get_sigrl"] = get_sigrl
      /\ Code["process_msg01"] = process_msg01
  BY DEF Code
<1>2. /\ Len(key_from_sgx_ec256.steps) = 6 /\ key_from_sgx_ec256.cleanup = {"gx", "gy"}
      /\ key_from_sgx_ec256.gives = {"pkey"}
  BY DEF key_from_sgx_ec256, Routine
<1>3. Len(derive_kdk.steps) = 3 /\ derive_kdk.cleanup = {} /\ derive_kdk.gives = {}
  BY DEF derive_kdk, Routine
<1>4. Len(base64_decode.steps) = 5 /\ base64_decode.cleanup = {} /\ base64_decode.gives = {"buf"}
  BY DEF base64_decode, Routine
<1>5. Len(get_sigrl.steps) = 4
  BY DEF get_sigrl, Routine
<1>6. Len(process_msg01.steps) = 10 /\ process_msg01.cleanup = {} /\ process_msg01.gives = {}
  BY DEF process_msg01, Routine
<1>7. /\ Owned["key_from_sgx_ec256"][7] = {"gx", "gy", "key", "pkey"}
      /\ Owned["derive_kdk"][4] = {"Ga", "Gab_x"} /\ Owned["base64_decode"][6] = {"b64", "buf"}
      /\ Owned["process_msg01"][11] = {"Gb", "sigrl"}
  BY DEF Owned
<1> QED  BY <1>1, <1>2, <1>3, <1>4, <1>5, <1>6, <1>7

\* What a success of routine r has cost when it returns.
Price(r) ==
  IF r = "derive_kdk"
  THEN {<<"key_from_sgx_ec256", "key">>, <<"derive_kdk", "Ga">>, <<"derive_kdk", "Gab_x">>}
  ELSE IF r = "key_from_sgx_ec256" THEN {<<"key_from_sgx_ec256", "key">>}
  ELSE IF r \in {"base64_decode", "get_sigrl"} THEN {<<"base64_decode", "b64">>}
  ELSE {}

LEMMA PricePaid ==
  ASSUME NEW f \in Frames, NEW ov, FrameOK(f, ov), AtEnd(f), Going(f, ov), ~f.failed,
         NEW L, Due(f) \subseteq L, Names(f, Left(f) \ Given(f)) \subseteq L
  PROVE  /\ Price(f.of) \subseteq L
         /\ f.of = "process_msg01" => SessionLoses \subseteq L
<1>1. f.of \in Routines /\ Len(Of(f).steps) \in Nat
  BY AllFacts DEF Frames, Facts, Of
<1>2. f.at = Len(Of(f).steps) + 1
  BY <1>1 DEF FrameOK, AtEnd, Frames
<1>3. f.of \notin Loose => Left(f) = Owned[f.of][f.at] \ Of(f).cleanup
  BY DEF Going, Left, Before
<1>4. \A x \in Left(f) : x \in Of(f).gives \/ <<f.of, x>> \in L
  BY DEF Given, Names
<1>5. CASE f.of = "key_from_sgx_ec256"
  <2>1. f.at = 7 /\ Left(f) = {"key", "pkey"} /\ Of(f).gives = {"pkey"}
    BY <1>2, <1>3, <1>5, Ends DEF Of, Loose
  <2> QED  BY <1>4, <1>5, <2>1 DEF Price
<1>6. CASE f.of = "derive_kdk"
  <2>1. f.at = 4 /\ Left(f) = {"Ga", "Gab_x"} /\ Of(f).gives = {}
    BY <1>2, <1>3, <1>6, Ends DEF Of, Loose
  <2>2. <<"key_from_sgx_ec256", "key">> \in L
    BY <1>6, <2>1 DEF Due
  <2> QED  BY <1>4, <1>6, <2>1, <2>2 DEF Price
<1>7. CASE f.of = "base64_decode"
  <2>1. f.at = 6 /\ Left(f) = {"b64", "buf"} /\ Of(f).gives = {"buf"}
    BY <1>2, <1>3, <1>7, Ends DEF Of, Loose
  <2> QED  BY <1>4, <1>7, <2>1 DEF Price
<1>8. CASE f.of = "get_sigrl"
  <2>1. f.at = 5
    BY <1>2, <1>8, Ends DEF Of
  <2>2. <<"base64_decode", "b64">> \in L
    BY <1>8, <2>1 DEF Due
  <2> QED  BY <1>8, <2>2 DEF Price
<1>9. CASE f.of = "process_msg01"
  <2>1. f.at = 11 /\ Left(f) = {"Gb", "sigrl"} /\ Of(f).gives = {}
    BY <1>2, <1>3, <1>9, Ends DEF Of, Loose
  <2>2. f.at > 4 /\ f.at > 7
    BY <2>1
  <2>3. {<<"key_from_sgx_ec256", "key">>, <<"derive_kdk", "Ga">>, <<"derive_kdk", "Gab_x">>,
         <<"base64_decode", "b64">>} \subseteq L
    BY <1>9, <2>2 DEF Due
  <2>4. <<"process_msg01", "Gb">> \in L /\ <<"process_msg01", "sigrl">> \in L
    BY <1>4, <1>9, <2>1
  <2> QED  BY <1>9, <2>3, <2>4 DEF Price, SessionLoses
<1>10. CASE f.of \notin {"key_from_sgx_ec256", "derive_kdk", "base64_decode", "get_sigrl", "process_msg01"}
  BY <1>10 DEF Price
<1> QED  BY <1>5, <1>6, <1>7, <1>8, <1>9, <1>10

\* A caller whose call has succeeded owes what it owed and the price of the call.
LEMMA DuePaid ==
  ASSUME NEW f, f.at \in Nat, NEW g, g.of = f.of, g.at = f.at + 1,
         NEW L, Due(f) \subseteq L, Price(Step(f).of) \subseteq L
  PROVE  Due(g) \subseteq L
<1>1. /\ f.at # 4 => (g.at > 4 <=> f.at > 4)
      /\ f.at # 7 => (g.at > 7 <=> f.at > 7)
      /\ f.at # 1 => (g.at > 1 <=> f.at > 1)
      /\ f.at # 3 => (g.at > 3 <=> f.at > 3)
  BY Beyond
<1>2. CASE f.of = "process_msg01"
  <2>1. g.at > 4 => {<<"key_from_sgx_ec256", "key">>, <<"derive_kdk", "Ga">>, <<"derive_kdk", "Gab_x">>} \subseteq L
    <3>1. CASE f.at = 4
      <4>1. Step(f).of = "derive_kdk"
        BY <1>2, <3>1, NamedSteps DEF Step, Of
      <4> QED  BY <4>1 DEF Price
    <3>2. CASE f.at # 4
      BY <1>1, <1>2, <3>2 DEF Due
    <3> QED  BY <3>1, <3>2
  <2>2. g.at > 7 => <<"base64_decode", "b64">> \in L
    <3>1. CASE f.at = 7
      <4>1. Step(f).of = "get_sigrl"
        BY <1>2, <3>1, NamedSteps DEF Step, Of
      <4> QED  BY <4>1 DEF Price
    <3>2. CASE f.at # 7
      BY <1>1, <1>2, <3>2 DEF Due
    <3> QED  BY <3>1, <3>2
  <2> QED  BY <1>2, <2>1, <2>2 DEF Due
<1>3. CASE f.of = "derive_kdk"
  <2>1. g.at > 1 => <<"key_from_sgx_ec256", "key">> \in L
    <3>1. CASE f.at = 1
      <4>1. Step(f).of = "key_from_sgx_ec256"
        BY <1>3, <3>1, NamedSteps DEF Step, Of
      <4> QED  BY <4>1 DEF Price
    <3>2. CASE f.at # 1
      BY <1>1, <1>3, <3>2 DEF Due
    <3> QED  BY <3>1, <3>2
  <2> QED  BY <1>3, <2>1 DEF Due
<1>4. CASE f.of = "get_sigrl"
  <2>1. g.at > 3 => <<"base64_decode", "b64">> \in L
    <3>1. CASE f.at = 3
      <4>1. Step(f).of = "base64_decode"
        BY <1>4, <3>1, NamedSteps DEF Step, Of
      <4> QED  BY <4>1 DEF Price
    <3>2. CASE f.at # 3
      BY <1>1, <1>4, <3>2 DEF Due
    <3> QED  BY <3>1, <3>2
  <2> QED  BY <1>4, <2>1 DEF Due
<1>5. CASE f.of \notin {"process_msg01", "derive_kdk", "get_sigrl"}
  BY <1>5 DEF Due
<1> QED  BY <1>2, <1>3, <1>4, <1>5

\* What the routine on top loses when it returns.
LEMMA LostIs ==
  ASSUME StackInv, ErrorInv, LossInv, stack # <<>>, AtEnd(Top),
         lost' = lost \union Names(Top, IF Succeeded(Top) THEN Left(Top) \ Given(Top) ELSE Left(Top))
  PROVE  /\ lost \subseteq lost' /\ lost' \subseteq KnownLosses
         /\ job = "process_msg01" /\ (Succeeded(Top) \/ Top.of \in Tolerated)
              /\ lost \subseteq SessionLoses \union {OwnKey} => lost' \subseteq SessionLoses \union {OwnKey}
         /\ Succeeded(Top) => /\ Price(Top.of) \subseteq lost'
                              /\ Top.of = "process_msg01" => SessionLoses \subseteq lost'
<1> DEFINE New == Names(Top, IF Succeeded(Top) THEN Left(Top) \ Given(Top) ELSE Left(Top))
<1>1. /\ Top \in Frames /\ FrameOK(Top, overlooked) /\ Depth \in 1 .. Depth /\ Top = stack[Depth]
  BY TopIs
<1>2. /\ Succeeded(Top) => Going(Top, overlooked) /\ ~Top.failed
      /\ ~Succeeded(Top) => \A x \in Left(Top) : <<Top.of, x>> \in KnownLosses
  BY <1>1, SucceededIs DEF ErrorInv
<1>3. \A x \in Left(Top) \ Given(Top) : <<Top.of, x>> \in KnownLosses
  BY <1>1, LeftIsKnown
<1>4. New \subseteq KnownLosses
  BY <1>2, <1>3 DEF Names
<1>5. ASSUME job = "process_msg01", Succeeded(Top) \/ Top.of \in Tolerated
      PROVE  New \subseteq SessionLoses \union {OwnKey}
  <2>1. Top.of \in OfMsg01
    BY <1>1, <1>5 DEF StackInv
  <2>2. ASSUME NEW y \in New, y = <<"base64_decode", "bmem">>  PROVE FALSE
    <3>1. Top.of = "base64_decode" /\ "bmem" \in Left(Top)
      BY <2>2 DEF Names
    <3>2. Going(Top, overlooked)
      BY <1>2, <1>5, <3>1 DEF Tolerated
    <3>3. Top.at = 6
      <4>1. Len(Of(Top).steps) = 5
        BY <3>1, Ends DEF Of
      <4> QED  BY <1>1, <4>1 DEF FrameOK, AtEnd, Frames
    <3>4. Left(Top) \subseteq {"b64", "buf"}
      BY <3>1, <3>2, <3>3, Ends DEF Going, Before, Left
    <3> QED  BY <3>1, <3>4
  <2>3. ASSUME NEW y \in New  PROVE y \in SessionLoses \union {OwnKey}
    <3>1. y \in KnownLosses /\ y # <<"base64_decode", "bmem">>
      BY <1>4, <2>2, <2>3
    <3>2. y \in {Top.of} \X Left(Top)
      BY <2>3 DEF Names
    <3>3. y[1] \in OfMsg01
      BY <2>1, <3>2
    <3> QED  BY <3>1, <3>3 DEF KnownLosses, OfMsg01
  <2> QED  BY <2>3
<1>6. ASSUME Succeeded(Top)
      PROVE  /\ Price(Top.of) \subseteq lost'
             /\ Top.of = "process_msg01" => SessionLoses \subseteq lost'
  <2>1. Due(Top) \subseteq lost'
    BY <1>2, <1>6, DueTop
  <2>2. Names(Top, Left(Top) \ Given(Top)) \subseteq lost'
    BY <1>6
  <2> QED  BY <1>1, <1>2, <1>6, <2>1, <2>2, PricePaid
<1>7. lost \subseteq KnownLosses
  BY DEF LossInv
<1> QED  BY <1>4, <1>5, <1>6, <1>7

\* The return to where the program calls the routines from.
LEMMA LeaveLast ==
  ASSUME IInv, Leave, stack' = <<>>, returned' = IF Succeeded(Top) THEN "success" ELSE "failure",
         Depth = 1, twice' = twice \union Cleaned(Top), UNCHANGED <<error, noted, overlooked>>
  PROVE  IInv'
<1>1. stack # <<>> /\ AtEnd(Top) /\ job' = job
      /\ lost' = lost \union Names(Top, IF Succeeded(Top) THEN Left(Top) \ Given(Top) ELSE Left(Top))
  BY DEF Leave
<1>2. StackInv /\ ErrorInv /\ ReportInv /\ LossInv /\ FreedOnce
  BY DEF IInv
<1>3. /\ Top \in Frames /\ FrameOK(Top, overlooked) /\ Top = stack[1] /\ Top.of = job
  BY <1>1, <1>2, TopIs
<1>4. Succeeded(Top) => ~Top.failed
  BY <1>1, <1>2, <1>3, SucceededIs DEF ErrorInv
<1>5. stack' = <<>> /\ Depth' = 0 /\ stack' \in Seq(Frames)
  BY EmptySeq DEF Depth
<1>6. StackInv' /\ ErrorInv'
  <2>1. 1 .. Depth' = {} /\ 1 .. Depth' - 1 = {}
    BY <1>5
  <2> QED  BY <1>5, <2>1 DEF StackInv, ErrorInv
<1>7. Rising' <=> ~Succeeded(Top)
  BY <1>5 DEF Rising
<1>8. job = "process_msg01" \/ job \in HandlersOfMsg3 => Top.of \notin Tolerated
  BY <1>3 DEF Tolerated, HandlersOfMsg3
<1>9. Succeeded(Top) => ~Rising
  BY <1>1, <1>4 DEF Rising
<1>10. ReportInv'
  BY <1>1, <1>2, <1>7, <1>9 DEF ReportInv
<1>11. LossInv'
  <2>1. lost' \subseteq KnownLosses
    BY <1>1, <1>2, LostIs
  <2>2. job = "process_msg01" /\ Succeeded(Top) => lost' \subseteq SessionLoses \union {OwnKey}
    BY <1>1, <1>2, <1>9, LostIs DEF LossInv
  <2>3. job = "process_msg01" /\ Succeeded(Top) => SessionLoses \subseteq lost'
    BY <1>1, <1>2, <1>3, LostIs
  <2>4. returned' = "success" => Succeeded(Top)
    OBVIOUS
  <2>5. 1 .. Depth' = {}
    BY <1>5
  <2> QED  BY <1>1, <1>7, <2>1, <2>2, <2>3, <2>4, <2>5 DEF LossInv
<1>12. FreedOnce'
  <2>1. Cleaned(Top) = {}
    BY <1>1, <1>3, LeftIsKnown
  <2> QED  BY <1>2, <2>1 DEF FreedOnce
<1> QED  BY <1>6, <1>10, <1>11, <1>12 DEF IInv

\* The return to a caller, of a success.
LEMMA LeaveSucceeded ==
  ASSUME IInv, Leave, Depth > 1, Succeeded(Top),
         stack' = Append(SubSeq(stack, 1, Depth - 2), Done(stack[Depth - 1])),
         twice' = twice \union Cleaned(Top), UNCHANGED <<error, noted, overlooked, returned>>
  PROVE  IInv'
<1> DEFINE c == stack[Depth - 1]  g == Done(c)
<1>1. stack # <<>> /\ AtEnd(Top) /\ job' = job
      /\ lost' = lost \union Names(Top, IF Succeeded(Top) THEN Left(Top) \ Given(Top) ELSE Left(Top))
  BY DEF Leave
<1>2. StackInv /\ ErrorInv /\ ReportInv /\ LossInv /\ FreedOnce
  BY DEF IInv
<1>3. /\ Top \in Frames /\ FrameOK(Top, overlooked) /\ Depth \in Nat \ {0} /\ returned = "none"
  BY <1>1, <1>2, TopIs
<1>4. /\ c \in Frames /\ FrameOK(c, overlooked) /\ ~c.failed /\ ~AtEnd(c)
      /\ Step(c).of = Top.of /\ Top.of # "" /\ Answered(c.of, Step(c))
  BY <1>1, <1>2, CallerIs
<1>5. g \in Frames /\ FrameOK(g, overlooked') /\ g.of = c.of /\ g.at = c.at + 1 /\ ~g.failed
  BY <1>4, DoneGoes
<1>6. ~Top.failed
  BY <1>1, <1>2, <1>3, SucceededIs DEF ErrorInv
<1>7. Depth - 1 \in 1 .. Depth
  BY <1>3
<1> HIDE DEF g
<1>8. Cut(Depth - 1, g)
  BY <1>1, <1>2, <1>5, ReturnCuts DEF g
<1>9. StackInv' /\ stack' # <<>> /\ Depth' = Depth - 1 /\ Top' = g
  BY <1>1, <1>2, <1>5, <1>7, <1>8, CutKeeps
<1>10. ErrorInv'
  <2>1. ASSUME Code[c.of].by \notin NoErrorType  PROVE ~error
    <3>1. Top.of = "sha256_digest"
      BY <1>4, <2>1 DEF Answered, NoErrorType
    <3>2. Of(Top).by = "error"
      BY <3>1, NamedSteps DEF Of
    <3> QED  BY <3>2 DEF Succeeded
  <2> QED  BY <1>5, <1>9, <2>1 DEF ErrorInv, Of
<1>11. ~Rising
  BY <1>1, <1>6 DEF Rising
<1>12. ReportInv'
  BY <1>1, <1>2, <1>11 DEF ReportInv
<1>13. lost \subseteq lost' /\ lost' \subseteq KnownLosses /\ Price(Top.of) \subseteq lost'
  BY <1>1, <1>2, LostIs
<1>14. Due(g) \subseteq lost'
  <2>1. Due(c) \subseteq lost'
    BY <1>2, <1>4, <1>7, <1>13 DEF LossInv
  <2> QED  BY <1>4, <1>5, <1>13, <2>1, DuePaid DEF Frames
<1>15. LossInv'
  <2>1. \A n \in 1 .. Depth' : ~stack'[n].failed => Due(stack'[n]) \subseteq lost'
    BY <1>2, <1>3, <1>7, <1>8, <1>9, <1>13, <1>14, DueKeeps
  <2>2. job = "process_msg01" => lost' \subseteq SessionLoses \union {OwnKey}
    BY <1>1, <1>2, <1>11, LostIs DEF LossInv
  <2> QED  BY <1>1, <1>3, <1>13, <2>1, <2>2 DEF LossInv
<1>16. FreedOnce'
  <2>1. Cleaned(Top) = {}
    BY <1>1, <1>3, LeftIsKnown
  <2> QED  BY <1>2, <2>1 DEF FreedOnce
<1> QED  BY <1>9, <1>10, <1>12, <1>15, <1>16 DEF IInv

\* The return to a caller, of a failure.
LEMMA LeaveFailed ==
  ASSUME IInv, Leave, Depth > 1, ~Succeeded(Top),
         stack' = Append(SubSeq(stack, 1, Depth - 2), Failed(stack[Depth - 1])),
         error' = (error \/ SetsError(stack[Depth - 1])), FailureNoted(stack[Depth - 1]),
         twice' = twice \union Cleaned(Top) \union Again(stack[Depth - 1], Step(stack[Depth - 1]).free),
         UNCHANGED returned
  PROVE  IInv'
<1> DEFINE c == stack[Depth - 1]  g == Failed(c)
<1>1. stack # <<>> /\ AtEnd(Top) /\ job' = job
      /\ lost' = lost \union Names(Top, IF Succeeded(Top) THEN Left(Top) \ Given(Top) ELSE Left(Top))
  BY DEF Leave
<1>2. StackInv /\ ErrorInv /\ ReportInv /\ LossInv /\ FreedOnce
  BY DEF IInv
<1>3. /\ Top \in Frames /\ FrameOK(Top, overlooked) /\ Depth \in Nat \ {0} /\ returned = "none"
  BY <1>1, <1>2, TopIs
<1>4. /\ c \in Frames /\ FrameOK(c, overlooked) /\ ~c.failed /\ ~AtEnd(c) /\ ~Step(c).frees
      /\ Step(c).of = Top.of /\ Top.of # "" /\ Answered(c.of, Step(c))
  BY <1>1, <1>2, CallerIs
<1>5. Step(c).fail \in Tests \union {"unchecked"}
  BY <1>4 DEF Answered
<1>6. /\ g \in Frames /\ FrameOK(g, overlooked') /\ g.of = c.of
      /\ (g.failed <=> Notices(c)) /\ (~Notices(c) => g.at = c.at + 1)
  BY <1>4, <1>5, FailedGoes, FailureNotedIs
<1>7. Depth - 1 \in 1 .. Depth
  BY <1>3
<1>8. Notices(c) <=> Step(c).fail # "unchecked"
  BY <1>5 DEF Notices, Tests
<1> HIDE DEF g
<1>9. Cut(Depth - 1, g)
  BY <1>1, <1>2, <1>6, ReturnCuts DEF g
<1>10. StackInv' /\ stack' # <<>> /\ Depth' = Depth - 1 /\ Top' = g
  BY <1>1, <1>2, <1>6, <1>7, <1>9, CutKeeps, FailureNotedIs
<1>11. ErrorInv'
  <2>1. g.failed /\ Of(g).by \notin NoErrorType => error'
    BY <1>4, <1>6 DEF SetsError, Of, Answered
  <2>2. ASSUME ~g.failed  PROVE Of(g).by = "path"
    <3>1. Step(c).fail = "unchecked"
      BY <1>6, <1>8, <2>2
    <3> QED  BY <1>4, <1>6, <3>1 DEF Answered, Of
  <2>3. ErrorInv' <=> (Of(g).by \notin NoErrorType => (error' <=> g.failed))
    BY <1>10 DEF ErrorInv, Of
  <2>4. "path" \in NoErrorType
    BY DEF NoErrorType
  <2> QED  BY <2>1, <2>2, <2>3, <2>4
<1>12. Rising' <=> g.failed /\ g.of \notin Tolerated
  BY <1>10 DEF Rising
<1>13. Top.of \notin Tolerated => Rising'
  <2>1. Top.of \notin Tolerated => Step(c).fail # "unchecked" /\ c.of \notin Tolerated
    BY <1>4 DEF Answered
  <2> QED  BY <1>6, <1>8, <1>12, <2>1
<1>14. Top.of \in Tolerated => ~Rising
  BY <1>1 DEF Rising
<1>15. noted \subseteq Tolerated => noted' \subseteq Tolerated \/ Rising'
  BY <1>6, <1>12, FailureNotedIs
<1>16. /\ job = "process_msg01" => c.of \in OfMsg01
       /\ job \in HandlersOfMsg3 => c.of \in OfMsg3
  BY <1>2, <1>7 DEF StackInv
<1>17. ReportInv'
  <2>1. job \in HandlersOfMsg3 => noted' \subseteq OfMsg3
    BY <1>2, <1>16, FailureNotedIs DEF ReportInv
  <2>2. /\ job = "process_msg01" => overlooked' \subseteq HiddenInMsg01
        /\ job \in HandlersOfMsg3 => overlooked' \subseteq HiddenInMsg3
    <3>1. Step(c).fail # "never"
      BY <1>5 DEF Tests
    <3> QED  BY <1>2, <1>4, <1>16, <3>1, HiddenIs DEF ReportInv
  <2>3. job = "process_msg01" \/ job \in HandlersOfMsg3 => noted' \subseteq Tolerated \/ Rising'
    BY <1>2, <1>13, <1>14, <1>15 DEF ReportInv
  <2> QED  BY <1>1, <2>1, <2>2, <2>3 DEF ReportInv
<1>18. lost \subseteq lost' /\ lost' \subseteq KnownLosses
  BY <1>1, <1>2, LostIs
<1>19. ~g.failed => Due(g) \subseteq lost'
  <2>1. Due(c) \subseteq lost'
    BY <1>2, <1>4, <1>7, <1>18 DEF LossInv
  <2>2. ~g.failed => Due(g) = Due(c)
    BY <1>4, <1>6, <1>8, DueSame DEF Frames, Costless
  <2> QED  BY <2>1, <2>2
<1>20. LossInv'
  <2>1. \A n \in 1 .. Depth' : ~stack'[n].failed => Due(stack'[n]) \subseteq lost'
    BY <1>2, <1>3, <1>7, <1>9, <1>10, <1>18, <1>19, DueKeeps
  <2>2. job = "process_msg01" => lost' \subseteq SessionLoses \union {OwnKey} \/ Rising'
    <3>1. CASE Top.of \in Tolerated
      BY <1>1, <1>2, <1>14, <3>1, LostIs DEF LossInv
    <3>2. CASE Top.of \notin Tolerated
      BY <1>13, <3>2
    <3> QED  BY <3>1, <3>2
  <2> QED  BY <1>1, <1>3, <1>18, <2>1, <2>2 DEF LossInv
<1>21. FreedOnce'
  <2>1. Cleaned(Top) = {}
    BY <1>1, <1>3, LeftIsKnown
  <2>2. Again(c, Step(c).free) \subseteq {<<"key_load_private", "pubpt">>}
    BY <1>4, AgainIs
  <2> QED  BY <1>2, <2>1, <2>2 DEF FreedOnce
<1> QED  BY <1>10, <1>11, <1>17, <1>20, <1>21 DEF IInv

LEMMA LeaveKeeps ==
  ASSUME IInv, Leave
  PROVE  IInv'
<1>1. CASE /\ Depth = 1 /\ stack' = <<>> /\ twice' = twice \union Cleaned(Top)
           /\ returned' = IF Succeeded(Top) THEN "success" ELSE "failure"
           /\ UNCHANGED <<error, noted, overlooked>>
  BY <1>1, LeaveLast
<1>2. CASE /\ Depth > 1 /\ Succeeded(Top)
           /\ stack' = Append(SubSeq(stack, 1, Depth - 2), Done(stack[Depth - 1]))
           /\ twice' = twice \union Cleaned(Top) /\ UNCHANGED <<error, noted, overlooked, returned>>
  BY <1>2, LeaveSucceeded
<1>3. CASE /\ Depth > 1 /\ ~Succeeded(Top)
           /\ stack' = Append(SubSeq(stack, 1, Depth - 2), Failed(stack[Depth - 1]))
           /\ error' = (error \/ SetsError(stack[Depth - 1])) /\ FailureNoted(stack[Depth - 1])
           /\ twice' = twice \union Cleaned(Top) \union Again(stack[Depth - 1], Step(stack[Depth - 1]).free)
           /\ UNCHANGED returned
  BY <1>3, LeaveFailed
<1> QED  BY <1>1, <1>2, <1>3 DEF Leave

-----------------------------------------------------------------------------
(* The theorems *)

LEMMA Initially == Init => IInv
<1> SUFFICES ASSUME Init  PROVE IInv
  OBVIOUS
<1>1. stack = <<>> /\ Depth = 0 /\ stack \in Seq(Frames)
  BY EmptySeq DEF Init, Depth
<1>2. 1 .. Depth = {} /\ 1 .. Depth - 1 = {}
  BY <1>1
<1> QED
  BY <1>1, <1>2 DEF Init, IInv, StackInv, ErrorInv, ReportInv, LossInv, FreedOnce

LEMMA Stutters == IInv /\ UNCHANGED vars => IInv'
<1> SUFFICES ASSUME IInv, UNCHANGED vars  PROVE IInv'
  OBVIOUS
<1>1. /\ stack' = stack /\ error' = error /\ job' = job /\ returned' = returned
      /\ lost' = lost /\ twice' = twice /\ noted' = noted /\ overlooked' = overlooked
      /\ Depth' = Depth /\ Top' = Top
  BY DEF vars, history, Depth, Top
<1>2. StackInv' /\ ErrorInv'
  BY <1>1 DEF IInv, StackInv, ErrorInv
<1>3. ReportInv' /\ LossInv' /\ FreedOnce'
  BY <1>1 DEF IInv, ReportInv, LossInv, FreedOnce, Rising
<1> QED  BY <1>2, <1>3 DEF IInv

\* The outline is kept by every step of the routines.
THEOREM Invariance == Spec => []IInv
<1>1. IInv /\ [Next]_vars => IInv'
  BY SucceedKeeps, FailKeeps, FailBelowZeroKeeps, EnterKeeps, LeaveKeeps, BeginKeeps, Stutters DEF Next
<1> QED  BY <1>1, Initially, PTL DEF Spec

\* Whatever call of the library fails, and whichever way, the routines lose only what
\* they must, and a session that succeeds loses exactly that.
THEOREM LossesKnown == Spec => []LossesAreKnown
<1>1. IInv => LossesAreKnown
  <2> SUFFICES ASSUME IInv  PROVE LossesAreKnown
    OBVIOUS
  <2>1. StackInv /\ LossInv
    BY DEF IInv
  <2>2. ASSUME job = "process_msg01", returned = "success"  PROVE lost \ {OwnKey} = SessionLoses
    <3>1. ~Rising
      BY <2>1, <2>2 DEF Rising, StackInv
    <3>2. lost \subseteq SessionLoses \union {OwnKey} /\ SessionLoses \subseteq lost
      BY <2>1, <2>2, <3>1 DEF LossInv
    <3>3. OwnKey \notin SessionLoses
      BY DEF OwnKey, SessionLoses
    <3> QED  BY <3>2, <3>3
  <2> QED  BY <2>1, <2>2 DEF LossesAreKnown, LossInv
<1> QED  BY <1>1, Invariance, PTL

\* No path through the routines and their cleanup labels but one frees an object twice.
THEOREM NothingFreedTwice == Spec => []FreedOnce
<1>1. IInv => FreedOnce
  BY DEF IInv
<1> QED  BY <1>1, Invariance, PTL

\* What a routine of crypto.c answers, and what error_type says at its return, is what it
\* has noticed: no branch forgets to set it, and no call of another routine hides it.
THEOREM FailuresExplained == Spec => []FailureIsExplained
<1>1. IInv => FailureIsExplained
  <2> SUFFICES ASSUME IInv, stack # <<>>, AtEnd(Top), Of(Top).by \notin NoErrorType
               PROVE  /\ error <=> Top.failed
                      /\ Succeeded(Top) => ~Top.failed
                      /\ ~Succeeded(Top) =>
                           Top.failed \/ (Top.of = "key_generate" /\ <<"key_generate", "">> \in overlooked)
    BY DEF FailureIsExplained
  <2>1. StackInv /\ ErrorInv
    BY DEF IInv
  <2>2. Top \in Frames /\ FrameOK(Top, overlooked)
    BY <2>1, TopIs
  <2> QED  BY <2>1, <2>2, SucceededIs DEF ErrorInv
<1> QED  BY <1>1, Invariance, PTL

\* Whatever fails while a message is processed with success, the failure is one of those
\* on the two lists.
THEOREM HiddenFailuresKnown == Spec => []HiddenFailuresAreKnown
<1>1. IInv => HiddenFailuresAreKnown
  <2> SUFFICES ASSUME IInv, returned = "success"
               PROVE  /\ job = "process_msg01" =>
                           /\ overlooked \subseteq HiddenInMsg01
                           /\ noted \subseteq {"cmac128", "key_to_sgx_ec256", "ecdsa_sign", "sha256_digest"}
                      /\ job \in HandlersOfMsg3 =>
                           /\ overlooked \subseteq HiddenInMsg3
                           /\ noted \subseteq {"cmac128", "sha256_digest"}
    BY DEF HiddenFailuresAreKnown
  <2>1. StackInv /\ ReportInv
    BY DEF IInv
  <2>2. ~Rising
    BY <2>1 DEF StackInv, Rising
  <2>3. OfMsg3 \intersect Tolerated \subseteq {"cmac128", "sha256_digest"}
    BY DEF OfMsg3, Tolerated
  <2> QED  BY <2>1, <2>2, <2>3 DEF ReportInv, Tolerated
<1> QED  BY <1>1, Invariance, PTL

=============================================================================
