------------------------------- MODULE SgxStubs -------------------------------
(***************************************************************************)
(* The client's stubs for the SGX runtime (service-provider/sgx_stub.c):   *)
(* each function of the SDK that the program calls is one that, when it is *)
(* first called, loads its library with dlopen, looks its name up with     *)
(* dlsym, and remembers the outcome of both; a name that is not found is   *)
(* the end of the process, wherever it is.  get_sgx_support                *)
(* (sgx_detect_linux.c) asks beforehand whether the libraries are there,   *)
(* and get_quote_size (quote_size.c) whether two of the functions are.     *)
(*                                                                         *)
(* The functions are those that this client reaches; what is installed is  *)
(* external, and does not change while the program runs.                   *)
(***************************************************************************)
EXTENDS Naturals, FiniteSets

CONSTANT MaxLacking   \* bound: how many libraries and functions may lack

ASSUME StubsAssumption == MaxLacking \in Nat

UaeService == {"sgx_get_extended_epid_group_id", "sgx_init_quote", "sgx_get_quote",
               "sgx_calc_quote_size", "sgx_get_quote_size", "sgx_report_attestation_status"}
Urts == {"sgx_create_enclave", "sgx_destroy_enclave", "sgx_ecall"}
Symbols == UaeService \union Urts
Libraries == {"libsgx_uae_service", "libsgx_urts"}
LibraryOf(f) == IF f \in UaeService THEN "libsgx_uae_service" ELSE "libsgx_urts"

VARIABLES
  lacking,   \* external: the libraries and functions that are not installed
  loads,     \* l_libsgx_uae_service and l_libsgx_urts: 0, loaded, or failed
  known,     \* l_sgx_...: 0, found, or failed
  support    \* sgx_support: unknown, no, or yes

stubs == <<lacking, loads, known, support>>

\* dlopen, once for each library.
Loaded(libs) ==
  [l \in Libraries |->
     IF l \in libs /\ loads[l] = "0" THEN IF l \in lacking THEN "failed" ELSE "loaded" ELSE loads[l]]

\* The functions of fs whose names are still to be looked up, and their libraries.
New(fs)    == {f \in fs : known[f] = "0"}
Needed(fs) == {LibraryOf(f) : f \in New(fs)}

\* dlsym.  Without its library the handle is NULL, for which dlsym searches the
\* whole program: it may find the function in a library that is linked.
Found(f) == f \notin lacking

\* The functions of fs are called, and are all there.
Calls(fs) ==
  /\ \A f \in New(fs) : Found(f)
  /\ loads' = Loaded(Needed(fs))
  /\ known' = [f \in Symbols |-> IF f \in New(fs) THEN "found" ELSE known[f]]
  /\ UNCHANGED <<lacking, support>>

\* Function f is called, and not found: _undefined_symbol exits.
NotFound(f) ==
  /\ f \in New({f})
  /\ f \in lacking \/ LibraryOf(f) \in lacking
  /\ loads' = Loaded({LibraryOf(f)})
  /\ known' = [known EXCEPT ![f] = "failed"]
  /\ UNCHANGED <<lacking, support>>

\* Function f is called; its library lacks, and what dlsym finds in the whole
\* program is the stub itself, which goes on calling itself.
FoundItself(f) ==
  /\ f \in New({f})
  /\ LibraryOf(f) \in lacking
  /\ loads' = Loaded({LibraryOf(f)})
  /\ known' = [known EXCEPT ![f] = "found"]
  /\ UNCHANGED <<lacking, support>>

\* MUTANT of GetSgxSupport: one library will do.
GetSgxSupportAny ==
  /\ loads' = Loaded(IF "libsgx_uae_service" \in lacking THEN Libraries ELSE {"libsgx_uae_service"})
  /\ support' = IF Libraries \subseteq lacking THEN "no" ELSE "yes"
  /\ UNCHANGED <<lacking, known>>

\* get_sgx_support: have_sgx_psw loads the second library if the first is there.
\* Whether the device is enabled is the caller's second question.
GetSgxSupport ==
  /\ loads' = Loaded(IF "libsgx_uae_service" \in lacking THEN {"libsgx_uae_service"} ELSE Libraries)
  /\ support' = IF lacking \intersect Libraries = {} THEN "yes" ELSE "no"
  /\ UNCHANGED <<lacking, known>>

\* get_quote_size takes the newer function or the older one.  get_sgx_ufunction
\* remembers nothing, and of a function that only libsgx_urts has, it discards
\* the address.
QuoteSizeKnown == \E f \in {"sgx_calc_quote_size", "sgx_get_quote_size"} : Found(f)

StubsInit ==
  /\ lacking \in {s \in SUBSET (Libraries \union Symbols) : Cardinality(s) <= MaxLacking}
  /\ loads = [l \in Libraries |-> "0"]
  /\ known = [f \in Symbols |-> "0"]
  /\ support = "unknown"
===============================================================================
