--------------------------- MODULE MCEnclaveClient ---------------------------
(***************************************************************************)
(* Small instances of EnclaveClient: three enclaves fit in the machine, and  *)
(* the process can have three files open.                                  *)
(***************************************************************************)
EXTENDS EnclaveClient
==============================================================================
