----------------------------- MODULE MCAgentWget -----------------------------
(***************************************************************************)
(* Small instances of AgentWget: a pipe shorter than the longest answer,   *)
(* so that wget blocks, and a table of descriptors that three sessions fill. *)
(***************************************************************************)
EXTENDS AgentWget
==============================================================================
