------------------------- MODULE AttestationContract -------------------------
(***************************************************************************)
(* What remote attestation promises, without messages, buffers or a server *)
(* loop: a client gets to share keys with the service provider only after  *)
(* it has answered the provider's challenge and the provider has granted   *)
(* them, the provider grants them only to a client whose evidence its      *)
(* policy accepts, and a client that is lost stays lost.                   *)
(***************************************************************************)
CONSTANT Clients

VARIABLES
  worthy,    \* the clients whose quotes the provider's policy accepts
  stage,     \* what each client has reached
  granted    \* the clients the provider shares keys with

contractVars == <<worthy, stage, granted>>

Init ==
  /\ worthy \in SUBSET Clients
  /\ stage = [c \in Clients |-> "unproven"]
  /\ granted = {}

\* The client has verified the provider's signed challenge and answered it.
Challenge(c) ==
  /\ stage[c] = "unproven"
  /\ stage' = [stage EXCEPT ![c] = "answered"]
  /\ UNCHANGED <<worthy, granted>>

\* The provider accepts the evidence of a client, which may be gone by now.
Grant(c) ==
  /\ c \in worthy \ granted
  /\ stage[c] \in {"answered", "lost"}
  /\ granted' = granted \union {c}
  /\ UNCHANGED <<worthy, stage>>

\* The client learns that it is trusted.
Learn(c) ==
  /\ stage[c] = "answered"
  /\ c \in granted
  /\ stage' = [stage EXCEPT ![c] = "trusted"]
  /\ UNCHANGED <<worthy, granted>>

Lose(c) ==
  /\ stage[c] \in {"unproven", "answered"}
  /\ stage' = [stage EXCEPT ![c] = "lost"]
  /\ UNCHANGED <<worthy, granted>>

Next == \E c \in Clients : Challenge(c) \/ Grant(c) \/ Learn(c) \/ Lose(c)

Spec == Init /\ [][Next]_contractVars
==============================================================================
