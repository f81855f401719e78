------------------------- MODULE MCPolicyEvolution -------------------------
(* Two products, signers and versions: equal, lower and higher all occur. *)
EXTENDS PolicyEvolution

MCProducts == {1, 2}
MCSvns     == {1, 2, 3}
MCSigners  == {7, 8}
=============================================================================
