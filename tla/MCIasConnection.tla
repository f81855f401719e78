--------------------------- MODULE MCIasConnection ---------------------------
(***************************************************************************)
(* A small instance of IasConnection: chains of up to two certificates,    *)
(* reports of three versions that say one thing, and three changes of the  *)
(* accepted keys: the fewest that can revoke the primary key twice.        *)
(***************************************************************************)
EXTENDS IasConnection
==============================================================================
