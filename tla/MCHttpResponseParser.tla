------------------------- MODULE MCHttpResponseParser -------------------------
(***************************************************************************)
(* A small instance of HttpResponseParser: every message of up to four     *)
(* header lines and four bytes, in up to three chunks, cut off anywhere.   *)
(***************************************************************************)
EXTENDS HttpResponseParser
==============================================================================
