------------------------ MODULE MCAttestationServer ------------------------
(***************************************************************************)
(* Small instances of AttestationServer.                                   *)
(***************************************************************************)
EXTENDS AttestationServer, TLC

\* The server's options: debug enclaves refused, product 1, version 2 or later.
MCPolicy ==
  [strict |-> FALSE, allowDebug |-> FALSE, prodId |-> 1, minSvn |-> 2, mrSigner |-> 7]

GoodBody == [debug |-> FALSE, prodId |-> 1, isvSvn |-> 2, mrSigner |-> 7]
OldBody  == [GoodBody EXCEPT !.isvSvn = 1]

GoodQuote ==
  [status |-> "OK", gidMatches |-> TRUE, dataMatches |-> TRUE, body |-> GoodBody]

OldQuote   == [GoodQuote EXCEPT !.body = OldBody]
OtherQuote == [GoodQuote EXCEPT !.status = "SW_HARDENING_NEEDED", !.dataMatches = FALSE]

\* A platform that is trusted, one that is refused, one that is turned away
\* before any status is decided.
MCQuotes == {GoodQuote, OldQuote, OtherQuote}

\* One that is refused, so that its status stays behind: for the liveness run.
MCOneQuote == {OldQuote}

Symmetry == Permutations(Clients)
=============================================================================
