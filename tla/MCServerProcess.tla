--------------------------- MODULE MCServerProcess ---------------------------
(***************************************************************************)
(* A production server's files, and what an operator may write into them.  *)
(***************************************************************************)
EXTENDS ServerProcess, TLC

MCBase == [
  SPID |-> "SPID",
  IAS_PRIMARY_SUBSCRIPTION_KEY |-> "key1",
  IAS_SECONDARY_SUBSCRIPTION_KEY |-> "key2",
  IAS_REPORT_SIGNING_CA_FILE |-> "ca.pem",
  MRSIGNER |-> "signer", MIN_ISVSVN |-> "1", PRODID |-> "0",
  ALLOW_DEBUG |-> "1", ALLOW_DEBUG_ENCLAVE |-> "",
  QUERY_IAS_PRODUCTION |-> "0", LINKABLE |-> "1", POLICY_STRICT_TRUST |-> "",
  IAS_DISABLE_PROXY |-> "0", IAS_PROXY_URL |-> "", DEBUG |-> "0", VERBOSE |-> "0"]

MCEdits == [
  SPID |-> {"", "otherSPID"},
  IAS_PRIMARY_SUBSCRIPTION_KEY |-> {"", "key2"},
  IAS_SECONDARY_SUBSCRIPTION_KEY |-> {""},
  IAS_REPORT_SIGNING_CA_FILE |-> {""},
  MRSIGNER |-> {"", "otherSigner", "shortSigner"},
  MIN_ISVSVN |-> {"", "0", "65535", "65536"}, PRODID |-> {"", "2"},
  ALLOW_DEBUG |-> {"0"}, ALLOW_DEBUG_ENCLAVE |-> {"0", "1"},
  QUERY_IAS_PRODUCTION |-> {"1"}, LINKABLE |-> {"", "0"}, POLICY_STRICT_TRUST |-> {"1"},
  IAS_DISABLE_PROXY |-> {"1"}, IAS_PROXY_URL |-> ProxyUrls, DEBUG |-> {"1"}, VERBOSE |-> {"1"}]

MCArguments == {
  <<>>, <<"8080">>, <<"8080", "8080">>, <<"-z">>, <<"-z", "8080">>, <<"-x">>, <<"http://h:3128">>,
  <<"-K", "notPem">>, <<"-k", "hexKey">>, <<"-g", "wget">>, <<"-g", "curl">>, <<"-r", "3">>,
  <<"-X">>, <<"-G">>}

\* All required options; all but the SPID; all, with the API keys.
Least == <<"-s", "SPID", "-A", "ca.pem", "-N", "signer", "-V", "1", "-R", "0">>
MCByHand == {Least, Tail(Tail(Least)), Least \o <<"-i", "key1", "-J", "keyfile">>}
=============================================================================
