----------------------------- MODULE ServerStart -----------------------------
(***************************************************************************)
(* From the operator's files to a server that serves: the script           *)
(* run-server, which turns the variables of service-provider/settings and  *)
(* policy into a command line, main of service-provider/sp.cpp, which      *)
(* parses it, and the IAS_Connection it configures.                        *)
(*                                                                         *)
(* A command line is a sequence of words.  getopt_long decides what is an  *)
(* option and what is an option's argument by the words alone, and the     *)
(* shell drops an unquoted variable that is empty.  A word is a string     *)
(* that stands for its kind: "SPID" for 32 hex digits, "signer" for 64.    *)
(***************************************************************************)
EXTENDS Naturals, Sequences, FiniteSets, SequencesExt

CONSTANTS
  Base,       \* a complete settings file and policy file
  Edits,      \* the values the operator may give to each variable of them
  MaxEdits,   \* bound: how many variables differ from Base
  Arguments,  \* the words that may follow run-server, its "$@"
  ByHand      \* the command lines of servers that are started without the script

ASSUME StartAssumption ==
  /\ DOMAIN Edits \subseteq DOMAIN Base
  /\ MaxEdits \in Nat

VARIABLES
  pc,        \* where the script and main are
  settings,  \* the variables of the two files
  args,      \* "$@", or the arguments of a server that is started by hand
  script,    \* whether the server was started by run-server
  edited,    \* the variables the operator has edited
  words,     \* what getopt_long has still to look at
  ports,     \* the words it leaves for the end: optind and after
  config,    \* config_t, flag_prod, flag_noproxy and flag_stdio of main
  given,     \* the options parsed: flag_spid, flag_ca and so on
  ias,       \* the IAS_Connection: its keys, its server, its proxy
  why        \* why the program has exited

vars == <<pc, settings, args, script, edited, words, ports, config, given, ias, why>>

Numerals == {"0", "1", "2", "8080", "65535", "65536"}
NumberOf(w) ==
  CASE w = "0" -> 0 [] w = "1" -> 1 [] w = "2" -> 2 [] w = "8080" -> 8080
    [] w = "65535" -> 65535 [] w = "65536" -> 65536

\* Proxy URLs.  As a word, a URL stands for --proxy=URL.
ProxyUrls == {"http://h", "https://h", "http://h:3128", "http://h:65616", "ftp://h"}
UrlScheme(u) == CASE u = "ftp://h" -> "ftp" [] u = "https://h" -> "https" [] OTHER -> "http"
UrlPort(u) ==
  CASE u = "http://h:3128" -> 3128 [] u = "http://h:65616" -> 65616
    [] u = "https://h" -> 443 [] OTHER -> 80

\* Files and "$@" are words, and the proxy's URL is one.
ASSUME WordsAssumption ==
  /\ {"SPID", "IAS_PRIMARY_SUBSCRIPTION_KEY", "IAS_SECONDARY_SUBSCRIPTION_KEY",
      "IAS_REPORT_SIGNING_CA_FILE", "MRSIGNER", "MIN_ISVSVN", "PRODID", "IAS_DISABLE_PROXY",
      "IAS_PROXY_URL", "LINKABLE", "POLICY_STRICT_TRUST", "DEBUG", "VERBOSE",
      "QUERY_IAS_PRODUCTION", "ALLOW_DEBUG_ENCLAVE", "ALLOW_DEBUG"} \subseteq DOMAIN Base
  /\ Base \in [DOMAIN Base -> {Base[v] : v \in DOMAIN Base}]
  /\ Base["IAS_PROXY_URL"] \in ProxyUrls \union {""}
  /\ "IAS_PROXY_URL" \in DOMAIN Edits => Edits["IAS_PROXY_URL"] \subseteq ProxyUrls \union {""}
  /\ \A a \in Arguments : a \in Seq(Range(a))

NoKey == "nokey"
On(v)  == settings[v] \notin {"", "0"}

Off(v) == settings[v] = "0"

-----------------------------------------------------------------------------
(* run-server *)

\* An unquoted variable: no word at all when it is empty.
Unquoted(v) == IF settings[v] = "" THEN <<>> ELSE <<settings[v]>>
FlagIf(p, w) == IF p THEN <<w>> ELSE <<>>

ProxyWords ==
  IF On("IAS_DISABLE_PROXY") THEN <<"-x">>
  ELSE FlagIf(settings["IAS_PROXY_URL"] # "", settings["IAS_PROXY_URL"])

\* MUTANT of DemandWords: the product id and the minimum version are swapped.
DemandWordsSwapped ==
  <<"-s">> \o Unquoted("SPID")
    \o <<"-i">> \o Unquoted("IAS_PRIMARY_SUBSCRIPTION_KEY")
    \o <<"-j">> \o Unquoted("IAS_SECONDARY_SUBSCRIPTION_KEY")
    \o <<"-A", settings["IAS_REPORT_SIGNING_CA_FILE"]>>
    \o <<"-N">> \o Unquoted("MRSIGNER")
    \o <<"-V">> \o Unquoted("PRODID")
    \o <<"-R">> \o Unquoted("MIN_ISVSVN")

DemandWords ==
  <<"-s">> \o Unquoted("SPID")
    \o <<"-i">> \o Unquoted("IAS_PRIMARY_SUBSCRIPTION_KEY")
    \o <<"-j">> \o Unquoted("IAS_SECONDARY_SUBSCRIPTION_KEY")
    \o <<"-A", settings["IAS_REPORT_SIGNING_CA_FILE"]>>
    \o <<"-N">> \o Unquoted("MRSIGNER")
    \o <<"-V">> \o Unquoted("MIN_ISVSVN")
    \o <<"-R">> \o Unquoted("PRODID")

FlagWords ==
  FlagIf(On("LINKABLE"), "-l")
    \o FlagIf(On("POLICY_STRICT_TRUST"), "-X")
    \o FlagIf(On("DEBUG"), "-d")
    \o FlagIf(On("VERBOSE"), "-v")
    \o FlagIf(On("QUERY_IAS_PRODUCTION"), "-P")
    \o FlagIf(Off("ALLOW_DEBUG_ENCLAVE"), "-D")

CommandLine == DemandWords \o ProxyWords \o FlagWords \o args

-----------------------------------------------------------------------------
(* main: the options *)

ArgumentOptions ==
  {"-A", "-B", "-I", "-J", "-K", "-N", "-R", "-S", "-V", "-X", "-g", "-i", "-j", "-k", "-r", "-s"}
LoneOptions == {"-D", "-P", "-d", "-l", "-v", "-x", "-z"}

\* MUTANT of ValidNumber: val >= 0xFFFF is refused.
ValidNumberNarrow(w) == w \in Numerals /\ NumberOf(w) < 65535

ValidNumber(w) == w \in Numerals /\ NumberOf(w) <= 65535

\* Whether the case of opt goes on with arg, or main returns 1.
Accepts(opt, arg) ==
  CASE opt \in {"-s", "-S"} -> arg \in {"SPID", "otherSPID"}
    [] opt \in {"-i", "-j"} -> arg \in {"key1", "key2"}
    [] opt \in {"-I", "-J"} -> arg = "keyfile"
    [] opt = "-A" -> arg = "ca.pem"
    [] opt = "-N" -> arg \in {"signer", "otherSigner", "shortSigner"}
    [] opt \in {"-V", "-R"} -> ValidNumber(arg)
    [] opt = "-k" -> arg = "hexKey"
    [] opt = "-K" -> arg \in {"pemKey", "notPem"}
    [] opt = "-r" -> arg \in {"3", "4"}
    [] opt \in {"-B", "-g", "-X"} -> TRUE

\* from_hexstring goes on past the end of a string that is too short: the last
\* bytes are whatever its local variable held, or it meets a word that is not hex.
SignerRead(arg) == IF arg = "shortSigner" THEN "garbage" ELSE arg

\* What the case of opt stores.
Stored(opt, arg) ==
  CASE opt \in {"-s", "-S"} -> [config EXCEPT !.spid = arg]
    [] opt \in {"-i", "-I"} -> [config EXCEPT !.primary = IF opt = "-I" THEN "key1" ELSE arg]
    [] opt \in {"-j", "-J"} -> [config EXCEPT !.secondary = IF opt = "-J" THEN "key2" ELSE arg]
    [] opt = "-A" -> [config EXCEPT !.ca = arg]
    [] opt = "-N" -> [config EXCEPT !.signer = SignerRead(arg)]
    [] opt = "-V" -> [config EXCEPT !.minSvn = NumberOf(arg)]
    [] opt = "-R" -> [config EXCEPT !.prodId = NumberOf(arg)]
    [] opt \in {"-k", "-K"} -> [config EXCEPT !.serviceKey = arg]
    [] opt = "-g" -> [config EXCEPT !.agent = arg]
    [] opt = "-r" -> [config EXCEPT !.version = arg]
    [] opt = "-X" -> [config EXCEPT !.strict = TRUE]
    [] opt = "-D" -> [config EXCEPT !.allowDebug = FALSE]
    [] opt = "-P" -> [config EXCEPT !.production = TRUE]
    [] opt = "-l" -> [config EXCEPT !.linkable = TRUE]
    [] opt = "-x" -> [config EXCEPT !.noproxy = TRUE]
    [] opt = "-z" -> [config EXCEPT !.stdio = TRUE]
    [] opt \in {"-B", "-d", "-v"} -> config

\* get_proxy, for the URLs above.
GetProxy(u) ==
  IF UrlScheme(u) \in {"http", "https"} THEN {[host |-> "h", port |-> UrlPort(u)]} ELSE {}

NoProxy == [host |-> "", port |-> 0]

ExitFor(reason) == pc' = "exited" /\ why' = reason

Options == pc = "options" /\ words # <<>>

ParseLone ==
  /\ Options /\ Head(words) \in LoneOptions
  /\ words' = Tail(words)
  /\ given' = given \union {Head(words)}
  /\ \/ /\ Head(words) = "-x" /\ config.proxy # NoProxy
        /\ ExitFor("usage")
        /\ UNCHANGED config
     \/ /\ Head(words) # "-x" \/ config.proxy = NoProxy
        /\ config' = Stored(Head(words), "")
        /\ UNCHANGED <<pc, why>>
  /\ UNCHANGED <<settings, args, script, edited, ports, ias>>

\* An option whose argument is the next word, whatever that is.  Loading a
\* certificate or a key, or strdup, may fail, and so may a short string.
ParseArgument ==
  /\ Options /\ Head(words) \in ArgumentOptions /\ Len(words) > 1
  /\ words' = Tail(Tail(words))
  /\ given' = given \union {Head(words)}
  /\ \/ /\ Accepts(Head(words), words[2])
        /\ config' = Stored(Head(words), words[2])
        /\ UNCHANGED <<pc, why>>
     \/ /\ Accepts(Head(words), words[2]) => words[2] = "shortSigner"
        /\ ExitFor("refused")
        /\ UNCHANGED config
     \/ /\ Head(words) \in {"-A", "-B", "-K", "-k", "-g"}
        /\ ExitFor("environment")
        /\ UNCHANGED config
  /\ UNCHANGED <<settings, args, script, edited, ports, ias>>

ParseProxy ==
  /\ Options /\ Head(words) \in ProxyUrls
  /\ words' = Tail(words)
  /\ given' = given \union {"-p"}
  /\ \/ /\ config.noproxy
        /\ ExitFor("usage")
        /\ UNCHANGED config
     \/ /\ ~config.noproxy /\ GetProxy(Head(words)) = {}
        /\ ExitFor("refused")
        /\ UNCHANGED config
     \/ /\ ~config.noproxy
        /\ \E p \in GetProxy(Head(words)) : config' = [config EXCEPT !.proxy = p]
        /\ UNCHANGED <<pc, why>>
  /\ UNCHANGED <<settings, args, script, edited, ports, ias>>

\* A word that is no option goes to the end.
ParsePort ==
  /\ Options
  /\ Head(words) \notin ArgumentOptions \union LoneOptions \union ProxyUrls \union {"-h", "-G"}
  /\ words' = Tail(words)
  /\ ports' = Append(ports, Head(words))
  /\ UNCHANGED <<pc, settings, args, script, edited, config, given, ias, why>>

\* -h, an option that lacks its argument, and -G, which lists the agents.
ParseStops ==
  /\ Options
  /\ \/ Head(words) \in {"-h", "-G"}
     \/ Head(words) \in ArgumentOptions /\ Len(words) = 1
  /\ ExitFor("usage")
  /\ UNCHANGED <<settings, args, script, edited, words, ports, config, given, ias>>

-----------------------------------------------------------------------------
(* main: after the options *)

\* At most one argument is left, and none with --stdio.
CheckPort ==
  /\ pc = "options" /\ words = <<>>
  /\ \/ /\ \/ Len(ports) > 1
           \/ config.stdio /\ ports # <<>>
        /\ ExitFor("usage")
     \/ /\ Len(ports) <= 1
        /\ (config.stdio => ports = <<>>)
        /\ pc' = "required"
        /\ UNCHANGED why
  /\ UNCHANGED <<settings, args, script, edited, words, ports, config, given, ias>>

Required ==
  {{"-s", "-S"}, {"-A"}, {"-R"}, {"-V"}, {"-N"}}

\* The defaults for the bundle and the service's key, and the required options.
CheckRequired ==
  /\ pc = "required"
  /\ \/ /\ \E alternatives \in Required : given \intersect alternatives = {}
        /\ ExitFor("usage")
     \/ /\ \A alternatives \in Required : given \intersect alternatives # {}
        /\ pc' = "connection"
        /\ UNCHANGED why
  /\ UNCHANGED <<settings, args, script, edited, words, ports, config, given, ias>>

\* proxy_mode and proxy: the port is stored in 16 bits.
Route == [direct |-> config.noproxy,
          proxy  |-> IF config.noproxy THEN NoProxy
                     ELSE [config.proxy EXCEPT !.port = @ % 65536]]

\* IAS_Connection: setSubscriptionKey takes a key of 32 characters and clears
\* the caller's copy; for another one it returns 0, which nobody looks at.
Connect ==
  /\ pc = "connection"
  /\ ias' = [primary    |-> config.primary,
             secondary  |-> config.secondary,
             production |-> config.production,
             route      |-> Route]
  /\ config' = [config EXCEPT !.primary = NoKey, !.secondary = NoKey]
  /\ \/ /\ config.agent \in {"", "wget"}
        /\ pc' = "listen"
        /\ UNCHANGED why
     \/ /\ config.agent \notin {"", "wget"}
        /\ ExitFor("refused")
  /\ UNCHANGED <<settings, args, script, edited, words, ports, given>>

\* The MsgIO constructor throws when the port cannot be listened on.
Listen ==
  /\ pc = "listen"
  /\ \/ pc' = "serving" /\ UNCHANGED why
     \/ ~config.stdio /\ ExitFor("environment")
  /\ UNCHANGED <<settings, args, script, edited, words, ports, config, given, ias>>

-----------------------------------------------------------------------------
(* The operator *)

Edit(v) ==
  /\ pc = "editing"
  /\ Cardinality(edited) < MaxEdits
  /\ v \notin edited
  /\ edited' = edited \union {v}
  /\ \E value \in Edits[v] : settings' = [settings EXCEPT ![v] = value]
  /\ UNCHANGED <<pc, args, script, words, ports, config, given, ias, why>>

\* ./run-server "$@", or ./sp with all words given by hand.
RunServer ==
  /\ pc = "editing"
  /\ pc' = "options"
  /\ \/ args \in Arguments /\ script' = TRUE /\ words' = CommandLine
     \/ args \in ByHand /\ script' = FALSE /\ words' = args
  /\ UNCHANGED <<settings, args, edited, ports, config, given, ias, why>>

Init ==
  /\ pc = "editing"
  /\ settings = Base
  /\ args \in Arguments \union ByHand
  /\ script = FALSE
  /\ edited = {}
  /\ words = <<>>
  /\ ports = <<>>
  /\ config = [spid |-> "", primary |-> NoKey, secondary |-> NoKey, ca |-> "", signer |-> "",
               minSvn |-> 0, prodId |-> 0, serviceKey |-> "default", agent |-> "",
               version |-> "4", strict |-> FALSE, allowDebug |-> TRUE, production |-> FALSE,
               linkable |-> FALSE, noproxy |-> FALSE, stdio |-> FALSE, proxy |-> NoProxy]
  /\ given = {}
  /\ ias = [primary |-> NoKey, secondary |-> NoKey, production |-> FALSE,
            route |-> [direct |-> FALSE, proxy |-> NoProxy]]
  /\ why = "none"

Start ==
  \/ ParseLone \/ ParseArgument \/ ParseProxy \/ ParsePort \/ ParseStops
  \/ CheckPort \/ CheckRequired \/ Connect \/ Listen

Next == Start \/ RunServer \/ \E v \in DOMAIN Edits : Edit(v)

Spec == Init /\ [][Next]_vars

-----------------------------------------------------------------------------
(* Properties *)

Serving == pc = "serving"

Proxies == [host : {"", "h"}, port : 0 .. 65535]

\* A server that listens has a configuration of the types of config_t and of
\* IAS_Connection, whose proxy port has 16 bits.
TypeOK ==
  /\ pc \in {"editing", "options", "required", "connection", "listen", "serving", "exited"}
  /\ edited \subseteq DOMAIN Edits
  /\ config.minSvn \in 0 .. 65535 /\ config.prodId \in 0 .. 65535
  /\ {config.strict, config.allowDebug, config.production, config.noproxy} \subseteq BOOLEAN
  /\ ias.route.proxy \in Proxies
  /\ why \in {"none", "usage", "refused", "environment"}

\* What a server that was started by run-server demands of an enclave, and whom
\* it asks with which keys, is what the files say, an empty variable included:
\* none is filled with a neighbour's word or option, but for an empty PRODID,
\* the last of them, which takes the first word of "$@".  (A MRSIGNER that is
\* too short is completed by bytes nobody wrote.)
DemandsAreTheOperators ==
  Serving /\ script =>
    /\ config.spid = settings["SPID"]
    /\ config.signer \in {settings["MRSIGNER"], "garbage"}
    /\ settings["MIN_ISVSVN"] \in Numerals
    /\ config.minSvn = NumberOf(settings["MIN_ISVSVN"])
    /\ settings["PRODID"] = "" => args # <<>>
    /\ settings["PRODID"] # "" => config.prodId = NumberOf(settings["PRODID"])
    /\ On("POLICY_STRICT_TRUST") => config.strict
    /\ ias.primary = settings["IAS_PRIMARY_SUBSCRIPTION_KEY"]
    /\ ias.secondary = settings["IAS_SECONDARY_SUBSCRIPTION_KEY"]

\* In getopt's string -X has an argument, so it takes the word behind it.  Behind
\* it run-server writes -d, -v, -P and -D, as far as they are asked for: the first
\* of these is lost.
ProductionTaken == On("POLICY_STRICT_TRUST") /\ ~On("DEBUG") /\ ~On("VERBOSE")
NoDebugTaken == ProductionTaken /\ ~On("QUERY_IAS_PRODUCTION")

\* The variables that become flags reach the server, each as the file has it, but
\* for exactly the one that -X takes: then the server asks the development IAS, or
\* accepts debug enclaves.  The policy's ALLOW_DEBUG, which policy.in:24-27 says
\* forces production enclaves if it is 0, has no part in it whatever its value:
\* ALLOW_DEBUG_ENCLAVE decides, which no file of the repository sets.
FlagsAreTheOperators ==
  Serving /\ script =>
    /\ config.linkable = On("LINKABLE")
    /\ config.production = (On("QUERY_IAS_PRODUCTION") /\ ~ProductionTaken)
    /\ config.allowDebug = ~(Off("ALLOW_DEBUG_ENCLAVE") /\ ~NoDebugTaken)

\* The host of the URL, and what 16 bits hold of its port.
ProxyReached == [host |-> "h", port |-> UrlPort(settings["IAS_PROXY_URL"]) % 65536]

\* The server reaches IAS the way the files say: directly, or by the host of the
\* URL at its port or the default port of its scheme, whatever the environment
\* says (unless another --proxy follows on the command line).  And --proxy and
\* --no-proxy are refused together, whichever comes first and wherever they come from.
RouteIsTheOperators ==
  /\ Serving => ~({"-p", "-x"} \subseteq given)
  /\ Serving /\ script /\ Range(args) \intersect ProxyUrls = {} =>
       /\ On("IAS_DISABLE_PROXY") => ias.route.direct
       /\ ~On("IAS_DISABLE_PROXY") /\ settings["IAS_PROXY_URL"] # "" =>
            ias.route.proxy = ProxyReached

\* What a server that run-server has started has of its operator's files: all of
\* it, but for the flag behind -X, a port beyond 16 bits and the policy's
\* ALLOW_DEBUG, which run-server does not read.
FilesReachTheServer == DemandsAreTheOperators /\ FlagsAreTheOperators /\ RouteIsTheOperators

\* Files that are complete and well-formed make a server: main refuses nothing,
\* unless -X is the last word and lacks its argument.
WellFormed ==
  /\ settings["SPID"] \in {"SPID", "otherSPID"}
  /\ settings["MRSIGNER"] \in {"signer", "otherSigner"}
  /\ {settings["IAS_PRIMARY_SUBSCRIPTION_KEY"], settings["IAS_SECONDARY_SUBSCRIPTION_KEY"]}
       \subseteq {"key1", "key2"}
  /\ settings["IAS_REPORT_SIGNING_CA_FILE"] = "ca.pem"
  /\ {settings["MIN_ISVSVN"], settings["PRODID"]} \subseteq Numerals \ {"65536"}
  /\ settings["IAS_PROXY_URL"] # "ftp://h"

WellFormedIsServed ==
  script /\ WellFormed /\ args = <<>> /\ why \in {"usage", "refused"} =>
    words # <<>> /\ Last(words) = "-X"
=============================================================================
