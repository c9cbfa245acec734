------------------------------ MODULE Startup ------------------------------
(* From the words of the command line to a participant: main() of           *)
(* ShapeType_main.cxx, of the eProsima program and of IShapesMain.java, and *)
(* create_participant of the seven configurators behind them.               *)
(*                                                                          *)
(* A file name, a topic or a number is a word.  What a configurator hands   *)
(* to the middleware is a property, the word it stands for; the "file:" or  *)
(* "file://" some put in front of it is left out.                           *)
EXTENDS Integers, Sequences, FiniteSetsExt

CONSTANTS
    NULL,         \* a null pointer, or a property that is not set
    Vendors,      \* the products started
    Words,        \* what a command line is made of, and the program's own words
    Argvs,        \* the command lines: sequences of words
    Numeral,      \* what atoi and parseInt make of the words they understand
    Levels        \* the words that begin with d or e

AllVendors == {"default", "rti", "coredx", "opendds", "intercom",    \* ShapeType_main.cxx
               "fastrtps", "vortex"}                      \* a main() of their own

OwnWords == {"built in", "environment", "default governance", "default permissions"}

ASSUME StartupAssumption ==
    /\ Vendors \subseteq AllVendors
    /\ OwnWords \subseteq Words
    /\ Argvs \subseteq Seq(Words)
    /\ \A word \in DOMAIN Numeral : word \in Words /\ Numeral[word] \in Int
    /\ NULL \notin Words

VARIABLES
    vendor,       \* the product
    environment,  \* the properties set by environment variables or -D
    argv,         \* the words after the program's name
    i,            \* the index of the next word
    params,       \* the variables of main(), by name
    status,       \* how far the process has come
    properties    \* the security properties of the participant's QoS

vars == <<vendor, environment, argv, i, params, status, properties>>

(* The option that sets each variable with a value. *)
Option ==
    [domain_id |-> "-domain", published_topic |-> "-pub", subscribed_topic |-> "-sub",
     color_name |-> "-color", governance_file |-> "-governance",
     permissions_file |-> "-permissions", livelinessPeriod |-> "-livelinessPeriod",
     partition |-> "-partition", key_establishment_algorithm |-> "-kest",
     verbosity |-> "-v"]

OwnMain == {"fastrtps", "vortex"}

Variables ==
    IF vendor \in OwnMain
      THEN DOMAIN Option \ {"key_establishment_algorithm", "verbosity"}
      ELSE DOMAIN Option

Valued   == {Option[v] : v \in Variables}
Switches == {"-disableSecurity", "-logging"}
Help     == {"-help", "-h"}

Undefined ==
    [domain_id |-> -1, published_topic |-> NULL, subscribed_topic |-> NULL,
     color_name |-> NULL, governance_file |-> NULL, permissions_file |-> NULL,
     key_establishment_algorithm |-> NULL, partition |-> NULL, livelinessPeriod |-> 0,
     verbosity |-> "e", use_security |-> TRUE, enable_logging |-> FALSE]

Keys == {"identity_ca", "identity_certificate", "private_key", "permissions_ca",
         "governance", "permissions", "key_establishment"}
None == [k \in Keys |-> NULL]

(* use_env of OpenDDS and eProsima knows two variables; the Java program    *)
(* takes every system property whose name begins with dds.sec.              *)
Overridable ==
    CASE vendor \in {"opendds", "fastrtps"} -> {"identity_certificate", "private_key"}
      [] vendor = "vortex"                  -> Keys \ {"key_establishment"}
      [] OTHER                              -> {}

Init ==
    /\ vendor \in Vendors
    /\ environment \in SUBSET Overridable
    /\ argv \in Argvs
    /\ i = 1
    /\ params = Undefined
    /\ status = "options"
    /\ properties = None

-----------------------------------------------------------------------------
(* The loop over the options. *)

(* The conversions of a value.  atoi makes 0 of a word that is no number;   *)
(* parseInt throws.                                                         *)
Numbers == {"-domain", "-livelinessPeriod"}

Refused(option, word) ==
    \/ option = "-v" /\ word \notin Levels
    \/ option \in Numbers /\ vendor = "vortex" /\ word \notin DOMAIN Numeral

Converted(option, word) ==
    IF option \in Numbers
      THEN IF word \in DOMAIN Numeral THEN Numeral[word] ELSE 0
      ELSE word

(* The word after the option is its value, whatever it looks like. *)
TakeValue ==
    /\ status = "options"
    /\ i < Len(argv) /\ argv[i] \in Valued
    /\ IF Refused(argv[i], argv[i + 1])
         THEN status' = "refused" /\ UNCHANGED <<i, params>>
         ELSE /\ params' = [v \in DOMAIN params |->
                               IF v \in Variables /\ Option[v] = argv[i]
                                 THEN Converted(argv[i], argv[i + 1])
                                 ELSE params[v]]
              /\ i' = i + 2
              /\ UNCHANGED status
    /\ UNCHANGED <<vendor, environment, argv, properties>>

(* Mutant: the last two words are looked at too early. *)
MissingValueMutant ==
    /\ status = "options"
    /\ i <= Len(argv) /\ i + 1 >= Len(argv) /\ argv[i] \in Valued
    /\ status' = "refused"
    /\ UNCHANGED <<vendor, environment, argv, i, params, properties>>

MissingValue ==
    /\ status = "options"
    /\ i = Len(argv) /\ argv[i] \in Valued
    /\ status' = "refused"
    /\ UNCHANGED <<vendor, environment, argv, i, params, properties>>

Switch ==
    /\ status = "options"
    /\ i <= Len(argv) /\ argv[i] \in Switches
    /\ params' = IF argv[i] = "-disableSecurity"
                   THEN [params EXCEPT !.use_security = FALSE]
                   ELSE [params EXCEPT !.enable_logging = TRUE]
    /\ i' = i + 1
    /\ UNCHANGED <<vendor, environment, argv, status, properties>>

(* Usage and unknown options: the process ends with -1. *)
GiveUp ==
    /\ status = "options"
    /\ i <= Len(argv) /\ argv[i] \notin Valued \cup Switches
    /\ status' = IF argv[i] \in Help THEN "usage" ELSE "refused"
    /\ UNCHANGED <<vendor, environment, argv, i, params, properties>>

-----------------------------------------------------------------------------
(* Defaults, and the call of run(). *)

OrElse(value, default) == IF value = NULL THEN default ELSE value

SecurityDefaults(p) ==
    IF ~p.use_security THEN p
    ELSE [p EXCEPT !.governance_file  = OrElse(@, "default governance"),
                   !.permissions_file = OrElse(@, "default permissions"),
                   !.key_establishment_algorithm =
                      IF vendor \in OwnMain THEN @ ELSE OrElse(@, "default algorithm")]

(* Mutant: each topic is given its default on its own. *)
TopicDefaultsMutant(p) ==
    [p EXCEPT !.published_topic  = OrElse(@, "default topic"),
              !.subscribed_topic = OrElse(@, "default topic")]

TopicDefaults(p) ==
    IF p.published_topic = NULL /\ p.subscribed_topic = NULL
      THEN [p EXCEPT !.published_topic = "default topic", !.subscribed_topic = "default topic"]
      ELSE p

OtherDefaults(p) ==
    [p EXCEPT !.color_name = OrElse(@, "default color"),
              !.domain_id  = IF @ = -1 THEN 0 ELSE @]

CallRun ==
    /\ status = "options"
    /\ i > Len(argv)
    /\ params' = OtherDefaults(TopicDefaults(SecurityDefaults(params)))
    /\ status' = "run"
    /\ UNCHANGED <<vendor, environment, argv, i, properties>>

-----------------------------------------------------------------------------
(* The configurators. *)

(* A name built into the program, or what the environment has instead. *)
BuiltIn(key) == IF key \in environment THEN "environment" ELSE "built in"

(* The properties of a secure participant: the names built in, and the two  *)
(* files of the command line.                                               *)
Secure(algorithm) ==
    [identity_ca          |-> BuiltIn("identity_ca"),
     identity_certificate |-> BuiltIn("identity_certificate"),
     private_key          |-> BuiltIn("private_key"),
     permissions_ca       |-> BuiltIn("permissions_ca"),
     governance           |-> params.governance_file,
     permissions          |-> params.permissions_file,
     key_establishment    |-> algorithm]

IfSecure(values) == IF params.use_security THEN values ELSE None

(* The configurator that is used when no product is named knows nothing of  *)
(* security.                                                                *)
default_participant == properties' = None

(* Connext's makes its participant secure whether asked or not.             *)
rti_participant == properties' = Secure(params.key_establishment_algorithm)

coredx_participant == properties' = IfSecure(Secure(params.key_establishment_algorithm))

opendds_participant == properties' = IfSecure(Secure(NULL))

fastrtps_participant == properties' = IfSecure(Secure(NULL))

intercom_participant == properties' = IfSecure(Secure(NULL))

(* The environment may name the two files of the command line too. *)
vortex_participant ==
    properties' = IfSecure([k \in Keys |->
                      IF k \in environment THEN "environment" ELSE Secure(NULL)[k]])

(* InterCOM's refuses to go on without the two files. *)
FileMissing ==
    /\ vendor = "intercom"
    /\ params.use_security
    /\ params.governance_file = NULL \/ params.permissions_file = NULL

(* The middleware may refuse the participant too. *)
create_participant ==
    /\ status = "run"
    /\ CASE vendor = "default"  -> default_participant
         [] vendor = "rti"      -> rti_participant
         [] vendor = "coredx"   -> coredx_participant
         [] vendor = "opendds"  -> opendds_participant
         [] vendor = "intercom" -> intercom_participant
         [] vendor = "fastrtps" -> fastrtps_participant
         [] vendor = "vortex"   -> vortex_participant
    /\ status' \in IF FileMissing THEN {"failed"} ELSE {"live", "failed"}
    /\ UNCHANGED <<vendor, environment, argv, i, params>>

Ended == status \in {"usage", "refused", "live", "failed"} /\ UNCHANGED vars

Next == TakeValue \/ MissingValue \/ Switch \/ GiveUp \/ CallRun \/ create_participant \/ Ended

Spec == Init /\ [][Next]_vars

-----------------------------------------------------------------------------
(* Properties.  What the words ask for, read without the loop: the places   *)
(* where an option stands, and the last value given to one.                 *)

After(k) == IF argv[k] \in Valued THEN k + 2 ELSE k + 1

(* P has the first word and, with an option, the word after its value. *)
Followed(P) ==
    \A k \in 1..Len(argv) : (k = 1 \/ \E j \in P : k = After(j)) => k \in P

Places ==
    {k \in 1..Len(argv) : \A P \in SUBSET (1..Len(argv)) : Followed(P) => k \in P}

Given(option) == {k \in Places : argv[k] = option}

Last(option, default) ==
    IF Given(option) = {} THEN default ELSE argv[Max(Given(option)) + 1]

AskedTopic(option) ==
    IF Given("-pub") \cup Given("-sub") = {} THEN "default topic" ELSE Last(option, NULL)

AskedDomain ==
    LET word == Last("-domain", NULL)
    IN  IF word \in DOMAIN Numeral /\ Numeral[word] # -1 THEN Numeral[word] ELSE 0

AskedFile(key, option, default) ==
    IF key \in environment THEN "environment" ELSE Last(option, default)

(* From words to participant: run() is called with the topics, the domain,  *)
(* the colour and the partition asked for last, or the defaults (-1 asks    *)
(* for the default domain); a secure participant has a value for every file *)
(* and the governance, the permissions and, where the product passes it on, *)
(* the algorithm asked for, whatever order the words stood in and whatever  *)
(* words served as values; without security there is none of it, except on  *)
(* Connext, which sets everything all the same (main 470 to 614,            *)
(* create_participant).                                                     *)
RunAsAsked ==
    status \in {"run", "live"} =>
        /\ params.published_topic  = AskedTopic("-pub")
        /\ params.subscribed_topic = AskedTopic("-sub")
        /\ params.domain_id  = AskedDomain
        /\ params.color_name = Last("-color", "default color")
        /\ params.partition  = Last("-partition", NULL)
        /\ params.use_security = (Given("-disableSecurity") = {})
        /\ status = "live" /\ params.use_security /\ vendor # "default" =>
              /\ \A k \in Keys \ {"key_establishment"} : properties[k] # NULL
              /\ properties["governance"] =
                   AskedFile("governance", "-governance", "default governance")
              /\ properties["permissions"] =
                   AskedFile("permissions", "-permissions", "default permissions")
              /\ vendor \in {"rti", "coredx"} =>
                   properties["key_establishment"] = Last("-kest", "default algorithm")
        /\ ~params.use_security /\ vendor # "rti" => properties = None

(* A command line is refused for a reason: an option without its value, an  *)
(* unknown word in an option's place, or a value that cannot be used (the   *)
(* returns of the option loop, 472 to 577).                                 *)
RefusedForCause ==
    status = "refused" =>
        \E k \in Places :
            IF argv[k] \in Valued
              THEN k = Len(argv) \/ Refused(argv[k], argv[k + 1])
              ELSE argv[k] \notin Switches \cup Help
=============================================================================
