------------------------------ MODULE MCStartup -----------------------------
(* Command lines of three words or less from every kind of word, and a few  *)
(* longer ones, on every product.                                           *)
EXTENDS Startup, TLC

Kinds == {"-pub", "-sub", "-domain", "-governance", "-permissions", "-kest", "-v",
          "-disableSecurity", "-logging", "-help", "d", "7", "-1"}

AnyWord == STRING

ShortLines == UNION {[1..n -> Kinds] : n \in 0..3}

(* Two options with a value each, one of them given twice or not, and the   *)
(* command line of the README's first example.                              *)
Pairs == {<<a, x, b, y>> : a, b \in {"-pub", "-sub", "-domain", "-governance"},
                           x, y \in {"d", "7", "-sub"}}

Readme == <<"-pub", "PD_RWA_OM_OD", "-permissions", "write_signed.p7s",
            "-governance", "governance_signed.p7s">>

(* Security is disabled, and every file is named nevertheless. *)
NamedFiles == <<"-disableSecurity", "-governance", "g", "-permissions", "p", "-kest", "k">>

(* The options no short line has, with values that look like options.       *)
OtherOptions == {<<"-color", "-pub", "-partition", "7">>, <<"-color", "d", "-color", "7">>,
                 <<"-kest", "d", "-partition", "-kest", "-kest", "-disableSecurity">>}

AllLines == ShortLines \cup Pairs \cup OtherOptions \cup {Readme, NamedFiles}
Numerals == "7" :> 7 @@ "-1" :> -1
=============================================================================
