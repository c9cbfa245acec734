--------------------------- MODULE MCFastRtpsApp ---------------------------
(* Small instances of FastRtpsApp: main() passes one name or two.           *)
EXTENDS FastRtpsApp

AllConfigs == {c \in [pub : Topics \cup {NULL}, sub : Topics \cup {NULL}] :
                 c.pub # NULL \/ c.sub # NULL}
SubOnly == {c \in AllConfigs : c.pub = NULL}
=============================================================================
