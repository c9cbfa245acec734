---------------------------- MODULE MCIShapesApp ----------------------------
(* Small instances of IShapesApp: main() passes one name or two.            *)
EXTENDS IShapesApp

AllConfigs == {c \in [pub : Topics \cup {NULL}, sub : Topics \cup {NULL}] :
                 c.pub # NULL \/ c.sub # NULL}
=============================================================================
