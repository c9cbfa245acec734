---------------------------- MODULE MCShapesApp ----------------------------
(* Small instances of ShapesApp: the names run() can be given by main().    *)
EXTENDS ShapesApp

Name(a, t) == [addr |-> a, text |-> t]

(* main() gives every name of the command line its own address; the         *)
(* literals of the two default names may share one.                         *)
PubOnly   == [pub |-> Name(1, "A"), sub |-> NULL]
SubOnly   == [pub |-> NULL, sub |-> Name(1, "A")]
Different == [pub |-> Name(1, "A"), sub |-> Name(2, "B")]
SameText  == [pub |-> Name(1, "A"), sub |-> Name(2, "A")]
Pooled    == [pub |-> Name(1, "A"), sub |-> Name(1, "A")]

AllConfigs  == {PubOnly, SubOnly, Different, SameText, Pooled}
LoopConfigs == {PubOnly, SubOnly, Different}
Both        == {Different}
=============================================================================
