------------------------- MODULE MCShapeTypeSupport -------------------------
(* Colours at the limit of 64 and around it: 64 letters and the NUL leave   *)
(* three bytes of padding, so that 67 letters still fit the payload, though *)
(* not the key buffer, and 68 fit neither.                                  *)
EXTENDS ShapeTypeSupport, TLC

Lengths == "BLACK" :> 5 @@ "long64" :> 64 @@ "long67" :> 67 @@ "long68" :> 68
Names   == DOMAIN Lengths

(* run() writes 5*(n%50), a number from the first letter, and 30. *)
Sample(c, n) == [color |-> c, x |-> n, y |-> 4, shapesize |-> 30]
OnePerColor  == {Sample(c, 5) : c \in Names}
=============================================================================
