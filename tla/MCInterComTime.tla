--------------------------- MODULE MCInterComTime --------------------------
(* A second of five nanoseconds and a clock of five seconds: every carry,   *)
(* borrow and comparison of two times of the loop occurs.                   *)
EXTENDS InterComTime

ThreeNs == [sec |-> 0, nanosec |-> 3]
=============================================================================
