-------------------------- MODULE MCShapesExchange --------------------------
(* Two processes that are alike, one delay, one loss in a row.              *)
EXTENDS ShapesExchange
=============================================================================
