------------------------------- MODULE MCRing -------------------------------
(* Instances of Ring for TLC: two messages of different size, one producer
   (paho calls the publish handler from one goroutine) and two workers. *)
EXTENDS Ring, TLC

CONSTANTS small, large

MCSizes == [m \in {small, large} |-> IF m = small THEN 1 ELSE 3]
=============================================================================
