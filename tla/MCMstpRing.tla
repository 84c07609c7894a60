----------------------------- MODULE MCMstpRing ------------------------------
(* MstpRing for TLC: the instance is one that the proofs speak of.         *)
EXTENDS MstpRing

ASSUME MarginAssumption == Margins
==============================================================================
