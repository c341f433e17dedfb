---------------------------- MODULE MCFailover ----------------------------
(***************************************************************************)
(* Instances of Failover for TLC: the configurations give all values.      *)
(***************************************************************************)
EXTENDS FailoverRefinement
=============================================================================
