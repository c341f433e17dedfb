--------------------------- MODULE MCEngineNodes ---------------------------
(***************************************************************************)
(* Instances of EngineNodes for TLC: the configurations give all values.   *)
(***************************************************************************)
EXTENDS EngineProperties
=============================================================================
