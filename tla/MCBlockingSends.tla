--------------------------- MODULE MCBlockingSends ---------------------------
(***************************************************************************)
(* Instances of BlockingSends for TLC, with model values for everything.   *)
(***************************************************************************)
EXTENDS BlockingProperties
=============================================================================
