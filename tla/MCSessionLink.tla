--------------------------- MODULE MCSessionLink ---------------------------
(***************************************************************************)
(* Instances of SessionLink for TLC.                                       *)
(***************************************************************************)
EXTENDS SessionProperties, TLC

\* The player's connections are interchangeable in safety runs.
ConnSymmetry == Permutations(Conns)
=============================================================================
