--------------------------- MODULE MCRoomManager ---------------------------
(***************************************************************************)
(* Instances of RoomManager for TLC.  A loop is numbered like its player;  *)
(* loop 11 is the second loop of player 1, alive during a takeover.        *)
(***************************************************************************)
EXTENDS RoomRefinement, TLC

OneLoopEach == [l \in Loops |-> l]

Takeover == [l \in Loops |-> IF l > 10 THEN l - 10 ELSE l]

\* Rooms are interchangeable in safety runs.
RoomSymmetry == Permutations(Rooms)
=============================================================================
