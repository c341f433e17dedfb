------------------------ MODULE FailoverRefinement ------------------------
(***************************************************************************)
(* Failover implements RoomPlaces.  A room is played where NodeID says     *)
(* when it is listed, its status is Playing, its start is over and did not *)
(* fall back to another node (game.go:58), after which NodeID says nothing. *)
(***************************************************************************)
EXTENDS FailoverProperties

PlaceOf(r) == IF Played(r) THEN nodeID[r] ELSE NoPod

SavedAt(r) == IF snapshot[r] = NoSnapshot THEN NoPod ELSE snapshot[r].node

Places == INSTANCE RoomPlaces WITH
    Nowhere <- NoPod,
    place <- [r \in Rooms |-> PlaceOf(r)],
    seen <- [r \in Rooms |-> {p \in Pods : <<r, p>> \in accepted}],
    saved <- [r \in Rooms |-> SavedAt(r)]

\* Whatever starts, moves, late calls, crashes and restarts do: a battle begins in
\* the step in which a pod accepts it (game.go:77), moves only to a pod that has
\* accepted it (manager.go:664), is taken up by a restart where its snapshot says
\* (manager.go:471), and once it has ended it comes back in no other way.
ImplementsPlaces == Places!PlacesSpec
=============================================================================
