--------------------------- MODULE RoomRefinement ---------------------------
(***************************************************************************)
(* RoomManager implements RoomLife.  The phase of a room is its status     *)
(* together with whether a start is under way; a room is doomed while      *)
(* somebody who left it empty is on the way to deleting it.                *)
(***************************************************************************)
EXTENDS RoomProperties

PhaseOf(r) ==
    CASE status[r] = "none" -> "unborn"
      [] status[r] = "Waiting" -> "open"
      [] status[r] = "Playing" -> IF StartInFlight(r) THEN "starting" ELSE "playing"
      [] status[r] = "Finished" -> IF StartInFlight(r) THEN "abandoned" ELSE "over"

Dooms(g, r) ==
    at[g] = r /\ pc[g] \in {"clearLast", "delete", "status", "destroy", "unlink"}

Life == INSTANCE RoomLife WITH
    Capacity <- MaxPlayersPerRoom,
    listed <- rooms,
    phase <- [r \in Rooms |-> PhaseOf(r)],
    seats <- members,
    roster <- lineup,
    doomed <- {r \in Rooms : \E g \in Procs : Dooms(g, r)}

\* Whatever the goroutines do, a room is entered only while it waits and has
\* a seat, has one start at a time, is confirmed only for the two players who
\* began it, never reopens after that, and disappears only after it was left
\* empty: each step of manager.go and game.go is a step of RoomLife or none.
ImplementsLife == Life!LifeSpec
=============================================================================
