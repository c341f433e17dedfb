------------------------------ MODULE RoomLife ------------------------------
(***************************************************************************)
(* What the room manager promises of a room, without goroutines, sessions  *)
(* or remote calls: who may sit in it when, in which order it opens,       *)
(* starts, is played and is over, and when it may disappear.               *)
(***************************************************************************)
EXTENDS Naturals, FiniteSets

CONSTANTS Players, Rooms, Capacity

VARIABLES
    listed,     \* rooms that can be found
    phase,      \* where a room is in its life
    seats,      \* who sits in it
    roster,     \* who sat in it when its latest start began
    doomed      \* rooms that were left empty and are to disappear

lifeVars == <<listed, phase, seats, roster, doomed>>

Phases == {"unborn", "open", "starting", "abandoned", "playing", "over"}

LifeInit ==
    /\ listed = {}
    /\ phase = [r \in Rooms |-> "unborn"]
    /\ seats = [r \in Rooms |-> {}]
    /\ roster = [r \in Rooms |-> {}]
    /\ doomed = {}

Become(r, from, to) ==
    /\ phase[r] = from
    /\ phase' = [phase EXCEPT ![r] = to]

Offer(r, p) ==
    /\ Become(r, "unborn", "open")
    /\ listed' = listed \cup {r}
    /\ seats' = [seats EXCEPT ![r] = {p}]
    /\ UNCHANGED <<roster, doomed>>

\* A seat is taken in an open room only, and only while there is one.
Sit(r, p) ==
    /\ phase[r] = "open"
    /\ p \notin seats[r]
    /\ Cardinality(seats[r]) < Capacity
    /\ seats' = [seats EXCEPT ![r] = @ \cup {p}]
    /\ UNCHANGED <<listed, phase, roster, doomed>>

\* Whoever leaves nobody behind dooms the room.
Quit(r, p) ==
    /\ phase[r] # "unborn"
    /\ seats' = [seats EXCEPT ![r] = @ \ {p}]
    /\ doomed' = IF seats[r] \ {p} = {} THEN doomed \cup {r} ELSE doomed
    /\ UNCHANGED <<listed, phase, roster>>

\* One start at a time, of those who sit there at that moment.
Begin(r) ==
    /\ Become(r, "open", "starting")
    /\ roster' = [roster EXCEPT ![r] = seats[r]]
    /\ UNCHANGED <<listed, seats, doomed>>

\* A failed start opens the room again, even one that was abandoned.
Withdraw(r) ==
    /\ Become(r, "starting", "open") \/ Become(r, "abandoned", "open")
    /\ UNCHANGED <<listed, seats, roster, doomed>>

\* A start that succeeds is one of two players or more.
Confirm(r) ==
    /\ ~(Cardinality(roster[r]) < 2)
    /\ Become(r, "starting", "playing") \/ Become(r, "abandoned", "over")
    /\ UNCHANGED <<listed, seats, roster, doomed>>

\* Somebody has left the battle, or the room that waits for it.
Stop(r) ==
    /\ Become(r, "playing", "over") \/ Become(r, "starting", "abandoned")
    /\ UNCHANGED <<listed, seats, roster, doomed>>

\* Only a doomed room disappears...
Drop(r) ==
    /\ r \in doomed
    /\ listed' = listed \ {r}
    /\ doomed' \in {doomed, doomed \ {r}}
    /\ UNCHANGED <<phase, seats, roster>>

\* ... unless whoever was to see to it cannot: then it stays, and may be entered
\* again.
Forsake(r) ==
    /\ r \in doomed
    /\ doomed' = doomed \ {r}
    /\ UNCHANGED <<listed, phase, seats, roster>>

LifeNext ==
    \E r \in Rooms :
        \/ \E p \in Players : Offer(r, p) \/ Sit(r, p) \/ Quit(r, p)
        \/ Begin(r) \/ Withdraw(r) \/ Confirm(r) \/ Stop(r) \/ Drop(r)
        \/ Forsake(r)

LifeSpec == LifeInit /\ [][LifeNext]_lifeVars
=============================================================================
