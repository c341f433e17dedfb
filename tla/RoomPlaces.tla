----------------------------- MODULE RoomPlaces -----------------------------
(***************************************************************************)
(* What moving rooms promises, without goroutines, nodes, calls or         *)
(* processes: where a room is played, which pods have accepted it, and     *)
(* where Redis has it.                                                     *)
(***************************************************************************)
CONSTANTS Rooms, Pods, Nowhere

VARIABLES
    place,   \* the pod a room is played at, or Nowhere
    seen,    \* the pods that have ever accepted it
    saved    \* the pod of its snapshot, or Nowhere

placeVars == <<place, seen, saved>>

PlacesInit ==
    /\ place = [r \in Rooms |-> Nowhere]
    /\ seen = [r \in Rooms |-> {}]
    /\ saved = [r \in Rooms |-> Nowhere]

\* A pod accepts the room, and says so in Redis.
Admit(r, p) ==
    /\ seen' = [seen EXCEPT ![r] = @ \cup {p}]
    /\ saved' = [saved EXCEPT ![r] = p]

\* A battle begins only in the step in which a pod accepts it, at a pod that has.
Begin(r) ==
    /\ place[r] = Nowhere
    /\ \E p \in seen'[r] : place' = [place EXCEPT ![r] = p]

Accept(r, p) == Admit(r, p) /\ (Begin(r) \/ UNCHANGED place)

\* A battle moves to pods that have accepted it before, and to no others.
Move(r, p) ==
    /\ place[r] # Nowhere
    /\ p \in seen[r]
    /\ place' = [place EXCEPT ![r] = p]
    /\ UNCHANGED <<seen, saved>>

\* Battles end, some or all of them.
End(S) ==
    /\ place' = [r \in Rooms |-> IF r \in S THEN Nowhere ELSE place[r]]
    /\ UNCHANGED <<seen, saved>>

Save(r, p) ==
    /\ p \in seen[r]
    /\ saved' = [saved EXCEPT ![r] = p]
    /\ UNCHANGED <<place, seen>>

Unsave(r) ==
    /\ saved' = [saved EXCEPT ![r] = Nowhere]
    /\ UNCHANGED <<place, seen>>

\* Who has forgotten everything takes up all that is saved, where it is saved.
Restore ==
    /\ \A r \in Rooms : place[r] = Nowhere
    /\ place' = saved
    /\ UNCHANGED <<seen, saved>>

PlacesNext ==
    \/ \E r \in Rooms, p \in Pods : Accept(r, p) \/ Move(r, p) \/ Save(r, p)
    \/ \E r \in Rooms : Unsave(r)
    \/ \E S \in SUBSET Rooms : End(S)
    \/ Restore

PlacesSpec == PlacesInit /\ [][PlacesNext]_placeVars
=============================================================================
