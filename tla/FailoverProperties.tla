------------------------ MODULE FailoverProperties ------------------------
(***************************************************************************)
(* What must hold of the places of rooms, and what documents and comments  *)
(* say of them that the code does not do.                                  *)
(***************************************************************************)
EXTENDS Failover

\* A room that is played, and whose start is over, is assigned to a pod that has
\* accepted it, through starts, moves, crashes and late calls; StartGame writes
\* NodeID before the call and the reassignment after it (manager.go:664).  Only a
\* start that fell back to another node (game.go:58) leaves a NodeID that says
\* nothing.
AcceptedWhereAssigned ==
    \A r \in Rooms \ fellBack :
        status[r] = "Playing" /\ start[r] = "no" => <<r, nodeID[r]>> \in accepted

\* What Redis says of a room, whoever wrote it last, names a pod that has accepted
\* it: a restarted gateway (manager.go:471) never takes a room to be at a pod that
\* has not seen it.
SnapshotsNameHosts ==
    \A r \in Rooms : snapshot[r] # NoSnapshot => <<r, snapshot[r].node>> \in accepted

\* A battle whose start is over and has not fallen back.
Played(r) == r \in rooms \ fellBack /\ status[r] = "Playing" /\ start[r] = "no"

\* While main alone reassigns, before it serves players (main.go:139), no room is
\* destroyed on the node it is assigned to (manager.go:689), whatever Health does
\* to the nodes meanwhile.
StartupSparesTheTarget ==
    [][phase = "restoring" =>
          \A c \in calls' \ calls : c.op = "DestroyRoom" => c.pod # nodeID[c.room]]_vars

\* A room that stays assigned to a node of the map that stays unhealthy, while
\* there is a healthy one...
Lost(r) ==
    /\ Serving
    /\ healthy # {}
    /\ r \in rooms /\ status[r] = "Playing"
    /\ nodeID[r] \in Unhealthy

\* ... is attempted to be moved again and again (manager.go:351), not only once.
LostRoomsAreRetried ==
    \A r \in Rooms : <>[]Lost(r) => []<>(\E m \in Movers : pc[m] = "load" /\ room[m] = r)

\* A start does not go on for ever: it is confirmed or given up (game.go:70-97),
\* also when its node is deleted or the room has gone meanwhile.
StartsEnd == \A r \in Rooms : (start[r] # "no") ~> (start[r] = "no")

\* "Save the snapshot again at once so that the new node can use it (lest the
\* engine's DestroyRoom delete the data of Redis)" (manager.go:691): a battle at
\* the pod it is assigned to, that nobody is starting, moving or deleting, has a
\* snapshot.
MovedRoomsKeepTheirSnapshot ==
    \A r \in rooms \ fellBack :
        /\ status[r] = "Playing" /\ start[r] = "no" /\ r \notin leaving
        /\ <<r, nodeID[r]>> \in hosted
        /\ \A m \in Movers : room[m] # r
        => snapshot[r] # NoSnapshot

\* "Update the snapshot in Redis together with it, so that NodeID agrees with the
\* value in memory" (manager.go:668): the snapshot of a battle that nobody is
\* starting or moving names the pod the battle is assigned to.
SnapshotsFollowMoves ==
    \A r \in Rooms :
        /\ Played(r) /\ snapshot[r] # NoSnapshot
        /\ \A m \in Movers : room[m] # r
        => snapshot[r].node = nodeID[r]
=============================================================================
