--------------------------- MODULE RoomProperties ---------------------------
(***************************************************************************)
(* What RoomManager must guarantee, and what its documentation says of it. *)
(***************************************************************************)
EXTENDS RoomManager

(***************************************************************************)
(* Starting a game.                                                        *)
(***************************************************************************)

Starting(g, r) == pc[g] = "assign" /\ at[g] = r

StartInFlight(r) == creating[r] > 0 \/ \E g \in Procs : Starting(g, r)

\* A room has at most one start under way, between the claim of StartGame
\* (game.go:16-29) and the answer or the last failure of its goroutine, and
\* while it has one the room does not look startable.
SingleStart ==
    \A r \in Rooms :
        /\ \A g, h \in Procs : Starting(g, r) /\ Starting(h, r) => g = h
        /\ \A g \in Procs : Starting(g, r) => creating[r] = 0
        /\ StartInFlight(r) => status[r] \in {"Playing", "Finished"}

\* Nobody is in a room that is being played or over who was not among the
\* sessions its latest StartGame copied (game.go:23-28): the check of JoinRoom
\* under r.mu keeps latecomers out although it looked the room up earlier.
LineupCoversMembers ==
    \A r \in Rooms : status[r] \in {"Playing", "Finished"} => members[r] \subseteq lineup[r]

\* A room the engine is asked to create has a player for side a and one for
\* side b, and none whom buildBattleInitJSON (game.go:122-132) would drop.
BattleHasTwoSides ==
    \A r \in Rooms : creating[r] > 0 => Cardinality(lineup[r]) = 2

\* Once the engine has accepted a room and the start is over, the room never
\* is Waiting again: a repeated start, a retry or an error of an older start
\* (game.go:101-108) does not reopen a battle that is on.
ConfirmedBattleNeverReopens ==
    [][\A r \in Rooms :
        status[r] = "Playing" /\ ~StartInFlight(r) => status'[r] # "Waiting"]_vars

Deleting(r) ==
    \E g \in Procs : pc[g] \in {"destroy", "unlink"} /\ at[g] = r

\* A listed room that is Playing with no start under way is hosted by the
\* engine, or a DeleteRoom is about to drop it: no player is left in a battle
\* no engine runs (the engine itself does not fail in this module).  But for a
\* room that outlived the panic of its DeleteRoom (manager.go:327): an attempt
\* before it may have been executed, or be executed on the room's next battle.
PlayingIsBacked ==
    \A r \in rooms \ stranded :
        status[r] = "Playing" /\ ~StartInFlight(r) => r \in hosted \/ Deleting(r)

\* No takeover: one loop serves player p.
OneLoop(p) == \A k, l \in Loops : PlayerOf[k] = p /\ PlayerOf[l] = p => k = l

\* An action on its way to the engine is that of a player the engine was told
\* of when the room started, though the room was checked (game.go:256-270),
\* the side computed and the request sent under three different holdings of
\* r.mu, while others leave, join and start again.  Only a player served by two
\* loops, as in a takeover, can leave on one of them in between.
SendersAreInLineup ==
    \A g \in Procs :
        pc[g] = "send" /\ Player(g) \notin lineup[at[g]] => ~OneLoop(Player(g))

(***************************************************************************)
(* Membership.                                                             *)
(***************************************************************************)

\* No interleaving of joins seats more than MaxPlayersPerRoom players.
CapacityRespected ==
    \A r \in Rooms : Cardinality(members[r]) <= MaxPlayersPerRoom

Clearing(p, r) ==
    \E g \in Procs : pc[g] \in {"clear", "clearLast"} /\ at[g] = r /\ Player(g) = p

\* A session that names a room is in it, unless a LeaveRoom has taken it out
\* and is about to clear the name (manager.go:186-191).  Takeovers and the
\* match worker run commands of one player side by side.
RoomIDImpliesMember ==
    \A p \in Players, r \in Rooms :
        roomOf[p] = r => p \in members[r] \/ Clearing(p, r)

\* A player counts as ready only in a room that player is in: the check of
\* HandleSelectPokemon is three steps old when it marks the player
\* (game.go:331-400), and LeaveRoom takes both entries out (manager.go:186-187).
\* Only a player served by two loops can leave on one of them in between.
ReadyAreMembers ==
    \A r \in Rooms : \A p \in ready[r] \ members[r] : ~OneLoop(p)

\* A listed room without players is being deleted by whoever left last: no
\* interleaving of leaves loses the last one's DeleteRoom (manager.go:188-194),
\* and no failure of a remote call ends it, but for the panic of a call on a
\* node that was deleted (manager.go:327).
EmptyRoomsAreBeingDeleted ==
    \A r \in rooms \ stranded : members[r] = {} =>
        \E g \in Procs :
            /\ at[g] = r
            /\ pc[g] \in {"clearLast", "delete", "status", "destroy", "unlink"}

\* So such a room is gone in the end, whatever the engine answers, or its
\* DeleteRoom ended in that panic and it may stay for ever.
EmptiedRoomIsRemoved ==
    \A r \in Rooms : (r \in rooms /\ members[r] = {}) ~> (r \notin rooms \/ r \in stranded)

(***************************************************************************)
(* What a comment or a document says and the code does not do.             *)
(***************************************************************************)

\* frontend_command_protocol.md:398 has a room deleted when nobody is left in
\* it: a room that has left rm.Rooms has no players.
DeletedRoomsAreEmpty ==
    \A r \in Rooms : status[r] # "none" /\ r \notin rooms => members[r] = {}
=============================================================================
