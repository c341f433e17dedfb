# Verification of the battle gateway

The repository is the Go gateway of a Pokemon battle game. Players connect by
WebSocket, form rooms of two, choose teams and fight; the fight itself is
computed by C++ engines (pods of a StatefulSet) that the gateway calls by gRPC.
Rooms are kept in memory, and snapshots of them in Redis let a restarted gateway
or another engine pod take over.

The modules here model the gateway's goroutines at the grain at which they can
interleave, TLC checks them on small instances, and TLAPS proves the most
important properties for every instance. Source lines are given as `file:line`;
paths are under `src/internal/` unless said otherwise. `PROJECT.json` maps every
definition to the lines it stands for.

## The system

| Part | Code | State | Operations | What makes it correct |
| --- | --- | --- | --- | --- |
| Rooms | `room/manager.go`, `room/game.go` | `rm.Rooms`, and per room `Status`, `Sessions`, `ReadyPlayers`, `NodeID` | create, join, leave, delete, start, choose a team, act, and the remote calls of starting and destroying | two seats, one start at a time, no latecomers, a battle exists where the gateway says so, an empty room disappears |
| Match worker | `room/match.go` | `MatchQueue` | pair two sessions, create and join for them | both end in one room |
| Sessions and connections | `handler/websocket.go`, `room/session.go`, `room/manager.go:382-463` | `AllSessions`, `s.Conn`, `s.Send`, `s.RoomID`; per connection a handler, a write pump, a timer | connect, take over, reconnect, detach, clean up, send, broadcast | a session's connection is served, absence ends in a return or a clean-up, answers arrive |
| Engine nodes | `engine/manager.go` | `nodes`, `replicas`, `maxPodIndex`; per node the client, health, `reconnecting`, failures | heartbeat, reconnect loop, discovery, shrinking, deletion | a node that lives is found again, one that is gone is dropped, no call goes to a dropped one |
| Restoring, failover, shutdown | `room/manager.go:64-93, 246-309, 466-736` | rooms, snapshots | restore, reassign the rooms of a lost node, destroy all | a playing room is on one live node, and its snapshot says which |
| Snapshot store | `store/redis_store.go` | Redis keys | save, load, list | a snapshot names a node that has had the room |
| Locks and channels | `rm.mu`, `r.mu`, `s.Send`, `MatchQueue` | who holds what, what is full | whatever a command waits for | goroutines do not wait for each other for ever |
| Router, protocol, configuration, process | `handler/router.go`, `protocol/`, `../configs/`, `../cmd/server/main.go` | handlers by command | dispatch one command at a time per connection; wiring and shutdown | |
| RPC ring | `rpc/client.go` | hash ring of nodes | register, remove, look up | its lookup has no caller |
| Generated code, engine, drivers | `../api/`, `../server`, `../test/` | | | external |

They interact as follows. A connection's handler runs `Dispatch` for one message
at a time, so a connection is one goroutine of commands; a player who takes over
his own session has two of them alive for a while, and the match worker runs
`JoinRoom` for sessions too. `StartGame` spawns a goroutine that calls the
engine. All of them share the rooms (under `rm.mu` and the room's `r.mu`), the
session fields (under nothing) and the channel `s.Send`, from which every write
pump of the session reads. Timers of lost connections call `LeaveRoom`. The
health check of the engine nodes calls back into the rooms to move them.

What is hard: locks are released between looking a room up and using it, and
between counting its players and acting on the count; remote calls fail, are
repeated, and may be executed after their deadline and out of order; session
fields are read and written without a lock by handlers, pumps and timers that
overlap when a player takes over or comes back; several steps of one command
fail on their own. The list with lines is `hazards` in `PROJECT.json`.

## Modules

| Module | Content |
| --- | --- |
| `RoomManager` | the rooms, the match worker and the start goroutines |
| `RoomProperties` | what must hold of it, and what documents say and the code does not do |
| `RoomLife` | abstract: the life of a room, without goroutines, sessions or calls |
| `RoomRefinement` | the mapping under which `RoomManager` implements `RoomLife` |
| `MCRoomManager` | instances for TLC |
| `RoomManagerProofs`, `RoomMembershipProofs`, `RoomRefinementProofs`, `RoomSeatsProofs` | proofs; each extends the one before |
| `SessionLink` | the connections, pumps and timers of one player |
| `SessionProperties`, `MCSessionLink`, `SessionLinkProofs` | the same three for it |
| `EngineNodes` | the connections to the engine pods: the health goroutine and the reconnect loops |
| `EngineProperties`, `MCEngineNodes`, `EngineNodesProofs` | the same three for it |
| `Failover` | on which pod a room is played: starts, moves, snapshots, restarts, shutdown |
| `FailoverProperties`, `MCFailover`, `FailoverProofs` | the same three for it |
| `RoomPlaces` | abstract: where a room is played, who has accepted it, where Redis has it |
| `FailoverRefinement` | the mapping under which `Failover` implements `RoomPlaces` |
| `BlockingSends` | the locks and channels every command takes and waits for |
| `BlockingProperties`, `MCBlockingSends`, `BlockingProofs` | properties, instances and proofs for it |

### RoomManager and the code

A *loop* runs commands for the session of `PlayerOf[loop]`; two loops may serve
one player. `pc` says what a goroutine does next, `at` in which room. A step is
what the code does under one holding of a lock, one unlocked access of a session
field, or one attempt of a remote call:

| Step (`pc`) | Code |
| --- | --- |
| `CreateRoom` | `CreateRoom`, all under `rm.mu` |
| `JoinLookup`, `Join` | the halves of `JoinRoom` under `rm.mu` and `r.mu` |
| `Lookup`, `LeaveRemove`, `ClearRoomID`, `Depart` | `LeaveRoom`: lookup; removal and count; `s.RoomID = ""`; status of a room somebody is left in |
| `DeleteLookup`, `DeleteStatus`, `DestroyAccepted`/`DestroyFault`/`DestroyPanics`, `Unlink` | `DeleteRoom`: lookup, unlocked status, attempts at the engine, removal |
| `StartClaim`, `Assign`, `CreateAccepted`/`CreateFault` | `StartGame`: claim under `r.mu`, the rest of the caller, the goroutine's attempts with `handleStartError` |
| `SelectCheck`, `ResetTeam`, `FillTeam`, `MarkReady` | `HandleSelectPokemon` with its automatic start |
| `BattleCheck`, `InjectSide`, `SendAction` | `forwardBattleAction` |
| `Enqueue`, `TakePlayer`, `MatchCreate`, `MatchJoinLookup` | the match command and worker |
| `LateExecution` | the engine executes a request whose deadline has passed |

A remote call fails in one of five ways: there is no node, the engine refuses,
its answer is lost after it has executed, the deadline passes and the engine
may execute at any later time (`late`), or the node was deleted after it had been
looked up, whose client is `nil`, so that the call panics. `creating[r]` counts the
attempts left to the start goroutine; the last failure is one step with
`handleStartError`. The panic in `DeleteRoom` (`DestroyPanics`, `manager.go:327`) is
recovered by `net/http`: the loop goes on with the player's next connection, the
room stays listed although it was left empty, and the history variable `stranded`
keeps which rooms that has happened to. In a timer or in the start goroutine the
panic ends the process, and with it everything modelled here.

Abstractions: reading `s.RoomID` and looking it up are one step (room IDs are
64 random bits and are never drawn again, so the lookup cannot find another
room); strings are read and written whole; iterating a map without its lock is
one step; sends do not block; the engine does not lose rooms by itself. IDs are
numbers because sides are given by the order of the IDs (`game.go:142`).

### SessionLink and the code

One player, whose connections are `Conns`. A session is named after the
connection it was made for, or is the one in `Restored` that
`restoreRoomSnapshot` made before anybody could connect: known, in a room,
without a connection or a timer. `pc` is where the handler of a connection is in
`HandleWS`; `pump` and `pumpConn` are its `WritePump`; `timers` the goroutines
asleep for `ReconnectionTimeout`, oldest first, since all sleep equally long.
`queue[s]` is `s.Send`; a message is the answer to the reconnection of connection
`c` (named `c`) or any `Other`. Accesses of `s.Conn` are separate steps: test,
close, attach, compare, clear, and the pump's read and comparison. A handler that
finds `nil` where it has just seen a connection panics, which `net/http`
survives; a pump that holds `nil`, or meets another writer on its connection,
ends the process (`up`).

Abstractions: one room, kept in being by others, in which the player may take
the seat of his ID; joining and leaving are one step here, `RoomManager` has
their parts; a command answers once; a connection the network has lost without
anybody noticing counts as open; a write to a connection that is closed fails.

### EngineNodes and the code

The goroutine `Health` stands for `NewEngineInstance`, then `healthCheckLoop`,
then `Shutdown`, which follow each other; `Loops` are the goroutines of
`attemptReconnectLoop`. `pc` says what each does next, `pod` for which pod, and
`job` and `todo` what `Health` goes through the pods for. A step is one holding of
a lock of `e` or of a node, or one call:

| Step (`pc`) | Code |
| --- | --- |
| `BootPod`; `StartDiscovery`, `ProbePod`, `Raise` | the pods of the start; `discoverNewPods` with `updateMaxPodIndex` |
| `DialSucceeds`/`DialGivenUp`/`DialScheduled`/`DialFails`, `Enter`, `Replace`, `Reset` | `connectAndRegisterPod`, and what its three callers do when it fails |
| `StartPatrol`, `EnsurePod` | `ensureConnected` |
| `StartHeartbeat`, `Ping`, `Missed`, `Answer`, `Answered`, `Unanswered`, `Address` | `checkHeartbeat` with `checkSingleNode`, `markHealthy`, `markUnhealthy` |
| `Claim`, `Unclaim` | `reconnect` before and after its attempt |
| `Count`, `Judge`, `Delete` | `recordReconnectFailure` and `deleteNode` |
| `Top`, `Again`, `Leave` | `attemptReconnectLoop` with its deferred end |
| `ShrinkRead`, `Resize` | `shrinkReplicaCountIfNeeded` |
| `Cancel`, `StopHealth`, `CloseNode`, `DropNodes` | `Shutdown` |

The fields of the nodes are sets of pods, because the map has one node per pod.
A node that has been deleted never returns to the map, so what a goroutine does
to one that it still holds (`stale`) changes nothing that anybody else sees; what
such a goroutine reads of it later (`Judge`, `Address`) is nondeterministic.
`broken` says that the connection of a node has not recovered from an outage of
the pod, and `cut` that the one `Health` is pinging through was closed.

Abstractions: a lookup and the one locked access that follows it are one step;
the failures are counted up to 2, the limit; iterations read the map once; pods
are probed up to `ProbeAhead` beyond the known ones instead of 10; only the pods
`0 .. PodCount - 1` exist, a missing pod being one that does not answer. The
callback that moves rooms is in `Failover`; `rpc.Mgr`, which repeats the map and is
read by nobody, is left out.

### Failover and the code

The pods are `0 .. PodCount - 1`; `process` says which process each runs, `hosted`
which rooms it has. `known`, `healthy`, `serverID` and `active` are the nodes of
`e.nodes` as rooms see them, `snapshot` is Redis, `calls` are the requests nobody
waits for. *Movers* run `ReassignRunningRoomsFromUnavailableNodes`: the health
goroutine, each reconnect loop, and `main` at the start, which `Health` also stands
for because the callback is registered only later.

| Step | Code |
| --- | --- |
| `Boot`, `Restore`, `RestoreFails`, `DestroyAllRooms` | `main`, `NewEngineInstance`, `RestoreFromStore`, and the shutdown, which leaves the handlers of connections running |
| `Connect`, `Beat`, `Miss`, `Patrol`, `GiveUp` | what `EngineNodes` has in detail: a node is connected, a heartbeat is answered or not, lost nodes make `Health` reassign, the second failure reassigns and deletes |
| `StartGame`, `Assign`, `Begin`, `StartAccepted`/`StartFails` | `StartGame`: the claim, `GetNodeForRoom`, the goroutine with its second lookup and its attempts |
| `LeaveRoom`, `DestroyRoom`, `Unlink` | the end of a battle and of a room |
| `Collect`, `Finish`, `Pick`, `Reread`, `Load`, `CreateAccepted`/`CreateFault`, `SetNode`, `Save`, `SendDestroy`, `SaveAgain`, `End` | the reassignment, room by room |
| `Panic` | a call through the `nil` client of a deleted node |
| `Host`, `Unhost`, `Execute`, `Lose`, `Replace`, `Crash` | the engine, the network, a new pod, the end of the gateway |

Abstractions: a node is entered in the map and connected in one step, which
`EngineNodes` has apart; `GetStatus` and the collection of the rooms are one step, as are the
three attempts to destroy, and the whole of `DestroyAllRooms`; hash, load and
capacity choose any healthy node, or the node of the hash, which may be missing;
the expiry of keys is left out; the engine writes a snapshot when it creates a
room and deletes it when it destroys one that it has (`manager.go:688`); restored
rooms have no sessions here. A goroutine holds a node object and not a pod: when
its node is deleted and another one made for the pod, the code panics where the
module goes on; the end of the process is a step of the module there too, as
`Crash`. What is written to a room that has left the map is still kept, because
goroutines hold the room object.

### BlockingSends and the code

A goroutine runs a *script*: the rest of a command as the operations it may wait
in. `announce` and `await` are the halves of `rm.mu.Lock()` (a writer that has
announced itself keeps new readers out and waits for those inside), `lock` and
`free` hold a room's `r.mu`, `send` is `s.Send <- bytes`, `broadcast` sends only
where there is room, `put` and `take` are the match queue. `write`, `read` and
`pass` take a lock in which nothing can block. Each function of the code is a set
of scripts, one for every way it can go, whatever the state of the rooms: the
model can do more than the code, never less. *Helpers* run what is not a read
loop: a reconnection, `SyncRoomState`, the outcome of a start, a clean-up, a
reassignment, and the commands of further players. A client may stop reading at
any time (`Stall`); `Attach` is a new connection with its pump.

## Runs

| Run | Bounds | Shows |
| --- | --- | --- |
| `rooms` | 3 players with a loop each, 1 room, 2 seats, 2 attempts, every fault; create, join, leave, start | `SingleStart`, `LineupCoversMembers`, `BattleHasTwoSides`, `PlayingIsBacked`, `CapacityRespected`, `EmptyRoomsAreBeingDeleted`, `ConfirmedBattleNeverReopens`, the refinement `ImplementsLife`, and `EmptiedRoomIsRemoved` |
| `battle` | 2 players, one with two loops, 1 room, refusals; also choosing and acting | `ReadyAreMembers`, `SendersAreInLineup` |
| `crowd` | 2 players, one with two loops, 2 rooms, the match worker with a queue of 2 | `TypeOK`, `RoomIDImpliesMember` |
| `sessions` | 2 connections, a buffer of 1, with and without a restored session | `TypeOK`, `CurrentHasHandler`, `OfflineSessionsExpire`, `CurrentConnHasWriter`, `OfflineIsResolved`, `ClosedConnsAreDetached` |
| `nodes` | 2 pods, both of the start, the higher with 2 outages, 2 loops | `TypeOK`, `AddressedNodesAreConnected`, `FlagIsCleared`, `SteadyNodesStay`, `UpPodsAreServed`, `GonePodsAreDropped` |
| `failover` | 1 room, 2 pods, moves by `main` and `Health`, leaving, shutdown, crashes, a Redis that fails | `TypeOK`, `AcceptedWhereAssigned`, `SnapshotsNameHosts`, `StartupSparesTheTarget`, `LostRoomsAreRetried`, and the refinement `ImplementsPlaces` |
| `one_pod` | 1 room, 1 pod with 2 processes, a reconnect loop, 2 attempts, late calls besides | `AcceptedWhereAssigned`, `StartsEnd` |
| `sends` | 1 player, the match worker, 1 helper, all commands and tasks, buffers of 1 | `TypeOK`, `StuckMeansUnread` |
| `deleted_seated` | 2 players, 1 room | fails: a player sits in a deleted room |
| `lost_snapshot` | 1 room, 2 pods | fails: a battle is left without a snapshot |
| `moved_twice` | 1 room, 2 pods, moves by `Health` and a reconnect loop | fails: Redis and `NodeID` name different pods |
| `stuck_return` | 2 players, 1 helper | fails: a player who returns waits for his own full channel |

Why the bounds are enough. A room seats two, so three players are the smallest
number with somebody who is refused, arrives late or starts while others leave;
with one loop per player every pair of commands overlaps. A takeover, which
overlaps commands of one player, is in `battle` and `crowd`; the other player is who
he plays with. Rooms do not share state except through `s.RoomID` and the match
queue, for which `crowd` has two rooms. Two attempts have a first, a repeated and a
last one. For sessions two connections are what a takeover, a reconnection or a
double registration needs, and a buffer of one is full after one message. The
properties that TLAPS proves hold for every bound. For the engine nodes
an outage makes a node, its loop, its deletion, the loop's next node and a discovery
of the pod meet, and the second outage lets the loop of the first one meet the next
node. The pod that fails is the higher one, so that its loss makes the replicas
shrink; the other one shows what may not happen to a pod that keeps answering. Two
failing pods, or a third loop, give the same answer for the invariants (5.5 and 2.7
million states, too many for the liveness properties); when all loops are in use,
the bound makes `Health` wait in its dial.

In `failover` a second pod is where a room can be moved to, and in `one_pod` a
second process is one that does not have the rooms of the first; a third of
either is met in the same way. With two reassignments at a time (`Loops = {1}`, in
11 million states without commands and faults, too many with them) the invariants
of `failover` hold too, as `FailoverProofs` has for any number of them; what does
not hold then is in `moved_twice`. In
`sends` two goroutines besides the match worker are enough for two locks to be taken in opposite orders and for a reader to wait between two
readings for a writer; with two players (create, join, list, match and a
reconnection) the answer is the same, in a run too long to keep. A channel of
one message is full and empty within a command.

Rooms are drawn from a finite pool, commands and connections are not endless, so
an idle server is a deadlock for TLC: `CHECK_DEADLOCK FALSE`. The runs without
liveness or refinement use symmetry of rooms where there are two.

### The four failing runs

Each states a sentence of the documentation or of a comment, and TLC shows a
behaviour of the code that contradicts it.

- `docs/frontend_command_protocol.md:398`: a room nobody is left in is deleted.
  The last player's `LeaveRoom` counts zero, a `JoinRoom` takes the seat, the
  room is deleted all the same, and the newcomer was told of success.
- `manager.go:691`: the snapshot is saved once more after the old node was told to
  destroy its copy, so that it survives. The request is sent by a goroutine of
  its own: a pod that was only thought lost executes it after the second save, and
  the battle goes on without a snapshot.
- `manager.go:668`: the snapshot is updated so that it agrees with the `NodeID` in
  memory. The callback runs in `Health` and in the reconnect loop of the lost node
  (`engine/manager.go:533`), each after its second failure. The first moves the room
  and saves it, the second moves it on and saves it, and then the first saves its
  own choice once more (`manager.go:693`). Both end, `NodeID` names the pod of the
  second, Redis that of the first, and a restart takes the room there. (In the
  trace the pod the room came from is connected again and is the second's choice;
  with three pods it is the third.) Both pods have accepted the room, so
  `SnapshotsNameHosts` holds all the same.
- `docs/...:876`: who returns within ten seconds gets the state back. `CreateRoom`
  answers while it holds `rm.mu`; when the channel of a player whose connection is
  gone is full, it waits for a pump that only a reconnection could bring, and
  the reconnection waits for `rm.mu`. Meanwhile nobody can connect, leave or list
  rooms, and no room is moved off a lost node.

Seen while exploring, without a run of their own:

Rooms and sessions
- `manager.go:213` says a room leaves memory after it was destroyed in C++. When
  both players leave right after a start, `DestroyRoom` is answered before the
  start goroutine's `CreateRoom` arrives, and the engine keeps the room.
- `manager.go:232` says a room leaves memory even if it could not be destroyed, so
  that it blocks nothing. When the node is deleted between two attempts, the call
  panics (`manager.go:327`), `delete(rm.Rooms)` is never reached, and `s.RoomID` is
  already empty: nobody is left to delete the room. It may be entered and played
  in again, and an attempt before the panic may yet destroy that battle. The
  exceptions for `stranded` are needed: without any one of them TLC finds this.
- `docs/...:530` and `game.go:413` have a game start when both have chosen. A player with two loops may
  leave by one while the other is choosing: the mark is set after he has left
  (`game.go:399`), so he is ready when he enters again, or the one who is left starts
  with a newcomer who has not chosen. His action may likewise reach the engine with
  the side, or in the battle, of an earlier line-up (`game.go:255`). A player left
  alone is given side a (`game.go:155`).
- `manager.go:35` says `ReadyPlayers` records who has chosen. A second, malformed
  choice empties the team and leaves the mark (`game.go:363`).
- `docs/...:48` says a session is kept for ten seconds. The timer of an earlier
  absence is not stopped by the return and ends in the next absence.
- `docs/...:55` says the server answers a reconnection. The pump of the lost
  connection still waits on the shared channel, takes the answer, sees that the
  connection has changed and returns with it (`session.go:47`).
- `docs/...:50` has a player who stays away cleaned up and out of the room. A
  restart takes the connection of every player and starts no timer: who does not
  come back keeps the seat for ever (`NotYetBack`).
- `s.RoomID` is not the current room after `create_room` in a room
  (`session.go:15`); a waiting room whose first start failed by deadline may be
  hosted by the engine when it is deleted without telling it (`manager.go:239`); a
  player may be matched with himself (`match.go:14`); two first connections of a
  player make two sessions, and the timers look the player up by ID and never see
  the one that was replaced (`websocket.go:40`, against `docs/...:50`).

Nodes
- `engine/manager.go:536` and `:40`: a node with two failures in a row is deleted.
  `Health` and a loop both read the second failure; the loop deletes the node,
  connects and makes a new one, and `Health` then deletes that one. Discovery
  finds the pod again.
- `ensureConnected` can only act on a node that another goroutine is about to
  connect, since nothing else leaves a node of the map without a connection; a
  connection made for a node that is deleted meanwhile is never closed; a refused
  reconnection counts as a failure (`engine/manager.go:411`), so that one outage
  may reach the limit by itself; discovery raises `maxPodIndex` and not
  `replicas`, of which the comment at `engine/manager.go:456` speaks too.

Moving rooms
- `GO_CLIENT_GUIDE.md:112` has a change of the ServerID trigger the moves. A
  starting gateway, which has not heard of any ServerID, takes the empty one for a
  changed one (`manager.go:586`) and moves every restored room off a healthy pod.
- `manager.go:687`: the old node is told to destroy its copy. With two
  reassignments at a time the second may take `oldNodeID` from the first, after
  which a room may be destroyed on the node it has just been moved to.
- A start that falls back to another node (`game.go:58`) leaves the old one in
  `NodeID`, and battle actions go there; `AcceptedWhereAssigned` leaves these rooms
  out (`fellBack`) and holds for all others.
- The comment at `manager.go:702` has waiting rooms get a new node in memory; the
  code changes nothing.

## Fairness

`FairSpec` of `RoomManager` lets every goroutine that can take a step take it in
the end: Go's scheduler is preemptive and its mutexes do not starve, and remote
calls have deadlines, so an attempt ends well or badly. Clients need not send
anything, and the engine need not execute late requests. `SessionLink` assumes
the same of handlers, pumps, `SyncRoomState` and clean-ups, and that sleeps end;
clients need not connect, speak or close.

`FairSpec` of `EngineNodes` lets `Health` and the loops go on, since dials and
calls have timeouts and sleeps end. The two tickers have strong fairness: a tick
waits in its channel and `select` draws among those that are ready, so neither is
passed over for ever, although `Health` is not always at its `select`. Pods need
not fail or recover and gRPC need not mend a connection.

`FairSpec` of `Failover` lets starts and reassignments go on, by a step or a panic,
since their calls have deadlines, and `Health` get to the end of a patrol. Players,
the engine's late executions, pods and the network owe nothing. `FairSpec` of
`BlockingSends` gives every goroutine strong fairness in its next operation: the
mutexes and channels of Go serve those who wait in turn, so who can go on again and
again does; a pump delivers while its client reads, and no client has to.

`OfflineIsResolved` and `ClosedConnsAreDetached` except what the code does not
prevent: the end of the process by a pump that holds `nil`, a handler that is
blocked on the full channel of its own session, and a restored session nobody has
come back to (`NotYetBack`).

## Proofs

All theorems are of the form `Spec => ...` for every value of the constants that
the named assumptions of each module allow: any number of players, rooms, loops, attempts, any
subset of commands and faults; any number of connections and any buffer.

`RoomManagerProofs`
- `TypeCorrect`. `TypeOK` carries what each label needs (`at` is a room, tries
  are left, the pair is complete) and is inductive by itself.
- `OneStartAtATime` (`SingleStart`). Inductive with `TypeOK`: claiming a room
  needs `Waiting`, which a room with a start under way is not, and only the end
  of that start makes it `Waiting` again.
- `BattlesDoNotReopen`. Every step that makes a room `Waiting` is an error of a
  start under way; needs `OneStartAtATime`.
- `LatecomersStayOut` (`LineupCoversMembers`). Entering needs `Waiting`, and the
  claim that ends it copies the members in the same step.

`RoomMembershipProofs`
- `NamedRoomHasPlayer` (`RoomIDImpliesMember`). Needs that named rooms exist: a
  session gets a room's name in the step that seats it, and loses its seat only
  to a goroutine that is then about to clear the name.
- `EmptyRoomsAreNotForgotten` (`EmptyRoomsAreBeingDeleted`). Needs that rooms
  that are worked on exist: the step that empties a room is the one that sends
  its goroutine to delete it, and whoever is on that way stays on it until the
  room is not listed, or panics and leaves it among the `stranded`.
- `BattlesAreBacked` (`PlayingIsBacked`). Besides the above it needs that a
  destroy request is late only for a room which is being deleted or is no longer
  listed, or is `stranded`: otherwise it could take a confirmed battle away.

`RoomRefinementProofs`
- `RoomsImplementLife` (`ImplementsLife`). Under `SingleStart`, the existence of
  the rooms worked on, and the fact that a start under way is of two players,
  each step is one step of `RoomLife` (opening, sitting, quitting, beginning,
  withdrawing, confirming, stopping, dropping, forsaking) or leaves its variables alone;
  one lemma per kind of step.

`RoomSeatsProofs`
- `RoomsAreNotOverfull` (`CapacityRespected`). Inductive as `RoomsFit`: the players
  of a room and the copy a start made of them are finite sets that fit the room.
  Who enters counts the seats in the same step, and a copy is of the players of
  that step.
- `BattlesAreOfTwo` (`BattleHasTwoSides`), for `MaxPlayersPerRoom = 2`, as in
  `configs/config.go:26`: such a copy has at most two players, and a start under
  way at least two.
- `SendersAreKnown` (`SendersAreInLineup`) and `ReadyPlayersSitThere`
  (`ReadyAreMembers`). `SeatsKept` is the invariant: a player with one loop (`Loyal`)
  who was found in a room by a selection or an action sits there until the command
  is over, since only that loop could take him out, and who acts is in the copy,
  even of a start that fails and is repeated meanwhile. Nothing is assumed of the
  others: they may have as many loops as they like.

`SessionLinkProofs`
- `TypeCorrect`.
- `CurrentIsServed` (`CurrentHasHandler`): only the handler of a connection makes
  it the session's, and it leaves only after it has seen or written something
  else in the field.
- `OfflineIsWaitedFor` (`OfflineSessionsExpire`): the step that clears the field
  starts a timer; a timer that does not remove the session found a connection.
  A restored session has no timer before somebody attaches to it, and loses the
  connection of that moment by such a step only.
- `OpenConnectionsAreServed` (`CurrentConnHasWriter`), with `CurrentIsServed`: a
  pump that leaves either serves another connection or has found this one closed.

`EngineNodesProofs`
- `TypeCorrect`. Not inductive by itself: a node that is written is in the map
  because whoever holds it is either marked `stale` or has a node of the map
  (`HeldNodesExist`).
- `AddressedAreConnected` (`AddressedNodesAreConnected`).
- `FlagsAreCleared` (`FlagIsCleared`): needs `HealthIsPlaced`, that `Health` is on
  its way through `reconnect`, and stays at its pod, while it has a claim.
- `SteadyNodesAreKept` (`SteadyNodesStay`): inductive as `SteadyPod`, which adds
  that no loop is for such a pod, that `Health` is nowhere on the path of a failed
  ping for it, and that before the end of the start it is served or still to come.

All four hold for any number of pods, replicas, loops and outages, any reach of
discovery included.

`FailoverProofs`, for any number of pods, rooms, reconnect loops, attempts and
processes and any faults
- `TypeCorrect`. Inductive with `WorkIsPlaced`: a gateway that is down has
  nothing, a reassignment at work has a room, a start that calls has attempts left.
- `PlayedRoomsAreAccepted` (`AcceptedWhereAssigned`) and `SnapshotsAreTrue`
  (`SnapshotsNameHosts`). They need each other, because a restart takes the
  assignment from the snapshot, and `MovesAreAccepted`: from the engine's answer
  until it is done with the room, the pod that a reassignment has chosen has
  accepted the room, and the snapshot it writes names such a pod. So whoever
  writes `NodeID` or Redis, in whatever order several reassignments do it, writes a
  pod that has the room. `StartsAreAssigned` says the same of a start: it calls the
  node the room is assigned to, unless a move has come between.
- `StartupMovesAway` (`StartupSparesTheTarget`). `Quiet`: while `main` reassigns
  nobody else does and nothing is started, so (`MainMoves`) the node it takes the
  room from is not the one it has chosen.
- `RoomsKeepTheirPlaces` (`ImplementsPlaces`). Besides `Placement` it needs `Empty`:
  before `Restore` there are no rooms, so taking up the snapshots overwrites
  nothing. A start that ends with success is `Accept` with `Begin`, or, when the room
  was left or deleted meanwhile or the start fell back, `Accept` alone; `SetNode`
  is `Move`; whatever ends battles is `End`; `Save`, `SaveAgain` and the engine's
  deletions are `Save` and `Unsave`; all else is a stutter.

`BlockingProofs`, for any number of players, rooms and helpers, any capacities,
commands and tasks
- `TypeCorrect`.
- `OnlyClientsBlock` (`StuckMeansUnread`). Every script is `Bracketed`: what takes a
  lock lets it go after at most a room's lock and one answer. So (`LocksAreLetGo`)
  the holder of a lock is on the way to its release, and can be stopped only as
  the order of the locks allows: holders of rooms by sends alone, readers of
  `rm.mu` by rooms, its writer by readers and rooms. When nobody waits for a
  client, nobody holds a room, hence nobody reads, hence nobody writes; and the
  match worker, which puts nobody into its own queue, empties it.

Only model-checked, because they are out of the prover's reach: the liveness
properties. Every invariant and action property of a passing run is a theorem, and
so is every refinement.

## Not modelled, and why

- A player in two snapshots, who gets one of two rooms (`manager.go:507`): the
  player of `SessionLink` sits in at most one room, and the rooms of `Failover`
  are without players.
- `rpc/client.go`: the ring is written and never read, since `GetNodeByRoomID` has
  no caller; `DeleteRoomSnapshot` and the session bindings of the store have
  none either.
- Pure data: JSON, the parsing of teams, formatting, logging, the debug pages.
- Generated gRPC code, the C++ engine, Kubernetes manifests, the drivers in
  `../test/`.
- The abort of the Go runtime on unsynchronised map access (`websocket.go:62`,
  `game.go:417`): the models read such a map in one step.
- The expiry of snapshots in Redis, and an engine that loses rooms without losing
  its process.

What is left to do: liveness with two reassignments at a time, for which the choice
of a node would have to be coarser, and an abstract specification of a session.
