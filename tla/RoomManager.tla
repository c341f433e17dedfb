---------------------------- MODULE RoomManager ----------------------------
(***************************************************************************)
(* The rooms of one gateway process: internal/room/manager.go, game.go and *)
(* match.go as the goroutines of the process run them.  A goroutine is a   *)
(* read loop that dispatches the commands of a connection, the match       *)
(* worker, or the goroutine StartGame spawns to call the battle engine.    *)
(*                                                                         *)
(* The grain of atomicity is the code's: what happens under one holding of *)
(* rm.mu or r.mu is one step, so is an unlocked access of a session field, *)
(* and so is an attempt of a remote call.  Between two steps of a command  *)
(* any other goroutine may run.                                            *)
(*                                                                         *)
(* The engine is the set of rooms it hosts.  Which node hosts a room, node *)
(* failures, snapshots in Redis and connections are other components.      *)
(***************************************************************************)
EXTENDS Naturals, Sequences, FiniteSets

CONSTANTS
    Players,            \* player IDs, ordered as numbers the way the code orders strings
    Rooms,              \* the room IDs generateRoomID may draw; none is drawn twice
    NoRoom,             \* the empty RoomID of a session outside any room
    Loops,              \* goroutines that run commands for a session
    PlayerOf,           \* the player whose session a loop serves; a takeover gives a player two
    Matcher,            \* the goroutine of StartMatchWorker
    Commands,           \* the commands the clients of an instance send
    Faults,             \* the ways in which a remote call may fail in an instance
    MaxPlayersPerRoom,  \* configs.MaxPlayersPerRoom
    MaxRetries,         \* attempts of CreateRoom and of DestroyRoom at the engine
    MatchQueueSize      \* configs.MatchQueueSize

Procs == Loops \cup {Matcher}

AllCommands == {"create", "join", "leave", "start", "choose", "battle", "match"}

(***************************************************************************)
(* How a remote call fails: no engine node can be found, the engine        *)
(* answers with a code other than 0, it executes the request but the       *)
(* answer is lost, or the deadline passes first and the engine may execute *)
(* the request at any time after that.  A node that was found may also be  *)
(* deleted before the call: it has no client then, and the call panics.    *)
(* In a read loop net/http recovers the panic; it costs the command and    *)
(* the connection, and the loop is that of the player's next one.  In the  *)
(* start goroutine it ends the process, after which nothing modelled here  *)
(* is left.                                                                *)
(***************************************************************************)
AllFaults == {"nonode", "refused", "lostreply", "timeout", "deleted"}

ASSUME ConstantsAssumption ==
    /\ Players \subseteq Nat
    /\ NoRoom \notin Rooms
    /\ Matcher \notin Loops
    /\ PlayerOf \in [Loops -> Players]
    /\ Commands \subseteq AllCommands
    /\ Faults \subseteq AllFaults
    /\ MaxPlayersPerRoom \in Nat \ {0}
    /\ MaxRetries \in Nat \ {0}
    /\ MatchQueueSize \in Nat \ {0}

VARIABLES
    rooms,      \* the keys of rm.Rooms
    status,     \* r.Status of every room object, "none" before it exists
    members,    \* the keys of r.Sessions; the object outlives its entry in rm.Rooms
    ready,      \* the players r.ReadyPlayers maps to true
    lineup,     \* the sessions the latest StartGame of a room copied
    roomOf,     \* s.RoomID
    team,       \* s.SelectedPokemon holds the whole of an accepted selection
    creating,   \* attempts left to the start goroutine of a room, 0 when it has none
    hosted,     \* rooms the engine hosts
    late,       \* requests whose deadline passed and which the engine has yet to execute
    stranded,   \* history: the rooms a DeleteRoom of which ended in a panic
    queue,      \* MatchQueue
    pair,       \* player1 and player2 of the match worker
    pc,         \* what a goroutine does next
    at,         \* the room it works on
    tries,      \* attempts left to its DestroyRoom calls
    side        \* the side written into the action it is about to send

roomVars    == <<status, members, ready, lineup>>
sessionVars == <<roomOf, team>>
engineVars  == <<creating, hosted, late, stranded>>
matchVars   == <<queue, pair>>
procVars    == <<pc, at, tries, side>>
vars == <<rooms, roomVars, sessionVars, engineVars, matchVars, procVars>>

Labels == {"idle", "join", "leave", "clear", "clearLast", "depart", "delete",
           "status", "destroy", "unlink", "claim", "assign", "choose", "reset",
           "fill", "mark", "battle", "inject", "send", "seat"}

Requests == {"create", "destroy"} \X Rooms

TypeOK ==
    /\ rooms \subseteq Rooms
    /\ status \in [Rooms -> {"none", "Waiting", "Playing", "Finished"}]
    /\ members \in [Rooms -> SUBSET Players]
    /\ ready \in [Rooms -> SUBSET Players]
    /\ lineup \in [Rooms -> SUBSET Players]
    /\ roomOf \in [Players -> Rooms \cup {NoRoom}]
    /\ team \in [Players -> BOOLEAN]
    /\ creating \in [Rooms -> 0..MaxRetries]
    /\ hosted \subseteq Rooms
    /\ late \subseteq Requests
    /\ stranded \subseteq Rooms
    /\ queue \in Seq(Players) /\ Len(queue) <= MatchQueueSize
    /\ pair \in Seq(Players) /\ Len(pair) <= 2
    /\ pc \in [Procs -> Labels]
    /\ at \in [Procs -> Rooms \cup {NoRoom}]
    /\ tries \in [Procs -> 0..MaxRetries]
    /\ side \in [Procs -> {"none", "a", "b"}]
    /\ \A g \in Procs : pc[g] \notin {"idle", "seat"} => at[g] \in Rooms
    /\ \A g \in Procs : pc[g] = "destroy" => tries[g] > 0
    /\ \A r \in rooms : status[r] # "none"
    /\ pc[Matcher] \in {"idle", "seat", "join"}
    /\ pc[Matcher] # "idle" => Len(pair) = 2

Init ==
    /\ rooms = {}
    /\ status = [r \in Rooms |-> "none"]
    /\ members = [r \in Rooms |-> {}]
    /\ ready = [r \in Rooms |-> {}]
    /\ lineup = [r \in Rooms |-> {}]
    /\ roomOf = [p \in Players |-> NoRoom]
    /\ team = [p \in Players |-> FALSE]
    /\ creating = [r \in Rooms |-> 0]
    /\ hosted = {}
    /\ late = {}
    /\ stranded = {}
    /\ queue = <<>>
    /\ pair = <<>>
    /\ pc = [g \in Procs |-> "idle"]
    /\ at = [g \in Procs |-> NoRoom]
    /\ tries = [g \in Procs |-> 0]
    /\ side = [g \in Procs |-> "none"]

(***************************************************************************)
(* Control of a goroutine.                                                 *)
(***************************************************************************)

\* The player whose session goroutine g works for: the match worker calls
\* JoinRoom for player2.
Player(g) == IF g = Matcher THEN pair[2] ELSE PlayerOf[g]

Goto(g, label) ==
    /\ pc' = [pc EXCEPT ![g] = label]
    /\ UNCHANGED <<at, pair>>

Enter(g, label, r) ==
    /\ pc' = [pc EXCEPT ![g] = label]
    /\ at' = [at EXCEPT ![g] = r]

\* The command returns; the match worker goes for the next two players.
Return(g) ==
    /\ pc' = [pc EXCEPT ![g] = "idle"]
    /\ at' = [at EXCEPT ![g] = NoRoom]
    /\ pair' = IF g = Matcher THEN <<>> ELSE pair

(***************************************************************************)
(* Commands that look a room up.  The session's RoomID is read before      *)
(* rm.mu is taken for the lookup; the two are one step, since a lookup     *)
(* that finds the room would have found it at the earlier read too, and    *)
(* one that does not rejects the command.  A rejected command leaves no    *)
(* trace and is not a step.                                                *)
(***************************************************************************)

EntryOf == [leave |-> "leave", start |-> "claim", choose |-> "choose", battle |-> "battle"]

\* LeaveRoom, StartGameForSession, HandleSelectPokemonAndPersist and
\* HandleBattleAction find the room of the session.
Lookup(l, command) ==
    /\ pc[l] = "idle"
    /\ roomOf[PlayerOf[l]] \in rooms
    /\ Enter(l, EntryOf[command], roomOf[PlayerOf[l]])
    /\ UNCHANGED <<rooms, roomVars, sessionVars, engineVars, matchVars, tries, side>>

\* JoinRoom finds the room its caller names, under rm.mu.
JoinLookup(l, r) ==
    /\ pc[l] = "idle"
    /\ r \in rooms
    /\ Enter(l, "join", r)
    /\ UNCHANGED <<rooms, roomVars, sessionVars, engineVars, matchVars, tries, side>>

(***************************************************************************)
(* CreateRoom and JoinRoom.                                                *)
(***************************************************************************)

\* What CreateRoom does to the state: a room whose ID was never drawn, with
\* player p in it.  A session that sits in another room is not taken out.
OpenRoom(r, p) ==
    /\ status[r] = "none"
    /\ rooms' = rooms \cup {r}
    /\ status' = [status EXCEPT ![r] = "Waiting"]
    /\ members' = [members EXCEPT ![r] = {p}]
    /\ roomOf' = [roomOf EXCEPT ![p] = r]
    /\ UNCHANGED <<ready, lineup, team, engineVars, queue>>

CreateRoom(l, r) ==
    /\ pc[l] = "idle"
    /\ OpenRoom(r, PlayerOf[l])
    /\ UNCHANGED <<pair, procVars>>

\* Mutants: one seat too many; the status checked by the lookup only.
CanJoinOneMore(r, p) ==
    p \notin members[r] /\ status[r] = "Waiting" /\ Cardinality(members[r]) <= MaxPlayersPerRoom
CanJoinAnyTime(r, p) ==
    p \notin members[r] /\ Cardinality(members[r]) < MaxPlayersPerRoom

CanJoin(r, p) ==
    /\ p \notin members[r]
    /\ status[r] = "Waiting"
    /\ Cardinality(members[r]) < MaxPlayersPerRoom

\* The second half of JoinRoom, under r.mu only: the room may have left
\* rm.Rooms since it was looked up.
Join(g) ==
    LET r == at[g] p == Player(g) IN
    /\ pc[g] = "join"
    /\ \/ /\ CanJoin(r, p)
          /\ roomOf' = [roomOf EXCEPT ![p] = r]
          /\ members' = [members EXCEPT ![r] = @ \cup {p}]
          /\ ready' = [ready EXCEPT ![r] = @ \ {p}]
       \/ /\ ~CanJoin(r, p)
          /\ UNCHANGED <<roomOf, members, ready>>
    /\ Return(g)
    /\ UNCHANGED <<rooms, status, lineup, team, engineVars, queue, tries, side>>

(***************************************************************************)
(* LeaveRoom and DeleteRoom.                                               *)
(***************************************************************************)

\* Mutant: the players are counted before the leaver is taken out.
NobodyAtAll(r, p) == members[r] = {}

NobodyElse(r, p) == members[r] \ {p} = {}

\* Mutant: the leaver stays in ReadyPlayers.
LeaveRemoveKeepsReady(g) ==
    LET r == at[g] p == Player(g) IN
    /\ pc[g] = "leave"
    /\ members' = [members EXCEPT ![r] = @ \ {p}]
    /\ Goto(g, IF NobodyElse(r, p) THEN "clearLast" ELSE "clear")
    /\ UNCHANGED <<rooms, status, ready, lineup, sessionVars, engineVars, queue, tries, side>>

\* The removal under r.mu, which also counts who is left.
LeaveRemove(g) ==
    LET r == at[g] p == Player(g) IN
    /\ pc[g] = "leave"
    /\ members' = [members EXCEPT ![r] = @ \ {p}]
    /\ ready' = [ready EXCEPT ![r] = @ \ {p}]
    /\ Goto(g, IF NobodyElse(r, p) THEN "clearLast" ELSE "clear")
    /\ UNCHANGED <<rooms, status, lineup, sessionVars, engineVars, queue, tries, side>>

\* Mutant: the last player to leave keeps the name of the room.
ClearRoomIDUnlessLast(g) ==
    /\ pc[g] \in {"clear", "clearLast"}
    /\ roomOf' = IF pc[g] = "clear" THEN [roomOf EXCEPT ![Player(g)] = NoRoom] ELSE roomOf
    /\ Goto(g, IF pc[g] = "clearLast" THEN "delete" ELSE "depart")
    /\ UNCHANGED <<rooms, roomVars, team, engineVars, queue, tries, side>>

\* s.RoomID = "" under no lock, whatever room the session is in by now; the
\* remaining count decides how the command goes on.
ClearRoomID(g) ==
    /\ pc[g] \in {"clear", "clearLast"}
    /\ roomOf' = [roomOf EXCEPT ![Player(g)] = NoRoom]
    /\ Goto(g, IF pc[g] = "clearLast" THEN "delete" ELSE "depart")
    /\ UNCHANGED <<rooms, roomVars, team, engineVars, queue, tries, side>>

\* Mutant: a battle somebody has left is open again.
DepartReopens(g) ==
    LET r == at[g] IN
    /\ pc[g] = "depart"
    /\ status' = [status EXCEPT ![r] = IF @ = "Playing" THEN "Waiting" ELSE @]
    /\ Return(g)
    /\ UNCHANGED <<rooms, members, ready, lineup, sessionVars, engineVars, queue, tries, side>>

\* Somebody is left: a battle that was on is over.
Depart(g) ==
    LET r == at[g] IN
    /\ pc[g] = "depart"
    /\ status' = [status EXCEPT ![r] = IF @ = "Playing" THEN "Finished" ELSE @]
    /\ Return(g)
    /\ UNCHANGED <<rooms, members, ready, lineup, sessionVars, engineVars, queue, tries, side>>

\* The engine is told only of a room that is not waiting.
NeedsDestroy(s) == s # "Waiting"

\* DeleteRoom looks the room up again under rm.mu.
DeleteLookup(g) ==
    /\ pc[g] = "delete"
    /\ \/ at[g] \notin rooms /\ Return(g)
       \/ at[g] \in rooms /\ Goto(g, "status")
    /\ UNCHANGED <<rooms, roomVars, sessionVars, engineVars, queue, tries, side>>

\* Then it reads the status under no lock.
DeleteStatus(g) ==
    LET s == status[at[g]] IN
    /\ pc[g] = "status"
    /\ \/ /\ NeedsDestroy(s)
          /\ Goto(g, "destroy")
          /\ tries' = [tries EXCEPT ![g] = MaxRetries]
       \/ /\ ~NeedsDestroy(s)
          /\ Goto(g, "unlink")
          /\ UNCHANGED tries
    /\ UNCHANGED <<rooms, roomVars, sessionVars, engineVars, queue, side>>

\* The attempts left of n after a failure of kind f: whether there is a node
\* for the room is asked before the first attempt only.
AttemptsAfter(f, n) == IF f = "nonode" THEN 0 ELSE n - 1

CanFail(f, n) == f # "deleted" /\ (f = "nonode" => n = MaxRetries)

\* What a failed attempt of kind f of a request does at the engine.
EngineAfter(f, op, r) ==
    /\ hosted' = IF f # "lostreply" THEN hosted
                 ELSE IF op = "create" THEN hosted \cup {r} ELSE hosted \ {r}
    /\ late' = IF f = "timeout" THEN late \cup {<<op, r>>} ELSE late

\* sendDestroyRoomRequestSync: the answer says the room is gone.
DestroyAccepted(g) ==
    /\ pc[g] = "destroy"
    /\ hosted' = hosted \ {at[g]}
    /\ tries' = [tries EXCEPT ![g] = 0]
    /\ Goto(g, "unlink")
    /\ UNCHANGED <<rooms, roomVars, sessionVars, creating, late, stranded, queue, side>>

\* Mutant: a room the engine could not destroy stays in memory.
DestroyFaultKeepsRoom(g, f) ==
    /\ pc[g] = "destroy"
    /\ CanFail(f, tries[g])
    /\ EngineAfter(f, "destroy", at[g])
    /\ tries' = [tries EXCEPT ![g] = AttemptsAfter(f, @)]
    /\ \/ tries'[g] = 0 /\ Return(g)
       \/ tries'[g] # 0 /\ Goto(g, "destroy")
    /\ UNCHANGED <<rooms, roomVars, sessionVars, creating, stranded, queue, side>>

\* An attempt fails and is answered; DeleteRoom goes on after the last one as if it had not.
DestroyFault(g, f) ==
    /\ pc[g] = "destroy"
    /\ CanFail(f, tries[g])
    /\ EngineAfter(f, "destroy", at[g])
    /\ tries' = [tries EXCEPT ![g] = AttemptsAfter(f, @)]
    /\ Goto(g, IF tries'[g] = 0 THEN "unlink" ELSE "destroy")
    /\ UNCHANGED <<rooms, roomVars, sessionVars, creating, stranded, queue, side>>

\* The node was found before the first attempt and is deleted before this one:
\* the panic skips the rest of DeleteRoom, and the session no longer names the
\* room, so that nobody but a player who enters it can delete it again.
DestroyPanics(g) ==
    /\ pc[g] = "destroy"
    /\ "deleted" \in Faults
    /\ stranded' = stranded \cup {at[g]}
    /\ tries' = [tries EXCEPT ![g] = 0]
    /\ Return(g)
    /\ UNCHANGED <<rooms, roomVars, sessionVars, creating, hosted, late, queue, side>>

Unlink(g) ==
    /\ pc[g] = "unlink"
    /\ rooms' = rooms \ {at[g]}
    /\ Return(g)
    /\ UNCHANGED <<roomVars, sessionVars, engineVars, queue, tries, side>>

(***************************************************************************)
(* StartGame.                                                              *)
(***************************************************************************)

\* Mutant: a room that is being played may be started.
CanStartUnlessOver(r) == status[r] # "Finished"

CanStart(r) == status[r] = "Waiting"

\* Under one holding of r.mu the sessions are copied and the room is claimed.
StartClaim(g) ==
    LET r == at[g] IN
    /\ pc[g] = "claim"
    /\ \/ /\ CanStart(r)
          /\ lineup' = [lineup EXCEPT ![r] = members[r]]
          /\ status' = [status EXCEPT ![r] = "Playing"]
          /\ Goto(g, "assign")
       \/ /\ ~CanStart(r)
          /\ Return(g)
          /\ UNCHANGED <<lineup, status>>
    /\ UNCHANGED <<rooms, members, ready, sessionVars, engineVars, queue, tries, side>>

\* Mutant: the start gives up without a word to the room.
StartErrorIgnored(r) == UNCHANGED status

\* handleStartError puts the room back to waiting, whatever its status is.
StartError(r) == status' = [status EXCEPT ![r] = "Waiting"]

\* Mutant: a player alone may start.
TooFewIfNone(ps) == ps = {}

TooFew(ps) == Cardinality(ps) < 2

\* A copy of fewer than two sessions, or no node to place the room on, is an
\* error; else the goroutine that creates the room at the engine starts.
Assign(g) ==
    LET r == at[g] IN
    /\ pc[g] = "assign"
    /\ \/ /\ TooFew(lineup[r]) \/ "nonode" \in Faults
          /\ StartError(r)
          /\ UNCHANGED creating
       \/ /\ ~TooFew(lineup[r])
          /\ creating' = [creating EXCEPT ![r] = MaxRetries]
          /\ UNCHANGED status
    /\ Return(g)
    /\ UNCHANGED <<rooms, members, ready, lineup, sessionVars, hosted, late, stranded, queue, tries, side>>

\* The engine accepts the room: no attempt is left to make.
CreateAccepted(r) ==
    /\ creating[r] > 0
    /\ hosted' = hosted \cup {r}
    /\ creating' = [creating EXCEPT ![r] = 0]
    /\ UNCHANGED <<rooms, roomVars, sessionVars, late, stranded, matchVars, procVars>>

\* An attempt fails; the last failure is an error of the start.
CreateFault(r, f) ==
    /\ creating[r] > 0
    /\ CanFail(f, creating[r])
    /\ EngineAfter(f, "create", r)
    /\ creating' = [creating EXCEPT ![r] = AttemptsAfter(f, @)]
    /\ \/ creating'[r] = 0 /\ StartError(r)
       \/ creating'[r] > 0 /\ UNCHANGED status
    /\ UNCHANGED <<rooms, members, ready, lineup, sessionVars, stranded, matchVars, procVars>>

\* The engine executes a request nobody waits for any more.  Several attempts
\* may have timed out, so an equal request may still be on its way.
LateExecution(op, r) ==
    /\ <<op, r>> \in late
    /\ hosted' = IF op = "create" THEN hosted \cup {r} ELSE hosted \ {r}
    /\ late' \in {late, late \ {<<op, r>>}}
    /\ UNCHANGED <<rooms, roomVars, sessionVars, creating, stranded, matchVars, procVars>>

(***************************************************************************)
(* HandleSelectPokemon.                                                    *)
(***************************************************************************)

\* Membership and status are checked under r.mu, which is then released.
SelectCheck(g) ==
    /\ pc[g] = "choose"
    /\ \/ Player(g) \in members[at[g]] /\ status[at[g]] = "Waiting" /\ Goto(g, "reset")
       \/ Return(g)       \* not there, not waiting, or a malformed request
    /\ UNCHANGED <<rooms, roomVars, sessionVars, engineVars, queue, tries, side>>

\* The old selection goes before the new one has been looked at.
ResetTeam(g) ==
    /\ pc[g] = "reset"
    /\ team' = [team EXCEPT ![Player(g)] = FALSE]
    /\ Goto(g, "fill")
    /\ UNCHANGED <<rooms, roomVars, roomOf, engineVars, queue, tries, side>>

\* The new one is stored Pokemon by Pokemon; an ability that is no number
\* ends the command half way.
FillTeam(g) ==
    /\ pc[g] = "fill"
    /\ \/ /\ team' = [team EXCEPT ![Player(g)] = TRUE]
          /\ Goto(g, "mark")
       \/ /\ Return(g)
          /\ UNCHANGED team
    /\ UNCHANGED <<rooms, roomVars, roomOf, engineVars, queue, tries, side>>

BothReady(r, readyNow) == Cardinality(members[r]) = 2 /\ Cardinality(readyNow) = 2

\* The player is ready, member or not by now; two ready players start the game.
MarkReady(g) ==
    LET r == at[g]
        readyNow == ready[r] \cup {Player(g)} IN
    /\ pc[g] = "mark"
    /\ ready' = [ready EXCEPT ![r] = readyNow]
    /\ \/ BothReady(r, readyNow) /\ Goto(g, "claim")
       \/ ~BothReady(r, readyNow) /\ Return(g)
    /\ UNCHANGED <<rooms, status, members, lineup, sessionVars, engineVars, queue, tries, side>>

(***************************************************************************)
(* HandleBattleAction.                                                     *)
(***************************************************************************)

\* battleSideForPlayer: the rank of the player's ID among those of ps.
SideIn(ps, p) ==
    IF p \notin ps THEN "none"
    ELSE CASE Cardinality({q \in ps : q < p}) = 0 -> "a"
           [] Cardinality({q \in ps : q < p}) = 1 -> "b"
           [] OTHER -> "none"

\* Mutant: the status is not looked at.
CanActAnyTime(r, p) == p \in members[r]

CanAct(r, p) == p \in members[r] /\ status[r] = "Playing"

\* forwardBattleAction checks membership and status under r.mu; an action that
\* is no JSON ends there too.
BattleCheck(g) ==
    /\ pc[g] = "battle"
    /\ \/ CanAct(at[g], Player(g)) /\ Goto(g, "inject")
       \/ Return(g)
    /\ UNCHANGED <<rooms, roomVars, sessionVars, engineVars, queue, tries, side>>

\* injectBattleSide takes r.mu again and looks at the members of that moment.
InjectSide(g) ==
    LET s == SideIn(members[at[g]], Player(g)) IN
    /\ pc[g] = "inject"
    /\ side' = [side EXCEPT ![g] = s]
    /\ \/ s # "none" /\ Goto(g, "send")
       \/ s = "none" /\ Return(g)
    /\ UNCHANGED <<rooms, roomVars, sessionVars, engineVars, queue, tries>>

\* SendCommand at the engine, and its answer to the player and the room.
SendAction(g) ==
    /\ pc[g] = "send"
    /\ side' = [side EXCEPT ![g] = "none"]
    /\ Return(g)
    /\ UNCHANGED <<rooms, roomVars, sessionVars, engineVars, queue, tries>>

(***************************************************************************)
(* The match queue and its worker.                                         *)
(***************************************************************************)

\* The match command sends the session into the channel and waits for room.
Enqueue(l) ==
    /\ pc[l] = "idle"
    /\ Len(queue) < MatchQueueSize
    /\ queue' = Append(queue, PlayerOf[l])
    /\ UNCHANGED <<rooms, roomVars, sessionVars, engineVars, pair, procVars>>

\* Mutant: one player is enough.
PairBegun == Len(pair) >= 1

PairComplete == Len(pair) = 2

\* The worker receives player1, then player2.
TakePlayer ==
    /\ pc[Matcher] = "idle"
    /\ ~PairComplete
    /\ queue # <<>>
    /\ pair' = Append(pair, Head(queue))
    /\ queue' = Tail(queue)
    /\ UNCHANGED <<rooms, roomVars, sessionVars, engineVars, procVars>>

\* CreateRoom(player1)
MatchCreate(r) ==
    /\ pc[Matcher] = "idle"
    /\ PairComplete
    /\ OpenRoom(r, pair[1])
    /\ Goto(Matcher, "seat")
    /\ UNCHANGED <<tries, side>>

\* JoinRoom(player1.RoomID, player2) looks up the room player1 is in by now.
MatchJoinLookup ==
    /\ pc[Matcher] = "seat"
    /\ \/ /\ roomOf[pair[1]] \in rooms
          /\ Enter(Matcher, "join", roomOf[pair[1]])
          /\ UNCHANGED pair
       \/ /\ roomOf[pair[1]] \notin rooms
          /\ Return(Matcher)
    /\ UNCHANGED <<rooms, roomVars, sessionVars, engineVars, queue, tries, side>>

(***************************************************************************)
(* The next-state relation.                                                *)
(***************************************************************************)

\* A client sends a command to an idle loop.
Command(l) ==
    \/ \E c \in Commands \cap DOMAIN EntryOf : Lookup(l, c)
    \/ "join" \in Commands /\ \E r \in Rooms : JoinLookup(l, r)
    \/ "create" \in Commands /\ \E r \in Rooms : CreateRoom(l, r)
    \/ "match" \in Commands /\ Enqueue(l)

\* A goroutine goes on with the command it runs.
Continue(g) ==
    \/ Join(g)
    \/ LeaveRemove(g)
    \/ ClearRoomID(g)
    \/ Depart(g)
    \/ DeleteLookup(g)
    \/ DeleteStatus(g)
    \/ DestroyAccepted(g)
    \/ \E f \in Faults : DestroyFault(g, f)
    \/ DestroyPanics(g)
    \/ Unlink(g)
    \/ StartClaim(g)
    \/ Assign(g)
    \/ SelectCheck(g)
    \/ ResetTeam(g)
    \/ FillTeam(g)
    \/ MarkReady(g)
    \/ BattleCheck(g)
    \/ InjectSide(g)
    \/ SendAction(g)

\* An attempt of the start goroutine of room r.
Creating(r) ==
    \/ CreateAccepted(r)
    \/ \E f \in Faults : CreateFault(r, f)

Matching ==
    \/ TakePlayer
    \/ \E r \in Rooms : MatchCreate(r)
    \/ MatchJoinLookup

Next ==
    \/ \E l \in Loops : Command(l)
    \/ \E g \in Procs : Continue(g)
    \/ \E r \in Rooms : Creating(r)
    \/ Matching
    \/ \E d \in Requests : LateExecution(d[1], d[2])

Spec == Init /\ [][Next]_vars

\* A goroutine that can run is run: the scheduler of the runtime is fair, its
\* mutexes are handed to a waiter that starves, and every remote call has a
\* deadline.  No client need send anything, and no late request be executed.
Fairness ==
    /\ \A g \in Procs : WF_vars(Continue(g))
    /\ \A r \in Rooms : WF_vars(Creating(r))
    /\ WF_vars(Matching)

FairSpec == Spec /\ Fairness
=============================================================================
