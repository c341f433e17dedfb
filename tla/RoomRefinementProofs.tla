------------------------ MODULE RoomRefinementProofs ------------------------
(***************************************************************************)
(* RoomManager implements RoomLife, for every set of players, rooms and    *)
(* loops.  A step of a goroutine is one step of the life of the room it    *)
(* works on, or none; the lemmas below name the step.                      *)
(***************************************************************************)
EXTENDS RoomMembershipProofs

DoomLabels == {"clearLast", "delete", "status", "destroy", "unlink"}

Doomed == {r \in Rooms : \E g \in Procs : Dooms(g, r)}

PhaseMap == [r \in Rooms |-> PhaseOf(r)]

\* What the refinement needs beside the types: starts do not overlap, the
\* rooms that goroutines work on exist, and nobody asks the engine for a room
\* of fewer than two players.
StartsAreOfTwo ==
    \A r \in Rooms : creating[r] > 0 => ~TooFew(lineup[r])

LifeInv == TypeOK /\ SingleStart /\ RoomsWorkedOnExist /\ StartsAreOfTwo

(***************************************************************************)
(* The mapped variables.                                                   *)
(***************************************************************************)

\* The phase of a room depends on its status and its start only.
LEMMA PhaseStays ==
    ASSUME NEW r \in Rooms, status'[r] = status[r], StartInFlight(r)' <=> StartInFlight(r)
    PROVE  PhaseOf(r)' = PhaseOf(r)
BY DEF PhaseOf

LEMMA PhasesStay ==
    ASSUME status' = status, \A r \in Rooms : StartInFlight(r)' <=> StartInFlight(r)
    PROVE  PhaseMap' = PhaseMap
BY PhaseStays DEF PhaseMap

LEMMA PhaseChanges ==
    ASSUME NEW r \in Rooms, NEW to, PhaseOf(r)' = to,
           \A q \in Rooms \ {r} : PhaseOf(q)' = PhaseOf(q)
    PROVE  PhaseMap' = [PhaseMap EXCEPT ![r] = to]
BY DEF PhaseMap

\* A goroutine that neither begins nor ends a start leaves every start alone.
LEMMA StartsStay ==
    ASSUME StartTypes, NEW g \in Procs, pc[g] # "assign", pc'[g] # "assign",
           \A h \in Procs \ {g} : pc'[h] = pc[h] /\ at'[h] = at[h],
           creating' = creating
    PROVE  \A r \in Rooms : StartInFlight(r)' <=> StartInFlight(r)
BY DEF StartInFlight, Starting

\* The doomed rooms are those of the goroutines at the labels of a deletion.
LEMMA DoomedStays ==
    ASSUME NEW g \in Procs,
           \A h \in Procs \ {g} : pc'[h] = pc[h] /\ at'[h] = at[h],
           pc[g] \in DoomLabels <=> pc'[g] \in DoomLabels,
           pc[g] \in DoomLabels => at'[g] = at[g]
    PROVE  Doomed' = Doomed
<1>1. \A r \in Rooms, h \in Procs : Dooms(h, r)' <=> Dooms(h, r)
    BY DEF Dooms, DoomLabels
<1>. QED
    BY <1>1 DEF Doomed

LEMMA DoomedEnds ==
    ASSUME NEW g \in Procs, NEW r \in Rooms,
           \A h \in Procs \ {g} : pc'[h] = pc[h] /\ at'[h] = at[h],
           pc[g] \in DoomLabels, at[g] = r, pc'[g] \notin DoomLabels
    PROVE  r \in Doomed /\ Doomed' \in {Doomed, Doomed \ {r}}
<1>1. \A h \in Procs \ {g}, q \in Rooms : Dooms(h, q)' <=> Dooms(h, q)
    BY DEF Dooms
<1>2. \A q \in Rooms : ~Dooms(g, q)' /\ (Dooms(g, q) <=> q = r)
    BY DEF Dooms, DoomLabels
<1>3. \A q \in Rooms \ {r} : q \in Doomed' <=> q \in Doomed
    BY <1>1, <1>2 DEF Doomed
<1>4. r \in Doomed
    BY <1>2 DEF Doomed
<1>5. CASE r \in Doomed'
    BY <1>3, <1>4, <1>5 DEF Doomed
<1>6. CASE r \notin Doomed'
    BY <1>3, <1>4, <1>6 DEF Doomed
<1>. QED
    BY <1>4, <1>5, <1>6

\* A step of RoomLife that shows nothing.
LEMMA Stutter ==
    ASSUME rooms' = rooms, PhaseMap' = PhaseMap, members' = members, lineup' = lineup,
           Doomed' = Doomed
    PROVE  UNCHANGED Life!lifeVars
BY DEF Life!lifeVars, PhaseMap, Doomed

\* A goroutine that moves between labels outside starts and deletions, and
\* changes no room, shows nothing.
LEMMA QuietMove ==
    ASSUME StartTypes, NEW g \in Procs,
           pc[g] # "assign", pc'[g] # "assign",
           pc[g] \in DoomLabels <=> pc'[g] \in DoomLabels,
           pc[g] \in DoomLabels => at'[g] = at[g],
           \A h \in Procs \ {g} : pc'[h] = pc[h] /\ at'[h] = at[h],
           creating' = creating, status' = status, members' = members, lineup' = lineup,
           rooms' = rooms
    PROVE  UNCHANGED Life!lifeVars
BY StartsStay, PhasesStay, DoomedStays, Stutter

(***************************************************************************)
(* The steps that show.                                                    *)
(***************************************************************************)

\* A goroutine in the middle of a command works for a player.
LEMMA PlayersWorkedFor ==
    ASSUME TypeOK, NEW g \in Procs, pc[g] # "idle"
    PROVE  Player(g) \in Players
<1>1. CASE g = Matcher
    BY <1>1, PairElements DEF TypeOK, Player, Procs
<1>2. CASE g # Matcher
    BY <1>2, ConstantsAssumption DEF Player, Procs
<1>. QED
    BY <1>1, <1>2

LEMMA OpenIsOffer ==
    ASSUME LifeInv, NEW r \in Rooms, NEW p \in Players, OpenRoom(r, p),
           Doomed' = Doomed, \A q \in Rooms : StartInFlight(q)' <=> StartInFlight(q)
    PROVE  Life!LifeNext
<1>. USE DEF LifeInv, TypeOK
<1>1. /\ status[r] = "none" /\ rooms' = rooms \cup {r} /\ lineup' = lineup
      /\ status' = [status EXCEPT ![r] = "Waiting"]
      /\ members' = [members EXCEPT ![r] = {p}]
    BY DEF OpenRoom
<1>2. PhaseOf(r) = "unborn" /\ PhaseOf(r)' = "open"
    BY <1>1 DEF PhaseOf
<1>3. \A q \in Rooms \ {r} : PhaseOf(q)' = PhaseOf(q)
    BY <1>1, PhaseStays
<1>4. PhaseMap' = [PhaseMap EXCEPT ![r] = "open"] /\ PhaseMap[r] = "unborn"
    BY <1>2, <1>3, PhaseChanges DEF PhaseMap
<1>5. Life!Offer(r, p)
    BY <1>1, <1>4 DEF Life!Offer, Life!Become, PhaseMap, Doomed
<1>. QED
    BY <1>5 DEF Life!LifeNext

LEMMA JoinIsSit ==
    ASSUME LifeInv, NEW g \in Procs, Join(g)
    PROVE  Life!LifeNext \/ UNCHANGED Life!lifeVars
<1>. USE DEF LifeInv, TypeOK
<1>. PICK r \in Rooms : r = at[g]
    BY DEF Join
<1>. PICK p \in Players : p = Player(g)
    BY PlayersWorkedFor DEF Join
<1>1. /\ pc[g] = "join" /\ pc' = [pc EXCEPT ![g] = "idle"] /\ at' = [at EXCEPT ![g] = NoRoom]
      /\ rooms' = rooms /\ status' = status /\ lineup' = lineup /\ creating' = creating
    BY DEF Join, Return, engineVars
<1>2. PhaseMap' = PhaseMap /\ Doomed' = Doomed
    BY <1>1, StartsStay, PhasesStay, DoomedStays, StartTypesHold DEF Labels, DoomLabels
<1>3. CASE CanJoin(r, p)
    <2>1. members' = [members EXCEPT ![r] = @ \cup {p}] /\ PhaseMap[r] = "open"
        BY <1>3 DEF Join, CanJoin, PhaseMap, PhaseOf
    <2>2. Life!Sit(r, p)
        BY <1>1, <1>2, <1>3, <2>1 DEF Life!Sit, CanJoin, PhaseMap, Doomed, Cardinality, Life!Cardinality
    <2>. QED
        BY <2>2 DEF Life!LifeNext
<1>4. CASE ~CanJoin(r, p)
    BY <1>1, <1>2, <1>4, Stutter DEF Join
<1>. QED
    BY <1>3, <1>4

LEMMA LeaveIsQuit ==
    ASSUME LifeInv, NEW g \in Procs, LeaveRemove(g)
    PROVE  Life!LifeNext
<1>. USE DEF LifeInv, TypeOK
<1>. PICK r \in Rooms : r = at[g]
    BY DEF LeaveRemove
<1>. PICK p \in Players : p = Player(g)
    BY PlayersWorkedFor DEF LeaveRemove
<1>1. /\ pc[g] = "leave" /\ at' = at
      /\ pc' = [pc EXCEPT ![g] = IF NobodyElse(r, p) THEN "clearLast" ELSE "clear"]
      /\ rooms' = rooms /\ status' = status /\ lineup' = lineup /\ creating' = creating
      /\ members' = [members EXCEPT ![r] = @ \ {p}]
    BY DEF LeaveRemove, Goto, engineVars
<1>2. PhaseMap' = PhaseMap
    BY <1>1, StartsStay, PhasesStay, StartTypesHold DEF Labels
<1>3. PhaseMap[r] # "unborn"
    BY <1>1 DEF RoomsWorkedOnExist, PhaseMap, PhaseOf
<1>4. Doomed' = IF members[r] \ {p} = {} THEN Doomed \cup {r} ELSE Doomed
    <2>1. CASE NobodyElse(r, p)
        <3>1. \A h \in Procs, q \in Rooms : Dooms(h, q)' <=> Dooms(h, q) \/ (h = g /\ q = r)
            BY <1>1, <2>1 DEF Dooms
        <3>. QED
            BY <2>1, <3>1 DEF Doomed, NobodyElse
    <2>2. CASE ~NobodyElse(r, p)
        <3>1. pc'[g] = "clear"
            BY <1>1, <2>2
        <3>2. Doomed' = Doomed
            BY <1>1, <3>1, DoomedStays DEF DoomLabels
        <3>. QED
            BY <2>2, <3>2 DEF NobodyElse
    <2>. QED
        BY <2>1, <2>2
<1>5. Life!Quit(r, p)
    BY <1>1, <1>2, <1>3, <1>4 DEF Life!Quit, PhaseMap, Doomed
<1>. QED
    BY <1>5 DEF Life!LifeNext

LEMMA DepartIsStop ==
    ASSUME LifeInv, NEW g \in Procs, Depart(g)
    PROVE  Life!LifeNext \/ UNCHANGED Life!lifeVars
<1>. USE DEF LifeInv, TypeOK
<1>. PICK r \in Rooms : r = at[g]
    BY DEF Depart
<1>1. /\ pc[g] = "depart" /\ pc' = [pc EXCEPT ![g] = "idle"] /\ at' = [at EXCEPT ![g] = NoRoom]
      /\ rooms' = rooms /\ members' = members /\ lineup' = lineup /\ creating' = creating
      /\ status' = [status EXCEPT ![r] = IF @ = "Playing" THEN "Finished" ELSE @]
    BY DEF Depart, Return, engineVars
<1>2. Doomed' = Doomed /\ \A q \in Rooms : StartInFlight(q)' <=> StartInFlight(q)
    BY <1>1, StartsStay, DoomedStays, StartTypesHold DEF DoomLabels
<1>3. CASE status[r] = "Playing"
    <2>1. \A q \in Rooms \ {r} : PhaseOf(q)' = PhaseOf(q)
        BY <1>1, <1>2, PhaseStays
    <2>2. PICK to \in {"over", "abandoned"} :
              /\ PhaseOf(r)' = to
              /\ PhaseOf(r) = IF to = "over" THEN "playing" ELSE "starting"
        <3>1. status'[r] = "Finished"
            BY <1>1, <1>3
        <3>. QED
            BY <1>2, <1>3, <3>1 DEF PhaseOf
    <2>3. /\ PhaseMap' = [PhaseMap EXCEPT ![r] = to]
          /\ PhaseMap[r] = IF to = "over" THEN "playing" ELSE "starting"
        BY <2>1, <2>2, PhaseChanges DEF PhaseMap
    <2>4. Life!Stop(r)
        BY <1>1, <1>2, <2>3 DEF Life!Stop, Life!Become, PhaseMap, Doomed
    <2>. QED
        BY <2>4 DEF Life!LifeNext
<1>4. CASE status[r] # "Playing"
    <2>1. status' = status
        BY <1>1, <1>4
    <2>. QED
        BY <1>1, <1>2, <2>1, PhasesStay, Stutter
<1>. QED
    BY <1>3, <1>4

\* A goroutine that ends a deletion drops the room, or finds it dropped.
LEMMA EndIsDrop ==
    ASSUME LifeInv, NEW g \in Procs, NEW r \in Rooms, r = at[g],
           pc[g] \in {"delete", "unlink"}, Return(g), rooms' = rooms \ {r},
           UNCHANGED <<status, members, lineup, creating>>
    PROVE  Life!LifeNext
<1>. USE DEF LifeInv, TypeOK
<1>1. pc' = [pc EXCEPT ![g] = "idle"] /\ at' = [at EXCEPT ![g] = NoRoom]
    BY DEF Return
<1>2. PhaseMap' = PhaseMap
    BY <1>1, StartsStay, PhasesStay, StartTypesHold
<1>3. r \in Doomed /\ Doomed' \in {Doomed, Doomed \ {r}}
    BY <1>1, DoomedEnds DEF DoomLabels
<1>4. Life!Drop(r)
    BY <1>2, <1>3 DEF Life!Drop, PhaseMap, Doomed
<1>. QED
    BY <1>4 DEF Life!LifeNext

\* One that panics in the middle of it forsakes the room.
LEMMA PanicForsakes ==
    ASSUME LifeInv, NEW g \in Procs, DestroyPanics(g)
    PROVE  Life!LifeNext \/ UNCHANGED Life!lifeVars
<1>. USE DEF LifeInv, TypeOK
<1>. PICK r \in Rooms : r = at[g]
    BY DEF DestroyPanics
<1>1. /\ pc[g] = "destroy" /\ pc' = [pc EXCEPT ![g] = "idle"] /\ at' = [at EXCEPT ![g] = NoRoom]
      /\ UNCHANGED <<rooms, status, members, lineup, creating>>
    BY DEF DestroyPanics, Return, roomVars
<1>2. PhaseMap' = PhaseMap
    BY <1>1, StartsStay, PhasesStay, StartTypesHold
<1>3. r \in Doomed /\ Doomed' \in {Doomed, Doomed \ {r}}
    BY <1>1, DoomedEnds DEF DoomLabels
<1>4. CASE Doomed' = Doomed
    BY <1>1, <1>2, <1>4, Stutter
<1>5. CASE Doomed' = Doomed \ {r}
    <2>1. Life!Forsake(r)
        BY <1>1, <1>2, <1>3, <1>5 DEF Life!Forsake, PhaseMap, Doomed
    <2>. QED
        BY <2>1 DEF Life!LifeNext
<1>. QED
    BY <1>3, <1>4, <1>5

\* A claim is the beginning of a start.
LEMMA ClaimIsBegin ==
    ASSUME LifeInv, NEW g \in Procs, StartClaim(g)
    PROVE  Life!LifeNext \/ UNCHANGED Life!lifeVars
<1>. USE DEF LifeInv, TypeOK
<1>. PICK r \in Rooms : r = at[g]
    BY DEF StartClaim
<1>1. /\ pc[g] = "claim" /\ rooms' = rooms /\ members' = members /\ creating' = creating
    BY DEF StartClaim, engineVars
<1>2. CASE CanStart(r)
    <2>1. /\ pc' = [pc EXCEPT ![g] = "assign"] /\ at' = at
          /\ status' = [status EXCEPT ![r] = "Playing"]
          /\ lineup' = [lineup EXCEPT ![r] = members[r]]
        BY <1>2 DEF StartClaim, Goto
    <2>2. Doomed' = Doomed
        BY <1>1, <2>1, DoomedStays DEF DoomLabels
    <2>3. \A q \in Rooms \ {r} : StartInFlight(q)' <=> StartInFlight(q)
        BY <1>1, <2>1 DEF StartInFlight, Starting
    <2>4. StartInFlight(r)'
        BY <2>1 DEF StartInFlight, Starting
    <2>5. PhaseOf(r) = "open" /\ PhaseOf(r)' = "starting"
        BY <1>2, <2>1, <2>4 DEF PhaseOf, CanStart
    <2>6. PhaseMap' = [PhaseMap EXCEPT ![r] = "starting"] /\ PhaseMap[r] = "open"
        <3>1. \A q \in Rooms \ {r} : PhaseOf(q)' = PhaseOf(q)
            BY <2>1, <2>3, PhaseStays
        <3>. QED
            BY <2>5, <3>1, PhaseChanges DEF PhaseMap
    <2>7. Life!Begin(r)
        BY <1>1, <2>1, <2>2, <2>6 DEF Life!Begin, Life!Become, PhaseMap, Doomed
    <2>. QED
        BY <2>7 DEF Life!LifeNext
<1>3. CASE ~CanStart(r)
    <2>1. /\ pc' = [pc EXCEPT ![g] = "idle"] /\ at' = [at EXCEPT ![g] = NoRoom]
          /\ status' = status /\ lineup' = lineup
        BY <1>3 DEF StartClaim, Return
    <2>. QED
        BY <1>1, <2>1, QuietMove, StartTypesHold DEF DoomLabels
<1>. QED
    BY <1>2, <1>3

\* A start that ends in an error opens the room again.
LEMMA ErrorIsWithdraw ==
    ASSUME LifeInv, NEW r \in Rooms, StartInFlight(r), ~StartInFlight(r)', StartError(r),
           \A q \in Rooms \ {r} : StartInFlight(q)' <=> StartInFlight(q),
           rooms' = rooms, members' = members, lineup' = lineup, Doomed' = Doomed
    PROVE  Life!LifeNext
<1>. USE DEF LifeInv, TypeOK
<1>1. status' = [status EXCEPT ![r] = "Waiting"]
    BY DEF StartError
<1>2. PhaseOf(r) \in {"starting", "abandoned"} /\ PhaseOf(r)' = "open"
    BY <1>1 DEF PhaseOf, SingleStart
<1>3. \A q \in Rooms \ {r} : PhaseOf(q)' = PhaseOf(q)
    BY <1>1, PhaseStays
<1>4. PhaseMap' = [PhaseMap EXCEPT ![r] = "open"] /\ PhaseMap[r] \in {"starting", "abandoned"}
    BY <1>2, <1>3, PhaseChanges DEF PhaseMap
<1>5. Life!Withdraw(r)
    BY <1>4 DEF Life!Withdraw, Life!Become, PhaseMap, Doomed
<1>. QED
    BY <1>5 DEF Life!LifeNext

LEMMA AssignShows ==
    ASSUME LifeInv, NEW g \in Procs, Assign(g)
    PROVE  Life!LifeNext \/ UNCHANGED Life!lifeVars
<1>. USE DEF LifeInv, TypeOK
<1>. PICK r \in Rooms : r = at[g]
    BY DEF Assign
<1>1. /\ pc[g] = "assign" /\ pc' = [pc EXCEPT ![g] = "idle"] /\ at' = [at EXCEPT ![g] = NoRoom]
      /\ rooms' = rooms /\ members' = members /\ lineup' = lineup
    BY DEF Assign, Return
<1>2. Starting(g, r) /\ StartInFlight(r) /\ creating[r] = 0
    BY <1>1 DEF Starting, StartInFlight, SingleStart
<1>3. \A h \in Procs : ~Starting(h, r)'
    BY <1>1, <1>2 DEF SingleStart, Starting
<1>4. Doomed' = Doomed
    BY <1>1, DoomedStays DEF DoomLabels
<1>5. CASE StartError(r) /\ UNCHANGED creating
    <2>1. ~StartInFlight(r)'
        BY <1>2, <1>3, <1>5 DEF StartInFlight
    <2>2. \A q \in Rooms \ {r} : StartInFlight(q)' <=> StartInFlight(q)
        BY <1>1, <1>5 DEF StartInFlight, Starting
    <2>. QED
        BY <1>1, <1>2, <1>4, <1>5, <2>1, <2>2, ErrorIsWithdraw
<1>6. CASE creating' = [creating EXCEPT ![r] = MaxRetries] /\ UNCHANGED status
    <2>1. StartInFlight(r)'
        BY <1>6, ConstantsAssumption DEF StartInFlight
    <2>2. \A q \in Rooms : StartInFlight(q)' <=> StartInFlight(q)
        BY <1>1, <1>2, <1>6, <2>1 DEF StartInFlight, Starting
    <2>. QED
        BY <1>1, <1>4, <1>6, <2>2, PhasesStay, Stutter
<1>. QED
    BY <1>5, <1>6 DEF Assign

\* The attempts of the start goroutine: an accepted one confirms the start,
\* the last failure withdraws it, and the failures before show nothing.
LEMMA CreatingShows ==
    ASSUME LifeInv, NEW r \in Rooms, Creating(r)
    PROVE  Life!LifeNext \/ UNCHANGED Life!lifeVars
<1>. USE DEF LifeInv, TypeOK
<1>1. /\ rooms' = rooms /\ members' = members /\ lineup' = lineup
      /\ pc' = pc /\ at' = at /\ creating[r] > 0
    BY DEF Creating, CreateAccepted, CreateFault, roomVars, procVars
<1>2. StartInFlight(r) /\ \A g \in Procs : ~Starting(g, r)'
    BY <1>1 DEF StartInFlight, SingleStart, Starting
<1>3. Doomed' = Doomed
    BY <1>1 DEF Doomed, Dooms
<1>4. ASSUME \A q \in Rooms \ {r} : creating'[q] = creating[q]
      PROVE  \A q \in Rooms \ {r} : StartInFlight(q)' <=> StartInFlight(q)
    BY <1>1, <1>4 DEF StartInFlight, Starting
<1>5. CASE CreateAccepted(r)
    <2>1. creating' = [creating EXCEPT ![r] = 0] /\ status' = status
        BY <1>5 DEF CreateAccepted, roomVars
    <2>2. ~StartInFlight(r)'
        BY <1>2, <2>1 DEF StartInFlight
    <2>3. \A q \in Rooms \ {r} : PhaseOf(q)' = PhaseOf(q)
        BY <1>4, <2>1, PhaseStays
    <2>4. \/ PhaseOf(r) = "starting" /\ PhaseOf(r)' = "playing"
          \/ PhaseOf(r) = "abandoned" /\ PhaseOf(r)' = "over"
        BY <1>2, <2>1, <2>2 DEF PhaseOf, SingleStart
    <2>5. \/ PhaseMap[r] = "starting" /\ PhaseMap' = [PhaseMap EXCEPT ![r] = "playing"]
          \/ PhaseMap[r] = "abandoned" /\ PhaseMap' = [PhaseMap EXCEPT ![r] = "over"]
        BY <2>3, <2>4, PhaseChanges DEF PhaseMap
    <2>6. ~(Cardinality(lineup[r]) < 2)
        BY <1>1 DEF StartsAreOfTwo, TooFew
    <2>7. Life!Confirm(r)
        BY <1>1, <1>3, <2>5, <2>6
        DEF Life!Confirm, Life!Become, PhaseMap, Doomed, Cardinality, Life!Cardinality
    <2>. QED
        BY <2>7 DEF Life!LifeNext
<1>6. ASSUME NEW f \in Faults, CreateFault(r, f)
      PROVE  Life!LifeNext \/ UNCHANGED Life!lifeVars
    <2>1. \A q \in Rooms \ {r} : StartInFlight(q)' <=> StartInFlight(q)
        BY <1>4, <1>6 DEF CreateFault
    <2>2. CASE creating'[r] = 0 /\ StartError(r)
        <3>1. ~StartInFlight(r)'
            BY <1>2, <2>2 DEF StartInFlight
        <3>. QED
            BY <1>1, <1>2, <1>3, <2>1, <2>2, <3>1, ErrorIsWithdraw
    <2>3. CASE creating'[r] > 0 /\ UNCHANGED status
        <3>1. StartInFlight(r)'
            BY <2>3 DEF StartInFlight
        <3>. QED
            BY <1>1, <1>2, <1>3, <2>1, <2>3, <3>1, PhasesStay, Stutter
    <2>. QED
        BY <1>6, <2>2, <2>3 DEF CreateFault
<1>. QED
    BY <1>5, <1>6 DEF Creating

(***************************************************************************)
(* The steps together.                                                     *)
(***************************************************************************)

LEMMA CommandShows ==
    ASSUME LifeInv, NEW l \in Loops, Command(l)
    PROVE  Life!LifeNext \/ UNCHANGED Life!lifeVars
<1>. USE DEF LifeInv, TypeOK
<1>. l \in Procs
    BY DEF Procs
<1>1. ASSUME NEW c \in Commands \cap DOMAIN EntryOf, Lookup(l, c) PROVE UNCHANGED Life!lifeVars
    <2>1. EntryOf[c] \notin DoomLabels \cup {"assign"}
        BY DEF EntryOf, DoomLabels
    <2>2. /\ pc[l] = "idle" /\ pc' = [pc EXCEPT ![l] = EntryOf[c]]
          /\ \A h \in Procs \ {l} : at'[h] = at[h]
          /\ UNCHANGED <<rooms, status, members, lineup, creating>>
        BY <1>1 DEF Lookup, Enter, roomVars, engineVars
    <2>. QED
        BY <2>1, <2>2, QuietMove, StartTypesHold DEF DoomLabels
<1>2. ASSUME NEW r \in Rooms, JoinLookup(l, r) PROVE UNCHANGED Life!lifeVars
    <2>1. /\ pc[l] = "idle" /\ pc' = [pc EXCEPT ![l] = "join"]
          /\ \A h \in Procs \ {l} : at'[h] = at[h]
          /\ UNCHANGED <<rooms, status, members, lineup, creating>>
        BY <1>2 DEF JoinLookup, Enter, roomVars, engineVars
    <2>. QED
        BY <2>1, QuietMove, StartTypesHold DEF DoomLabels
<1>3. ASSUME NEW r \in Rooms, CreateRoom(l, r) PROVE Life!LifeNext
    <2>1. UNCHANGED <<pc, at, creating>> /\ OpenRoom(r, PlayerOf[l]) /\ PlayerOf[l] \in Players
        BY <1>3, ConstantsAssumption DEF CreateRoom, OpenRoom, procVars, engineVars
    <2>2. Doomed' = Doomed /\ \A q \in Rooms : StartInFlight(q)' <=> StartInFlight(q)
        BY <2>1 DEF Doomed, Dooms, StartInFlight, Starting
    <2>. QED
        BY <2>1, <2>2, OpenIsOffer
<1>4. CASE Enqueue(l)
    <2>1. UNCHANGED <<rooms, status, members, lineup, creating, pc, at>>
        BY <1>4 DEF Enqueue, roomVars, engineVars, procVars
    <2>2. PhaseMap' = PhaseMap /\ Doomed' = Doomed
        BY <2>1, PhasesStay DEF Doomed, Dooms, StartInFlight, Starting
    <2>. QED
        BY <2>1, <2>2, Stutter
<1>. QED
    BY <1>1, <1>2, <1>3, <1>4 DEF Command

LEMMA ContinueShows ==
    ASSUME LifeInv, NEW g \in Procs, Continue(g)
    PROVE  Life!LifeNext \/ UNCHANGED Life!lifeVars
<1>. USE StartTypesHold DEF LifeInv, TypeOK, roomVars, engineVars
<1>1. CASE Join(g) \/ LeaveRemove(g) \/ Depart(g) \/ StartClaim(g) \/ Assign(g)
    BY <1>1, JoinIsSit, LeaveIsQuit, DepartIsStop, ClaimIsBegin, AssignShows
<1>2. CASE ClearRoomID(g)
    BY <1>2, QuietMove DEF ClearRoomID, Goto, DoomLabels
<1>3. CASE DeleteLookup(g)
    <2>1. CASE at[g] \in rooms
        BY <1>3, <2>1, QuietMove DEF DeleteLookup, Goto, DoomLabels
    <2>2. CASE at[g] \notin rooms
        <3>1. rooms' = rooms \ {at[g]} /\ at[g] \in Rooms /\ pc[g] = "delete" /\ Return(g)
            BY <1>3, <2>2 DEF DeleteLookup
        <3>2. UNCHANGED <<status, members, lineup, creating>>
            BY <1>3 DEF DeleteLookup
        <3>. QED
            BY <3>1, <3>2, EndIsDrop
    <2>. QED
        BY <2>1, <2>2
<1>4. CASE DeleteStatus(g) \/ DestroyAccepted(g)
    BY <1>4, QuietMove DEF DeleteStatus, DestroyAccepted, Goto, DoomLabels
<1>5. ASSUME NEW f \in Faults, DestroyFault(g, f) PROVE UNCHANGED Life!lifeVars
    BY <1>5, QuietMove DEF DestroyFault, Goto, DoomLabels
<1>6. CASE Unlink(g) \/ DestroyPanics(g)
    BY <1>6, EndIsDrop, PanicForsakes DEF Unlink
<1>7. CASE SelectCheck(g) \/ ResetTeam(g) \/ FillTeam(g) \/ MarkReady(g)
    <2>1. CASE SelectCheck(g) \/ ResetTeam(g)
        BY <2>1, QuietMove DEF SelectCheck, ResetTeam, Goto, Return, DoomLabels
    <2>2. CASE FillTeam(g)
        BY <2>2, QuietMove DEF FillTeam, Goto, Return, DoomLabels
    <2>3. CASE MarkReady(g)
        BY <2>3, QuietMove DEF MarkReady, Goto, Return, DoomLabels
    <2>. QED
        BY <1>7, <2>1, <2>2, <2>3
<1>8. CASE BattleCheck(g) \/ InjectSide(g) \/ SendAction(g)
    BY <1>8, QuietMove DEF BattleCheck, InjectSide, SendAction, Goto, Return, DoomLabels
<1>. QED
    BY <1>1, <1>2, <1>3, <1>4, <1>5, <1>6, <1>7, <1>8 DEF Continue

LEMMA MatchingShows ==
    ASSUME LifeInv, Matching
    PROVE  Life!LifeNext \/ UNCHANGED Life!lifeVars
<1>. USE DEF LifeInv, TypeOK
<1>. Matcher \in Procs
    BY DEF Procs
<1>1. CASE TakePlayer
    <2>1. UNCHANGED <<rooms, status, members, lineup, creating, pc, at>>
        BY <1>1 DEF TakePlayer, roomVars, engineVars, procVars
    <2>2. PhaseMap' = PhaseMap /\ Doomed' = Doomed
        BY <2>1, PhasesStay DEF Doomed, Dooms, StartInFlight, Starting
    <2>. QED
        BY <2>1, <2>2, Stutter
<1>2. ASSUME NEW r \in Rooms, MatchCreate(r) PROVE Life!LifeNext
    <2>1. pair[1] \in Players /\ OpenRoom(r, pair[1])
        BY <1>2, PairElements DEF MatchCreate, PairComplete
    <2>2. /\ pc[Matcher] = "idle" /\ pc' = [pc EXCEPT ![Matcher] = "seat"]
          /\ at' = at /\ creating' = creating
        BY <1>2, <2>1 DEF MatchCreate, OpenRoom, Goto, engineVars
    <2>3. Doomed' = Doomed /\ \A q \in Rooms : StartInFlight(q)' <=> StartInFlight(q)
        BY <2>2, StartsStay, DoomedStays, StartTypesHold DEF DoomLabels
    <2>. QED
        BY <2>1, <2>3, OpenIsOffer
<1>3. CASE MatchJoinLookup
    <2>1. /\ pc[Matcher] = "seat" /\ pc'[Matcher] \in {"idle", "join"}
          /\ \A h \in Procs \ {Matcher} : pc'[h] = pc[h] /\ at'[h] = at[h]
          /\ UNCHANGED <<rooms, status, members, lineup, creating>>
        BY <1>3 DEF MatchJoinLookup, Enter, Return, roomVars, engineVars
    <2>. QED
        BY <2>1, QuietMove, StartTypesHold DEF DoomLabels
<1>. QED
    BY <1>1, <1>2, <1>3 DEF Matching

LEMMA StepShows ==
    ASSUME LifeInv, [Next]_vars
    PROVE  [Life!LifeNext]_Life!lifeVars
<1>1. ASSUME UNCHANGED <<rooms, status, members, lineup, creating, pc, at>>
      PROVE  UNCHANGED Life!lifeVars
    <2>1. PhaseMap' = PhaseMap /\ Doomed' = Doomed
        BY <1>1, PhasesStay DEF Doomed, Dooms, StartInFlight, Starting
    <2>. QED
        BY <1>1, <2>1, Stutter
<1>2. ASSUME NEW d \in Requests, LateExecution(d[1], d[2]) PROVE UNCHANGED Life!lifeVars
    BY <1>1, <1>2 DEF LateExecution, roomVars, procVars
<1>3. CASE UNCHANGED vars
    BY <1>1, <1>3 DEF vars, roomVars, engineVars, procVars
<1>. QED
    BY <1>2, <1>3, CommandShows, ContinueShows, CreatingShows, MatchingShows DEF Next

\* A start is handed to its goroutine for two players or more, and nothing
\* changes the copy of its players before it ends.
LEMMA StartsAreOfTwoStep ==
    ASSUME TypeOK, SingleStart, StartsAreOfTwo, [Next]_vars
    PROVE  StartsAreOfTwo'
<1>. USE DEF TypeOK, StartsAreOfTwo, roomVars, engineVars
<1>1. CASE UNCHANGED <<creating, lineup>>
    BY <1>1 DEF TooFew
<1>2. ASSUME NEW g \in Procs, StartClaim(g) PROVE StartsAreOfTwo'
    <2>. PICK r \in Rooms : r = at[g]
        BY <1>2 DEF StartClaim
    <2>1. CASE CanStart(r)
        <3>1. ~(creating[r] > 0)
            BY <2>1 DEF CanStart, SingleStart, StartInFlight
        <3>2. creating' = creating /\ \A q \in Rooms \ {r} : lineup'[q] = lineup[q]
            BY <1>2, <2>1 DEF StartClaim
        <3>. QED
            BY <3>1, <3>2 DEF TooFew
    <2>2. CASE ~CanStart(r)
        BY <1>1, <1>2, <2>2 DEF StartClaim
    <2>. QED
        BY <2>1, <2>2
<1>3. ASSUME NEW g \in Procs, Assign(g) PROVE StartsAreOfTwo'
    <2>. PICK r \in Rooms : r = at[g]
        BY <1>3 DEF Assign
    <2>1. CASE UNCHANGED creating
        BY <1>1, <1>3, <2>1 DEF Assign
    <2>2. CASE ~TooFew(lineup[r]) /\ creating' = [creating EXCEPT ![r] = MaxRetries]
        <3>1. lineup' = lineup
            BY <1>3 DEF Assign
        <3>. QED
            BY <2>2, <3>1 DEF TooFew
    <2>. QED
        BY <1>3, <2>1, <2>2 DEF Assign
<1>4. ASSUME NEW r \in Rooms, Creating(r) PROVE StartsAreOfTwo'
    <2>1. lineup' = lineup /\ \A q \in Rooms : creating'[q] > 0 => creating[q] > 0
        BY <1>4 DEF Creating, CreateAccepted, CreateFault
    <2>. QED
        BY <2>1 DEF TooFew
<1>5. ASSUME NEW l \in Loops, Command(l) PROVE UNCHANGED <<creating, lineup>>
    BY <1>5 DEF Command, Lookup, JoinLookup, CreateRoom, OpenRoom, Enqueue
<1>6. ASSUME NEW g \in Procs, Continue(g), ~StartClaim(g), ~Assign(g)
      PROVE  UNCHANGED <<creating, lineup>>
    BY <1>6
    DEF Continue, Join, LeaveRemove, ClearRoomID, Depart, DeleteLookup, DeleteStatus,
        DestroyAccepted, DestroyFault, DestroyPanics, Unlink, SelectCheck, ResetTeam, FillTeam,
        MarkReady, BattleCheck, InjectSide, SendAction
<1>7. CASE Matching
    BY <1>1, <1>7 DEF Matching, TakePlayer, MatchCreate, OpenRoom, MatchJoinLookup
<1>8. ASSUME NEW d \in Requests, LateExecution(d[1], d[2]) PROVE UNCHANGED <<creating, lineup>>
    BY <1>8 DEF LateExecution
<1>9. CASE UNCHANGED vars
    BY <1>1, <1>9 DEF vars
<1>. QED
    BY <1>1, <1>2, <1>3, <1>4, <1>5, <1>6, <1>7, <1>8, <1>9 DEF Next

LEMMA InitShows == Init => Life!LifeInit
<1>. SUFFICES ASSUME Init PROVE Life!LifeInit
    OBVIOUS
<1>1. \A r \in Rooms : PhaseOf(r) = "unborn"
    BY DEF Init, PhaseOf
<1>2. \A r \in Rooms, g \in Procs : ~Dooms(g, r)
    BY ConstantsAssumption DEF Init, Dooms
<1>. QED
    BY <1>1, <1>2 DEF Init, Life!LifeInit

\* Whatever the goroutines, the engine and the network do, what can be seen of
\* a room is a behaviour of RoomLife.
THEOREM RoomsImplementLife == Spec => ImplementsLife
<1>1. Init => RoomsWorkedOnExist /\ StartsAreOfTwo
    BY ConstantsAssumption DEF Init, RoomsWorkedOnExist, StartsAreOfTwo
<1>2. TypeOK /\ SingleStart /\ RoomsWorkedOnExist /\ StartsAreOfTwo /\ [Next]_vars
        => RoomsWorkedOnExist' /\ StartsAreOfTwo'
    BY RoomsWorkedOnExistStep, StartsAreOfTwoStep
<1>3. TypeOK /\ SingleStart /\ RoomsWorkedOnExist /\ StartsAreOfTwo /\ [Next]_vars
        => [Life!LifeNext]_Life!lifeVars
    BY StepShows DEF LifeInv
<1>. QED
    BY <1>1, <1>2, <1>3, InitShows, TypeCorrect, OneStartAtATime, PTL
    DEF Spec, ImplementsLife, Life!LifeSpec
=============================================================================
