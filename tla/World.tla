------------------------------- MODULE World --------------------------------
(***************************************************************************)
(* The authoritative online state: internal/server/application/world.go    *)
(* with the lobby section it publishes to, internal/game/lobby/state.go.   *)
(*                                                                         *)
(* The same facts are kept four times: a room's member table, the          *)
(* membership index, a player's lobby presence and the room's lobby        *)
(* summary.  World.mu makes one operation one step, but an operation that  *)
(* fails half way returns with what it has already changed, and LeaveLobby *)
(* does not take World.mu at all.  One game server owns one section        *)
(* (gameSectionID), so the section is not a parameter.                     *)
(*                                                                         *)
(* Every command about a room runs in that room's lane (RoomActor.tla), so *)
(* only lobby operations interleave with the steps of a match start.       *)
(***************************************************************************)
EXTENDS Room

CONSTANTS RoomIDs,         \* 1..100
          SettingChoices,  \* the match settings owners choose from
          RuleChoices,     \* free rule off, on, or both
          StartOptions,    \* the start options the dispatcher passes
          MaxGames         \* bound: game IDs allocated in a behaviour

ASSUME WorldAssumption ==
    /\ RoomIDs \subseteq Nat \ {0} /\ IsFiniteSet(RoomIDs)
    /\ SettingChoices \subseteq Settings
    /\ RuleChoices \subseteq BOOLEAN
    /\ StartOptions \subseteq Options
    /\ MaxGames \in Nat

VARIABLES rooms,        \* World.rooms
          memberships,  \* World.memberships: the room of each player in one
          presence,     \* Section.players: Presence.RoomID, 0 in the lobby
          summaries,    \* Section.rooms: the room list every client sees
          nextGameID,   \* World.nextGameID
          starting      \* the game ID reserved by the start in a room's lane

vars == <<rooms, memberships, presence, summaries, nextGameID, starting>>

Summary(r) ==
    [owner |-> r.owner, phase |-> r.phase, type |-> r.settings.type,
     fixed |-> r.settings.fixed, freeRule |-> r.freeRule,
     players |-> Population(r), max |-> Capacity(r)]

Summaries == [owner: Players, phase: Phases, type: GameTypes, fixed: BOOLEAN,
              freeRule: BOOLEAN, players: 0..SeatCount, max: 1..SeatCount]

IsRooms(f) ==
    /\ DOMAIN f \subseteq RoomIDs
    /\ f = [id \in DOMAIN f |-> f[id]]
    /\ \A id \in DOMAIN f : IsRoom(f[id])

\* Every room is a well-formed room, and every index entry, presence, summary
\* and reserved game ID is in range.
TypeOK ==
    /\ IsRooms(rooms)
    /\ IsMap(memberships, Players, RoomIDs)
    /\ IsMap(presence, Players, RoomIDs \cup {0})
    /\ IsMap(summaries, RoomIDs, Summaries)
    /\ nextGameID \in 0..MaxGames
    /\ IsMap(starting, RoomIDs, 1..MaxGames)

Empty == [x \in {} |-> x]

Init ==
    /\ rooms = Empty
    /\ memberships = Empty
    /\ presence = Empty
    /\ summaries = Empty
    /\ nextGameID = 0
    /\ starting = Empty

Online(p) == p \in DOMAIN presence
Lane(id) == id \notin DOMAIN starting      \* the room's lane is free

\* Section.UpsertRoom refuses a summary no client could show.
Publishable(r) == r.owner # Nobody /\ Capacity(r) # 0 /\ Population(r) <= Capacity(r)

\* syncRoomLocked: a refused summary leaves the previous one in the list.
Synced(id, r) ==
    IF Publishable(r) THEN Put(summaries, id, Summary(r)) ELSE summaries

Commit(id, r) ==
    /\ rooms' = [rooms EXCEPT ![id] = r]
    /\ summaries' = Synced(id, r)

-----------------------------------------------------------------------------
(* The lobby *)

\* Mutation: a fresh presence forgets the room the player is still in.
EnterLobbyOutside(p) ==
    /\ presence' = Put(presence, p, 0)
    /\ UNCHANGED <<rooms, memberships, summaries, nextGameID, starting>>

EnterLobby(p) ==
    /\ presence' = Put(presence, p, IF p \in DOMAIN memberships THEN memberships[p] ELSE 0)
    /\ UNCHANGED <<rooms, memberships, summaries, nextGameID, starting>>

RemovePresence(p) ==
    /\ Online(p)
    /\ presence' = Drop(presence, p)
    /\ UNCHANGED <<rooms, memberships, summaries, nextGameID, starting>>

\* A departing or logged-out connection has left its room first.
LeaveLobby(p) == p \notin DOMAIN memberships /\ RemovePresence(p)

\* Pruning and the departure of a second owner of the account look at the live
\* sessions only, never at World.memberships.
PruneLobby(p) == p \in DOMAIN memberships /\ RemovePresence(p)

-----------------------------------------------------------------------------
(* Entering and leaving a room *)

CreateRoom(p, settings, freeRule) ==
    LET id == Min(RoomIDs \ DOMAIN rooms)
        r == NewRoom(p, settings, freeRule)
    IN  /\ p \notin DOMAIN memberships
        /\ RoomIDs \ DOMAIN rooms # {}
        /\ IF Online(p)
           THEN /\ rooms' = Put(rooms, id, r)
                /\ memberships' = Put(memberships, p, id)
                /\ summaries' = Synced(id, r)
                /\ presence' = [presence EXCEPT ![p] = id]
           ELSE /\ summaries' = Drop(summaries, id)          \* rolled back
                /\ UNCHANGED <<rooms, memberships, presence>>
        /\ UNCHANGED <<nextGameID, starting>>

\* Either the summary or the presence can refuse the newcomer, who then leaves
\* the member table again.  A session kicked while its message waited in the lane
\* of its old room joins from there, whatever the lane of this room is doing.
JoinRoom(p, id, team) ==
    LET joined == Join(rooms[id], p, team)
        restored == Leave(joined, p)
    IN  /\ id \in DOMAIN rooms
        /\ p \notin DOMAIN memberships
        /\ CanJoin(rooms[id], p)
        /\ IF Publishable(joined) /\ Online(p)
           THEN /\ Commit(id, joined)
                /\ memberships' = Put(memberships, p, id)
                /\ presence' = [presence EXCEPT ![p] = id]
           ELSE /\ rooms' = [rooms EXCEPT ![id] = restored]
                /\ summaries' = IF Publishable(joined) THEN Synced(id, restored) ELSE summaries
                /\ UNCHANGED <<memberships, presence>>
        /\ UNCHANGED <<nextGameID, starting>>

\* Mutation: the index entry of the last member is left behind.
DepartKeepsLastIndex(p, id, r) ==
    /\ memberships' = IF Roster(r) = {} THEN memberships ELSE Drop(memberships, p)
    /\ IF Online(p)
       THEN /\ presence' = [presence EXCEPT ![p] = 0]
            /\ IF Roster(r) = {}
               THEN rooms' = Drop(rooms, id) /\ summaries' = Drop(summaries, id)
               ELSE Commit(id, r)
       ELSE rooms' = [rooms EXCEPT ![id] = r] /\ UNCHANGED <<presence, summaries>>
    /\ UNCHANGED <<nextGameID, starting>>

\* Mutation: a room that empties in the middle of a match is kept.
DepartKeepsMatchRoom(p, id, r) ==
    /\ memberships' = Drop(memberships, p)
    /\ IF Online(p)
       THEN /\ presence' = [presence EXCEPT ![p] = 0]
            /\ IF Roster(r) = {} /\ r.game = 0
               THEN rooms' = Drop(rooms, id) /\ summaries' = Drop(summaries, id)
               ELSE Commit(id, r)
       ELSE rooms' = [rooms EXCEPT ![id] = r] /\ UNCHANGED <<presence, summaries>>
    /\ UNCHANGED <<nextGameID, starting>>

\* The common end of every departure.  A player missing from the lobby makes
\* setPlayerRoomLocked fail, and the caller returns before the empty room is
\* deleted or the summary refreshed.
Depart(p, id, r) ==
    /\ memberships' = Drop(memberships, p)
    /\ IF Online(p)
       THEN /\ presence' = [presence EXCEPT ![p] = 0]
            /\ IF Roster(r) = {}
               THEN rooms' = Drop(rooms, id) /\ summaries' = Drop(summaries, id)
               ELSE Commit(id, r)
       ELSE /\ rooms' = [rooms EXCEPT ![id] = r]
            /\ UNCHANGED <<presence, summaries>>
    /\ UNCHANGED <<nextGameID, starting>>

\* memberRoomLocked
InRoom(p) == p \in DOMAIN memberships /\ memberships[p] \in DOMAIN rooms
RoomOf(p) == rooms[memberships[p]]

\* Voluntary, disconnected, kicked by the owner or eliminated between stages:
\* the reason changes nothing here.
LeaveRoom(p) ==
    /\ InRoom(p) /\ Lane(memberships[p])
    /\ p \in Roster(RoomOf(p))
    /\ Depart(p, memberships[p], Leave(RoomOf(p), p))

\* The recovery path, taken when LeaveRoom has failed, for the room the session
\* believes it is in.  It removes whichever side is still there.
ReconcileRoomDeparture(p, id) ==
    /\ ~InRoom(p) /\ Lane(id)
    /\ IF id \in DOMAIN rooms
       THEN Depart(p, id, IF p \in Roster(rooms[id]) THEN Leave(rooms[id], p) ELSE rooms[id])
       ELSE UNCHANGED vars

-----------------------------------------------------------------------------
(* Preparing the next match: mutateMemberRoom *)

MutateMemberRoom(p, r) ==
    /\ Commit(memberships[p], r)
    /\ UNCHANGED <<memberships, presence, nextGameID, starting>>

\* Every operation below finds its room through the membership index.
Acts(p) == InRoom(p) /\ Lane(memberships[p])

ChangeReady(p, ready) ==
    /\ Acts(p) /\ CanUpdateMember(RoomOf(p), p)
    /\ MutateMemberRoom(p, SetReady(RoomOf(p), p, ready))

SetMember(p, team) ==
    /\ Acts(p) /\ CanUpdateMember(RoomOf(p), p)
    /\ MutateMemberRoom(p, SetTeam(RoomOf(p), p, team))

ChangeSeatLocked(p, seat, locked) ==
    /\ Acts(p) /\ CanSetSeatLocked(RoomOf(p), p, seat, locked)
    /\ MutateMemberRoom(p, SetSeatLocked(RoomOf(p), seat, locked))

UpdateRoomProperties(p, freeRule) ==
    /\ Acts(p) /\ OwnerActs(RoomOf(p), p)
    /\ MutateMemberRoom(p, UpdateProperties(RoomOf(p), freeRule))

UpdateMatchSettings(p, settings) ==
    /\ Acts(p) /\ CanUpdateSettings(RoomOf(p), p, settings)
    /\ MutateMemberRoom(p, UpdateSettings(RoomOf(p), settings))

ChangeWeddingMode(p, mode) ==
    /\ Acts(p) /\ CanSetWeddingMode(RoomOf(p), p)
    /\ MutateMemberRoom(p, SetWeddingMode(RoomOf(p), mode))

ChangeChatBackground(p, background) ==
    /\ Acts(p) /\ ChatOwnerActs(RoomOf(p), p)
    /\ MutateMemberRoom(p, SetChatBackground(RoomOf(p), background))

ProposeWedding(p, target, mode) ==
    /\ Acts(p) /\ CanStartWedding(RoomOf(p), p, target)
    /\ MutateMemberRoom(p, StartWedding(RoomOf(p), p, target, mode))

ReplyWedding(p, initiator, accepted) ==
    /\ Acts(p) /\ CanAnswerWedding(RoomOf(p), p, initiator)
    /\ MutateMemberRoom(p, AnswerWedding(RoomOf(p), accepted))

-----------------------------------------------------------------------------
(* The life of a match *)

\* Mutation: the counter is read and written in two steps, so the second of two
\* starts in progress gets the first one's ID.
AllocateRaced(p) ==
    /\ Acts(p)
    /\ \E options \in StartOptions : ValidateStart(RoomOf(p), p, options)
    /\ nextGameID < MaxGames
    /\ nextGameID' = IF starting = Empty THEN nextGameID + 1 ELSE nextGameID
    /\ starting' = Put(starting, memberships[p], nextGameID')
    /\ UNCHANGED <<rooms, memberships, presence, summaries>>

\* The dispatcher validates, then reserves the ID it serialises into GAME_BEGIN.
\* Bound: MaxGames allocations, far below the wrap of the uint32 counter.
AllocateGameID(p) ==
    /\ Acts(p)
    /\ \E options \in StartOptions : ValidateStart(RoomOf(p), p, options)
    /\ nextGameID < MaxGames
    /\ nextGameID' = nextGameID + 1
    /\ starting' = Put(starting, memberships[p], nextGameID + 1)
    /\ UNCHANGED <<rooms, memberships, presence, summaries>>

Starting(p) == InRoom(p) /\ memberships[p] \in DOMAIN starting /\ p = RoomOf(p).owner
EndStart(p) == starting' = Drop(starting, memberships[p])

\* StartMatchWithIDOptions commits the reserved ID.
CommitStart(p, options) ==
    /\ Starting(p)
    /\ ValidateStart(RoomOf(p), p, options)
    /\ Commit(memberships[p], StartMatch(RoomOf(p), starting[memberships[p]]))
    /\ UNCHANGED <<memberships, presence, nextGameID, starting>>

\* The start command ends: its match runs, or nothing was committed.
FinishStart(p) ==
    /\ Starting(p)
    /\ EndStart(p)
    /\ UNCHANGED <<rooms, memberships, presence, summaries, nextGameID>>

\* Mutation: the rollback is not published to the lobby.
RollbackUnpublished(p) ==
    /\ Starting(p)
    /\ CanBeginSettlement(RoomOf(p), starting[memberships[p]])
    /\ rooms' = [rooms EXCEPT ![memberships[p]] = CompleteMatch(BeginSettlement(@))]
    /\ EndStart(p)
    /\ UNCHANGED <<summaries, memberships, presence, nextGameID>>

\* World.CompleteMatch as the rollback of a start whose item debit failed.
RollbackStart(p) ==
    /\ Starting(p)
    /\ CanBeginSettlement(RoomOf(p), starting[memberships[p]])
    /\ Commit(memberships[p], CompleteMatch(BeginSettlement(RoomOf(p))))
    /\ EndStart(p)
    /\ UNCHANGED <<memberships, presence, nextGameID>>

\* The game is the acting session's CurrentGameID, which may be an old one.
SettleMatch(p, game) ==
    /\ Acts(p) /\ CanBeginSettlement(RoomOf(p), game)
    /\ MutateMemberRoom(p, BeginSettlement(RoomOf(p)))

FinishSettlement(p, game) ==
    /\ Acts(p) /\ CanCompleteMatch(RoomOf(p), game)
    /\ MutateMemberRoom(p, CompleteMatch(RoomOf(p)))

-----------------------------------------------------------------------------
LobbyNext(p) == EnterLobby(p) \/ LeaveLobby(p)

RoomNext(p) ==
    \/ \E s \in SettingChoices, f \in RuleChoices : ~s.fixed /\ CreateRoom(p, s, f)
    \/ \E id \in RoomIDs : JoinRoom(p, id, 1)     \* every caller passes team 1
    \/ \E ready \in BOOLEAN : ChangeReady(p, ready)
    \/ \E t \in Teams : SetMember(p, t)
    \/ \E seat \in Seats, locked \in BOOLEAN : ChangeSeatLocked(p, seat, locked)
    \/ \E f \in RuleChoices : UpdateRoomProperties(p, f)
    \/ \E s \in SettingChoices : UpdateMatchSettings(p, s)

DepartNext(p) ==
    LeaveRoom(p) \/ \E id \in RoomIDs : ReconcileRoomDeparture(p, id)

ChatNext(p) ==
    \/ \E mode \in 0..1 : ChangeWeddingMode(p, mode)
    \/ \E b \in Backgrounds : ChangeChatBackground(p, b)
    \/ \E q \in Players, mode \in 0..1 : ProposeWedding(p, q, mode)
    \/ \E q \in Players, accepted \in BOOLEAN : ReplyWedding(p, q, accepted)

MatchNext(p) ==
    \/ AllocateGameID(p)
    \/ \E options \in StartOptions : CommitStart(p, options)
    \/ FinishStart(p)
    \/ RollbackStart(p)
    \/ \E game \in 1..MaxGames : SettleMatch(p, game) \/ FinishSettlement(p, game)

\* The server as its connections use it: a player leaves its room before the
\* lobby.
Next == \E p \in Players :
            LobbyNext(p) \/ RoomNext(p) \/ DepartNext(p) \/ ChatNext(p) \/ MatchNext(p)

\* The same server when a player's lobby presence can vanish at any moment.
PruneNext == Next \/ \E p \in Players : PruneLobby(p)

Spec == Init /\ [][Next]_vars
PruneSpec == Init /\ [][PruneNext]_vars

-----------------------------------------------------------------------------
(* Properties *)

Live == DOMAIN rooms

\* The membership index and the member tables say the same: a player's index
\* entry names the one room whose table holds it.  Room routing, kicking and
\* settlement all start from the index, the match roster from the table.
MembershipAgrees ==
    \A p \in Players, id \in RoomIDs :
        (p \in DOMAIN memberships /\ memberships[p] = id)
            <=> (id \in Live /\ p \in Roster(rooms[id]))

\* Every room is sound (Room.tla), so syncRoomLocked cannot fail after a
\* mutation has been applied, whatever the order of seat locks, joins,
\* departures, settings and proposals.
RoomsSound == \A id \in Live : Sound(rooms[id])

\* An existing room has a member: nobody can join an ownerless room, because its
\* summary is refused, so a room left without members is lost for good.
NoGhostRoom == \A id \in Live : Roster(rooms[id]) # {}

\* The room list is the projection of the rooms: no room is missing from it,
\* none is listed after its end, and no entry lags behind its room.
LobbyAgrees == summaries = [id \in Live |-> Summary(rooms[id])]

\* A player in a room is online, and the online list shows that room; a player
\* whose index entry is gone is shown in the lobby.
PresenceAgrees ==
    /\ DOMAIN memberships \subseteq DOMAIN presence
    /\ \A p \in DOMAIN presence :
          presence[p] = IF p \in DOMAIN memberships THEN memberships[p] ELSE 0

\* No two rooms play under the same game ID, whether the match has begun or its
\* ID is only reserved: battles, settlements and timeouts are keyed by it.
GameOf(id) == IF id \in DOMAIN starting THEN starting[id]
              ELSE IF id \in Live THEN rooms[id].game ELSE 0
GamesDistinct ==
    \A id, other \in RoomIDs :
        GameOf(id) # 0 /\ GameOf(id) = GameOf(other) => id = other

\* While a match runs or settles its room only loses members: nobody joins,
\* changes team, seat or readiness, and the settings the match was started with
\* stay.  Settlement pays the roster that started.
KeepsRoster(r, s) ==
    r.game # 0 /\ s.game = r.game =>
        /\ Roster(s) \subseteq Roster(r)
        /\ \A p \in Roster(s) : s.members[p] = r.members[p]
        /\ <<s.settings, s.freeRule, s.locked>> = <<r.settings, r.freeRule, r.locked>>
MatchKeepsRoster ==
    [][\A id \in Live \cap DOMAIN rooms' : KeepsRoster(rooms[id], rooms'[id])]_vars

\* One game goes through one settlement: a room never leaves settlement for the
\* same game again, never swaps its game for another, and comes back to
\* preparation with every member unready.
KeepsLife(r, s) ==
    /\ r.phase = "settling" => s.phase # "inMatch"
    /\ r.game # s.game => r.game = 0 \/ s.game = 0
    /\ r.game # 0 /\ s.game = 0 => Roster(s) = Roster(r) /\ \A p \in Roster(s) : ~s.members[p].ready
MatchLifecycle ==
    [][\A id \in Live \cap DOMAIN rooms' : KeepsLife(rooms[id], rooms'[id])]_vars

\* A wedding keeps its pair: it runs only after its target accepted this very
\* proposal, and no later proposal takes its place before it has ended.
WeddingKeepsPair ==
    [][\A id \in Live \cap DOMAIN rooms' :
          LET v == rooms[id].wedding w == rooms'[id].wedding
              pair(x) == <<x.initiator, x.target>>
          IN  /\ w.active /\ ~v.active => v.pending
              /\ (v.pending \/ v.active) /\ (w.pending \/ w.active) => pair(w) = pair(v)]_vars
=============================================================================
