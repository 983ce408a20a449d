---------------------------- MODULE WorldProofs -----------------------------
(***************************************************************************)
(* Theorems about World.tla, for any number of players, seats, teams and   *)
(* rooms.                                                                  *)
(***************************************************************************)
EXTENDS World, RoomProofs

-----------------------------------------------------------------------------
(* Maps *)

\* Put keeps a map typed.
LEMMA PutIsMap ==
    ASSUME NEW S, NEW T, NEW f, IsMap(f, S, T), NEW k \in S, NEW v \in T
    PROVE  IsMap(Put(f, k, v), S, T)
BY DEF IsMap, Put

\* Drop keeps a map typed.
LEMMA DropIsMap ==
    ASSUME NEW S, NEW T, NEW f, IsMap(f, S, T), NEW k
    PROVE  IsMap(Drop(f, k), S, T)
BY DEF IsMap, Drop, Restrict

\* Drop removes one key and changes no other value.
LEMMA DropValues ==
    ASSUME NEW f, NEW k
    PROVE  /\ DOMAIN Drop(f, k) = DOMAIN f \ {k}
           /\ \A x \in DOMAIN f \ {k} : Drop(f, k)[x] = f[x]
BY DEF Drop, Restrict

\* The room table with one room added, changed or removed.
LEMMA RoomsStayRooms ==
    ASSUME IsRooms(rooms), NEW id \in RoomIDs
    PROVE  /\ \A r : IsRoom(r) => IsRooms(Put(rooms, id, r))
           /\ \A r : IsRoom(r) => IsRooms([rooms EXCEPT ![id] = r])
           /\ IsRooms(Drop(rooms, id))
<1>1. ASSUME NEW r, IsRoom(r) PROVE IsRooms(Put(rooms, id, r))
    BY <1>1 DEF IsRooms, Put
<1>2. ASSUME NEW r, IsRoom(r) PROVE IsRooms([rooms EXCEPT ![id] = r])
    BY <1>2 DEF IsRooms
<1>3. IsRooms(Drop(rooms, id))
    BY DEF IsRooms, Drop, Restrict
<1> QED
    BY <1>1, <1>2, <1>3

\* The summary of a publishable room is in range.
LEMMA SummaryIsTyped ==
    ASSUME NEW r, IsRoom(r), Publishable(r)
    PROVE  Summary(r) \in Summaries
<1>1. /\ r.owner \in Players /\ r.phase \in Phases /\ r.settings.type \in GameTypes
      /\ r.settings.fixed \in BOOLEAN /\ r.freeRule \in BOOLEAN
    BY RoomFields DEF Publishable, Settings
<1>2. Population(r) \in 0..SeatCount /\ Capacity(r) \in 1..SeatCount
    BY RoomSizes, RoomAssumption DEF Publishable
<1> QED
    BY <1>1, <1>2 DEF Summary, Summaries

\* The room list stays typed when a room is published to it.
LEMMA SyncedIsMap ==
    ASSUME NEW r, IsRoom(r), NEW id \in RoomIDs, IsMap(summaries, RoomIDs, Summaries)
    PROVE  IsMap(Synced(id, r), RoomIDs, Summaries)
BY SummaryIsTyped, PutIsMap DEF Synced

-----------------------------------------------------------------------------
(* The invariant *)

\* Typing, membership and soundness hold each other up: the index is needed to
\* know that a departing player is in the room it leaves, soundness to know that
\* a summary is never refused and that a rolled back join restores the room.
Base == TypeOK /\ MembershipAgrees /\ RoomsSound

\* A member of a room acts on that room.
LEMMA ActorIsMember ==
    ASSUME Base, NEW p \in Players, InRoom(p)
    PROVE  /\ memberships[p] \in RoomIDs /\ memberships[p] \in DOMAIN rooms
           /\ IsRoom(RoomOf(p)) /\ Sound(RoomOf(p)) /\ p \in Roster(RoomOf(p))
BY DEF Base, TypeOK, MembershipAgrees, RoomsSound, Live, InRoom, RoomOf, IsRooms, IsMap

\* The invariant holds of the empty server.
LEMMA BaseInit == Init => Base
<1> SUFFICES ASSUME Init PROVE Base
    OBVIOUS
<1>1. rooms = Empty /\ memberships = Empty /\ DOMAIN Empty = {}
    BY DEF Init, Empty
<1>2. \A S, T : IsMap(Empty, S, T)
    BY DEF IsMap, Empty
<1>3. IsRooms(rooms)
    BY <1>1 DEF IsRooms, Empty
<1>4. TypeOK
    BY <1>2, <1>3, WorldAssumption DEF Init, TypeOK
<1>5. MembershipAgrees /\ RoomsSound
    BY <1>1 DEF MembershipAgrees, RoomsSound, Live
<1> QED
    BY <1>4, <1>5 DEF Base

\* Steps that leave rooms and memberships alone.
LEMMA SameRooms ==
    ASSUME Base, UNCHANGED <<rooms, memberships>>
    PROVE  MembershipAgrees' /\ RoomsSound' /\ IsRooms(rooms)' /\
           IsMap(memberships, Players, RoomIDs)'
BY DEF Base, TypeOK, MembershipAgrees, RoomsSound, Live, IsRooms, IsMap

\* A room replaced by a sound one with the same members.
LEMMA CommitKeepsBase ==
    ASSUME Base, NEW id \in DOMAIN rooms, NEW r, IsRoom(r), Sound(r),
           Roster(r) = Roster(rooms[id]), Commit(id, r),
           UNCHANGED <<memberships, presence>>,
           nextGameID' \in 0..MaxGames, IsMap(starting, RoomIDs, 1..MaxGames)'
    PROVE  Base'
<1>1. id \in RoomIDs
    BY DEF Base, TypeOK, IsRooms
<1>2. DOMAIN rooms' = DOMAIN rooms /\ \A i \in DOMAIN rooms : rooms'[i] = IF i = id THEN r ELSE rooms[i]
    BY DEF Commit, Base, TypeOK, IsRooms
<1>3. TypeOK'
    <2>1. IsRooms(rooms)'
        BY <1>1, RoomsStayRooms DEF Commit, Base, TypeOK
    <2>2. IsMap(summaries, RoomIDs, Summaries)'
        BY <1>1, SyncedIsMap DEF Commit, Base, TypeOK
    <2> QED
        BY <2>1, <2>2 DEF Base, TypeOK
<1>4. MembershipAgrees'
    BY <1>2 DEF Base, MembershipAgrees, Live
<1>5. RoomsSound'
    BY <1>2 DEF Base, RoomsSound, Live
<1> QED
    BY <1>3, <1>4, <1>5 DEF Base

\* A player taken out of a room and of the index, with or without a presence.
LEMMA DepartKeepsBase ==
    ASSUME Base, NEW p \in Players, NEW id \in DOMAIN rooms, NEW r, IsRoom(r), Sound(r),
           Roster(r) = Roster(rooms[id]) \ {p},
           p \in DOMAIN memberships => memberships[p] = id,
           Depart(p, id, r)
    PROVE  Base'
<1>1. id \in RoomIDs /\ IsRooms(rooms) /\ IsMap(memberships, Players, RoomIDs)
    BY DEF Base, TypeOK, IsRooms
<1>2. /\ IsMap(memberships, Players, RoomIDs)'
      /\ DOMAIN memberships' = DOMAIN memberships \ {p}
      /\ \A q \in DOMAIN memberships' : memberships'[q] = memberships[q]
    BY <1>1, DropIsMap, DropValues DEF Depart
<1>3. CASE Roster(r) = {} /\ Online(p)
    <2>1. /\ rooms' = Drop(rooms, id) /\ summaries' = Drop(summaries, id)
          /\ presence' = [presence EXCEPT ![p] = 0]
          /\ UNCHANGED <<nextGameID, starting>>
        BY <1>3 DEF Depart
    <2>2. IsRooms(rooms)' /\ IsMap(summaries, RoomIDs, Summaries)'
        BY <1>1, <2>1, RoomsStayRooms, DropIsMap DEF Base, TypeOK
    <2>3. IsMap(presence, Players, RoomIDs \cup {0})'
        BY <1>3, <2>1 DEF Base, TypeOK, IsMap, Online
    <2>4. TypeOK'
        BY <1>2, <2>1, <2>2, <2>3 DEF Base, TypeOK
    <2>5. DOMAIN rooms' = DOMAIN rooms \ {id} /\ \A i \in DOMAIN rooms' : rooms'[i] = rooms[i]
        <3>1. rooms' = Drop(rooms, id)
            BY <2>1
        <3>2. /\ DOMAIN Drop(rooms, id) = DOMAIN rooms \ {id}
              /\ \A i \in DOMAIN rooms \ {id} : Drop(rooms, id)[i] = rooms[i]
            BY DropValues
        <3> QED
            BY <3>1, <3>2
    <2>6. MembershipAgrees'
        BY <1>2, <1>3, <2>5 DEF Base, MembershipAgrees, Live
    <2>7. RoomsSound'
        BY <2>5 DEF Base, RoomsSound, Live
    <2> QED
        BY <2>4, <2>6, <2>7 DEF Base
<1>4. CASE ~(Roster(r) = {} /\ Online(p))
    <2>1. /\ rooms' = [rooms EXCEPT ![id] = r]
          /\ summaries' \in {summaries, Synced(id, r)}
          /\ presence' = presence \/ (Online(p) /\ presence' = [presence EXCEPT ![p] = 0])
          /\ UNCHANGED <<nextGameID, starting>>
        BY <1>4 DEF Depart, Commit
    <2>2. IsRooms(rooms)' /\ IsMap(summaries, RoomIDs, Summaries)'
        <3>1. IsRooms([rooms EXCEPT ![id] = r])
            BY <1>1, RoomsStayRooms
        <3>2. IsMap(summaries, RoomIDs, Summaries) /\ IsMap(Synced(id, r), RoomIDs, Summaries)
            BY <1>1, SyncedIsMap DEF Base, TypeOK
        <3> QED
            BY <2>1, <3>1, <3>2
    <2>3. IsMap(presence, Players, RoomIDs \cup {0})'
        <3>1. IsMap(presence, Players, RoomIDs \cup {0})
            BY DEF Base, TypeOK
        <3>2. CASE presence' = presence
            BY <3>1, <3>2
        <3>3. CASE Online(p) /\ presence' = [presence EXCEPT ![p] = 0]
            BY <3>1, <3>3 DEF IsMap, Online
        <3> QED
            BY <2>1, <3>2, <3>3
    <2>4. TypeOK'
        BY <1>2, <2>1, <2>2, <2>3 DEF Base, TypeOK
    <2>5. /\ DOMAIN rooms' = DOMAIN rooms
          /\ \A i \in DOMAIN rooms' : rooms'[i] = IF i = id THEN r ELSE rooms[i]
        BY <1>1, <2>1 DEF IsRooms
    <2>6. MembershipAgrees'
        BY <1>2, <2>5 DEF Base, MembershipAgrees, Live
    <2>7. RoomsSound'
        BY <2>5 DEF Base, RoomsSound, Live
    <2> QED
        BY <2>4, <2>6, <2>7 DEF Base
<1> QED
    BY <1>3, <1>4

-----------------------------------------------------------------------------
(* One lemma per group of actions *)

\* Entering, leaving and being pruned from the lobby keep the invariant.
LEMMA LobbyKeepsBase ==
    ASSUME Base, NEW p \in Players, EnterLobby(p) \/ RemovePresence(p)
    PROVE  Base'
<1>1. UNCHANGED <<rooms, memberships, summaries, nextGameID, starting>>
    BY DEF EnterLobby, RemovePresence
<1>2. IsMap(presence, Players, RoomIDs \cup {0})'
    <2>1. CASE EnterLobby(p)
        <3>1. (IF p \in DOMAIN memberships THEN memberships[p] ELSE 0) \in RoomIDs \cup {0}
            BY DEF Base, TypeOK, IsMap
        <3> QED
            BY <2>1, <3>1, PutIsMap DEF EnterLobby, Base, TypeOK
    <2>2. CASE RemovePresence(p)
        BY <2>2, DropIsMap DEF RemovePresence, Base, TypeOK
    <2> QED
        BY <2>1, <2>2
<1> QED
    BY <1>1, <1>2, SameRooms DEF Base, TypeOK

\* Room creation keeps the invariant, whether it is committed or rolled back.
LEMMA CreateKeepsBase ==
    ASSUME Base, NEW p \in Players, NEW s \in Settings, NEW f \in BOOLEAN, CreateRoom(p, s, f)
    PROVE  Base'
<1> DEFINE id == Min(RoomIDs \ DOMAIN rooms)
           r == NewRoom(p, s, f)
<1>1. id \in RoomIDs /\ id \notin DOMAIN rooms
    BY MinOfNaturals, WorldAssumption DEF CreateRoom
<1>2. IsRoom(r) /\ Sound(r) /\ Roster(r) = {p}
    BY NewRoomIsRoom, NewRoomIsSound DEF NewRoom, Roster
<1>3. p \notin DOMAIN memberships /\ UNCHANGED <<nextGameID, starting>>
    BY DEF CreateRoom
<1>4. CASE Online(p)
    <2>1. /\ rooms' = Put(rooms, id, r) /\ memberships' = Put(memberships, p, id)
          /\ summaries' = Synced(id, r) /\ presence' = [presence EXCEPT ![p] = id]
        BY <1>4 DEF CreateRoom
    <2> HIDE DEF id, r
    <2>2. IsRooms(rooms)' /\ IsMap(summaries, RoomIDs, Summaries)'
          /\ IsMap(memberships, Players, RoomIDs)'
        BY <1>1, <1>2, <2>1, RoomsStayRooms, SyncedIsMap, PutIsMap DEF Base, TypeOK
    <2>3. IsMap(presence, Players, RoomIDs \cup {0})'
        BY <1>1, <1>4, <2>1 DEF Base, TypeOK, IsMap, Online
    <2>4. TypeOK'
        BY <1>3, <2>2, <2>3 DEF Base, TypeOK
    <2>5. /\ DOMAIN rooms' = DOMAIN rooms \cup {id} /\ rooms'[id] = r
          /\ \A i \in DOMAIN rooms : rooms'[i] = rooms[i]
          /\ DOMAIN memberships' = DOMAIN memberships \cup {p} /\ memberships'[p] = id
          /\ \A q \in DOMAIN memberships : memberships'[q] = memberships[q]
        <3>1. /\ DOMAIN rooms' = DOMAIN rooms \cup {id} /\ rooms'[id] = r
              /\ \A i \in DOMAIN rooms : rooms'[i] = rooms[i]
            BY <1>1, <2>1 DEF Put
        <3>2. /\ DOMAIN memberships' = DOMAIN memberships \cup {p} /\ memberships'[p] = id
              /\ \A q \in DOMAIN memberships : memberships'[q] = memberships[q]
            BY <1>3, <2>1 DEF Put
        <3> QED
            BY <3>1, <3>2
    <2>6. MembershipAgrees'
        BY <1>1, <1>2, <1>3, <2>5 DEF Base, MembershipAgrees, Live
    <2>7. RoomsSound'
        BY <1>2, <2>5 DEF Base, RoomsSound, Live
    <2> QED
        BY <2>4, <2>6, <2>7 DEF Base
<1>5. CASE ~Online(p)
    <2>1. summaries' = Drop(summaries, id) /\ UNCHANGED <<rooms, memberships, presence>>
        BY <1>5 DEF CreateRoom
    <2>2. IsMap(summaries, RoomIDs, Summaries)'
        BY <2>1, DropIsMap DEF Base, TypeOK
    <2> QED
        BY <1>3, <2>1, <2>2, SameRooms DEF Base, TypeOK
<1> QED
    BY <1>4, <1>5

\* A refused join restores room, index and presence; an accepted one adds the
\* newcomer to the room and to the index at once.
LEMMA JoinKeepsBase ==
    ASSUME Base, NEW p \in Players, NEW id \in RoomIDs, NEW team \in Teams,
           JoinRoom(p, id, team)
    PROVE  Base'
<1> DEFINE r == Join(rooms[id], p, team)
<1>1. /\ id \in DOMAIN rooms /\ p \notin DOMAIN memberships /\ CanJoin(rooms[id], p)
      /\ UNCHANGED <<nextGameID, starting>>
    BY DEF JoinRoom
<1>2. IsRoom(rooms[id]) /\ Sound(rooms[id]) /\ p \notin Roster(rooms[id])
    BY <1>1 DEF Base, TypeOK, IsRooms, RoomsSound, Live, CanJoin
<1>3. IsRoom(r) /\ Roster(r) = Roster(rooms[id]) \cup {p} /\ r.owner = rooms[id].owner
    <2>1. r.owner = rooms[id].owner
        BY <1>2, RoomFields DEF Join
    <2>2. IsRoom(r)
        BY <1>1, <1>2, JoinIsRoom DEF CanJoin
    <2>3. Roster(r) = Roster(rooms[id]) \cup {p}
        BY <1>2, JoinRoster
    <2> QED
        BY <2>1, <2>2, <2>3
<1>4. Leave(r, p) = rooms[id]
    BY <1>2, JoinThenLeave
<1>5. CASE Publishable(r) /\ Online(p)
    <2>1. /\ rooms' = [rooms EXCEPT ![id] = r] /\ memberships' = Put(memberships, p, id)
          /\ summaries' = Synced(id, r) /\ presence' = [presence EXCEPT ![p] = id]
        BY <1>5 DEF JoinRoom, Commit
    <2>2. Sound(r)
        BY <1>1, <1>2, <1>3, <1>5, JoinIsSound DEF Publishable
    <2> HIDE DEF r
    <2>3. IsRooms(rooms)' /\ IsMap(summaries, RoomIDs, Summaries)'
          /\ IsMap(memberships, Players, RoomIDs)'
        BY <1>3, <2>1, RoomsStayRooms, SyncedIsMap, PutIsMap DEF Base, TypeOK
    <2>4. IsMap(presence, Players, RoomIDs \cup {0})'
        BY <1>5, <2>1 DEF Base, TypeOK, IsMap, Online
    <2>5. TypeOK'
        BY <1>1, <2>3, <2>4 DEF Base, TypeOK
    <2>6. /\ DOMAIN rooms' = DOMAIN rooms
          /\ \A i \in DOMAIN rooms : rooms'[i] = IF i = id THEN r ELSE rooms[i]
        BY <2>1 DEF Base, TypeOK, IsRooms
    <2>7. /\ DOMAIN memberships' = DOMAIN memberships \cup {p} /\ memberships'[p] = id
          /\ \A q \in DOMAIN memberships : memberships'[q] = memberships[q]
        BY <1>1, <2>1 DEF Put
    <2>8. MembershipAgrees'
        BY <1>1, <1>3, <2>6, <2>7 DEF Base, MembershipAgrees, Live
    <2>9. RoomsSound'
        BY <2>2, <2>6 DEF Base, RoomsSound, Live
    <2> QED
        BY <2>5, <2>8, <2>9 DEF Base
<1>6. CASE ~(Publishable(r) /\ Online(p))
    <2>1. /\ rooms' = [rooms EXCEPT ![id] = rooms[id]]
          /\ summaries' \in {summaries, Synced(id, rooms[id])}
          /\ UNCHANGED <<memberships, presence>>
        BY <1>4, <1>6 DEF JoinRoom
    <2>2. rooms' = rooms
        BY <2>1 DEF Base, TypeOK, IsRooms
    <2>3. IsMap(summaries, RoomIDs, Summaries)'
        <3>1. IsMap(summaries, RoomIDs, Summaries)
              /\ IsMap(Synced(id, rooms[id]), RoomIDs, Summaries)
            BY <1>2, SyncedIsMap DEF Base, TypeOK
        <3> QED
            BY <2>1, <3>1
    <2> QED
        BY <1>1, <2>1, <2>2, <2>3, SameRooms DEF Base, TypeOK
<1> QED
    BY <1>5, <1>6

\* Both departures, LeaveRoom and the recovery path, keep the invariant.
LEMMA DepartureKeepsBase ==
    ASSUME Base, NEW p \in Players,
           LeaveRoom(p) \/ \E id \in RoomIDs : ReconcileRoomDeparture(p, id)
    PROVE  Base'
<1>1. CASE LeaveRoom(p)
    <2> DEFINE id == memberships[p]
    <2>1. id \in DOMAIN rooms /\ IsRoom(rooms[id]) /\ Sound(rooms[id]) /\ p \in Roster(rooms[id])
        BY <1>1, ActorIsMember DEF LeaveRoom, RoomOf
    <2>2. Depart(p, id, Leave(rooms[id], p))
        BY <1>1 DEF LeaveRoom, RoomOf
    <2>3. /\ IsRoom(Leave(rooms[id], p)) /\ Sound(Leave(rooms[id], p))
          /\ Roster(Leave(rooms[id], p)) = Roster(rooms[id]) \ {p}
        BY <2>1, LeaveIsRoom, LeaveIsSound, LeaveRoster
    <2> QED
        BY <2>1, <2>2, <2>3, DepartKeepsBase
<1>2. CASE \E id \in RoomIDs : ReconcileRoomDeparture(p, id)
    <2>1. PICK id \in RoomIDs : ReconcileRoomDeparture(p, id)
        BY <1>2
    <2>2. p \notin DOMAIN memberships
        <3> SUFFICES ASSUME p \in DOMAIN memberships PROVE FALSE
            OBVIOUS
        <3>1. memberships[p] \in DOMAIN rooms
            BY DEF Base, TypeOK, IsMap, MembershipAgrees, Live
        <3> QED
            BY <2>1, <3>1 DEF ReconcileRoomDeparture, InRoom
    <2>3. CASE id \in DOMAIN rooms
        <3>1. IsRoom(rooms[id]) /\ Sound(rooms[id]) /\ p \notin Roster(rooms[id])
            BY <2>2, <2>3 DEF Base, TypeOK, IsRooms, RoomsSound, MembershipAgrees, Live
        <3>2. Depart(p, id, rooms[id]) /\ Roster(rooms[id]) = Roster(rooms[id]) \ {p}
            BY <2>1, <2>3, <3>1 DEF ReconcileRoomDeparture
        <3> QED
            BY <2>2, <2>3, <3>1, <3>2, DepartKeepsBase
    <2>4. CASE id \notin DOMAIN rooms
        <3>1. UNCHANGED vars
            BY <2>1, <2>4 DEF ReconcileRoomDeparture
        <3> QED
            BY <3>1, SameRooms DEF vars, Base, TypeOK
    <2> QED
        BY <2>3, <2>4
<1> QED
    BY <1>1, <1>2

\* A change of the room of a member that keeps it a sound room with the same members,
\* and keeps its game unless it ends.
SoundChange(p) ==
    InRoom(p) /\ \E r : /\ IsRoom(r) /\ Sound(r) /\ Roster(r) = Roster(RoomOf(p))
                        /\ r.game \in {RoomOf(p).game, 0}
                        /\ MutateMemberRoom(p, r)

\* Such a change keeps the invariant.
LEMMA ChangeKeepsBase ==
    ASSUME Base, NEW p \in Players, SoundChange(p)
    PROVE  Base'
BY ActorIsMember, CommitKeepsBase DEF SoundChange, MutateMemberRoom, RoomOf, Base, TypeOK

\* Every operation of the preparation phase is such a change.
LEMMA PreparationIsChange ==
    ASSUME Base, NEW p \in Players,
           \/ \E ready \in BOOLEAN : ChangeReady(p, ready)
           \/ \E t \in Teams : SetMember(p, t)
           \/ \E seat \in Seats, locked \in BOOLEAN : ChangeSeatLocked(p, seat, locked)
           \/ \E f \in RuleChoices : UpdateRoomProperties(p, f)
           \/ \E s \in SettingChoices : UpdateMatchSettings(p, s)
    PROVE  SoundChange(p)
<1> DEFINE r == RoomOf(p)
<1>1. InRoom(p)
    BY DEF ChangeReady, SetMember, ChangeSeatLocked, UpdateRoomProperties, UpdateMatchSettings,
           Acts
<1>2. IsRoom(r) /\ Sound(r) /\ p \in Roster(r)
    BY <1>1, ActorIsMember
<1> HIDE DEF r
<1>a. ASSUME NEW s, IsRoom(s), Sound(s), Roster(s) = Roster(r), s.game = r.game,
             MutateMemberRoom(p, s)
      PROVE  SoundChange(p)
    BY <1>1, <1>a DEF SoundChange, r
<1>3. ASSUME NEW ready \in BOOLEAN, ChangeReady(p, ready) PROVE SoundChange(p)
    <2>1. MutateMemberRoom(p, SetReady(r, p, ready))
        BY <1>3 DEF ChangeReady, r
    <2>2. IsRoom(SetReady(r, p, ready)) /\ Sound(SetReady(r, p, ready))
        BY <1>2, <2>1, PreparationIsRoom, PreparationIsSound
    <2>3. Roster(SetReady(r, p, ready)) = Roster(r) /\ SetReady(r, p, ready).game = r.game
        BY <1>2, PreparationRosters, PreparationKeepsPhase
    <2> QED
        BY <1>a, <2>1, <2>2, <2>3
<1>4. ASSUME NEW t \in Teams, SetMember(p, t) PROVE SoundChange(p)
    <2>1. MutateMemberRoom(p, SetTeam(r, p, t))
        BY <1>4 DEF SetMember, r
    <2>2. IsRoom(SetTeam(r, p, t)) /\ Sound(SetTeam(r, p, t))
        BY <1>2, <2>1, PreparationIsRoom, PreparationIsSound
    <2>3. Roster(SetTeam(r, p, t)) = Roster(r) /\ SetTeam(r, p, t).game = r.game
        BY <1>2, PreparationRosters, PreparationKeepsPhase
    <2> QED
        BY <1>a, <2>1, <2>2, <2>3
<1>5. ASSUME NEW seat \in Seats, NEW locked \in BOOLEAN, ChangeSeatLocked(p, seat, locked)
      PROVE  SoundChange(p)
    <2>1. MutateMemberRoom(p, SetSeatLocked(r, seat, locked))
          /\ CanSetSeatLocked(r, p, seat, locked)
        BY <1>5 DEF ChangeSeatLocked, r
    <2>2. IsRoom(SetSeatLocked(r, seat, locked)) /\ Sound(SetSeatLocked(r, seat, locked))
        BY <1>2, <2>1, PreparationIsRoom, PreparationIsSound
    <2>3. Roster(SetSeatLocked(r, seat, locked)) = Roster(r) /\ SetSeatLocked(r, seat, locked).game = r.game
        BY <1>2, PreparationRosters, PreparationKeepsPhase
    <2> QED
        BY <1>a, <2>1, <2>2, <2>3
<1>6. ASSUME NEW f \in RuleChoices, UpdateRoomProperties(p, f) PROVE SoundChange(p)
    <2>1. MutateMemberRoom(p, UpdateProperties(r, f)) /\ f \in BOOLEAN
        BY <1>6, WorldAssumption DEF UpdateRoomProperties, r
    <2>2. IsRoom(UpdateProperties(r, f)) /\ Sound(UpdateProperties(r, f))
        BY <1>2, <2>1, PreparationIsRoom, PreparationIsSound
    <2>3. Roster(UpdateProperties(r, f)) = Roster(r) /\ UpdateProperties(r, f).game = r.game
        BY <1>2, PreparationRosters, PreparationKeepsPhase
    <2> QED
        BY <1>a, <2>1, <2>2, <2>3
<1>7. ASSUME NEW s \in SettingChoices, UpdateMatchSettings(p, s) PROVE SoundChange(p)
    <2>1. MutateMemberRoom(p, UpdateSettings(r, s)) /\ CanUpdateSettings(r, p, s)
          /\ s \in Settings
        BY <1>7, WorldAssumption DEF UpdateMatchSettings, r
    <2>2. IsRoom(UpdateSettings(r, s)) /\ Sound(UpdateSettings(r, s))
        BY <1>2, <2>1, PreparationIsRoom, PreparationIsSound
    <2>3. Roster(UpdateSettings(r, s)) = Roster(r) /\ UpdateSettings(r, s).game = r.game
        BY <1>2, PreparationRosters, PreparationKeepsPhase
    <2> QED
        BY <1>a, <2>1, <2>2, <2>3
<1> QED
    BY <1>3, <1>4, <1>5, <1>6, <1>7

\* Every chat-room operation is such a change.
LEMMA ChatIsChange ==
    ASSUME Base, NEW p \in Players, ChatNext(p)
    PROVE  SoundChange(p)
<1> DEFINE r == RoomOf(p)
<1>1. InRoom(p)
    BY DEF ChatNext, ChangeWeddingMode, ChangeChatBackground, ProposeWedding, ReplyWedding, Acts
<1>2. IsRoom(r) /\ Sound(r) /\ p \in Roster(r)
    BY <1>1, ActorIsMember
<1> HIDE DEF r
<1>a. ASSUME NEW s, IsRoom(s), Sound(s), Roster(s) = Roster(r), s.game = r.game,
             MutateMemberRoom(p, s)
      PROVE  SoundChange(p)
    BY <1>1, <1>a DEF SoundChange, r
<1>3. ASSUME NEW mode \in 0..1, ChangeWeddingMode(p, mode) PROVE SoundChange(p)
    <2>1. MutateMemberRoom(p, SetWeddingMode(r, mode)) /\ CanSetWeddingMode(r, p)
        BY <1>3 DEF ChangeWeddingMode, r
    <2>2. IsRoom(SetWeddingMode(r, mode)) /\ Sound(SetWeddingMode(r, mode))
        BY <1>2, <2>1, ChatIsRoom, ChatIsSound
    <2>3. Roster(SetWeddingMode(r, mode)) = Roster(r) /\ SetWeddingMode(r, mode).game = r.game
        BY <1>2, ChatRosters, PreparationKeepsPhase
    <2> QED
        BY <1>a, <2>1, <2>2, <2>3
<1>4. ASSUME NEW b \in Backgrounds, ChangeChatBackground(p, b) PROVE SoundChange(p)
    <2>1. MutateMemberRoom(p, SetChatBackground(r, b))
        BY <1>4 DEF ChangeChatBackground, r
    <2>2. IsRoom(SetChatBackground(r, b)) /\ Sound(SetChatBackground(r, b))
        BY <1>2, <2>1, ChatIsRoom, ChatIsSound
    <2>3. Roster(SetChatBackground(r, b)) = Roster(r) /\ SetChatBackground(r, b).game = r.game
        BY <1>2, ChatRosters, PreparationKeepsPhase
    <2> QED
        BY <1>a, <2>1, <2>2, <2>3
<1>5. ASSUME NEW q \in Players, NEW mode \in 0..1, ProposeWedding(p, q, mode) PROVE SoundChange(p)
    <2>1. MutateMemberRoom(p, StartWedding(r, p, q, mode)) /\ CanStartWedding(r, p, q)
        BY <1>5 DEF ProposeWedding, r
    <2>2. IsRoom(StartWedding(r, p, q, mode)) /\ Sound(StartWedding(r, p, q, mode))
        BY <1>2, <2>1, ChatIsRoom, ChatIsSound
    <2>3. Roster(StartWedding(r, p, q, mode)) = Roster(r) /\ StartWedding(r, p, q, mode).game = r.game
        BY <1>2, ChatRosters, PreparationKeepsPhase
    <2> QED
        BY <1>a, <2>1, <2>2, <2>3
<1>6. ASSUME NEW q \in Players, NEW accepted \in BOOLEAN, ReplyWedding(p, q, accepted)
      PROVE  SoundChange(p)
    <2>1. MutateMemberRoom(p, AnswerWedding(r, accepted)) /\ CanAnswerWedding(r, p, q)
        BY <1>6 DEF ReplyWedding, r
    <2>2. IsRoom(AnswerWedding(r, accepted)) /\ Sound(AnswerWedding(r, accepted))
        BY <1>2, <2>1, ChatIsRoom, ChatIsSound
    <2>3. Roster(AnswerWedding(r, accepted)) = Roster(r) /\ AnswerWedding(r, accepted).game = r.game
        BY <1>2, ChatRosters, PreparationKeepsPhase
    <2> QED
        BY <1>a, <2>1, <2>2, <2>3
<1> QED
    BY <1>3, <1>4, <1>5, <1>6 DEF ChatNext

\* A settlement and its end are such changes.
LEMMA SettlementIsChange ==
    ASSUME Base, NEW p \in Players,
           \E game \in 1..MaxGames : SettleMatch(p, game) \/ FinishSettlement(p, game)
    PROVE  SoundChange(p)
<1> DEFINE r == RoomOf(p)
<1>1. PICK game \in 1..MaxGames : SettleMatch(p, game) \/ FinishSettlement(p, game)
    OBVIOUS
<1>2. InRoom(p) /\ IsRoom(r) /\ Sound(r) /\ game \in Nat
    BY <1>1, ActorIsMember, WorldAssumption DEF SettleMatch, FinishSettlement, Acts
<1>3. BeginSettlement(r).game = r.game /\ CompleteMatch(r).game = 0
    BY <1>2, RoomFields DEF BeginSettlement, CompleteMatch
<1>4. CASE SettleMatch(p, game)
    <2>1. MutateMemberRoom(p, BeginSettlement(r)) /\ CanBeginSettlement(r, game)
        BY <1>4 DEF SettleMatch
    <2> QED
        BY <1>2, <1>3, <2>1, MatchIsRoom, MatchIsSound, MatchRosters DEF SoundChange
<1>5. CASE FinishSettlement(p, game)
    <2>1. MutateMemberRoom(p, CompleteMatch(r))
        BY <1>5 DEF FinishSettlement
    <2> QED
        BY <1>2, <1>3, <2>1, MatchIsRoom, MatchIsSound, MatchRosters DEF SoundChange
<1> QED
    BY <1>1, <1>4, <1>5

\* Every step of a match start, its rollback and a settlement keeps the invariant.
LEMMA MatchKeepsBase ==
    ASSUME Base, NEW p \in Players, MatchNext(p)
    PROVE  Base'
<1> DEFINE r == RoomOf(p)
           id == memberships[p]
<1>1. InRoom(p)
    BY DEF MatchNext, AllocateGameID, CommitStart, FinishStart, RollbackStart, SettleMatch,
           FinishSettlement, Acts, Starting
<1>2. id \in RoomIDs /\ id \in DOMAIN rooms /\ IsRoom(r) /\ Sound(r) /\ r = rooms[id]
    BY <1>1, ActorIsMember DEF RoomOf
<1>3. IsMap(starting, RoomIDs, 1..MaxGames) /\ nextGameID \in 0..MaxGames /\ MaxGames \in Nat
    BY WorldAssumption DEF Base, TypeOK
<1>4. IsMap(Drop(starting, id), RoomIDs, 1..MaxGames)
    BY <1>3, DropIsMap
<1>5. CASE AllocateGameID(p)
    <2>1. /\ nextGameID' = nextGameID + 1 /\ nextGameID' \in 1..MaxGames
          /\ starting' = Put(starting, id, nextGameID + 1)
          /\ UNCHANGED <<rooms, memberships, presence, summaries>>
        BY <1>3, <1>5 DEF AllocateGameID
    <2>2. IsMap(starting, RoomIDs, 1..MaxGames)'
        BY <1>2, <1>3, <2>1, PutIsMap
    <2>3. nextGameID' \in 0..MaxGames
        BY <1>3, <2>1
    <2> QED
        BY <2>1, <2>2, <2>3, SameRooms DEF Base, TypeOK
<1>6. ASSUME NEW options \in StartOptions, CommitStart(p, options) PROVE Base'
    <2>1. starting[id] \in Nat \ {0}
        BY <1>3, <1>6 DEF CommitStart, Starting, IsMap
    <2>2. /\ Commit(id, StartMatch(r, starting[id]))
          /\ UNCHANGED <<memberships, presence, nextGameID, starting>>
        BY <1>6 DEF CommitStart
    <2>3. /\ IsRoom(StartMatch(r, starting[id])) /\ Sound(StartMatch(r, starting[id]))
          /\ Roster(StartMatch(r, starting[id])) = Roster(rooms[id])
        BY <1>2, <2>1, MatchIsRoom, MatchIsSound, MatchRosters
    <2> QED
        BY <1>2, <1>3, <2>2, <2>3, CommitKeepsBase
<1>7. CASE FinishStart(p)
    <2>1. starting' = Drop(starting, id)
          /\ UNCHANGED <<rooms, memberships, presence, summaries, nextGameID>>
        BY <1>7 DEF FinishStart, EndStart
    <2> QED
        BY <1>4, <2>1, SameRooms DEF Base, TypeOK
<1>8. CASE RollbackStart(p)
    <2> DEFINE s == CompleteMatch(BeginSettlement(r))
    <2>1. /\ Commit(id, s) /\ starting' = Drop(starting, id)
          /\ UNCHANGED <<memberships, presence, nextGameID>>
          /\ CanBeginSettlement(r, starting[id])
        BY <1>8 DEF RollbackStart, EndStart
    <2>2. starting[id] \in Nat
        BY <1>3, <1>8 DEF RollbackStart, Starting, IsMap
    <2>3. IsRoom(BeginSettlement(r)) /\ Sound(BeginSettlement(r))
          /\ Roster(BeginSettlement(r)) = Roster(r)
        BY <1>2, <2>1, <2>2, MatchIsRoom, MatchIsSound, MatchRosters
    <2>4. IsRoom(s) /\ Sound(s) /\ Roster(s) = Roster(rooms[id])
        BY <1>2, <2>3, MatchIsRoom, MatchIsSound, MatchRosters
    <2> HIDE DEF s
    <2> QED
        BY <1>2, <1>3, <1>4, <2>1, <2>4, CommitKeepsBase
<1>9. CASE \E game \in 1..MaxGames : SettleMatch(p, game) \/ FinishSettlement(p, game)
    BY <1>9, SettlementIsChange, ChangeKeepsBase
<1> QED
    BY <1>5, <1>6, <1>7, <1>8, <1>9 DEF MatchNext

\* The invariant is inductive.
LEMMA StepKeepsBase ==
    ASSUME Base, [PruneNext]_vars
    PROVE  Base'
<1>1. CASE UNCHANGED vars
    BY <1>1, SameRooms DEF vars, Base, TypeOK
<1>2. ASSUME NEW p \in Players, LobbyNext(p) \/ PruneLobby(p) PROVE Base'
    BY <1>2, LobbyKeepsBase DEF LobbyNext, LeaveLobby, PruneLobby
<1>3. ASSUME NEW p \in Players, RoomNext(p) PROVE Base'
    <2>1. ASSUME NEW s \in SettingChoices, NEW f \in RuleChoices, CreateRoom(p, s, f)
          PROVE  Base'
        BY <2>1, CreateKeepsBase, WorldAssumption
    <2>2. ASSUME NEW id \in RoomIDs, JoinRoom(p, id, 1) PROVE Base'
        BY <2>2, JoinKeepsBase, RoomAssumption
    <2> QED
        BY <1>3, <2>1, <2>2, PreparationIsChange, ChangeKeepsBase DEF RoomNext
<1>4. ASSUME NEW p \in Players, DepartNext(p) PROVE Base'
    BY <1>4, DepartureKeepsBase DEF DepartNext
<1> QED
    BY <1>1, <1>2, <1>3, <1>4, ChatIsChange, ChangeKeepsBase, MatchKeepsBase DEF PruneNext, Next

-----------------------------------------------------------------------------
(* Theorems *)

\* Every step of the server is one of the server whose presences may vanish.
LEMMA SpecIsPruned == Spec => PruneSpec
<1>1. [Next]_vars => [PruneNext]_vars
    BY DEF PruneNext
<1> QED
    BY <1>1, PTL DEF Spec, PruneSpec

\* The inductive invariant holds of every state of the server, even when presences
\* vanish from the lobby at any moment.
THEOREM BaseHolds == PruneSpec => []Base
<1>1. Base /\ [PruneNext]_vars => Base'
    BY StepKeepsBase
<1> QED
    BY BaseInit, <1>1, PTL DEF PruneSpec

\* World's state keeps its type even when lobby presences vanish under players.
THEOREM TypeCorrect == PruneSpec => []TypeOK
<1>1. Base => TypeOK
    BY DEF Base
<1> QED
    BY BaseHolds, <1>1, PTL

\* The membership index and the member tables agree after every operation of
\* World, complete or failed half way, whatever happens to the presences.
THEOREM IndexAgrees == PruneSpec => []MembershipAgrees
<1>1. Base => MembershipAgrees
    BY DEF Base
<1> QED
    BY BaseHolds, <1>1, PTL

\* Seats, capacity, owner, phase and wedding of every room stay sound.
THEOREM RoomsStaySound == PruneSpec => []RoomsSound
<1>1. Base => RoomsSound
    BY DEF Base
<1> QED
    BY BaseHolds, <1>1, PTL

-----------------------------------------------------------------------------
(* The lobby: rooms, room list and presences agree while no presence vanishes *)

LobbyInv == Base /\ NoGhostRoom /\ LobbyAgrees /\ PresenceAgrees

\* A sound room with a member can always be published.
LEMMA SoundIsPublishable ==
    ASSUME NEW r, IsRoom(r), Sound(r), Roster(r) # {}
    PROVE  Publishable(r)
<1>1. r.owner \in Roster(r) /\ Roster(r) \subseteq Players
    BY DEF Sound, OwnerSound, IsRoom
<1>2. r.owner # Nobody
    BY <1>1, RoomAssumption DEF Nobody
<1>3. Population(r) \in Nat /\ Population(r) # 0 /\ Population(r) <= Capacity(r)
      /\ Capacity(r) \in 0..SeatCount
    BY RoomSizes DEF Sound, SeatsSound
<1> QED
    BY <1>2, <1>3, RoomAssumption DEF Publishable

\* The room list after a room with a member has been published to it.
LEMMA ListAfterSync ==
    ASSUME LobbyAgrees, NEW id, NEW r, IsRoom(r), Sound(r), Roster(r) # {}
    PROVE  Synced(id, r) = [i \in Live \cup {id} |-> IF i = id THEN Summary(r) ELSE Summary(rooms[i])]
<1>1. Synced(id, r) = Put(summaries, id, Summary(r))
    BY SoundIsPublishable DEF Synced
<1>2. DOMAIN summaries = Live /\ \A i \in Live : summaries[i] = Summary(rooms[i])
    BY DEF LobbyAgrees
<1> QED
    BY <1>1, <1>2 DEF Put

\* A change of a room that keeps its members is in the room list at once.
LEMMA CommitKeepsLobby ==
    ASSUME LobbyInv, Base', NEW id \in DOMAIN rooms, NEW r, IsRoom(r), Sound(r),
           Roster(r) # {}, Commit(id, r)
    PROVE  NoGhostRoom' /\ LobbyAgrees'
<1>1. /\ DOMAIN rooms' = DOMAIN rooms
      /\ \A i \in DOMAIN rooms : rooms'[i] = IF i = id THEN r ELSE rooms[i]
    BY DEF Commit, LobbyInv, Base, TypeOK, IsRooms
<1>2. NoGhostRoom'
    BY <1>1 DEF LobbyInv, NoGhostRoom, Live
<1>3. summaries' = [i \in Live \cup {id} |-> IF i = id THEN Summary(r) ELSE Summary(rooms[i])]
    <2>1. LobbyAgrees /\ summaries' = Synced(id, r)
        BY DEF LobbyInv, Commit
    <2>2. Synced(id, r) = [i \in Live \cup {id} |-> IF i = id THEN Summary(r) ELSE Summary(rooms[i])]
        BY <2>1, ListAfterSync
    <2> QED
        BY <2>1, <2>2
<1>4. LobbyAgrees'
    <2>1. Live' = Live \cup {id}
        BY <1>1 DEF Live
    <2>2. \A i \in Live' : Summary(rooms'[i]) = IF i = id THEN Summary(r) ELSE Summary(rooms[i])
        BY <1>1 DEF Live
    <2>3. summaries' = [i \in Live' |-> IF i = id THEN Summary(r) ELSE Summary(rooms[i])]
        BY <1>3, <2>1
    <2> QED
        BY <2>2, <2>3 DEF LobbyAgrees
<1> QED
    BY <1>2, <1>4

\* Steps that leave the rooms and their list alone.
LEMMA SameListing ==
    ASSUME LobbyInv, UNCHANGED <<rooms, summaries>>
    PROVE  NoGhostRoom' /\ LobbyAgrees'
BY DEF LobbyInv, NoGhostRoom, LobbyAgrees, Live

\* Steps that leave index and presences alone.
LEMMA SamePresences ==
    ASSUME LobbyInv, UNCHANGED <<memberships, presence>>
    PROVE  PresenceAgrees'
BY DEF LobbyInv, PresenceAgrees

\* A change of the room of a member.
LEMMA ChangeKeepsLobby ==
    ASSUME LobbyInv, Base', NEW p \in Players, SoundChange(p)
    PROVE  LobbyInv'
<1>1. PICK r : /\ IsRoom(r) /\ Sound(r) /\ Roster(r) = Roster(RoomOf(p)) /\ MutateMemberRoom(p, r)
    BY DEF SoundChange
<1>2. /\ memberships[p] \in DOMAIN rooms /\ Roster(RoomOf(p)) # {}
      /\ Commit(memberships[p], r) /\ UNCHANGED <<memberships, presence>>
    BY <1>1 DEF SoundChange, InRoom, MutateMemberRoom, LobbyInv, NoGhostRoom, Live, RoomOf
<1> QED
    BY <1>1, <1>2, CommitKeepsLobby, SamePresences DEF LobbyInv

\* A presence comes, or goes when its player is in no room.
LEMMA PresenceKeepsLobby ==
    ASSUME LobbyInv, Base', NEW p \in Players, LobbyNext(p)
    PROVE  LobbyInv'
<1>1. UNCHANGED <<rooms, memberships, summaries>>
    BY DEF LobbyNext, EnterLobby, LeaveLobby, RemovePresence
<1>2. CASE EnterLobby(p)
    <2>1. presence' = Put(presence, p, IF p \in DOMAIN memberships THEN memberships[p] ELSE 0)
        BY <1>2 DEF EnterLobby
    <2>2. PresenceAgrees'
        BY <1>1, <2>1 DEF LobbyInv, PresenceAgrees, Put
    <2> QED
        BY <1>1, <2>2, SameListing DEF LobbyInv
<1>3. CASE LeaveLobby(p)
    <2>1. p \notin DOMAIN memberships /\ presence' = Drop(presence, p)
        BY <1>3 DEF LeaveLobby, RemovePresence
    <2>2. PresenceAgrees'
        <3>1. /\ DOMAIN presence' = DOMAIN presence \ {p}
              /\ \A q \in DOMAIN presence' : presence'[q] = presence[q]
            <4>1. /\ DOMAIN Drop(presence, p) = DOMAIN presence \ {p}
                  /\ \A q \in DOMAIN presence \ {p} : Drop(presence, p)[q] = presence[q]
                BY DropValues
            <4> QED
                BY <2>1, <4>1
        <3> QED
            BY <1>1, <2>1, <3>1 DEF LobbyInv, PresenceAgrees
    <2> QED
        BY <1>1, <2>2, SameListing DEF LobbyInv
<1> QED
    BY <1>2, <1>3 DEF LobbyNext

\* A new room is listed, and its creator is shown in it.
LEMMA CreateKeepsLobby ==
    ASSUME LobbyInv, Base', NEW p \in Players, NEW s \in Settings, NEW f \in BOOLEAN,
           CreateRoom(p, s, f)
    PROVE  LobbyInv'
<1> DEFINE id == Min(RoomIDs \ DOMAIN rooms)
           r == NewRoom(p, s, f)
<1>1. id \in RoomIDs /\ id \notin DOMAIN rooms /\ p \notin DOMAIN memberships
    BY MinOfNaturals, WorldAssumption DEF CreateRoom
<1>2. IsRoom(r) /\ Sound(r) /\ Roster(r) = {p}
    BY NewRoomIsRoom, NewRoomIsSound DEF NewRoom, Roster
<1>3. CASE Online(p)
    <2>1. /\ rooms' = Put(rooms, id, r) /\ memberships' = Put(memberships, p, id)
          /\ summaries' = Synced(id, r) /\ presence' = [presence EXCEPT ![p] = id]
        BY <1>3 DEF CreateRoom
    <2> HIDE DEF id, r
    <2>2. /\ DOMAIN rooms' = DOMAIN rooms \cup {id}
          /\ \A i \in DOMAIN rooms' : rooms'[i] = IF i = id THEN r ELSE rooms[i]
        BY <2>1 DEF Put
    <2>3. NoGhostRoom'
        BY <1>2, <2>2 DEF LobbyInv, NoGhostRoom, Live
    <2>4. LobbyAgrees'
        <3>1. summaries' = [i \in Live' |-> IF i = id THEN Summary(r) ELSE Summary(rooms[i])]
            <4>1. LobbyAgrees /\ Live' = Live \cup {id} /\ Roster(r) # {}
                BY <1>2, <2>2 DEF LobbyInv, Live
            <4>2. Synced(id, r) = [i \in Live \cup {id} |-> IF i = id THEN Summary(r) ELSE Summary(rooms[i])]
                BY <1>2, <4>1, ListAfterSync
            <4> QED
                BY <2>1, <4>1, <4>2
        <3>2. \A i \in Live' : Summary(rooms'[i]) = IF i = id THEN Summary(r) ELSE Summary(rooms[i])
            BY <2>2 DEF Live
        <3> QED
            BY <3>1, <3>2 DEF LobbyAgrees
    <2>5. PresenceAgrees'
        <3>1. /\ DOMAIN memberships' = DOMAIN memberships \cup {p} /\ memberships'[p] = id
              /\ \A q \in DOMAIN memberships : q # p => memberships'[q] = memberships[q]
            BY <2>1 DEF Put
        <3>2. DOMAIN presence' = DOMAIN presence
              /\ \A q \in DOMAIN presence : presence'[q] = IF q = p THEN id ELSE presence[q]
            BY <2>1 DEF LobbyInv, Base, TypeOK, IsMap
        <3> QED
            BY <1>1, <1>3, <3>1, <3>2 DEF LobbyInv, PresenceAgrees, Online
    <2> QED
        BY <2>3, <2>4, <2>5 DEF LobbyInv
<1>4. CASE ~Online(p)
    <2>1. summaries' = Drop(summaries, id) /\ UNCHANGED <<rooms, memberships, presence>>
        BY <1>4 DEF CreateRoom
    <2>2. DOMAIN summaries = DOMAIN rooms /\ summaries = [i \in DOMAIN rooms |-> Summary(rooms[i])]
        BY DEF LobbyInv, LobbyAgrees, Live
    <2> HIDE DEF id
    <2>3. DOMAIN summaries' = DOMAIN rooms /\ \A i \in DOMAIN rooms : summaries'[i] = summaries[i]
        <3>1. /\ DOMAIN Drop(summaries, id) = DOMAIN summaries \ {id}
              /\ \A i \in DOMAIN summaries \ {id} : Drop(summaries, id)[i] = summaries[i]
            BY DropValues
        <3> QED
            BY <1>1, <2>1, <2>2, <3>1
    <2>4. summaries' = [i \in DOMAIN summaries' |-> summaries'[i]]
        BY <2>1 DEF Drop, Restrict
    <2>5. summaries' = summaries
        BY <2>2, <2>3, <2>4
    <2> QED
        BY <2>1, <2>5, SameListing, SamePresences DEF LobbyInv
<1> QED
    BY <1>3, <1>4

\* A join shows the newcomer everywhere, a refused one nowhere.
LEMMA JoinKeepsLobby ==
    ASSUME LobbyInv, Base', NEW p \in Players, NEW id \in RoomIDs, NEW team \in Teams,
           JoinRoom(p, id, team)
    PROVE  LobbyInv'
<1> DEFINE r == Join(rooms[id], p, team)
<1>1. /\ id \in DOMAIN rooms /\ p \notin DOMAIN memberships /\ CanJoin(rooms[id], p)
      /\ IsRoom(rooms[id]) /\ Sound(rooms[id]) /\ p \notin Roster(rooms[id])
      /\ Roster(rooms[id]) # {}
    BY DEF JoinRoom, CanJoin, LobbyInv, NoGhostRoom, Base, TypeOK, IsRooms, RoomsSound, Live
<1>2. IsRoom(r) /\ Sound(r) /\ Roster(r) # {}
    <2>1. rooms[id].owner # Nobody
        BY <1>1, SoundIsPublishable DEF Publishable
    <2> QED
        BY <1>1, <2>1, JoinIsRoom, JoinIsSound, JoinRoster DEF CanJoin
<1>3. CASE Online(p)
    <2>1. Publishable(r)
        BY <1>2, SoundIsPublishable
    <2>2. /\ Commit(id, r) /\ memberships' = Put(memberships, p, id)
          /\ presence' = [presence EXCEPT ![p] = id]
        BY <1>3, <2>1 DEF JoinRoom
    <2>3. PresenceAgrees'
        <3>1. /\ DOMAIN memberships' = DOMAIN memberships \cup {p} /\ memberships'[p] = id
              /\ \A q \in DOMAIN memberships : q # p => memberships'[q] = memberships[q]
            BY <2>2 DEF Put
        <3>2. DOMAIN presence' = DOMAIN presence
              /\ \A q \in DOMAIN presence : presence'[q] = IF q = p THEN id ELSE presence[q]
            BY <2>2 DEF LobbyInv, Base, TypeOK, IsMap
        <3> QED
            BY <1>1, <1>3, <3>1, <3>2 DEF LobbyInv, PresenceAgrees, Online
    <2> QED
        BY <1>1, <1>2, <2>2, <2>3, CommitKeepsLobby DEF LobbyInv
<1>4. CASE ~Online(p)
    <2>1. /\ \/ Commit(id, rooms[id])
             \/ UNCHANGED summaries /\ rooms' = [rooms EXCEPT ![id] = rooms[id]]
          /\ UNCHANGED <<memberships, presence>>
        BY <1>1, <1>4, JoinThenLeave DEF JoinRoom, Commit, LobbyInv
    <2>2. rooms' = rooms
        BY <2>1 DEF Commit, LobbyInv, Base, TypeOK, IsRooms
    <2> QED
        BY <1>1, <2>1, <2>2, CommitKeepsLobby, SameListing, SamePresences DEF LobbyInv
<1> QED
    BY <1>3, <1>4

\* A departure takes the player out of room, index, list and presence at once; the
\* recovery path finds nothing to repair.
LEMMA DepartKeepsLobby ==
    ASSUME LobbyInv, Base', NEW p \in Players, NEW id \in DOMAIN rooms, NEW r,
           IsRoom(r), Sound(r), p \notin DOMAIN memberships \/ Online(p),
           p \in DOMAIN memberships => memberships[p] = id,
           p \notin DOMAIN memberships => r = rooms[id],
           Depart(p, id, r)
    PROVE  LobbyInv'
<1>1. /\ DOMAIN memberships' = DOMAIN memberships \ {p}
      /\ \A q \in DOMAIN memberships \ {p} : memberships'[q] = memberships[q]
    BY DropValues DEF Depart
<1>2. CASE Online(p)
    <2>1. PresenceAgrees'
        <3>1. /\ DOMAIN presence' = DOMAIN presence
              /\ \A q \in DOMAIN presence : presence'[q] = IF q = p THEN 0 ELSE presence[q]
            BY <1>2 DEF Depart, LobbyInv, Base, TypeOK, IsMap
        <3> QED
            BY <1>1, <3>1 DEF LobbyInv, PresenceAgrees
    <2>2. CASE Roster(r) = {}
        <3>1. rooms' = Drop(rooms, id) /\ summaries' = Drop(summaries, id)
            BY <1>2, <2>2 DEF Depart
        <3>2. /\ Live' = Live \ {id} /\ \A i \in Live' : rooms'[i] = rooms[i]
              /\ DOMAIN summaries' = DOMAIN summaries \ {id}
              /\ \A i \in DOMAIN summaries' : summaries'[i] = summaries[i]
              /\ summaries' = [i \in DOMAIN summaries' |-> summaries'[i]]
            <4>1. summaries' = [i \in DOMAIN summaries' |-> summaries'[i]]
                BY <3>1 DEF Drop, Restrict
            <4>2. /\ DOMAIN Drop(summaries, id) = DOMAIN summaries \ {id}
                  /\ \A i \in DOMAIN summaries \ {id} : Drop(summaries, id)[i] = summaries[i]
                BY DropValues
            <4>3. /\ DOMAIN Drop(rooms, id) = DOMAIN rooms \ {id}
                  /\ \A i \in DOMAIN rooms \ {id} : Drop(rooms, id)[i] = rooms[i]
                BY DropValues
            <4> QED
                BY <3>1, <4>1, <4>2, <4>3 DEF Live
        <3>3. LobbyAgrees'
            <4>1. DOMAIN summaries = Live /\ \A i \in Live : summaries[i] = Summary(rooms[i])
                BY DEF LobbyInv, LobbyAgrees
            <4>2. DOMAIN summaries' = Live' /\ \A i \in Live' : summaries'[i] = Summary(rooms[i])
                BY <3>2, <4>1
            <4>3. \A i \in Live' : Summary(rooms'[i]) = Summary(rooms[i])
                BY <3>2
            <4> QED
                BY <3>2, <4>2, <4>3 DEF LobbyAgrees
        <3>4. NoGhostRoom'
            BY <3>2 DEF LobbyInv, NoGhostRoom
        <3> QED
            BY <2>1, <3>3, <3>4 DEF LobbyInv
    <2>3. CASE Roster(r) # {}
        BY <1>2, <2>1, <2>3, CommitKeepsLobby DEF Depart, LobbyInv
    <2> QED
        BY <2>2, <2>3
<1>3. CASE ~Online(p)
    <2>1. r = rooms[id] /\ p \notin DOMAIN memberships
        BY <1>3
    <2>2. rooms' = rooms /\ UNCHANGED <<presence, summaries>>
        BY <1>3, <2>1 DEF Depart, LobbyInv, Base, TypeOK, IsRooms
    <2>3. PresenceAgrees'
        BY <1>1, <2>1, <2>2 DEF LobbyInv, PresenceAgrees
    <2> QED
        BY <2>2, <2>3, SameListing DEF LobbyInv
<1> QED
    BY <1>2, <1>3

\* Both departures.
LEMMA DepartureKeepsLobby ==
    ASSUME LobbyInv, Base', NEW p \in Players, DepartNext(p)
    PROVE  LobbyInv'
<1>1. CASE LeaveRoom(p)
    <2> DEFINE id == memberships[p]
    <2>1. id \in DOMAIN rooms /\ IsRoom(rooms[id]) /\ Sound(rooms[id]) /\ p \in Roster(rooms[id])
          /\ p \in DOMAIN memberships /\ Online(p)
        BY <1>1, ActorIsMember DEF LeaveRoom, RoomOf, InRoom, LobbyInv, PresenceAgrees, Online
    <2>2. Depart(p, id, Leave(rooms[id], p))
        BY <1>1 DEF LeaveRoom, RoomOf
    <2>3. IsRoom(Leave(rooms[id], p)) /\ Sound(Leave(rooms[id], p))
        BY <2>1, LeaveIsRoom, LeaveIsSound
    <2> QED
        BY <2>1, <2>2, <2>3, DepartKeepsLobby
<1>2. ASSUME NEW id \in RoomIDs, ReconcileRoomDeparture(p, id) PROVE LobbyInv'
    <2>1. p \notin DOMAIN memberships
        BY <1>2 DEF ReconcileRoomDeparture, InRoom, LobbyInv, Base, TypeOK, IsMap, MembershipAgrees, Live
    <2>2. CASE id \in DOMAIN rooms
        <3>1. IsRoom(rooms[id]) /\ Sound(rooms[id]) /\ p \notin Roster(rooms[id])
            BY <2>1, <2>2 DEF LobbyInv, Base, TypeOK, IsRooms, RoomsSound, MembershipAgrees, Live
        <3>2. Depart(p, id, rooms[id])
            BY <1>2, <2>2, <3>1 DEF ReconcileRoomDeparture
        <3> QED
            BY <2>1, <2>2, <3>1, <3>2, DepartKeepsLobby
    <2>3. CASE id \notin DOMAIN rooms
        BY <1>2, <2>3, SameListing, SamePresences DEF ReconcileRoomDeparture, vars, LobbyInv
    <2> QED
        BY <2>2, <2>3
<1> QED
    BY <1>1, <1>2 DEF DepartNext

\* The steps of a start, its rollback and a settlement.
LEMMA MatchKeepsLobby ==
    ASSUME LobbyInv, Base', NEW p \in Players, MatchNext(p)
    PROVE  LobbyInv'
<1> DEFINE r == RoomOf(p)
           id == memberships[p]
<1>1. CASE AllocateGameID(p) \/ FinishStart(p)
    BY <1>1, SameListing, SamePresences DEF AllocateGameID, FinishStart, LobbyInv
<1>2. ASSUME NEW s, Commit(id, s), InRoom(p), IsRoom(s), Sound(s), Roster(s) = Roster(r),
             UNCHANGED <<memberships, presence>>
      PROVE  LobbyInv'
    <2>1. id \in DOMAIN rooms /\ Roster(r) # {}
        BY <1>2 DEF InRoom, RoomOf, LobbyInv, NoGhostRoom, Live
    <2> QED
        BY <1>2, <2>1, CommitKeepsLobby, SamePresences DEF LobbyInv
<1>3. CASE RollbackStart(p) \/ \E options \in StartOptions : CommitStart(p, options)
    <2>1. InRoom(p) /\ IsRoom(r) /\ Sound(r) /\ id \in DOMAIN starting /\ starting[id] \in Nat \ {0}
        BY <1>3, ActorIsMember, WorldAssumption
           DEF RollbackStart, CommitStart, Starting, LobbyInv, Base, TypeOK, IsMap
    <2>2. CASE RollbackStart(p)
        <3> DEFINE b == BeginSettlement(r)
        <3>1. IsRoom(b) /\ Sound(b) /\ Roster(b) = Roster(r)
            BY <2>1, <2>2, MatchIsRoom, MatchIsSound, MatchRosters DEF RollbackStart
        <3> HIDE DEF b
        <3>2. IsRoom(CompleteMatch(b)) /\ Sound(CompleteMatch(b)) /\ Roster(CompleteMatch(b)) = Roster(r)
            BY <3>1, MatchIsRoom, MatchIsSound, MatchRosters
        <3>3. Commit(id, CompleteMatch(b)) /\ UNCHANGED <<memberships, presence>>
            BY <2>2 DEF RollbackStart, b
        <3> QED
            BY <1>2, <2>1, <3>2, <3>3
    <2>3. CASE \E options \in StartOptions : CommitStart(p, options)
        <3> DEFINE m == StartMatch(r, starting[id])
        <3>1. IsRoom(m) /\ Sound(m) /\ Roster(m) = Roster(r)
            BY <2>1, MatchIsRoom, MatchIsSound, MatchRosters
        <3>2. Commit(id, m) /\ UNCHANGED <<memberships, presence>>
            BY <2>3 DEF CommitStart
        <3> QED
            BY <1>2, <2>1, <3>1, <3>2
    <2> QED
        BY <1>3, <2>2, <2>3
<1>4. CASE \E game \in 1..MaxGames : SettleMatch(p, game) \/ FinishSettlement(p, game)
    BY <1>4, SettlementIsChange, ChangeKeepsLobby DEF LobbyInv
<1> QED
    BY <1>1, <1>3, <1>4 DEF MatchNext

\* The lobby invariant is inductive as long as no presence vanishes under a player.
LEMMA StepKeepsLobby ==
    ASSUME LobbyInv, [Next]_vars
    PROVE  LobbyInv'
<1>1. Base /\ Base'
    BY StepKeepsBase DEF LobbyInv, PruneNext
<1>2. CASE UNCHANGED vars
    BY <1>1, <1>2, SameListing, SamePresences DEF vars, LobbyInv
<1>3. ASSUME NEW p \in Players, RoomNext(p) PROVE LobbyInv'
    <2>1. ASSUME NEW s \in SettingChoices, NEW f \in RuleChoices, CreateRoom(p, s, f)
          PROVE  LobbyInv'
        BY <1>1, <2>1, CreateKeepsLobby, WorldAssumption
    <2>2. ASSUME NEW id \in RoomIDs, JoinRoom(p, id, 1) PROVE LobbyInv'
        BY <1>1, <2>2, JoinKeepsLobby, RoomAssumption
    <2> QED
        BY <1>1, <1>3, <2>1, <2>2, PreparationIsChange, ChangeKeepsLobby DEF RoomNext
<1> QED
    BY <1>1, <1>2, <1>3, PresenceKeepsLobby, DepartureKeepsLobby, ChatIsChange, ChangeKeepsLobby,
       MatchKeepsLobby DEF Next

\* The lobby invariant holds in every state of a server whose players leave their
\* room before the lobby.
THEOREM LobbyHolds == Spec => []LobbyInv
<1>1. Init => LobbyInv
    <2> SUFFICES ASSUME Init PROVE LobbyInv
        OBVIOUS
    <2>1. rooms = Empty /\ memberships = Empty /\ presence = Empty /\ summaries = Empty
          /\ DOMAIN Empty = {} /\ Empty = [x \in {} |-> x]
        BY DEF Init, Empty
    <2>2. NoGhostRoom /\ PresenceAgrees
        BY <2>1 DEF NoGhostRoom, PresenceAgrees, Live
    <2>3. LobbyAgrees
        BY <2>1 DEF LobbyAgrees, Live
    <2> QED
        BY <2>2, <2>3, BaseInit DEF LobbyInv
<1>2. LobbyInv /\ [Next]_vars => LobbyInv'
    BY StepKeepsLobby
<1> QED
    BY <1>1, <1>2, PTL DEF Spec

\* No room is ever left without members, and none is lost to its players.
THEOREM NoRoomIsLost == Spec => []NoGhostRoom
<1>1. LobbyInv => NoGhostRoom
    BY DEF LobbyInv
<1> QED
    BY LobbyHolds, <1>1, PTL

\* The room list that every client sees is the projection of the rooms after every
\* operation, those that fail half way included.
THEOREM RoomListIsTrue == Spec => []LobbyAgrees
<1>1. LobbyInv => LobbyAgrees
    BY DEF LobbyInv
<1> QED
    BY LobbyHolds, <1>1, PTL

\* Every player in a room is online and shown in it; every other in the lobby.
THEOREM PresencesAreTrue == Spec => []PresenceAgrees
<1>1. LobbyInv => PresenceAgrees
    BY DEF LobbyInv
<1> QED
    BY LobbyHolds, <1>1, PTL
=============================================================================
