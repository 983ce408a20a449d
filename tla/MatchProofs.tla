----------------------------- MODULE MatchProofs ----------------------------
(***************************************************************************)
(* Theorems about the steps of World.tla: what becomes of a room while it  *)
(* has a match.  They rest on the invariant Base of WorldProofs.tla.       *)
(***************************************************************************)
EXTENDS WorldProofs

-----------------------------------------------------------------------------
(* One room *)

\* What one step may do to a wedding.
Bound(w) == w.pending \/ w.active
PairKept(v, w) ==
    /\ w.active /\ ~v.active => v.pending
    /\ Bound(v) /\ Bound(w) => <<w.initiator, w.target>> = <<v.initiator, v.target>>

\* What one step may do to a room that has a match, or a wedding.
KeepsMatch(r, s) == KeepsRoster(r, s) /\ KeepsLife(r, s) /\ PairKept(r.wedding, s.wedding)

\* A step that leaves phase and game alone, and the members who stay as they were.
Quiet(r, s) ==
    /\ s.phase = r.phase /\ s.game = r.game
    /\ Roster(s) \subseteq Roster(r) /\ \A p \in Roster(s) : s.members[p] = r.members[p]
    /\ <<s.settings, s.freeRule, s.locked>> = <<r.settings, r.freeRule, r.locked>>
    /\ PairKept(r.wedding, s.wedding)

\* A quiet step keeps the match.
LEMMA QuietKeepsMatch ==
    ASSUME NEW r, NEW s, Quiet(r, s), r.phase \in Phases
    PROVE  KeepsMatch(r, s)
BY DEF Quiet, KeepsMatch, KeepsRoster, KeepsLife, Phases

\* While a room is preparing there is no match to keep.
LEMMA PreparingKeepsMatch ==
    ASSUME NEW r, NEW s, Sound(r), r.phase = "preparing", s.phase = "preparing", s.game = r.game,
           PairKept(r.wedding, s.wedding)
    PROVE  KeepsMatch(r, s)
BY DEF Sound, OwnerSound, KeepsMatch, KeepsRoster, KeepsLife

\* The same wedding, and none, keep the pair.
LEMMA SamePair ==
    /\ \A v : PairKept(v, v)
    /\ \A v, mode : PairKept(v, NoWedding(mode))
BY DEF PairKept, Bound, NoWedding

\* Before a match, only the owner of a chat room touches the wedding, and never
\* the pair of a proposal that is not settled.
LEMMA PreparationKeepsPair ==
    ASSUME NEW r, IsRoom(r)
    PROVE  /\ \A p, team : PairKept(r.wedding, Join(r, p, team).wedding)
           /\ \A p, ready : PairKept(r.wedding, SetReady(r, p, ready).wedding)
           /\ \A p, team : PairKept(r.wedding, SetTeam(r, p, team).wedding)
           /\ \A seat, locked : PairKept(r.wedding, SetSeatLocked(r, seat, locked).wedding)
           /\ \A f : PairKept(r.wedding, UpdateProperties(r, f).wedding)
           /\ \A s : PairKept(r.wedding, UpdateSettings(r, s).wedding)
           /\ \A mode : PairKept(r.wedding, SetWeddingMode(r, mode).wedding)
           /\ \A b : PairKept(r.wedding, SetChatBackground(r, b).wedding)
           /\ \A p, q, mode : WeddingFree(r)
                                => PairKept(r.wedding, StartWedding(r, p, q, mode).wedding)
<1>1. /\ \A p, team : Join(r, p, team).wedding = r.wedding
      /\ \A p, ready : SetReady(r, p, ready).wedding = r.wedding
      /\ \A p, team : SetTeam(r, p, team).wedding = r.wedding
      /\ \A seat, locked : SetSeatLocked(r, seat, locked).wedding = r.wedding
      /\ \A f : UpdateProperties(r, f).wedding = r.wedding
      /\ \A s : UpdateSettings(r, s).wedding = r.wedding
      /\ \A b : SetChatBackground(r, b).wedding = r.wedding
    BY RoomFields DEF Join, SetReady, SetTeam, SetSeatLocked, UpdateProperties, UpdateSettings,
                      SetChatBackground
<1>2. r.wedding \in Weddings
    BY RoomFields
<1>3. \A mode : PairKept(r.wedding, SetWeddingMode(r, mode).wedding)
    BY <1>2, RoomFields DEF SetWeddingMode, PairKept, Bound, Weddings
<1>4. \A p, q, mode : WeddingFree(r) => PairKept(r.wedding, StartWedding(r, p, q, mode).wedding)
    BY <1>2, RoomFields DEF StartWedding, PairKept, Bound, Weddings, WeddingFree
<1> QED
    BY <1>1, <1>3, <1>4, SamePair

\* A departure takes one member and leaves the others as they were.
LEMMA LeaveIsQuiet ==
    ASSUME NEW r, IsRoom(r), NEW p
    PROVE  Quiet(r, Leave(r, p))
<1>1. Leave(r, p).members = Drop(r.members, p)
    BY RoomFields DEF Leave
<1>2. /\ Leave(r, p).phase = r.phase /\ Leave(r, p).game = r.game
      /\ Leave(r, p).settings = r.settings /\ Leave(r, p).freeRule = r.freeRule
      /\ Leave(r, p).locked = r.locked
    BY RoomFields DEF Leave
<1>3. /\ DOMAIN Leave(r, p).members \subseteq DOMAIN r.members
      /\ \A q \in DOMAIN Leave(r, p).members : Leave(r, p).members[q] = r.members[q]
    <2> DEFINE old == r.members
               new == Leave(r, p).members
    <2> HIDE DEF old, new
    <2>1. new = Drop(old, p)
        BY <1>1 DEF old, new
    <2>2. DOMAIN new = DOMAIN old \ {p} /\ \A q \in DOMAIN old \ {p} : new[q] = old[q]
        BY <2>1, DropValues
    <2> QED
        BY <2>2 DEF old, new
<1>4. Leave(r, p).wedding \in {r.wedding, NoWedding(r.wedding.mode)}
    BY RoomFields DEF Leave
<1>5. PairKept(r.wedding, Leave(r, p).wedding)
    BY <1>4, SamePair
<1> QED
    BY <1>2, <1>3, <1>5 DEF Quiet, Roster

\* The answer to a pending proposal, which no phase forbids, changes the wedding
\* only, and only from proposed to running or to none.
LEMMA AnswerIsQuiet ==
    ASSUME NEW r, IsRoom(r), r.wedding.pending, NEW accepted
    PROVE  Quiet(r, AnswerWedding(r, accepted))
<1>1. r.wedding \in Weddings
    BY RoomFields
<1>2. PairKept(r.wedding, AnswerWedding(r, accepted).wedding)
    BY <1>1, RoomFields DEF AnswerWedding, PairKept, Bound, NoWedding, Weddings
<1> QED
    BY <1>2, RoomFields DEF Quiet, AnswerWedding, Roster

\* The steps of a match: a start needs a room without a game, the settlement keeps
\* everything but the phase, and the end keeps the members, who are unready.
LEMMA MatchStepsKeepMatch ==
    ASSUME NEW r, IsRoom(r), Sound(r)
    PROVE  /\ \A game \in Nat \ {0} : r.game = 0 => KeepsMatch(r, StartMatch(r, game))
           /\ r.phase = "inMatch" => KeepsMatch(r, BeginSettlement(r))
           /\ KeepsMatch(r, CompleteMatch(r))
           /\ KeepsMatch(r, CompleteMatch(BeginSettlement(r)))
<1> USE SamePair
<1>1. r.game = 0 <=> r.phase = "preparing"
    BY DEF Sound, OwnerSound
<1>2. ASSUME NEW game \in Nat \ {0}, r.game = 0 PROVE KeepsMatch(r, StartMatch(r, game))
    <2>1. StartMatch(r, game).phase = "inMatch" /\ StartMatch(r, game).game = game
         /\ StartMatch(r, game).wedding = r.wedding
        BY RoomFields DEF StartMatch
    <2> QED
        BY <1>1, <1>2, <2>1 DEF KeepsMatch, KeepsRoster, KeepsLife
<1>3. ASSUME r.phase = "inMatch" PROVE KeepsMatch(r, BeginSettlement(r))
    <2>1. /\ BeginSettlement(r).phase = "settling"
          /\ BeginSettlement(r).game = r.game /\ BeginSettlement(r).members = r.members
          /\ BeginSettlement(r).settings = r.settings /\ BeginSettlement(r).freeRule = r.freeRule
          /\ BeginSettlement(r).locked = r.locked /\ BeginSettlement(r).wedding = r.wedding
        BY RoomFields DEF BeginSettlement
    <2> QED
        BY <1>1, <1>3, <2>1 DEF KeepsMatch, KeepsRoster, KeepsLife, Roster
<1>4. ASSUME NEW s, IsRoom(s), s.members = r.members, s.wedding = r.wedding
      PROVE  KeepsMatch(r, CompleteMatch(s))
    <2>1. /\ CompleteMatch(s).phase = "preparing" /\ CompleteMatch(s).game = 0
          /\ CompleteMatch(s).wedding = r.wedding
          /\ CompleteMatch(s).members = [p \in Roster(s) |-> [s.members[p] EXCEPT !.ready = FALSE]]
        BY <1>4, RoomFields DEF CompleteMatch
    <2>2. Roster(CompleteMatch(s)) = Roster(r)
        BY <1>4, <2>1 DEF Roster
    <2>3. \A p \in Roster(s) : s.members[p] \in Member
        BY <1>4, RoomFields DEF IsMap, Roster
    <2>4. \A p \in Roster(CompleteMatch(s)) : ~CompleteMatch(s).members[p].ready
        BY <1>4, <2>1, <2>3 DEF Roster, Member
    <2> QED
        BY <1>1, <2>1, <2>2, <2>4 DEF KeepsMatch, KeepsRoster, KeepsLife
<1>5. /\ IsRoom(BeginSettlement(r)) /\ BeginSettlement(r).members = r.members
      /\ BeginSettlement(r).wedding = r.wedding
    BY RoomFields DEF BeginSettlement, Phases
<1> QED
    BY <1>2, <1>3, <1>4, <1>5

-----------------------------------------------------------------------------
(* The rooms *)

RoomsKeepMatch == \A id \in Live \cap DOMAIN rooms' : KeepsMatch(rooms[id], rooms'[id])

\* A room keeps the match it has when it stays as it is.
LEMMA SameRoomKeepsMatch ==
    ASSUME Base, NEW id \in DOMAIN rooms
    PROVE  KeepsMatch(rooms[id], rooms[id])
<1>1. IsRoom(rooms[id])
    BY DEF Base, TypeOK, IsRooms
<1>2. rooms[id].phase \in Phases
    BY <1>1, RoomFields
<1> QED
    BY <1>2, SamePair, QuietKeepsMatch DEF Quiet

\* Steps that change no room.
LEMMA StillRoomsKeepMatch == ASSUME Base, rooms' = rooms PROVE RoomsKeepMatch
BY SameRoomKeepsMatch DEF RoomsKeepMatch, Live

\* Steps that change one room.
LEMMA OneRoomKeepsMatch ==
    ASSUME Base, NEW id \in DOMAIN rooms, NEW s, KeepsMatch(rooms[id], s),
           rooms' = [rooms EXCEPT ![id] = s]
    PROVE  RoomsKeepMatch
<1>1. /\ DOMAIN rooms' = DOMAIN rooms
      /\ \A i \in DOMAIN rooms : rooms'[i] = IF i = id THEN s ELSE rooms[i]
    BY DEF Base, TypeOK, IsRooms
<1> QED
    BY <1>1, SameRoomKeepsMatch DEF RoomsKeepMatch, Live

\* Steps that end a room.
LEMMA EndedRoomKeepsMatch ==
    ASSUME Base, NEW id, rooms' = Drop(rooms, id)
    PROVE  RoomsKeepMatch
<1>1. \A i \in DOMAIN rooms \ {id} : rooms'[i] = rooms[i]
    BY DropValues
<1>2. DOMAIN rooms' = DOMAIN rooms \ {id}
    BY DropValues
<1> QED
    BY <1>1, <1>2, SameRoomKeepsMatch DEF RoomsKeepMatch, Live

\* A new room has no match, and the others stay.
LEMMA CreateKeepsMatch ==
    ASSUME Base, NEW p \in Players, NEW s, NEW f, CreateRoom(p, s, f)
    PROVE  RoomsKeepMatch
<1> DEFINE id == Min(RoomIDs \ DOMAIN rooms)
           r == NewRoom(p, s, f)
<1>1. id \notin DOMAIN rooms
    BY MinOfNaturals, WorldAssumption DEF CreateRoom
<1>2. CASE Online(p)
    <2>1. rooms' = Put(rooms, id, r)
        BY <1>2 DEF CreateRoom
    <2> HIDE DEF id, r
    <2>2. \A i \in DOMAIN rooms : rooms'[i] = rooms[i]
        BY <1>1, <2>1 DEF Put
    <2> QED
        BY <2>2, SameRoomKeepsMatch DEF RoomsKeepMatch, Live
<1>3. CASE ~Online(p)
    BY <1>3, StillRoomsKeepMatch DEF CreateRoom
<1> QED
    BY <1>2, <1>3

\* Nobody joins while there is a match, and a refused join leaves no trace.
LEMMA JoinKeepsMatch ==
    ASSUME Base, NEW p \in Players, NEW id \in RoomIDs, NEW team \in Teams, JoinRoom(p, id, team)
    PROVE  RoomsKeepMatch
<1> DEFINE r == Join(rooms[id], p, team)
<1>1. /\ id \in DOMAIN rooms /\ rooms[id].phase = "preparing" /\ p \notin Roster(rooms[id])
      /\ IsRoom(rooms[id]) /\ Sound(rooms[id])
    BY DEF JoinRoom, CanJoin, Base, TypeOK, IsRooms, RoomsSound, Live
<1>2. KeepsMatch(rooms[id], r)
    <2>1. /\ r.phase = rooms[id].phase /\ r.game = rooms[id].game
          /\ PairKept(rooms[id].wedding, r.wedding)
        BY <1>1, PreparationKeepsPhase, PreparationKeepsPair
    <2> QED
        BY <1>1, <2>1, PreparingKeepsMatch
<1>3. Leave(r, p) = rooms[id]
    BY <1>1, JoinThenLeave
<1>4. CASE Publishable(r) /\ Online(p)
    <2>1. rooms' = [rooms EXCEPT ![id] = r]
        BY <1>4 DEF JoinRoom, Commit
    <2> QED
        BY <1>1, <1>2, <2>1, OneRoomKeepsMatch
<1>5. CASE ~(Publishable(r) /\ Online(p))
    <2>1. rooms' = [rooms EXCEPT ![id] = rooms[id]]
        BY <1>3, <1>5 DEF JoinRoom
    <2> QED
        BY <1>1, <2>1, SameRoomKeepsMatch, OneRoomKeepsMatch
<1> QED
    BY <1>4, <1>5

\* A departure, complete or failed half way, takes its player and nothing else.
LEMMA DepartureKeepsMatch ==
    ASSUME Base, NEW p \in Players, NEW id \in DOMAIN rooms, NEW r,
           r = rooms[id] \/ r = Leave(rooms[id], p), Depart(p, id, r)
    PROVE  RoomsKeepMatch
<1>1. IsRoom(rooms[id])
    BY DEF Base, TypeOK, IsRooms
<1>2. KeepsMatch(rooms[id], r)
    <2>1. rooms[id].phase \in Phases
        BY <1>1, RoomFields
    <2>2. CASE r = rooms[id]
        BY <2>2, SameRoomKeepsMatch
    <2>3. CASE r = Leave(rooms[id], p)
        BY <1>1, <2>1, <2>3, LeaveIsQuiet, QuietKeepsMatch
    <2> QED
        BY <2>2, <2>3
<1>3. rooms' = Drop(rooms, id) \/ rooms' = [rooms EXCEPT ![id] = r]
    BY DEF Depart, Commit
<1> QED
    BY <1>2, <1>3, EndedRoomKeepsMatch, OneRoomKeepsMatch

\* MutateMemberRoom with an operation that keeps the match.
LEMMA MutateKeepsMatch ==
    ASSUME Base, NEW p \in Players, InRoom(p), NEW r, KeepsMatch(RoomOf(p), r),
           MutateMemberRoom(p, r)
    PROVE  RoomsKeepMatch
BY OneRoomKeepsMatch DEF MutateMemberRoom, Commit, RoomOf, InRoom

\* Every operation of the preparation phase, in chat rooms too.
LEMMA PreparationKeepsMatch ==
    ASSUME Base, NEW p \in Players,
           \/ \E ready \in BOOLEAN : ChangeReady(p, ready)
           \/ \E t \in Teams : SetMember(p, t)
           \/ \E seat \in Seats, locked \in BOOLEAN : ChangeSeatLocked(p, seat, locked)
           \/ \E f \in RuleChoices : UpdateRoomProperties(p, f)
           \/ \E s \in SettingChoices : UpdateMatchSettings(p, s)
           \/ ChatNext(p)
    PROVE  RoomsKeepMatch
<1> DEFINE r == RoomOf(p)
<1>1. InRoom(p)
    BY DEF ChangeReady, SetMember, ChangeSeatLocked, UpdateRoomProperties, UpdateMatchSettings,
           ChatNext, ChangeWeddingMode, ChangeChatBackground, ProposeWedding, ReplyWedding, Acts
<1>2. IsRoom(r) /\ Sound(r) /\ r.phase \in Phases
    BY <1>1, ActorIsMember, RoomFields
<1>3. ASSUME NEW s, s.phase = r.phase, s.game = r.game, r.phase = "preparing",
             PairKept(r.wedding, s.wedding), MutateMemberRoom(p, s)
      PROVE  RoomsKeepMatch
    BY <1>1, <1>2, <1>3, PreparingKeepsMatch, MutateKeepsMatch
<1>4. CASE \E ready \in BOOLEAN : ChangeReady(p, ready)
    BY <1>2, <1>3, <1>4, PreparationKeepsPhase, PreparationKeepsPair DEF ChangeReady, CanUpdateMember
<1>5. CASE \E t \in Teams : SetMember(p, t)
    BY <1>2, <1>3, <1>5, PreparationKeepsPhase, PreparationKeepsPair DEF SetMember, CanUpdateMember
<1>6. CASE \E seat \in Seats, locked \in BOOLEAN : ChangeSeatLocked(p, seat, locked)
    BY <1>2, <1>3, <1>6, PreparationKeepsPhase, PreparationKeepsPair DEF ChangeSeatLocked, CanSetSeatLocked, OwnerActs
<1>7. CASE \E f \in RuleChoices : UpdateRoomProperties(p, f)
    BY <1>2, <1>3, <1>7, PreparationKeepsPhase, PreparationKeepsPair DEF UpdateRoomProperties, OwnerActs
<1>8. CASE \E s \in SettingChoices : UpdateMatchSettings(p, s)
    BY <1>2, <1>3, <1>8, PreparationKeepsPhase, PreparationKeepsPair DEF UpdateMatchSettings, CanUpdateSettings, OwnerActs
<1>9. CASE \E mode \in 0..1 : ChangeWeddingMode(p, mode)
    BY <1>2, <1>3, <1>9, PreparationKeepsPhase, PreparationKeepsPair
       DEF ChangeWeddingMode, CanSetWeddingMode, ChatOwnerActs, OwnerActs
<1>10. CASE \E b \in Backgrounds : ChangeChatBackground(p, b)
    BY <1>2, <1>3, <1>10, PreparationKeepsPhase, PreparationKeepsPair DEF ChangeChatBackground, ChatOwnerActs, OwnerActs
<1>11. CASE \E q \in Players, mode \in 0..1 : ProposeWedding(p, q, mode)
    BY <1>2, <1>3, <1>11, PreparationKeepsPhase, PreparationKeepsPair
       DEF ProposeWedding, CanStartWedding, ChatOwnerActs, OwnerActs
<1>12. CASE \E q \in Players, accepted \in BOOLEAN : ReplyWedding(p, q, accepted)
    <2>1. PICK q \in Players, accepted \in BOOLEAN : ReplyWedding(p, q, accepted)
        BY <1>12
    <2>2. MutateMemberRoom(p, AnswerWedding(r, accepted)) /\ r.wedding.pending
        BY <2>1 DEF ReplyWedding, CanAnswerWedding
    <2>3. KeepsMatch(r, AnswerWedding(r, accepted))
        BY <1>2, <2>2, AnswerIsQuiet, QuietKeepsMatch
    <2> QED
        BY <1>1, <2>2, <2>3, MutateKeepsMatch
<1> QED
    BY <1>4, <1>5, <1>6, <1>7, <1>8, <1>9, <1>10, <1>11, <1>12 DEF ChatNext

\* The steps of a start, its rollback and a settlement.
LEMMA MatchActionsKeepMatch ==
    ASSUME Base, NEW p \in Players, MatchNext(p)
    PROVE  RoomsKeepMatch
<1> DEFINE r == RoomOf(p)
           id == memberships[p]
<1>1. InRoom(p)
    BY DEF MatchNext, AllocateGameID, CommitStart, FinishStart, RollbackStart, SettleMatch,
           FinishSettlement, Acts, Starting
<1>2. IsRoom(r) /\ Sound(r) /\ id \in RoomIDs /\ id \in DOMAIN rooms /\ r = rooms[id]
    BY <1>1, ActorIsMember DEF RoomOf
<1>3. CASE AllocateGameID(p) \/ FinishStart(p)
    BY <1>3, StillRoomsKeepMatch DEF AllocateGameID, FinishStart
<1>4. CASE \E options \in StartOptions : CommitStart(p, options)
    <2>1. starting[id] \in Nat \ {0}
        BY <1>4, WorldAssumption DEF CommitStart, Starting, IsMap, Base, TypeOK
    <2>2. r.game = 0 /\ rooms' = [rooms EXCEPT ![id] = StartMatch(r, starting[id])]
        BY <1>4 DEF CommitStart, ValidateStart, Commit
    <2> QED
        BY <1>2, <2>1, <2>2, MatchStepsKeepMatch, OneRoomKeepsMatch
<1>5. CASE RollbackStart(p)
    <2>1. rooms' = [rooms EXCEPT ![id] = CompleteMatch(BeginSettlement(r))]
        BY <1>5 DEF RollbackStart, Commit
    <2> QED
        BY <1>2, <2>1, MatchStepsKeepMatch, OneRoomKeepsMatch
<1>6. CASE \E game \in 1..MaxGames : SettleMatch(p, game)
    <2>1. MutateMemberRoom(p, BeginSettlement(r)) /\ r.phase = "inMatch"
        BY <1>6 DEF SettleMatch, CanBeginSettlement
    <2> QED
        BY <1>1, <1>2, <2>1, MatchStepsKeepMatch, MutateKeepsMatch
<1>7. CASE \E game \in 1..MaxGames : FinishSettlement(p, game)
    <2>1. MutateMemberRoom(p, CompleteMatch(r))
        BY <1>7 DEF FinishSettlement
    <2> QED
        BY <1>1, <1>2, <2>1, MatchStepsKeepMatch, MutateKeepsMatch
<1> QED
    BY <1>3, <1>4, <1>5, <1>6, <1>7 DEF MatchNext

\* Every step of the server keeps the matches of its rooms.
LEMMA StepKeepsMatch ==
    ASSUME Base, [PruneNext]_vars
    PROVE  RoomsKeepMatch
<1>1. CASE UNCHANGED vars
    BY <1>1, StillRoomsKeepMatch DEF vars
<1>2. ASSUME NEW p \in Players, LobbyNext(p) \/ PruneLobby(p) PROVE RoomsKeepMatch
    BY <1>2, StillRoomsKeepMatch DEF LobbyNext, EnterLobby, LeaveLobby, PruneLobby, RemovePresence
<1>3. ASSUME NEW p \in Players, RoomNext(p) PROVE RoomsKeepMatch
    <2>1. ASSUME NEW s \in SettingChoices, NEW f \in RuleChoices, CreateRoom(p, s, f)
          PROVE  RoomsKeepMatch
        BY <2>1, CreateKeepsMatch
    <2>2. ASSUME NEW id \in RoomIDs, JoinRoom(p, id, 1) PROVE RoomsKeepMatch
        BY <2>2, JoinKeepsMatch, RoomAssumption
    <2> QED
        BY <1>3, <2>1, <2>2, PreparationKeepsMatch DEF RoomNext
<1>4. ASSUME NEW p \in Players, LeaveRoom(p) PROVE RoomsKeepMatch
    BY <1>4, DepartureKeepsMatch DEF LeaveRoom, InRoom, RoomOf
<1>5. ASSUME NEW p \in Players, NEW id \in RoomIDs, ReconcileRoomDeparture(p, id)
      PROVE  RoomsKeepMatch
    <2>1. CASE id \in DOMAIN rooms
        BY <1>5, <2>1, DepartureKeepsMatch DEF ReconcileRoomDeparture
    <2>2. CASE id \notin DOMAIN rooms
        BY <1>5, <2>2, StillRoomsKeepMatch DEF ReconcileRoomDeparture, vars
    <2> QED
        BY <2>1, <2>2
<1> QED
    BY <1>1, <1>2, <1>3, <1>4, <1>5, PreparationKeepsMatch, MatchActionsKeepMatch
    DEF PruneNext, Next, DepartNext

-----------------------------------------------------------------------------
(* Game IDs *)

\* Every game ID in use has been allocated, and a start that is under way has its
\* room, which plays no other game meanwhile: that is what keeps a second ID off
\* the room while the first is only reserved.
GamesKnown == \A id \in RoomIDs : GameOf(id) <= nextGameID
StartsKnown == \A id \in DOMAIN starting : id \in Live /\ rooms[id].game \in {0, starting[id]}
GamesInv == Base /\ GamesDistinct /\ GamesKnown /\ StartsKnown

\* Game IDs are numbers.
LEMMA GameNumbers ==
    ASSUME Base
    PROVE  /\ \A id \in DOMAIN rooms : id \in RoomIDs /\ rooms[id].game \in Nat
           /\ \A id \in DOMAIN starting : id \in RoomIDs /\ starting[id] \in 1..MaxGames
           /\ \A id \in RoomIDs : GameOf(id) \in Nat
           /\ nextGameID \in Nat
<1>1. \A id \in DOMAIN rooms : id \in RoomIDs /\ rooms[id].game \in Nat
    BY RoomFields DEF Base, TypeOK, IsRooms
<1>2. \A id \in DOMAIN starting : id \in RoomIDs /\ starting[id] \in 1..MaxGames
    BY DEF Base, TypeOK, IsMap
<1>3. nextGameID \in Nat /\ 1..MaxGames \subseteq Nat
    BY WorldAssumption DEF Base, TypeOK
<1> QED
    BY <1>1, <1>2, <1>3 DEF GameOf, Live

\* A step that takes no new game ID keeps the IDs distinct.
LEMMA NoNewGames ==
    ASSUME GamesInv, nextGameID' = nextGameID,
           \A id \in RoomIDs : GameOf(id)' \in {0, GameOf(id)}
    PROVE  GamesDistinct' /\ GamesKnown'
<1>1. /\ \A id \in RoomIDs : GameOf(id) \in Nat /\ GameOf(id) <= nextGameID
      /\ nextGameID \in Nat
    BY GameNumbers DEF GamesInv, GamesKnown
<1>2. \A id \in RoomIDs : GameOf(id)' <= nextGameID'
    BY <1>1
<1>3. \A id, other \in RoomIDs : GameOf(id)' # 0 /\ GameOf(id)' = GameOf(other)' => id = other
    BY DEF GamesInv, GamesDistinct
<1> QED
    BY <1>2, <1>3 DEF GamesDistinct, GamesKnown

\* Steps outside the start of a match: no room gets a game.
LEMMA OldGames ==
    ASSUME GamesInv, UNCHANGED <<nextGameID, starting>>,
           DOMAIN starting \subseteq DOMAIN rooms',
           \A id \in DOMAIN rooms' : \/ rooms'[id].game = 0
                                     \/ id \in DOMAIN rooms /\ rooms'[id].game = rooms[id].game
    PROVE  GamesDistinct' /\ GamesKnown' /\ StartsKnown'
<1>1. \A id \in RoomIDs : GameOf(id)' \in {0, GameOf(id)}
    BY DEF GameOf, Live
<1>2. StartsKnown'
    BY DEF GamesInv, StartsKnown, Live
<1> QED
    BY <1>1, <1>2, NoNewGames

\* Steps outside the start of a match that change one room, and not its game.
LEMMA OneRoomOldGames ==
    ASSUME GamesInv, NEW id \in DOMAIN rooms, NEW s, s.game = rooms[id].game \/ s.game = 0,
           UNCHANGED <<nextGameID, starting>>, rooms' = [rooms EXCEPT ![id] = s]
    PROVE  GamesDistinct' /\ GamesKnown' /\ StartsKnown'
<1>1. /\ DOMAIN rooms' = DOMAIN rooms
      /\ \A i \in DOMAIN rooms : rooms'[i] = IF i = id THEN s ELSE rooms[i]
    BY DEF GamesInv, Base, TypeOK, IsRooms
<1>2. DOMAIN starting \subseteq DOMAIN rooms'
    BY <1>1 DEF GamesInv, StartsKnown, Live
<1> QED
    BY <1>1, <1>2, OldGames

\* Steps that change no room.
LEMMA StillRoomsOldGames ==
    ASSUME GamesInv, UNCHANGED <<rooms, nextGameID, starting>>
    PROVE  GamesDistinct' /\ GamesKnown' /\ StartsKnown'
<1>1. DOMAIN starting \subseteq DOMAIN rooms'
    BY DEF GamesInv, StartsKnown, Live
<1> QED
    BY <1>1, OldGames

\* A new room takes no room ID that a start still needs.
LEMMA CreateKeepsGames ==
    ASSUME GamesInv, NEW p \in Players, NEW s, NEW f, CreateRoom(p, s, f)
    PROVE  GamesDistinct' /\ GamesKnown' /\ StartsKnown'
<1> DEFINE id == Min(RoomIDs \ DOMAIN rooms)
           r == NewRoom(p, s, f)
<1>1. r.game = 0
    BY DEF NewRoom
<1>2. CASE Online(p)
    <2>1. rooms' = Put(rooms, id, r) /\ UNCHANGED <<nextGameID, starting>>
        BY <1>2 DEF CreateRoom
    <2> HIDE DEF id, r
    <2>2. /\ DOMAIN rooms' = DOMAIN rooms \cup {id}
          /\ \A i \in DOMAIN rooms' : rooms'[i] = IF i = id THEN r ELSE rooms[i]
        BY <2>1 DEF Put
    <2>3. DOMAIN starting \subseteq DOMAIN rooms'
        BY <2>2 DEF GamesInv, StartsKnown, Live
    <2> QED
        BY <1>1, <2>1, <2>2, <2>3, OldGames
<1>3. CASE ~Online(p)
    BY <1>3, StillRoomsOldGames DEF CreateRoom
<1> QED
    BY <1>2, <1>3

\* Nobody who joins starts a game.
LEMMA JoinKeepsGames ==
    ASSUME GamesInv, NEW p \in Players, NEW id \in RoomIDs, NEW team \in Teams,
           JoinRoom(p, id, team)
    PROVE  GamesDistinct' /\ GamesKnown' /\ StartsKnown'
<1> DEFINE r == Join(rooms[id], p, team)
<1>1. /\ id \in DOMAIN rooms /\ p \notin Roster(rooms[id])
      /\ IsRoom(rooms[id]) /\ Sound(rooms[id]) /\ UNCHANGED <<nextGameID, starting>>
    BY DEF JoinRoom, CanJoin, GamesInv, Base, TypeOK, IsRooms, RoomsSound, Live
<1>2. r.game = rooms[id].game /\ Leave(r, p).game = rooms[id].game
    BY <1>1, PreparationKeepsPhase, JoinThenLeave
<1>3. \/ rooms' = [rooms EXCEPT ![id] = r]
      \/ rooms' = [rooms EXCEPT ![id] = Leave(r, p)]
    BY DEF JoinRoom, Commit
<1> QED
    BY <1>1, <1>2, <1>3, OneRoomOldGames

\* A departure waits for the room's lane, so the room it ends has no start.
LEMMA DepartureKeepsGames ==
    ASSUME GamesInv, NEW p \in Players, NEW id \in DOMAIN rooms, Lane(id), NEW r,
           r = rooms[id] \/ r = Leave(rooms[id], p), Depart(p, id, r)
    PROVE  GamesDistinct' /\ GamesKnown' /\ StartsKnown'
<1>1. r.game = rooms[id].game
    BY LeaveIsQuiet DEF GamesInv, Base, TypeOK, IsRooms, Quiet
<1>2. UNCHANGED <<nextGameID, starting>>
    BY DEF Depart
<1>3. CASE rooms' = Drop(rooms, id)
    <2>1. DOMAIN rooms' = DOMAIN rooms \ {id} /\ \A i \in DOMAIN rooms \ {id} : rooms'[i] = rooms[i]
        BY <1>3, DropValues
    <2>2. DOMAIN starting \subseteq DOMAIN rooms'
        BY <2>1 DEF GamesInv, StartsKnown, Live, Lane
    <2> QED
        BY <1>2, <2>1, <2>2, OldGames
<1>4. CASE rooms' = [rooms EXCEPT ![id] = r]
    BY <1>1, <1>2, <1>4, OneRoomOldGames
<1> QED
    BY <1>3, <1>4 DEF Depart, Commit

\* The steps of a start play the game it has reserved, or none.
LEMMA StartKeepsGames ==
    ASSUME GamesInv, NEW id \in DOMAIN starting, nextGameID' = nextGameID,
           DOMAIN rooms' = DOMAIN rooms,
           \A i \in DOMAIN rooms : i # id => rooms'[i] = rooms[i],
           rooms'[id].game = 0 \/ rooms'[id].game = starting[id],
           \/ starting' = starting
           \/ starting' = Drop(starting, id)
    PROVE  GamesDistinct' /\ GamesKnown' /\ StartsKnown'
<1>1. /\ DOMAIN starting' \subseteq DOMAIN starting /\ DOMAIN starting \subseteq DOMAIN starting' \cup {id}
      /\ \A i \in DOMAIN starting' : starting'[i] = starting[i]
    <2>1. CASE starting' = starting
        BY <2>1
    <2>2. CASE starting' = Drop(starting, id)
        <3> DEFINE rest == Drop(starting, id)
        <3>1. DOMAIN rest = DOMAIN starting \ {id} /\ \A i \in DOMAIN starting \ {id} : rest[i] = starting[i]
            BY DropValues
        <3>2. starting' = rest
            BY <2>2
        <3> HIDE DEF rest
        <3> QED
            BY <3>1, <3>2
    <2> QED
        BY <2>1, <2>2
<1>2. StartsKnown'
    BY <1>1 DEF GamesInv, StartsKnown, Live
<1>3. GameOf(id) = starting[id] /\ GameOf(id)' \in {0, starting[id]}
    BY <1>1 DEF GameOf, Live
<1>4. \A i \in RoomIDs : i # id => GameOf(i)' = GameOf(i)
    BY <1>1 DEF GameOf, Live
<1> QED
    BY <1>2, <1>3, <1>4, NoNewGames

\* A new game ID goes to a room that had none, and is larger than any in use.
LEMMA AllocateKeepsGames ==
    ASSUME GamesInv, NEW p \in Players, AllocateGameID(p)
    PROVE  GamesDistinct' /\ GamesKnown' /\ StartsKnown'
<1>0. PICK id : id = memberships[p]
    OBVIOUS
<1>1. id \in RoomIDs /\ id \in DOMAIN rooms /\ id \notin DOMAIN starting /\ rooms[id].game = 0
    BY <1>0, ActorIsMember DEF AllocateGameID, Acts, Lane, ValidateStart, RoomOf, GamesInv
<1>2. rooms' = rooms /\ nextGameID' = nextGameID + 1 /\ starting' = Put(starting, id, nextGameID + 1)
    BY <1>0 DEF AllocateGameID
<1>3. /\ DOMAIN starting' = DOMAIN starting \cup {id} /\ starting'[id] = nextGameID + 1
      /\ \A i \in DOMAIN starting : starting'[i] = starting[i]
    BY <1>1, <1>2 DEF Put
<1>4. GameOf(id)' = nextGameID + 1
    BY <1>3 DEF GameOf
<1>5. \A i \in RoomIDs : i # id => GameOf(i)' = GameOf(i)
    BY <1>2, <1>3 DEF GameOf, Live
<1>6. \A i \in RoomIDs : GameOf(i) \in Nat /\ GameOf(i) <= nextGameID /\ nextGameID \in Nat
    BY GameNumbers DEF GamesInv, GamesKnown
<1>7. GamesKnown'
    BY <1>2, <1>4, <1>5, <1>6 DEF GamesKnown
<1>8. GamesDistinct'
    <2> SUFFICES ASSUME NEW i \in RoomIDs, NEW j \in RoomIDs,
                        GameOf(i)' # 0, GameOf(i)' = GameOf(j)'
                 PROVE  i = j
        BY DEF GamesDistinct
    <2>1. CASE i # id /\ j # id
        BY <1>5, <2>1 DEF GamesInv, GamesDistinct
    <2>a. \A k \in RoomIDs : k # id => GameOf(k)' # GameOf(id)'
        BY <1>4, <1>5, <1>6
    <2>2. CASE i = id /\ j # id
        BY <2>a, <2>2
    <2>3. CASE j = id /\ i # id
        BY <2>a, <2>3
    <2> QED
        BY <2>1, <2>2, <2>3
<1>9. StartsKnown'
    BY <1>1, <1>2, <1>3 DEF GamesInv, StartsKnown, Live
<1> QED
    BY <1>7, <1>8, <1>9

\* The steps of a match.
LEMMA MatchKeepsGames ==
    ASSUME GamesInv, NEW p \in Players,
           \/ AllocateGameID(p) \/ FinishStart(p) \/ RollbackStart(p)
           \/ \E options \in StartOptions : CommitStart(p, options)
    PROVE  GamesDistinct' /\ GamesKnown' /\ StartsKnown'
<1> DEFINE id == memberships[p]
<1>1. CASE AllocateGameID(p)
    BY <1>1, AllocateKeepsGames
<1>2. CASE FinishStart(p)
    <2>1. /\ id \in DOMAIN starting /\ starting' = Drop(starting, id)
          /\ rooms' = rooms /\ nextGameID' = nextGameID
        BY <1>2 DEF FinishStart, Starting, EndStart
    <2>2. rooms[id].game = 0 \/ rooms[id].game = starting[id]
        BY <2>1 DEF GamesInv, StartsKnown
    <2> QED
        BY <2>1, <2>2, StartKeepsGames
<1>3. ASSUME NEW r, id \in DOMAIN starting, id \in DOMAIN rooms,
             r.game = 0 \/ r.game = starting[id],
             rooms' = [rooms EXCEPT ![id] = r], nextGameID' = nextGameID,
             starting' = starting \/ starting' = Drop(starting, id)
      PROVE  GamesDistinct' /\ GamesKnown' /\ StartsKnown'
    <2>1. /\ DOMAIN rooms' = DOMAIN rooms
          /\ \A i \in DOMAIN rooms : rooms'[i] = IF i = id THEN r ELSE rooms[i]
        BY <1>3 DEF GamesInv, Base, TypeOK, IsRooms
    <2> HIDE DEF id
    <2> QED
        BY <1>3, <2>1, StartKeepsGames
<1>4. Starting(p) => IsRoom(RoomOf(p)) /\ id \in DOMAIN rooms /\ id \in DOMAIN starting
    BY ActorIsMember DEF Starting, GamesInv
<1>5. CASE RollbackStart(p)
    <2> DEFINE r == CompleteMatch(BeginSettlement(RoomOf(p)))
    <2>0. IsRoom(BeginSettlement(RoomOf(p)))
        BY <1>4, <1>5, MatchIsRoom DEF RollbackStart
    <2>1. r.game = 0
        BY <2>0, RoomFields DEF CompleteMatch
    <2>2. /\ rooms' = [rooms EXCEPT ![id] = r] /\ nextGameID' = nextGameID
          /\ starting' = Drop(starting, id) /\ Starting(p)
        BY <1>5 DEF RollbackStart, Commit, EndStart
    <2> HIDE DEF r
    <2> QED
        BY <1>3, <1>4, <2>1, <2>2
<1>6. CASE \E options \in StartOptions : CommitStart(p, options)
    <2> DEFINE r == StartMatch(RoomOf(p), starting[id])
    <2>1. Starting(p) /\ rooms' = [rooms EXCEPT ![id] = r] /\ UNCHANGED <<nextGameID, starting>>
        BY <1>6 DEF CommitStart, Commit
    <2>2. r.game = starting[id]
        BY <1>4, <2>1, RoomFields DEF StartMatch
    <2> HIDE DEF r
    <2> QED
        BY <1>3, <1>4, <2>1, <2>2
<1> QED
    BY <1>1, <1>2, <1>5, <1>6

\* A change of the room of a member starts no game.
LEMMA ChangeKeepsGames ==
    ASSUME GamesInv, NEW p \in Players, SoundChange(p)
    PROVE  GamesDistinct' /\ GamesKnown' /\ StartsKnown'
<1>1. PICK r : r.game \in {RoomOf(p).game, 0} /\ MutateMemberRoom(p, r)
    BY DEF SoundChange
<1>2. /\ memberships[p] \in DOMAIN rooms /\ rooms' = [rooms EXCEPT ![memberships[p]] = r]
      /\ UNCHANGED <<nextGameID, starting>>
    BY <1>1 DEF SoundChange, InRoom, MutateMemberRoom, Commit
<1>3. r.game = rooms[memberships[p]].game \/ r.game = 0
    BY <1>1 DEF RoomOf
<1> QED
    BY <1>2, <1>3, OneRoomOldGames

\* Every step of the server keeps the game IDs distinct.
LEMMA StepKeepsGames ==
    ASSUME GamesInv, [PruneNext]_vars
    PROVE  GamesInv'
<1> DEFINE Kept == GamesDistinct' /\ GamesKnown' /\ StartsKnown'
<1>1. Base'
    BY StepKeepsBase DEF GamesInv
<1>2. ASSUME UNCHANGED vars PROVE Kept
    BY <1>2, StillRoomsOldGames DEF vars
<1>3. ASSUME NEW p \in Players, LobbyNext(p) \/ PruneLobby(p) PROVE Kept
    BY <1>3, StillRoomsOldGames DEF LobbyNext, EnterLobby, LeaveLobby, PruneLobby, RemovePresence
<1>4. ASSUME NEW p \in Players, RoomNext(p) PROVE Kept
    <2>1. ASSUME NEW s \in SettingChoices, NEW f \in RuleChoices, CreateRoom(p, s, f) PROVE Kept
        BY <2>1, CreateKeepsGames
    <2>2. ASSUME NEW id \in RoomIDs, JoinRoom(p, id, 1) PROVE Kept
        BY <2>2, JoinKeepsGames, RoomAssumption
    <2> QED
        BY <1>4, <2>1, <2>2, PreparationIsChange, ChangeKeepsGames DEF RoomNext, GamesInv
<1>5. ASSUME NEW p \in Players, LeaveRoom(p) PROVE Kept
    BY <1>5, DepartureKeepsGames DEF LeaveRoom, InRoom, RoomOf
<1>6. ASSUME NEW p \in Players, NEW id \in RoomIDs, ReconcileRoomDeparture(p, id) PROVE Kept
    <2>1. CASE id \in DOMAIN rooms
        BY <1>6, <2>1, DepartureKeepsGames DEF ReconcileRoomDeparture
    <2>2. CASE id \notin DOMAIN rooms
        BY <1>6, <2>2, StillRoomsOldGames DEF ReconcileRoomDeparture, vars
    <2> QED
        BY <2>1, <2>2
<1>7. ASSUME NEW p \in Players, ChatNext(p) PROVE Kept
    BY <1>7, ChatIsChange, ChangeKeepsGames DEF GamesInv
<1>8. ASSUME NEW p \in Players, MatchNext(p) PROVE Kept
    <2>1. CASE \E game \in 1..MaxGames : SettleMatch(p, game) \/ FinishSettlement(p, game)
        BY <2>1, SettlementIsChange, ChangeKeepsGames DEF GamesInv
    <2> QED
        BY <1>8, <2>1, MatchKeepsGames DEF MatchNext
<1>9. Kept
    BY <1>2, <1>3, <1>4, <1>5, <1>6, <1>7, <1>8 DEF PruneNext, Next, DepartNext
<1> QED
    BY <1>1, <1>9 DEF GamesInv

-----------------------------------------------------------------------------
(* Theorems *)

\* From the start of a match to its end its room only loses members, on the error
\* paths of the server too: whoever is paid in the end was there at the start, in
\* the same team and under the same settings.
THEOREM RosterIsKept == PruneSpec => MatchKeepsRoster
<1>1. Base /\ [PruneNext]_vars => [\A id \in Live \cap DOMAIN rooms' :
                                      KeepsRoster(rooms[id], rooms'[id])]_vars
    BY StepKeepsMatch DEF RoomsKeepMatch, KeepsMatch
<1> QED
    BY BaseHolds, <1>1, PTL DEF PruneSpec, MatchKeepsRoster

\* A room settles a game once, never exchanges it for another, and returns to
\* preparation with its members unready, on the error paths too.
THEOREM LifecycleIsKept == PruneSpec => MatchLifecycle
<1>1. Base /\ [PruneNext]_vars => [\A id \in Live \cap DOMAIN rooms' :
                                      KeepsLife(rooms[id], rooms'[id])]_vars
    BY StepKeepsMatch DEF RoomsKeepMatch, KeepsMatch
<1> QED
    BY BaseHolds, <1>1, PTL DEF PruneSpec, MatchLifecycle
\* A wedding runs only between the two who agreed to it: nobody takes a partner's
\* place between proposal, answer and end, not even on the error paths.
THEOREM PairIsKept == PruneSpec => WeddingKeepsPair
<1>1. Base /\ [PruneNext]_vars =>
        [\A id \in Live \cap DOMAIN rooms' :
            LET v == rooms[id].wedding w == rooms'[id].wedding
                pair(x) == <<x.initiator, x.target>>
            IN  /\ w.active /\ ~v.active => v.pending
                /\ (v.pending \/ v.active) /\ (w.pending \/ w.active) => pair(w) = pair(v)]_vars
    BY StepKeepsMatch DEF RoomsKeepMatch, KeepsMatch, PairKept, Bound
<1> QED
    BY BaseHolds, <1>1, PTL DEF PruneSpec, WeddingKeepsPair

\* No two rooms ever play, settle or prepare to play under the same game ID, however
\* starts, rollbacks and settlements of different rooms interleave.
THEOREM GamesStayDistinct == PruneSpec => []GamesDistinct
<1>1. Init => GamesInv
    <2> SUFFICES ASSUME Init PROVE GamesInv
        OBVIOUS
    <2>1. DOMAIN rooms = {} /\ DOMAIN starting = {} /\ nextGameID = 0
        BY DEF Init, Empty
    <2>2. \A id \in RoomIDs : GameOf(id) = 0
        BY <2>1 DEF GameOf, Live
    <2> QED
        BY <2>1, <2>2, BaseInit DEF GamesInv, GamesDistinct, GamesKnown, StartsKnown
<1>2. GamesInv /\ [PruneNext]_vars => GamesInv'
    BY StepKeepsGames
<1>3. GamesInv => GamesDistinct
    BY DEF GamesInv
<1> QED
    BY <1>1, <1>2, <1>3, PTL DEF PruneSpec
=============================================================================
