----------------------------- MODULE RoomProofs -----------------------------
(***************************************************************************)
(* Lemmas about the operations of one room (Room.tla): each keeps a room a *)
(* room and keeps it sound.  WorldProofs.tla lifts them to the server.     *)
(***************************************************************************)
EXTENDS Room, FiniteSetTheorems, TLAPS

-----------------------------------------------------------------------------
(* Sets of natural numbers *)

\* A nonempty set of natural numbers has a least element, which Min returns.
LEMMA MinOfNaturals ==
    ASSUME NEW S \in SUBSET Nat, S # {}
    PROVE  Min(S) \in S /\ \A y \in S : Min(S) <= y
<1> DEFINE R == OpToRel(<, Nat)
<1>1. \E x \in S : \A y \in S : ~(<<y, x>> \in R)
    <2>1. IsWellFoundedOn(R, Nat)
        BY NatLessThanWellFounded
    <2> HIDE DEF R
    <2> QED
        BY <2>1, WFMin
<1>2. PICK x \in S : \A y \in S : ~(<<y, x>> \in R)
    BY <1>1
<1>3. \A y \in S : ~(y < x)
    BY <1>2 DEF OpToRel
<1>4. \A y \in S : x <= y
    BY <1>3
<1> QED
    BY <1>4 DEF Min

-----------------------------------------------------------------------------
(* The sizes of a room *)

\* The sizes of a room: its roster is finite and empty exactly when its population
\* is 0, and its capacity never exceeds the seats of the client.
LEMMA RoomSizes ==
    ASSUME NEW r, IsRoom(r)
    PROVE  /\ IsFiniteSet(Roster(r)) /\ Population(r) \in Nat
           /\ Population(r) = 0 <=> Roster(r) = {}
           /\ Open(r) \subseteq Seats /\ IsFiniteSet(Open(r))
           /\ Cardinality(Open(r)) \in 0..SeatCount
           /\ Capacity(r) \in 0..SeatCount
           /\ Free(r) \subseteq Seats
<1>1. IsFiniteSet(Roster(r))
    BY FS_Subset, RoomAssumption DEF IsRoom
<1>2. Population(r) \in Nat /\ (Population(r) = 0 <=> Roster(r) = {})
    BY <1>1, FS_CardinalityType, FS_EmptySet DEF Population
<1>3. IsFiniteSet(Seats) /\ Cardinality(Seats) = SeatCount
    BY FS_Interval, RoomAssumption DEF Seats
<1>4. Open(r) \subseteq Seats /\ Free(r) \subseteq Seats
    BY DEF Open, Free
<1>5. IsFiniteSet(Open(r)) /\ Cardinality(Open(r)) \in 0..SeatCount
    BY <1>3, <1>4, FS_Subset, FS_CardinalityType, RoomAssumption
<1>6. r.settings.limit \in 0..SeatCount
    BY DEF IsRoom, RoomsOf, Settings
<1>7. Capacity(r) \in 0..SeatCount
    BY <1>5, <1>6 DEF Capacity
<1> QED
    BY <1>1, <1>2, <1>4, <1>5, <1>7

\* The seat a newcomer gets is free.
LEMMA FirstSeatIsFree ==
    ASSUME NEW r, Free(r) # {}
    PROVE  FirstAvailableSeat(r) \in Free(r)
BY MinOfNaturals, RoomAssumption DEF FirstAvailableSeat, Free, Open, Seats

-----------------------------------------------------------------------------
(* Every operation keeps a room a room *)

\* IsRoom, field by field.
LEMMA RoomFields ==
    ASSUME NEW r
    PROVE  IsRoom(r) <=>
             /\ r = [owner |-> r.owner, phase |-> r.phase, game |-> r.game,
                      settings |-> r.settings, freeRule |-> r.freeRule,
                      locked |-> r.locked, members |-> r.members,
                      background |-> r.background, wedding |-> r.wedding]
             /\ r.owner \in Players \cup {Nobody}
             /\ r.phase \in Phases
             /\ r.game \in Nat
             /\ r.settings \in Settings
             /\ r.freeRule \in BOOLEAN
             /\ r.locked \in SUBSET Seats
             /\ IsMap(r.members, Players, Member)
             /\ r.background \in Backgrounds
             /\ r.wedding \in Weddings
BY DEF IsRoom, RoomsOf, Roster, IsMap

\* A created room is well formed.
LEMMA NewRoomIsRoom ==
    ASSUME NEW p \in Players, NEW settings \in Settings, NEW freeRule \in BOOLEAN
    PROVE  IsRoom(NewRoom(p, settings, freeRule))
BY RoomAssumption DEF IsRoom, RoomsOf, NewRoom, Roster, Member, Seats, Phases,
                      NoWedding, Weddings, Nobody

\* A joined room is well formed.
LEMMA JoinIsRoom ==
    ASSUME NEW r, IsRoom(r), NEW p \in Players, NEW team \in Teams, Free(r) # {}
    PROVE  IsRoom(Join(r, p, team))
<1>1. FirstAvailableSeat(r) \in Seats
    BY FirstSeatIsFree, RoomSizes
<1> DEFINE newcomer == [team |-> team, seat |-> FirstAvailableSeat(r), ready |-> FALSE]
<1>2. newcomer \in Member
    BY <1>1 DEF Member
<1> HIDE DEF newcomer
<1>3. IsMap(Put(r.members, p, newcomer), Players, Member)
    BY <1>2, RoomFields DEF IsMap, Put
<1>4. Join(r, p, team) = [r EXCEPT !.members = Put(r.members, p, newcomer)]
    BY DEF Join, newcomer
<1> QED
    BY <1>3, <1>4, RoomFields

\* Ending a wedding keeps a room well formed.
LEMMA WeddingEnds ==
    ASSUME NEW r, IsRoom(r)
    PROVE  NoWedding(r.wedding.mode) \in Weddings
<1>1. r.wedding \in Weddings
    BY RoomFields
<1>2. r.wedding.mode \in 0..1
    BY <1>1 DEF Weddings
<1> QED
    BY <1>2 DEF NoWedding, Weddings

\* A departure keeps a room well formed.
LEMMA LeaveIsRoom ==
    ASSUME NEW r, IsRoom(r), NEW p
    PROVE  IsRoom(Leave(r, p))
<1> DEFINE remaining == Roster(r) \ {p}
<1>1. remaining # {} => Min(remaining) \in Players
    BY MinOfNaturals, RoomAssumption DEF IsRoom
<1>2. IsMap(Drop(r.members, p), Players, Member)
    BY RoomFields DEF IsMap, Drop, Restrict
<1> DEFINE owner == IF remaining = {} THEN Nobody
                    ELSE IF r.owner = p THEN Min(remaining) ELSE r.owner
           wedding == IF p \in {r.wedding.initiator, r.wedding.target}
                      THEN NoWedding(r.wedding.mode) ELSE r.wedding
<1>4. owner \in Players \cup {Nobody} /\ wedding \in Weddings
    BY <1>1, WeddingEnds, RoomFields
<1>5. Leave(r, p) = [r EXCEPT !.members = Drop(r.members, p), !.owner = owner,
                              !.wedding = wedding]
    BY DEF Leave
<1> HIDE DEF owner, wedding
<1> QED
    BY <1>2, <1>4, <1>5, RoomFields

\* The changes of a preparing room, under the conditions that let them happen.
LEMMA PreparationIsRoom ==
    ASSUME NEW r, IsRoom(r)
    PROVE  /\ \A p \in Roster(r), team \in Teams : IsRoom(SetTeam(r, p, team))
           /\ \A p \in Roster(r), ready \in BOOLEAN : IsRoom(SetReady(r, p, ready))
           /\ \A freeRule \in BOOLEAN : IsRoom(UpdateProperties(r, freeRule))
           /\ \A seat \in Seats, locked \in BOOLEAN : IsRoom(SetSeatLocked(r, seat, locked))
           /\ \A s \in Settings : IsRoom(UpdateSettings(r, s))
<1>1. ASSUME NEW p \in Roster(r), NEW team \in Teams PROVE IsRoom(SetTeam(r, p, team))
    BY RoomFields DEF SetTeam, IsMap, Roster, Member
<1>2. ASSUME NEW p \in Roster(r), NEW ready \in BOOLEAN PROVE IsRoom(SetReady(r, p, ready))
    BY RoomFields DEF SetReady, IsMap, Roster, Member
<1>3. ASSUME NEW freeRule \in BOOLEAN PROVE IsRoom(UpdateProperties(r, freeRule))
    BY RoomFields DEF UpdateProperties
<1>4. ASSUME NEW seat \in Seats, NEW locked \in BOOLEAN
      PROVE  IsRoom(SetSeatLocked(r, seat, locked))
    BY RoomFields DEF SetSeatLocked
<1>5. ASSUME NEW s \in Settings PROVE IsRoom(UpdateSettings(r, s))
    BY RoomFields DEF UpdateSettings
<1> QED
    BY <1>1, <1>2, <1>3, <1>4, <1>5

\* The chat-room operations keep a room well formed.
LEMMA ChatIsRoom ==
    ASSUME NEW r, IsRoom(r)
    PROVE  /\ \A mode \in 0..1 : IsRoom(SetWeddingMode(r, mode))
           /\ \A b \in Backgrounds : IsRoom(SetChatBackground(r, b))
           /\ \A p, q \in Players, mode \in 0..1 : IsRoom(StartWedding(r, p, q, mode))
           /\ \A accepted \in BOOLEAN : IsRoom(AnswerWedding(r, accepted))
<1>1. ASSUME NEW mode \in 0..1 PROVE IsRoom(SetWeddingMode(r, mode))
    BY RoomFields DEF SetWeddingMode, Weddings
<1>2. ASSUME NEW b \in Backgrounds PROVE IsRoom(SetChatBackground(r, b))
    BY RoomFields DEF SetChatBackground
<1>3. ASSUME NEW p \in Players, NEW q \in Players, NEW mode \in 0..1
      PROVE  IsRoom(StartWedding(r, p, q, mode))
    <2> DEFINE wedding == [r.wedding EXCEPT !.mode = mode, !.initiator = p,
                                            !.target = q, !.pending = TRUE]
    <2>1. wedding \in Weddings
        BY RoomFields DEF Weddings
    <2>2. StartWedding(r, p, q, mode) = [r EXCEPT !.wedding = wedding]
        BY DEF StartWedding
    <2> HIDE DEF wedding
    <2> QED
        BY <2>1, <2>2, RoomFields
<1>4. ASSUME NEW accepted \in BOOLEAN PROVE IsRoom(AnswerWedding(r, accepted))
    <2> DEFINE wedding == IF accepted
                          THEN [r.wedding EXCEPT !.pending = FALSE, !.active = TRUE]
                          ELSE NoWedding(r.wedding.mode)
    <2>1. wedding \in Weddings
        <3>1. [r.wedding EXCEPT !.pending = FALSE, !.active = TRUE] \in Weddings
            BY RoomFields DEF Weddings
        <3> QED
            BY <3>1, WeddingEnds
    <2>2. AnswerWedding(r, accepted) = [r EXCEPT !.wedding = wedding]
        BY DEF AnswerWedding
    <2> HIDE DEF wedding
    <2> QED
        BY <2>1, <2>2, RoomFields
<1> QED
    BY <1>1, <1>2, <1>3, <1>4

\* Start, settlement and completion keep a room well formed.
LEMMA MatchIsRoom ==
    ASSUME NEW r, IsRoom(r)
    PROVE  /\ \A game \in Nat : IsRoom(StartMatch(r, game))
           /\ IsRoom(BeginSettlement(r))
           /\ IsRoom(CompleteMatch(r))
<1>1. ASSUME NEW game \in Nat PROVE IsRoom(StartMatch(r, game))
    BY DEF StartMatch, IsRoom, RoomsOf, Roster, Phases
<1>2. IsRoom(BeginSettlement(r))
    BY RoomFields DEF BeginSettlement, Phases
<1>3. IsRoom(CompleteMatch(r))
    <2> DEFINE members == [p \in Roster(r) |-> [r.members[p] EXCEPT !.ready = FALSE]]
    <2>1. IsMap(members, Players, Member)
        BY RoomFields DEF IsMap, Roster, Member
    <2>2. CompleteMatch(r) = [r EXCEPT !.phase = "preparing", !.game = 0, !.members = members]
        BY DEF CompleteMatch
    <2> HIDE DEF members
    <2>3. \A phase \in Phases, game \in Nat :
             IsRoom([r EXCEPT !.phase = phase, !.game = game, !.members = members])
        BY <2>1 DEF IsRoom, RoomsOf, Roster, IsMap
    <2>4. "preparing" \in Phases /\ 0 \in Nat
        BY DEF Phases
    <2> QED
        BY <2>2, <2>3, <2>4, Zenon
<1> QED
    BY <1>1, <1>2, <1>3

-----------------------------------------------------------------------------
(* Every operation keeps a sound room sound *)

\* Members on distinct open seats cannot outnumber the open seats.
LEMMA MembersFitSeats ==
    ASSUME NEW r, IsRoom(r),
           \A p \in Roster(r) : r.members[p].seat \in Open(r),
           \A p, q \in Roster(r) : r.members[p].seat = r.members[q].seat => p = q
    PROVE  Population(r) <= Cardinality(Open(r))
<1> DEFINE f == [p \in Roster(r) |-> r.members[p].seat]
<1>1. f \in [Roster(r) -> Open(r)] /\ \A p, q \in Roster(r) : f[p] = f[q] => p = q
    OBVIOUS
<1>2. IsFiniteSet(Open(r))
    BY RoomSizes
<1> HIDE DEF f
<1>3. f \in Injection(Roster(r), Open(r))
    BY <1>1 DEF Injection, IsInjective
<1> QED
    BY <1>2, <1>3, FS_Injection DEF Population

\* Seats are sound when members sit on distinct open seats and the map's own
\* player limit, if it has one, is kept.
LEMMA SeatsSoundByLimit ==
    ASSUME NEW r, IsRoom(r),
           \A p \in Roster(r) : r.members[p].seat \in Open(r),
           \A p, q \in Roster(r) : r.members[p].seat = r.members[q].seat => p = q,
           r.settings.limit # 0 => Population(r) <= r.settings.limit
    PROVE  SeatsSound(r)
BY MembersFitSeats DEF SeatsSound, Capacity

\* The members of a room whose seats are sound fit the limit of its settings.
LEMMA LimitIsKept ==
    ASSUME NEW r, IsRoom(r), SeatsSound(r)
    PROVE  r.settings.limit # 0 => Population(r) <= r.settings.limit
<1>1. r.settings.limit \in Nat /\ Population(r) \in Nat /\ Cardinality(Open(r)) \in Nat
    BY RoomSizes, RoomFields, RoomAssumption DEF Settings
<1> QED
    BY <1>1 DEF SeatsSound, Capacity

\* A created room is sound.
LEMMA NewRoomIsSound ==
    ASSUME NEW p \in Players, NEW settings \in Settings, NEW freeRule \in BOOLEAN
    PROVE  Sound(NewRoom(p, settings, freeRule))
<1> DEFINE r == NewRoom(p, settings, freeRule)
<1>1. IsRoom(r)
    BY NewRoomIsRoom
<1>2. Roster(r) = {p} /\ Open(r) = Seats /\ r.members[p].seat = 1 /\ r.settings = settings
    BY DEF NewRoom, Roster, Open
<1>3. Population(r) = 1
    BY <1>2, FS_Singleton DEF Population
<1>4. 1 \in Seats
    BY RoomAssumption DEF Seats
<1>5. settings.limit # 0 => 1 <= settings.limit
    BY RoomAssumption DEF Settings
<1>6. OwnerSound(r) /\ WeddingSound(r)
    BY DEF OwnerSound, WeddingSound, NewRoom, NoWedding, Roster
<1> HIDE DEF r
<1>7. SeatsSound(r)
    BY <1>1, <1>2, <1>3, <1>4, <1>5, SeatsSoundByLimit
<1> QED
    BY <1>6, <1>7 DEF Sound, r

\* A room without an owner is left out: its newcomer would find no owner.
LEMMA JoinIsSound ==
    ASSUME NEW r, IsRoom(r), Sound(r), NEW p \in Players, NEW team \in Teams,
           CanJoin(r, p), r.owner # Nobody
    PROVE  Sound(Join(r, p, team))
<1> DEFINE s == Join(r, p, team)
<1>1. IsRoom(s)
    BY JoinIsRoom DEF CanJoin
<1>2. /\ Roster(s) = Roster(r) \cup {p}
      /\ s.members[p].seat = FirstAvailableSeat(r)
      /\ \A q \in Roster(r) : s.members[q] = r.members[q]
      /\ s.settings = r.settings /\ s.locked = r.locked
      /\ s.owner = r.owner /\ s.phase = r.phase /\ s.game = r.game
      /\ s.wedding = r.wedding
    BY RoomFields DEF Join, Put, Roster, CanJoin, IsMap
<1>3. Open(s) = Open(r) /\ Capacity(s) = Capacity(r)
    BY <1>2 DEF Open, Capacity
<1>4. Population(s) = Population(r) + 1
    <2>1. IsFiniteSet(Roster(r)) /\ p \notin Roster(r)
        BY RoomSizes DEF CanJoin
    <2>2. Cardinality(Roster(r) \cup {p}) = Cardinality(Roster(r)) + 1
        BY <2>1, FS_AddElement
    <2> QED
        BY <1>2, <2>2 DEF Population
<1> HIDE DEF s
<1>5. SeatsSound(s)
    <2>1. FirstAvailableSeat(r) \in Open(r) /\ FirstAvailableSeat(r) \notin Taken(r)
        BY FirstSeatIsFree DEF CanJoin, Free
    <2>2. \A q \in Roster(s) : s.members[q].seat \in Open(s)
        BY <1>2, <1>3, <2>1 DEF Sound, SeatsSound
    <2>3. \A q \in Roster(r) : r.members[q].seat # FirstAvailableSeat(r)
        BY <2>1 DEF Taken
    <2>4. \A q, o \in Roster(s) : s.members[q].seat = s.members[o].seat => q = o
        BY <1>2, <2>3 DEF Sound, SeatsSound
    <2>5. Population(s) <= Capacity(s)
        BY <1>3, <1>4, RoomSizes DEF CanJoin
    <2> QED
        BY <2>2, <2>4, <2>5 DEF SeatsSound
<1>6. OwnerSound(s)
    BY <1>2 DEF Sound, OwnerSound
<1>7. WeddingSound(s)
    BY <1>2 DEF Sound, WeddingSound
<1> QED
    BY <1>5, <1>6, <1>7 DEF Sound, s

\* A departure keeps a room sound: ownership moves to a member that is left, and
\* a wedding does not outlive one of its pair.
LEMMA LeaveIsSound ==
    ASSUME NEW r, IsRoom(r), Sound(r), NEW p \in Roster(r)
    PROVE  Sound(Leave(r, p))
<1> DEFINE s == Leave(r, p)
           remaining == Roster(r) \ {p}
<1>1. IsRoom(s)
    BY LeaveIsRoom
<1>2. /\ Roster(s) = remaining
      /\ \A q \in remaining : s.members[q] = r.members[q]
      /\ s.settings = r.settings /\ s.locked = r.locked
      /\ s.phase = r.phase /\ s.game = r.game
      /\ s.owner = IF remaining = {} THEN Nobody
                   ELSE IF r.owner = p THEN Min(remaining) ELSE r.owner
      /\ s.wedding = IF p \in {r.wedding.initiator, r.wedding.target}
                     THEN NoWedding(r.wedding.mode) ELSE r.wedding
    <2>1. Roster(s) = remaining /\ \A q \in remaining : s.members[q] = r.members[q]
        BY RoomFields DEF Leave, Drop, Restrict, Roster
    <2> QED
        BY <2>1, RoomFields DEF Leave
<1>3. Open(s) = Open(r) /\ Capacity(s) = Capacity(r)
    BY <1>2 DEF Open, Capacity
<1>4. Population(s) <= Population(r)
    <2>1. Cardinality(remaining) = Population(r) - 1
        BY FS_RemoveElement, RoomSizes DEF Population
    <2> QED
        BY <1>2, <2>1, RoomSizes DEF Population
<1>5. remaining # {} => Min(remaining) \in remaining
    BY MinOfNaturals, RoomAssumption DEF IsRoom
<1> HIDE DEF s
<1>6. SeatsSound(s)
    <2>1. Population(s) <= Capacity(s)
        BY <1>1, <1>3, <1>4, RoomSizes DEF Sound, SeatsSound
    <2> QED
        BY <1>2, <1>3, <2>1 DEF Sound, SeatsSound
<1>7. OwnerSound(s)
    BY <1>2, <1>5 DEF Sound, OwnerSound
<1>8. WeddingSound(s)
    <2>1. CASE p \in {r.wedding.initiator, r.wedding.target}
        BY <1>2, <2>1 DEF WeddingSound, NoWedding
    <2>2. CASE p \notin {r.wedding.initiator, r.wedding.target}
        BY <1>2, <2>2 DEF Sound, WeddingSound
    <2> QED
        BY <2>1, <2>2
<1> QED
    BY <1>6, <1>7, <1>8 DEF Sound, s

\* A change that touches neither members, seats, settings, owner, game nor
\* wedding leaves a sound room sound.
LEMMA SameSoundness ==
    ASSUME NEW r, Sound(r), NEW s, Roster(s) = Roster(r),
           \A p \in Roster(r) : s.members[p].seat = r.members[p].seat,
           s.locked = r.locked, s.settings = r.settings, s.owner = r.owner,
           s.phase = "preparing" <=> s.game = 0, s.wedding = r.wedding
    PROVE  Sound(s)
<1>1. Open(s) = Open(r) /\ Capacity(s) = Capacity(r) /\ Population(s) = Population(r)
    BY DEF Open, Capacity, Population
<1>2. SeatsSound(s)
    BY <1>1 DEF Sound, SeatsSound
<1>3. OwnerSound(s)
    BY DEF Sound, OwnerSound
<1>4. WeddingSound(s)
    BY DEF Sound, WeddingSound
<1> QED
    BY <1>2, <1>3, <1>4 DEF Sound

\* Every operation of the preparation phase keeps a room sound.
LEMMA PreparationIsSound ==
    ASSUME NEW r, IsRoom(r), Sound(r)
    PROVE  /\ \A p \in Roster(r), team \in Teams : Sound(SetTeam(r, p, team))
           /\ \A p \in Roster(r), ready \in BOOLEAN : Sound(SetReady(r, p, ready))
           /\ \A freeRule \in BOOLEAN : Sound(UpdateProperties(r, freeRule))
           /\ \A p \in Players, seat \in Seats, locked \in BOOLEAN :
                 CanSetSeatLocked(r, p, seat, locked) => Sound(SetSeatLocked(r, seat, locked))
           /\ \A p \in Players, s \in Settings :
                 CanUpdateSettings(r, p, s) => Sound(UpdateSettings(r, s))
<1> USE RoomFields DEF Roster, IsMap, Member
<1>1. r.phase = "preparing" <=> r.game = 0
    BY DEF Sound, OwnerSound
<1>2. ASSUME NEW p \in Roster(r), NEW team \in Teams PROVE Sound(SetTeam(r, p, team))
    BY <1>1, SameSoundness DEF SetTeam
<1>3. ASSUME NEW p \in Roster(r), NEW ready \in BOOLEAN PROVE Sound(SetReady(r, p, ready))
    BY <1>1, SameSoundness DEF SetReady
<1>4. ASSUME NEW freeRule \in BOOLEAN PROVE Sound(UpdateProperties(r, freeRule))
    BY <1>1, SameSoundness DEF UpdateProperties
<1>5. ASSUME NEW p \in Players, NEW seat \in Seats, NEW locked \in BOOLEAN,
             CanSetSeatLocked(r, p, seat, locked)
      PROVE  Sound(SetSeatLocked(r, seat, locked))
    <2> DEFINE s == SetSeatLocked(r, seat, locked)
    <2>1. IsRoom(s)
        BY PreparationIsRoom
    <2>2. /\ Roster(s) = Roster(r) /\ s.members = r.members /\ s.settings = r.settings
          /\ s.owner = r.owner /\ s.phase = r.phase /\ s.game = r.game /\ s.wedding = r.wedding
          /\ s.locked = IF locked THEN r.locked \cup {seat} ELSE r.locked \ {seat}
        BY DEF SetSeatLocked
    <2> HIDE DEF s
    <2>3. \A q \in Roster(s) : s.members[q].seat \in Open(s)
        BY <1>5, <2>2 DEF Sound, SeatsSound, Open, Taken, CanSetSeatLocked
    <2>4. s.settings.limit # 0 => Population(s) <= s.settings.limit
        BY <2>2, LimitIsKept DEF Sound, Population
    <2>5. SeatsSound(s)
        BY <2>1, <2>2, <2>3, <2>4, SeatsSoundByLimit DEF Sound, SeatsSound
    <2>6. OwnerSound(s)
        BY <2>2 DEF Sound, OwnerSound
    <2>7. WeddingSound(s)
        BY <2>2 DEF Sound, WeddingSound
    <2> QED
        BY <2>5, <2>6, <2>7 DEF Sound, s
<1>6. ASSUME NEW p \in Players, NEW settings \in Settings, CanUpdateSettings(r, p, settings)
      PROVE  Sound(UpdateSettings(r, settings))
    <2> DEFINE s == UpdateSettings(r, settings)
    <2>1. IsRoom(s)
        BY PreparationIsRoom
    <2>2. /\ Roster(s) = Roster(r) /\ s.members = r.members /\ s.settings = settings
          /\ s.owner = r.owner /\ s.phase = r.phase /\ s.game = r.game /\ s.wedding = r.wedding
          /\ s.locked = r.locked
        BY DEF UpdateSettings
    <2> HIDE DEF s
    <2>3. s.settings.limit # 0 => Population(s) <= s.settings.limit
        BY <1>6, <2>2 DEF CanUpdateSettings, Population
    <2>4. SeatsSound(s)
        BY <2>1, <2>2, <2>3, SeatsSoundByLimit DEF Sound, SeatsSound, Open
    <2>5. OwnerSound(s)
        BY <2>2 DEF Sound, OwnerSound
    <2>6. WeddingSound(s)
        BY <2>2 DEF Sound, WeddingSound
    <2> QED
        BY <2>4, <2>5, <2>6 DEF Sound, s
<1> QED
    BY <1>2, <1>3, <1>4, <1>5, <1>6

\* Every chat-room operation keeps a room sound.
LEMMA ChatIsSound ==
    ASSUME NEW r, IsRoom(r), Sound(r)
    PROVE  /\ \A p \in Players, mode \in 0..1 :
                 CanSetWeddingMode(r, p) => Sound(SetWeddingMode(r, mode))
           /\ \A b \in Backgrounds : Sound(SetChatBackground(r, b))
           /\ \A p, q \in Players, mode \in 0..1 :
                 CanStartWedding(r, p, q) => Sound(StartWedding(r, p, q, mode))
           /\ \A p, q \in Players, accepted \in BOOLEAN :
                 CanAnswerWedding(r, p, q) => Sound(AnswerWedding(r, accepted))
<1>1. ASSUME NEW w PROVE
          LET s == [r EXCEPT !.wedding = w]
          IN  SeatsSound(s) /\ OwnerSound(s) /\ Roster(s) = Roster(r) /\ s.wedding = w
    <2> DEFINE s == [r EXCEPT !.wedding = w]
    <2>1. /\ Roster(s) = Roster(r) /\ s.members = r.members /\ s.settings = r.settings
          /\ s.locked = r.locked /\ s.owner = r.owner /\ s.phase = r.phase /\ s.game = r.game
          /\ s.wedding = w
        BY RoomFields DEF Roster
    <2> HIDE DEF s
    <2>2. Open(s) = Open(r) /\ Capacity(s) = Capacity(r) /\ Population(s) = Population(r)
        BY <2>1 DEF Open, Capacity, Population
    <2>3. SeatsSound(s) /\ OwnerSound(s)
        BY <2>1, <2>2 DEF Sound, SeatsSound, OwnerSound
    <2> QED
        BY <2>1, <2>3 DEF s
<1>2. ASSUME NEW p \in Players, NEW mode \in 0..1, CanSetWeddingMode(r, p)
      PROVE  Sound(SetWeddingMode(r, mode))
    <2> DEFINE w == [r.wedding EXCEPT !.mode = mode]
               s == [r EXCEPT !.wedding = w]
    <2>1. /\ w.initiator = Nobody /\ w.target = Nobody /\ w.pending = r.wedding.pending
          /\ w.active = r.wedding.active
        BY <1>2, RoomFields DEF Sound, WeddingSound, CanSetWeddingMode, WeddingFree, Weddings
    <2> HIDE DEF w
    <2>2. SeatsSound(s) /\ OwnerSound(s) /\ Roster(s) = Roster(r) /\ s.wedding = w
        BY <1>1
    <2> HIDE DEF s
    <2>3. WeddingSound(s)
        BY <1>2, <2>1, <2>2 DEF WeddingSound, CanSetWeddingMode, WeddingFree
    <2> QED
        BY <2>2, <2>3 DEF Sound, SetWeddingMode, s, w
<1>3. ASSUME NEW b \in Backgrounds PROVE Sound(SetChatBackground(r, b))
    BY SameSoundness, RoomFields DEF SetChatBackground, Sound, OwnerSound, Roster
<1>4. ASSUME NEW p \in Players, NEW q \in Players, NEW mode \in 0..1, CanStartWedding(r, p, q)
      PROVE  Sound(StartWedding(r, p, q, mode))
    <2> DEFINE w == [r.wedding EXCEPT !.mode = mode, !.initiator = p, !.target = q,
                                      !.pending = TRUE]
               s == [r EXCEPT !.wedding = w]
    <2>1. w.initiator = p /\ w.target = q /\ w.pending /\ w.active = r.wedding.active
        BY RoomFields DEF Weddings
    <2> HIDE DEF w
    <2>2. SeatsSound(s) /\ OwnerSound(s) /\ Roster(s) = Roster(r) /\ s.wedding = w
        BY <1>1
    <2> HIDE DEF s
    <2>3. p \in Roster(r) /\ q \in Roster(r) /\ p # q /\ ~r.wedding.active
        BY <1>4, RoomAssumption DEF CanStartWedding, ChatOwnerActs, OwnerActs, Sound,
                                    OwnerSound, WeddingFree, Nobody
    <2>4. WeddingSound(s)
        BY <2>1, <2>2, <2>3 DEF WeddingSound
    <2> QED
        BY <2>2, <2>4 DEF Sound, StartWedding, s, w
<1>5. ASSUME NEW p \in Players, NEW q \in Players, NEW accepted \in BOOLEAN,
             CanAnswerWedding(r, p, q)
      PROVE  Sound(AnswerWedding(r, accepted))
    <2> DEFINE w == IF accepted THEN [r.wedding EXCEPT !.pending = FALSE, !.active = TRUE]
                    ELSE NoWedding(r.wedding.mode)
               s == [r EXCEPT !.wedding = w]
    <2>1. CASE accepted
        <3>1. /\ w.initiator = r.wedding.initiator /\ w.target = r.wedding.target
              /\ ~w.pending /\ w.active
            BY <2>1, RoomFields DEF Weddings
        <3> HIDE DEF w
        <3>2. SeatsSound(s) /\ OwnerSound(s) /\ Roster(s) = Roster(r) /\ s.wedding = w
            BY <1>1
        <3> HIDE DEF s
        <3>3. WeddingSound(s)
            BY <1>5, <3>1, <3>2 DEF CanAnswerWedding, Sound, WeddingSound
        <3> QED
            BY <3>2, <3>3 DEF Sound, AnswerWedding, s, w
    <2>2. CASE ~accepted
        <3>1. w.initiator = Nobody /\ w.target = Nobody /\ ~w.pending /\ ~w.active
            BY <2>2 DEF NoWedding
        <3> HIDE DEF w
        <3>2. SeatsSound(s) /\ OwnerSound(s) /\ Roster(s) = Roster(r) /\ s.wedding = w
            BY <1>1
        <3> HIDE DEF s
        <3>3. WeddingSound(s)
            BY <3>1, <3>2 DEF WeddingSound
        <3> QED
            BY <3>2, <3>3 DEF Sound, AnswerWedding, s, w
    <2> QED
        BY <2>1, <2>2
<1> QED
    BY <1>2, <1>3, <1>4, <1>5

\* Start, settlement and completion keep a room sound.
LEMMA MatchIsSound ==
    ASSUME NEW r, IsRoom(r), Sound(r)
    PROVE  /\ \A game \in Nat \ {0} : Sound(StartMatch(r, game))
           /\ \A game \in Nat : CanBeginSettlement(r, game) => Sound(BeginSettlement(r))
           /\ Sound(CompleteMatch(r))
<1>1. ASSUME NEW game \in Nat \ {0} PROVE Sound(StartMatch(r, game))
    BY SameSoundness, RoomFields DEF StartMatch, Roster
<1>2. ASSUME NEW game \in Nat, CanBeginSettlement(r, game) PROVE Sound(BeginSettlement(r))
    BY <1>2, SameSoundness, RoomFields DEF BeginSettlement, Roster, CanBeginSettlement,
                                           Sound, OwnerSound
<1>3. Sound(CompleteMatch(r))
    <2> DEFINE s == CompleteMatch(r)
    <2>1. /\ Roster(s) = Roster(r)
          /\ \A p \in Roster(r) : s.members[p].seat = r.members[p].seat
          /\ s.locked = r.locked /\ s.settings = r.settings /\ s.owner = r.owner
          /\ s.phase = "preparing" /\ s.game = 0 /\ s.wedding = r.wedding
        BY RoomFields DEF CompleteMatch, Roster, IsMap, Member
    <2> HIDE DEF s
    <2> QED
        BY <2>1, SameSoundness DEF s
<1> QED
    BY <1>1, <1>2, <1>3

-----------------------------------------------------------------------------
(* Who is in the room after an operation *)

\* Join adds the newcomer and nobody else.
LEMMA JoinRoster ==
    ASSUME NEW r, IsRoom(r), NEW p, NEW team
    PROVE  Roster(Join(r, p, team)) = Roster(r) \cup {p}
BY RoomFields DEF Join, Put, Roster

\* Leave removes the departing member and nobody else.
LEMMA LeaveRoster ==
    ASSUME NEW r, IsRoom(r), NEW p
    PROVE  Roster(Leave(r, p)) = Roster(r) \ {p}
BY RoomFields DEF Leave, Drop, Restrict, Roster

\* The operations of the preparation phase keep the members.
LEMMA PreparationRosters ==
    ASSUME NEW r, IsRoom(r)
    PROVE  /\ \A p, team : Roster(SetTeam(r, p, team)) = Roster(r)
           /\ \A p, ready : Roster(SetReady(r, p, ready)) = Roster(r)
           /\ \A freeRule : Roster(UpdateProperties(r, freeRule)) = Roster(r)
           /\ \A seat, locked : Roster(SetSeatLocked(r, seat, locked)) = Roster(r)
           /\ \A s : Roster(UpdateSettings(r, s)) = Roster(r)
<1> USE RoomFields DEF Roster, IsMap
<1>1. /\ \A p, team : Roster(SetTeam(r, p, team)) = Roster(r)
      /\ \A p, ready : Roster(SetReady(r, p, ready)) = Roster(r)
    BY DEF SetTeam, SetReady
<1>2. /\ \A freeRule : Roster(UpdateProperties(r, freeRule)) = Roster(r)
      /\ \A seat, locked : Roster(SetSeatLocked(r, seat, locked)) = Roster(r)
      /\ \A s : Roster(UpdateSettings(r, s)) = Roster(r)
    BY DEF UpdateProperties, SetSeatLocked, UpdateSettings
<1> QED
    BY <1>1, <1>2

\* The chat-room operations keep the members.
LEMMA ChatRosters ==
    ASSUME NEW r, IsRoom(r)
    PROVE  /\ \A mode : Roster(SetWeddingMode(r, mode)) = Roster(r)
           /\ \A b : Roster(SetChatBackground(r, b)) = Roster(r)
           /\ \A p, q, mode : Roster(StartWedding(r, p, q, mode)) = Roster(r)
           /\ \A accepted : Roster(AnswerWedding(r, accepted)) = Roster(r)
BY RoomFields DEF SetWeddingMode, SetChatBackground, StartWedding, AnswerWedding, Roster

\* A match keeps the members of its room.
LEMMA MatchRosters ==
    ASSUME NEW r, IsRoom(r)
    PROVE  /\ \A game : Roster(StartMatch(r, game)) = Roster(r)
           /\ Roster(BeginSettlement(r)) = Roster(r)
           /\ Roster(CompleteMatch(r)) = Roster(r)
BY RoomFields DEF StartMatch, BeginSettlement, CompleteMatch, Roster

\* The operations of the preparation phase and the answer to a proposal change
\* neither phase nor game.
LEMMA PreparationKeepsPhase ==
    ASSUME NEW r, IsRoom(r)
    PROVE  LET Same(s) == s.phase = r.phase /\ s.game = r.game
           IN  /\ \A p, team : Same(Join(r, p, team))
               /\ \A p, ready : Same(SetReady(r, p, ready))
               /\ \A p, team : Same(SetTeam(r, p, team))
               /\ \A seat, locked : Same(SetSeatLocked(r, seat, locked))
               /\ \A f : Same(UpdateProperties(r, f))
               /\ \A s : Same(UpdateSettings(r, s))
               /\ \A mode : Same(SetWeddingMode(r, mode))
               /\ \A b : Same(SetChatBackground(r, b))
               /\ \A p, q, mode : Same(StartWedding(r, p, q, mode))
               /\ \A accepted : Same(AnswerWedding(r, accepted))
BY RoomFields DEF Join, SetReady, SetTeam, SetSeatLocked, UpdateProperties, UpdateSettings,
                  SetWeddingMode, SetChatBackground, StartWedding, AnswerWedding

\* A refused join leaves no trace: taking the newcomer out again gives back the
\* very room it tried to enter.
LEMMA JoinThenLeave ==
    ASSUME NEW r, IsRoom(r), Sound(r), NEW p \in Players, p \notin Roster(r), NEW team
    PROVE  Leave(Join(r, p, team), p) = r
<1> DEFINE j == Join(r, p, team)
           s == Leave(j, p)
<1>1. /\ Roster(j) = Roster(r) \cup {p} /\ j.owner = r.owner /\ j.wedding = r.wedding
      /\ Drop(j.members, p) = r.members
    BY RoomFields DEF Join, Roster, Put, Drop, Restrict, IsMap
<1>2. p \notin {r.wedding.initiator, r.wedding.target}
    BY RoomAssumption DEF Sound, WeddingSound, Nobody
<1>3. r.owner # p /\ (Roster(r) = {} => r.owner = Nobody)
    BY RoomAssumption DEF Sound, OwnerSound, Nobody
<1>4. s = [j EXCEPT !.members = r.members, !.owner = r.owner, !.wedding = r.wedding]
    BY <1>1, <1>2, <1>3 DEF Leave
<1> QED
    BY <1>4, RoomFields DEF Join
=============================================================================
