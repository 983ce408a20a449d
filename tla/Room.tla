-------------------------------- MODULE Room --------------------------------
(***************************************************************************)
(* One room of the game server: internal/game/room/state.go.               *)
(*                                                                         *)
(* A room is a record, and every method of State is a pair of operators    *)
(* over it: CanX(r, ...) is the conjunction of the method's early returns, *)
(* X(r, ...) the room after it.  World.tla owns the rooms and applies them *)
(* under World.mu.  Left out as data no property looks at: the room's name *)
(* and password, a member's role and identity, the competitive mode, the   *)
(* selected map's number and type, ContinueID and the revision counter.    *)
(***************************************************************************)
EXTENDS Naturals, FiniteSetsExt, Functions

CONSTANTS Players,         \* player IDs; ownership passes to the smallest
          SeatCount,       \* RoomSeatCount
          Teams,           \* team IDs a member can hold
          AdventureLimit,  \* participants of an adventure
          Backgrounds      \* chat-room backgrounds; 0 is the default

ASSUME RoomAssumption ==
    /\ Players \subseteq Nat \ {0} /\ IsFiniteSet(Players)
    /\ SeatCount \in Nat \ {0}
    /\ 1 \in Teams
    /\ AdventureLimit \in Nat
    /\ 0 \in Backgrounds

Seats == 1..SeatCount
Nobody == 0                                 \* the zero player ID

Competitive == {"standard", "loot"}         \* GameType 0 and 1, and 3
GameTypes == Competitive \cup {"adventure", "chat"}

\* MatchSettings.Validate: a random map carries no player limit.
Settings == {s \in [type: GameTypes, fixed: BOOLEAN, limit: 0..SeatCount] :
                s.fixed \/ s.limit = 0}

\* StartValidationOptions; virtual[t] is the number of AI players on team t.
Options == [single: BOOLEAN, defer: BOOLEAN, virtual: [Teams -> 0..SeatCount]]

Member == [team: Teams, seat: Seats, ready: BOOLEAN]
Phases == {"preparing", "inMatch", "settling"}
NoWedding(mode) == [mode |-> mode, initiator |-> Nobody, target |-> Nobody,
                    pending |-> FALSE, active |-> FALSE]
Weddings == [mode: 0..1, initiator: Players \cup {Nobody},
             target: Players \cup {Nobody}, pending: BOOLEAN, active: BOOLEAN]

\* Partial functions stand for Go maps: a key is present when it is in DOMAIN.
IsMap(f, S, T) == DOMAIN f \subseteq S /\ f \in [DOMAIN f -> T]
Put(f, k, v) == [x \in DOMAIN f \cup {k} |-> IF x = k THEN v ELSE f[x]]
Drop(f, k) == Restrict(f, DOMAIN f \ {k})

\* The rooms whose member table has the keys D.
RoomsOf(D) ==
    [owner: Players \cup {Nobody}, phase: Phases, game: Nat,
     settings: Settings, freeRule: BOOLEAN, locked: SUBSET Seats,
     members: [D -> Member], background: Backgrounds, wedding: Weddings]

-----------------------------------------------------------------------------
Roster(r) == DOMAIN r.members
IsRoom(r) == Roster(r) \subseteq Players /\ r \in RoomsOf(Roster(r))
Population(r) == Cardinality(Roster(r))
Open(r) == Seats \ r.locked
Taken(r) == {r.members[p].seat : p \in Roster(r)}
Free(r) == Open(r) \ Taken(r)

Capacity(r) ==
    LET open == Cardinality(Open(r))
    IN  IF r.settings.limit # 0 /\ open > r.settings.limit
        THEN r.settings.limit ELSE open

\* Mutation: the seat after the last one taken, whatever was freed before it.
SeatAfterLast(r) == Max(Taken(r) \cup {0}) + 1

FirstAvailableSeat(r) == Min(Free(r))

OwnerActs(r, p) == p = r.owner /\ r.phase = "preparing"

-----------------------------------------------------------------------------
(* Membership *)

\* New, then UpdateProperties by the owner, as World.createRoomLocked does.
NewRoom(p, settings, freeRule) ==
    [owner |-> p, phase |-> "preparing", game |-> 0, settings |-> settings,
     freeRule |-> freeRule, locked |-> {},
     members |-> [q \in {p} |-> [team |-> 1, seat |-> 1, ready |-> FALSE]],
     background |-> 0, wedding |-> NoWedding(0)]

\* Mutation: a running match accepts newcomers.
CanJoinAnyPhase(r, p) ==
    p \notin Roster(r) /\ Population(r) < Capacity(r) /\ Free(r) # {}

CanJoin(r, p) ==
    /\ r.phase = "preparing"
    /\ p \notin Roster(r)
    /\ Population(r) < Capacity(r)
    /\ Free(r) # {}

Join(r, p, team) ==
    LET newcomer == [team |-> team, seat |-> FirstAvailableSeat(r), ready |-> FALSE]
    IN  [r EXCEPT !.members = Put(@, p, newcomer)]

\* The departed partner ends a wedding; the smallest remaining ID inherits.
Leave(r, p) ==
    LET remaining == Roster(r) \ {p}
        partner == p \in {r.wedding.initiator, r.wedding.target}
    IN  [r EXCEPT
           !.members = Drop(@, p),
           !.owner = IF remaining = {} THEN Nobody
                     ELSE IF r.owner = p THEN Min(remaining) ELSE r.owner,
           !.wedding = IF partner THEN NoWedding(r.wedding.mode) ELSE @]

-----------------------------------------------------------------------------
(* Preparation *)

CanUpdateMember(r, p) == r.phase = "preparing" /\ p \in Roster(r)
SetTeam(r, p, team) == [r EXCEPT !.members[p].team = team]
SetReady(r, p, ready) == [r EXCEPT !.members[p].ready = ready]

UpdateProperties(r, freeRule) == [r EXCEPT !.freeRule = freeRule]

\* Mutation: an occupied seat can be locked.
CanLockAnySeat(r, p, seat, locked) == OwnerActs(r, p)

CanSetSeatLocked(r, p, seat, locked) ==
    OwnerActs(r, p) /\ (locked => seat \notin Taken(r))
SetSeatLocked(r, seat, locked) ==
    [r EXCEPT !.locked = IF locked THEN @ \cup {seat} ELSE @ \ {seat}]

CanUpdateSettings(r, p, s) ==
    OwnerActs(r, p) /\ (s.limit # 0 => Population(r) <= s.limit)
UpdateSettings(r, s) == [r EXCEPT !.settings = s]

-----------------------------------------------------------------------------
(* Chat rooms *)

ChatOwnerActs(r, p) == OwnerActs(r, p) /\ r.settings.type = "chat"
WeddingFree(r) == ~r.wedding.pending /\ ~r.wedding.active

CanSetWeddingMode(r, p) == ChatOwnerActs(r, p) /\ WeddingFree(r)
SetWeddingMode(r, mode) == [r EXCEPT !.wedding.mode = mode]

SetChatBackground(r, background) == [r EXCEPT !.background = background]

\* Mutation: a new proposal replaces the pending one.
CanProposeAgain(r, p, target) ==
    ChatOwnerActs(r, p) /\ ~r.wedding.active /\ target # p /\ target \in Roster(r)

CanStartWedding(r, p, target) ==
    ChatOwnerActs(r, p) /\ WeddingFree(r) /\ target # p /\ target \in Roster(r)
StartWedding(r, p, target, mode) ==
    [r EXCEPT !.wedding = [@ EXCEPT !.mode = mode, !.initiator = p,
                                    !.target = target, !.pending = TRUE]]

\* The only operation that looks neither at the phase nor at the game type.
CanAnswerWedding(r, p, initiator) ==
    /\ r.wedding.pending
    /\ r.wedding.target = p
    /\ r.wedding.initiator = initiator
AnswerWedding(r, accepted) ==
    [r EXCEPT !.wedding =
        IF accepted THEN [@ EXCEPT !.pending = FALSE, !.active = TRUE]
        ELSE NoWedding(r.wedding.mode)]

-----------------------------------------------------------------------------
(* The life of a match *)

TeamSize(r, options, t) ==
    Cardinality({p \in Roster(r) : r.members[p].team = t}) + options.virtual[t]

Virtual(options) == SumFunction(options.virtual)

TopologyAllows(r, options) ==
    LET participants == Population(r) + Virtual(options)
        teams == {t \in Teams : TeamSize(r, options, t) # 0}
        size(t) == TeamSize(r, options, t)
        Balanced == IF r.settings.type = "loot"
                    THEN \A t \in teams : size(t) = 1
                    ELSE r.freeRule \/ \A t, u \in teams : size(t) = size(u)
    IN  /\ participants <= Capacity(r)
        /\ IF participants = 1 THEN options.single
           ELSE participants >= 2 /\ Cardinality(teams) >= 2 /\ Balanced

EveryoneReady(r) == \A p \in Roster(r) \ {r.owner} : r.members[p].ready

ValidateStart(r, p, options) ==
    /\ OwnerActs(r, p)
    /\ r.game = 0
    /\ Roster(r) # {}
    /\ \/ r.settings.type = "adventure" /\ Population(r) <= AdventureLimit
       \/ r.settings.type \in Competitive /\ (options.defer \/ TopologyAllows(r, options))
    /\ EveryoneReady(r)

StartMatch(r, game) == [r EXCEPT !.phase = "inMatch", !.game = game]

CanBeginSettlement(r, game) == r.phase = "inMatch" /\ r.game = game
BeginSettlement(r) == [r EXCEPT !.phase = "settling"]

CanCompleteMatch(r, game) == r.phase \in {"inMatch", "settling"} /\ r.game = game

\* Mutation: the ready flags of the finished match survive it.
CompleteKeepsReady(r) == [r EXCEPT !.phase = "preparing", !.game = 0]

CompleteMatch(r) ==
    [r EXCEPT !.phase = "preparing", !.game = 0,
              !.members = [p \in Roster(r) |-> [r.members[p] EXCEPT !.ready = FALSE]]]

-----------------------------------------------------------------------------
(* Properties of one room *)

\* Members sit on distinct unlocked seats and never outnumber the capacity the
\* lobby advertises.
SeatsSound(r) ==
    /\ \A p \in Roster(r) : r.members[p].seat \in Open(r)
    /\ \A p, q \in Roster(r) : r.members[p].seat = r.members[q].seat => p = q
    /\ Population(r) <= Capacity(r)

\* A room has an owner among its members as long as it has members, and an
\* active game exactly while it is not preparing.
OwnerSound(r) ==
    /\ r.owner \in Roster(r) \/ (Roster(r) = {} /\ r.owner = Nobody)
    /\ r.phase = "preparing" <=> r.game = 0

\* A wedding, proposed or running, binds two different current members: a
\* partner who leaves and comes back finds no trace of it.
WeddingSound(r) ==
    LET w == r.wedding
    IN  /\ ~(w.pending /\ w.active)
        /\ IF w.pending \/ w.active
           THEN {w.initiator, w.target} \subseteq Roster(r) /\ w.initiator # w.target
           ELSE w.initiator = Nobody /\ w.target = Nobody

Sound(r) == SeatsSound(r) /\ OwnerSound(r) /\ WeddingSound(r)
=============================================================================
