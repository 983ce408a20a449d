----------------------------- MODULE Competitive ----------------------------
(***************************************************************************)
(* One competitive battle: internal/game/match/competitive*.go.            *)
(*                                                                         *)
(* A battle is a record.  CanX(b, ...) is the conjunction of a method's    *)
(* error returns, X(b, ...) the battle after it; a method that finds       *)
(* nothing to do returns b.  Its resolution is "newly concluded" when b    *)
(* was open and X(b, ...) is concluded.  Rounds.tla delivers the clients'  *)
(* reports, Matches.tla the conclusions.  Left out as data no property     *)
(* looks at: points, scene items and their budgets, rescue and objective   *)
(* statistics, native NPCs, boss skills, the mirror of what each player    *)
(* carries and of what lies loose, which nothing reads, and the event keys *)
(* with which an exact repetition of a bun, gem or sculpture event is      *)
(* recognised (it changes nothing), and hits on a transformed shell, which *)
(* cost no layer.                                                          *)
(***************************************************************************)
EXTENDS Naturals, FiniteSetsExt, Functions

CONSTANTS Fighters,        \* player IDs
          TeamIDs,         \* team colours
          Bosses,          \* entity IDs of a boss encounter
          BaseHP,          \* 100, the hit points of a tank base
          Repair,          \* 30
          Damages,         \* 5 and 10
          Pieces,          \* competitiveSculptureRequiredPieces
          GemTarget,       \* TreasureTargetPerTeamMember
          HitLimit,        \* NativeHitLimit
          Hits             \* <<player, hit>>: hits told apart by time and place

ASSUME BattleAssumption ==
    /\ Fighters \subseteq Nat \ {0} /\ IsFiniteSet(Fighters)
    /\ TeamIDs \subseteq Nat \ {0} /\ IsFiniteSet(TeamIDs)
    /\ Bosses # {} /\ IsFiniteSet(Bosses) /\ IsFiniteSet(Hits)
    /\ {BaseHP, Repair, Pieces, GemTarget, HitLimit} \subseteq Nat \ {0}
    /\ Damages \subseteq Nat \ {0}
    /\ \A hit \in Hits : hit = <<hit[1], hit[2]>> /\ hit[1] \in Fighters

\* The registered native rules, and the boss overlay as a rule of its own.
Timed == {"bun", "wrestle", "treasure", "sculpture", "tank"}
Permanent == {"elimination", "boss"}
Rules == Timed \cup Permanent \cup {"durability"}

Draw == 0                                     \* no team ID
Nobody == 0                                   \* the zero player ID

Roster(b) == DOMAIN b.team
TeamsOf(b) == Range(b.team)
Connected(b) == Roster(b) \ b.departed
ConnectedTeams(b) == {b.team[p] : p \in Connected(b)}
LivingTeams(b) == {b.team[p] : p \in b.alive}
Side(b, t) == {p \in Roster(b) : b.team[p] = t}

\* The preferred human, or the one with the smallest ID; an AI never.
Arbitrators(b, S) == S \ b.ai
SelectArbitrator(b, preferred, S) ==
    IF preferred \in Arbitrators(b, S) THEN preferred ELSE Min(Arbitrators(b, S))

\* Only opposed elimination rounds are filled with AI players; a boss round has
\* one team, every other at least two.
CanNewBattle(rule, team, ai, arbitrator) ==
    /\ arbitrator \in DOMAIN team \ ai
    /\ ai # {} => rule = "elimination"
    /\ IF rule = "boss" THEN Cardinality(Range(team)) = 1
                        ELSE Cardinality(Range(team)) >= 2

NewBattle(rule, team, ai, arbitrator) ==
    LET all == DOMAIN team
        zero == [p \in all |-> 0]
        teams == Range(team)
    IN  [rule |-> rule, team |-> team, ai |-> ai, arbitrator |-> arbitrator,
         alive |-> all, departed |-> {}, trapped |-> {}, dying |-> {}, kills |-> zero,
         bosses |-> IF rule = "boss" THEN Bosses ELSE {},
         hp |-> [t \in teams |-> BaseHP],
         stored |-> [t \in teams |-> [u \in teams |->
                        IF u = t THEN Cardinality({p \in all : team[p] = t}) ELSE 0]],
         pieces |-> [t \in teams |-> 0], gems |-> zero,
         layers |-> [p \in all |-> HitLimit], unpaired |-> zero,
         harms |-> {}, deaths |-> {}, early |-> {}, confirmed |-> {},
         concluded |-> FALSE, draw |-> FALSE, winner |-> Draw,
         grace |-> FALSE, woken |-> FALSE]

-----------------------------------------------------------------------------
(* Conclusion *)

Conclude(b) == [b EXCEPT !.concluded = TRUE]
Award(b, t) == [b EXCEPT !.concluded = TRUE, !.winner = t, !.draw = (t = Draw)]

\* Mutation: a team needs a living member, whatever its base could bring back.
ViableLiving(b) == {t \in LivingTeams(b) : b.hp[t] > 0}

\* A tank team goes on while somebody of it is connected and either its base
\* stands or a member lives.
ViableTeams(b) == {t \in ConnectedTeams(b) : b.hp[t] > 0 \/ t \in LivingTeams(b)}

\* maybeConcludeTankLocked
ConcludeTank(b) ==
    IF b.rule # "tank" \/ b.concluded \/ Cardinality(ViableTeams(b)) > 1 THEN b
    ELSE [Award(b, IF ViableTeams(b) = {} THEN Draw ELSE CHOOSE t \in ViableTeams(b) : TRUE)
            EXCEPT !.arbitrator = Nobody]

\* After a permanent death.  The client's rule object concludes the others,
\* except that it has no event left once a cooperative team is dead.
ConcludeElimination(b) ==
    IF \/ b.rule = "elimination" /\ Cardinality(LivingTeams(b)) <= 1
       \/ b.rule = "boss" /\ b.alive = {}
    THEN Conclude(b) ELSE b

\* The team with the highest total, if it is the only one (timeoutWinner and
\* timeoutWinnerByPlayerValues).
Leader(total) ==
    LET best == {t \in DOMAIN total : \A u \in DOMAIN total : total[u] <= total[t]}
    IN  IF Cardinality(best) = 1 THEN CHOOSE t \in best : TRUE ELSE Draw

\* resolution(): the named winner, or whoever is left standing.
WinnerTeams(b) ==
    IF b.winner # Draw THEN {b.winner} ELSE IF b.draw THEN {} ELSE LivingTeams(b)
AllPlayersLost(b) == b.concluded /\ b.rule = "boss" /\ WinnerTeams(b) = {}
Result(b, p) ==
    IF b.team[p] \in WinnerTeams(b) THEN "win"
    ELSE IF WinnerTeams(b) = {} /\ ~AllPlayersLost(b) THEN "draw" ELSE "loss"

-----------------------------------------------------------------------------
(* Traps, kills, rescues and deaths *)

\* Mutation: a player who has died or left can still be trapped.
TrapAnybody(b, p) ==
    IF b.concluded THEN b ELSE [b EXCEPT !.trapped = @ \cup {p}, !.dying = @ \ {p}]

RecordTrapped(b, p) ==
    IF b.concluded \/ p \notin b.alive THEN b
    ELSE [b EXCEPT !.trapped = @ \cup {p}, !.dying = @ \ {p}]

\* validateInteractionLocked
Interact(b, p, q, same) ==
    p # q /\ {p, q} \subseteq b.alive /\ ((b.team[p] = b.team[q]) <=> same)

CanKill(b, p, q) == b.concluded \/ q \notin b.alive \/ Interact(b, p, q, FALSE)

\* Mutation: every confirmation of a collision is counted.
KillEveryReport(b, p, q) ==
    IF b.concluded \/ q \notin b.alive THEN b
    ELSE LET hit == [b EXCEPT !.kills[p] = @ + 1,
                              !.trapped = @ \ {q}, !.dying = @ \cup {q}]
         IN  IF b.rule = "durability" THEN hit
             ELSE IF b.rule \in Timed THEN ConcludeTank([hit EXCEPT !.alive = @ \ {q}])
             ELSE ConcludeElimination([hit EXCEPT !.alive = @ \ {q}, !.dying = @ \ {q}])

\* Timed rules bring the victim back, durability rules own its hit points.
RecordKill(b, p, q) ==
    IF b.concluded \/ q \notin b.alive THEN b
    ELSE LET hit == [b EXCEPT !.kills[p] = IF q \in b.dying THEN @ ELSE @ + 1,
                              !.trapped = @ \ {q}, !.dying = @ \cup {q}]
         IN  IF b.rule = "durability" THEN hit
             ELSE IF b.rule \in Timed THEN ConcludeTank([hit EXCEPT !.alive = @ \ {q}])
             ELSE ConcludeElimination([hit EXCEPT !.alive = @ \ {q}, !.dying = @ \ {q}])

Clear(b, p) == [b EXCEPT !.trapped = @ \ {p}, !.dying = @ \ {p}]
Fall(b, p) == [Clear(b, p) EXCEPT !.alive = @ \ {p}]

CanBossKill(b, boss, p) ==
    /\ b.rule = "boss" /\ boss \in b.bosses
    /\ b.concluded \/ p \notin b.alive \/ p \in b.trapped
RecordBossKill(b, p) ==
    IF b.concluded \/ p \notin b.alive THEN b ELSE ConcludeElimination(Fall(b, p))

CanRescue(b, p, q) == b.concluded \/ Interact(b, p, q, TRUE)
RecordRescue(b, q) ==
    IF b.concluded THEN b ELSE Clear(b, q)

RecordDeath(b, p) ==
    IF b.concluded \/ p \notin b.alive THEN b
    ELSE IF b.rule = "durability" THEN Clear(b, p)
    ELSE IF b.rule \in Timed THEN ConcludeTank(Fall(b, p))
    ELSE ConcludeElimination(Fall(b, p))

\* Mutation: a destroyed base brings its team back.
CanRespawnAnyBase(b, p) ==
    ~b.concluded /\ b.rule \in Timed /\ p \in Connected(b)

CanRespawn(b, p) ==
    /\ ~b.concluded /\ b.rule \in Timed /\ p \in Connected(b)
    /\ b.rule = "tank" => b.hp[b.team[p]] > 0
RecordRespawn(b, p) ==
    [Clear(b, p) EXCEPT !.alive = @ \cup {p}]

-----------------------------------------------------------------------------
(* The boss encounter: its end decides, the delivery of the result is delayed *)

\* Mutation: the winner is left to the players alive when the result is read.
BossDeathUnawarded(b, boss) ==
    LET rest == [b EXCEPT !.bosses = @ \ {boss}]
    IN  IF b.concluded \/ boss \notin b.bosses \/ rest.bosses # {} THEN
            IF b.concluded THEN b ELSE rest
        ELSE [Conclude(rest) EXCEPT !.grace = TRUE]

RecordBossDeath(b, boss) ==
    LET rest == [b EXCEPT !.bosses = @ \ {boss}]
    IN  IF b.concluded \/ boss \notin b.bosses THEN b
        ELSE IF rest.bosses # {} THEN rest
        ELSE [Award(rest, CHOOSE t \in TeamsOf(b) : TRUE) EXCEPT !.grace = TRUE]

Wake(b) == IF b.alive = {} THEN [b EXCEPT !.woken = TRUE] ELSE b
RecordGraceDeath(b, p) == IF b.grace THEN Wake(Fall(b, p)) ELSE b
RecordGraceDeparture(b, p) ==
    IF b.grace THEN Wake([Fall(b, p) EXCEPT !.departed = @ \cup {p}]) ELSE b
CompleteGrace(b) == [b EXCEPT !.grace = FALSE]

-----------------------------------------------------------------------------
(* Objectives *)

\* A base at zero stays at zero.
ChangeBase(b, t, hp) ==
    IF b.concluded \/ b.hp[t] = 0 THEN b ELSE ConcludeTank([b EXCEPT !.hp[t] = hp])

\* A player repairs its own base and damages the others.
CanChangeBase(b, p, t, repair) ==
    b.rule = "tank" /\ p \in Connected(b) /\ ((t = b.team[p]) <=> repair)
RepairUncapped(b, t) == ChangeBase(b, t, b.hp[t] + Repair)      \* Mutation
RepairBase(b, t) == ChangeBase(b, t, Min({b.hp[t] + Repair, BaseHP}))
DamageBase(b, t, loss) == ChangeBase(b, t, IF b.hp[t] > loss THEN b.hp[t] - loss ELSE 0)

CanTouchBun(b, p) == b.rule = "bun" /\ (b.concluded \/ p \in Connected(b))

\* From its home base, unless the service missed how it left.
TakeBun(b, u) ==
    IF b.concluded \/ b.stored[u][u] = 0 THEN b ELSE [b EXCEPT !.stored[u][u] = @ - 1]

HasCapturedEveryOpponent(b, t) ==
    \A u \in TeamsOf(b) \ {t} : b.stored[t][u] >= Cardinality(Side(b, u))

PutBun(b, p, u) ==
    LET t == b.team[p]
        put == [b EXCEPT !.stored[t][u] = @ + 1]
    IN  IF b.concluded THEN b
        ELSE IF HasCapturedEveryOpponent(put, t) THEN Award(put, t) ELSE put

CanDepositPiece(b, p) ==
    b.rule = "sculpture" /\ (b.concluded \/ (p \in Connected(b) /\ b.pieces[b.team[p]] < Pieces))
DepositPiece(b, p) ==
    LET t == b.team[p]
        more == [b EXCEPT !.pieces[t] = @ + 1]
    IN  IF b.concluded THEN b
        ELSE IF more.pieces[t] = Pieces THEN Award(more, t) ELSE more

\* A bomb takes one piece off the unfinished statue next to it.
ExplodeStatue(b, t) ==
    IF b.concluded \/ b.pieces[t] \notin 1..(Pieces - 1) THEN b
    ELSE [b EXCEPT !.pieces[t] = @ - 1]

TeamTotal(team, f) == [t \in Range(team) |-> SumFunctionOnSet(f, {p \in DOMAIN team : team[p] = t})]

CanPickGem(b, p) == b.rule = "treasure" /\ (b.concluded \/ p \in Connected(b))
PickGem(b, p, value) ==
    LET t == b.team[p]
        more == [b EXCEPT !.gems[p] = @ + value]
    IN  IF b.concluded THEN b
        ELSE IF TeamTotal(more.team, more.gems)[t] >= GemTarget * Cardinality(Side(b, t)) THEN Award(more, t)
        ELSE more

\* Reported with a death or a kill, before either is examined.
ScatterGems(b, p) == IF b.rule = "treasure" THEN [b EXCEPT !.gems[p] = 0] ELSE b

-----------------------------------------------------------------------------
(* Durability: a hit is reported as a harm, a death of one layer, or both *)

Charge(b, p) == [b EXCEPT !.layers[p] = IF @ > 0 THEN @ - 1 ELSE 0]

\* Mutation: a harm does not look whether its death report has been charged.
HarmChargesTwice(b, p, h) ==
    IF \/ b.concluded \/ p \in b.departed \cup b.confirmed \/ <<p, h>> \in b.harms
    THEN b
    ELSE [Charge(b, p) EXCEPT !.harms = @ \cup {<<p, h>>}, !.unpaired[p] = @ + 1]

RecordHarm(b, p, h) ==
    LET seen == [b EXCEPT !.harms = @ \cup {<<p, h>>}]
    IN  IF b.concluded \/ p \in b.departed \cup b.confirmed \/ <<p, h>> \in b.harms THEN b
        ELSE IF <<p, h>> \in b.early THEN [seen EXCEPT !.early = @ \ {<<p, h>>}]
        ELSE [Charge(seen, p) EXCEPT !.unpaired[p] = @ + 1]

RecordDurabilityDeath(b, p, h) ==
    LET seen == [b EXCEPT !.deaths = @ \cup {<<p, h>>}]
        paired == IF b.unpaired[p] > 0 THEN [seen EXCEPT !.unpaired[p] = @ - 1]
                  ELSE IF b.layers[p] > 0
                  THEN [Charge(seen, p) EXCEPT !.early = @ \cup {<<p, h>>}]
                  ELSE seen
        fallen == [Fall(paired, p) EXCEPT !.confirmed = @ \cup {p}]
    IN  IF b.concluded \/ p \in b.confirmed \/ <<p, h>> \in b.deaths THEN b
        ELSE IF paired.layers[p] > 0 THEN paired
        ELSE IF Cardinality(LivingTeams(fallen)) <= 1 THEN Conclude(fallen) ELSE fallen

-----------------------------------------------------------------------------
(* Departures and the clock *)

\* Mutation: the scene stays with the player who has left.
DepartKeepsArbitrator(b, p) ==
    LET left == [Fall(b, p) EXCEPT !.departed = @ \cup {p}]
    IN  IF Arbitrators(left, Connected(left)) = {}
        THEN Award(left, IF Cardinality(ConnectedTeams(left)) = 1
                         THEN CHOOSE t \in ConnectedTeams(left) : TRUE ELSE Draw)
        ELSE left

\* The round after a departure that leaves a client in it.
AfterDeparture(b) ==
    IF b.rule = "boss" THEN (IF b.alive = {} THEN [Conclude(b) EXCEPT !.arbitrator = Nobody] ELSE b)
    ELSE IF b.rule = "tank" THEN ConcludeTank(b)
    ELSE IF Cardinality(ConnectedTeams(b)) > 1 THEN b
    ELSE [Award(b, IF ConnectedTeams(b) = {} THEN Draw
                   ELSE CHOOSE t \in ConnectedTeams(b) : TRUE) EXCEPT !.arbitrator = Nobody]

\* The scene passes to a connected human; a round left to AI players ends.
RecordDeparture(b, p) ==
    LET left == [Fall(b, p) EXCEPT !.departed = @ \cup {p}]
        rest == Connected(left)
        teams == ConnectedTeams(left)
    IN  IF b.concluded \/ p \in b.departed THEN b
        ELSE IF rest = {} THEN AfterDeparture([left EXCEPT !.arbitrator = Nobody])
        ELSE IF p # b.arbitrator THEN AfterDeparture(left)
        ELSE IF Arbitrators(b, rest) = {}
        THEN [Award(left, IF Cardinality(teams) = 1 THEN CHOOSE t \in teams : TRUE ELSE Draw)
                EXCEPT !.arbitrator = Nobody]
        ELSE AfterDeparture([left EXCEPT !.arbitrator = SelectArbitrator(b, p, rest)])

\* Mutation: a boss round that runs out of time is a draw.
TimeoutDraws(b) ==
    IF b.concluded THEN (IF b.grace THEN [b EXCEPT !.woken = TRUE] ELSE b) ELSE Award(b, Draw)

Stored(b) == [t \in TeamsOf(b) |-> SumFunction(b.stored[t])]

\* The deadline wakes a delivery that waits, or ends the round by its score.
ConcludeTimeout(b) ==
    IF b.concluded THEN (IF b.grace THEN [b EXCEPT !.woken = TRUE] ELSE b)
    ELSE IF ConcludeTank(b).concluded THEN ConcludeTank(b)
    ELSE CASE b.rule = "bun"       -> Award(b, Leader(Stored(b)))
           [] b.rule = "sculpture" -> Award(b, Leader(b.pieces))
           [] b.rule = "wrestle"   -> Award(b, Leader(TeamTotal(b.team, b.kills)))
           [] b.rule = "treasure"  -> Award(b, Leader(TeamTotal(b.team, b.gems)))
           [] b.rule = "boss"      -> Conclude([b EXCEPT !.alive = {}, !.trapped = {}, !.dying = {}])
           [] OTHER                -> Award(b, Draw)
=============================================================================
