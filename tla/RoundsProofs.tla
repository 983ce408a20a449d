---------------------------- MODULE RoundsProofs ----------------------------
(***************************************************************************)
(* Theorems about a competitive battle (Competitive.tla) under the reports *)
(* of its clients (Rounds.tla), for any lineups of players, teams and AI   *)
(* players under any rule.                                                 *)
(***************************************************************************)
EXTENDS Rounds, FiniteSetTheorems, TLAPS

-----------------------------------------------------------------------------
(* Battles *)

\* What is counted for each player and each team of a lineup.
Counts(team) == [DOMAIN team -> Nat]
Lives(team) == [DOMAIN team -> 0..HitLimit]
Bases(team) == [Range(team) -> 0..BaseHP]
Statues(team) == [Range(team) -> 0..Pieces]
Stores(team) == [Range(team) -> [Range(team) -> Nat]]

\* The battles of a lineup: team is who plays in which team.
Battles(team) ==
    [rule : Rules, team : {team}, ai : SUBSET DOMAIN team,
     arbitrator : DOMAIN team \cup {Nobody},
     alive : SUBSET DOMAIN team, departed : SUBSET DOMAIN team,
     trapped : SUBSET DOMAIN team, dying : SUBSET DOMAIN team,
     kills : Counts(team), bosses : SUBSET Bosses,
     hp : Bases(team), stored : Stores(team), pieces : Statues(team),
     gems : Counts(team), layers : Lives(team), unpaired : Counts(team),
     harms : SUBSET Hits, deaths : SUBSET Hits, early : SUBSET Hits,
     confirmed : SUBSET DOMAIN team,
     concluded : BOOLEAN, draw : BOOLEAN, winner : Range(team) \cup {Draw},
     grace : BOOLEAN, woken : BOOLEAN]

\* A lineup puts players into teams.
Lineup(team) ==
    /\ DOMAIN team \subseteq Fighters
    /\ team \in [DOMAIN team -> TeamIDs]

-----------------------------------------------------------------------------
(* The invariant of a battle *)

\* The dead are not trapped, the departed and the confirmed are dead, only tank bases
\* fall, only elimination rounds have AI players and a boss party is one team.
Seated(b) ==
    /\ b.trapped \subseteq b.alive
    /\ b.alive \cap (b.departed \cup b.confirmed) = {}
    /\ b.rule # "durability" => b.confirmed = {}
    /\ b.rule # "tank" => \A t \in TeamsOf(b) : b.hp[t] # 0
    /\ b.rule # "elimination" => b.ai = {}
    /\ b.rule = "boss" => Cardinality(TeamsOf(b)) = 1

\* Nothing of a verdict is there before it.
Undecided(b) == ~b.concluded /\ b.winner = Draw /\ ~b.draw /\ ~b.grace

\* A verdict without a winner and without a draw is left to the teams alive, of
\* which there is one at most; a grace delays a victory that has been awarded.
Decided(b) ==
    /\ ~b.concluded => Undecided(b)
    /\ b.draw => b.winner = Draw
    /\ b.grace => b.winner # Draw
    /\ b.concluded /\ b.winner = Draw /\ ~b.draw => Cardinality(LivingTeams(b)) <= 1
    /\ b.concluded /\ b.rule = "boss" =>
            ~b.draw /\ IF b.winner = Draw THEN b.alive = {} ELSE b.bosses = {}

\* OpenRoundGoesOn of a battle.
GoesOn(b) ==
    ~b.concluded =>
        /\ b.arbitrator \in Connected(b) \ b.ai
        /\ IF b.rule = "boss" THEN b.alive # {} /\ b.bosses # {}
           ELSE Cardinality(ConnectedTeams(b)) > 1
        /\ b.rule = "tank" => Cardinality(ViableTeams(b)) > 1

Sound(b) == Seated(b) /\ Decided(b) /\ GoesOn(b)

\* The layers that the reports of a player have charged: one for each harm, and one
\* for each death that came before its harm, or whose harm another death had taken.
Charges(b, p) == Cardinality(Of(b.harms, p)) + Cardinality(Of(b.early, p))

\* The lost layers are those charged.  While one is left, every death is paired with
\* a harm or has charged its own, and a hit charged by both comes with a death that
\* charged none.
HitsCounted(b) ==
    /\ b.early \subseteq b.deaths
    /\ \A p \in Roster(b) :
        /\ HitLimit - b.layers[p] = Min({HitLimit, Charges(b, p)})
        /\ b.layers[p] > 0 => Cardinality(Of(b.deaths, p)) + b.unpaired[p] = Charges(b, p)
        /\ Cardinality(Of(b.early \cap b.harms, p)) <= Cardinality(Of(b.deaths \ b.early, p))

\* The inductive invariant.
Inv ==
    /\ Lineup(battle.team) /\ battle \in Battles(battle.team)
    /\ \A p \in Participants : battle.kills[p] <= MaxKills[battle.rule]
    /\ Sound(battle)
    /\ HitsCounted(battle)

-----------------------------------------------------------------------------
(* What a report may do to a battle *)

\* What the verdict of a concluded battle is read from is left alone.
Locked(b, c) ==
    b.concluded => /\ c.concluded /\ c.winner = b.winner /\ c.draw = b.draw
                   /\ c.kills = b.kills
                   /\ c.alive = b.alive \/ b.winner # Draw

\* LossesAreFinal of a step.
Loses(b, c) ==
    /\ b.rule \in Permanent \cup {"durability"} => c.alive \subseteq b.alive
    /\ \A t \in TeamsOf(b) :
            b.hp[t] = 0 => c.hp[t] = 0 /\ c.alive \cap Side(b, t) \subseteq b.alive

\* LosersAreBeaten of a battle.
FairlyLost(c) ==
    \A p \in Connected(c) : Result(c, p) = "loss" => Beaten(c, c.team[p])
Fair(b, c) == ~b.concluded /\ c.concluded => FairlyLost(c)

\* The hits of a durability rule are not touched.
SameHits(b, c) ==
    /\ c.layers = b.layers /\ c.unpaired = b.unpaired
    /\ c.harms = b.harms /\ c.deaths = b.deaths /\ c.early = b.early

Step(b, c) ==
    /\ c \in Battles(b.team) /\ c.rule = b.rule
    /\ Sound(c) /\ Locked(b, c) /\ Loses(b, c)

\* A report that is not a kill, a hit or the clock's.
Report(b, c) == Step(b, c) /\ Fair(b, c) /\ c.kills = b.kills /\ SameHits(b, c)

\* A battle that differs in its end and its arbitrator alone.
Ends(b, c) ==
    /\ c.rule = b.rule /\ c.team = b.team /\ c.ai = b.ai
    /\ c.alive = b.alive /\ c.departed = b.departed /\ c.trapped = b.trapped
    /\ c.dying = b.dying /\ c.kills = b.kills /\ c.bosses = b.bosses
    /\ c.hp = b.hp /\ c.stored = b.stored /\ c.pieces = b.pieces /\ c.gems = b.gems
    /\ c.confirmed = b.confirmed /\ c.grace = b.grace
    /\ SameHits(b, c)

-----------------------------------------------------------------------------
(* Players and teams *)

\* The teams of a battle are finite sets of team colours, and none is called a draw.
LEMMA Teams ==
    ASSUME NEW team, Lineup(team), NEW b \in Battles(team)
    PROVE  /\ b.team = team /\ TeamsOf(b) = Range(team)
           /\ IsFiniteSet(Range(team)) /\ Draw \notin Range(team)
           /\ \A p \in DOMAIN team : team[p] \in Range(team)
           /\ LivingTeams(b) \subseteq Range(team)
           /\ ViableTeams(b) \subseteq ConnectedTeams(b)
           /\ ConnectedTeams(b) \subseteq Range(team)
<1>1. b.team = team /\ b.alive \subseteq DOMAIN team
    BY DEF Battles
<1>2. Range(team) \subseteq TeamIDs
    BY DEF Lineup, Range
<1>3. IsFiniteSet(Range(team)) /\ Draw \notin Range(team)
    BY <1>2, FS_Subset, BattleAssumption DEF Draw
<1>4. \A p \in DOMAIN team : team[p] \in Range(team)
    BY DEF Range
<1> QED
    BY <1>1, <1>3, <1>4 DEF TeamsOf, LivingTeams, ViableTeams, ConnectedTeams, Connected, Roster

\* A nonempty set of natural numbers has a least element, which Min returns.
LEMMA MinOfNaturals ==
    ASSUME NEW S \in SUBSET Nat, S # {}
    PROVE  Min(S) \in S /\ \A y \in S : Min(S) <= y
<1> DEFINE R == OpToRel(<, Nat)
<1>1. \E x \in S : \A y \in S : ~(<<y, x>> \in R)
    <2>1. IsWellFoundedOn(R, Nat)
        BY NatLessThanWellFounded
    <2> HIDE DEF R
    <2> QED
        BY <2>1, WFMin
<1>2. PICK x \in S : \A y \in S : ~(<<y, x>> \in R)
    BY <1>1
<1>3. \A y \in S : ~(y < x)
    BY <1>2 DEF OpToRel
<1>4. \A y \in S : x <= y
    BY <1>3
<1> QED
    BY <1>4 DEF Min

\* Sets of at most one and of more than one element.
LEMMA Sizes ==
    ASSUME NEW S, IsFiniteSet(S), NEW T \in SUBSET S
    PROVE  /\ IsFiniteSet(T)
           /\ Cardinality(T) > 1 => Cardinality(S) > 1
           /\ Cardinality(T) \in Nat
           /\ Cardinality(T) <= 1 => \A x, y \in T : x = y
           /\ (\A x, y \in T : x = y) => Cardinality(T) <= 1
           /\ T = {} <=> Cardinality(T) = 0
<1>1. IsFiniteSet(T) /\ Cardinality(T) <= Cardinality(S)
    BY FS_Subset
<1>2. Cardinality(T) \in Nat /\ Cardinality(S) \in Nat
    BY <1>1, FS_CardinalityType
<1>3. T = {} <=> Cardinality(T) = 0
    BY <1>1, FS_EmptySet
<1>4. Cardinality(T) = 1 <=> \E x : T = {x}
    BY <1>1, FS_Singleton
<1>5. Cardinality(T) <= 1 <=> Cardinality(T) = 0 \/ Cardinality(T) = 1
    BY <1>2
<1>6. Cardinality(T) <= 1 => \A x, y \in T : x = y
    BY <1>3, <1>4, <1>5
<1>7. (\A x, y \in T : x = y) => Cardinality(T) <= 1
    <2> SUFFICES ASSUME \A x, y \in T : x = y, T # {} PROVE \E x : T = {x}
        BY <1>3, <1>4, <1>5
    <2>1. PICK x : x \in T
        OBVIOUS
    <2> QED
        BY <2>1
<1> QED
    BY <1>1, <1>2, <1>3, <1>6, <1>7

\* What decides a battle is the same when only its end differs.
LEMMA EndsAlike ==
    ASSUME NEW b, NEW c, Ends(b, c)
    PROVE  /\ TeamsOf(c) = TeamsOf(b) /\ Connected(c) = Connected(b)
           /\ LivingTeams(c) = LivingTeams(b) /\ ConnectedTeams(c) = ConnectedTeams(b)
           /\ ViableTeams(c) = ViableTeams(b)
           /\ \A t : Beaten(c, t) <=> Beaten(b, t)
<1>1. TeamsOf(c) = TeamsOf(b) /\ Connected(c) = Connected(b) /\ LivingTeams(c) = LivingTeams(b)
    BY DEF Ends, TeamsOf, Connected, LivingTeams, Roster
<1>2. ConnectedTeams(c) = ConnectedTeams(b)
    BY <1>1 DEF Ends, ConnectedTeams
<1>3. ViableTeams(c) = ViableTeams(b)
    BY <1>1, <1>2 DEF Ends, ViableTeams
<1>4. ASSUME NEW t PROVE Side(c, t) = Side(b, t)
    BY DEF Ends, Side, Roster
<1>5. ASSUME NEW t PROVE Beaten(c, t) <=> Beaten(b, t)
    BY <1>1, <1>4 DEF Beaten, Ends
<1> QED
    BY <1>1, <1>2, <1>3, <1>5

-----------------------------------------------------------------------------
(* How a battle ends *)

\* A round that ends without a winner's name is left to the last team alive.
LEMMA ConcludeEnds ==
    ASSUME NEW team, Lineup(team), NEW x \in Battles(team), Seated(x), Undecided(x),
           x.rule \in Permanent \cup {"durability"},
           Cardinality(LivingTeams(x)) <= 1, x.rule = "boss" => x.alive = {},
           NEW c, c = Conclude(x)
    PROVE  /\ c \in Battles(team) /\ Ends(x, c) /\ c.concluded
           /\ Sound(c) /\ FairlyLost(c)
<1>1. c \in Battles(team) /\ Ends(x, c) /\ c.concluded /\ c.winner = Draw /\ ~c.draw
    <2>1. c \in Battles(team)
        BY DEF Conclude, Battles
    <2>2. Ends(x, c) /\ c.concluded
        BY DEF Conclude, Battles, Ends, SameHits
    <2>3. c.winner = Draw /\ ~c.draw
        BY DEF Conclude, Battles, Undecided
    <2> QED
        BY <2>1, <2>2, <2>3
<1>2. Seated(c)
    BY <1>1, EndsAlike DEF Seated, Ends
<1>3. Decided(c)
    BY <1>1, EndsAlike DEF Decided, Ends, Undecided
<1>4. FairlyLost(c)
    <2> SUFFICES ASSUME NEW p \in Connected(c), Result(c, p) = "loss"
                 PROVE  Beaten(c, c.team[p])
        BY DEF FairlyLost
    <2>1. c.team[p] \notin LivingTeams(c)
        BY <1>1 DEF Result, WinnerTeams
    <2> QED
        BY <1>1, <2>1 DEF Beaten, Ends, Permanent
<1> QED
    BY <1>1, <1>2, <1>3, <1>4 DEF Sound, GoesOn

\* A round that is awarded, or is a draw: the losers are fairly beaten if the rule
\* beats every other team that is connected.
LEMMA AwardEnds ==
    ASSUME NEW team, Lineup(team), NEW x \in Battles(team), Seated(x), Undecided(x),
           NEW t \in Range(team) \cup {Draw},
           x.rule = "boss" => t # Draw /\ x.bosses = {},
           NEW c, c = Award(x, t)
    PROVE  /\ c \in Battles(team) /\ Ends(x, c) /\ c.concluded /\ c.winner = t
           /\ Sound(c)
           /\ (\A p \in Connected(x) : t # Draw /\ team[p] # t => Beaten(x, team[p]))
                => FairlyLost(c)
<1>1. c \in Battles(team) /\ Ends(x, c) /\ c.concluded /\ c.winner = t /\ (c.draw <=> t = Draw)
    <2>1. PICK draw \in BOOLEAN : draw = (t = Draw)
        OBVIOUS
    <2>2. c = [x EXCEPT !.concluded = TRUE, !.winner = t, !.draw = draw]
        BY <2>1 DEF Award
    <2>3. c \in Battles(team)
        <3>1. PICK y : y = [x EXCEPT !.concluded = TRUE, !.winner = t]
            OBVIOUS
        <3>2. y \in Battles(team)
            BY <3>1 DEF Battles
        <3>3. c = [y EXCEPT !.draw = draw]
            BY <2>2, <3>1
        <3> QED
            BY <3>2, <3>3 DEF Battles
    <2>4. Ends(x, c)
        BY <2>2 DEF Battles, Ends, SameHits
    <2>5. c.concluded /\ c.winner = t /\ (c.draw <=> t = Draw)
        BY <2>1, <2>2 DEF Battles
    <2> QED
        BY <2>3, <2>4, <2>5
<1>2. Seated(c)
    BY <1>1, EndsAlike DEF Seated, Ends
<1>3. Decided(c)
    BY <1>1, EndsAlike DEF Decided, Ends, Undecided
<1>4. ASSUME \A p \in Connected(x) : t # Draw /\ team[p] # t => Beaten(x, team[p])
      PROVE  FairlyLost(c)
    <2> SUFFICES ASSUME NEW p \in Connected(c), Result(c, p) = "loss"
                 PROVE  Beaten(c, c.team[p])
        BY DEF FairlyLost
    <2>1. c.team = team /\ p \in Connected(x)
        BY <1>1, Teams, EndsAlike DEF Ends
    <2>2. t # Draw /\ team[p] # t
        BY <1>1, <2>1 DEF Result, WinnerTeams, AllPlayersLost, Ends
    <2> QED
        BY <1>1, <1>4, <2>1, <2>2, EndsAlike
<1> QED
    BY <1>1, <1>2, <1>3, <1>4 DEF Sound, GoesOn

\* A concluded round needs no arbitrator.
LEMMA NobodyEnds ==
    ASSUME NEW team, Lineup(team), NEW x \in Battles(team), Sound(x), x.concluded,
           NEW c, c = [x EXCEPT !.arbitrator = Nobody]
    PROVE  /\ c \in Battles(team) /\ Ends(x, c) /\ c.concluded /\ Sound(c)
           /\ FairlyLost(x) => FairlyLost(c)
<1>1. /\ c \in Battles(team) /\ Ends(x, c) /\ c.concluded
      /\ c.winner = x.winner /\ c.draw = x.draw
    BY DEF Battles, Ends, SameHits
<1>2. Sound(c)
    <2>1. Seated(c)
        <3>1. TeamsOf(c) = TeamsOf(x)
            BY <1>1, EndsAlike
        <3> QED
            BY <1>1, <3>1 DEF Sound, Seated, Ends
    <2>2. Decided(c)
        BY <1>1, EndsAlike DEF Sound, Decided, Ends
    <2> QED
        BY <1>1, <2>1, <2>2 DEF Sound, GoesOn
<1>3. \A p : Result(c, p) = Result(x, p)
    <2>1. WinnerTeams(c) = WinnerTeams(x)
        BY <1>1, EndsAlike DEF WinnerTeams
    <2>2. AllPlayersLost(c) <=> AllPlayersLost(x)
        BY <1>1, <2>1 DEF AllPlayersLost, Ends
    <2> QED
        BY <1>1, <2>1, <2>2 DEF Result, Ends
<1>4. FairlyLost(x) => FairlyLost(c)
    BY <1>1, <1>3, EndsAlike DEF FairlyLost, Ends
<1> QED
    BY <1>1, <1>2, <1>4

\* A tank round ends when at most one team is viable, for the others have lost their
\* base and their lives.
LEMMA TankEnds ==
    ASSUME NEW team, Lineup(team), NEW x \in Battles(team), Seated(x), Undecided(x),
           NEW c, c = ConcludeTank(x)
    PROVE  /\ c \in Battles(team) /\ Ends(x, c)
           /\ c.concluded => Sound(c) /\ FairlyLost(c)
           /\ ~c.concluded => c = x
           /\ ~c.concluded /\ x.rule = "tank" => Cardinality(ViableTeams(x)) > 1
<1>1. CASE x.rule # "tank" \/ Cardinality(ViableTeams(x)) > 1
    BY <1>1 DEF ConcludeTank, Undecided, Ends, SameHits
<1>2. CASE x.rule = "tank" /\ ~(Cardinality(ViableTeams(x)) > 1)
    <2>1. PICK t : t = IF ViableTeams(x) = {} THEN Draw ELSE CHOOSE u \in ViableTeams(x) : TRUE
        OBVIOUS
    <2>2. PICK y : y = Award(x, t)
        OBVIOUS
    <2>3. c = [y EXCEPT !.arbitrator = Nobody]
        BY <1>2, <2>1, <2>2 DEF ConcludeTank, Undecided
    <2>4. ViableTeams(x) \subseteq Range(team) /\ (t # Draw => t \in ViableTeams(x))
        BY <2>1, Teams
    <2>5. t \in Range(team) \cup {Draw}
        BY <2>4
    <2>6. \A u \in ViableTeams(x) : t # Draw => u = t
        <3>1. IsFiniteSet(Range(team)) /\ ViableTeams(x) \in SUBSET Range(team)
            BY <2>4, Teams
        <3>2. Cardinality(ViableTeams(x)) <= 1
            BY <1>2, <3>1, Sizes
        <3> QED
            BY <2>4, <3>1, <3>2, Sizes
    <2>7. ASSUME NEW p \in Connected(x), t # Draw, team[p] # t PROVE Beaten(x, team[p])
        <3>1. x.team = team /\ team[p] \in ConnectedTeams(x) /\ p \in DOMAIN team
            BY Teams DEF ConnectedTeams, Connected, Roster
        <3>2. team[p] \notin ViableTeams(x)
            BY <2>6, <2>7
        <3>3. x.hp[team[p]] \in Nat /\ team[p] \in Range(team)
            BY <3>1, Teams, BattleAssumption DEF Battles, Bases
        <3>4. x.hp[team[p]] = 0 /\ team[p] \notin LivingTeams(x)
            BY <3>1, <3>2, <3>3 DEF ViableTeams
        <3> QED
            BY <1>2, <3>4 DEF Beaten
    <2>8. y \in Battles(team) /\ Ends(x, y) /\ y.concluded /\ Sound(y) /\ FairlyLost(y)
        BY <1>2, <2>2, <2>5, <2>7, AwardEnds
    <2>9. c \in Battles(team) /\ Ends(y, c) /\ c.concluded /\ Sound(c) /\ FairlyLost(c)
        BY <2>3, <2>8, NobodyEnds
    <2> QED
        BY <2>8, <2>9 DEF Ends, SameHits
<1> QED
    BY <1>1, <1>2

\* An elimination round ends with the last team but one, a boss party with its last
\* player.
LEMMA EliminationEnds ==
    ASSUME NEW team, Lineup(team), NEW x \in Battles(team), Seated(x), Undecided(x),
           NEW c, c = ConcludeElimination(x)
    PROVE  /\ c \in Battles(team) /\ Ends(x, c)
           /\ c.concluded => Sound(c) /\ FairlyLost(c)
           /\ ~c.concluded => c = x
           /\ ~c.concluded /\ x.rule = "boss" => x.alive # {}
<1>1. CASE \/ x.rule = "elimination" /\ Cardinality(LivingTeams(x)) <= 1
           \/ x.rule = "boss" /\ x.alive = {}
    <2>1. x.alive = {} => Cardinality(LivingTeams(x)) = 0
        BY FS_EmptySet DEF LivingTeams
    <2>2. Cardinality(LivingTeams(x)) <= 1
        BY <1>1, <2>1
    <2>3. c = Conclude(x)
        BY <1>1 DEF ConcludeElimination
    <2> QED
        BY <1>1, <2>2, <2>3, ConcludeEnds DEF Permanent
<1>2. CASE ~(\/ x.rule = "elimination" /\ Cardinality(LivingTeams(x)) <= 1
             \/ x.rule = "boss" /\ x.alive = {})
    BY <1>2 DEF ConcludeElimination, Undecided, Ends, SameHits
<1> QED
    BY <1>1, <1>2

-----------------------------------------------------------------------------
(* How a battle goes on *)

\* A battle that is as undecided as another, with the same scene.
Survives(b, x) ==
    /\ Undecided(x)
    /\ x.rule = b.rule /\ x.ai = b.ai /\ x.arbitrator = b.arbitrator
    /\ x.departed = b.departed /\ x.bosses = b.bosses

\* It goes on unless its last players or teams have fallen.
LEMMA StaysOpen ==
    ASSUME NEW team, Lineup(team), NEW b \in Battles(team), Sound(b), ~b.concluded,
           NEW x \in Battles(team), Seated(x), Survives(b, x),
           b.rule = "boss" => x.alive # {},
           b.rule = "tank" => Cardinality(ViableTeams(x)) > 1
    PROVE  Sound(x)
<1>1. Connected(x) = Connected(b) /\ ConnectedTeams(x) = ConnectedTeams(b)
    BY Teams DEF Survives, Connected, ConnectedTeams, Roster
<1>2. GoesOn(x)
    BY <1>1 DEF Sound, GoesOn, Survives
<1> QED
    BY <1>2 DEF Sound, Decided, Survives, Undecided

\* The teams that a tank round can go on with only depend on their lives and bases.
LEMMA StillViable ==
    ASSUME NEW team, Lineup(team), NEW b \in Battles(team), NEW x \in Battles(team),
           b.alive \subseteq x.alive, b.departed = x.departed, b.hp = x.hp,
           Cardinality(ViableTeams(b)) > 1
    PROVE  Cardinality(ViableTeams(x)) > 1
<1>1. b.team = x.team
    BY DEF Battles
<1>2. ViableTeams(b) \subseteq ViableTeams(x)
    BY <1>1 DEF ViableTeams, ConnectedTeams, Connected, LivingTeams, Roster
<1>3. IsFiniteSet(ViableTeams(x))
    <2>1. IsFiniteSet(Range(team)) /\ ViableTeams(x) \in SUBSET Range(team)
        BY Teams
    <2> QED
        BY <2>1, Sizes
<1> QED
    BY <1>2, <1>3, Sizes

\* A report that changes neither lives nor bases.
LEMMA Continues ==
    ASSUME NEW team, Lineup(team), NEW b \in Battles(team), Sound(b), ~b.concluded,
           NEW x \in Battles(team), Seated(x), Survives(b, x),
           x.alive = b.alive, x.hp = b.hp
    PROVE  Step(b, x) /\ Fair(b, x)
<1>1. Sound(x)
    <2>1. b.rule = "tank" => Cardinality(ViableTeams(x)) > 1
        BY StillViable DEF Sound, GoesOn, Survives
    <2>2. b.rule = "boss" => x.alive # {}
        BY DEF Sound, GoesOn
    <2> QED
        BY <2>1, <2>2, StaysOpen
<1>2. b.team = team /\ x.rule = b.rule /\ ~x.concluded
    BY Teams DEF Survives, Undecided
<1> QED
    BY <1>1, <1>2 DEF Step, Fair, Locked, Loses

\* A report that takes lives or wears down bases, and asks for the conclusion.
LEMMA Concludes ==
    ASSUME NEW team, Lineup(team), NEW b \in Battles(team), Sound(b), ~b.concluded,
           NEW x \in Battles(team), Seated(x), Survives(b, x),
           x.alive \subseteq b.alive, \A t \in Range(team) : b.hp[t] = 0 => x.hp[t] = 0,
           NEW c,
           \/ b.rule \in Timed /\ c = ConcludeTank(x)
           \/ b.rule \in Permanent /\ c = ConcludeElimination(x)
    PROVE  Step(b, c) /\ Fair(b, c) /\ Ends(x, c)
<1>1. x.rule = b.rule /\ Undecided(x) /\ b.team = team /\ TeamsOf(b) = Range(team)
    BY Teams DEF Survives
<1>2. /\ c \in Battles(team) /\ Ends(x, c)
      /\ c.concluded => Sound(c) /\ FairlyLost(c)
      /\ ~c.concluded => c = x
      /\ ~c.concluded /\ b.rule = "boss" => x.alive # {}
      /\ ~c.concluded /\ b.rule = "tank" => Cardinality(ViableTeams(x)) > 1
    <2>1. CASE b.rule \in Timed /\ c = ConcludeTank(x)
        BY <1>1, <2>1, TankEnds DEF Timed
    <2>2. CASE b.rule \in Permanent /\ c = ConcludeElimination(x)
        BY <1>1, <2>2, EliminationEnds DEF Permanent
    <2> QED
        BY <2>1, <2>2
<1>3. Sound(c)
    BY <1>2, StaysOpen
<1>4. Loses(b, c)
    BY <1>1, <1>2 DEF Loses, Ends
<1> QED
    BY <1>1, <1>2, <1>3, <1>4 DEF Step, Fair, Locked, Ends

\* A report that is ignored, or one that does not count for the verdict.
LEMMA Ignores ==
    ASSUME NEW team, Lineup(team), NEW b \in Battles(team), Sound(b)
    PROVE  Report(b, b)
BY Teams DEF Report, Step, Fair, Locked, Loses, SameHits

\* Ends(x, c) leaves the kills and the hits as they are.
LEMMA EndsReport ==
    ASSUME NEW b, NEW x, NEW c, Ends(x, c), x.kills = b.kills, SameHits(b, x),
           Step(b, c), Fair(b, c)
    PROVE  Report(b, c)
BY DEF Ends, Report, SameHits

\* A battle won by a report.
LEMMA Awards ==
    ASSUME NEW team, Lineup(team), NEW b \in Battles(team), Sound(b), ~b.concluded,
           NEW x \in Battles(team), Seated(x), Survives(b, x),
           x.alive = b.alive, x.hp = b.hp, x.kills = b.kills, SameHits(b, x),
           b.rule # "boss", NEW t \in Range(team),
           \A p \in Connected(x) : team[p] # t => Beaten(x, team[p]),
           NEW c, c = Award(x, t)
    PROVE  Report(b, c)
<1>1. c \in Battles(team) /\ Ends(x, c) /\ c.concluded /\ Sound(c) /\ FairlyLost(c)
    BY AwardEnds DEF Survives
<1>2. Step(b, c) /\ Fair(b, c)
    BY <1>1, Teams DEF Step, Fair, Locked, Loses, Ends, Survives
<1> QED
    BY <1>1, <1>2, EndsReport

\* After the verdict players may still fall or leave while its delivery waits.
LEMMA AfterVerdict ==
    ASSUME NEW team, Lineup(team), NEW b \in Battles(team), Sound(b), b.concluded,
           NEW c \in Battles(team), c.rule = b.rule, c.ai = b.ai, c.bosses = b.bosses,
           c.concluded, c.winner = b.winner, c.draw = b.draw, c.grace => b.grace,
           c.hp = b.hp, c.confirmed = b.confirmed, c.kills = b.kills, SameHits(b, c),
           c.alive \subseteq b.alive, c.alive = b.alive \/ b.grace,
           c.trapped \subseteq c.alive, c.alive \cap c.departed = {}
    PROVE  Report(b, c)
<1>1. c.team = b.team /\ b.team = team
    BY Teams
<1>2. Seated(c)
    BY <1>1 DEF Sound, Seated, TeamsOf
<1>3. c.alive = b.alive \/ b.winner # Draw
    BY DEF Sound, Decided
<1>4. c.alive = b.alive => LivingTeams(c) = LivingTeams(b)
    BY <1>1 DEF LivingTeams
<1>5. Decided(c)
    BY <1>3, <1>4 DEF Sound, Decided
<1>6. Sound(c)
    BY <1>2, <1>5 DEF Sound, GoesOn
<1> QED
    BY <1>1, <1>3, <1>6 DEF Report, Step, Fair, Locked, Loses

-----------------------------------------------------------------------------
(* The reports *)

\* A battle in which players have been trapped, freed or felled, or objectives moved.
Alike(b, x) ==
    /\ x.rule = b.rule /\ x.ai = b.ai /\ x.arbitrator = b.arbitrator
    /\ x.departed = b.departed /\ x.bosses = b.bosses /\ x.confirmed = b.confirmed
    /\ x.hp = b.hp /\ x.kills = b.kills /\ SameHits(b, x)
    /\ x.concluded = b.concluded /\ x.winner = b.winner /\ x.draw = b.draw
    /\ x.grace = b.grace

LEMMA AlikeSeated ==
    ASSUME NEW team, Lineup(team), NEW b \in Battles(team), Sound(b),
           NEW x \in Battles(team), Alike(b, x),
           x.alive \subseteq b.alive, x.trapped \subseteq x.alive
    PROVE  Seated(x) /\ (~b.concluded => Survives(b, x))
<1>1. TeamsOf(x) = TeamsOf(b)
    BY DEF TeamsOf, Battles
<1>2. Seated(x)
    BY <1>1 DEF Sound, Seated, Alike
<1> QED
    BY <1>2 DEF Sound, Decided, Undecided, Survives, Alike

\* A report that frees, traps or moves and takes no life.
LEMMA AlikeReport ==
    ASSUME NEW team, Lineup(team), NEW b \in Battles(team), Sound(b), ~b.concluded,
           NEW x \in Battles(team), Alike(b, x),
           x.alive = b.alive, x.trapped \subseteq x.alive
    PROVE  Report(b, x)
<1>1. Seated(x) /\ Survives(b, x)
    BY AlikeSeated
<1>2. Step(b, x) /\ Fair(b, x)
    BY <1>1, Continues DEF Alike
<1> QED
    BY <1>2 DEF Report, Alike

\* Clearing and felling a player.
LEMMA Clears ==
    ASSUME NEW team, NEW b \in Battles(team), NEW p, NEW x, x = Clear(b, p)
    PROVE  /\ x \in Battles(team) /\ Alike(b, x) /\ x.alive = b.alive
           /\ x.trapped = b.trapped \ {p} /\ x.dying = b.dying \ {p}
BY DEF Clear, Battles, Alike, SameHits

LEMMA Falls ==
    ASSUME NEW team, NEW b \in Battles(team), NEW p, NEW x, x = Fall(b, p)
    PROVE  /\ x \in Battles(team) /\ Alike(b, x) /\ x.alive = b.alive \ {p}
           /\ x.trapped = b.trapped \ {p} /\ x.dying = b.dying \ {p}
<1>1. PICK y : y = Clear(b, p)
    OBVIOUS
<1>2. x = [y EXCEPT !.alive = y.alive \ {p}]
    BY <1>1 DEF Fall
<1>3. /\ x \in Battles(team) /\ Alike(y, x) /\ x.alive = y.alive \ {p}
      /\ x.trapped = y.trapped /\ x.dying = y.dying
    BY <1>1, <1>2, Clears DEF Battles, Alike, SameHits
<1> QED
    BY <1>1, <1>3, Clears DEF Alike, SameHits

LEMMA Wakes ==
    ASSUME NEW team, NEW b \in Battles(team), NEW x, x = Wake(b)
    PROVE  /\ x \in Battles(team) /\ Alike(b, x)
           /\ x.alive = b.alive /\ x.trapped = b.trapped
<1>1. CASE b.alive = {}
    BY <1>1 DEF Wake, Battles, Alike, SameHits
<1>2. CASE b.alive # {}
    BY <1>2 DEF Wake, Alike, SameHits
<1> QED
    BY <1>1, <1>2

LEMMA TrapReport ==
    ASSUME NEW team, Lineup(team), NEW b \in Battles(team), Sound(b), NEW p \in DOMAIN team
    PROVE  Report(b, RecordTrapped(b, p))
<1>1. PICK c : c = RecordTrapped(b, p)
    OBVIOUS
<1>2. CASE b.concluded \/ p \notin b.alive
    BY <1>2, Ignores DEF RecordTrapped
<1>3. CASE ~b.concluded /\ p \in b.alive
    <2>1. /\ c \in Battles(team) /\ Alike(b, c) /\ c.alive = b.alive
          /\ c.trapped = b.trapped \cup {p}
        <3>1. PICK trapped : trapped = b.trapped \cup {p}
            OBVIOUS
        <3>2. PICK dying : dying = b.dying \ {p}
            OBVIOUS
        <3>3. trapped \in SUBSET DOMAIN team /\ dying \in SUBSET DOMAIN team
            BY <3>1, <3>2 DEF Battles
        <3>4. c = [b EXCEPT !.trapped = trapped, !.dying = dying]
            BY <1>1, <1>3, <3>1, <3>2 DEF RecordTrapped
        <3>5. c \in Battles(team)
            BY <3>3, <3>4 DEF Battles
        <3> QED
            BY <3>1, <3>4, <3>5 DEF Battles, Alike, SameHits
    <2>2. c.trapped \subseteq c.alive
        BY <1>3, <2>1 DEF Sound, Seated
    <2> QED
        BY <1>1, <1>3, <2>1, <2>2, AlikeReport
<1> QED
    BY <1>2, <1>3

LEMMA RescueReport ==
    ASSUME NEW team, Lineup(team), NEW b \in Battles(team), Sound(b), NEW q
    PROVE  Report(b, RecordRescue(b, q))
<1>1. CASE b.concluded
    BY <1>1, Ignores DEF RecordRescue
<1>2. CASE ~b.concluded
    <2>1. PICK c : c = Clear(b, q)
        OBVIOUS
    <2>2. Report(b, c)
        BY <1>2, <2>1, Clears, AlikeReport DEF Sound, Seated
    <2> QED
        BY <1>2, <2>1, <2>2 DEF RecordRescue
<1> QED
    BY <1>1, <1>2

\* A death that the rule's own object concludes with.
LEMMA FallReport ==
    ASSUME NEW team, Lineup(team), NEW b \in Battles(team), Sound(b), ~b.concluded, NEW p, NEW c,
           \/ b.rule \in Timed /\ c = ConcludeTank(Fall(b, p))
           \/ b.rule \in Permanent /\ c = ConcludeElimination(Fall(b, p))
    PROVE  Report(b, c)
<1>1. PICK x : x = Fall(b, p)
    OBVIOUS
<1>2. /\ x \in Battles(team) /\ Alike(b, x) /\ x.alive = b.alive \ {p}
      /\ x.trapped = b.trapped \ {p}
    BY <1>1, Falls
<1>3. x.trapped \subseteq x.alive
    BY <1>2 DEF Sound, Seated
<1>4. Seated(x) /\ Survives(b, x)
    BY <1>2, <1>3, AlikeSeated
<1>5. Step(b, c) /\ Fair(b, c) /\ Ends(x, c)
    BY <1>1, <1>2, <1>4, Concludes DEF Alike
<1> QED
    BY <1>2, <1>5, EndsReport DEF Alike

LEMMA BossKillReport ==
    ASSUME NEW team, Lineup(team), NEW b \in Battles(team), Sound(b), NEW p, b.rule = "boss"
    PROVE  Report(b, RecordBossKill(b, p))
BY Ignores, FallReport DEF RecordBossKill, Permanent

LEMMA DeathReport ==
    ASSUME NEW team, Lineup(team), NEW b \in Battles(team), Sound(b), NEW p,
           b.rule # "durability"
    PROVE  Report(b, RecordDeath(b, p))
<1>1. b.rule \in Timed \cup Permanent
    BY DEF Battles, Rules
<1> QED
    BY <1>1, Ignores, FallReport DEF RecordDeath

LEMMA GraceDeathReport ==
    ASSUME NEW team, Lineup(team), NEW b \in Battles(team), Sound(b), NEW p
    PROVE  Report(b, RecordGraceDeath(b, p))
<1>1. CASE ~b.grace
    BY <1>1, Ignores DEF RecordGraceDeath
<1>2. CASE b.grace
    <2>1. PICK x, c : x = Fall(b, p) /\ c = Wake(x)
        OBVIOUS
    <2>2. /\ x \in Battles(team) /\ Alike(b, x) /\ x.alive = b.alive \ {p}
          /\ x.trapped = b.trapped \ {p}
        BY <2>1, Falls
    <2>3. /\ c \in Battles(team) /\ Alike(b, c)
          /\ c.alive = b.alive \ {p} /\ c.trapped = b.trapped \ {p}
        BY <2>1, <2>2, Wakes DEF Alike, SameHits
    <2>4. b.concluded /\ c.trapped \subseteq c.alive /\ c.alive \cap c.departed = {}
        BY <1>2, <2>3 DEF Sound, Seated, Decided, Undecided, Alike
    <2>5. Report(b, c)
        BY <1>2, <2>3, <2>4, AfterVerdict DEF Alike
    <2> QED
        BY <1>2, <2>1, <2>5 DEF RecordGraceDeath
<1> QED
    BY <1>1, <1>2

LEMMA GraceDepartureReport ==
    ASSUME NEW team, Lineup(team), NEW b \in Battles(team), Sound(b), NEW p \in DOMAIN team
    PROVE  Report(b, RecordGraceDeparture(b, p))
<1>1. CASE ~b.grace
    BY <1>1, Ignores DEF RecordGraceDeparture
<1>2. CASE b.grace
    <2>1. PICK x, y, c : /\ x = Fall(b, p) /\ c = Wake(y)
                         /\ y = [x EXCEPT !.departed = x.departed \cup {p}]
        OBVIOUS
    <2>2. /\ x \in Battles(team) /\ Alike(b, x) /\ x.alive = b.alive \ {p}
          /\ x.trapped = b.trapped \ {p}
        BY <2>1, Falls
    <2>3. /\ y \in Battles(team)
          /\ y.alive = x.alive /\ y.trapped = x.trapped /\ y.departed = x.departed \cup {p}
          /\ y.rule = x.rule /\ y.ai = x.ai /\ y.bosses = x.bosses /\ y.confirmed = x.confirmed
          /\ y.hp = x.hp /\ y.kills = x.kills /\ SameHits(x, y) /\ y.grace = x.grace
          /\ y.concluded = x.concluded /\ y.winner = x.winner /\ y.draw = x.draw
        BY <2>1, <2>2 DEF Battles, Alike, SameHits
    <2>4. /\ c \in Battles(team) /\ Alike(y, c) /\ c.alive = y.alive /\ c.trapped = y.trapped
        <3>1. c = Wake(y) /\ y \in Battles(team)
            BY <2>1, <2>3
        <3> QED
            BY <3>1, Wakes
    <2>5. b.concluded /\ c.trapped \subseteq c.alive /\ c.alive \cap c.departed = {}
        BY <1>2, <2>2, <2>3, <2>4 DEF Sound, Seated, Decided, Undecided, Alike
    <2>6. /\ c.rule = b.rule /\ c.ai = b.ai /\ c.bosses = b.bosses /\ c.concluded
          /\ c.winner = b.winner /\ c.draw = b.draw /\ c.grace = b.grace /\ c.hp = b.hp
          /\ c.confirmed = b.confirmed /\ c.kills = b.kills /\ SameHits(b, c)
        BY <2>2, <2>3, <2>4, <2>5 DEF Alike, SameHits
    <2>7. c.alive \subseteq b.alive
        BY <2>2, <2>3, <2>4
    <2>8. Report(b, c)
        BY <1>2, <2>4, <2>5, <2>6, <2>7, AfterVerdict
    <2> QED
        BY <1>2, <2>1, <2>8 DEF RecordGraceDeparture
<1> QED
    BY <1>1, <1>2

\* OneKillPerLife of a step.
Credits(b, c) ==
    \A p \in Roster(b) :
        c.kills[p] # b.kills[p] =>
            /\ c.kills[p] = b.kills[p] + 1
            /\ \E q \in Roster(b) \ Side(b, b.team[p]) :
                   /\ q \in b.alive \ b.dying
                   /\ q \notin c.alive \ c.dying

\* A kill of q by p: the only report that counts kills, and only those of p.
Kill(b, c, p) ==
    /\ Step(b, c) /\ Fair(b, c) /\ SameHits(b, c) /\ Credits(b, c)
    /\ c.kills = b.kills \/ c.kills = [b.kills EXCEPT ![p] = @ + 1]

LEMMA KillReport ==
    ASSUME NEW team, Lineup(team), NEW b \in Battles(team), Sound(b),
           NEW p \in DOMAIN team, NEW q \in DOMAIN team, CanKill(b, p, q)
    PROVE  Kill(b, RecordKill(b, p, q), p)
<1>1. CASE b.concluded \/ q \notin b.alive
    <2>1. Report(b, b)
        BY Ignores
    <2> QED
        BY <1>1, <2>1 DEF RecordKill, Kill, Report, Credits
<1>2. CASE ~b.concluded /\ q \in b.alive
    <2> DEFINE kills == [b.kills EXCEPT ![p] = IF q \in b.dying THEN b.kills[p] ELSE b.kills[p] + 1]
    <2>1. /\ kills \in Counts(team)
          /\ kills = b.kills \/ kills = [b.kills EXCEPT ![p] = @ + 1]
          /\ \A r \in DOMAIN team : kills[r] # b.kills[r] =>
                r = p /\ q \notin b.dying /\ kills[p] = b.kills[p] + 1
        <3>1. b.kills \in Counts(team)
            BY DEF Battles
        <3> QED
            BY <3>1 DEF Counts
    <2>2. p # q /\ {p, q} \subseteq b.alive /\ team[p] # team[q] /\ b.team = team
        BY <1>2, Teams DEF CanKill, Interact
    <2> HIDE DEF kills
    <2>3. PICK hit : hit = [b EXCEPT !.kills = kills, !.trapped = b.trapped \ {q},
                                     !.dying = b.dying \cup {q}]
        OBVIOUS
    <2>4. b.trapped \ {q} \in SUBSET DOMAIN team /\ b.dying \cup {q} \in SUBSET DOMAIN team
        BY DEF Battles
    <2>5. /\ hit \in Battles(team) /\ Survives(b, hit) /\ hit.hp = b.hp
          /\ hit.alive = b.alive /\ hit.trapped = b.trapped \ {q} /\ hit.dying = b.dying \cup {q}
          /\ hit.kills = kills /\ hit.confirmed = b.confirmed /\ SameHits(b, hit)
        <3>1. Undecided(b)
            BY <1>2 DEF Sound, Decided
        <3>2. hit \in Battles(team)
            BY <2>1, <2>3, <2>4 DEF Battles
        <3>3. Survives(b, hit)
            BY <2>3, <3>1 DEF Battles, Survives, Undecided
        <3> QED
            BY <2>3, <3>2, <3>3 DEF Battles, SameHits
    <2>6. PICK c : c = RecordKill(b, p, q)
        OBVIOUS
    <2>7. hit = [b EXCEPT !.kills[p] = IF q \in b.dying THEN @ ELSE @ + 1,
                          !.trapped = @ \ {q}, !.dying = @ \cup {q}]
        BY <2>3 DEF kills
    <2>8. /\ b.rule = "durability" => c = hit
          /\ b.rule \in Timed => c = ConcludeTank([hit EXCEPT !.alive = hit.alive \ {q}])
          /\ b.rule \in Permanent =>
                c = ConcludeElimination([hit EXCEPT !.alive = hit.alive \ {q},
                                                    !.dying = hit.dying \ {q}])
        BY <1>2, <2>6, <2>7 DEF RecordKill, Timed, Permanent
    <2>9. ASSUME Step(b, c), Fair(b, c), c.kills = kills, SameHits(b, c),
                 q \notin c.alive \ c.dying
          PROVE  Kill(b, c, p)
        <3>1. q \in Roster(b) \ Side(b, b.team[p])
            BY <2>2 DEF Roster, Side
        <3>2. Credits(b, c)
            BY <1>2, <2>1, <2>2, <2>9, <3>1 DEF Credits, Roster
        <3> QED
            BY <2>1, <2>9, <3>2 DEF Kill
    <2>10. ASSUME NEW x \in Battles(team), Survives(b, x), x.hp = b.hp, x.kills = kills,
                  x.confirmed = b.confirmed, SameHits(b, x), x.alive = b.alive \ {q},
                  x.trapped = b.trapped \ {q},
                  \/ b.rule \in Timed /\ c = ConcludeTank(x)
                  \/ b.rule \in Permanent /\ c = ConcludeElimination(x)
           PROVE  Kill(b, c, p)
        <3>1. TeamsOf(x) = TeamsOf(b)
            BY Teams
        <3>2. Seated(x)
            BY <2>10, <3>1 DEF Sound, Seated, Survives
        <3>3. Step(b, c) /\ Fair(b, c) /\ Ends(x, c)
            BY <1>2, <2>10, <3>2, Concludes
        <3>4. c.kills = kills /\ SameHits(b, c) /\ q \notin c.alive
            BY <2>10, <3>3 DEF Ends, SameHits
        <3> QED
            BY <2>9, <3>3, <3>4
    <2>11. CASE b.rule = "durability"
        <3>1. TeamsOf(hit) = TeamsOf(b)
            BY <2>5, Teams
        <3>2. Seated(hit)
            BY <2>5, <3>1 DEF Sound, Seated, Survives
        <3>3. Step(b, hit) /\ Fair(b, hit)
            BY <1>2, <2>5, <3>2, Continues
        <3> QED
            BY <2>5, <2>6, <2>8, <2>9, <2>11, <3>3
    <2>12. CASE b.rule \in Timed
        <3>1. PICK x : x = [hit EXCEPT !.alive = hit.alive \ {q}]
            OBVIOUS
        <3>2. /\ x \in Battles(team) /\ Survives(b, x) /\ x.hp = b.hp /\ x.kills = kills
              /\ x.confirmed = b.confirmed /\ SameHits(b, x) /\ x.alive = b.alive \ {q}
              /\ x.trapped = b.trapped \ {q}
            <4>1. hit.alive \ {q} \in SUBSET DOMAIN team
                BY <2>5 DEF Battles
            <4>2. x \in Battles(team)
                BY <2>5, <3>1, <4>1 DEF Battles
            <4>3. Survives(b, x)
                BY <2>5, <3>1 DEF Battles, Survives, Undecided
            <4> QED
                BY <2>5, <3>1, <4>2, <4>3 DEF Battles, SameHits
        <3>3. c = ConcludeTank(x)
            BY <2>8, <2>12, <3>1
        <3> QED
            BY <2>6, <2>10, <2>12, <3>2, <3>3
    <2>13. CASE b.rule \in Permanent
        <3>1. PICK x : x = [hit EXCEPT !.alive = hit.alive \ {q}, !.dying = hit.dying \ {q}]
            OBVIOUS
        <3>2. /\ x \in Battles(team) /\ Survives(b, x) /\ x.hp = b.hp /\ x.kills = kills
              /\ x.confirmed = b.confirmed /\ SameHits(b, x) /\ x.alive = b.alive \ {q}
              /\ x.trapped = b.trapped \ {q}
            <4>1. /\ hit.alive \ {q} \in SUBSET DOMAIN team
                  /\ hit.dying \ {q} \in SUBSET DOMAIN team
                BY <2>5 DEF Battles
            <4>2. x \in Battles(team)
                BY <2>5, <3>1, <4>1 DEF Battles
            <4>3. Survives(b, x)
                BY <2>5, <3>1 DEF Battles, Survives, Undecided
            <4> QED
                BY <2>5, <3>1, <4>2, <4>3 DEF Battles, SameHits
        <3>3. c = ConcludeElimination(x)
            BY <2>8, <2>13, <3>1
        <3> QED
            BY <2>6, <2>10, <2>13, <3>2, <3>3
    <2>14. b.rule \in Timed \cup Permanent \cup {"durability"}
        BY DEF Battles, Rules
    <2> QED
        BY <2>11, <2>12, <2>13, <2>14
<1> QED
    BY <1>1, <1>2

\* The death of a boss: the last one decides for the party, whose result waits.
LEMMA BossDeathReport ==
    ASSUME NEW team, Lineup(team), NEW b \in Battles(team), Sound(b), b.rule = "boss",
           NEW boss
    PROVE  Report(b, RecordBossDeath(b, boss))
<1>1. CASE b.concluded \/ boss \notin b.bosses
    BY <1>1, Ignores DEF RecordBossDeath
<1>2. CASE ~b.concluded /\ boss \in b.bosses
    <2>1. PICK x : x = [b EXCEPT !.bosses = b.bosses \ {boss}]
        OBVIOUS
    <2>2. /\ x \in Battles(team) /\ x.rule = b.rule /\ x.team = b.team /\ x.ai = b.ai
          /\ x.arbitrator = b.arbitrator /\ x.alive = b.alive /\ x.departed = b.departed
          /\ x.trapped = b.trapped /\ x.kills = b.kills /\ x.hp = b.hp
          /\ x.confirmed = b.confirmed /\ SameHits(b, x) /\ x.bosses = b.bosses \ {boss}
        BY <2>1 DEF Battles, SameHits
    <2>3. Undecided(x)
        BY <1>2, <2>1 DEF Battles, Sound, Decided, Undecided
    <2>4. Seated(x) /\ TeamsOf(x) = Range(team) /\ b.team = team
        BY <2>2, Teams DEF Sound, Seated
    <2>5. CASE x.bosses # {}
        <3>1. GoesOn(x)
            BY <1>2, <2>2, <2>5 DEF Sound, GoesOn, Connected, Roster
        <3>2. Sound(x)
            BY <2>3, <2>4, <3>1 DEF Sound, Decided, Undecided
        <3>3. Report(b, x)
            BY <1>2, <2>2, <2>3, <2>4, <3>2 DEF Report, Step, Fair, Locked, Loses, Undecided
        <3>4. x = RecordBossDeath(b, boss)
            BY <1>2, <2>1, <2>5 DEF RecordBossDeath
        <3> QED
            BY <3>3, <3>4
    <2>6. CASE x.bosses = {}
        <3>1. PICK t, y, c : /\ t = CHOOSE u \in TeamsOf(b) : TRUE
                             /\ y = Award(x, t) /\ c = [y EXCEPT !.grace = TRUE]
            OBVIOUS
        <3>2. /\ IsFiniteSet(Range(team)) /\ TeamsOf(b) = Range(team)
              /\ Cardinality(Range(team)) = 1 /\ Draw \notin Range(team)
            BY Teams DEF Sound, Seated
        <3>3. t \in Range(team) /\ t # Draw
            <4>1. Range(team) # {}
                BY <3>2, FS_EmptySet
            <4> QED
                BY <3>1, <3>2, <4>1
        <3>4. y = Award(x, t)
            BY <3>1
        <3>5. /\ y \in Battles(team) /\ Ends(x, y) /\ y.concluded /\ y.winner = t /\ Sound(y)
            BY <2>2, <2>3, <2>4, <2>6, <3>3, <3>4, AwardEnds
        <3>6. /\ c \in Battles(team) /\ c.rule = b.rule /\ c.team = y.team /\ c.ai = y.ai
              /\ c.alive = b.alive /\ c.departed = y.departed /\ c.trapped = y.trapped
              /\ c.kills = b.kills /\ c.bosses = y.bosses /\ c.hp = b.hp /\ c.confirmed = y.confirmed
              /\ c.concluded /\ c.winner = t /\ c.draw = y.draw /\ SameHits(b, c)
            <4>1. c = [y EXCEPT !.grace = TRUE]
                BY <3>1
            <4>2. /\ c \in Battles(team) /\ c.rule = y.rule /\ c.team = y.team /\ c.ai = y.ai
                  /\ c.alive = y.alive /\ c.departed = y.departed /\ c.trapped = y.trapped
                  /\ c.kills = y.kills /\ c.bosses = y.bosses /\ c.hp = y.hp
                  /\ c.confirmed = y.confirmed /\ c.concluded /\ c.winner = t
                  /\ c.draw = y.draw /\ SameHits(y, c)
                BY <3>5, <4>1 DEF Battles, SameHits
            <4> QED
                BY <2>2, <3>5, <4>2 DEF Ends, SameHits
        <3>7. Sound(c)
            <4>1. TeamsOf(c) = TeamsOf(y)
                BY <3>6 DEF TeamsOf
            <4>2. Seated(c)
                BY <2>2, <3>5, <3>6, <4>1 DEF Sound, Seated, Ends
            <4>3. Decided(c)
                BY <2>6, <3>3, <3>5, <3>6 DEF Sound, Decided, Ends
            <4> QED
                BY <3>6, <4>2, <4>3 DEF Sound, GoesOn
        <3>8. FairlyLost(c)
            <4> SUFFICES ASSUME NEW p \in Connected(c) PROVE Result(c, p) # "loss"
                BY DEF FairlyLost
            <4>1. c.team[p] \in Range(team)
                BY <3>6, Teams DEF Connected, Roster
            <4>2. c.team[p] = t
                BY <3>2, <3>3, <4>1, FS_Singleton
            <4> QED
                BY <3>3, <3>6, <4>2 DEF Result, WinnerTeams
        <3>9. Report(b, c)
            BY <1>2, <2>4, <3>6, <3>7, <3>8 DEF Report, Step, Fair, Locked, Loses
        <3>10. c = RecordBossDeath(b, boss)
            BY <1>2, <2>1, <2>6, <3>1 DEF RecordBossDeath
        <3> QED
            BY <3>9, <3>10
    <2> QED
        BY <2>5, <2>6
<1> QED
    BY <1>1, <1>2

\* A respawn: only a rule that brings players back, and in a tank round a base that
\* stands.
LEMMA RespawnReport ==
    ASSUME NEW team, Lineup(team), NEW b \in Battles(team), Sound(b), NEW p,
           CanRespawn(b, p)
    PROVE  Report(b, RecordRespawn(b, p))
<1>1. /\ ~b.concluded /\ b.rule \in Timed /\ p \in DOMAIN team /\ p \notin b.departed
      /\ b.rule = "tank" => b.hp[team[p]] > 0
      /\ b.team = team /\ TeamsOf(b) = Range(team) /\ team[p] \in Range(team)
    BY Teams DEF CanRespawn, Connected, Roster
<1>2. PICK y, x : y = Clear(b, p) /\ x = [y EXCEPT !.alive = y.alive \cup {p}]
    OBVIOUS
<1>3. x = RecordRespawn(b, p)
    BY <1>2 DEF RecordRespawn
<1>4. y \in Battles(team) /\ Alike(b, y) /\ y.alive = b.alive /\ y.trapped = b.trapped \ {p}
    BY <1>2, Clears
<1>5. /\ x \in Battles(team) /\ Alike(b, x) /\ x.alive = b.alive \cup {p}
      /\ x.trapped = b.trapped \ {p}
    <2>1. x = [y EXCEPT !.alive = y.alive \cup {p}]
        BY <1>2
    <2>2. /\ x \in Battles(team) /\ Alike(y, x) /\ x.alive = y.alive \cup {p}
          /\ x.trapped = y.trapped
        BY <1>1, <1>4, <2>1 DEF Battles, Alike, SameHits
    <2> QED
        BY <1>4, <2>2 DEF Alike, SameHits
<1>6. Survives(b, x)
    BY <1>1, <1>5 DEF Sound, Decided, Undecided, Survives, Alike
<1>7. Seated(x)
    <2>1. TeamsOf(x) = TeamsOf(b)
        BY <1>5, Teams
    <2>2. b.confirmed = {}
        BY <1>1 DEF Sound, Seated, Timed
    <2> QED
        BY <1>1, <1>5, <2>1, <2>2 DEF Sound, Seated, Alike
<1>8. Sound(x)
    <2>1. b.rule # "boss"
        BY <1>1 DEF Timed
    <2>2. b.rule = "tank" => Cardinality(ViableTeams(x)) > 1
        BY <1>1, <1>5, StillViable DEF Sound, GoesOn, Alike
    <2> QED
        BY <1>1, <1>5, <1>6, <1>7, <2>1, <2>2, StaysOpen
<1>9. Loses(b, x)
    <2>1. b.rule \notin Permanent \cup {"durability"}
        BY <1>1 DEF Timed, Permanent
    <2>2. ASSUME NEW t \in TeamsOf(b), b.hp[t] = 0 PROVE p \notin Side(b, t)
        BY <1>1, <2>2 DEF Sound, Seated, Side
    <2> QED
        BY <1>5, <2>1, <2>2 DEF Loses, Alike
<1> QED
    BY <1>1, <1>3, <1>5, <1>6, <1>8, <1>9 DEF Report, Step, Fair, Locked, Alike, Survives, Undecided

\* A tank base is repaired, or damaged down to 0, where it stays.
LEMMA BaseReport ==
    ASSUME NEW team, Lineup(team), NEW b \in Battles(team), Sound(b), b.rule = "tank",
           NEW t \in Range(team), NEW hp \in 0..BaseHP
    PROVE  Report(b, ChangeBase(b, t, hp))
<1>1. CASE b.concluded \/ b.hp[t] = 0
    BY <1>1, Ignores DEF ChangeBase
<1>2. CASE ~b.concluded /\ b.hp[t] # 0
    <2> DEFINE hps == [b.hp EXCEPT ![t] = hp]
    <2>1. hps \in Bases(team) /\ \A u \in Range(team) : b.hp[u] = 0 => hps[u] = 0
        <3>1. b.hp \in Bases(team)
            BY DEF Battles
        <3> QED
            BY <1>2, <3>1 DEF Bases
    <2>2. [b EXCEPT !.hp[t] = hp] = [b EXCEPT !.hp = hps]
        OBVIOUS
    <2> HIDE DEF hps
    <2>3. PICK x, c : x = [b EXCEPT !.hp = hps] /\ c = ConcludeTank(x)
        OBVIOUS
    <2>4. /\ x \in Battles(team) /\ Survives(b, x) /\ x.hp = hps /\ x.alive = b.alive
          /\ x.trapped = b.trapped /\ x.confirmed = b.confirmed /\ x.kills = b.kills
          /\ SameHits(b, x)
        <3>1. x = [b EXCEPT !.hp = hps]
            BY <2>3
        <3>2. Undecided(b)
            BY <1>2 DEF Sound, Decided
        <3> QED
            BY <2>1, <3>1, <3>2 DEF Battles, Survives, Undecided, SameHits
    <2>5. Seated(x)
        BY <2>4 DEF Sound, Seated, Survives
    <2>6. Step(b, c) /\ Fair(b, c) /\ Ends(x, c)
        <3>1. c = ConcludeTank(x) /\ b.rule \in Timed
            BY <2>3 DEF Timed
        <3> QED
            BY <1>2, <2>1, <2>4, <2>5, <3>1, Concludes
    <2>7. Report(b, c)
        BY <2>4, <2>6, EndsReport
    <2>8. c = ChangeBase(b, t, hp)
        BY <1>2, <2>2, <2>3 DEF ChangeBase
    <2> QED
        BY <2>7, <2>8
<1> QED
    BY <1>1, <1>2

LEMMA RepairReport ==
    ASSUME NEW team, Lineup(team), NEW b \in Battles(team), Sound(b), b.rule = "tank",
           NEW t \in Range(team)
    PROVE  Report(b, RepairBase(b, t))
<1>1. b.hp[t] \in 0..BaseHP
    BY DEF Battles, Bases
<1>2. Min({b.hp[t] + Repair, BaseHP}) \in 0..BaseHP
    BY <1>1, BattleAssumption, MinOfNaturals
<1> QED
    BY <1>2, BaseReport DEF RepairBase

LEMMA DamageReport ==
    ASSUME NEW team, Lineup(team), NEW b \in Battles(team), Sound(b), b.rule = "tank",
           NEW t \in Range(team), NEW loss \in Damages
    PROVE  Report(b, DamageBase(b, t, loss))
<1>1. b.hp[t] \in 0..BaseHP /\ loss \in Nat
    BY BattleAssumption DEF Battles, Bases
<1>2. (IF b.hp[t] > loss THEN b.hp[t] - loss ELSE 0) \in 0..BaseHP
    BY <1>1, BattleAssumption
<1> QED
    BY <1>2, BaseReport DEF DamageBase

\* An objective moves: lives, bases and everything else that ends a round are left
\* alone, unless the objective is met.
LEMMA ObjectiveReport ==
    ASSUME NEW team, Lineup(team), NEW b \in Battles(team), Sound(b), ~b.concluded,
           NEW x \in Battles(team), Alike(b, x), x.alive = b.alive, x.trapped = b.trapped,
           NEW c,
           \/ c = x
           \/ /\ b.rule # "boss"
              /\ \E t \in Range(team) :
                    /\ c = Award(x, t)
                    /\ \A p \in Connected(x) : team[p] # t => Beaten(x, team[p])
    PROVE  Report(b, c)
<1>1. x.trapped \subseteq x.alive
    BY DEF Sound, Seated
<1>2. CASE c = x
    BY <1>1, <1>2, AlikeReport
<1>3. CASE c # x
    <2>1. Seated(x) /\ Survives(b, x)
        BY <1>1, AlikeSeated
    <2>2. PICK t \in Range(team) : /\ c = Award(x, t)
                                   /\ \A p \in Connected(x) : team[p] # t => Beaten(x, team[p])
        BY <1>3
    <2>3. b.rule # "boss" /\ x.hp = b.hp /\ x.kills = b.kills /\ SameHits(b, x)
        BY <1>3 DEF Alike
    <2>4. c = Award(x, t) /\ \A p \in Connected(x) : team[p] # t => Beaten(x, team[p])
        BY <2>2
    <2> QED
        BY <2>1, <2>3, <2>4, Awards
<1> QED
    BY <1>2, <1>3

LEMMA TakeBunReport ==
    ASSUME NEW team, Lineup(team), NEW b \in Battles(team), Sound(b), NEW u \in Range(team)
    PROVE  Report(b, TakeBun(b, u))
<1>1. CASE b.concluded \/ b.stored[u][u] = 0
    BY <1>1, Ignores DEF TakeBun
<1>2. CASE ~b.concluded /\ b.stored[u][u] # 0
    <2> DEFINE row == [b.stored[u] EXCEPT ![u] = @ - 1]
               stored == [b.stored EXCEPT ![u] = row]
    <2>1. stored \in Stores(team)
        <3>1. b.stored \in [Range(team) -> [Range(team) -> Nat]]
            BY DEF Battles, Stores
        <3>2. b.stored[u] \in [Range(team) -> Nat]
            BY <3>1
        <3>3. b.stored[u][u] - 1 \in Nat
            BY <1>2, <3>2
        <3>4. row \in [Range(team) -> Nat]
            BY <3>2, <3>3
        <3> HIDE DEF row
        <3> QED
            BY <3>1, <3>4 DEF Stores
    <2>2. [b EXCEPT !.stored[u][u] = @ - 1] = [b EXCEPT !.stored = stored]
        OBVIOUS
    <2> HIDE DEF row, stored
    <2>3. PICK x : x = [b EXCEPT !.stored = stored]
        OBVIOUS
    <2>4. x \in Battles(team) /\ Alike(b, x) /\ x.alive = b.alive /\ x.trapped = b.trapped
        BY <2>1, <2>3 DEF Battles, Alike, SameHits
    <2>5. x = TakeBun(b, u)
        BY <1>2, <2>2, <2>3 DEF TakeBun
    <2> QED
        BY <1>2, <2>4, <2>5, ObjectiveReport
<1> QED
    BY <1>1, <1>2

LEMMA PutBunReport ==
    ASSUME NEW team, Lineup(team), NEW b \in Battles(team), Sound(b), b.rule = "bun",
           NEW p \in DOMAIN team, NEW u \in Range(team)
    PROVE  Report(b, PutBun(b, p, u))
<1>1. CASE b.concluded
    BY <1>1, Ignores DEF PutBun
<1>2. CASE ~b.concluded
    <2> DEFINE t == team[p]
               row == [b.stored[t] EXCEPT ![u] = @ + 1]
               stored == [b.stored EXCEPT ![t] = row]
    <2>0. t \in Range(team) /\ b.team = team
        BY Teams
    <2>1. stored \in Stores(team)
        <3>1. b.stored \in [Range(team) -> [Range(team) -> Nat]]
            BY DEF Battles, Stores
        <3>2. b.stored[t] \in [Range(team) -> Nat]
            BY <2>0, <3>1
        <3>4. row \in [Range(team) -> Nat]
            BY <3>2
        <3> HIDE DEF row
        <3> QED
            BY <2>0, <3>1, <3>4 DEF Stores
    <2>2. [b EXCEPT !.stored[t][u] = @ + 1] = [b EXCEPT !.stored = stored]
        OBVIOUS
    <2> HIDE DEF row, stored
    <2>3. PICK x : x = [b EXCEPT !.stored = stored]
        OBVIOUS
    <2>4. x \in Battles(team) /\ Alike(b, x) /\ x.alive = b.alive /\ x.trapped = b.trapped
        BY <2>1, <2>3 DEF Battles, Alike, SameHits
    <2>5. PutBun(b, p, u) = IF HasCapturedEveryOpponent(x, t) THEN Award(x, t) ELSE x
        BY <1>2, <2>0, <2>2, <2>3 DEF PutBun
    <2> HIDE DEF t
    <2>6. ASSUME HasCapturedEveryOpponent(x, t), NEW q \in Connected(x), team[q] # t
          PROVE  Beaten(x, team[q])
        <3>1. TeamsOf(x) = Range(team) /\ team[q] \in Range(team) /\ x.rule = "bun"
            BY <2>4, Teams DEF Connected, Roster, Alike
        <3>2. x.stored[t][team[q]] >= Cardinality(Side(x, team[q]))
            BY <2>6, <3>1 DEF HasCapturedEveryOpponent
        <3> QED
            BY <2>0, <3>1, <3>2 DEF Beaten
    <2> QED
        BY <1>2, <2>0, <2>4, <2>5, <2>6, ObjectiveReport
<1> QED
    BY <1>1, <1>2

LEMMA PieceReport ==
    ASSUME NEW team, Lineup(team), NEW b \in Battles(team), Sound(b), NEW p \in DOMAIN team,
           CanDepositPiece(b, p)
    PROVE  Report(b, DepositPiece(b, p))
<1>1. CASE b.concluded
    BY <1>1, Ignores DEF DepositPiece
<1>2. CASE ~b.concluded
    <2> DEFINE t == team[p]
               pieces == [b.pieces EXCEPT ![t] = @ + 1]
    <2>0. t \in Range(team) /\ b.team = team
        BY Teams
    <2>1. pieces \in Statues(team)
        <3>1. b.pieces \in Statues(team)
            BY DEF Battles
        <3>2. b.pieces[t] < Pieces /\ Pieces \in Nat
            BY <1>2, <2>0, BattleAssumption DEF CanDepositPiece
        <3> QED
            BY <2>0, <3>1, <3>2 DEF Statues
    <2>2. [b EXCEPT !.pieces[t] = @ + 1] = [b EXCEPT !.pieces = pieces]
        OBVIOUS
    <2> HIDE DEF pieces
    <2>3. PICK x : x = [b EXCEPT !.pieces = pieces]
        OBVIOUS
    <2>4. x \in Battles(team) /\ Alike(b, x) /\ x.alive = b.alive /\ x.trapped = b.trapped
        BY <2>1, <2>3 DEF Battles, Alike, SameHits
    <2>5. DepositPiece(b, p) = IF x.pieces[t] = Pieces THEN Award(x, t) ELSE x
        BY <1>2, <2>0, <2>2, <2>3 DEF DepositPiece
    <2> HIDE DEF t
    <2>6. ASSUME x.pieces[t] = Pieces, NEW q \in Connected(x), team[q] # t
          PROVE  Beaten(x, team[q])
        <3>1. TeamsOf(x) = Range(team) /\ x.rule = "sculpture"
            BY <2>4, Teams DEF Alike, CanDepositPiece
        <3> QED
            BY <2>0, <2>6, <3>1 DEF Beaten
    <2>7. b.rule # "boss"
        BY DEF CanDepositPiece
    <2> QED
        BY <1>2, <2>0, <2>4, <2>5, <2>6, <2>7, ObjectiveReport
<1> QED
    BY <1>1, <1>2

LEMMA StatueReport ==
    ASSUME NEW team, Lineup(team), NEW b \in Battles(team), Sound(b), NEW t \in Range(team)
    PROVE  Report(b, ExplodeStatue(b, t))
<1>1. CASE b.concluded \/ b.pieces[t] \notin 1..(Pieces - 1)
    BY <1>1, Ignores DEF ExplodeStatue
<1>2. CASE ~b.concluded /\ b.pieces[t] \in 1..(Pieces - 1)
    <2> DEFINE pieces == [b.pieces EXCEPT ![t] = @ - 1]
    <2>1. pieces \in Statues(team)
        <3>1. b.pieces \in Statues(team) /\ Pieces \in Nat
            BY BattleAssumption DEF Battles
        <3> QED
            BY <1>2, <3>1 DEF Statues
    <2>2. [b EXCEPT !.pieces[t] = @ - 1] = [b EXCEPT !.pieces = pieces]
        OBVIOUS
    <2> HIDE DEF pieces
    <2>3. PICK x : x = [b EXCEPT !.pieces = pieces]
        OBVIOUS
    <2>4. x \in Battles(team) /\ Alike(b, x) /\ x.alive = b.alive /\ x.trapped = b.trapped
        BY <2>1, <2>3 DEF Battles, Alike, SameHits
    <2>5. x = ExplodeStatue(b, t)
        BY <1>2, <2>2, <2>3 DEF ExplodeStatue
    <2> QED
        BY <1>2, <2>4, <2>5, ObjectiveReport
<1> QED
    BY <1>1, <1>2

LEMMA GemReport ==
    ASSUME NEW team, Lineup(team), NEW b \in Battles(team), Sound(b), b.rule = "treasure",
           NEW p \in DOMAIN team, NEW value \in Nat
    PROVE  Report(b, PickGem(b, p, value))
<1>1. CASE b.concluded
    BY <1>1, Ignores DEF PickGem
<1>2. CASE ~b.concluded
    <2> DEFINE t == team[p]
               gems == [b.gems EXCEPT ![p] = @ + value]
    <2>0. t \in Range(team) /\ b.team = team
        BY Teams
    <2>1. gems \in Counts(team)
        BY DEF Battles, Counts
    <2>2. [b EXCEPT !.gems[p] = @ + value] = [b EXCEPT !.gems = gems]
        OBVIOUS
    <2> HIDE DEF gems
    <2>3. PICK x : x = [b EXCEPT !.gems = gems]
        OBVIOUS
    <2>4. x \in Battles(team) /\ Alike(b, x) /\ x.alive = b.alive /\ x.trapped = b.trapped
        BY <2>1, <2>3 DEF Battles, Alike, SameHits
    <2>5. PickGem(b, p, value) =
            IF TeamTotal(x.team, x.gems)[t] >= GemTarget * Cardinality(Side(b, t))
            THEN Award(x, t) ELSE x
        BY <1>2, <2>0, <2>2, <2>3 DEF PickGem
    <2> HIDE DEF t
    <2>6. ASSUME TeamTotal(x.team, x.gems)[t] >= GemTarget * Cardinality(Side(b, t)),
                 NEW q \in Connected(x), team[q] # t
          PROVE  Beaten(x, team[q])
        <3>1. TeamsOf(x) = Range(team) /\ x.rule = "treasure" /\ x.team = b.team
            BY <2>4, Teams DEF Alike
        <3>2. Side(x, t) = Side(b, t)
            BY <3>1 DEF Side, Roster
        <3>3. t \in TeamsOf(x) \ {team[q]}
            BY <2>0, <2>6, <3>1
        <3> QED
            BY <2>6, <3>1, <3>2, <3>3 DEF Beaten
    <2> QED
        BY <1>2, <2>0, <2>4, <2>5, <2>6, ObjectiveReport
<1> QED
    BY <1>1, <1>2

\* Scattered gems are nothing to the verdict: what a report does after them it does to
\* the battle before them.
LEMMA Scatters ==
    ASSUME NEW team, Lineup(team), NEW b \in Battles(team), Sound(b), NEW p \in DOMAIN team,
           NEW y, y = ScatterGems(b, p)
    PROVE  /\ y \in Battles(team) /\ Sound(y) /\ Alike(b, y)
           /\ y.alive = b.alive /\ y.dying = b.dying
           /\ \A c : Report(y, c) => Report(b, c)
           /\ \A c, q : Kill(y, c, q) => Kill(b, c, q)
<1>1. /\ y \in Battles(team) /\ Alike(b, y)
      /\ y.alive = b.alive /\ y.trapped = b.trapped /\ y.dying = b.dying
    <2>1. CASE b.rule # "treasure"
        BY <2>1 DEF ScatterGems, Alike, SameHits
    <2>2. CASE b.rule = "treasure"
        <3> DEFINE gems == [b.gems EXCEPT ![p] = 0]
        <3>1. gems \in Counts(team)
            BY DEF Battles, Counts
        <3>2. y = [b EXCEPT !.gems = gems]
            BY <2>2 DEF ScatterGems
        <3> HIDE DEF gems
        <3> QED
            BY <3>1, <3>2 DEF Battles, Alike, SameHits
    <2> QED
        BY <2>1, <2>2
<1>2. y.team = team /\ b.team = team
    BY <1>1, Teams
<1>3. /\ TeamsOf(y) = TeamsOf(b) /\ Connected(y) = Connected(b) /\ Roster(y) = Roster(b)
      /\ LivingTeams(y) = LivingTeams(b) /\ ConnectedTeams(y) = ConnectedTeams(b)
      /\ \A t : Side(y, t) = Side(b, t)
    BY <1>1, <1>2 DEF TeamsOf, Connected, LivingTeams, ConnectedTeams, Side, Roster, Alike
<1>4. ViableTeams(y) = ViableTeams(b)
    BY <1>1, <1>3 DEF ViableTeams, Alike
<1>5. Sound(y)
    <2>1. Seated(y)
        BY <1>1, <1>3 DEF Sound, Seated, Alike
    <2>2. Decided(y)
        BY <1>1, <1>3 DEF Sound, Decided, Undecided, Alike
    <2>3. GoesOn(y)
        BY <1>1, <1>3, <1>4 DEF Sound, GoesOn, Alike
    <2> QED
        BY <2>1, <2>2, <2>3 DEF Sound
<1>6. ASSUME NEW c PROVE /\ Step(y, c) => Step(b, c)
                         /\ Fair(y, c) => Fair(b, c)
                         /\ SameHits(y, c) => SameHits(b, c)
    <2>1. Locked(y, c) => Locked(b, c)
        BY <1>1 DEF Locked, Alike
    <2>2. Loses(y, c) => Loses(b, c)
        BY <1>1, <1>3 DEF Loses, Alike
    <2>3. Step(y, c) => Step(b, c)
        BY <1>1, <1>2, <2>1, <2>2 DEF Step, Alike
    <2> QED
        BY <1>1, <2>3 DEF Fair, SameHits, Alike
<1>7. ASSUME NEW c PROVE Report(y, c) => Report(b, c)
    BY <1>1, <1>6 DEF Report, Alike
<1>8. ASSUME NEW c, NEW q PROVE Kill(y, c, q) => Kill(b, c, q)
    <2>1. Credits(y, c) => Credits(b, c)
        BY <1>1, <1>2, <1>3 DEF Credits, Alike
    <2> QED
        BY <1>1, <1>6, <2>1 DEF Kill, Alike
<1> QED
    BY <1>1, <1>5, <1>7, <1>8

-----------------------------------------------------------------------------
(* Departures *)

\* A battle somebody has left: it differs from b in its departed, and in the arbitrator.
LeftBy(b, x) ==
    /\ Undecided(x) /\ Seated(x)
    /\ x.rule = b.rule /\ x.ai = b.ai /\ x.bosses = b.bosses /\ x.hp = b.hp
    /\ x.kills = b.kills /\ SameHits(b, x) /\ x.alive \subseteq b.alive

\* The round after a departure ends, or goes on with an arbitrator that is in it.
LEMMA AfterDepartureReport ==
    ASSUME NEW team, Lineup(team), NEW b \in Battles(team), Sound(b), ~b.concluded,
           NEW x \in Battles(team), LeftBy(b, x),
           x.arbitrator \in Connected(x) \ x.ai \/ Connected(x) = {}
    PROVE  Report(b, AfterDeparture(x))
<1>1. /\ b.team = team /\ TeamsOf(b) = Range(team) /\ x.team = team
      /\ ConnectedTeams(x) \subseteq Range(team) /\ IsFiniteSet(Range(team))
    BY Teams
<1>2. PICK c : c = AfterDeparture(x)
    OBVIOUS
<1>3. SUFFICES /\ c \in Battles(team) /\ (Ends(x, c) \/ c = x)
               /\ Sound(c) /\ (c.concluded => FairlyLost(c))
    <2>1. Ends(x, x)
        BY DEF Ends, SameHits
    <2>2. c \in Battles(team) /\ Ends(x, c) /\ Sound(c) /\ (c.concluded => FairlyLost(c))
        BY <1>3, <2>1
    <2>3. Step(b, c) /\ Fair(b, c)
        BY <1>1, <2>2 DEF Step, Fair, Locked, Loses, Ends, LeftBy
    <2> QED
        BY <1>2, <2>2, <2>3, EndsReport DEF LeftBy
<1>4. Connected(x) = {} => ConnectedTeams(x) = {} /\ Cardinality(ConnectedTeams(x)) = 0
    BY FS_EmptySet DEF ConnectedTeams
<1>5. Connected(x) = {} => x.alive = {}
    BY DEF LeftBy, Seated, Connected, Roster, Battles
<1>6. CASE x.rule = "boss"
    <2>1. CASE x.alive = {}
        <3>1. PICK y : y = Conclude(x)
            OBVIOUS
        <3>2. c = [y EXCEPT !.arbitrator = Nobody]
            BY <1>2, <1>6, <2>1, <3>1 DEF AfterDeparture
        <3>3. Cardinality(LivingTeams(x)) <= 1
            <4>1. LivingTeams(x) = {}
                BY <2>1 DEF LivingTeams
            <4> QED
                BY <4>1, FS_EmptySet
        <3>4. y \in Battles(team) /\ Ends(x, y) /\ y.concluded /\ Sound(y) /\ FairlyLost(y)
            BY <1>6, <2>1, <3>1, <3>3, ConcludeEnds DEF LeftBy, Permanent
        <3>5. c \in Battles(team) /\ Ends(y, c) /\ c.concluded /\ Sound(c) /\ FairlyLost(c)
            BY <3>2, <3>4, NobodyEnds
        <3> QED
            BY <3>4, <3>5 DEF Ends, SameHits
    <2>2. CASE x.alive # {}
        <3>1. c = x
            BY <1>2, <1>6, <2>2 DEF AfterDeparture
        <3>2. GoesOn(x)
            BY <1>5, <1>6, <2>2 DEF GoesOn, Sound, LeftBy
        <3> QED
            BY <3>1, <3>2 DEF Sound, Decided, LeftBy, Undecided
    <2> QED
        BY <2>1, <2>2
<1>7. CASE x.rule = "tank"
    <2>1. c = ConcludeTank(x)
        BY <1>2, <1>7 DEF AfterDeparture
    <2>2. /\ c \in Battles(team) /\ Ends(x, c)
          /\ c.concluded => Sound(c) /\ FairlyLost(c)
          /\ ~c.concluded => c = x /\ Cardinality(ViableTeams(x)) > 1
        BY <1>7, <2>1, TankEnds DEF LeftBy
    <2>3. ASSUME ~c.concluded PROVE Sound(c)
        <3>1. Cardinality(ConnectedTeams(x)) > 1
            <4>1. IsFiniteSet(ConnectedTeams(x)) /\ ViableTeams(x) \in SUBSET ConnectedTeams(x)
                BY <1>1, Teams, FS_Subset
            <4> QED
                BY <2>2, <2>3, <4>1, Sizes
        <3>2. GoesOn(x)
            BY <1>4, <1>7, <2>2, <2>3, <3>1 DEF GoesOn
        <3> QED
            BY <2>2, <2>3, <3>2 DEF Sound, Decided, LeftBy, Undecided
    <2> QED
        BY <2>2, <2>3
<1>8. CASE x.rule \notin {"boss", "tank"} /\ Cardinality(ConnectedTeams(x)) > 1
    <2>1. c = x
        BY <1>2, <1>8 DEF AfterDeparture
    <2>2. GoesOn(x)
        BY <1>4, <1>8 DEF GoesOn
    <2> QED
        BY <2>1, <2>2 DEF Sound, Decided, LeftBy, Undecided
<1>9. CASE x.rule \notin {"boss", "tank"} /\ ~(Cardinality(ConnectedTeams(x)) > 1)
    <2>1. PICK t, y : /\ t = IF ConnectedTeams(x) = {} THEN Draw
                             ELSE CHOOSE u \in ConnectedTeams(x) : TRUE
                      /\ y = Award(x, t)
        OBVIOUS
    <2>2. c = [y EXCEPT !.arbitrator = Nobody]
        BY <1>2, <1>9, <2>1 DEF AfterDeparture
    <2>3. t \in Range(team) \cup {Draw} /\ (t # Draw => t \in ConnectedTeams(x))
        BY <1>1, <2>1
    <2>4. ASSUME NEW p \in Connected(x), t # Draw, team[p] # t PROVE FALSE
        <3>1. team[p] \in ConnectedTeams(x)
            BY <1>1 DEF ConnectedTeams
        <3>2. Cardinality(ConnectedTeams(x)) <= 1
            BY <1>1, <1>9, Sizes
        <3> QED
            BY <1>1, <2>3, <2>4, <3>1, <3>2, Sizes
    <2>5. y \in Battles(team) /\ Ends(x, y) /\ y.concluded /\ Sound(y) /\ FairlyLost(y)
        <3>1. y = Award(x, t)
            BY <2>1
        <3>2. \A p \in Connected(x) : t # Draw /\ team[p] # t => Beaten(x, team[p])
            BY <2>4
        <3> QED
            BY <1>9, <2>3, <3>1, <3>2, AwardEnds DEF LeftBy
    <2>6. c \in Battles(team) /\ Ends(y, c) /\ c.concluded /\ Sound(c) /\ FairlyLost(c)
        BY <2>2, <2>5, NobodyEnds
    <2> QED
        BY <2>5, <2>6 DEF Ends, SameHits
<1> QED
    BY <1>6, <1>7, <1>8, <1>9

LEMMA DepartureReport ==
    ASSUME NEW team, Lineup(team), NEW b \in Battles(team), Sound(b), NEW p \in DOMAIN team
    PROVE  Report(b, RecordDeparture(b, p))
<1>1. CASE b.concluded \/ p \in b.departed
    BY <1>1, Ignores DEF RecordDeparture
<1>2. CASE ~b.concluded /\ p \notin b.departed
    <2> DEFINE left == [Fall(b, p) EXCEPT !.departed = @ \cup {p}]
    <2>1. PICK x : x = Fall(b, p)
        OBVIOUS
    <2>2. /\ x \in Battles(team) /\ Alike(b, x) /\ x.alive = b.alive \ {p}
          /\ x.trapped = b.trapped \ {p}
        BY <2>1, Falls
    <2>3. /\ left \in Battles(team) /\ left.departed = b.departed \cup {p}
          /\ left.arbitrator = b.arbitrator /\ left.ai = b.ai /\ LeftBy(b, left)
        <3>1. /\ left \in Battles(team) /\ left.departed = x.departed \cup {p}
              /\ left.rule = x.rule /\ left.ai = x.ai /\ left.arbitrator = x.arbitrator
              /\ left.alive = x.alive /\ left.trapped = x.trapped /\ left.bosses = x.bosses
              /\ left.hp = x.hp /\ left.confirmed = x.confirmed /\ left.kills = x.kills
              /\ SameHits(x, left) /\ left.concluded = x.concluded /\ left.draw = x.draw
              /\ left.winner = x.winner /\ left.grace = x.grace
            <4>1. left = [x EXCEPT !.departed = x.departed \cup {p}]
                BY <2>1
            <4> HIDE DEF left
            <4> QED
                BY <2>2, <4>1 DEF Battles, SameHits
        <3> HIDE DEF left
        <3>2. TeamsOf(left) = TeamsOf(b)
            BY <3>1, Teams
        <3>3. Seated(left)
            BY <2>2, <3>1, <3>2 DEF Sound, Seated, Alike
        <3>4. Undecided(left)
            BY <1>2, <2>2, <3>1 DEF Sound, Decided, Undecided, Alike
        <3> QED
            BY <2>2, <3>1, <3>3, <3>4 DEF LeftBy, Alike, SameHits
    <2> HIDE DEF left
    <2>4. PICK rest : rest = Connected(left)
        OBVIOUS
    <2>5. /\ left.team = team /\ b.team = team /\ rest \subseteq DOMAIN team /\ p \notin rest
          /\ rest = Connected(b) \ {p} /\ b.arbitrator \in Connected(b) \ b.ai
        <3>1. left.team = team /\ b.team = team
            BY <2>3, Teams
        <3> QED
            BY <1>2, <2>3, <2>4, <3>1 DEF Connected, Roster, Sound, GoesOn
    <2>6. ASSUME NEW a \in DOMAIN team \cup {Nobody}, NEW y, y = [left EXCEPT !.arbitrator = a],
                 a \in rest \ b.ai \/ rest = {}
          PROVE  Report(b, AfterDeparture(y))
        <3>1. /\ y \in Battles(team) /\ y.rule = left.rule /\ y.ai = left.ai
              /\ y.bosses = left.bosses /\ y.hp = left.hp /\ y.kills = left.kills
              /\ SameHits(left, y) /\ y.alive = left.alive /\ y.trapped = left.trapped
              /\ y.departed = left.departed /\ y.confirmed = left.confirmed
              /\ y.concluded = left.concluded /\ y.draw = left.draw
              /\ y.winner = left.winner /\ y.grace = left.grace /\ y.arbitrator = a
            BY <2>3, <2>6 DEF Battles, SameHits
        <3>2. TeamsOf(y) = TeamsOf(left) /\ Connected(y) = rest
            BY <2>3, <2>4, <2>5, <3>1, Teams DEF Connected, Roster
        <3>3. LeftBy(b, y)
            BY <2>3, <3>1, <3>2 DEF LeftBy, Seated, Undecided, SameHits
        <3> QED
            BY <1>2, <2>3, <2>6, <3>1, <3>2, <3>3, AfterDepartureReport
    <2>7. CASE rest = {}
        <3>1. PICK y : y = [left EXCEPT !.arbitrator = Nobody]
            OBVIOUS
        <3>2. AfterDeparture(y) = RecordDeparture(b, p)
            BY <1>2, <2>4, <2>7, <3>1 DEF RecordDeparture, left
        <3> QED
            BY <2>6, <2>7, <3>1, <3>2
    <2>8. CASE rest # {} /\ p # b.arbitrator
        <3>1. AfterDeparture(left) = RecordDeparture(b, p)
            BY <1>2, <2>4, <2>8 DEF RecordDeparture, left
        <3>2. left.arbitrator \in Connected(left) \ left.ai
            BY <2>3, <2>4, <2>5, <2>8
        <3> QED
            BY <1>2, <2>3, <3>1, <3>2, AfterDepartureReport
    <2>9. CASE rest # {} /\ p = b.arbitrator /\ Arbitrators(b, rest) = {}
        <3> DEFINE teams == ConnectedTeams(left)
                   t == IF Cardinality(teams) = 1 THEN CHOOSE u \in teams : TRUE ELSE Draw
        <3>1. RecordDeparture(b, p) = [Award(left, t) EXCEPT !.arbitrator = Nobody]
            BY <1>2, <2>4, <2>9 DEF RecordDeparture, left
        <3>3. teams \subseteq Range(team) /\ IsFiniteSet(Range(team)) /\ Draw \notin Range(team)
            BY <2>3, Teams
        <3>4. IsFiniteSet(teams)
            BY <3>3, FS_Subset
        <3>6. t # Draw => teams = {t}
            BY <3>4, FS_Singleton
        <3> HIDE DEF t
        <3>0. PICK y, c : y = Award(left, t) /\ c = [y EXCEPT !.arbitrator = Nobody]
            OBVIOUS
        <3>2. c = RecordDeparture(b, p)
            BY <3>0, <3>1
        <3>7. t \in Range(team) \cup {Draw}
            BY <3>3, <3>6
        <3>8. \A q \in Connected(left) : t # Draw /\ team[q] # t => Beaten(left, team[q])
            <4> SUFFICES ASSUME NEW q \in Connected(left) PROVE team[q] \in teams
                BY <3>6
            <4> QED
                BY <2>4, <2>5 DEF ConnectedTeams
        <3>9. left.rule # "boss"
            BY <2>3, <2>9 DEF LeftBy, Seated, Arbitrators
        <3>10. y = Award(left, t)
            BY <3>0
        <3>11. y \in Battles(team) /\ Ends(left, y) /\ y.concluded /\ Sound(y) /\ FairlyLost(y)
            BY <2>3, <3>7, <3>8, <3>9, <3>10, AwardEnds DEF LeftBy
        <3>13. c \in Battles(team) /\ Ends(y, c) /\ c.concluded /\ Sound(c) /\ FairlyLost(c)
            BY <3>0, <3>11, NobodyEnds
        <3>14. Ends(left, c)
            BY <3>11, <3>13 DEF Ends, SameHits
        <3>15. Step(b, c) /\ Fair(b, c)
            BY <1>2, <2>3, <2>5, <3>13, <3>14, Teams DEF Step, Fair, Locked, Loses, Ends, LeftBy
        <3> QED
            BY <2>3, <3>2, <3>14, <3>15, EndsReport DEF LeftBy
    <2>10. CASE rest # {} /\ p = b.arbitrator /\ Arbitrators(b, rest) # {}
        <3>1. PICK a, y : /\ a = SelectArbitrator(b, p, rest)
                          /\ y = [left EXCEPT !.arbitrator = a]
            OBVIOUS
        <3>2. AfterDeparture(y) = RecordDeparture(b, p)
            BY <1>2, <2>4, <2>10, <3>1 DEF RecordDeparture, left
        <3>3. a = Min(Arbitrators(b, rest))
            BY <2>5, <3>1 DEF SelectArbitrator, Arbitrators
        <3>4. Arbitrators(b, rest) \in SUBSET Nat
            BY <2>5, BattleAssumption DEF Arbitrators, Lineup
        <3>5. a \in Arbitrators(b, rest)
            BY <2>10, <3>3, <3>4, MinOfNaturals
        <3>6. a \in rest \ b.ai /\ a \in DOMAIN team \cup {Nobody}
            BY <2>5, <3>5 DEF Arbitrators
        <3>7. y = [left EXCEPT !.arbitrator = a]
            BY <3>1
        <3> QED
            BY <2>6, <3>2, <3>6, <3>7
    <2> QED
        BY <2>7, <2>8, <2>9, <2>10
<1> QED
    BY <1>1, <1>2

-----------------------------------------------------------------------------
(* The clock *)

\* The leader of a table is in it, or there is none.
LEMMA LeaderIsListed ==
    ASSUME NEW total
    PROVE  Leader(total) \in DOMAIN total \cup {Draw}
<1> DEFINE best == {t \in DOMAIN total : \A u \in DOMAIN total : total[u] <= total[t]}
<1>1. CASE Cardinality(best) = 1
    <2>1. Leader(total) = CHOOSE t \in best : TRUE
        BY <1>1 DEF Leader
    <2>2. best # {}
        BY <1>1, FS_EmptySet
    <2> QED
        BY <2>1, <2>2
<1>2. CASE Cardinality(best) # 1
    BY <1>2 DEF Leader
<1> QED
    BY <1>1, <1>2

\* The deadline keeps a verdict and otherwise pronounces one.
LEMMA TimeoutStep ==
    ASSUME NEW team, Lineup(team), NEW b \in Battles(team), Sound(b)
    PROVE  LET c == ConcludeTimeout(b)
           IN  Step(b, c) /\ c.kills = b.kills /\ SameHits(b, c)
<1>1. PICK c : c = ConcludeTimeout(b)
    OBVIOUS
<1>2. SUFFICES Step(b, c) /\ c.kills = b.kills /\ SameHits(b, c)
    BY <1>1
<1>3. CASE b.concluded
    <2>1. CASE ~b.grace
        <3>1. c = b
            BY <1>1, <1>3, <2>1 DEF ConcludeTimeout
        <3> QED
            BY <3>1, Ignores DEF Report
    <2>2. CASE b.grace
        <3>1. c = [b EXCEPT !.woken = TRUE]
            BY <1>1, <1>3, <2>2 DEF ConcludeTimeout
        <3>2. /\ c \in Battles(team) /\ Alike(b, c) /\ c.alive = b.alive
              /\ c.trapped = b.trapped /\ c.departed = b.departed
            BY <3>1 DEF Battles, Alike, SameHits
        <3>3. c.trapped \subseteq c.alive /\ c.alive \cap c.departed = {}
            BY <3>2 DEF Sound, Seated
        <3> QED
            BY <1>3, <3>2, <3>3, AfterVerdict DEF Report, Alike
    <2> QED
        BY <2>1, <2>2
<1>4. CASE ~b.concluded
    <2>0. Undecided(b) /\ Seated(b) /\ b.team = team /\ TeamsOf(b) = Range(team)
        BY <1>4, Teams DEF Sound, Decided
    <2>1. ASSUME c \in Battles(team), Ends(b, c), Sound(c)
          PROVE  Step(b, c) /\ c.kills = b.kills /\ SameHits(b, c)
        BY <1>4, <2>0, <2>1 DEF Step, Locked, Loses, Ends
    <2>2. ASSUME NEW t \in Range(team) \cup {Draw}, c = Award(b, t), b.rule # "boss"
          PROVE  Step(b, c) /\ c.kills = b.kills /\ SameHits(b, c)
        BY <2>0, <2>1, <2>2, AwardEnds
    <2>3. CASE ConcludeTank(b).concluded
        <3>1. c = ConcludeTank(b)
            BY <1>1, <1>4, <2>3 DEF ConcludeTimeout
        <3>2. c.concluded
            BY <2>3, <3>1
        <3> QED
            BY <2>0, <2>1, <3>1, <3>2, TankEnds
    <2>4. CASE ~ConcludeTank(b).concluded /\ b.rule # "boss"
        <3>1. \E t \in Range(team) \cup {Draw} : c = Award(b, t)
            <4>1. CASE b.rule = "bun"
                <5>1. c = Award(b, Leader(Stored(b))) /\ DOMAIN Stored(b) = Range(team)
                    BY <1>1, <1>4, <2>0, <2>4, <4>1 DEF ConcludeTimeout, Stored
                <5> QED
                    BY <5>1, LeaderIsListed
            <4>2. CASE b.rule = "sculpture"
                <5>1. c = Award(b, Leader(b.pieces)) /\ DOMAIN b.pieces = Range(team)
                    BY <1>1, <1>4, <2>4, <4>2 DEF ConcludeTimeout, Battles, Statues
                <5> QED
                    BY <5>1, LeaderIsListed
            <4>3. CASE b.rule = "wrestle"
                <5>1. /\ c = Award(b, Leader(TeamTotal(b.team, b.kills)))
                      /\ DOMAIN TeamTotal(b.team, b.kills) = Range(team)
                    BY <1>1, <1>4, <2>0, <2>4, <4>3 DEF ConcludeTimeout, TeamTotal
                <5> QED
                    BY <5>1, LeaderIsListed
            <4>4. CASE b.rule = "treasure"
                <5>1. /\ c = Award(b, Leader(TeamTotal(b.team, b.gems)))
                      /\ DOMAIN TeamTotal(b.team, b.gems) = Range(team)
                    BY <1>1, <1>4, <2>0, <2>4, <4>4 DEF ConcludeTimeout, TeamTotal
                <5> QED
                    BY <5>1, LeaderIsListed
            <4>5. CASE b.rule \notin {"bun", "sculpture", "wrestle", "treasure"}
                <5>1. c = Award(b, Draw)
                    BY <1>1, <1>4, <2>4, <4>5 DEF ConcludeTimeout
                <5> QED
                    BY <5>1
            <4> QED
                BY <4>1, <4>2, <4>3, <4>4, <4>5
        <3> QED
            BY <2>2, <2>4, <3>1
    <2>5. CASE ~ConcludeTank(b).concluded /\ b.rule = "boss"
        <3>1. PICK x : x = [b EXCEPT !.alive = {}, !.trapped = {}, !.dying = {}]
            OBVIOUS
        <3>2. c = Conclude(x)
            BY <1>1, <1>4, <2>5, <3>1 DEF ConcludeTimeout
        <3>3. /\ x \in Battles(team) /\ Alike(b, x) /\ x.alive = {} /\ x.trapped = {}
            BY <3>1 DEF Battles, Alike, SameHits
        <3>4. Seated(x) /\ Survives(b, x)
            BY <1>4, <3>3, AlikeSeated
        <3>5. Cardinality(LivingTeams(x)) <= 1
            <4>1. LivingTeams(x) = {}
                BY <3>3 DEF LivingTeams
            <4> QED
                BY <4>1, FS_EmptySet
        <3>6. c \in Battles(team) /\ Ends(x, c) /\ c.concluded /\ Sound(c)
            BY <2>5, <3>2, <3>3, <3>4, <3>5, ConcludeEnds DEF Alike, Survives, Permanent
        <3>7. c.alive = {} /\ c.hp = b.hp /\ c.rule = b.rule /\ c.kills = b.kills /\ SameHits(b, c)
            BY <3>3, <3>6 DEF Ends, Alike, SameHits
        <3> QED
            BY <1>4, <2>0, <3>6, <3>7 DEF Step, Locked, Loses
    <2> QED
        BY <2>3, <2>4, <2>5
<1> QED
    BY <1>3, <1>4

\* The grace of a boss victory is over.
LEMMA GraceReport ==
    ASSUME NEW team, Lineup(team), NEW b \in Battles(team), Sound(b), b.grace
    PROVE  Report(b, CompleteGrace(b))
<1>1. PICK c : c = CompleteGrace(b)
    OBVIOUS
<1>2. /\ c \in Battles(team) /\ c.rule = b.rule /\ c.ai = b.ai /\ c.bosses = b.bosses
      /\ c.concluded = b.concluded /\ c.winner = b.winner /\ c.draw = b.draw /\ ~c.grace
      /\ c.hp = b.hp /\ c.confirmed = b.confirmed /\ c.kills = b.kills /\ SameHits(b, c)
      /\ c.alive = b.alive /\ c.trapped = b.trapped /\ c.departed = b.departed
    BY <1>1 DEF CompleteGrace, Battles, SameHits
<1>3. b.concluded /\ c.trapped \subseteq c.alive /\ c.alive \cap c.departed = {}
    BY <1>2 DEF Sound, Seated, Decided, Undecided
<1>4. Report(b, c)
    BY <1>2, <1>3, AfterVerdict
<1> QED
    BY <1>1, <1>4

-----------------------------------------------------------------------------
(* Hits *)

LEMMA MinOfTwo ==
    ASSUME NEW m \in Nat, NEW n \in Nat
    PROVE  Min({m, n}) = IF m <= n THEN m ELSE n
<1>1. Min({m, n}) \in {m, n} /\ \A y \in {m, n} : Min({m, n}) <= y
    BY MinOfNaturals
<1> QED
    BY <1>1

\* The hits of a player are finitely many.
LEMMA HitsOfPlayer ==
    ASSUME NEW p, NEW S \in SUBSET Hits, NEW T \in SUBSET S
    PROVE  /\ IsFiniteSet(Of(S, p)) /\ Cardinality(Of(S, p)) \in Nat
           /\ Cardinality(Of(T, p)) \in Nat
           /\ Cardinality(Of(T, p)) <= Cardinality(Of(S, p))
<1>1. Of(S, p) \subseteq Hits /\ Of(T, p) \subseteq Of(S, p)
    BY DEF Of
<1>2. IsFiniteSet(Of(S, p))
    BY <1>1, FS_Subset, BattleAssumption
<1>3. IsFiniteSet(Of(T, p)) /\ Cardinality(Of(T, p)) <= Cardinality(Of(S, p))
    BY <1>1, <1>2, FS_Subset
<1> QED
    BY <1>2, <1>3, FS_CardinalityType

\* One more hit of a player is one more of that player and of no other.
LEMMA HitAdded ==
    ASSUME NEW S \in SUBSET Hits, NEW p, NEW h, <<p, h>> \in Hits \ S
    PROVE  /\ Cardinality(Of(S \cup {<<p, h>>}, p)) = Cardinality(Of(S, p)) + 1
           /\ \A q : q # p => Of(S \cup {<<p, h>>}, q) = Of(S, q)
<1>1. Of(S \cup {<<p, h>>}, p) = Of(S, p) \cup {<<p, h>>} /\ <<p, h>> \notin Of(S, p)
    BY DEF Of
<1>2. IsFiniteSet(Of(S, p))
    BY HitsOfPlayer
<1>3. ASSUME NEW q, q # p PROVE Of(S \cup {<<p, h>>}, q) = Of(S, q)
    BY <1>3 DEF Of
<1> QED
    BY <1>1, <1>2, <1>3, FS_AddElement

LEMMA HitRemoved ==
    ASSUME NEW S \in SUBSET Hits, NEW p, NEW h, <<p, h>> \in S
    PROVE  /\ Cardinality(Of(S \ {<<p, h>>}, p)) + 1 = Cardinality(Of(S, p))
           /\ \A q : q # p => Of(S \ {<<p, h>>}, q) = Of(S, q)
<1>1. S \ {<<p, h>>} \in SUBSET Hits /\ <<p, h>> \in Hits \ (S \ {<<p, h>>})
    OBVIOUS
<1>2. (S \ {<<p, h>>}) \cup {<<p, h>>} = S
    OBVIOUS
<1> QED
    BY <1>1, <1>2, HitAdded

\* HitsCounted of one player.
Balanced(b, p) ==
    /\ HitLimit - b.layers[p] = Min({HitLimit, Charges(b, p)})
    /\ b.layers[p] > 0 => Cardinality(Of(b.deaths, p)) + b.unpaired[p] = Charges(b, p)
    /\ Cardinality(Of(b.early \cap b.harms, p)) <= Cardinality(Of(b.deaths \ b.early, p))

\* A report of p's hits leaves the counts of everybody else.
SameFor(b, c, q) ==
    /\ c.layers[q] = b.layers[q] /\ c.unpaired[q] = b.unpaired[q]
    /\ Of(c.harms, q) = Of(b.harms, q) /\ Of(c.deaths, q) = Of(b.deaths, q)
    /\ Of(c.early, q) = Of(b.early, q)

LEMMA OthersBalanced ==
    ASSUME NEW b, NEW c, NEW q, Balanced(b, q), SameFor(b, c, q)
    PROVE  Balanced(c, q)
<1>1. /\ Of(c.early \cap c.harms, q) = Of(c.early, q) \cap Of(c.harms, q)
      /\ Of(b.early \cap b.harms, q) = Of(b.early, q) \cap Of(b.harms, q)
      /\ Of(c.deaths \ c.early, q) = Of(c.deaths, q) \ Of(c.early, q)
      /\ Of(b.deaths \ b.early, q) = Of(b.deaths, q) \ Of(b.early, q)
    BY DEF Of
<1> QED
    BY <1>1 DEF Balanced, SameFor, Charges

\* A layer is charged with a hit.
Charged(team, b, p, layers) ==
    /\ layers \in Lives(team)
    /\ layers[p] = IF b.layers[p] > 0 THEN b.layers[p] - 1 ELSE 0
    /\ \A q : q # p => layers[q] = b.layers[q]

\* What a harm changes.
Harmed(team, b, c, p, h) ==
    \/ c = b
    \/ /\ ~b.concluded /\ p \notin b.departed \cup b.confirmed
       /\ <<p, h>> \notin b.harms /\ c.harms = b.harms \cup {<<p, h>>} /\ c.deaths = b.deaths
       /\ \/ /\ <<p, h>> \in b.early /\ c.early = b.early \ {<<p, h>>}
             /\ c.layers = b.layers /\ c.unpaired = b.unpaired
          \/ /\ <<p, h>> \notin b.early /\ c.early = b.early
             /\ Charged(team, b, p, c.layers)
             /\ c.unpaired[p] = b.unpaired[p] + 1
             /\ \A q : q # p => c.unpaired[q] = b.unpaired[q]

\* Everything but the hits.
AllBut(b, c) ==
    /\ c.rule = b.rule /\ c.ai = b.ai /\ c.arbitrator = b.arbitrator
    /\ c.alive = b.alive /\ c.departed = b.departed /\ c.trapped = b.trapped
    /\ c.bosses = b.bosses /\ c.confirmed = b.confirmed /\ c.hp = b.hp /\ c.kills = b.kills
    /\ c.concluded = b.concluded /\ c.winner = b.winner /\ c.draw = b.draw
    /\ c.grace = b.grace

LEMMA ChargedLayers ==
    ASSUME NEW team, NEW b \in Battles(team), NEW p \in DOMAIN team,
           NEW layers, layers = [b.layers EXCEPT ![p] = IF b.layers[p] > 0 THEN b.layers[p] - 1 ELSE 0]
    PROVE  Charged(team, b, p, layers)
<1>1. b.layers \in [DOMAIN team -> 0..HitLimit] /\ HitLimit \in Nat
    BY BattleAssumption DEF Battles, Lives
<1>2. (IF b.layers[p] > 0 THEN b.layers[p] - 1 ELSE 0) \in 0..HitLimit
    BY <1>1
<1> QED
    BY <1>1, <1>2 DEF Charged, Lives

LEMMA HarmChanges ==
    ASSUME NEW team, NEW b \in Battles(team), NEW p \in DOMAIN team, NEW h, <<p, h>> \in Hits,
           NEW c, c = RecordHarm(b, p, h)
    PROVE  c \in Battles(team) /\ AllBut(b, c) /\ Harmed(team, b, c, p, h)
<1>1. CASE b.concluded \/ p \in b.departed \cup b.confirmed \/ <<p, h>> \in b.harms
    BY <1>1 DEF RecordHarm, AllBut, Harmed
<1>2. CASE ~(b.concluded \/ p \in b.departed \cup b.confirmed \/ <<p, h>> \in b.harms)
    <2>1. PICK harms : harms = b.harms \cup {<<p, h>>}
        OBVIOUS
    <2>2. harms \in SUBSET Hits
        BY <2>1 DEF Battles
    <2>3. CASE <<p, h>> \in b.early
        <3>1. PICK early : early = b.early \ {<<p, h>>}
            OBVIOUS
        <3>2. early \in SUBSET Hits
            BY <3>1 DEF Battles
        <3>3. c = [b EXCEPT !.harms = harms, !.early = early]
            BY <1>2, <2>1, <2>3, <3>1 DEF RecordHarm
        <3>4. c \in Battles(team)
            <4>1. PICK x : x = [b EXCEPT !.harms = harms]
                OBVIOUS
            <4>2. x \in Battles(team)
                BY <2>2, <4>1 DEF Battles
            <4>3. c = [x EXCEPT !.early = early]
                BY <3>3, <4>1
            <4> QED
                BY <3>2, <4>2, <4>3 DEF Battles
        <3>5. AllBut(b, c) /\ c.harms = harms /\ c.early = early
            BY <3>3 DEF Battles, AllBut
        <3>6. c.layers = b.layers /\ c.unpaired = b.unpaired /\ c.deaths = b.deaths
            BY <3>3 DEF Battles
        <3> QED
            BY <1>2, <2>1, <2>3, <3>1, <3>4, <3>5, <3>6 DEF Harmed
    <2>4. CASE <<p, h>> \notin b.early
        <3>1. PICK layers : layers = [b.layers EXCEPT ![p] = IF b.layers[p] > 0 THEN b.layers[p] - 1 ELSE 0]
            OBVIOUS
        <3>2. Charged(team, b, p, layers)
            BY <3>1, ChargedLayers
        <3>3. PICK unpaired : unpaired = [b.unpaired EXCEPT ![p] = b.unpaired[p] + 1]
            OBVIOUS
        <3>4. /\ unpaired \in Counts(team) /\ unpaired[p] = b.unpaired[p] + 1
              /\ \A q : q # p => unpaired[q] = b.unpaired[q]
            <4>1. b.unpaired \in Counts(team)
                BY DEF Battles
            <4> QED
                BY <3>3, <4>1 DEF Counts
        <3>5. c = [b EXCEPT !.harms = harms, !.layers = layers, !.unpaired = unpaired]
            BY <1>2, <2>1, <2>4, <3>1, <3>3 DEF RecordHarm, Charge
        <3>6. /\ c \in Battles(team) /\ AllBut(b, c) /\ c.harms = harms /\ c.layers = layers
              /\ c.unpaired = unpaired /\ c.deaths = b.deaths /\ c.early = b.early
            <4>1. layers \in Lives(team)
                BY <3>2 DEF Charged
            <4>2. unpaired \in Counts(team)
                BY <3>4
            <4>3. PICK x : x = [b EXCEPT !.harms = harms, !.layers = layers]
                OBVIOUS
            <4>4. /\ x \in Battles(team) /\ AllBut(b, x) /\ x.harms = harms
                  /\ x.layers = layers /\ x.deaths = b.deaths /\ x.early = b.early
                BY <2>2, <4>1, <4>3 DEF Battles, AllBut
            <4>5. c = [x EXCEPT !.unpaired = unpaired]
                BY <3>5, <4>3
            <4> QED
                BY <4>2, <4>4, <4>5 DEF Battles, AllBut
        <3> QED
            BY <1>2, <2>1, <2>4, <3>2, <3>4, <3>6 DEF Harmed
    <2> QED
        BY <2>3, <2>4
<1> QED
    BY <1>1, <1>2

\* What is counted of a player are numbers.
LEMMA CountsOfPlayer ==
    ASSUME NEW team, NEW b \in Battles(team), NEW p \in DOMAIN team
    PROVE  /\ b.layers[p] \in 0..HitLimit /\ b.unpaired[p] \in Nat /\ HitLimit \in Nat \ {0}
           /\ Cardinality(Of(b.harms, p)) \in Nat /\ Cardinality(Of(b.early, p)) \in Nat
           /\ Cardinality(Of(b.deaths, p)) \in Nat /\ Charges(b, p) \in Nat
           /\ Cardinality(Of(b.early \cap b.harms, p)) \in Nat
           /\ Cardinality(Of(b.deaths \ b.early, p)) \in Nat
<1>1. /\ b.harms \in SUBSET Hits /\ b.early \in SUBSET Hits /\ b.deaths \in SUBSET Hits
      /\ b.early \cap b.harms \in SUBSET Hits /\ b.deaths \ b.early \in SUBSET Hits
    BY DEF Battles
<1>2. b.layers[p] \in 0..HitLimit /\ b.unpaired[p] \in Nat /\ HitLimit \in Nat \ {0}
    BY BattleAssumption DEF Battles, Lives, Counts
<1>3. /\ Cardinality(Of(b.harms, p)) \in Nat /\ Cardinality(Of(b.early, p)) \in Nat
      /\ Cardinality(Of(b.deaths, p)) \in Nat
      /\ Cardinality(Of(b.early \cap b.harms, p)) \in Nat
      /\ Cardinality(Of(b.deaths \ b.early, p)) \in Nat
    BY <1>1, HitsOfPlayer
<1> QED
    BY <1>2, <1>3 DEF Charges

LEMMA HarmCounts ==
    ASSUME NEW team, NEW b \in Battles(team), HitsCounted(b), NEW p \in DOMAIN team,
           NEW h, <<p, h>> \in Hits, NEW c \in Battles(team), Harmed(team, b, c, p, h)
    PROVE  HitsCounted(c)
<1>1. CASE c = b
    BY <1>1
<1>2. CASE c # b
    <2>1. /\ c.harms = b.harms \cup {<<p, h>>} /\ c.deaths = b.deaths
          /\ Cardinality(Of(c.harms, p)) = Cardinality(Of(b.harms, p)) + 1
          /\ \A q : q # p => Of(c.harms, q) = Of(b.harms, q)
        <3>1. b.harms \in SUBSET Hits /\ <<p, h>> \in Hits \ b.harms
            BY <1>2 DEF Harmed, Battles
        <3> QED
            BY <1>2, <3>1, HitAdded DEF Harmed
    <2>2. b.early \in SUBSET Hits /\ b.deaths \in SUBSET Hits
        BY DEF Battles
    <2>3. Balanced(b, p) /\ b.early \subseteq b.deaths
        <3>1. b.team = team
            BY DEF Battles
        <3> QED
            BY <3>1 DEF HitsCounted, Balanced, Roster
    <2> DEFINE Numbers(x) ==
                 /\ x.layers[p] \in 0..HitLimit /\ x.unpaired[p] \in Nat /\ HitLimit \in Nat \ {0}
                 /\ Cardinality(Of(x.harms, p)) \in Nat /\ Cardinality(Of(x.early, p)) \in Nat
                 /\ Cardinality(Of(x.deaths, p)) \in Nat /\ Charges(x, p) \in Nat
                 /\ Cardinality(Of(x.early \cap x.harms, p)) \in Nat
                 /\ Cardinality(Of(x.deaths \ x.early, p)) \in Nat
    <2>0. Numbers(b) /\ Numbers(c)
        BY CountsOfPlayer
    <2>4. CASE <<p, h>> \in b.early
        <3>1. /\ c.early = b.early \ {<<p, h>>} /\ c.layers = b.layers /\ c.unpaired = b.unpaired
            BY <1>2, <2>4 DEF Harmed
        <3>2. /\ Cardinality(Of(c.early, p)) + 1 = Cardinality(Of(b.early, p))
              /\ \A q : q # p => Of(c.early, q) = Of(b.early, q)
            BY <2>2, <2>4, <3>1, HitRemoved
        <3>3. Charges(c, p) = Charges(b, p)
            BY <2>1, <3>2, <2>0 DEF Charges
        <3>4. c.early \cap c.harms = b.early \cap b.harms
            BY <1>2, <2>1, <3>1 DEF Harmed
        <3>5. Cardinality(Of(b.deaths \ b.early, p)) <= Cardinality(Of(c.deaths \ c.early, p))
            <4>1. b.deaths \ b.early \in SUBSET (c.deaths \ c.early) /\ c.deaths \ c.early \in SUBSET Hits
                BY <2>1, <2>2, <3>1
            <4> QED
                BY <4>1, HitsOfPlayer
        <3>6. Balanced(c, p)
            <4>1. Cardinality(Of(c.early \cap c.harms, p)) <= Cardinality(Of(c.deaths \ c.early, p))
                <5>1. Cardinality(Of(c.early \cap c.harms, p)) = Cardinality(Of(b.early \cap b.harms, p))
                    BY <3>4
                <5>2. Cardinality(Of(b.early \cap b.harms, p)) <= Cardinality(Of(b.deaths \ b.early, p))
                    BY <2>3 DEF Balanced
                <5> QED
                    BY <2>0, <3>5, <5>1, <5>2
            <4> QED
                BY <2>1, <2>3, <3>1, <3>3, <4>1 DEF Balanced
        <3>7. \A q : q # p => SameFor(b, c, q)
            BY <2>1, <3>1, <3>2 DEF SameFor
        <3>8. c.early \subseteq c.deaths
            BY <2>1, <2>3, <3>1
        <3> QED
            BY <3>6, <3>7, <3>8, OthersBalanced DEF HitsCounted, Balanced, Roster, Battles
    <2>5. CASE <<p, h>> \notin b.early
        <3>1. /\ c.early = b.early /\ c.unpaired[p] = b.unpaired[p] + 1
              /\ c.layers[p] = (IF b.layers[p] > 0 THEN b.layers[p] - 1 ELSE 0)
              /\ \A q : q # p => c.layers[q] = b.layers[q] /\ c.unpaired[q] = b.unpaired[q]
            BY <1>2, <2>5 DEF Harmed, Charged
        <3>2. Charges(c, p) = Charges(b, p) + 1
            BY <2>1, <3>1, <2>0 DEF Charges
        <3>3. c.early \cap c.harms = b.early \cap b.harms
            BY <2>1, <2>5, <3>1
        <3>4. HitLimit - c.layers[p] = Min({HitLimit, Charges(c, p)})
            BY <2>3, <3>1, <3>2, <2>0, MinOfTwo DEF Balanced
        <3>5. Balanced(c, p)
            <4>1. Cardinality(Of(c.early \cap c.harms, p)) <= Cardinality(Of(c.deaths \ c.early, p))
                BY <2>1, <2>3, <3>1, <3>3 DEF Balanced
            <4>2. c.layers[p] > 0 => Cardinality(Of(c.deaths, p)) + c.unpaired[p] = Charges(c, p)
                BY <2>0, <2>1, <2>3, <3>1, <3>2 DEF Balanced
            <4> QED
                BY <3>4, <4>1, <4>2 DEF Balanced
        <3>6. \A q : q # p => SameFor(b, c, q)
            BY <2>1, <3>1 DEF SameFor
        <3>7. c.early \subseteq c.deaths
            BY <2>1, <2>3, <3>1
        <3> QED
            BY <3>5, <3>6, <3>7, OthersBalanced DEF HitsCounted, Balanced, Roster, Battles
    <2> QED
        BY <2>4, <2>5
<1> QED
    BY <1>1, <1>2

LEMMA AllButSeated ==
    ASSUME NEW team, Lineup(team), NEW b \in Battles(team), Sound(b), ~b.concluded,
           NEW x \in Battles(team), AllBut(b, x)
    PROVE  Seated(x) /\ Survives(b, x) /\ Step(b, x) /\ Fair(b, x)
<1>1. TeamsOf(x) = TeamsOf(b)
    BY Teams
<1>2. Seated(x) /\ Survives(b, x)
    BY <1>1 DEF AllBut, Sound, Seated, Decided, Undecided, Survives
<1> QED
    BY <1>2, Continues DEF AllBut

LEMMA HarmStep ==
    ASSUME NEW team, Lineup(team), NEW b \in Battles(team), Sound(b), NEW p \in DOMAIN team,
           NEW h, <<p, h>> \in Hits, NEW c, c = RecordHarm(b, p, h)
    PROVE  Step(b, c) /\ Fair(b, c) /\ c.kills = b.kills
<1>1. c \in Battles(team) /\ AllBut(b, c) /\ Harmed(team, b, c, p, h)
    BY HarmChanges
<1>2. CASE c = b
    BY <1>2, Ignores DEF Report
<1>3. CASE c # b
    <2>1. ~b.concluded
        BY <1>1, <1>3 DEF Harmed
    <2> QED
        BY <1>1, <2>1, AllButSeated DEF AllBut
<1> QED
    BY <1>2, <1>3

\* What the death of a layer changes.
Died(team, b, c, p, h) ==
    /\ <<p, h>> \notin b.deaths /\ c.deaths = b.deaths \cup {<<p, h>>} /\ c.harms = b.harms
    /\ \A q : q # p => c.unpaired[q] = b.unpaired[q]
    /\ \/ /\ b.unpaired[p] > 0 /\ c.unpaired[p] = b.unpaired[p] - 1
          /\ c.layers = b.layers /\ c.early = b.early
       \/ /\ b.unpaired[p] = 0 /\ b.layers[p] > 0 /\ c.unpaired[p] = b.unpaired[p]
          /\ Charged(team, b, p, c.layers) /\ c.early = b.early \cup {<<p, h>>}
       \/ /\ b.layers[p] = 0 /\ c.unpaired[p] = b.unpaired[p]
          /\ c.layers = b.layers /\ c.early = b.early

LEMMA DurabilityStep ==
    ASSUME NEW team, Lineup(team), NEW b \in Battles(team), Sound(b), b.rule = "durability",
           NEW p \in DOMAIN team, NEW h, <<p, h>> \in Hits,
           NEW c, c = RecordDurabilityDeath(b, p, h)
    PROVE  /\ Step(b, c) /\ Fair(b, c) /\ c.kills = b.kills
           /\ c = b \/ Died(team, b, c, p, h)
<1>1. CASE b.concluded \/ p \in b.confirmed \/ <<p, h>> \in b.deaths
    BY <1>1, Ignores DEF RecordDurabilityDeath, Report
<1>2. CASE ~(b.concluded \/ p \in b.confirmed \/ <<p, h>> \in b.deaths)
    <2> DEFINE seen == [b EXCEPT !.deaths = @ \cup {<<p, h>>}]
               paired == IF b.unpaired[p] > 0 THEN [seen EXCEPT !.unpaired[p] = @ - 1]
                         ELSE IF b.layers[p] > 0
                         THEN [Charge(seen, p) EXCEPT !.early = @ \cup {<<p, h>>}]
                         ELSE seen
               fallen == [Fall(paired, p) EXCEPT !.confirmed = @ \cup {p}]
    <2>1. c = IF paired.layers[p] > 0 THEN paired
              ELSE IF Cardinality(LivingTeams(fallen)) <= 1 THEN Conclude(fallen) ELSE fallen
        BY <1>2 DEF RecordDurabilityDeath
    <2>2. paired \in Battles(team) /\ AllBut(b, paired) /\ Died(team, b, paired, p, h)
        <3>1. /\ seen \in Battles(team) /\ AllBut(b, seen) /\ seen.deaths = b.deaths \cup {<<p, h>>}
              /\ seen.harms = b.harms /\ seen.layers = b.layers /\ seen.unpaired = b.unpaired
              /\ seen.early = b.early
            BY DEF Battles, AllBut
        <3> HIDE DEF seen, fallen
        <3>2. CASE b.unpaired[p] > 0
            <4>1. PICK unpaired : unpaired = [seen.unpaired EXCEPT ![p] = seen.unpaired[p] - 1]
                OBVIOUS
            <4>2. /\ unpaired \in Counts(team) /\ unpaired[p] = b.unpaired[p] - 1
                  /\ \A q : q # p => unpaired[q] = b.unpaired[q]
                <5>1. seen.unpaired \in Counts(team)
                    BY <3>1 DEF Battles
                <5> QED
                    BY <3>1, <3>2, <4>1, <5>1 DEF Counts
            <4>3. paired = [seen EXCEPT !.unpaired = unpaired]
                BY <3>2, <4>1
            <4> HIDE DEF paired
            <4>4. /\ paired \in Battles(team) /\ AllBut(seen, paired)
                  /\ paired.deaths = seen.deaths /\ paired.harms = seen.harms
                  /\ paired.layers = seen.layers /\ paired.early = seen.early
                  /\ paired.unpaired = unpaired
                BY <3>1, <4>2, <4>3 DEF Battles, AllBut
            <4> QED
                BY <1>2, <3>1, <3>2, <4>2, <4>4 DEF AllBut, Died
        <3>3. CASE b.unpaired[p] = 0 /\ b.layers[p] > 0
            <4>1. PICK layers : layers = [b.layers EXCEPT ![p] = IF b.layers[p] > 0 THEN b.layers[p] - 1 ELSE 0]
                OBVIOUS
            <4>2. Charged(team, b, p, layers)
                BY <4>1, ChargedLayers
            <4>3. layers \in Lives(team)
                BY <4>2 DEF Charged
            <4>4. PICK early : early = seen.early \cup {<<p, h>>}
                OBVIOUS
            <4>5. early \in SUBSET Hits
                BY <3>1, <4>4 DEF Battles
            <4>6. PICK x : x = [seen EXCEPT !.layers = layers]
                OBVIOUS
            <4>7. x = Charge(seen, p)
                BY <3>1, <4>1, <4>6 DEF Charge
            <4>8. /\ x \in Battles(team) /\ AllBut(seen, x) /\ x.deaths = seen.deaths
                  /\ x.harms = seen.harms /\ x.layers = layers /\ x.early = seen.early
                  /\ x.unpaired = seen.unpaired
                BY <3>1, <4>3, <4>6 DEF Battles, AllBut
            <4>9. paired = [x EXCEPT !.early = early]
                BY <3>3, <4>4, <4>7, <4>8
            <4> HIDE DEF paired
            <4>10. /\ paired \in Battles(team) /\ AllBut(x, paired)
                   /\ paired.deaths = x.deaths /\ paired.harms = x.harms
                   /\ paired.layers = x.layers /\ paired.early = early
                   /\ paired.unpaired = x.unpaired
                BY <4>5, <4>8, <4>9 DEF Battles, AllBut
            <4>11. AllBut(b, paired)
                BY <3>1, <4>8, <4>10 DEF AllBut
            <4> QED
                BY <1>2, <3>1, <3>3, <4>2, <4>4, <4>8, <4>10, <4>11 DEF Died
        <3>4. CASE b.unpaired[p] = 0 /\ b.layers[p] = 0
            <4>1. paired = seen
                BY <3>4
            <4> HIDE DEF paired
            <4> QED
                BY <1>2, <3>1, <3>4, <4>1 DEF Died
        <3> HIDE DEF paired
        <3>5. b.unpaired[p] \in Nat /\ b.layers[p] \in Nat
            <4>1. b.layers \in Lives(team) /\ b.unpaired \in Counts(team) /\ HitLimit \in Nat
                BY BattleAssumption DEF Battles
            <4> QED
                BY <4>1 DEF Lives, Counts
        <3> QED
            BY <3>2, <3>3, <3>4, <3>5
    <2> HIDE DEF seen, paired
    <2>3. Seated(paired) /\ Survives(b, paired) /\ Step(b, paired) /\ Fair(b, paired)
        BY <1>2, <2>2, AllButSeated
    <2>4. CASE paired.layers[p] > 0
        BY <2>1, <2>2, <2>3, <2>4 DEF AllBut
    <2>5. CASE ~(paired.layers[p] > 0)
        <3>1. PICK x : x = Fall(paired, p)
            OBVIOUS
        <3>2. /\ x \in Battles(team) /\ Alike(paired, x) /\ x.alive = paired.alive \ {p}
              /\ x.trapped = paired.trapped \ {p}
            BY <2>2, <3>1, Falls
        <3>3. fallen = [x EXCEPT !.confirmed = x.confirmed \cup {p}]
            BY <3>1
        <3> HIDE DEF fallen
        <3>4. /\ fallen \in Battles(team) /\ fallen.confirmed = x.confirmed \cup {p}
              /\ fallen.rule = x.rule /\ fallen.ai = x.ai /\ fallen.arbitrator = x.arbitrator
              /\ fallen.alive = x.alive /\ fallen.departed = x.departed
              /\ fallen.trapped = x.trapped /\ fallen.bosses = x.bosses /\ fallen.hp = x.hp
              /\ fallen.kills = x.kills /\ SameHits(x, fallen)
              /\ fallen.concluded = x.concluded /\ fallen.winner = x.winner
              /\ fallen.draw = x.draw /\ fallen.grace = x.grace
            BY <3>2, <3>3 DEF Battles, SameHits
        <3>5. TeamsOf(fallen) = TeamsOf(b)
            BY <3>4, Teams
        <3>6. Seated(fallen) /\ Survives(b, fallen)
            BY <2>2, <2>3, <3>2, <3>4, <3>5 DEF Sound, Seated, Survives, Undecided, Alike, AllBut
        <3>7. /\ fallen.hp = b.hp /\ fallen.alive \subseteq b.alive /\ fallen.kills = b.kills
              /\ Died(team, b, fallen, p, h)
            BY <2>2, <3>2, <3>4 DEF Died, Alike, AllBut, SameHits
        <3>8. c = IF Cardinality(LivingTeams(fallen)) <= 1 THEN Conclude(fallen) ELSE fallen
            BY <2>1, <2>5
        <3>9. ASSUME c \in Battles(team), Ends(fallen, c), Sound(c), c.concluded => FairlyLost(c)
              PROVE  /\ Step(b, c) /\ Fair(b, c) /\ c.kills = b.kills
                     /\ Died(team, b, c, p, h)
            <4>1. /\ c.rule = b.rule /\ c.hp = b.hp /\ c.alive \subseteq b.alive /\ c.kills = b.kills
                  /\ Died(team, b, c, p, h)
                BY <3>6, <3>7, <3>9 DEF Ends, SameHits, Died, Survives
            <4>2. b.team = team
                BY Teams
            <4> QED
                BY <1>2, <3>9, <4>1, <4>2 DEF Step, Fair, Locked, Loses
        <3>10. CASE Cardinality(LivingTeams(fallen)) <= 1
            <4>1. c = Conclude(fallen)
                BY <3>8, <3>10
            <4>2. c \in Battles(team) /\ Ends(fallen, c) /\ Sound(c) /\ FairlyLost(c)
                BY <3>4, <3>6, <3>10, <4>1, ConcludeEnds DEF Survives
            <4> QED
                BY <3>9, <4>2
        <3>11. CASE ~(Cardinality(LivingTeams(fallen)) <= 1)
            <4>1. c = fallen
                BY <3>8, <3>11
            <4>2. Sound(fallen) /\ ~fallen.concluded
                BY <1>2, <3>4, <3>6, StaysOpen DEF Survives, Undecided
            <4>3. Ends(fallen, fallen)
                BY DEF Ends, SameHits
            <4> QED
                BY <3>4, <3>9, <4>1, <4>2, <4>3
        <3> QED
            BY <3>10, <3>11
    <2> QED
        BY <2>4, <2>5
<1> QED
    BY <1>1, <1>2

LEMMA DurabilityCounts ==
    ASSUME NEW team, NEW b \in Battles(team), HitsCounted(b), NEW p \in DOMAIN team,
           NEW h, <<p, h>> \in Hits, NEW c \in Battles(team), Died(team, b, c, p, h)
    PROVE  HitsCounted(c)
<1>1. b.harms \in SUBSET Hits /\ b.early \in SUBSET Hits /\ b.deaths \in SUBSET Hits
    BY DEF Battles
<1>2. /\ c.deaths = b.deaths \cup {<<p, h>>} /\ c.harms = b.harms /\ <<p, h>> \notin b.deaths
      /\ Cardinality(Of(c.deaths, p)) = Cardinality(Of(b.deaths, p)) + 1
      /\ \A q : q # p => Of(c.deaths, q) = Of(b.deaths, q) /\ c.unpaired[q] = b.unpaired[q]
    <2>1. <<p, h>> \in Hits \ b.deaths
        BY DEF Died
    <2> QED
        BY <1>1, <2>1, HitAdded DEF Died
<1>3. Balanced(b, p) /\ b.early \subseteq b.deaths
    <2>1. b.team = team
        BY DEF Battles
    <2> QED
        BY <2>1 DEF HitsCounted, Balanced, Roster
<1> DEFINE Numbers(x) ==
             /\ x.layers[p] \in 0..HitLimit /\ x.unpaired[p] \in Nat /\ HitLimit \in Nat \ {0}
             /\ Cardinality(Of(x.harms, p)) \in Nat /\ Cardinality(Of(x.early, p)) \in Nat
             /\ Cardinality(Of(x.deaths, p)) \in Nat /\ Charges(x, p) \in Nat
             /\ Cardinality(Of(x.early \cap x.harms, p)) \in Nat
             /\ Cardinality(Of(x.deaths \ x.early, p)) \in Nat
<1>4. Numbers(b) /\ Numbers(c)
    BY CountsOfPlayer
<1>5. ASSUME Balanced(c, p), \A q : q # p => SameFor(b, c, q), c.early \subseteq c.deaths
      PROVE  HitsCounted(c)
    BY <1>5, OthersBalanced DEF HitsCounted, Balanced, Roster, Battles
<1>6. CASE c.layers = b.layers /\ c.early = b.early
    <2>1. Charges(c, p) = Charges(b, p)
        BY <1>2, <1>6 DEF Charges
    <2>2. c.layers[p] > 0 => Cardinality(Of(c.deaths, p)) + c.unpaired[p] = Charges(c, p)
        <3>1. \/ b.unpaired[p] > 0 /\ c.unpaired[p] = b.unpaired[p] - 1
              \/ b.layers[p] = 0
              \/ c.early = b.early \cup {<<p, h>>}
            BY DEF Died
        <3>2. c.early # b.early \cup {<<p, h>>}
            BY <1>2, <1>3, <1>6
        <3> QED
            BY <1>2, <1>3, <1>4, <1>6, <2>1, <3>1, <3>2 DEF Balanced
    <2>3. Cardinality(Of(b.deaths \ b.early, p)) <= Cardinality(Of(c.deaths \ c.early, p))
        <3>1. b.deaths \ b.early \in SUBSET (c.deaths \ c.early) /\ c.deaths \ c.early \in SUBSET Hits
            BY <1>1, <1>2, <1>6
        <3> QED
            BY <3>1, HitsOfPlayer
    <2>4. Cardinality(Of(c.early \cap c.harms, p)) <= Cardinality(Of(c.deaths \ c.early, p))
        <3>1. c.early \cap c.harms = b.early \cap b.harms
            BY <1>2, <1>6
        <3>2. Cardinality(Of(c.early \cap c.harms, p)) = Cardinality(Of(b.early \cap b.harms, p))
            BY <3>1
        <3>3. Cardinality(Of(b.early \cap b.harms, p)) <= Cardinality(Of(b.deaths \ b.early, p))
            BY <1>3 DEF Balanced
        <3> QED
            BY <1>4, <2>3, <3>2, <3>3
    <2>5. Balanced(c, p)
        BY <1>3, <1>6, <2>1, <2>2, <2>4 DEF Balanced
    <2>6. \A q : q # p => SameFor(b, c, q)
        BY <1>2, <1>6 DEF SameFor
    <2> QED
        BY <1>2, <1>3, <1>5, <1>6, <2>5, <2>6
<1>7. CASE /\ b.unpaired[p] = 0 /\ b.layers[p] > 0 /\ c.unpaired[p] = b.unpaired[p]
           /\ Charged(team, b, p, c.layers) /\ c.early = b.early \cup {<<p, h>>}
    <2>1. /\ Cardinality(Of(c.early, p)) = Cardinality(Of(b.early, p)) + 1
          /\ \A q : q # p => Of(c.early, q) = Of(b.early, q)
        <3>1. <<p, h>> \in Hits \ b.early
            BY <1>2, <1>3
        <3> QED
            BY <1>1, <1>7, <3>1, HitAdded
    <2>2. Charges(c, p) = Charges(b, p) + 1
        BY <1>2, <1>4, <2>1 DEF Charges
    <2>3. c.layers[p] = b.layers[p] - 1 /\ \A q : q # p => c.layers[q] = b.layers[q]
        BY <1>7 DEF Charged
    <2>4. HitLimit - c.layers[p] = Min({HitLimit, Charges(c, p)})
        BY <1>3, <1>4, <2>2, <2>3, MinOfTwo DEF Balanced
    <2>5. Cardinality(Of(c.deaths, p)) + c.unpaired[p] = Charges(c, p)
        BY <1>2, <1>3, <1>4, <1>7, <2>2 DEF Balanced
    \* Every harm has been paired, and those with deaths that charged nothing.
    <2>6. Cardinality(Of(b.deaths \ b.early, p)) = Cardinality(Of(b.harms, p))
        <3>1. Of(b.deaths, p) = Of(b.deaths \ b.early, p) \cup Of(b.early, p)
            BY <1>3 DEF Of
        <3>2. Of(b.deaths \ b.early, p) \cap Of(b.early, p) = {}
            BY DEF Of
        <3>3. IsFiniteSet(Of(b.deaths \ b.early, p)) /\ IsFiniteSet(Of(b.early, p))
            BY <1>1, HitsOfPlayer
        <3>4. Cardinality(Of(b.deaths, p)) =
                Cardinality(Of(b.deaths \ b.early, p)) + Cardinality(Of(b.early, p))
            <4>1. Cardinality(Of(b.deaths \ b.early, p) \cap Of(b.early, p)) = 0
                BY <3>2, FS_EmptySet
            <4>2. Cardinality(Of(b.deaths \ b.early, p) \cup Of(b.early, p)) =
                    Cardinality(Of(b.deaths \ b.early, p)) + Cardinality(Of(b.early, p))
                    - Cardinality(Of(b.deaths \ b.early, p) \cap Of(b.early, p))
                BY <3>3, FS_Union
            <4> QED
                BY <1>4, <3>1, <4>1, <4>2
        <3>5. Cardinality(Of(b.deaths, p)) = Charges(b, p)
            BY <1>3, <1>4, <1>7 DEF Balanced
        <3> QED
            BY <1>4, <3>4, <3>5 DEF Charges
    <2>7. c.deaths \ c.early = b.deaths \ b.early
        BY <1>2, <1>3, <1>7
    <2>8. Cardinality(Of(c.early \cap c.harms, p)) <= Cardinality(Of(b.harms, p))
        <3>1. c.early \cap c.harms \in SUBSET b.harms
            BY <1>2
        <3> QED
            BY <1>1, <3>1, HitsOfPlayer
    <2>9. Balanced(c, p)
        <3>1. Cardinality(Of(c.early \cap c.harms, p)) <= Cardinality(Of(c.deaths \ c.early, p))
            BY <2>6, <2>7, <2>8
        <3> QED
            BY <2>4, <2>5, <3>1 DEF Balanced
    <2>10. \A q : q # p => SameFor(b, c, q)
        BY <1>2, <2>1, <2>3 DEF SameFor
    <2>11. c.early \subseteq c.deaths
        BY <1>2, <1>3, <1>7
    <2> QED
        BY <1>5, <2>9, <2>10, <2>11
<1> QED
    BY <1>6, <1>7 DEF Died

-----------------------------------------------------------------------------
(* The steps *)

\* What every step keeps.
KillsCapped(b) == \A p \in Roster(b) : b.kills[p] <= MaxKills[b.rule]
Obeys(b, c) == Step(b, c) /\ Credits(b, c) /\ HitsCounted(c) /\ KillsCapped(c)

\* The hits are counted the same where none has changed.
LEMMA SameHitsCounted ==
    ASSUME NEW b, NEW c, c.team = b.team, HitsCounted(b), SameHits(b, c)
    PROVE  HitsCounted(c)
BY DEF HitsCounted, SameHits, Charges, Roster

LEMMA ReportObeys ==
    ASSUME NEW c, Inv, Report(battle, c)
    PROVE  Obeys(battle, c) /\ Fair(battle, c)
<1>1. c.team = battle.team /\ c.rule = battle.rule
    BY DEF Report, Step, Battles
<1>2. HitsCounted(c)
    BY <1>1, SameHitsCounted DEF Inv, Report
<1>3. KillsCapped(c)
    BY <1>1 DEF Inv, Report, KillsCapped, Participants, Roster
<1> QED
    BY <1>2, <1>3 DEF Obeys, Report, Credits

LEMMA KillObeys ==
    ASSUME NEW c, NEW p \in Participants, Inv, Kill(battle, c, p),
           battle.kills[p] < MaxKills[battle.rule]
    PROVE  Obeys(battle, c) /\ Fair(battle, c)
<1>1. c.team = battle.team /\ c.rule = battle.rule
    BY DEF Kill, Step, Battles
<1>2. HitsCounted(c)
    BY <1>1, SameHitsCounted DEF Inv, Kill
<1>3. KillsCapped(c)
    <2>1. /\ battle.kills \in [DOMAIN battle.team -> Nat] /\ MaxKills[battle.rule] \in Nat
          /\ \A q \in DOMAIN battle.team : battle.kills[q] <= MaxKills[battle.rule]
          /\ p \in DOMAIN battle.team
        BY RoundsAssumption DEF Inv, Battles, Counts, Participants, Roster
    <2>2. c.kills = battle.kills \/ c.kills = [battle.kills EXCEPT ![p] = battle.kills[p] + 1]
        BY DEF Kill
    <2>3. \A q \in DOMAIN battle.team : c.kills[q] <= MaxKills[battle.rule]
        <3>1. CASE c.kills = battle.kills
            BY <2>1, <3>1
        <3>2. CASE c.kills = [battle.kills EXCEPT ![p] = battle.kills[p] + 1]
            <4>1. battle.kills[p] + 1 <= MaxKills[battle.rule]
                BY <2>1
            <4> QED
                BY <2>1, <3>2, <4>1
        <3> QED
            BY <2>2, <3>1, <3>2
    <2> QED
        BY <1>1, <2>3 DEF KillsCapped, Roster
<1> QED
    BY <1>2, <1>3 DEF Obeys, Kill

\* Every report of a client, and the end of a grace, keeps the invariant and beats
\* those it defeats.
LEMMA ClientsObey ==
    ASSUME Inv, Next, ~Timeout
    PROVE  Obeys(battle, battle') /\ Fair(battle, battle')
<1> DEFINE b == battle
           team == battle.team
           Good == Obeys(battle, battle') /\ Fair(battle, battle')
<1>1. Lineup(team) /\ b \in Battles(team) /\ Sound(b) /\ Participants = DOMAIN team
    BY DEF Inv, Participants, Roster
<1>2. TeamsOf(b) = Range(team)
    BY <1>1, Teams
<1> HIDE DEF Good
<1>3. ASSUME Report(b, battle') PROVE Good
    BY <1>3, ReportObeys DEF Good
<1>4. ASSUME NEW p \in Participants, Trap(p) PROVE Good
    BY <1>1, <1>3, <1>4, TrapReport DEF Trap
<1>5. ASSUME NEW p \in Participants, Die(p) PROVE Good
    <2>1. PICK y : y = ScatterGems(b, p)
        OBVIOUS
    <2>2. /\ y \in Battles(team) /\ Sound(y) /\ Alike(b, y)
          /\ \A c : Report(y, c) => Report(b, c)
        BY <1>1, <2>1, Scatters
    <2>3. /\ y.rule # "durability"
          /\ battle' = IF y.grace THEN RecordGraceDeath(y, p) ELSE RecordDeath(y, p)
        BY <1>5, <2>1 DEF Die
    <2>4. Report(y, battle')
        BY <1>1, <2>2, <2>3, DeathReport, GraceDeathReport
    <2> QED
        BY <1>3, <2>2, <2>4
<1>6. ASSUME NEW p \in Participants, Relive(p) PROVE Good
    BY <1>1, <1>3, <1>6, RespawnReport DEF Relive
<1>7. ASSUME NEW p \in Participants, PlacePiece(p) PROVE Good
    BY <1>1, <1>3, <1>7, PieceReport DEF PlacePiece
<1>8. ASSUME NEW p \in Participants, Depart(p) PROVE Good
    BY <1>1, <1>3, <1>8, DepartureReport, GraceDepartureReport DEF Depart
<1>9. ASSUME NEW p \in Participants, NEW boss \in Bosses, BossKill(boss, p) PROVE Good
    BY <1>1, <1>3, <1>9, BossKillReport DEF BossKill, CanBossKill
<1>10. ASSUME NEW p \in Participants, NEW h, <<p, h>> \in Hits, Harm(p, h) PROVE Good
    <2>1. PICK c : c = RecordHarm(b, p, h)
        OBVIOUS
    <2>2. Step(b, c) /\ Fair(b, c) /\ c.kills = b.kills
        BY <1>1, <1>10, <2>1, HarmStep
    <2>3. HitsCounted(c)
        <3>1. c \in Battles(team) /\ Harmed(team, b, c, p, h)
            BY <1>1, <1>10, <2>1, HarmChanges
        <3> QED
            BY <1>1, <1>10, <3>1, HarmCounts DEF Inv
    <2>4. KillsCapped(c)
        BY <2>2 DEF Step, Battles, KillsCapped, Inv, Participants, Roster
    <2> QED
        BY <1>10, <2>1, <2>2, <2>3, <2>4 DEF Harm, Good, Obeys, Credits
<1>11. ASSUME NEW p \in Participants, NEW h, <<p, h>> \in Hits, DieOnce(p, h) PROVE Good
    <2>1. PICK c : c = RecordDurabilityDeath(b, p, h)
        OBVIOUS
    <2>2. b.rule = "durability" /\ battle' = c
        BY <1>11, <2>1 DEF DieOnce
    <2>3. /\ Step(b, c) /\ Fair(b, c) /\ c.kills = b.kills
          /\ c = b \/ Died(team, b, c, p, h)
        BY <1>1, <1>11, <2>1, <2>2, DurabilityStep
    <2>4. HitsCounted(c)
        BY <1>1, <1>11, <2>3, DurabilityCounts DEF Inv, Step
    <2>5. KillsCapped(c)
        BY <2>3 DEF Step, Battles, KillsCapped, Inv, Participants, Roster
    <2> QED
        BY <2>2, <2>3, <2>4, <2>5 DEF Good, Obeys, Credits
<1>12. ASSUME NEW p \in Participants, NEW value \in GemValues, GetGem(p, value) PROVE Good
    <2>1. value \in Nat /\ b.rule = "treasure"
        BY <1>12, RoundsAssumption DEF GetGem, CanPickGem
    <2> QED
        BY <1>1, <1>3, <1>12, <2>1, GemReport DEF GetGem
<1>13. ASSUME NEW p \in Participants, NEW q \in Participants, RequestKill(p, q) PROVE Good
    <2>1. Kill(b, battle', p)
        BY <1>1, <1>13, KillReport DEF RequestKill
    <2> QED
        BY <1>13, <2>1, KillObeys DEF RequestKill, Good
<1>14. ASSUME NEW p \in Participants, NEW q \in Participants, NotifyKill(p, q) PROVE Good
    <2>1. PICK y : y = ScatterGems(b, q)
        OBVIOUS
    <2>2. /\ y \in Battles(team) /\ Sound(y) /\ Alike(b, y)
          /\ \A c : Report(y, c) => Report(b, c)
          /\ \A c, r : Kill(y, c, r) => Kill(b, c, r)
        BY <1>1, <2>1, Scatters
    <2>3. /\ b.kills[p] < MaxKills[b.rule]
          /\ battle' = IF CanKill(y, p, q) THEN RecordKill(y, p, q) ELSE y
        BY <1>14, <2>1, <2>2 DEF NotifyKill, Alike
    <2>4. CASE CanKill(y, p, q)
        <3>1. Kill(y, battle', p)
            BY <1>1, <2>2, <2>3, <2>4, KillReport
        <3> QED
            BY <2>2, <2>3, <3>1, KillObeys DEF Good
    <2>5. CASE ~CanKill(y, p, q)
        <3>1. Report(y, battle')
            BY <1>1, <2>2, <2>3, <2>5, Ignores
        <3> QED
            BY <1>3, <2>2, <3>1
    <2> QED
        BY <2>4, <2>5
<1>15. ASSUME NEW p \in Participants, NEW q \in Participants, Rescue(p, q) PROVE Good
    BY <1>1, <1>3, <1>15, RescueReport DEF Rescue
<1>16. ASSUME NEW p \in Participants, NEW t \in TeamsOf(battle), TankBaseHP(p, t) PROVE Good
    BY <1>1, <1>2, <1>3, <1>16, RepairReport, DamageReport DEF TankBaseHP, CanChangeBase
<1>17. ASSUME NEW p \in Participants, NEW t \in TeamsOf(battle), GetBun(p, t) PROVE Good
    BY <1>1, <1>2, <1>3, <1>17, TakeBunReport DEF GetBun
<1>18. ASSUME NEW p \in Participants, NEW t \in TeamsOf(battle), PlaceBun(p, t) PROVE Good
    BY <1>1, <1>2, <1>3, <1>18, PutBunReport DEF PlaceBun, CanTouchBun
<1>19. ASSUME NEW t \in TeamsOf(battle), Explode(t) PROVE Good
    BY <1>1, <1>2, <1>3, <1>19, StatueReport DEF Explode
<1>20. ASSUME NEW boss \in Bosses, BossDie(boss) PROVE Good
    BY <1>1, <1>3, <1>20, BossDeathReport DEF BossDie
<1>21. ASSUME EndGrace PROVE Good
    BY <1>1, <1>3, <1>21, GraceReport DEF EndGrace
<1>22. ASSUME NEW p \in Participants, NEW hit \in Hits, hit[1] = p,
              Harm(p, hit[2]) \/ DieOnce(p, hit[2])
       PROVE  Good
    <2>1. <<p, hit[2]>> \in Hits
        BY <1>22, BattleAssumption
    <2> QED
        BY <1>10, <1>11, <1>22, <2>1
<1> QED
    <2>1. Good
        BY <1>4, <1>5, <1>6, <1>7, <1>8, <1>9, <1>12, <1>13, <1>14, <1>15, <1>16, <1>17,
           <1>18, <1>19, <1>20, <1>21, <1>22 DEF Next
    <2> QED
        BY <2>1 DEF Good

LEMMA ClockObeys ==
    ASSUME Inv, Timeout
    PROVE  Obeys(battle, battle')
<1>1. Lineup(battle.team) /\ battle \in Battles(battle.team) /\ Sound(battle)
    BY DEF Inv
<1>2. Step(battle, battle') /\ battle'.kills = battle.kills /\ SameHits(battle, battle')
    BY <1>1, TimeoutStep DEF Timeout
<1>3. battle'.team = battle.team /\ battle'.rule = battle.rule
    BY <1>2 DEF Step, Battles
<1>4. HitsCounted(battle')
    BY <1>2, <1>3, SameHitsCounted DEF Inv
<1>5. KillsCapped(battle')
    BY <1>2, <1>3 DEF Inv, KillsCapped, Participants, Roster
<1> QED
    BY <1>2, <1>4, <1>5 DEF Obeys, Credits

-----------------------------------------------------------------------------
(* The beginning *)

LEMMA NewBattleSound ==
    ASSUME NEW rule \in Rules, NEW team, Lineup(team), NEW ai \in SUBSET DOMAIN team,
           NEW arbitrator, CanNewBattle(rule, team, ai, arbitrator),
           NEW b, b = NewBattle(rule, team, ai, arbitrator)
    PROVE  /\ b \in Battles(team) /\ Sound(b) /\ HitsCounted(b)
           /\ b.team = team /\ \A p \in DOMAIN team : b.kills[p] = 0
<1> DEFINE all == DOMAIN team
           zero == [p \in all |-> 0]
           hp == [t \in Range(team) |-> BaseHP]
           stored == [t \in Range(team) |-> [u \in Range(team) |->
                          IF u = t THEN Cardinality({p \in all : team[p] = t}) ELSE 0]]
           pieces == [t \in Range(team) |-> 0]
           layers == [p \in all |-> HitLimit]
           bosses == IF rule = "boss" THEN Bosses ELSE {}
<1>1. zero \in Counts(team) /\ \A p \in all : zero[p] = 0
    BY DEF Counts
<1>2. hp \in Bases(team) /\ \A t \in Range(team) : hp[t] = BaseHP
    BY BattleAssumption DEF Bases
<1>3. stored \in Stores(team)
    <2>1. ASSUME NEW t PROVE Cardinality({p \in all : team[p] = t}) \in Nat
        <3>1. {p \in all : team[p] = t} \subseteq Fighters /\ IsFiniteSet(Fighters)
            BY BattleAssumption DEF Lineup
        <3> QED
            BY <3>1, FS_Subset, FS_CardinalityType
    <2>2. ASSUME NEW t \in Range(team)
          PROVE  [u \in Range(team) |-> IF u = t THEN Cardinality({p \in all : team[p] = t}) ELSE 0]
                    \in [Range(team) -> Nat]
        BY <2>1
    <2> QED
        BY <2>2 DEF Stores
<1>4. pieces \in Statues(team)
    BY BattleAssumption DEF Statues
<1>5. layers \in Lives(team) /\ \A p \in all : layers[p] = HitLimit
    BY BattleAssumption DEF Lives
<1>6. bosses \in SUBSET Bosses /\ (rule = "boss" => bosses # {})
    BY BattleAssumption
<1>7. b = [rule |-> rule, team |-> team, ai |-> ai, arbitrator |-> arbitrator,
           alive |-> all, departed |-> {}, trapped |-> {}, dying |-> {}, kills |-> zero,
           bosses |-> bosses, hp |-> hp, stored |-> stored, pieces |-> pieces, gems |-> zero,
           layers |-> layers, unpaired |-> zero,
           harms |-> {}, deaths |-> {}, early |-> {}, confirmed |-> {},
           concluded |-> FALSE, draw |-> FALSE, winner |-> Draw,
           grace |-> FALSE, woken |-> FALSE]
    BY DEF NewBattle
<1>8. arbitrator \in all \ ai
    BY DEF CanNewBattle
<1> HIDE DEF zero, hp, stored, pieces, layers, bosses
<1>9. /\ b \in Battles(team) /\ b.team = team /\ b.rule = rule /\ b.ai = ai
      /\ b.arbitrator = arbitrator /\ b.alive = all /\ b.departed = {} /\ b.trapped = {}
      /\ b.kills = zero /\ b.bosses = bosses /\ b.hp = hp /\ b.layers = layers
      /\ b.unpaired = zero /\ b.harms = {} /\ b.deaths = {} /\ b.early = {}
      /\ b.confirmed = {} /\ Undecided(b)
    BY <1>1, <1>2, <1>3, <1>4, <1>5, <1>6, <1>7, <1>8 DEF Battles, Undecided
<1>10. TeamsOf(b) = Range(team) /\ ConnectedTeams(b) = Range(team) /\ Connected(b) = all
    BY <1>9 DEF TeamsOf, ConnectedTeams, Connected, Roster, Range
<1>11. Seated(b)
    BY <1>2, <1>9, <1>10, BattleAssumption DEF Seated, CanNewBattle
<1>12. rule # "boss" => Cardinality(Range(team)) > 1
    <2>1. Cardinality(Range(team)) \in Nat
        BY <1>9, Teams, FS_CardinalityType
    <2> QED
        BY <2>1 DEF CanNewBattle
<1>13. ViableTeams(b) = Range(team)
    BY <1>2, <1>9, <1>10, BattleAssumption DEF ViableTeams
<1>14. GoesOn(b)
    BY <1>6, <1>8, <1>9, <1>10, <1>12, <1>13 DEF GoesOn
<1>15. HitsCounted(b)
    <2> SUFFICES ASSUME NEW p \in all PROVE Balanced(b, p)
        BY <1>9 DEF HitsCounted, Balanced, Roster
    <2>1. Cardinality({}) = 0
        BY FS_EmptySet
    <2>2. Of({}, p) = {} /\ {} \cap {} = {} /\ {} \ {} = {}
        BY DEF Of
    <2>3. Charges(b, p) = 0
        BY <1>9, <2>1, <2>2 DEF Charges
    <2>4. b.layers[p] = HitLimit /\ b.unpaired[p] = 0 /\ HitLimit \in Nat
        BY <1>1, <1>5, <1>9, BattleAssumption
    <2>5. Min({HitLimit, 0}) = 0
        BY <2>4, MinOfTwo
    <2> QED
        BY <1>9, <2>1, <2>2, <2>3, <2>4, <2>5 DEF Balanced
<1>16. Sound(b)
    BY <1>9, <1>11, <1>14 DEF Sound, Decided, Undecided
<1> QED
    BY <1>1, <1>9, <1>15, <1>16

LEMMA InitInv == Init => Inv
<1> SUFFICES ASSUME Init PROVE Inv
    OBVIOUS
<1>1. PICK l \in Lineups, arbitrator \in Fighters :
        /\ CanNewBattle(l.rule, l.team, l.ai, arbitrator)
        /\ battle = NewBattle(l.rule, l.team, l.ai, arbitrator)
    BY DEF Init
<1>2. l.rule \in Rules /\ Lineup(l.team) /\ l.ai \in SUBSET DOMAIN l.team
    BY RoundsAssumption DEF Lineup
<1>3. /\ battle \in Battles(l.team) /\ Sound(battle) /\ HitsCounted(battle)
      /\ battle.team = l.team /\ \A p \in DOMAIN l.team : battle.kills[p] = 0
    BY <1>1, <1>2, NewBattleSound
<1>4. MaxKills[battle.rule] \in Nat
    BY <1>3, RoundsAssumption DEF Battles
<1> QED
    BY <1>2, <1>3, <1>4 DEF Inv, Participants, Roster

LEMMA StepKeepsInv == Inv /\ [Next]_battle => Inv'
<1> SUFFICES ASSUME Inv, [Next]_battle PROVE Inv'
    OBVIOUS
<1>1. CASE Next
    <2>1. Obeys(battle, battle')
        BY <1>1, ClientsObey, ClockObeys
    <2>2. battle'.team = battle.team /\ battle'.rule = battle.rule
        BY <2>1 DEF Obeys, Step, Battles
    <2> QED
        BY <2>1, <2>2 DEF Obeys, Step, Inv, KillsCapped, Participants, Roster
<1>2. CASE UNCHANGED battle
    BY <1>2 DEF Inv, Participants
<1> QED
    BY <1>1, <1>2

\* The invariant holds.
THEOREM InvHolds == Spec => []Inv
BY InitInv, StepKeepsInv, PTL DEF Spec

-----------------------------------------------------------------------------
(* The theorems *)

\* A battle is of its type in every reachable state.
THEOREM BattlesTyped == Spec => []TypeOK
<1>1. Inv => TypeOK
    <2> SUFFICES ASSUME Inv PROVE TypeOK
        OBVIOUS
    <2> DEFINE team == battle.team
    <2>1. battle \in Battles(team) /\ Lineup(team) /\ Participants = DOMAIN team
        BY DEF Inv, Participants, Roster
    <2>2. TeamsOf(battle) = Range(team)
        BY <2>1, Teams
    <2>3. team \in [Participants -> TeamIDs]
        BY <2>1 DEF Lineup
    <2>4. battle.kills \in [Participants -> 0..MaxKills[battle.rule]]
        <3>1. MaxKills[battle.rule] \in Nat /\ battle.kills \in [Participants -> Nat]
            BY <2>1, RoundsAssumption DEF Battles, Counts
        <3>2. \A p \in Participants : battle.kills[p] <= MaxKills[battle.rule]
            BY DEF Inv
        <3> QED
            BY <3>1, <3>2
    <2>5. /\ battle.hp \in [TeamsOf(battle) -> 0..BaseHP]
          /\ battle.pieces \in [TeamsOf(battle) -> 0..Pieces]
          /\ battle.layers \in [Participants -> 0..HitLimit]
        BY <2>1, <2>2 DEF Battles, Bases, Statues, Lives
    <2>6. battle.early \subseteq battle.deaths
        BY DEF Inv, HitsCounted
    <2>7. battle.ai \cup battle.alive \cup battle.departed \cup battle.trapped
             \cup battle.dying \cup battle.confirmed \subseteq Participants
        BY <2>1 DEF Battles
    <2>8. /\ battle.rule \in Rules /\ battle.arbitrator \in Participants \cup {Nobody}
          /\ battle.bosses \subseteq Bosses /\ battle.winner \in TeamsOf(battle) \cup {Draw}
          /\ {battle.concluded, battle.draw, battle.grace, battle.woken} \subseteq BOOLEAN
        BY <2>1, <2>2 DEF Battles
    <2> QED
        BY <2>3, <2>4, <2>5, <2>6, <2>7, <2>8 DEF TypeOK
<1> QED
    BY <1>1, InvHolds, PTL

\* No report and no departure leaves an open round that no event could end: its scene
\* belongs to a connected human, and somebody is left to play against.
THEOREM RoundsGoOn == Spec => []OpenRoundGoesOn
<1>1. Inv => OpenRoundGoesOn
    BY DEF Inv, Sound, GoesOn, OpenRoundGoesOn, ByArbitrator, Clients
<1> QED
    BY <1>1, InvHolds, PTL

\* A verdict names one winning team at most and contradicts nothing that decided it.
THEOREM VerdictsAreSound == Spec => []VerdictSound
<1>1. Inv => VerdictSound
    <2> SUFFICES ASSUME Inv, battle.concluded
                 PROVE  /\ Cardinality(WinnerTeams(battle)) <= 1
                        /\ battle.rule = "boss" =>
                              IF WinnerTeams(battle) = {} THEN battle.alive = {}
                              ELSE battle.bosses = {}
                        /\ battle.draw => WinnerTeams(battle) = {}
        BY DEF VerdictSound
    <2>1. Decided(battle)
        BY DEF Inv, Sound
    <2>2. Cardinality({}) = 0 /\ Cardinality({battle.winner}) = 1
        BY FS_EmptySet, FS_Singleton
    <2>3. CASE battle.winner # Draw
        <3>1. WinnerTeams(battle) = {battle.winner} /\ ~battle.draw
            BY <2>1, <2>3 DEF WinnerTeams, Decided
        <3> QED
            BY <2>1, <2>2, <2>3, <3>1 DEF Decided
    <2>4. CASE battle.winner = Draw /\ battle.draw
        <3>1. WinnerTeams(battle) = {} /\ battle.rule # "boss"
            BY <2>1, <2>4 DEF WinnerTeams, Decided
        <3> QED
            BY <2>2, <3>1
    <2>5. CASE battle.winner = Draw /\ ~battle.draw
        <3>1. WinnerTeams(battle) = LivingTeams(battle)
            BY <2>5 DEF WinnerTeams
        <3>2. battle.alive = {} => LivingTeams(battle) = {}
            BY DEF LivingTeams
        <3> QED
            BY <2>1, <2>5, <3>1, <3>2 DEF Decided
    <2> QED
        BY <2>3, <2>4, <2>5
<1> QED
    BY <1>1, InvHolds, PTL

\* The trapped are alive; the departed and those without a layer are dead.
THEOREM DeadStayOut == Spec => []TheDeadStayOut
<1>1. Inv => TheDeadStayOut
    BY DEF Inv, Sound, Seated, TheDeadStayOut
<1> QED
    BY <1>1, InvHolds, PTL

\* Harms and deaths that arrive in any order, repeated or one without the other,
\* charge the layers within the bounds of LayersAgree.
THEOREM LayersAreCharged == Spec => []LayersAgree
<1>1. Inv => LayersAgree
    <2> SUFFICES ASSUME Inv, NEW p \in Participants
                 PROVE  LET harmed == Of(battle.harms, p)
                            died == Of(battle.deaths, p)
                        IN  /\ Min({HitLimit, Cardinality(harmed)}) <= Lost(p)
                            /\ Min({HitLimit, Cardinality(died)}) <= Lost(p)
                            /\ 2 * Lost(p) <= 2 * Cardinality(harmed \cup died)
                                              + Cardinality(harmed \cap died)
        BY DEF LayersAgree
    <2> DEFINE harmed == Of(battle.harms, p)
               died == Of(battle.deaths, p)
               early == Of(battle.early, p)
               late == Of(battle.deaths \ battle.early, p)
               both == Of(battle.early \cap battle.harms, p)
    <2>1. battle \in Battles(battle.team) /\ p \in DOMAIN battle.team
        BY DEF Inv, Participants, Roster
    <2>2. Balanced(battle, p) /\ battle.early \subseteq battle.deaths
        BY DEF Inv, HitsCounted, Balanced, Participants
    <2>3. /\ battle.harms \in SUBSET Hits /\ battle.deaths \in SUBSET Hits
          /\ battle.early \in SUBSET Hits /\ battle.deaths \ battle.early \in SUBSET Hits
          /\ battle.early \cap battle.harms \in SUBSET Hits
        BY <2>1 DEF Battles
    <2>4. /\ IsFiniteSet(harmed) /\ Cardinality(harmed) \in Nat
          /\ IsFiniteSet(died) /\ Cardinality(died) \in Nat
          /\ IsFiniteSet(early) /\ Cardinality(early) \in Nat
          /\ IsFiniteSet(late) /\ Cardinality(late) \in Nat
          /\ IsFiniteSet(both) /\ Cardinality(both) \in Nat
        BY <2>3, HitsOfPlayer
    <2>5. battle.layers[p] \in 0..HitLimit /\ battle.unpaired[p] \in Nat /\ HitLimit \in Nat
        BY <2>1, BattleAssumption DEF Battles, Lives, Counts
    <2>6. /\ Lost(p) = Min({HitLimit, Cardinality(harmed) + Cardinality(early)})
          /\ battle.layers[p] > 0 =>
                Cardinality(died) + battle.unpaired[p] = Cardinality(harmed) + Cardinality(early)
          /\ Cardinality(both) <= Cardinality(late)
        BY <2>2 DEF Balanced, Charges, Lost
    <2>7. /\ died = early \cup late /\ early \cap late = {}
          /\ harmed \cap died \subseteq both \cup late
        BY <2>2 DEF Of
    <2>8. Cardinality(died) = Cardinality(early) + Cardinality(late)
        <3> HIDE DEF early, late, died
        <3>1. Cardinality(early \cap late) = 0
            BY <2>7, FS_EmptySet
        <3>2. Cardinality(early \cup late) =
                Cardinality(early) + Cardinality(late) - Cardinality(early \cap late)
            BY <2>4, FS_Union
        <3> QED
            BY <2>4, <2>7, <3>1, <3>2
    <2>9. Cardinality(harmed \cap died) <= Cardinality(both) + Cardinality(late)
        <3> HIDE DEF harmed, died, both, late
        <3>1. /\ IsFiniteSet(both \cup late) /\ IsFiniteSet(both \cap late)
              /\ Cardinality(both \cup late) =
                    Cardinality(both) + Cardinality(late) - Cardinality(both \cap late)
            BY <2>4, FS_Union, FS_Intersection
        <3>2. Cardinality(harmed \cap died) <= Cardinality(both \cup late)
            BY <2>7, <3>1, FS_Subset
        <3>3. /\ Cardinality(both \cap late) \in Nat
              /\ IsFiniteSet(harmed \cap died) /\ Cardinality(harmed \cap died) \in Nat
            BY <2>4, <3>1, FS_Intersection, FS_CardinalityType
        <3> QED
            BY <2>4, <3>1, <3>2, <3>3
    <2>10. Cardinality(harmed \cup died) =
            Cardinality(harmed) + Cardinality(died) - Cardinality(harmed \cap died)
        <3> HIDE DEF harmed, died
        <3> QED
            BY <2>4, FS_Union
    <2>11. Cardinality(harmed \cap died) \in Nat
        <3> HIDE DEF harmed, died
        <3> QED
            BY <2>4, FS_Intersection, FS_CardinalityType
    <2>12. Lost(p) = HitLimit - battle.layers[p]
        BY DEF Lost
    <2> HIDE DEF harmed, died, early, late, both
    <2>13. /\ Min({HitLimit, Cardinality(harmed)}) =
                 (IF HitLimit <= Cardinality(harmed) THEN HitLimit ELSE Cardinality(harmed))
           /\ Min({HitLimit, Cardinality(died)}) =
                 (IF HitLimit <= Cardinality(died) THEN HitLimit ELSE Cardinality(died))
           /\ Lost(p) = IF HitLimit <= Cardinality(harmed) + Cardinality(early) THEN HitLimit
                        ELSE Cardinality(harmed) + Cardinality(early)
        BY <2>4, <2>5, <2>6, MinOfTwo
    <2>14. Min({HitLimit, Cardinality(harmed)}) <= Lost(p)
        BY <2>4, <2>5, <2>13
    <2>15. Min({HitLimit, Cardinality(died)}) <= Lost(p)
        BY <2>4, <2>5, <2>6, <2>12, <2>13
    <2>16. 2 * Lost(p) <= 2 * Cardinality(harmed \cup died) + Cardinality(harmed \cap died)
        BY <2>4, <2>5, <2>6, <2>8, <2>9, <2>10, <2>11, <2>13
    <2> QED
        BY <2>14, <2>15, <2>16 DEF harmed, died
<1> QED
    BY <1>1, InvHolds, PTL

\* No step changes a verdict, by which every later settlement pays.
THEOREM VerdictIsLocked == Spec => VerdictLocked
<1> DEFINE Lock == battle.concluded => battle'.concluded /\ Verdict' = Verdict
                                       /\ battle'.kills = battle.kills
<1>1. Inv /\ [Next]_battle => [Lock]_battle
    <2> SUFFICES ASSUME Inv, Next, battle.concluded
                 PROVE  /\ battle'.concluded /\ Verdict' = Verdict
                        /\ battle'.kills = battle.kills
        OBVIOUS
    <2>1. Step(battle, battle')
        BY ClientsObey, ClockObeys DEF Obeys
    <2>2. /\ battle'.team = battle.team /\ battle'.rule = battle.rule /\ battle'.concluded
          /\ battle'.winner = battle.winner /\ battle'.draw = battle.draw
          /\ battle'.kills = battle.kills
          /\ battle'.alive = battle.alive \/ battle.winner # Draw
        BY <2>1 DEF Step, Locked, Battles
    <2>3. WinnerTeams(battle') = WinnerTeams(battle)
        BY <2>2 DEF WinnerTeams, LivingTeams
    <2>4. \A p : Result(battle', p) = Result(battle, p)
        BY <2>2, <2>3 DEF Result, AllPlayersLost
    <2>5. Verdict' = Verdict
        BY <2>2, <2>4 DEF Verdict, Participants, Roster
    <2> QED
        BY <2>2, <2>5
<1> QED
    BY <1>1, InvHolds, PTL DEF Spec, VerdictLocked

\* No step brings back a life that is final, or a base that has fallen.
THEOREM LossesFinal == Spec => LossesAreFinal
<1> DEFINE Final ==
        /\ battle.rule \in Permanent \cup {"durability"} => battle'.alive \subseteq battle.alive
        /\ \A t \in TeamsOf(battle) :
              battle.hp[t] = 0 =>
                 /\ battle'.hp[t] = 0
                 /\ battle'.alive \cap Side(battle, t) \subseteq battle.alive
<1>1. Inv /\ [Next]_battle => [Final]_battle
    <2> SUFFICES ASSUME Inv, Next PROVE Final
        OBVIOUS
    <2> QED
        BY ClientsObey, ClockObeys DEF Obeys, Step, Loses
<1> QED
    BY <1>1, InvHolds, PTL DEF Spec, LossesAreFinal

\* No step credits a life with two kills.
THEOREM KillsArePaidOnce == Spec => OneKillPerLife
<1> DEFINE Credit ==
        \A p \in Participants :
            battle'.kills[p] # battle.kills[p] =>
                /\ battle'.kills[p] = battle.kills[p] + 1
                /\ \E q \in Participants \ Side(battle, battle.team[p]) :
                       /\ q \in battle.alive \ battle.dying
                       /\ q \notin battle'.alive \ battle'.dying
<1>1. Inv /\ [Next]_battle => [Credit]_battle
    <2> SUFFICES ASSUME Inv, Next PROVE Credit
        OBVIOUS
    <2> QED
        BY ClientsObey, ClockObeys DEF Obeys, Credits, Participants
<1> QED
    BY <1>1, InvHolds, PTL DEF Spec, OneKillPerLife

\* No step but the clock's defeats a connected team that the rule has not beaten.
THEOREM ReportsDefeatTheBeaten == Spec => LosersAreBeaten
<1> DEFINE Fairly ==
        ~battle.concluded /\ battle'.concluded /\ ~Timeout =>
            \A p \in Connected(battle') :
                Result(battle', p) = "loss" => Beaten(battle', battle'.team[p])
<1>1. Inv /\ [Next]_battle => [Fairly]_battle
    <2> SUFFICES ASSUME Inv, Next, ~Timeout PROVE Fairly
        OBVIOUS
    <2> QED
        BY ClientsObey DEF Fair, FairlyLost
<1> QED
    BY <1>1, InvHolds, PTL DEF Spec, LosersAreBeaten

=============================================================================
