------------------------------- MODULE Rounds -------------------------------
(***************************************************************************)
(* A competitive battle under the reports of its clients: the handlers of  *)
(* internal/server/probe that call match.CompetitiveBattle.  Reports come  *)
(* from several clients over two transports, late, twice and in any order, *)
(* before and after the conclusion; a handler's checks on who may report   *)
(* are conjuncts of its action.                                            *)
(***************************************************************************)
EXTENDS Competitive

CONSTANTS Lineups,         \* the battles to play: [rule, team, ai]
          GemValues,       \* 1, 2 and 3
          MaxKills,        \* bound: kills credited to one player, by rule
          MaxStored        \* bound: buns of one colour at one base

ASSUME RoundsAssumption ==
    /\ \A l \in Lineups : /\ l.rule \in Rules
                          /\ DOMAIN l.team \subseteq Fighters
                          /\ l.team \in [DOMAIN l.team -> TeamIDs]
                          /\ l.ai \subseteq DOMAIN l.team
    /\ GemValues \subseteq Nat \ {0}
    /\ MaxKills \in [Rules -> Nat]

VARIABLE battle

\* competitiveTeamProjection: a boss round puts everybody on one team.
Unified(team) == [p \in DOMAIN team |-> 1]

Init == \E l \in Lineups, arbitrator \in Fighters :
            /\ CanNewBattle(l.rule, l.team, l.ai, arbitrator)
            /\ battle = NewBattle(l.rule, l.team, l.ai, arbitrator)

Clients == Connected(battle) \ battle.ai
ByAnybody == Clients # {}
ByArbitrator == battle.arbitrator \in Clients
\* Of p by its own client, or of anybody by the arbitrator.
ReportOf(p) == p \in Clients \/ ByArbitrator

-----------------------------------------------------------------------------
\* PLAYER_BE_EXPLODED
Trap(p) ==
    /\ ReportOf(p)
    /\ battle' = RecordTrapped(battle, p)

\* REQUEST_KILL_PLAYER
RequestKill(p, q) ==
    /\ ReportOf(p) /\ CanKill(battle, p, q)
    /\ battle.kills[p] < MaxKills[battle.rule]
    /\ battle' = RecordKill(battle, p, q)

\* NOTIFY_PLAYER_BE_KILLED, the arbitrator's alone: the victim's gems are scattered
\* even when the kill is refused.
NotifyKill(p, q) ==
    LET b == ScatterGems(battle, q)
    IN  /\ ByArbitrator /\ b.kills[p] < MaxKills[battle.rule]
        /\ battle' = IF CanKill(b, p, q) THEN RecordKill(b, p, q) ELSE b

BossKill(boss, p) ==
    /\ ByArbitrator /\ CanBossKill(battle, boss, p)
    /\ battle' = RecordBossKill(battle, p)

Rescue(p, q) ==
    /\ ReportOf(p) /\ CanRescue(battle, p, q)
    /\ battle' = RecordRescue(battle, q)

\* NOTIFY_PLAYER_DIE of a participant, outside the durability rules.
Die(p) ==
    LET b == ScatterGems(battle, p)
    IN  /\ ReportOf(p) /\ b.rule # "durability"
        /\ battle' = IF b.grace THEN RecordGraceDeath(b, p) ELSE RecordDeath(b, p)

\* The same report under a durability rule, and the harm that may precede it,
\* follow it or never come.
DieOnce(p, h) ==
    /\ battle.rule = "durability" /\ ReportOf(p)
    /\ battle' = RecordDurabilityDeath(battle, p, h)
Harm(p, h) ==
    /\ battle.rule = "durability" /\ ByAnybody
    /\ battle' = RecordHarm(battle, p, h)

BossDie(boss) ==
    /\ battle.rule = "boss" /\ ByArbitrator
    /\ battle' = RecordBossDeath(battle, boss)

Relive(p) ==
    /\ ByArbitrator /\ CanRespawn(battle, p)
    /\ battle' = RecordRespawn(battle, p)

TankBaseHP(p, t) ==
    /\ ReportOf(p)
    /\ \/ CanChangeBase(battle, p, t, TRUE) /\ battle' = RepairBase(battle, t)
       \/ /\ CanChangeBase(battle, p, t, FALSE)
          /\ \E loss \in Damages : battle' = DamageBase(battle, t, loss)

GetBun(p, u) ==
    /\ ByArbitrator /\ CanTouchBun(battle, p)
    /\ battle' = TakeBun(battle, u)
PlaceBun(p, u) ==
    /\ ByArbitrator /\ CanTouchBun(battle, p)
    /\ battle.stored[battle.team[p]][u] < MaxStored
    /\ battle' = PutBun(battle, p, u)

PlacePiece(p) ==
    /\ ByArbitrator /\ CanDepositPiece(battle, p)
    /\ battle' = DepositPiece(battle, p)
Explode(t) ==
    /\ battle.rule = "sculpture" /\ ByArbitrator
    /\ battle' = ExplodeStatue(battle, t)

GetGem(p, value) ==
    /\ ByAnybody /\ CanPickGem(battle, p)
    /\ battle' = PickGem(battle, p, value)

\* handleCompetitiveDeparture
Depart(p) ==
    /\ p \in Clients
    /\ battle' = IF battle.concluded THEN RecordGraceDeparture(battle, p)
                 ELSE RecordDeparture(battle, p)

Timeout == battle' = ConcludeTimeout(battle)
EndGrace == battle.grace /\ battle' = CompleteGrace(battle)

-----------------------------------------------------------------------------
Participants == Roster(battle)

Next ==
    \/ \E p \in Participants : \/ Trap(p) \/ Die(p) \/ Relive(p) \/ PlacePiece(p) \/ Depart(p)
                               \/ \E boss \in Bosses : BossKill(boss, p)
                               \/ \E hit \in Hits : hit[1] = p /\ (Harm(p, hit[2]) \/ DieOnce(p, hit[2]))
                               \/ \E value \in GemValues : GetGem(p, value)
    \/ \E p, q \in Participants : RequestKill(p, q) \/ NotifyKill(p, q) \/ Rescue(p, q)
    \/ \E p \in Participants, t \in TeamsOf(battle) :
            TankBaseHP(p, t) \/ GetBun(p, t) \/ PlaceBun(p, t)
    \/ \E t \in TeamsOf(battle) : Explode(t)
    \/ \E boss \in Bosses : BossDie(boss)
    \/ Timeout \/ EndGrace

Spec == Init /\ [][Next]_battle

-----------------------------------------------------------------------------
(* Properties *)

TypeOK ==
    /\ battle.rule \in Rules /\ battle.team \in [Participants -> TeamIDs]
    /\ battle.arbitrator \in Participants \cup {Nobody}
    /\ battle.ai \cup battle.alive \cup battle.departed \cup battle.trapped
          \cup battle.dying \cup battle.confirmed \subseteq Participants
    /\ battle.kills \in [Participants -> 0..MaxKills[battle.rule]]
    /\ battle.hp \in [TeamsOf(battle) -> 0..BaseHP]
    /\ battle.pieces \in [TeamsOf(battle) -> 0..Pieces]
    /\ battle.layers \in [Participants -> 0..HitLimit]
    /\ battle.early \subseteq battle.deaths
    /\ battle.bosses \subseteq Bosses
    /\ battle.winner \in TeamsOf(battle) \cup {Draw}
    /\ {battle.concluded, battle.draw, battle.grace, battle.woken} \subseteq BOOLEAN

\* An open round can still be decided: its scene belongs to a connected human
\* client, and somebody is left to play against - two connected teams, two teams
\* a tank base or a life keeps in, or a living member of a boss party.  Otherwise
\* no client event could end it before the clock does.
OpenRoundGoesOn ==
    ~battle.concluded =>
        /\ ByArbitrator
        /\ IF battle.rule = "boss" THEN battle.alive # {} /\ battle.bosses # {}
           ELSE Cardinality(ConnectedTeams(battle)) > 1
        /\ battle.rule = "tank" => Cardinality(ViableTeams(battle)) > 1

\* A concluded round names at most one winning team and contradicts nothing that
\* decided it: a boss party wins only over dead bosses and loses only when all
\* its players are dead, and a draw has no winner.
VerdictSound ==
    battle.concluded =>
        /\ Cardinality(WinnerTeams(battle)) <= 1
        /\ battle.rule = "boss" =>
              IF WinnerTeams(battle) = {} THEN battle.alive = {} ELSE battle.bosses = {}
        /\ battle.draw => WinnerTeams(battle) = {}

\* Nobody acts from the grave: the trapped are alive, a departed player is out
\* for good, and one whose last layer has gone stays dead.
TheDeadStayOut ==
    /\ battle.trapped \subseteq battle.alive
    /\ battle.alive \cap (battle.departed \cup battle.confirmed) = {}

\* The two reports of a hit arrive over two transports in any order, repeated, or
\* one of them never.  No report is free: a player has lost a layer for each harm,
\* and one for each death, as long as it had any.  And at most every second of the
\* hits reported twice costs two: one whose death report found its harm taken by
\* the death report of another.
Of(hits, p) == {hit \in hits : hit[1] = p}
Lost(p) == HitLimit - battle.layers[p]
LayersAgree ==
    \A p \in Participants :
        LET harmed == Of(battle.harms, p)
            died == Of(battle.deaths, p)
        IN  /\ Min({HitLimit, Cardinality(harmed)}) <= Lost(p)
            /\ Min({HitLimit, Cardinality(died)}) <= Lost(p)
            /\ 2 * Lost(p) <= 2 * Cardinality(harmed \cup died) + Cardinality(harmed \cap died)

\* The result chosen when a round concludes is what every later settlement reads:
\* no report, departure or deadline changes it, during the grace of a boss victory
\* or after it.
Verdict == [p \in Participants |-> Result(battle, p)]
VerdictLocked ==
    [][battle.concluded => battle'.concluded /\ Verdict' = Verdict
                           /\ battle'.kills = battle.kills]_battle

\* Only the clock takes a round from a team that could still play it: a team with
\* somebody connected loses to a report when the rule's own condition says so,
\* whichever of the kill, death, departure and objective reports came last.
Beaten(b, t) ==
    CASE b.rule = "tank"      -> b.hp[t] = 0 /\ t \notin LivingTeams(b)
      [] b.rule = "bun"       -> \E u \in TeamsOf(b) : b.stored[u][t] >= Cardinality(Side(b, t))
      [] b.rule = "sculpture" -> \E u \in TeamsOf(b) \ {t} : b.pieces[u] = Pieces
      [] b.rule = "treasure"  -> \E u \in TeamsOf(b) \ {t} :
                                    TeamTotal(b.team, b.gems)[u] >= GemTarget * Cardinality(Side(b, u))
      [] b.rule = "wrestle"   -> FALSE
      [] OTHER                -> t \notin LivingTeams(b)
LosersAreBeaten ==
    [][~battle.concluded /\ battle'.concluded /\ ~Timeout =>
          \A p \in Connected(battle') :
             Result(battle', p) = "loss" => Beaten(battle', battle'.team[p])]_battle

\* What is lost is lost: a death is final where nothing brings players back, and
\* so is the fall of a tank base, with the lives of those it could have restored.
LossesAreFinal ==
    [][/\ battle.rule \in Permanent \cup {"durability"} => battle'.alive \subseteq battle.alive
       /\ \A t \in TeamsOf(battle) :
             battle.hp[t] = 0 =>
                /\ battle'.hp[t] = 0
                /\ battle'.alive \cap Side(battle, t) \subseteq battle.alive]_battle

\* One life is one kill at most: a credited victim has been freed, has come back
\* or has been trapped anew before it is credited again.
OneKillPerLife ==
    [][\A p \in Participants :
          battle'.kills[p] # battle.kills[p] =>
              /\ battle'.kills[p] = battle.kills[p] + 1
              /\ \E q \in Participants \ Side(battle, battle.team[p]) :
                     /\ q \in battle.alive \ battle.dying
                     /\ q \notin battle'.alive \ battle'.dying]_battle
=============================================================================
