------------------------------- MODULE Matches ------------------------------
(***************************************************************************)
(* The matches of one room, from start to payment: how internal/server/    *)
(* probe ties the room (Room.tla), the sessions of its players and the     *)
(* battle (Competitive.tla, Adventure.tla) together.                       *)
(*                                                                         *)
(* Every handler runs in the lane of the room, so an action is a handler.  *)
(* What is not in the lane is what makes this hard: a session that is busy *)
(* when the others are told of a match finds the news in its mail with its *)
(* next message; the result of a match is first shown to the client whose  *)
(* message decided it, for up to ten seconds, and committed afterwards by  *)
(* the goroutine of that connection (its delivery); the clocks of matches  *)
(* run on their own.  Kicks, which need a preparing room, are in World.tla *)
(* and AI players, who have no session, in Rounds.tla.                     *)
(***************************************************************************)
EXTENDS Room, Sequences

CONSTANTS Types,           \* game types a room is created with
          MapRules,        \* competitive rules of its maps: elimination, boss
          Stages,          \* maps of an adventure, one after the other
          NPCs,            \* numbers of NPCs a stage can have
          MaxGames,        \* bound: games of the room
          Busy,            \* bound: players whose session can be busy when told of a match
          Claims,          \* bound: whether a client's own result can name winners, or not
          Refusals,        \* bound: games whose settlement the store can refuse
          StoreFails       \* the store can refuse an elimination or a boss's price

ASSUME MatchesAssumption ==
    /\ Types \subseteq GameTypes /\ MapRules \subseteq {"elimination", "boss"}
    /\ Stages \in Nat \ {0} /\ NPCs \subseteq Nat /\ MaxGames \in Nat
    /\ Busy \subseteq Players /\ Claims \subseteq BOOLEAN /\ Refusals \subseteq Nat
    /\ StoreFails \in BOOLEAN

VARIABLES room,            \* the room; without members it does not exist
          sess,            \* each player's connection: in the room, CurrentGameID, map
          mail,            \* projections its session has not read
          battles,         \* competitiveBattles and adventureBattles
          clock,           \* games whose competitive timer runs
          finales,         \* games whose loot grace runs
          delivery,        \* what a connection's goroutine has to commit
          paid,            \* payments to each account
          refused,         \* history: competitive games whose settlement was refused
          games            \* game IDs allocated

vars == <<room, sess, mail, battles, clock, finales, delivery, paid, refused, games>>

C == INSTANCE Competitive WITH Fighters <- Players, TeamIDs <- Teams, Bosses <- {"boss"},
        BaseHP <- 1, Repair <- 1, Damages <- {1}, Pieces <- 1, GemTarget <- 1,
        HitLimit <- 1, Hits <- {}
A == INSTANCE Adventure

Games == 1..MaxGames
Idle == [kind |-> "idle", game |-> 0, results |-> <<>>]
Outside == [in |-> FALSE, game |-> 0, stage |-> 0]
\* Rooms follow one another and keep the type of the first.
Created(p, type) == NewRoom(p, [type |-> type, fixed |-> FALSE, limit |-> 0], FALSE)
NoRoom(type) == [Created(Nobody, type) EXCEPT !.members = Restrict(@, {})]

Init ==
    /\ \E type \in Types : room = NoRoom(type)
    /\ sess = [p \in Players |-> Outside] /\ mail = [p \in Players |-> <<>>]
    /\ battles = <<>> /\ clock = {} /\ finales = {}
    /\ delivery = [p \in Players |-> Idle] /\ paid = [p \in Players |-> <<>>]
    /\ refused = {} /\ games = 0

\* The part of the state that a settlement changes.
Now == [room |-> room, sess |-> sess, battles |-> battles, paid |-> paid, refused |-> refused]
Become(s) ==
    /\ room' = s.room /\ sess' = s.sess /\ battles' = s.battles
    /\ paid' = s.paid /\ refused' = s.refused

-----------------------------------------------------------------------------
(* Sessions *)

\* A message of p is handled: it has read its mail and commits nothing.
Acts(p) == mail[p] = <<>> /\ delivery[p] = Idle

\* applyPendingProjections of the news m: the start of a match (stage 1) puts the
\* session into it, the news of a later stage only one that is in that match.
Read(s, m) ==
    LET starts == {i \in DOMAIN m : m[i].stage = 1}
        game == IF starts = {} THEN s.game ELSE m[Max(starts)].game
        news == {i \in DOMAIN m : m[i].game = game /\ \A j \in starts : j <= i}
    IN  IF ~s.in \/ news = {} THEN s ELSE [s EXCEPT !.game = game, !.stage = m[Max(news)].stage]

\* applyOrEnqueueProjection to those in who that are in the room; missed are busy.
Project(who, missed, x) ==
    LET told == {p \in who : sess[p].in}
    IN  /\ missed \subseteq told \cap Busy
        /\ sess' = [p \in Players |->
                      IF p \in told \ missed THEN Read(sess[p], Append(mail[p], x)) ELSE sess[p]]
        /\ mail' = [p \in Players |-> IF p \in missed THEN Append(mail[p], x)
                                      ELSE IF p \in told THEN <<>> ELSE mail[p]]

ReadMail(p) ==
    /\ mail[p] # <<>> /\ delivery[p] = Idle
    /\ sess' = [sess EXCEPT ![p] = Read(@, mail[p])] /\ mail' = [mail EXCEPT ![p] = <<>>]
    /\ UNCHANGED <<room, battles, clock, finales, delivery, paid, refused, games>>

\* liveRoomMatchSessions
Playing(s, g) == {p \in Players : s.sess[p].in /\ s.sess[p].game = g}

Enter(p) ==
    /\ Acts(p) /\ ~sess[p].in /\ sess[p].game = 0
    /\ IF Roster(room) = {}
       THEN room' = Created(p, room.settings.type)
       ELSE CanJoin(room, p) /\ room' = Join(room, p, 1)
    /\ sess' = [sess EXCEPT ![p].in = TRUE]
    /\ UNCHANGED <<mail, battles, clock, finales, delivery, paid, refused, games>>

Prepare(p) ==
    /\ Acts(p) /\ sess[p].in /\ CanUpdateMember(room, p)
    /\ \/ \E team \in Teams : room' = SetTeam(room, p, team)
       \/ p # room.owner /\ room' = SetReady(room, p, TRUE)
    /\ UNCHANGED <<sess, mail, battles, clock, finales, delivery, paid, refused, games>>

-----------------------------------------------------------------------------
(* Settlement *)

\* What somebody is to be paid.  If the store refuses to store it, only the account
\* differs; an elimination between two maps looks at the answer (Eliminate), and a
\* whole settlement fails if the pets that add to it cannot be read (Settle).
Pay(s, who, g, battle, results) ==
    [s EXCEPT !.paid = [p \in Players |->
        IF p \in who THEN Append(@[p], [game |-> g, battle |-> battle, result |-> results[p]])
        ELSE @[p]]]

\* A session that has left the match no longer belongs to the room's settlement.
Released(s, who) ==
    [s EXCEPT !.sess = [p \in Players |-> IF p \in who THEN [@[p] EXCEPT !.game = 0, !.stage = 0] ELSE @[p]]]

\* Whom the results of a battle can pay: in an adventure, members of its stage.
Payable(s, battle, results) ==
    DOMAIN results \cap (IF battle \in DOMAIN s.battles /\ s.battles[battle].type = "adventure"
                         THEN s.battles[battle].b.members ELSE Players)

\* completeCompetitiveRoomMatch and completeAdventureRoomMatch, on behalf of
\* actor: the game is the one the actor is in, the results those of a battle.
\* One member that cannot be paid keeps the match from being settled, and so does a
\* store that cannot list their pets (unread): match and battle stay as they are, and
\* nobody tries again.
Settle(s, actor, battle, results, unread) ==
    LET g == s.sess[actor].game
        members == Playing(s, g)
        done == Released(Pay(s, members, g, battle, results), members)
        noted == IF s.room.settings.type = "adventure" THEN {} ELSE {g}
    IN  IF \/ g = 0 \/ ~s.sess[actor].in
           \/ actor \notin Roster(s.room) \/ ~CanBeginSettlement(s.room, g)
           \/ ~(members \subseteq Payable(s, battle, results))
        THEN s
        ELSE IF g \in unread THEN [s EXCEPT !.refused = @ \cup noted]
        ELSE [done EXCEPT !.room = CompleteMatch(BeginSettlement(@)), !.battles = Drop(@, g)]

\* Mutation: nobody forgets a battle without players.
SettleWhoRemains(s, g, results, unread) ==
    IF Playing(s, g) = {} THEN s ELSE Settle(s, Min(Playing(s, g)), g, results, unread)

\* Whoever is still in the match commits it; without anybody it is forgotten.
SettleOrForget(s, g, results, unread) ==
    IF Playing(s, g) = {} THEN [s EXCEPT !.battles = Drop(@, g)]
    ELSE Settle(s, Min(Playing(s, g)), g, results, unread)

\* Those in S are taken out of the room, which has no wedding; the smallest
\* remaining ID inherits, and with the last member the room goes.
Without(r, S) ==
    LET rest == Roster(r) \ S
    IN  IF rest = {} THEN NoRoom(r.settings.type)
        ELSE [r EXCEPT !.members = Restrict(@, rest), !.owner = IF @ \in S THEN Min(rest) ELSE @]

\* Mutation: the session of who has left keeps its game.
LeftWithGame(s, p) == [s EXCEPT !.room = Without(@, {p}), !.sess[p].in = FALSE]

Left(s, p) == [s EXCEPT !.room = Without(@, {p}), !.sess[p] = Outside]

-----------------------------------------------------------------------------
(* The start of a match *)

Ordinary == [single |-> FALSE, defer |-> FALSE, virtual |-> [t \in Teams |-> 0]]
BossStart == [Ordinary EXCEPT !.defer = TRUE]

\* The battle of the room's members under a rule of its map.
Battle(p, rule) ==
    LET team == [q \in Roster(room) |-> IF rule = "boss" THEN 1 ELSE room.members[q].team]
    IN  [type |-> "competitive", b |-> C!NewBattle(rule, team, {}, p)]

\* The battle of its members on the first map, which has n NPCs.
AdventureBattle(p, n) ==
    [type |-> "adventure",
     b |-> A!NewBattle(Roster(room), A!SelectArbitrator(p, Roster(room)), n)]

Start(p, missed) ==
    LET g == games + 1
    IN  /\ Acts(p) /\ sess[p].in /\ games < MaxGames /\ p \notin missed
        /\ \/ /\ room.settings.type = "adventure" /\ ValidateStart(room, p, Ordinary)
              /\ \E n \in NPCs : battles' = Put(battles, g, AdventureBattle(p, n))
              /\ clock' = clock
           \/ /\ room.settings.type \in Competitive
              /\ \E rule \in MapRules :
                    /\ ValidateStart(room, p, IF rule = "boss" THEN BossStart ELSE Ordinary)
                    /\ battles' = Put(battles, g, Battle(p, rule))
              /\ clock' = clock \cup {g}
        /\ room' = StartMatch(room, g) /\ games' = g
        /\ Project(Roster(room), missed, [game |-> g, stage |-> 1])
        /\ UNCHANGED <<finales, delivery, paid, refused>>

\* The summon items of a boss cannot be consumed: the started match is completed
\* again.  Its game ID is seen by nobody.
StartFails(p) ==
    /\ Acts(p) /\ sess[p].in /\ "boss" \in MapRules /\ StoreFails
    /\ room.settings.type \in Competitive /\ ValidateStart(room, p, BossStart)
    /\ room' = CompleteMatch(StartMatch(room, games + 1))
    /\ sess' = [sess EXCEPT ![p].game = 0, ![p].stage = 0]
    /\ UNCHANGED <<mail, battles, clock, finales, delivery, paid, refused, games>>

-----------------------------------------------------------------------------
(* Competitive matches *)

Battles(type) == {g \in DOMAIN battles : battles[g].type = type}
\* A message of p about the match of this type it is in.
Plays(p, type) == Acts(p) /\ sess[p].in /\ sess[p].game \in Battles(type)

With(g, b) == [battles EXCEPT ![g].b = b]
Deliver(p, kind, g, results) ==
    delivery' = [delivery EXCEPT ![p] = [kind |-> kind, game |-> g, results |-> results]]
Verdict(b) == [p \in C!Roster(b) |-> C!Result(b, p)]

\* A report of r leads to b; if that ends the battle, r is shown the result first.
\* A death is reported by the client itself or by the arbitrator.
Reports(r, b) ==
    LET g == sess[r].game
    IN  /\ battles' = With(g, b)
        /\ IF b.concluded /\ ~battles[g].b.concluded
           THEN Deliver(r, IF b.grace THEN "grace" ELSE "result", g, Verdict(b))
           ELSE delivery' = delivery
        /\ UNCHANGED <<room, sess, mail, clock, finales, paid, refused, games>>

Die(r, p) ==
    /\ Plays(r, "competitive")
    /\ LET b == battles[sess[r].game].b
       IN  /\ p \in C!Roster(b) /\ r \in {p, b.arbitrator}
           /\ Reports(r, IF b.grace THEN C!RecordGraceDeath(b, p) ELSE C!RecordDeath(b, p))

BossDie(r) ==
    /\ Plays(r, "competitive")
    /\ LET b == battles[sess[r].game].b
       IN  b.rule = "boss" /\ r = b.arbitrator /\ Reports(r, C!RecordBossDeath(b, "boss"))

\* The goroutine of p has shown what it had to show.
Shown(p, kind) ==
    /\ delivery[p].kind = kind
    /\ delivery' = [delivery EXCEPT ![p] = IF kind = "grace" THEN [@ EXCEPT !.kind = "result"] ELSE Idle]

\* Ten seconds after a boss victory, or when nobody is left to see it.
EndGrace(p) ==
    LET g == delivery[p].game
    IN  /\ Shown(p, "grace")
        /\ battles' = IF g \in DOMAIN battles THEN With(g, C!CompleteGrace(battles[g].b)) ELSE battles
        /\ UNCHANGED <<room, sess, mail, clock, finales, paid, refused, games>>

\* completeDeliveredMatch, for both kinds of matches.
CommitResult(p) ==
    /\ Shown(p, "result")
    /\ \E unread \in SUBSET Refusals : Become(Settle(Now, p, delivery[p].game, delivery[p].results, unread))
    /\ UNCHANGED <<mail, clock, finales, games>>

Rings(g) == g \in clock /\ clock' = clock \ {g}

\* Mutation: the clock concludes the battle and leaves the rest to the reports.
TimerConcludes(g) ==
    /\ Rings(g)
    /\ battles' = IF g \in DOMAIN battles THEN With(g, C!ConcludeTimeout(battles[g].b)) ELSE battles
    /\ UNCHANGED <<room, sess, mail, finales, delivery, paid, refused, games>>

\* completeCompetitiveTimeout
Timer(g) ==
    /\ Rings(g)
    /\ IF g \notin DOMAIN battles THEN UNCHANGED <<room, sess, battles, paid, refused>>
       ELSE LET b == C!ConcludeTimeout(battles[g].b)
                late == [Now EXCEPT !.battles = With(g, b)]
            IN  IF battles[g].b.concluded
                THEN Become(IF Playing(Now, g) = {} THEN [Now EXCEPT !.battles = Drop(@, g)] ELSE late)
                ELSE \E unread \in SUBSET Refusals : Become(SettleOrForget(late, g, Verdict(b), unread))
    /\ UNCHANGED <<mail, finales, delivery, games>>

-----------------------------------------------------------------------------
(* Adventures *)

Everybody(S, result) == [p \in S |-> result]

\* A death reported by the arbitrator of a stage that has NPCs.  The last one of
\* the last map wins the adventure, which goes on while the loot is collected.
NPCDie(r) ==
    /\ Plays(r, "adventure")
    /\ LET g == sess[r].game
           b == battles[g].b
           next == A!RecordNPCDeath(b)
           won == next.cleared /\ ~b.cleared /\ sess[r].stage = Stages
       IN  /\ r = b.arbitrator /\ b.expected # 0 /\ A!CanRecordNPCDeath(b)
           /\ battles' = With(g, IF won THEN A!BeginFinalStageVictory(next) ELSE next)
           /\ finales' = IF won THEN finales \cup {g} ELSE finales
    /\ UNCHANGED <<room, sess, mail, clock, delivery, paid, refused, games>>

PlayerDie(r, p) ==
    /\ Plays(r, "adventure")
    /\ LET g == sess[r].game
           old == battles[g].b
           b == A!RecordDeath(old, p)
           last == b.alive = {} /\ b.pending /\ ~b.concluded
       IN  /\ p \in old.members /\ r \in {p, old.arbitrator}
           /\ battles' = With(g, IF last THEN A!FinalizePendingVictory(b) ELSE b)
           /\ IF last THEN Deliver(r, "result", g, Everybody(b.winners, "win"))
              ELSE IF b.concluded /\ ~old.concluded
              THEN Deliver(r, "result", g, Everybody(b.members, "loss"))
              ELSE delivery' = delivery
    /\ UNCHANGED <<room, sess, mail, clock, finales, paid, refused, games>>

\* A rescue by r, or the end of p's death as the arbitrator saw it.
Revive(r, p) ==
    /\ Plays(r, "adventure")
    /\ LET g == sess[r].game
           b == battles[g].b
       IN  /\ A!CanRevive(b, p) /\ (r \in b.members \ {p} \/ r = b.arbitrator)
           /\ battles' = With(g, A!Revive(b, p))
    /\ UNCHANGED <<room, sess, mail, clock, finales, delivery, paid, refused, games>>

\* Behind the last map is the victory; behind another one the next, without the
\* dead, whom r's goroutine settles afterwards.  Their sessions are looked up now.
NextMap(r, missed) ==
    /\ Plays(r, "adventure")
    /\ LET g == sess[r].game
           b == battles[g].b
           out == A!SettledOut(b)
       IN  /\ A!CanPrepareNextStage(b, r)
           /\ \/ /\ sess[r].stage = Stages /\ missed = {}
                 /\ Deliver(r, "result", g, Everybody(b.members, "win"))
                 /\ UNCHANGED <<battles, sess, mail>>
              \/ /\ sess[r].stage < Stages /\ r \notin missed
                 /\ \E n \in NPCs : battles' = With(g, A!AdvanceStage(b, n))
                 /\ Project(b.alive, missed, [game |-> g, stage |-> sess[r].stage + 1])
                 /\ IF out = {} THEN delivery' = delivery
                    ELSE Deliver(r, "stage", g, [p \in out |-> IF sess[p].in THEN "loss" ELSE "absent"])
    /\ UNCHANGED <<room, clock, finales, paid, refused, games>>

\* applyAdventureStageEliminations, in the order of the players' IDs: the first one
\* that cannot be removed or paid ends it for those behind.  ok are the players
\* whose settlement is stored.
Eliminate(s, plan, ok) ==
    LET out == DOMAIN plan.results
        absent == {p \in out : plan.results[p] = "absent"}
        playing == Playing(s, plan.game) \cap (out \ absent)
        failed == (absent \ Roster(s.room)) \cup (playing \ ok)
        reached == {p \in out : \A q \in failed : p < q}
        paying == playing \cap reached
    IN  [Pay(s, paying, plan.game, plan.game, plan.results) EXCEPT
            !.room = Without(@, paying \cup (absent \cap reached)),
            !.sess = [p \in Players |-> IF p \in paying THEN Outside ELSE @[p]]]

ApplyEliminations(r) ==
    /\ Shown(r, "stage")
    /\ \E ok \in IF StoreFails THEN SUBSET DOMAIN delivery[r].results ELSE {DOMAIN delivery[r].results} :
          Become(Eliminate(Now, delivery[r], ok))
    /\ UNCHANGED <<mail, clock, finales, games>>

\* completeAdventureFinalVictory, when the loot grace is over.
Finale(g) ==
    /\ g \in finales /\ finales' = finales \ {g}
    /\ IF g \notin DOMAIN battles THEN UNCHANGED <<room, sess, battles, paid, refused>>
       ELSE LET b == battles[g].b
                won == [Now EXCEPT !.battles = With(g, A!FinalizePendingVictory(b))]
            IN  IF Playing(Now, g) # {} /\ (b.concluded \/ ~A!CanFinalize(b))
                THEN UNCHANGED <<room, sess, battles, paid, refused>>
                ELSE \E unread \in SUBSET Refusals :
                        Become(SettleOrForget(won, g, Everybody(b.winners, "win"), unread))
    /\ UNCHANGED <<mail, clock, delivery, games>>

-----------------------------------------------------------------------------
(* The client's own GAME_OVER *)

\* One team wins or nobody does, in an adventure everybody or nobody; whether the
\* battle is concluded, and how, is not asked.
Verdicts(type, b) ==
    IF type = "adventure" THEN {Everybody(b.members, IF won THEN "win" ELSE "loss") : won \in Claims}
    ELSE {[p \in C!Roster(b) |-> IF winner = b.team[p] THEN "win"
                                 ELSE IF winner = C!Draw /\ b.rule # "boss" THEN "draw" ELSE "loss"] :
             winner \in {t \in C!TeamsOf(b) \cup {C!Draw} : (t # C!Draw) \in Claims}}

GameOver(r) ==
    /\ Acts(r) /\ sess[r].in /\ sess[r].game \in DOMAIN battles /\ room.game = sess[r].game
    /\ LET g == sess[r].game
           battle == battles[g]
       IN  /\ battle.type = "adventure" => r \in battle.b.members
           /\ battle.type = "competitive" /\ battle.b.rule = "boss" => r = battle.b.arbitrator
           /\ \E results \in Verdicts(battle.type, battle.b) : Deliver(r, "result", g, results)
    /\ UNCHANGED <<room, sess, mail, battles, clock, finales, paid, refused, games>>

-----------------------------------------------------------------------------
(* Departures *)

\* Mutation: only a departure that ends the match is paid.
LeaveUnpaid(p, g, unread) ==
    LET old == battles[g].b
        b == IF old.concluded THEN C!RecordGraceDeparture(old, p) ELSE C!RecordDeparture(old, p)
        gone == Left([Now EXCEPT !.battles = With(g, b)], p)
    IN  IF b.concluded /\ ~old.concluded
        THEN SettleOrForget(Pay(gone, {p}, g, g, Verdict(b)), g, Verdict(b), unread) ELSE gone

\* handleCompetitiveDeparture, then finishCompetitiveDeparture
LeaveCompetitive(p, g, unread) ==
    LET old == battles[g].b
        b == IF old.concluded THEN C!RecordGraceDeparture(old, p) ELSE C!RecordDeparture(old, p)
        result == IF b.concluded THEN Verdict(b) ELSE [q \in {p} |-> "loss"]
        gone == Pay(Left([Now EXCEPT !.battles = With(g, b)], p), {p}, g, g, result)
    IN  IF b.concluded /\ ~old.concluded THEN SettleOrForget(gone, g, result, unread) ELSE gone

\* handleAdventureDeparture, then finishAdventureDeparture: only a departure that
\* ends the battle is paid.
LeaveAdventure(p, g, unread) ==
    LET old == battles[g].b
        b == A!RemoveParticipant(old, p)
        gone == Left([Now EXCEPT !.battles = With(g, b)], p)
        loss == [q \in old.members |-> "loss"]
    IN  IF ~A!CanRemoveParticipant(old, p) THEN Left(Now, p)
        ELSE IF b.concluded /\ ~old.concluded
        THEN SettleOrForget(Pay(gone, {p}, g, g, loss), g, loss, unread)
        ELSE IF b.members = {} THEN [gone EXCEPT !.battles = Drop(@, g)] ELSE gone

\* A player leaves with a message, after it has read its mail, or is disconnected
\* and has not.  A goroutine that has a result to commit does so before either.
Depart(p) ==
    /\ delivery[p] = Idle /\ sess[p].in
    /\ \E unread \in SUBSET Refusals :
          LET g == sess[p].game
          IN  Become(IF g \in Battles("competitive") /\ room.game = g THEN LeaveCompetitive(p, g, unread)
                     ELSE IF g \in Battles("adventure") THEN LeaveAdventure(p, g, unread)
                     ELSE Left(Now, p))
    /\ mail' = [mail EXCEPT ![p] = <<>>]
    /\ UNCHANGED <<clock, finales, delivery, games>>

-----------------------------------------------------------------------------
Next ==
    \/ \E p \in Players : \/ ReadMail(p) \/ Enter(p) \/ Prepare(p) \/ StartFails(p) \/ Depart(p)
                          \/ GameOver(p) \/ EndGrace(p) \/ CommitResult(p) \/ ApplyEliminations(p)
                          \/ BossDie(p) \/ NPCDie(p)
                          \/ \E missed \in SUBSET Players : Start(p, missed) \/ NextMap(p, missed)
    \/ \E r, p \in Players : Die(r, p) \/ PlayerDie(r, p) \/ Revive(r, p)
    \/ \E g \in Games : Timer(g) \/ Finale(g)

\* Clocks ring (Timer), and a goroutine that shows a result comes to its end
\* (EndGrace, CommitResult).
Fairness ==
    /\ \A g \in Games : WF_clock(Rings(g))
    /\ \A p \in Players : WF_delivery(Shown(p, "grace")) /\ WF_delivery(Shown(p, "result"))

Spec == Init /\ [][Next]_vars /\ Fairness

-----------------------------------------------------------------------------
(* Properties *)

TypeOK ==
    /\ IsRoom(room) /\ games \in 0..MaxGames
    /\ sess \in [Players -> [in : BOOLEAN, game : 0..MaxGames, stage : 0..Stages]]
    /\ \A p \in Players :
          /\ \A i \in DOMAIN mail[p] : mail[p][i] \in [game : Games, stage : 1..Stages]
          /\ delivery[p].kind \in {"idle", "grace", "result", "stage"}
          /\ \A i \in DOMAIN paid[p] : paid[p][i].result \in {"win", "loss", "draw"}
    /\ DOMAIN battles \cup clock \cup finales \cup refused \subseteq Games

\* A repeated or late message never pays a match twice: whatever clock, report,
\* departure, elimination and client result race for its end, an account gets one
\* settlement of each game, and no payment is of another game's result.
PaidOnce ==
    \A p \in Players : \A i, j \in DOMAIN paid[p] :
        /\ paid[p][i].game = paid[p][j].game => i = j
        /\ paid[p][i].battle = paid[p][i].game

\* The server plays the match its room is in: a session in a competitive game that
\* is still registered is a member of the room that plays it, and its battle has
\* not counted that player out.
PlayersAreCounted ==
    \A p \in Players :
        LET g == sess[p].game
        IN  g \in Battles("competitive") =>
                p \in Roster(room) /\ room.game = g /\ p \in C!Connected(battles[g].b)

\* A competitive battle outlives the things that can end it only if the store refused
\* its settlement (match_settlement.go:308-316): its clock runs, or a goroutine still
\* has its result to commit.  Start assumes that the starter's connection takes the
\* answer; the clock is set after it (tcp_sequence.go:54-71).
NoLeak ==
    \A g \in Battles("competitive") \ refused :
        g \in clock \/ \E p \in Players : delivery[p].kind # "idle" /\ delivery[p].game = g

\* Who comes out of a competitive match, by leaving it or by its end, is paid for
\* it in the same step.
EveryPlayerIsPaid ==
    [][\A p \in Players :
          LET g == sess[p].game
          IN  g \in Battles("competitive") /\ sess'[p].game # g =>
                 Len(paid'[p]) = Len(paid[p]) + 1 /\ paid'[p][Len(paid'[p])].game = g]_vars

\* BeginFinalStageVictory "locks the team outcome ... every participant who reached
\* the final stage with the team wins, including a teammate who died before the
\* surviving players completed the objective" (adventure.go:570-574): the departure
\* of a teammate while the loot is collected costs nobody who stays the victory.
VictorySurvivesDeparture ==
    [][\A g \in Battles("adventure"), p, q \in Players :
          /\ battles[g].b.pending /\ sess[p].game = g
          /\ sess[q].in /\ ~sess'[q].in /\ sess'[p].in /\ paid'[p] # paid[p]
          => paid'[p][Len(paid'[p])].result = "win"]_vars

\* Every competitive battle whose start was answered ends, at the latest when its
\* clock rings, even if no client ever reports anything, and however its players
\* come and go; only a settlement that the store refused leaves one behind.
RoundsEnd == []<>(Battles("competitive") \subseteq refused)
=============================================================================
