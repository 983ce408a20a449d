---------------------------- MODULE MatchesProofs ---------------------------
(***************************************************************************)
(* Theorems about Matches.tla, for any number of players, games, maps and  *)
(* NPCs: every account gets one settlement of a match, the session of a    *)
(* registered competitive match is a counted member of the room that plays *)
(* it, and somebody is left to end it, unless the store refused to settle. *)
(*                                                                         *)
(* A handler changes the room, the sessions, the battles and the accounts  *)
(* through operators on the record Now, so the invariants are stated of    *)
(* such a record s with the mail m, the deliveries d, the clocks c and the *)
(* number of games n, and preserved by what a handler makes of it.         *)
(***************************************************************************)
EXTENDS Matches, RoomProofs

-----------------------------------------------------------------------------
(* The invariant *)

Results == {"win", "loss", "draw"}
Payments == [game : Games, battle : Games, result : Results]
Sessions == [in : BOOLEAN, game : 0..MaxGames, stage : 0..Stages]
News == [game : Games, stage : 1..Stages]

\* A battle, with the fields the other parts of the state depend on.
BattleFields == {"rule", "team", "departed", "concluded"}
IsBattle(x) ==
    /\ x = [type |-> x.type, b |-> x.b]
    /\ \/ x.type = "adventure"
       \/ /\ x.type = "competitive" /\ BattleFields \subseteq DOMAIN x.b
          /\ x.b.rule \in {"elimination", "boss"}

\* What a goroutine has to commit: who is eliminated, or the result of a match.
IsDelivery(x) ==
    /\ x = [kind |-> x.kind, game |-> x.game, results |-> x.results]
    /\ x.kind \in {"idle", "grace", "result", "stage"} /\ x.game \in 0..MaxGames
    /\ x.kind # "idle" => x.game # 0
    /\ \A p \in DOMAIN x.results :
          x.results[p] \in IF x.kind = "stage" THEN {"loss", "absent"} ELSE Results

IsState(s) ==
    /\ s = [room |-> s.room, sess |-> s.sess, battles |-> s.battles, paid |-> s.paid,
            refused |-> s.refused]
    /\ IsRoom(s.room)
    /\ s.sess \in [Players -> Sessions]
    /\ s.paid \in [Players -> Seq(Payments)]
    /\ DOMAIN s.battles \subseteq Games
    /\ \A g \in DOMAIN s.battles : IsBattle(s.battles[g])
    /\ s.refused \subseteq Games

Typed(s, m, d) ==
    /\ IsState(s)
    /\ m \in [Players -> Seq(News)]
    /\ DOMAIN d = Players /\ \A p \in Players : IsDelivery(d[p])

\* The news of the start of h is in the mail m.
Started(m, h) == \E i \in DOMAIN m : m[i].stage = 1 /\ m[i].game = h
\* A session is in the match h, or will be when it has read its mail.
Enters(s, m, p, h) == s.sess[p].game = h \/ Started(m[p], h)
Delivers(d, p) == d[p].kind # "idle"

\* A room prepares or plays a game; its battles are of its type.
RoomSound(s, c, f, d) ==
    /\ s.room.phase \in {"preparing", "inMatch"}
    /\ s.room.phase = "preparing" <=> s.room.game = 0
    /\ \A g \in DOMAIN s.battles :
          s.battles[g].type = "adventure" <=> s.room.settings.type = "adventure"
    /\ s.room.settings.type = "adventure" => c = {}
    /\ s.room.settings.type # "adventure" =>
          f = {} /\ \A p \in Players : d[p].kind # "stage"

\* No game has been allocated beyond the counter n.
Allocated(s, m, d, n) ==
    /\ s.room.game \in 0..n
    /\ DOMAIN s.battles \subseteq 1..n
    /\ \A p \in Players :
          /\ s.sess[p].game \in 0..n /\ d[p].game \in 0..n
          /\ \A i \in DOMAIN m[p] : m[p][i].game \in 1..n
          /\ \A i \in DOMAIN s.paid[p] : s.paid[p][i].game \in 1..n

\* Who is in the room is there with a session; in a competitive room nobody is taken
\* out of it while its session stays.  A session outside is in no match, and one in a
\* match is on one of its maps.
SessionsSound(s) ==
    \A p \in Players :
        /\ p \in Roster(s.room) => s.sess[p].in
        /\ s.sess[p].in /\ s.room.settings.type # "adventure" => p \in Roster(s.room)
        /\ s.sess[p].game # 0 => s.sess[p].in /\ s.sess[p].stage # 0

\* An account has the settlement of a game once, and its session is out of that game
\* and will not hear of its start.
AccountsSound(s, m) ==
    \A p \in Players :
        /\ \A i, j \in DOMAIN s.paid[p] :
              /\ s.paid[p][i].game = s.paid[p][j].game => i = j
              /\ s.paid[p][i].battle = s.paid[p][i].game
        /\ \A i \in DOMAIN s.paid[p] : ~Enters(s, m, p, s.paid[p][i].game)

\* The start of a match is news: the session is in no match whose battle runs, and in
\* particular not in that one.
MailSound(s, m) ==
    \A p \in Players :
        /\ \A h \in Games : Started(m[p], h) => s.sess[p].game # h
        /\ \A h \in Games : p \in Roster(s.room) /\ Started(m[p], h) =>
              s.sess[p].game \notin DOMAIN s.battles

\* A session with something to commit is in that match or in none, hears of no other,
\* and is not ready for the next one.
DeliveriesSound(s, m, d) ==
    \A p \in Players : Delivers(d, p) =>
        /\ s.sess[p].game \in {0, d[p].game}
        /\ \A h \in Games : ~Started(m[p], h)
        /\ p \in Roster(s.room) /\ s.room.phase = "preparing" =>
              ~s.room.members[p].ready

\* A member whose match has a running battle is in the match of its room, and a
\* competitive battle counts it.
MembersSound(s, m) ==
    \A p \in Roster(s.room), h \in DOMAIN s.battles :
        Enters(s, m, p, h) =>
            /\ s.room.game = h
            /\ s.battles[h].type = "competitive" => p \in C!Connected(s.battles[h].b)

\* What is to be committed of a running competitive match names its players.
ResultsSound(s, d) ==
    \A p \in Players : \A h \in DOMAIN s.battles :
        Delivers(d, p) /\ d[p].game = h /\ s.battles[h].type = "competitive" =>
            s.sess[p].game = h /\ DOMAIN d[p].results = C!Roster(s.battles[h].b)

Good(s, m, d, c, f, n) ==
    /\ RoomSound(s, c, f, d) /\ Allocated(s, m, d, n) /\ SessionsSound(s)
    /\ AccountsSound(s, m) /\ MailSound(s, m) /\ DeliveriesSound(s, m, d)
    /\ MembersSound(s, m) /\ ResultsSound(s, d)

\* Somebody will end a competitive battle: its clock, unless it is concluded, or a
\* goroutine that has its result to commit; or the store has refused its settlement.
Ends(s, d, c) ==
    \A g \in DOMAIN s.battles : s.battles[g].type = "competitive" =>
        \/ g \in s.refused
        \/ g \in c /\ ~s.battles[g].b.concluded
        \/ \E p \in Players : Delivers(d, p) /\ d[p].game = g

TInv == Typed(Now, mail, delivery) /\ games \in 0..MaxGames
          /\ clock \subseteq Games /\ finales \subseteq Games
GInv == Good(Now, mail, delivery, clock, finales, games)
EInv == Ends(Now, delivery, clock)

-----------------------------------------------------------------------------
(* The operators of the model *)

\* A nonempty set of places of a sequence has a last one, which Max returns.
LEMMA MaxOfPlaces ==
    ASSUME NEW n \in Nat, NEW S \in SUBSET (1..n), S # {}
    PROVE  Max(S) \in S /\ \A y \in S : y <= Max(S)
<1> DEFINE T == {n - i : i \in S}
<1>1. T \in SUBSET Nat /\ T # {}
    <2>1. \A i \in S : n - i \in Nat
        BY SMT
    <2> QED
        BY <2>1
<1>2. PICK t \in T : \A y \in T : t <= y
    BY <1>1, MinOfNaturals
<1>3. PICK x \in S : t = n - x
    BY <1>2
<1>4. \A y \in S : y <= x
    <2> TAKE y \in S
    <2>1. n - y \in T
        OBVIOUS
    <2>2. n - x <= n - y
        BY <1>2, <1>3, <2>1
    <2> QED
        BY <2>2, SMT
<1> QED
    BY <1>4 DEF Max

\* Reading its mail leaves a session where it is, or in a match it was told of.
LEMMA ReadIsSession ==
    ASSUME NEW s \in Sessions, NEW m \in Seq(News)
    PROVE  /\ Read(s, m) \in Sessions
           /\ Read(s, m).in = s.in
           /\ Read(s, m).game = s.game \/ (s.in /\ Started(m, Read(s, m).game))
           /\ Read(s, m) = s \/ (s.in /\ Read(s, m).stage # 0)
<1> DEFINE starts == {i \in DOMAIN m : m[i].stage = 1}
           game == IF starts = {} THEN s.game ELSE m[Max(starts)].game
           news == {i \in DOMAIN m : m[i].game = game /\ \A j \in starts : j <= i}
<1>1. Len(m) \in Nat /\ DOMAIN m = 1..Len(m) /\ \A i \in DOMAIN m : m[i] \in News
    OBVIOUS
<1>2. starts # {} => Max(starts) \in starts
    BY <1>1, MaxOfPlaces
<1>3. news # {} => Max(news) \in news
    <2>1. news \in SUBSET (1..Len(m))
        BY <1>1
    <2> HIDE DEF news
    <2> QED
        BY <1>1, <2>1, MaxOfPlaces
<1>4. Read(s, m) = IF ~s.in \/ news = {} THEN s ELSE [s EXCEPT !.game = game, !.stage = m[Max(news)].stage]
    BY DEF Read
<1>5. CASE ~s.in \/ news = {}
    BY <1>4, <1>5
<1>6. CASE s.in /\ news # {}
    <2>1. PICK stage \in 1..Stages : m[Max(news)].stage = stage
        BY <1>1, <1>3, <1>6 DEF News
    <2>2. game \in 0..MaxGames /\ (game = s.game \/ Started(m, game))
        <3>1. CASE starts = {}
            BY <3>1 DEF Sessions
        <3>2. CASE starts # {}
            <4>1. PICK i \in DOMAIN m : m[i].stage = 1 /\ i = Max(starts)
                BY <1>2, <3>2
            <4>2. game = m[i].game
                BY <3>2, <4>1
            <4>3. m[i].game \in 0..MaxGames
                BY <1>1, MatchesAssumption DEF News, Games
            <4> QED
                BY <4>1, <4>2, <4>3 DEF Started
        <3> QED
            BY <3>1, <3>2
    <2>4. s.in \in BOOLEAN /\ s = [in |-> s.in, game |-> s.game, stage |-> s.stage]
        BY DEF Sessions
    <2> HIDE DEF game, news, starts
    <2>3. Read(s, m) = [s EXCEPT !.game = game, !.stage = stage]
        BY <1>4, <1>6, <2>1
    <2>5. stage \in 0..Stages /\ stage # 0
        BY MatchesAssumption
    <2>6. Read(s, m) = [in |-> s.in, game |-> game, stage |-> stage]
        BY <2>3, <2>4
    <2> QED
        BY <1>6, <2>2, <2>4, <2>5, <2>6 DEF Sessions
<1> QED
    BY <1>5, <1>6

\* The mail with x at its end tells what the mail or x tells.
LEMMA StartedAppend ==
    ASSUME NEW m \in Seq(News), NEW x \in News, NEW h
    PROVE  Started(Append(m, x), h) <=> Started(m, h) \/ (x.stage = 1 /\ x.game = h)
<1>1. Len(m) \in Nat /\ DOMAIN m = 1..Len(m)
    OBVIOUS
<1>2. DOMAIN Append(m, x) = 1..(Len(m) + 1)
    BY <1>1
<1>3. \A i \in 1..Len(m) : Append(m, x)[i] = m[i]
    BY <1>1
<1>4. Append(m, x)[Len(m) + 1] = x
    BY <1>1
<1>5. \A i \in 1..(Len(m) + 1) : i \in 1..Len(m) \/ i = Len(m) + 1
    BY <1>1
<1>6. Len(m) + 1 \in 1..(Len(m) + 1) /\ 1..Len(m) \subseteq 1..(Len(m) + 1)
    BY <1>1
<1> HIDE DEF News
<1> QED
    BY <1>1, <1>2, <1>3, <1>4, <1>5, <1>6, Zenon DEF Started

\* A room of matches without members.
LEMMA NoRoomFields ==
    ASSUME NEW type \in GameTypes
    PROVE  /\ IsRoom(NoRoom(type)) /\ Roster(NoRoom(type)) = {}
           /\ NoRoom(type).phase = "preparing" /\ NoRoom(type).game = 0
           /\ NoRoom(type).settings.type = type
<1> DEFINE settings == [type |-> type, fixed |-> FALSE, limit |-> 0]
           new == NewRoom(Nobody, settings, FALSE)
<1>1. settings \in Settings
    BY RoomAssumption DEF Settings
<1>2. NoRoom(type) = [new EXCEPT !.members = Restrict(new.members, {})]
    BY DEF NoRoom, Created
<1>3. new = [owner |-> Nobody, phase |-> "preparing", game |-> 0, settings |-> settings,
             freeRule |-> FALSE, locked |-> {},
             members |-> [q \in {Nobody} |-> [team |-> 1, seat |-> 1, ready |-> FALSE]],
             background |-> 0, wedding |-> NoWedding(0)]
    BY DEF NewRoom
<1>4. Restrict(new.members, {}) \in [{} -> Member] /\ DOMAIN Restrict(new.members, {}) = {}
    BY DEF Restrict
<1>5. NoWedding(0) \in Weddings
    BY DEF NoWedding, Weddings
<1>6. PICK nobody \in [{} -> Member] : nobody = Restrict(new.members, {})
    BY <1>4
<1> HIDE DEF new, settings
<1>7. NoRoom(type) = [owner |-> Nobody, phase |-> "preparing", game |-> 0, settings |-> settings,
             freeRule |-> FALSE, locked |-> {}, members |-> nobody,
             background |-> 0, wedding |-> NoWedding(0)]
    BY <1>2, <1>3, <1>6
<1>8. Roster(NoRoom(type)) = {}
    BY <1>6, <1>7 DEF Roster
<1>9. NoRoom(type) \in RoomsOf({})
    BY <1>1, <1>5, <1>6, <1>7, RoomAssumption DEF RoomsOf, Phases
<1>10. IsRoom(NoRoom(type))
    BY <1>8, <1>9 DEF IsRoom
<1>11. settings.type = type
    BY DEF settings
<1>12. NoRoom(type).settings = settings
    BY <1>7
<1>13. NoRoom(type).phase = "preparing" /\ NoRoom(type).game = 0
    BY <1>7
<1> QED
    BY <1>8, <1>10, <1>11, <1>12, <1>13

\* Those in S leave the room; with the last member it is over.
LEMMA WithoutFields ==
    ASSUME NEW r, IsRoom(r), NEW S
    PROVE  /\ IsRoom(Without(r, S))
           /\ Roster(Without(r, S)) = Roster(r) \ S
           /\ Without(r, S).settings.type = r.settings.type
           /\ IF Roster(r) \ S = {}
              THEN Without(r, S).phase = "preparing" /\ Without(r, S).game = 0
              ELSE /\ Without(r, S).phase = r.phase /\ Without(r, S).game = r.game
                   /\ \A p \in Roster(r) \ S : Without(r, S).members[p] = r.members[p]
<1> DEFINE rest == Roster(r) \ S
<1>1. r.settings.type \in GameTypes
    BY RoomFields DEF Settings
<1>2. CASE rest = {}
    BY <1>1, <1>2, NoRoomFields DEF Without
<1>3. CASE rest # {}
    <2>1. Min(rest) \in rest /\ rest \subseteq Players
        BY <1>3, MinOfNaturals, RoomAssumption DEF IsRoom
    <2> DEFINE members == Restrict(r.members, rest)
               owner == IF r.owner \in S THEN Min(rest) ELSE r.owner
    <2>2. members = [p \in rest |-> r.members[p]]
        BY DEF Restrict
    <2>3. members \in [rest -> Member]
        BY <2>2, RoomFields DEF IsMap, Roster
    <2>4. owner \in Players \cup {Nobody}
        BY <2>1, RoomFields
    <2>5. Without(r, S) = [r EXCEPT !.members = members, !.owner = owner]
        BY <1>3 DEF Without
    <2>6. DOMAIN members = rest
        BY <2>2
    <2> HIDE DEF members, owner
    <2>7. r = [owner |-> r.owner, phase |-> r.phase, game |-> r.game,
               settings |-> r.settings, freeRule |-> r.freeRule, locked |-> r.locked,
               members |-> r.members, background |-> r.background, wedding |-> r.wedding]
        BY RoomFields
    <2>8. Without(r, S) = [owner |-> owner, phase |-> r.phase, game |-> r.game,
               settings |-> r.settings, freeRule |-> r.freeRule, locked |-> r.locked,
               members |-> members, background |-> r.background, wedding |-> r.wedding]
        BY <2>5, <2>7
    <2>9. Roster(Without(r, S)) = rest
        BY <2>6, <2>8 DEF Roster
    <2>10. /\ r.phase \in Phases /\ r.game \in Nat /\ r.settings \in Settings
           /\ r.freeRule \in BOOLEAN /\ r.locked \in SUBSET Seats
           /\ r.background \in Backgrounds /\ r.wedding \in Weddings
        BY RoomFields
    <2>11. Without(r, S) \in RoomsOf(rest)
        BY <2>3, <2>4, <2>8, <2>10 DEF RoomsOf
    <2> HIDE DEF rest
    <2>12. IsRoom(Without(r, S))
        BY <2>1, <2>9, <2>11 DEF IsRoom
    <2>13. \A p \in rest : Without(r, S).members[p] = r.members[p]
        BY <2>2, <2>8
    <2>14. /\ Without(r, S).settings.type = r.settings.type
           /\ Without(r, S).phase = r.phase /\ Without(r, S).game = r.game
        BY <2>8
    <2> QED
        BY <1>3, <2>9, <2>12, <2>13, <2>14 DEF rest
<1> QED
    BY <1>2, <1>3

-----------------------------------------------------------------------------
(* How players come out of a match *)

\* The account q of a player has the settlement of g besides that of p.
Payment(q, p, g) == \E result \in Results :
                       q = Append(p, [game |-> g, battle |-> g, result |-> result])

\* t is s after players came out of their matches or out of the room, some of them
\* paid for g, with battles ended or counting those who left out.
Outcome(s, t, d, g) ==
    /\ IsState(t)
    /\ t.room.settings.type = s.room.settings.type
    /\ t.room.phase \in {"preparing", "inMatch"} /\ (t.room.phase = "preparing" <=> t.room.game = 0)
    /\ Roster(t.room) \subseteq Roster(s.room)
    /\ \/ Roster(t.room) = {} /\ t.room.game = 0
       \/ /\ t.room.game = s.room.game
          /\ \A p \in Roster(t.room) : t.room.members[p].ready = s.room.members[p].ready
       \/ /\ t.room.game = 0 /\ s.room.game \notin DOMAIN t.battles
          /\ \A p \in Roster(t.room) : ~t.room.members[p].ready
    /\ \A p \in Players :
          /\ \/ t.sess[p] = s.sess[p]
             \/ /\ t.sess[p].game = 0 /\ (t.sess[p].in => s.sess[p].in)
                /\ \/ ~Delivers(d, p) \/ s.room.settings.type = "adventure"
                   \/ s.sess[p].game \notin DOMAIN t.battles
          /\ p \in Roster(t.room) => t.sess[p].in = s.sess[p].in
          /\ t.sess[p].in /\ s.room.settings.type # "adventure" /\ p \in Roster(s.room) =>
                p \in Roster(t.room)
          /\ \/ t.paid[p] = s.paid[p]
             \/ s.sess[p].game = g /\ g # 0 /\ t.sess[p].game = 0 /\ Payment(t.paid[p], s.paid[p], g)
    /\ DOMAIN t.battles \subseteq DOMAIN s.battles
    /\ \A h \in DOMAIN t.battles :
          /\ t.battles[h].type = s.battles[h].type
          /\ t.battles[h].type = "competitive" =>
                /\ t.battles[h].b.team = s.battles[h].b.team
                /\ \A p \in Roster(t.room) :
                      p \notin s.battles[h].b.departed => p \notin t.battles[h].b.departed
    /\ s.refused \subseteq t.refused

\* An account to which a settlement is added has those it had, and that one.
LEMMA AppendPayment ==
    ASSUME NEW q \in Seq(Payments), NEW x \in Payments
    PROVE  /\ Append(q, x) \in Seq(Payments)
           /\ DOMAIN Append(q, x) = DOMAIN q \cup {Len(q) + 1}
           /\ Len(q) + 1 \notin DOMAIN q
           /\ \A i \in DOMAIN q : Append(q, x)[i] = q[i]
           /\ Append(q, x)[Len(q) + 1] = x
           /\ Len(Append(q, x)) = Len(q) + 1
<1>1. Len(q) \in Nat /\ DOMAIN q = 1..Len(q)
    OBVIOUS
<1>2. Append(q, x) \in Seq(Payments) /\ DOMAIN Append(q, x) = 1..(Len(q) + 1)
    BY <1>1
<1>3. \A i \in DOMAIN q : Append(q, x)[i] = q[i]
    BY <1>1
<1>4. Append(q, x)[Len(q) + 1] = x /\ Len(Append(q, x)) = Len(q) + 1
    BY <1>1
<1>5. 1..(Len(q) + 1) = 1..Len(q) \cup {Len(q) + 1} /\ Len(q) + 1 \notin 1..Len(q)
    BY <1>1
<1> QED
    BY <1>1, <1>2, <1>3, <1>4, <1>5

\* Who has been out of a match cannot be paid for it again.
LEMMA OutcomeComposes ==
    ASSUME NEW s, NEW t, NEW u, NEW d, NEW g,
           IsState(s), Outcome(s, t, d, g), Outcome(t, u, d, g)
    PROVE  Outcome(s, u, d, g)
<1>1. /\ IsState(u) /\ u.room.settings.type = s.room.settings.type
      /\ u.room.phase \in {"preparing", "inMatch"} /\ (u.room.phase = "preparing" <=> u.room.game = 0)
      /\ Roster(u.room) \subseteq Roster(t.room) /\ Roster(t.room) \subseteq Roster(s.room)
      /\ DOMAIN u.battles \subseteq DOMAIN t.battles /\ DOMAIN t.battles \subseteq DOMAIN s.battles
    BY DEF Outcome
<1>2. \/ Roster(u.room) = {} /\ u.room.game = 0
      \/ /\ u.room.game = s.room.game
         /\ \A p \in Roster(u.room) : u.room.members[p].ready = s.room.members[p].ready
      \/ /\ u.room.game = 0 /\ s.room.game \notin DOMAIN u.battles
         /\ \A p \in Roster(u.room) : ~u.room.members[p].ready
    <2>1. CASE Roster(t.room) = {} /\ t.room.game = 0
        BY <1>1, <2>1 DEF Outcome
    <2>2. CASE /\ t.room.game = s.room.game
               /\ \A p \in Roster(t.room) : t.room.members[p].ready = s.room.members[p].ready
        <3>1. CASE Roster(u.room) = {} /\ u.room.game = 0
            BY <3>1
        <3>2. CASE /\ u.room.game = t.room.game
                   /\ \A p \in Roster(u.room) : u.room.members[p].ready = t.room.members[p].ready
            BY <1>1, <2>2, <3>2
        <3>3. CASE /\ u.room.game = 0 /\ t.room.game \notin DOMAIN u.battles
                   /\ \A p \in Roster(u.room) : ~u.room.members[p].ready
            BY <2>2, <3>3
        <3> QED
            BY <3>1, <3>2, <3>3 DEF Outcome
    <2>3. CASE /\ t.room.game = 0 /\ s.room.game \notin DOMAIN t.battles
               /\ \A p \in Roster(t.room) : ~t.room.members[p].ready
        <3>1. CASE Roster(u.room) = {} /\ u.room.game = 0
            BY <3>1
        <3>2. CASE /\ u.room.game = t.room.game
                   /\ \A p \in Roster(u.room) : u.room.members[p].ready = t.room.members[p].ready
            BY <1>1, <2>3, <3>2
        <3>3. CASE /\ u.room.game = 0 /\ t.room.game \notin DOMAIN u.battles
                   /\ \A p \in Roster(u.room) : ~u.room.members[p].ready
            BY <1>1, <2>3, <3>3
        <3> QED
            BY <3>1, <3>2, <3>3 DEF Outcome
    <2> QED
        BY <2>1, <2>2, <2>3 DEF Outcome
<1>3. ASSUME NEW p \in Players
      PROVE  /\ \/ u.sess[p] = s.sess[p]
                \/ /\ u.sess[p].game = 0 /\ (u.sess[p].in => s.sess[p].in)
                   /\ \/ ~Delivers(d, p) \/ s.room.settings.type = "adventure"
                      \/ s.sess[p].game \notin DOMAIN u.battles
             /\ p \in Roster(u.room) => u.sess[p].in = s.sess[p].in
             /\ u.sess[p].in /\ s.room.settings.type # "adventure" /\ p \in Roster(s.room) =>
                   p \in Roster(u.room)
             /\ \/ u.paid[p] = s.paid[p]
                \/ s.sess[p].game = g /\ g # 0 /\ u.sess[p].game = 0 /\ Payment(u.paid[p], s.paid[p], g)
    <2>1. /\ \/ t.sess[p] = s.sess[p]
             \/ /\ t.sess[p].game = 0 /\ (t.sess[p].in => s.sess[p].in)
                /\ \/ ~Delivers(d, p) \/ s.room.settings.type = "adventure"
                   \/ s.sess[p].game \notin DOMAIN t.battles
          /\ p \in Roster(t.room) => t.sess[p].in = s.sess[p].in
          /\ t.sess[p].in /\ s.room.settings.type # "adventure" /\ p \in Roster(s.room) =>
                p \in Roster(t.room)
          /\ \/ t.paid[p] = s.paid[p]
             \/ s.sess[p].game = g /\ g # 0 /\ t.sess[p].game = 0 /\ Payment(t.paid[p], s.paid[p], g)
        BY DEF Outcome
    <2>2. /\ \/ u.sess[p] = t.sess[p]
             \/ /\ u.sess[p].game = 0 /\ (u.sess[p].in => t.sess[p].in)
                /\ \/ ~Delivers(d, p) \/ s.room.settings.type = "adventure"
                   \/ t.sess[p].game \notin DOMAIN u.battles
          /\ p \in Roster(u.room) => u.sess[p].in = t.sess[p].in
          /\ u.sess[p].in /\ s.room.settings.type # "adventure" /\ p \in Roster(t.room) =>
                p \in Roster(u.room)
          /\ \/ u.paid[p] = t.paid[p]
             \/ t.sess[p].game = g /\ g # 0 /\ u.sess[p].game = 0 /\ Payment(u.paid[p], t.paid[p], g)
        BY DEF Outcome
    <2>3. u.sess[p].in => t.sess[p].in
        BY <2>2
    <2>4. \/ u.sess[p] = s.sess[p]
          \/ /\ u.sess[p].game = 0 /\ (u.sess[p].in => s.sess[p].in)
             /\ \/ ~Delivers(d, p) \/ s.room.settings.type = "adventure"
                \/ s.sess[p].game \notin DOMAIN u.battles
        BY <1>1, <2>1, <2>2
    <2>5. \/ u.paid[p] = s.paid[p]
          \/ s.sess[p].game = g /\ g # 0 /\ u.sess[p].game = 0 /\ Payment(u.paid[p], s.paid[p], g)
        BY <2>1, <2>2
    <2> QED
        BY <1>1, <2>1, <2>2, <2>3, <2>4, <2>5
<1>4. ASSUME NEW h \in DOMAIN u.battles
      PROVE  /\ u.battles[h].type = s.battles[h].type
             /\ u.battles[h].type = "competitive" =>
                   /\ u.battles[h].b.team = s.battles[h].b.team
                   /\ \A p \in Roster(u.room) :
                         p \notin s.battles[h].b.departed => p \notin u.battles[h].b.departed
    <2>1. h \in DOMAIN t.battles
        BY <1>1
    <2>2. /\ t.battles[h].type = s.battles[h].type
          /\ t.battles[h].type = "competitive" =>
                /\ t.battles[h].b.team = s.battles[h].b.team
                /\ \A p \in Roster(t.room) :
                      p \notin s.battles[h].b.departed => p \notin t.battles[h].b.departed
        BY <2>1 DEF Outcome
    <2>3. /\ u.battles[h].type = t.battles[h].type
          /\ u.battles[h].type = "competitive" =>
                /\ u.battles[h].b.team = t.battles[h].b.team
                /\ \A p \in Roster(u.room) :
                      p \notin t.battles[h].b.departed => p \notin u.battles[h].b.departed
        BY DEF Outcome
    <2> QED
        BY <1>1, <2>2, <2>3
<1>5. s.refused \subseteq u.refused
    BY DEF Outcome
<1> QED
    BY <1>1, <1>2, <1>3, <1>4, <1>5 DEF Outcome

\* What the mail tells shrinks when a session that leaves drops it.
Fewer(m, k) ==
    /\ k \in [Players -> Seq(News)]
    /\ \A p \in Players : k[p] \in {m[p], <<>>}

\* Whatever comes out of matches in this way keeps the invariant.
LEMMA OutcomeKeepsGood ==
    ASSUME NEW s, NEW t, NEW m, NEW k, NEW d, NEW c, NEW e, NEW f, NEW x, NEW n, NEW g,
           Typed(s, m, d), Good(s, m, d, c, f, n), Outcome(s, t, d, g),
           n \in 0..MaxGames, Fewer(m, k), e \subseteq c, x \subseteq f
    PROVE  Typed(t, k, d) /\ Good(t, k, d, e, x, n)
<1>1. IsState(s) /\ IsState(t) /\ m \in [Players -> Seq(News)]
    BY DEF Typed, Outcome
<1>2. /\ t.room.settings.type = s.room.settings.type
      /\ t.room.phase \in {"preparing", "inMatch"} /\ (t.room.phase = "preparing" <=> t.room.game = 0)
      /\ Roster(t.room) \subseteq Roster(s.room)
      /\ DOMAIN t.battles \subseteq DOMAIN s.battles
    BY DEF Outcome
<1>3. \A p \in Players :
          /\ \/ t.sess[p] = s.sess[p]
             \/ /\ t.sess[p].game = 0 /\ (t.sess[p].in => s.sess[p].in)
                /\ \/ ~Delivers(d, p) \/ s.room.settings.type = "adventure"
                   \/ s.sess[p].game \notin DOMAIN t.battles
          /\ p \in Roster(t.room) => t.sess[p].in = s.sess[p].in
          /\ t.sess[p].in /\ s.room.settings.type # "adventure" /\ p \in Roster(s.room) =>
                p \in Roster(t.room)
          /\ \/ t.paid[p] = s.paid[p]
             \/ s.sess[p].game = g /\ g # 0 /\ t.sess[p].game = 0 /\ Payment(t.paid[p], s.paid[p], g)
    BY DEF Outcome
<1>4. \A h \in DOMAIN t.battles :
          /\ t.battles[h].type = s.battles[h].type
          /\ t.battles[h].type = "competitive" =>
                /\ t.battles[h].b.team = s.battles[h].b.team
                /\ \A p \in Roster(t.room) :
                      p \notin s.battles[h].b.departed => p \notin t.battles[h].b.departed
    BY DEF Outcome
<1>5. \/ Roster(t.room) = {} /\ t.room.game = 0
      \/ /\ t.room.game = s.room.game
         /\ \A p \in Roster(t.room) : t.room.members[p].ready = s.room.members[p].ready
      \/ /\ t.room.game = 0 /\ s.room.game \notin DOMAIN t.battles
         /\ \A p \in Roster(t.room) : ~t.room.members[p].ready
    BY DEF Outcome
<1>6. \A p \in Players : \A h : Started(k[p], h) => Started(m[p], h)
    <2> TAKE p \in Players
    <2> TAKE h
    <2>1. CASE k[p] = m[p]
        BY <2>1
    <2>2. CASE k[p] = <<>>
        BY <2>2 DEF Started
    <2> QED
        BY <2>1, <2>2 DEF Fewer
<1>7. \A p \in Players, h \in Games : Enters(t, k, p, h) => Enters(s, m, p, h) /\ (t.sess[p] = s.sess[p] \/ t.sess[p].game = 0)
    BY <1>3, <1>6 DEF Enters, Games
<1>8. 0 \notin Games /\ DOMAIN s.battles \subseteq Games /\ DOMAIN t.battles \subseteq Games
    BY <1>1 DEF Games, IsState
<1>9. \A p \in Players : s.sess[p].in \in BOOLEAN /\ t.sess[p].in \in BOOLEAN
    BY <1>1 DEF IsState, Sessions
<1>a. Roster(s.room) \subseteq Players /\ Roster(t.room) \subseteq Players
    BY <1>1 DEF IsState, IsRoom
<1>b. Typed(t, k, d)
    BY <1>1 DEF Typed, Fewer
<1>c. RoomSound(t, e, x, d)
    BY <1>2, <1>4 DEF Good, RoomSound
<1>d. Allocated(t, k, d, n)
    <2>1. t.room.game \in 0..n
        BY <1>5 DEF Good, Allocated
    <2>2. DOMAIN t.battles \subseteq 1..n
        BY <1>2 DEF Good, Allocated
    <2>3. ASSUME NEW p \in Players
          PROVE  t.sess[p].game \in 0..n /\ d[p].game \in 0..n
        BY <1>3 DEF Good, Allocated
    <2>4. ASSUME NEW p \in Players
          PROVE  \A i \in DOMAIN k[p] : k[p][i].game \in 1..n
        <3>1. CASE k[p] = m[p]
            BY <3>1 DEF Good, Allocated
        <3>2. CASE k[p] = <<>>
            BY <3>2
        <3> QED
            BY <3>1, <3>2 DEF Fewer
    <2>5. ASSUME NEW p \in Players
          PROVE  \A i \in DOMAIN t.paid[p] : t.paid[p][i].game \in 1..n
        <3>1. s.paid[p] \in Seq(Payments) /\ \A i \in DOMAIN s.paid[p] : s.paid[p][i].game \in 1..n
            BY <1>1 DEF Good, Allocated, IsState
        <3>2. CASE t.paid[p] = s.paid[p]
            BY <3>1, <3>2
        <3>3. CASE s.sess[p].game = g /\ g # 0 /\ Payment(t.paid[p], s.paid[p], g)
            <4>1. g \in 1..n
                BY <3>3 DEF Good, Allocated
            <4>2. PICK result \in Results : t.paid[p] = Append(s.paid[p], [game |-> g, battle |-> g, result |-> result])
                BY <3>3 DEF Payment
            <4>3. [game |-> g, battle |-> g, result |-> result] \in Payments
                BY <4>1, MatchesAssumption DEF Payments, Games
            <4> QED
                BY <3>1, <4>1, <4>2, <4>3, AppendPayment
        <3> QED
            BY <1>3, <3>2, <3>3
    <2> QED
        BY <2>1, <2>2, <2>3, <2>4, <2>5 DEF Allocated
<1>e. SessionsSound(t)
    BY <1>2, <1>3, <1>9, <1>a DEF Good, SessionsSound
<1>f. AccountsSound(t, k)
    <2> SUFFICES ASSUME NEW p \in Players
                 PROVE  /\ \A i, j \in DOMAIN t.paid[p] :
                              /\ t.paid[p][i].game = t.paid[p][j].game => i = j
                              /\ t.paid[p][i].battle = t.paid[p][i].game
                        /\ \A i \in DOMAIN t.paid[p] : ~Enters(t, k, p, t.paid[p][i].game)
        BY DEF AccountsSound
    <2>1. s.paid[p] \in Seq(Payments) /\ \A i \in DOMAIN s.paid[p] : s.paid[p][i] \in Payments
        BY <1>1 DEF IsState
    <2>2. /\ \A i, j \in DOMAIN s.paid[p] :
                /\ s.paid[p][i].game = s.paid[p][j].game => i = j
                /\ s.paid[p][i].battle = s.paid[p][i].game
          /\ \A i \in DOMAIN s.paid[p] : ~Enters(s, m, p, s.paid[p][i].game)
        BY DEF Good, AccountsSound
    <2>3. \A i \in DOMAIN s.paid[p] : s.paid[p][i].game \in Games
        BY <2>1 DEF Payments
    <2>4. \A i \in DOMAIN s.paid[p] : ~Enters(t, k, p, s.paid[p][i].game)
        BY <1>7, <2>2, <2>3
    <2>5. CASE t.paid[p] = s.paid[p]
        BY <2>2, <2>4, <2>5
    <2>6. CASE s.sess[p].game = g /\ g # 0 /\ t.sess[p].game = 0 /\ Payment(t.paid[p], s.paid[p], g)
        <3>1. g \in Games
            BY <1>1, <2>6 DEF IsState, Sessions, Games
        <3>2. PICK result \in Results : t.paid[p] = Append(s.paid[p], [game |-> g, battle |-> g, result |-> result])
            BY <2>6 DEF Payment
        <3>3. [game |-> g, battle |-> g, result |-> result] \in Payments
            BY <3>1 DEF Payments
        <3>4. Enters(s, m, p, g)
            BY <2>6 DEF Enters
        <3>5. ~Enters(t, k, p, g)
            <4>1. ~Started(m[p], g)
                BY <2>6, <3>1 DEF Good, MailSound
            <4> QED
                BY <1>6, <1>8, <2>6, <3>1, <4>1 DEF Enters
        <3> DEFINE y == [game |-> g, battle |-> g, result |-> result]
                   last == Len(s.paid[p]) + 1
        <3>6. /\ DOMAIN t.paid[p] = DOMAIN s.paid[p] \cup {last} /\ last \notin DOMAIN s.paid[p]
              /\ \A i \in DOMAIN s.paid[p] : t.paid[p][i] = s.paid[p][i]
              /\ t.paid[p][last] = y
            BY <2>1, <3>2, <3>3, AppendPayment
        <3>7. y.game = g /\ y.battle = g
            OBVIOUS
        <3> HIDE DEF y, last
        <3>8. \A i \in DOMAIN s.paid[p] : s.paid[p][i].game # g
            BY <2>2, <3>4
        <3>9. \A i, j \in DOMAIN t.paid[p] :
                  /\ t.paid[p][i].game = t.paid[p][j].game => i = j
                  /\ t.paid[p][i].battle = t.paid[p][i].game
            BY <2>2, <3>6, <3>7, <3>8
        <3>10. \A i \in DOMAIN t.paid[p] : ~Enters(t, k, p, t.paid[p][i].game)
            BY <2>4, <3>5, <3>6, <3>7
        <3> QED
            BY <3>9, <3>10
    <2> QED
        BY <1>3, <2>5, <2>6
<1>g. MailSound(t, k)
    <2> SUFFICES ASSUME NEW p \in Players, NEW h \in Games, Started(k[p], h)
                 PROVE  /\ t.sess[p].game # h
                        /\ p \in Roster(t.room) => t.sess[p].game \notin DOMAIN t.battles
        BY DEF MailSound
    <2>1. Started(m[p], h)
        BY <1>6
    <2>2. s.sess[p].game # h /\ (p \in Roster(s.room) => s.sess[p].game \notin DOMAIN s.battles)
        BY <2>1 DEF Good, MailSound
    <2>3. t.sess[p].game \in {s.sess[p].game, 0}
        BY <1>3
    <2> QED
        BY <1>2, <1>8, <2>2, <2>3
<1>h. DeliveriesSound(t, k, d)
    <2> SUFFICES ASSUME NEW p \in Players, Delivers(d, p)
                 PROVE  /\ t.sess[p].game \in {0, d[p].game}
                        /\ \A h \in Games : ~Started(k[p], h)
                        /\ p \in Roster(t.room) /\ t.room.phase = "preparing" =>
                              ~t.room.members[p].ready
        BY DEF DeliveriesSound
    <2>1. /\ s.sess[p].game \in {0, d[p].game}
          /\ \A h \in Games : ~Started(m[p], h)
          /\ p \in Roster(s.room) /\ s.room.phase = "preparing" => ~s.room.members[p].ready
        BY DEF Good, DeliveriesSound
    <2>2. s.room.phase = "preparing" <=> s.room.game = 0
        BY DEF Good, RoomSound
    <2>3. t.sess[p].game \in {0, d[p].game} /\ \A h \in Games : ~Started(k[p], h)
        BY <1>3, <1>6, <2>1
    <2>4. ASSUME p \in Roster(t.room), t.room.phase = "preparing"
          PROVE  ~t.room.members[p].ready
        BY <1>2, <1>5, <2>1, <2>2, <2>4
    <2> QED
        BY <2>3, <2>4
<1>i. MembersSound(t, k)
    <2> SUFFICES ASSUME NEW p \in Roster(t.room), NEW h \in DOMAIN t.battles, Enters(t, k, p, h)
                 PROVE  /\ t.room.game = h
                        /\ t.battles[h].type = "competitive" => p \in C!Connected(t.battles[h].b)
        BY DEF MembersSound
    <2>1. p \in Roster(s.room) /\ h \in DOMAIN s.battles /\ p \in Players /\ h \in Games
        BY <1>2, <1>8, <1>a
    <2>2. Enters(s, m, p, h)
        BY <1>7, <2>1
    <2>3. s.room.game = h /\ (s.battles[h].type = "competitive" => p \in C!Connected(s.battles[h].b))
        BY <2>1, <2>2 DEF Good, MembersSound
    <2>4. t.room.game = h
        BY <1>5, <2>3
    <2>5. ASSUME t.battles[h].type = "competitive"
          PROVE  p \in C!Connected(t.battles[h].b)
        BY <1>4, <2>3, <2>5 DEF C!Connected, C!Roster
    <2> QED
        BY <2>4, <2>5
<1>j. ResultsSound(t, d)
    <2> SUFFICES ASSUME NEW p \in Players, NEW h \in DOMAIN t.battles,
                        Delivers(d, p), d[p].game = h, t.battles[h].type = "competitive"
                 PROVE  t.sess[p].game = h /\ DOMAIN d[p].results = C!Roster(t.battles[h].b)
        BY DEF ResultsSound
    <2>1. h \in DOMAIN s.battles /\ s.battles[h].type = "competitive"
        BY <1>2, <1>4
    <2>2. s.sess[p].game = h /\ DOMAIN d[p].results = C!Roster(s.battles[h].b)
        BY <2>1 DEF Good, ResultsSound
    <2>3. s.room.settings.type # "adventure"
        BY <2>1 DEF Good, RoomSound
    <2>4. t.sess[p] = s.sess[p]
        BY <1>3, <2>2, <2>3
    <2> QED
        BY <1>4, <2>2, <2>4 DEF C!Roster
<1> QED
    BY <1>b, <1>c, <1>d, <1>e, <1>f, <1>g, <1>h, <1>i, <1>j DEF Good

-----------------------------------------------------------------------------
(* The parts of a settlement *)

\* A room that prepares or plays, as in RoomSound.
Settled(r) ==
    r.phase \in {"preparing", "inMatch"} /\ (r.phase = "preparing" <=> r.game = 0)

\* Everybody in who has a result.
Awards(results, who) == \A p \in who : results[p] \in Results

\* All results are those of a match that is over.
Final(results) == \A p \in DOMAIN results : results[p] \in Results

\* In t, everybody in who and nobody else has been paid for g since s.
Paying(s, t, who, g) ==
    /\ \A p \in who : Payment(t.paid[p], s.paid[p], g)
    /\ \A p \in Players \ who : t.paid[p] = s.paid[p]

\* In t, everybody in who and nobody else has come out of its match since s.
Releasing(s, t, who) ==
    /\ \A p \in who : t.sess[p].game = 0 /\ t.sess[p].in = s.sess[p].in
    /\ \A p \in Players \ who : t.sess[p] = s.sess[p]

\* A settlement that is refused changes nothing.
LEMMA OutcomeOfNothing ==
    ASSUME NEW s, IsState(s), Settled(s.room), NEW d, NEW g
    PROVE  Outcome(s, s, d, g)
BY DEF Outcome, Settled

\* A record made of well-formed parts is well formed.
LEMMA StateOf ==
    ASSUME NEW r, IsRoom(r), NEW S \in [Players -> Sessions],
           NEW Q \in [Players -> Seq(Payments)],
           NEW B, DOMAIN B \subseteq Games, \A g \in DOMAIN B : IsBattle(B[g]),
           NEW F \in SUBSET Games
    PROVE  IsState([room |-> r, sess |-> S, battles |-> B, paid |-> Q, refused |-> F])
BY DEF IsState

\* Pay gives everybody in who the settlement of g, and nobody else anything.
LEMMA PayFields ==
    ASSUME NEW s, IsState(s), NEW who \in SUBSET Players, NEW g \in Games, NEW results,
           Awards(results, who),
           NEW t, t = Pay(s, who, g, g, results)
    PROVE  /\ IsState(t) /\ t.room = s.room /\ t.sess = s.sess /\ t.battles = s.battles
           /\ t.refused = s.refused /\ Paying(s, t, who, g)
<1> DEFINE y(p) == [game |-> g, battle |-> g, result |-> results[p]]
           Q == [p \in Players |-> IF p \in who THEN Append(s.paid[p], y(p)) ELSE s.paid[p]]
<1>1. s.paid \in [Players -> Seq(Payments)]
    BY DEF IsState
<1>2. \A p \in who : y(p) \in Payments
    BY DEF Payments, Awards
<1>3. ASSUME NEW p \in Players
      PROVE  (IF p \in who THEN Append(s.paid[p], y(p)) ELSE s.paid[p]) \in Seq(Payments)
    <2>1. s.paid[p] \in Seq(Payments)
        BY <1>1
    <2>2. CASE p \in who
        <3>1. y(p) \in Payments
            BY <1>2, <2>2
        <3> HIDE DEF y
        <3> QED
            BY <2>1, <2>2, <3>1, AppendPayment
    <2>3. CASE p \notin who
        BY <2>1, <2>3
    <2> QED
        BY <2>2, <2>3
<1>4. Q \in [Players -> Seq(Payments)]
    BY <1>3
<1>5. Pay(s, who, g, g, results) = [s EXCEPT !.paid = Q]
    BY DEF Pay
<1>6. \A p \in Players : IF p \in who THEN Q[p] = Append(s.paid[p], y(p)) ELSE Q[p] = s.paid[p]
    OBVIOUS
<1> HIDE DEF Q
<1>7. s = [room |-> s.room, sess |-> s.sess, battles |-> s.battles, paid |-> s.paid,
           refused |-> s.refused]
    BY DEF IsState
<1>8. [s EXCEPT !.paid = Q] = [room |-> s.room, sess |-> s.sess, battles |-> s.battles, paid |-> Q,
                               refused |-> s.refused]
    BY <1>7
<1>9. t = [room |-> s.room, sess |-> s.sess, battles |-> s.battles, paid |-> Q, refused |-> s.refused]
    BY <1>5, <1>8
<1>10. /\ IsRoom(s.room) /\ s.sess \in [Players -> Sessions] /\ DOMAIN s.battles \subseteq Games
       /\ \A h \in DOMAIN s.battles : IsBattle(s.battles[h])
       /\ s.refused \in SUBSET Games
    BY DEF IsState
<1>11. IsState(t)
    BY <1>4, <1>9, <1>10, StateOf
<1>12. t.room = s.room /\ t.sess = s.sess /\ t.battles = s.battles /\ t.paid = Q
       /\ t.refused = s.refused
    BY <1>9
<1>13. \A p \in who : Payment(t.paid[p], s.paid[p], g)
    BY <1>6, <1>12 DEF Payment, Awards
<1>14. \A p \in Players \ who : t.paid[p] = s.paid[p]
    BY <1>6, <1>12
<1> QED
    BY <1>11, <1>12, <1>13, <1>14 DEF Paying

\* Released takes everybody in who out of its match, where it is.
LEMMA ReleasedFields ==
    ASSUME NEW s, IsState(s), NEW who \in SUBSET Players, NEW t, t = Released(s, who)
    PROVE  /\ IsState(t) /\ t.room = s.room /\ t.battles = s.battles /\ t.paid = s.paid
           /\ t.refused = s.refused
           /\ Releasing(s, t, who)
<1>0. /\ s = [room |-> s.room, sess |-> s.sess, battles |-> s.battles, paid |-> s.paid,
              refused |-> s.refused]
      /\ s.sess \in [Players -> Sessions] /\ IsRoom(s.room) /\ s.paid \in [Players -> Seq(Payments)]
      /\ DOMAIN s.battles \subseteq Games /\ \A h \in DOMAIN s.battles : IsBattle(s.battles[h])
      /\ s.refused \in SUBSET Games
    BY DEF IsState
<1> DEFINE T == [p \in Players |-> IF p \in who THEN [s.sess[p] EXCEPT !.game = 0, !.stage = 0]
                                  ELSE s.sess[p]]
<1>1. ASSUME NEW x \in Sessions, NEW y, y = [x EXCEPT !.game = 0, !.stage = 0]
      PROVE  y \in Sessions /\ y.game = 0 /\ y.in = x.in
    <2>1. x = [in |-> x.in, game |-> x.game, stage |-> x.stage] /\ x.in \in BOOLEAN
        BY DEF Sessions
    <2>2. y = [in |-> x.in, game |-> 0, stage |-> 0]
        BY <1>1, <2>1
    <2>3. 0 \in 0..MaxGames /\ 0 \in 0..Stages
        BY MatchesAssumption
    <2>4. [in |-> x.in, game |-> 0, stage |-> 0] \in Sessions
        BY <2>1, <2>3 DEF Sessions
    <2> QED
        BY <2>2, <2>4
<1>2. T \in [Players -> Sessions]
    BY <1>0, <1>1
<1>3. \A p \in Players : IF p \in who THEN T[p].game = 0 /\ T[p].in = s.sess[p].in
                                       ELSE T[p] = s.sess[p]
    BY <1>0, <1>1
<1>4. t = [s EXCEPT !.sess = T]
    BY DEF Released
<1> HIDE DEF T
<1>5. t = [room |-> s.room, sess |-> T, battles |-> s.battles, paid |-> s.paid, refused |-> s.refused]
    BY <1>0, <1>4
<1>6. IsState(t)
    BY <1>0, <1>2, <1>5, StateOf
<1>7. t.room = s.room /\ t.sess = T /\ t.battles = s.battles /\ t.paid = s.paid /\ t.refused = s.refused
    BY <1>5
<1> QED
    BY <1>3, <1>6, <1>7 DEF Releasing

\* The two together, as a settlement uses them.
LEMMA PaidAndReleased ==
    ASSUME NEW s, IsState(s), NEW who \in SUBSET Players, NEW g \in Games, NEW results,
           Awards(results, who),
           NEW t, t = Released(Pay(s, who, g, g, results), who)
    PROVE  /\ IsState(t) /\ t.room = s.room /\ t.battles = s.battles
           /\ t.refused = s.refused /\ Releasing(s, t, who)
           /\ Paying(s, t, who, g)
<1>1. PICK q : q = Pay(s, who, g, g, results)
    OBVIOUS
<1>2. /\ IsState(q) /\ q.room = s.room /\ q.sess = s.sess /\ q.battles = s.battles
      /\ q.refused = s.refused /\ Paying(s, q, who, g)
    BY <1>1, PayFields
<1>3. /\ IsState(t) /\ t.room = q.room /\ t.battles = q.battles /\ t.paid = q.paid
      /\ t.refused = q.refused
      /\ Releasing(q, t, who)
    BY <1>1, <1>2, ReleasedFields
<1>4. Paying(s, t, who, g)
    BY <1>2, <1>3 DEF Paying
<1>5. Releasing(s, t, who)
    BY <1>2, <1>3 DEF Releasing
<1> QED
    BY <1>2, <1>3, <1>4, <1>5

\* A completed match leaves its members, not ready, in a preparing room.
LEMMA CompletedRoom ==
    ASSUME NEW r, IsRoom(r)
    PROVE  /\ IsRoom(CompleteMatch(r)) /\ Roster(CompleteMatch(r)) = Roster(r)
           /\ CompleteMatch(r).phase = "preparing" /\ CompleteMatch(r).game = 0
           /\ CompleteMatch(r).settings = r.settings
           /\ \A p \in Roster(r) : ~CompleteMatch(r).members[p].ready
<1> DEFINE members == [p \in Roster(r) |-> [r.members[p] EXCEPT !.ready = FALSE]]
<1>1. \A p \in Roster(r) : r.members[p] \in Member
    BY RoomFields DEF IsMap, Roster
<1>2. \A p \in Roster(r) : ~members[p].ready
    BY <1>1 DEF Member
<1>3. DOMAIN members = Roster(r)
    OBVIOUS
<1>4. CompleteMatch(r) = [r EXCEPT !.phase = "preparing", !.game = 0, !.members = members]
    BY DEF CompleteMatch
<1> HIDE DEF members
<1>5. r = [owner |-> r.owner, phase |-> r.phase, game |-> r.game,
           settings |-> r.settings, freeRule |-> r.freeRule, locked |-> r.locked,
           members |-> r.members, background |-> r.background, wedding |-> r.wedding]
    BY RoomFields
<1>6. CompleteMatch(r) = [owner |-> r.owner, phase |-> "preparing", game |-> 0,
           settings |-> r.settings, freeRule |-> r.freeRule, locked |-> r.locked,
           members |-> members, background |-> r.background, wedding |-> r.wedding]
    BY <1>4, <1>5
<1>7. IsRoom(CompleteMatch(r))
    BY MatchIsRoom
<1>8. Roster(CompleteMatch(r)) = Roster(r) /\ CompleteMatch(r).members = members
    BY <1>3, <1>6 DEF Roster
<1> QED
    BY <1>2, <1>6, <1>7, <1>8

\* The battles of t are those of s; who is not in S is counted out by none of them.
Counts(s, t, S) ==
    /\ DOMAIN t.battles = DOMAIN s.battles
    /\ \A h \in DOMAIN s.battles :
          /\ t.battles[h].type = s.battles[h].type
          /\ t.battles[h].type = "competitive" =>
                /\ t.battles[h].b.team = s.battles[h].b.team
                /\ \A p \in Players \ S :
                      p \notin s.battles[h].b.departed => p \notin t.battles[h].b.departed

\* A battle whose players nobody takes out changes, or a battle is forgotten.
LEMMA BattleOutcome ==
    ASSUME NEW s, NEW t, NEW d, NEW g,
           IsState(s), Settled(s.room), IsState(t),
           t.room = s.room, t.sess = s.sess, t.paid = s.paid, s.refused \subseteq t.refused,
           \/ Counts(s, t, {})
           \/ \E h : t.battles = Drop(s.battles, h)
    PROVE  Outcome(s, t, d, g)
<1>1. /\ DOMAIN t.battles \subseteq DOMAIN s.battles
      /\ \A h \in DOMAIN t.battles :
            /\ t.battles[h].type = s.battles[h].type
            /\ t.battles[h].type = "competitive" =>
                  /\ t.battles[h].b.team = s.battles[h].b.team
                  /\ \A p \in Players :
                        p \notin s.battles[h].b.departed => p \notin t.battles[h].b.departed
    <2>1. CASE Counts(s, t, {})
        BY <2>1 DEF Counts
    <2>2. CASE \E h : t.battles = Drop(s.battles, h)
        BY <2>2 DEF Drop, Restrict
    <2> QED
        BY <2>1, <2>2
<1>2. Roster(t.room) \subseteq Players
    BY DEF IsState, IsRoom
<1> QED
    BY <1>1, <1>2 DEF Outcome, Settled

\* A settlement on behalf of actor changes nothing.
Refused(s, actor, battle, results) ==
    LET g == s.sess[actor].game
    IN  \/ g = 0 \/ ~s.sess[actor].in
        \/ actor \notin Roster(s.room) \/ ~CanBeginSettlement(s.room, g)
        \/ ~(Playing(s, g) \subseteq Payable(s, battle, results))

\* t is s after the store refused a settlement of g: nothing happened but that, and
\* in a competitive room it is noted.
Unread(s, t, g) ==
    /\ IsState(t) /\ t.room = s.room /\ t.sess = s.sess /\ t.battles = s.battles
    /\ t.paid = s.paid /\ s.refused \subseteq t.refused
    /\ s.room.settings.type # "adventure" => g \in t.refused

\* Between s and t everybody in g, and nobody else, has come out of it, with its payment.
PaysOut(s, t, g) ==
    \A p \in Players : IF p \in Playing(s, g)
                       THEN t.sess[p].game = 0 /\ Payment(t.paid[p], s.paid[p], g)
                       ELSE t.sess[p] = s.sess[p]

\* The settlement of a match, if it is not refused, pays and releases everybody in
\* it, ends its battle and completes the match of the room.
LEMMA SettleOutcome ==
    ASSUME NEW s, IsState(s), Settled(s.room), NEW d, NEW actor \in Players, NEW battle,
           NEW results, NEW unread,
           NEW g \in {0, battle}, s.sess[actor].game = g, Final(results),
           NEW t, t = Settle(s, actor, battle, results, unread)
    PROVE  /\ Outcome(s, t, d, g)
           /\ \/ Refused(s, actor, battle, results) /\ t = s
              \/ Unread(s, t, g)
              \/ t.battles = Drop(s.battles, g) /\ PaysOut(s, t, g)
<1> DEFINE members == Playing(s, g)
           done == Released(Pay(s, members, g, battle, results), members)
           rejected == Refused(s, actor, battle, results)
           noted == IF s.room.settings.type = "adventure" THEN {} ELSE {g}
<1>1. CASE rejected
    <2>1. t = s
        BY <1>1 DEF Settle, Refused
    <2> QED
        BY <1>1, <2>1, OutcomeOfNothing
<1>2. CASE ~rejected /\ g \in unread
    <2>1. g \in Games
        BY <1>2 DEF Refused, IsState, Sessions, Games
    <2>2. PICK F : F = s.refused \cup noted
        OBVIOUS
    <2>3. F \in SUBSET Games
        BY <2>1, <2>2 DEF IsState
    <2>4. t = [s EXCEPT !.refused = F]
        BY <1>2, <2>2 DEF Refused, Settle
    <2>5. t = [room |-> s.room, sess |-> s.sess, battles |-> s.battles, paid |-> s.paid,
               refused |-> F]
        BY <2>4 DEF IsState
    <2>6. /\ t.room = s.room /\ t.sess = s.sess /\ t.battles = s.battles
          /\ t.paid = s.paid /\ t.refused = F
        BY <2>5
    <2>7. IsState(t)
        BY <2>3, <2>5, StateOf DEF IsState
    <2>8. Unread(s, t, g)
        BY <2>2, <2>6, <2>7 DEF Unread
    <2>9. Counts(s, t, {})
        BY <2>6 DEF Counts
    <2>10. s.refused \subseteq t.refused
        BY <2>8 DEF Unread
    <2> QED
        BY <2>6, <2>7, <2>8, <2>9, <2>10, BattleOutcome
<1>3. CASE ~rejected /\ g \notin unread
    <2>1. /\ g = battle /\ g \in Games /\ members \subseteq Players
          /\ CanBeginSettlement(s.room, g) /\ members \subseteq DOMAIN results
        BY <1>3 DEF Refused, Payable, Playing, IsState, Sessions, Games
    <2>2. t = [done EXCEPT !.room = CompleteMatch(BeginSettlement(done.room)),
                           !.battles = Drop(done.battles, g)]
        BY <1>3 DEF Refused, Settle
    <2>3. Awards(results, members)
        BY <2>1 DEF Awards, Final
    <2>4. \A p \in Players : p \in members <=> s.sess[p].in /\ s.sess[p].game = g
        BY DEF Playing
    <2> HIDE DEF rejected, members
    <2>5. members \in SUBSET Players /\ done = Released(Pay(s, members, g, g, results), members)
        BY <2>1
    <2> HIDE DEF done
    <2>7. /\ IsState(done) /\ done.room = s.room /\ done.battles = s.battles
          /\ done.refused = s.refused
          /\ Releasing(s, done, members) /\ Paying(s, done, members, g)
        BY <2>1, <2>3, <2>5, PaidAndReleased
    <2> DEFINE begun == BeginSettlement(s.room)
               r == CompleteMatch(begun)
               B == Drop(s.battles, g)
    <2>8. IsRoom(begun) /\ Roster(begun) = Roster(s.room) /\ begun.settings = s.room.settings
        BY MatchIsRoom, MatchRosters, RoomFields DEF IsState, BeginSettlement
    <2>9. /\ IsRoom(r) /\ Roster(r) = Roster(s.room) /\ r.settings = s.room.settings
          /\ r.phase = "preparing" /\ r.game = 0
          /\ \A p \in Roster(s.room) : ~r.members[p].ready
        BY <2>8, CompletedRoom
    <2>10. DOMAIN B = DOMAIN s.battles \ {g} /\ \A h \in DOMAIN B : B[h] = s.battles[h]
        BY DEF Drop, Restrict
    <2>12. t = [done EXCEPT !.room = r, !.battles = B]
        BY <2>2, <2>7
    <2> HIDE DEF r, B
    <2>13. t = [room |-> r, sess |-> done.sess, battles |-> B, paid |-> done.paid,
                refused |-> done.refused]
        BY <2>7, <2>12 DEF IsState
    <2>14. IsState(t)
        <3>1. DOMAIN B \subseteq Games /\ \A h \in DOMAIN B : IsBattle(B[h])
            BY <2>10 DEF IsState
        <3>2. done.sess \in [Players -> Sessions] /\ done.paid \in [Players -> Seq(Payments)]
            BY <2>7 DEF IsState
        <3> QED
            BY <2>7, <2>9, <2>13, <3>1, <3>2, StateOf DEF IsState
    <2>15. t.room = r /\ t.sess = done.sess /\ t.battles = B /\ t.paid = done.paid
           /\ t.refused = done.refused
        BY <2>13
    <2>16. s.room.game = g /\ g # 0
        BY <2>1 DEF CanBeginSettlement, Games
    <2>17. /\ \A p \in members : Payment(t.paid[p], s.paid[p], g)
           /\ \A p \in Players \ members : t.paid[p] = s.paid[p]
           /\ \A p \in members : t.sess[p].game = 0 /\ t.sess[p].in = s.sess[p].in
           /\ \A p \in Players \ members : t.sess[p] = s.sess[p]
        BY <2>7, <2>15 DEF Paying, Releasing
    <2>18. ASSUME NEW p \in Players
           PROVE  /\ \/ t.sess[p] = s.sess[p]
                     \/ /\ t.sess[p].game = 0 /\ (t.sess[p].in => s.sess[p].in)
                        /\ s.sess[p].game \notin DOMAIN t.battles
                  /\ t.sess[p].in = s.sess[p].in
                  /\ \/ t.paid[p] = s.paid[p]
                     \/ s.sess[p].game = g /\ g # 0 /\ t.sess[p].game = 0 /\ Payment(t.paid[p], s.paid[p], g)
        <3>1. CASE p \in members
            BY <2>4, <2>10, <2>15, <2>16, <2>17, <3>1
        <3>2. CASE p \notin members
            BY <2>17, <3>2
        <3> QED
            BY <3>1, <3>2
    <2>19. Outcome(s, t, d, g)
        BY <2>7, <2>9, <2>10, <2>14, <2>15, <2>16, <2>18 DEF Outcome
    <2> QED
        <3>1. \A p \in Players : IF p \in members
                                 THEN t.sess[p].game = 0 /\ Payment(t.paid[p], s.paid[p], g)
                                 ELSE t.sess[p] = s.sess[p]
            BY <2>17
        <3>2. t.battles = Drop(s.battles, g)
            BY <2>15 DEF B
        <3> QED
            BY <2>19, <3>1, <3>2 DEF members, PaysOut
<1> QED
    BY <1>1, <1>2, <1>3

-----------------------------------------------------------------------------
(* The parts of a departure *)

\* In t, everybody in who and nobody else is out of the room since s.
Departed(s, t, who) ==
    /\ \A p \in who : t.sess[p] = Outside
    /\ \A p \in Players \ who : t.sess[p] = s.sess[p]

\* A session out of the room is well formed, and in no match.
LEMMA OutsideIsSession == Outside \in Sessions /\ Outside.game = 0 /\ Outside.in = FALSE
<1>1. 0 \in 0..MaxGames /\ 0 \in 0..Stages
    BY MatchesAssumption
<1> QED
    BY <1>1 DEF Outside, Sessions

\* Left takes p out of the room, and with the last member the room goes.
LEMMA LeftFields ==
    ASSUME NEW s, IsState(s), NEW p \in Players, NEW t, t = Left(s, p)
    PROVE  /\ IsState(t) /\ t.room = Without(s.room, {p}) /\ t.battles = s.battles
           /\ t.paid = s.paid /\ t.refused = s.refused
           /\ Departed(s, t, {p})
<1>1. /\ s = [room |-> s.room, sess |-> s.sess, battles |-> s.battles, paid |-> s.paid,
              refused |-> s.refused]
      /\ s.sess \in [Players -> Sessions] /\ IsRoom(s.room) /\ s.paid \in [Players -> Seq(Payments)]
      /\ DOMAIN s.battles \subseteq Games /\ \A h \in DOMAIN s.battles : IsBattle(s.battles[h])
      /\ s.refused \in SUBSET Games
    BY DEF IsState
<1>2. PICK r : r = Without(s.room, {p})
    OBVIOUS
<1>3. IsRoom(r)
    BY <1>1, <1>2, WithoutFields
<1> DEFINE T == [s.sess EXCEPT ![p] = Outside]
<1>4. T \in [Players -> Sessions]
    BY <1>1, OutsideIsSession
<1>5. T[p] = Outside /\ \A q \in Players \ {p} : T[q] = s.sess[q]
    BY <1>1
<1>6. t = [s EXCEPT !.room = r, !.sess = T]
    BY <1>2 DEF Left
<1> HIDE DEF T
<1>7. t = [room |-> r, sess |-> T, battles |-> s.battles, paid |-> s.paid, refused |-> s.refused]
    BY <1>1, <1>6
<1>8. IsState(t)
    BY <1>1, <1>3, <1>4, <1>7, StateOf
<1>9. t.room = r /\ t.sess = T /\ t.battles = s.battles /\ t.paid = s.paid /\ t.refused = s.refused
    BY <1>7
<1> QED
    BY <1>2, <1>5, <1>8, <1>9 DEF Departed

\* A departure, from a battle that counts who leaves out; in an adventure, members
\* without a session go as well.
LEMMA DepartureOutcome ==
    ASSUME NEW s, NEW t, NEW S, NEW who \in SUBSET S, NEW d, NEW g,
           IsState(s), Settled(s.room), IsState(t), t.room = Without(s.room, S),
           Departed(s, t, who), Counts(s, t, S), t.paid = s.paid /\ t.refused = s.refused,
           s.room.settings.type = "adventure" \/ (who = S /\ \A p \in S : ~Delivers(d, p))
    PROVE  Outcome(s, t, d, g)
<1>1. IsRoom(s.room)
    BY DEF IsState
<1>2. /\ Roster(t.room) = Roster(s.room) \ S
      /\ t.room.settings.type = s.room.settings.type
      /\ IF Roster(s.room) \ S = {}
         THEN t.room.phase = "preparing" /\ t.room.game = 0
         ELSE /\ t.room.phase = s.room.phase /\ t.room.game = s.room.game
              /\ \A p \in Roster(s.room) \ S : t.room.members[p] = s.room.members[p]
    BY <1>1, WithoutFields
<1>3. /\ t.room.phase \in {"preparing", "inMatch"} /\ (t.room.phase = "preparing" <=> t.room.game = 0)
      /\ \/ Roster(t.room) = {} /\ t.room.game = 0
         \/ /\ t.room.game = s.room.game
            /\ \A p \in Roster(t.room) : t.room.members[p].ready = s.room.members[p].ready
    BY <1>2 DEF Settled
<1>4. ASSUME NEW p \in Players
      PROVE  /\ \/ t.sess[p] = s.sess[p]
                \/ /\ t.sess[p].game = 0 /\ (t.sess[p].in => s.sess[p].in)
                   /\ ~Delivers(d, p) \/ s.room.settings.type = "adventure"
             /\ p \in Roster(t.room) => t.sess[p].in = s.sess[p].in
             /\ t.sess[p].in /\ s.room.settings.type # "adventure" /\ p \in Roster(s.room) =>
                   p \in Roster(t.room)
    <2>1. CASE p \in who
        BY <1>2, <2>1, OutsideIsSession DEF Departed
    <2>2. CASE p \notin who
        BY <1>2, <2>2 DEF Departed
    <2> QED
        BY <2>1, <2>2
<1>5. Roster(t.room) \subseteq Players \ S
    BY <1>1, <1>2 DEF IsRoom
<1>6. /\ DOMAIN t.battles \subseteq DOMAIN s.battles
      /\ \A h \in DOMAIN t.battles :
            /\ t.battles[h].type = s.battles[h].type
            /\ t.battles[h].type = "competitive" =>
                  /\ t.battles[h].b.team = s.battles[h].b.team
                  /\ \A p \in Roster(t.room) :
                        p \notin s.battles[h].b.departed => p \notin t.battles[h].b.departed
    BY <1>5 DEF Counts
<1> QED
    BY <1>2, <1>3, <1>4, <1>6 DEF Outcome

\* Who leaves a match can be paid for it.
LEMMA PaidOutcome ==
    ASSUME NEW s, NEW t, NEW u, NEW S \in SUBSET Players, NEW d, NEW g \in Games,
           Outcome(s, t, d, g), t.paid = s.paid, IsState(u),
           u.room = t.room, u.sess = t.sess, u.battles = t.battles, u.refused = t.refused,
           Paying(t, u, S, g), \A p \in S : s.sess[p].game = g /\ t.sess[p].game = 0
    PROVE  Outcome(s, u, d, g)
<1>1. ASSUME NEW p \in Players
      PROVE  \/ u.paid[p] = s.paid[p]
             \/ s.sess[p].game = g /\ g # 0 /\ u.sess[p].game = 0 /\ Payment(u.paid[p], s.paid[p], g)
    <2>1. CASE p \in S
        BY <2>1 DEF Paying, Games
    <2>2. CASE p \notin S
        BY <2>2 DEF Paying
    <2> QED
        BY <2>1, <2>2
<1>2. /\ u.room.settings.type = s.room.settings.type
      /\ u.room.phase \in {"preparing", "inMatch"} /\ (u.room.phase = "preparing" <=> u.room.game = 0)
      /\ Roster(u.room) \subseteq Roster(s.room)
      /\ \/ Roster(u.room) = {} /\ u.room.game = 0
         \/ /\ u.room.game = s.room.game
            /\ \A p \in Roster(u.room) : u.room.members[p].ready = s.room.members[p].ready
         \/ /\ u.room.game = 0 /\ s.room.game \notin DOMAIN u.battles
            /\ \A p \in Roster(u.room) : ~u.room.members[p].ready
    BY SMTT(30) DEF Outcome
<1>3. \A p \in Players :
         /\ \/ u.sess[p] = s.sess[p]
            \/ /\ u.sess[p].game = 0 /\ (u.sess[p].in => s.sess[p].in)
               /\ \/ ~Delivers(d, p) \/ s.room.settings.type = "adventure"
                  \/ s.sess[p].game \notin DOMAIN u.battles
         /\ p \in Roster(u.room) => u.sess[p].in = s.sess[p].in
         /\ u.sess[p].in /\ s.room.settings.type # "adventure" /\ p \in Roster(s.room) =>
               p \in Roster(u.room)
    BY SMTT(30) DEF Outcome
<1>4. /\ DOMAIN u.battles \subseteq DOMAIN s.battles
      /\ \A h \in DOMAIN u.battles :
            /\ u.battles[h].type = s.battles[h].type
            /\ u.battles[h].type = "competitive" =>
                  /\ u.battles[h].b.team = s.battles[h].b.team
                  /\ \A p \in Roster(u.room) :
                        p \notin s.battles[h].b.departed => p \notin u.battles[h].b.departed
    BY SMTT(30) DEF Outcome
<1>5. s.refused \subseteq u.refused
    BY DEF Outcome
<1> QED
    BY <1>1, <1>2, <1>3, <1>4, <1>5 DEF Outcome

\* Forgetting a battle.
LEMMA DropFields ==
    ASSUME NEW s, IsState(s), NEW g, NEW t, t = [s EXCEPT !.battles = Drop(@, g)]
    PROVE  /\ IsState(t) /\ t.room = s.room /\ t.sess = s.sess /\ t.paid = s.paid
           /\ t.refused = s.refused
           /\ t.battles = Drop(s.battles, g)
<1>1. /\ s = [room |-> s.room, sess |-> s.sess, battles |-> s.battles, paid |-> s.paid,
              refused |-> s.refused]
      /\ s.sess \in [Players -> Sessions] /\ IsRoom(s.room) /\ s.paid \in [Players -> Seq(Payments)]
      /\ DOMAIN s.battles \subseteq Games /\ \A h \in DOMAIN s.battles : IsBattle(s.battles[h])
    BY DEF IsState
<1>2. PICK B : B = Drop(s.battles, g)
    OBVIOUS
<1>3. DOMAIN B \subseteq Games /\ \A h \in DOMAIN B : IsBattle(B[h])
    BY <1>1, <1>2 DEF Drop, Restrict
<1>4. t = [room |-> s.room, sess |-> s.sess, battles |-> B, paid |-> s.paid, refused |-> s.refused]
    BY <1>1, <1>2
<1>5. s.sess \in [Players -> Sessions] /\ IsRoom(s.room) /\ s.paid \in [Players -> Seq(Payments)]
    BY <1>1
<1>6. IsState(t)
    BY <1>3, <1>4, <1>5 DEF IsState
<1> QED
    BY <1>2, <1>4, <1>6

\* Another battle in the place of an old one.
Changed(s, g, b) == [s EXCEPT !.battles = [s.battles EXCEPT ![g].b = b]]

LEMMA ChangeFields ==
    ASSUME NEW s, IsState(s), NEW g \in DOMAIN s.battles, NEW b,
           IsBattle([type |-> s.battles[g].type, b |-> b]),
           NEW t, t = Changed(s, g, b)
    PROVE  /\ IsState(t) /\ t.room = s.room /\ t.sess = s.sess /\ t.paid = s.paid
           /\ t.refused = s.refused
           /\ DOMAIN t.battles = DOMAIN s.battles
           /\ t.battles[g] = [type |-> s.battles[g].type, b |-> b]
           /\ \A h \in DOMAIN s.battles \ {g} : t.battles[h] = s.battles[h]
<1>1. /\ s = [room |-> s.room, sess |-> s.sess, battles |-> s.battles, paid |-> s.paid,
              refused |-> s.refused]
      /\ s.sess \in [Players -> Sessions] /\ IsRoom(s.room) /\ s.paid \in [Players -> Seq(Payments)]
      /\ DOMAIN s.battles \subseteq Games /\ \A h \in DOMAIN s.battles : IsBattle(s.battles[h])
    BY DEF IsState
<1>2. PICK B : B = [s.battles EXCEPT ![g].b = b]
    OBVIOUS
<1>3. t = [s EXCEPT !.battles = B]
    BY <1>2 DEF Changed
<1>4. PICK x : x = [s.battles[g] EXCEPT !.b = b]
    OBVIOUS
<1>5. x = [type |-> s.battles[g].type, b |-> b]
    BY <1>1, <1>4 DEF IsBattle
<1>6. DOMAIN B = DOMAIN s.battles /\ B[g] = x /\ \A h \in DOMAIN s.battles \ {g} : B[h] = s.battles[h]
    BY <1>4, <1>2
<1>7. DOMAIN B \subseteq Games /\ \A h \in DOMAIN B : IsBattle(B[h])
    BY <1>1, <1>5, <1>6
<1>8. t = [room |-> s.room, sess |-> s.sess, battles |-> B, paid |-> s.paid, refused |-> s.refused]
    BY <1>1, <1>3
<1>9. IsState(t)
    <2>1. s.sess \in [Players -> Sessions] /\ IsRoom(s.room) /\ s.paid \in [Players -> Seq(Payments)]
        BY <1>1
    <2> QED
        <3>1. t.room = s.room /\ t.sess = s.sess /\ t.paid = s.paid /\ t.refused = s.refused
              /\ t.battles = B
            BY <1>8
        <3>2. t = [room |-> t.room, sess |-> t.sess, battles |-> t.battles, paid |-> t.paid,
                   refused |-> t.refused]
            BY <1>8
        <3>3. DOMAIN t.battles \subseteq Games /\ \A h \in DOMAIN t.battles : IsBattle(t.battles[h])
            BY <1>7, <3>1
        <3> QED
            BY <2>1, <3>1, <3>2, <3>3 DEF IsState
<1>10. t.room = s.room /\ t.sess = s.sess /\ t.paid = s.paid /\ t.refused = s.refused /\ t.battles = B
    BY <1>8
<1> QED
    BY <1>5, <1>6, <1>9, <1>10

-----------------------------------------------------------------------------
(* What a report does to a competitive battle *)

\* x is the battle b later: nobody but those in S has been counted out, and what is
\* concluded stays concluded.
Kept(b, x, S) ==
    /\ BattleFields \subseteq DOMAIN x /\ x.rule = b.rule /\ x.team = b.team
    /\ x.departed \subseteq b.departed \cup S
    /\ b.concluded => x.concluded

\* The battles of these matches: a permanent death, no bases, no durability.
IsFight(b) == BattleFields \subseteq DOMAIN b /\ b.rule \in {"elimination", "boss"}

\* The updates the operations are made of.
LEMMA KeptUpdates ==
    ASSUME NEW b, IsFight(b)
    PROVE  /\ Kept(b, b, {})
           /\ \A p : Kept(b, C!Fall(b, p), {})
           /\ Kept(b, C!Conclude(b), {})
           /\ \A t : Kept(b, C!Award(b, t), {})
           /\ \A x : Kept(b, [b EXCEPT !.arbitrator = x], {})
           /\ \A x : Kept(b, [b EXCEPT !.grace = x], {})
           /\ \A x : Kept(b, [b EXCEPT !.woken = x], {})
           /\ \A x : Kept(b, [b EXCEPT !.bosses = x], {})
           /\ \A p : Kept(b, [b EXCEPT !.departed = @ \cup {p}], {p})
<1>1. \A p : Kept(b, C!Fall(b, p), {})
    BY DEF IsFight, Kept, BattleFields, C!Fall, C!Clear
<1>2. Kept(b, C!Conclude(b), {})
    BY DEF IsFight, Kept, BattleFields, C!Conclude
<1>3. \A t : Kept(b, C!Award(b, t), {})
    BY DEF IsFight, Kept, BattleFields, C!Award
<1> QED
    BY <1>1, <1>2, <1>3 DEF IsFight, Kept, BattleFields

\* One after the other.
LEMMA KeptComposes ==
    ASSUME NEW b, NEW x, NEW y, NEW S, NEW T, NEW R, Kept(b, x, S), Kept(x, y, T),
           S \subseteq R, T \subseteq R
    PROVE  Kept(b, y, R)
BY DEF Kept

\* What is kept of a battle that fights is a battle that fights.
LEMMA KeptFights ==
    ASSUME NEW b, NEW x, NEW S, IsFight(b), Kept(b, x, S)
    PROVE  IsFight(x)
BY DEF Kept, IsFight

\* Deaths, the end of the boss, the end of a grace and the clock.
LEMMA ReportsKeep ==
    ASSUME NEW b, IsFight(b), NEW p
    PROVE  /\ Kept(b, C!RecordDeath(b, p), {})
           /\ Kept(b, C!RecordGraceDeath(b, p), {})
           /\ Kept(b, C!RecordBossDeath(b, p), {})
           /\ Kept(b, C!ConcludeTimeout(b), {})
<1>1. Kept(b, b, {}) /\ Kept(b, C!Fall(b, p), {})
    BY KeptUpdates
<1>2. PICK fallen : fallen = C!Fall(b, p)
    OBVIOUS
<1>3. IsFight(fallen) /\ Kept(b, fallen, {})
    BY <1>1, <1>2, KeptFights
<1>4. Kept(b, C!RecordDeath(b, p), {})
    <2>1. Kept(b, C!ConcludeElimination(fallen), {})
        <3>1. Kept(fallen, C!Conclude(fallen), {})
            BY <1>3, KeptUpdates
        <3>2. Kept(b, C!Conclude(fallen), {})
            BY <1>3, <3>1, KeptComposes
        <3> QED
            BY <1>3, <3>2 DEF C!ConcludeElimination
    <2>2. C!RecordDeath(b, p) \in {b, C!ConcludeElimination(fallen)}
        BY <1>2 DEF C!RecordDeath, C!Timed, IsFight
    <2> QED
        BY <1>1, <2>1, <2>2
<1>5. Kept(b, C!RecordGraceDeath(b, p), {})
    <2>1. Kept(fallen, [fallen EXCEPT !.woken = TRUE], {})
        BY <1>3, KeptUpdates
    <2>2. Kept(b, C!Wake(fallen), {})
        BY <1>3, <2>1, KeptComposes DEF C!Wake
    <2> QED
        BY <1>1, <1>2, <2>2 DEF C!RecordGraceDeath
<1>6. Kept(b, C!RecordBossDeath(b, p), {})
    <2>1. PICK rest : rest = [b EXCEPT !.bosses = @ \ {p}]
        OBVIOUS
    <2>2. Kept(b, rest, {}) /\ IsFight(rest)
        <3>1. PICK bosses : bosses = b.bosses \ {p}
            OBVIOUS
        <3>2. rest = [b EXCEPT !.bosses = bosses]
            BY <2>1, <3>1
        <3> QED
            BY <3>2, KeptUpdates, KeptFights
    <2>3. PICK over : over = C!Award(rest, CHOOSE t \in C!TeamsOf(b) : TRUE)
        OBVIOUS
    <2>4. Kept(rest, over, {}) /\ IsFight(over)
        BY <2>2, <2>3, KeptUpdates, KeptFights
    <2>5. Kept(over, [over EXCEPT !.grace = TRUE], {})
        BY <2>4, KeptUpdates
    <2>6. Kept(b, over, {})
        BY <2>2, <2>4, KeptComposes
    <2>7. Kept(b, [over EXCEPT !.grace = TRUE], {})
        BY <2>5, <2>6, KeptComposes
    <2>8. C!RecordBossDeath(b, p) \in {b, rest, [over EXCEPT !.grace = TRUE]}
        BY <2>1, <2>3 DEF C!RecordBossDeath
    <2> QED
        BY <1>1, <2>2, <2>7, <2>8
<1>7. Kept(b, C!ConcludeTimeout(b), {})
    <2>1. C!ConcludeTank(b) = b
        BY DEF C!ConcludeTank, IsFight
    <2>2. CASE b.concluded
        <3>1. C!ConcludeTimeout(b) \in {b, [b EXCEPT !.woken = TRUE]}
            BY <2>2 DEF C!ConcludeTimeout
        <3> QED
            BY <1>1, <3>1, KeptUpdates
    <2>3. CASE ~b.concluded
        <3>1. PICK dead : dead = [b EXCEPT !.alive = {}, !.trapped = {}, !.dying = {}]
            OBVIOUS
        <3>2. Kept(b, dead, {}) /\ IsFight(dead)
            BY <3>1 DEF IsFight, Kept, BattleFields
        <3>3. C!ConcludeTimeout(b) \in {C!Conclude(dead), C!Award(b, C!Draw)}
            BY <2>1, <2>3, <3>1 DEF C!ConcludeTimeout, IsFight
        <3>4. Kept(b, C!Conclude(dead), {})
            BY <3>2, KeptUpdates, KeptComposes
        <3> QED
            BY <3>3, <3>4, KeptUpdates
    <2> QED
        BY <2>2, <2>3
<1> QED
    BY <1>4, <1>5, <1>6, <1>7

\* A departure counts who leaves out, and nobody else.
LEMMA DeparturesKeep ==
    ASSUME NEW b, IsFight(b), NEW p
    PROVE  /\ Kept(b, C!RecordDeparture(b, p), {p})
           /\ Kept(b, C!RecordGraceDeparture(b, p), {p})
<1> DEFINE left == [C!Fall(b, p) EXCEPT !.departed = @ \cup {p}]
<1>1. Kept(b, left, {p}) /\ IsFight(left)
    <2>1. PICK fallen : fallen = C!Fall(b, p)
        OBVIOUS
    <2>2. IsFight(fallen) /\ Kept(b, fallen, {})
        BY <2>1, KeptUpdates, KeptFights
    <2>3. Kept(fallen, left, {p})
        BY <2>1, <2>2, KeptUpdates
    <2> HIDE DEF left
    <2> QED
        BY <2>2, <2>3, KeptComposes, KeptFights
<1>2. C!RecordDeparture(b, p) =
          LET rest == C!Connected(left)
              teams == C!ConnectedTeams(left)
          IN  IF b.concluded \/ p \in b.departed THEN b
              ELSE IF rest = {} THEN C!AfterDeparture([left EXCEPT !.arbitrator = C!Nobody])
              ELSE IF p # b.arbitrator THEN C!AfterDeparture(left)
              ELSE IF C!Arbitrators(b, rest) = {}
              THEN [C!Award(left, IF C!Cardinality(teams) = 1 THEN CHOOSE t \in teams : TRUE ELSE C!Draw)
                      EXCEPT !.arbitrator = C!Nobody]
              ELSE C!AfterDeparture([left EXCEPT !.arbitrator = C!SelectArbitrator(b, p, rest)])
    BY DEF C!RecordDeparture
<1>3. C!RecordGraceDeparture(b, p) = IF b.grace THEN C!Wake(left) ELSE b
    BY DEF C!RecordGraceDeparture
<1> HIDE DEF left
<1>4. Kept(b, b, {p})
    BY DEF Kept, IsFight
<1>5. ASSUME NEW x, Kept(left, x, {})
      PROVE  Kept(b, x, {p})
    BY <1>1, <1>5, KeptComposes
<1>6. ASSUME NEW x, IsFight(x)
      PROVE  Kept(x, C!AfterDeparture(x), {})
    <2>1. C!ConcludeTank(x) = x
        BY <1>6 DEF C!ConcludeTank, IsFight
    <2>2. Kept(x, x, {})
        BY <1>6, KeptUpdates
    <2>3. ASSUME NEW y, NEW a, Kept(x, y, {})
          PROVE  Kept(x, [y EXCEPT !.arbitrator = a], {})
        <3>1. IsFight(y)
            BY <1>6, <2>3, KeptFights
        <3>2. Kept(y, [y EXCEPT !.arbitrator = a], {})
            BY <3>1, KeptUpdates
        <3> QED
            BY <2>3, <3>2, KeptComposes
    <2>4. Kept(x, C!Conclude(x), {}) /\ \A t : Kept(x, C!Award(x, t), {})
        BY <1>6, KeptUpdates
    <2>5. PICK t : t = IF C!ConnectedTeams(x) = {} THEN C!Draw
                       ELSE CHOOSE u \in C!ConnectedTeams(x) : TRUE
        OBVIOUS
    <2>6. C!AfterDeparture(x) \in {x, C!ConcludeTank(x), [C!Conclude(x) EXCEPT !.arbitrator = C!Nobody],
                                   [C!Award(x, t) EXCEPT !.arbitrator = C!Nobody]}
        BY <2>5 DEF C!AfterDeparture
    <2> QED
        BY <2>1, <2>2, <2>3, <2>4, <2>6
<1>7. Kept(b, C!RecordGraceDeparture(b, p), {p})
    <2>1. C!RecordGraceDeparture(b, p) \in {b, left, [left EXCEPT !.woken = TRUE]}
        BY <1>3 DEF C!Wake
    <2>2. Kept(left, [left EXCEPT !.woken = TRUE], {})
        BY <1>1, KeptUpdates
    <2> QED
        BY <1>1, <1>4, <1>5, <2>1, <2>2
<1>8. Kept(b, C!RecordDeparture(b, p), {p})
    <2>1. ASSUME NEW a
          PROVE  Kept(b, C!AfterDeparture([left EXCEPT !.arbitrator = a]), {p})
        <3>1. PICK x : x = [left EXCEPT !.arbitrator = a]
            OBVIOUS
        <3>2. Kept(left, x, {}) /\ IsFight(x)
            BY <1>1, <3>1, KeptUpdates, KeptFights
        <3>3. Kept(x, C!AfterDeparture(x), {})
            BY <1>6, <3>2
        <3>4. Kept(left, C!AfterDeparture(x), {})
            BY <3>2, <3>3, KeptComposes
        <3> QED
            BY <1>5, <3>1, <3>4
    <2>2. Kept(b, C!AfterDeparture(left), {p})
        BY <1>1, <1>5, <1>6
    <2>3. ASSUME NEW t
          PROVE  Kept(b, [C!Award(left, t) EXCEPT !.arbitrator = C!Nobody], {p})
        <3>1. PICK x : x = C!Award(left, t)
            OBVIOUS
        <3>2. Kept(left, x, {}) /\ IsFight(x)
            BY <1>1, <3>1, KeptUpdates, KeptFights
        <3>3. Kept(x, [x EXCEPT !.arbitrator = C!Nobody], {})
            BY <3>2, KeptUpdates
        <3>4. Kept(left, [x EXCEPT !.arbitrator = C!Nobody], {})
            BY <3>2, <3>3, KeptComposes
        <3> QED
            BY <1>5, <3>1, <3>4
    <2>4. PICK t : t = IF C!Cardinality(C!ConnectedTeams(left)) = 1
                       THEN CHOOSE u \in C!ConnectedTeams(left) : TRUE ELSE C!Draw
        OBVIOUS
    <2>5. PICK a : a = C!SelectArbitrator(b, p, C!Connected(left))
        OBVIOUS
    <2> DEFINE x1 == C!AfterDeparture([left EXCEPT !.arbitrator = C!Nobody])
               x2 == C!AfterDeparture(left)
               x3 == [C!Award(left, t) EXCEPT !.arbitrator = C!Nobody]
               x4 == C!AfterDeparture([left EXCEPT !.arbitrator = a])
    <2>6. C!RecordDeparture(b, p) =
              IF b.concluded \/ p \in b.departed THEN b
              ELSE IF C!Connected(left) = {} THEN x1
              ELSE IF p # b.arbitrator THEN x2
              ELSE IF C!Arbitrators(b, C!Connected(left)) = {} THEN x3 ELSE x4
        BY <1>2, <2>4, <2>5
    <2>7. Kept(b, x1, {p}) /\ Kept(b, x2, {p}) /\ Kept(b, x3, {p}) /\ Kept(b, x4, {p})
        BY <2>1, <2>2, <2>3
    <2> HIDE DEF x1, x2, x3, x4
    <2> QED
        BY <1>4, <2>6, <2>7
<1> QED
    BY <1>7, <1>8

-----------------------------------------------------------------------------
(* The end of a match *)

\* What remains of a match is settled by a session that is in it, or forgotten.
LEMMA SettleOrForgetOutcome ==
    ASSUME NEW s, IsState(s), Settled(s.room), NEW d, NEW g, NEW results, NEW unread,
           Final(results),
           NEW t, t = SettleOrForget(s, g, results, unread)
    PROVE  /\ Outcome(s, t, d, g)
           /\ \/ \E actor \in Playing(s, g) : Refused(s, actor, g, results) /\ t = s
              \/ Unread(s, t, g)
              \/ t.battles = Drop(s.battles, g) /\ PaysOut(s, t, g)
<1>1. CASE Playing(s, g) = {}
    <2>1. t = [s EXCEPT !.battles = Drop(@, g)]
        BY <1>1 DEF SettleOrForget
    <2>2. /\ IsState(t) /\ t.room = s.room /\ t.sess = s.sess /\ t.paid = s.paid
          /\ t.refused = s.refused
          /\ t.battles = Drop(s.battles, g)
        BY <2>1, DropFields
    <2>3. Outcome(s, t, d, g)
        BY <2>2, BattleOutcome
    <2> QED
        BY <1>1, <2>2, <2>3 DEF PaysOut
<1>2. CASE Playing(s, g) # {}
    <2>1. PICK actor : actor = Min(Playing(s, g))
        OBVIOUS
    <2>2. actor \in Playing(s, g) /\ actor \in Players /\ s.sess[actor].game = g
        <3>1. Playing(s, g) \in SUBSET Nat
            BY RoomAssumption DEF Playing
        <3>2. Min(Playing(s, g)) \in Playing(s, g)
            BY <1>2, <3>1, MinOfNaturals
        <3> QED
            BY <2>1, <3>2 DEF Playing
    <2>3. t = Settle(s, actor, g, results, unread)
        BY <1>2, <2>1 DEF SettleOrForget
    <2>4. /\ Outcome(s, t, d, g)
          /\ \/ Refused(s, actor, g, results) /\ t = s
             \/ Unread(s, t, g)
             \/ t.battles = Drop(s.battles, g) /\ PaysOut(s, t, g)
        BY <2>2, <2>3, SettleOutcome
    <2> QED
        BY <2>2, <2>4
<1> QED
    BY <1>1, <1>2

\* The settlement of a competitive match that is still registered is never refused:
\* whoever is in it is a member of the room that plays it, and has a result.
LEMMA SettlementSucceeds ==
    ASSUME NEW s, NEW m, NEW d, NEW c, NEW f, NEW n, Typed(s, m, d), Good(s, m, d, c, f, n),
           n \in 0..MaxGames, NEW g \in DOMAIN s.battles, s.battles[g].type = "competitive",
           NEW actor \in Playing(s, g), NEW results, DOMAIN results = C!Roster(s.battles[g].b)
    PROVE  ~Refused(s, actor, g, results)
<1>1. ASSUME NEW p \in Playing(s, g)
      PROVE  /\ s.sess[p].in /\ s.sess[p].game = g /\ p \in Roster(s.room) /\ p \in Players
             /\ s.room.game = g /\ p \in C!Roster(s.battles[g].b)
    <2>1. p \in Players /\ s.sess[p].in /\ s.sess[p].game = g
        BY DEF Playing
    <2>2. s.room.settings.type # "adventure"
        BY DEF Good, RoomSound
    <2>3. p \in Roster(s.room)
        BY <2>1, <2>2 DEF Good, SessionsSound
    <2>4. s.room.game = g /\ p \in C!Connected(s.battles[g].b)
        BY <2>1, <2>3 DEF Good, MembersSound, Enters
    <2> QED
        BY <2>1, <2>3, <2>4 DEF C!Connected
<1>2. g \in Games /\ g # 0
    BY DEF Typed, IsState, Games
<1>3. CanBeginSettlement(s.room, g)
    BY <1>1, <1>2 DEF Good, RoomSound, CanBeginSettlement
<1>4. Playing(s, g) \subseteq Payable(s, g, results)
    BY <1>1 DEF Payable
<1> QED
    BY <1>1, <1>2, <1>3, <1>4 DEF Refused

\* Between s and t, whoever came out of a running competitive match was paid for it.
Pays(s, t) ==
    \A p \in Players : \A g \in DOMAIN s.battles :
        s.battles[g].type = "competitive" /\ s.sess[p].game = g /\ t.sess[p].game # g =>
            Payment(t.paid[p], s.paid[p], g)

\* Where no session moves, nobody has to be paid.
LEMMA NobodyMoves ==
    ASSUME NEW s, NEW t, t.sess = s.sess
    PROVE  Pays(s, t)
BY DEF Pays

\* A settlement pays everybody it takes out.
LEMMA PaysOutPays ==
    ASSUME NEW s, IsState(s), SessionsSound(s), NEW t, NEW g, PaysOut(s, t, g)
    PROVE  Pays(s, t)
<1> SUFFICES ASSUME NEW p \in Players, NEW h \in DOMAIN s.battles,
                    s.sess[p].game = h, t.sess[p].game # h
             PROVE  Payment(t.paid[p], s.paid[p], h)
    BY DEF Pays
<1>1. h # 0
    BY DEF IsState, Games
<1>2. s.sess[p].in
    BY <1>1 DEF SessionsSound
<1>3. CASE h = g
    BY <1>2, <1>3 DEF PaysOut, Playing
<1>4. CASE h # g
    BY <1>4 DEF PaysOut, Playing
<1> QED
    BY <1>3, <1>4

\* Nor is there anything to pay for the second time in two steps.
LEMMA PaysComposes ==
    ASSUME NEW s, NEW t, NEW u, NEW d, NEW g, IsState(s), Outcome(s, t, d, g), Outcome(t, u, d, g),
           DOMAIN t.battles = DOMAIN s.battles, Pays(s, t), Pays(t, u)
    PROVE  Pays(s, u)
<1> SUFFICES ASSUME NEW p \in Players, NEW h \in DOMAIN s.battles, s.battles[h].type = "competitive",
                    s.sess[p].game = h, u.sess[p].game # h
             PROVE  Payment(u.paid[p], s.paid[p], h)
    BY DEF Pays
<1>1. h # 0
    BY DEF IsState, Games
<1>2. t.battles[h].type = "competitive"
    BY DEF Outcome
<1>3. /\ t.sess[p] = s.sess[p] \/ t.sess[p].game = 0
      /\ t.paid[p] = s.paid[p] \/ t.sess[p].game = 0
      /\ u.paid[p] = t.paid[p] \/ (t.sess[p].game = g /\ g # 0)
    BY DEF Outcome
<1>4. CASE t.sess[p].game = h
    <2>1. t.paid[p] = s.paid[p]
        BY <1>1, <1>3, <1>4
    <2>2. Payment(u.paid[p], t.paid[p], h)
        BY <1>2, <1>4 DEF Pays
    <2> QED
        BY <2>1, <2>2
<1>5. CASE t.sess[p].game # h
    <2>1. Payment(t.paid[p], s.paid[p], h)
        BY <1>5 DEF Pays
    <2>2. u.paid[p] = t.paid[p]
        BY <1>3, <1>5
    <2> QED
        BY <2>1, <2>2
<1> QED
    BY <1>4, <1>5

\* The battles besides g have an end.
EndsBut(s, d, c, g) ==
    \A h \in DOMAIN s.battles \ {g} : s.battles[h].type = "competitive" =>
        \/ h \in s.refused
        \/ h \in c /\ ~s.battles[h].b.concluded
        \/ \E p \in Players : Delivers(d, p) /\ d[p].game = h

\* The battle of g is forgotten, or the store has refused to settle it.
Over(s, t, g) ==
    /\ s.refused \subseteq t.refused
    /\ t.battles = Drop(s.battles, g) \/ (t.battles = s.battles /\ g \in t.refused)

\* They keep it when g is over, with its clock and what was to be committed of it.
LEMMA DropKeepsEnds ==
    ASSUME NEW s, NEW t, NEW d, NEW e, NEW c, NEW k, NEW g, EndsBut(s, d, c, g),
           Over(s, t, g), c \ {g} \subseteq k,
           \A p \in Players : Delivers(d, p) /\ d[p].game # g => e[p] = d[p]
    PROVE  Ends(t, e, k)
<1>1. /\ DOMAIN t.battles \subseteq DOMAIN s.battles
      /\ \A h \in DOMAIN t.battles : t.battles[h] = s.battles[h]
      /\ g \in DOMAIN t.battles => g \in t.refused
      /\ s.refused \subseteq t.refused
    BY DEF Over, Drop, Restrict
<1> QED
    BY <1>1 DEF Ends, EndsBut, Delivers

\* Adventures have no such end.
LEMMA AdventuresEnd ==
    ASSUME NEW s, NEW m, NEW d, NEW c, NEW f, NEW n, NEW e, NEW k, Good(s, m, d, c, f, n),
           s.room.settings.type = "adventure"
    PROVE  Ends(s, e, k)
BY DEF Good, RoomSound, Ends

\* Nor has anybody to be paid in the step that takes it out of one.
LEMMA AdventuresPay ==
    ASSUME NEW s, NEW t, NEW m, NEW d, NEW c, NEW f, NEW n, Good(s, m, d, c, f, n),
           s.room.settings.type = "adventure"
    PROVE  Pays(s, t)
BY DEF Good, RoomSound, Pays

-----------------------------------------------------------------------------
(* Deliveries *)

\* Some goroutines have shown what they had to show.
Hushed(d, e) ==
    /\ DOMAIN e = Players
    /\ \A p \in Players :
          \/ e[p] = d[p]
          \/ e[p] = Idle
          \/ d[p].kind = "grace" /\ e[p] = [d[p] EXCEPT !.kind = "result"]

LEMMA HushedKeepsGood ==
    ASSUME NEW s, NEW m, NEW d, NEW c, NEW f, NEW n, NEW e, Typed(s, m, d), Good(s, m, d, c, f, n),
           n \in 0..MaxGames, Hushed(d, e)
    PROVE  Typed(s, m, e) /\ Good(s, m, e, c, f, n)
<1>1. ASSUME NEW p \in Players
      PROVE  /\ IsDelivery(e[p])
             /\ e[p].game \in {0, d[p].game}
             /\ Delivers(e, p) => Delivers(d, p) /\ e[p].game = d[p].game /\ e[p].results = d[p].results
             /\ e[p].kind = "stage" => d[p].kind = "stage"
    <2>1. IsDelivery(d[p])
        BY DEF Typed
    <2>2. CASE e[p] = d[p]
        BY <2>1, <2>2 DEF Delivers
    <2>3. CASE e[p] = Idle
        BY <2>3, MatchesAssumption DEF Idle, IsDelivery, Delivers
    <2>4. CASE d[p].kind = "grace" /\ e[p] = [d[p] EXCEPT !.kind = "result"]
        <3>1. e[p] = [kind |-> "result", game |-> d[p].game, results |-> d[p].results]
            BY <2>1, <2>4 DEF IsDelivery
        <3> QED
            BY <2>1, <2>4, <3>1 DEF IsDelivery, Delivers
    <2> QED
        BY <2>2, <2>3, <2>4 DEF Hushed
<1>2. Typed(s, m, e)
    BY <1>1 DEF Typed, Hushed
<1>3. RoomSound(s, c, f, e)
    BY <1>1 DEF Good, RoomSound
<1>4. Allocated(s, m, e, n)
    <2>1. \A p \in Players : e[p].game \in 0..n
        BY <1>1 DEF Good, Allocated
    <2> QED
        BY <2>1 DEF Good, Allocated
<1>5. DeliveriesSound(s, m, e)
    BY <1>1 DEF Good, DeliveriesSound
<1>6. ResultsSound(s, e)
    BY <1>1 DEF Good, ResultsSound
<1> QED
    BY <1>2, <1>3, <1>4, <1>5, <1>6 DEF Good

\* A session that is in a running match gets something to commit of it.
LEMMA DeliverKeepsGood ==
    ASSUME NEW s, NEW m, NEW d, NEW c, NEW f, NEW n, Typed(s, m, d), Good(s, m, d, c, f, n),
           NEW r \in Players, m[r] = <<>>, NEW x, IsDelivery(x), x.kind # "idle",
           s.sess[r].game = x.game, x.game \in DOMAIN s.battles,
           s.battles[x.game].type = "competitive" =>
               x.kind # "stage" /\ DOMAIN x.results = C!Roster(s.battles[x.game].b),
           NEW e, e = [d EXCEPT ![r] = x]
    PROVE  Typed(s, m, e) /\ Good(s, m, e, c, f, n)
<1>1. DOMAIN d = Players /\ x.game # 0
    BY DEF Typed, IsState, Games
<1>2. e[r] = x /\ DOMAIN e = Players /\ \A p \in Players \ {r} : e[p] = d[p]
    BY <1>1
<1>3. Typed(s, m, e)
    BY <1>2 DEF Typed
<1>4. RoomSound(s, c, f, e)
    <2>1. s.room.settings.type # "adventure" => s.battles[x.game].type = "competitive"
        BY DEF Good, RoomSound, Typed, IsState, IsBattle
    <2>2. s.room.settings.type # "adventure" => \A p \in Players : e[p].kind # "stage"
        BY <1>2, <2>1 DEF Good, RoomSound
    <2> QED
        BY <2>2 DEF Good, RoomSound
<1>5. Allocated(s, m, e, n)
    <2>1. \A p \in Players : e[p].game \in 0..n
        BY <1>2 DEF Good, Allocated
    <2> QED
        BY <2>1 DEF Good, Allocated
<1>6. DeliveriesSound(s, m, e)
    <2>1. \A h : ~Started(m[r], h)
        BY DEF Started
    <2>2. r \in Roster(s.room) => s.room.phase # "preparing"
        BY <1>1 DEF Good, RoomSound, MembersSound, Enters
    <2>3. ASSUME NEW p \in Players, p # r, Delivers(e, p)
          PROVE  /\ s.sess[p].game \in {0, e[p].game}
                 /\ \A h \in Games : ~Started(m[p], h)
                 /\ p \in Roster(s.room) /\ s.room.phase = "preparing" => ~s.room.members[p].ready
        BY <1>2, <2>3 DEF Good, DeliveriesSound, Delivers
    <2> QED
        BY <1>2, <2>1, <2>2, <2>3 DEF DeliveriesSound
<1>7. ResultsSound(s, e)
    <2> SUFFICES ASSUME NEW p \in Players, NEW h \in DOMAIN s.battles,
                        Delivers(e, p), e[p].game = h, s.battles[h].type = "competitive"
                 PROVE  s.sess[p].game = h /\ DOMAIN e[p].results = C!Roster(s.battles[h].b)
        BY DEF ResultsSound
    <2>1. CASE p = r
        BY <1>2, <2>1
    <2>2. CASE p # r
        BY <1>2, <2>2 DEF Good, ResultsSound, Delivers
    <2> QED
        BY <2>1, <2>2
<1> QED
    BY <1>3, <1>4, <1>5, <1>6, <1>7 DEF Good

-----------------------------------------------------------------------------
(* The steps that take players out of a match *)

Inv == TInv /\ GInv /\ EInv
\* A step keeps the invariant, and pays whom it takes out.
Keeps == Inv' /\ Pays(Now, Now')

\* What the parts of a handler on Now amount to.
LEMMA OutcomeStep ==
    ASSUME Inv, NEW t, NEW g, Outcome(Now, t, delivery, g), Become(t), Pays(Now, t),
           Ends(t, delivery', clock'), Hushed(delivery, delivery'), Fewer(mail, mail'),
           clock' \subseteq clock, games' = games,
           \/ finales' \subseteq finales
           \/ finales' \subseteq Games /\ room.settings.type = "adventure"
    PROVE  Keeps
<1>1. /\ Typed(Now, mail, delivery) /\ Good(Now, mail, delivery, clock, finales, games)
      /\ games \in 0..MaxGames /\ clock \subseteq Games /\ finales \subseteq Games
      /\ Now.room = room
    BY DEF Inv, TInv, GInv, Now
<1>2. /\ Typed(t, mail', delivery) /\ Good(t, mail', delivery, clock', finales, games)
      /\ Good(t, mail', delivery, clock', finales \cap finales', games)
    BY <1>1, OutcomeKeepsGood
<1>3. Good(t, mail', delivery, clock', finales', games)
    <2>1. CASE finales' \subseteq finales
        <3>1. finales \cap finales' = finales'
            BY <2>1
        <3> QED
            BY <1>2, <3>1
    <2>2. CASE room.settings.type = "adventure"
        <3>1. t.room.settings.type = "adventure"
            BY <1>1, <2>2 DEF Outcome
        <3>2. RoomSound(t, clock', finales', delivery)
            BY <1>2, <3>1 DEF Good, RoomSound
        <3> QED
            BY <1>2, <3>2 DEF Good
    <2> QED
        BY <2>1, <2>2
<1>4. Typed(t, mail', delivery') /\ Good(t, mail', delivery', clock', finales', games)
    BY <1>1, <1>2, <1>3, HushedKeepsGood
<1>5. t = [room |-> t.room, sess |-> t.sess, battles |-> t.battles, paid |-> t.paid,
           refused |-> t.refused]
    BY <1>4 DEF Typed, IsState
<1>6. Now' = t
    BY <1>5 DEF Now, Become
<1>7. TInv'
    BY <1>1, <1>4, <1>6 DEF TInv
<1>8. GInv'
    BY <1>4, <1>6 DEF GInv
<1>9. EInv'
    BY <1>6 DEF EInv
<1> QED
    BY <1>6, <1>7, <1>8, <1>9 DEF Keeps, Inv

\* What the invariant says of the record Now.
LEMMA NowIsState ==
    ASSUME Inv
    PROVE  /\ IsState(Now) /\ Settled(Now.room)
           /\ Now.room = room /\ Now.sess = sess /\ Now.battles = battles /\ Now.paid = paid
           /\ Now.refused = refused
           /\ Typed(Now, mail, delivery) /\ Good(Now, mail, delivery, clock, finales, games)
           /\ Ends(Now, delivery, clock)
           /\ games \in 0..MaxGames /\ Fewer(mail, mail)
           /\ \A g \in DOMAIN battles : g \in Games /\ g # 0
           /\ \A g \in Battles("competitive") :
                 g \in DOMAIN battles /\ battles[g].type = "competitive" /\ IsFight(battles[g].b)
                 /\ room.settings.type # "adventure"
           /\ \A g \in Battles("adventure") :
                 g \in DOMAIN battles /\ battles[g].type = "adventure"
                 /\ room.settings.type = "adventure"
<1>1. /\ Now.room = room /\ Now.sess = sess /\ Now.battles = battles /\ Now.paid = paid
      /\ Now.refused = refused
      /\ Typed(Now, mail, delivery) /\ Good(Now, mail, delivery, clock, finales, games)
      /\ Ends(Now, delivery, clock) /\ games \in 0..MaxGames
    BY DEF Inv, TInv, GInv, EInv, Now
<1>2. IsState(Now) /\ Settled(Now.room) /\ Fewer(mail, mail)
    BY <1>1 DEF Typed, Good, RoomSound, Settled, Fewer
<1>3. \A g \in DOMAIN battles : g \in Games /\ g # 0 /\ IsBattle(battles[g])
    BY <1>1, <1>2 DEF IsState, Games
<1>4. ASSUME NEW g \in Battles("competitive")
      PROVE  g \in DOMAIN battles /\ battles[g].type = "competitive" /\ IsFight(battles[g].b)
             /\ room.settings.type # "adventure"
    BY <1>1, <1>3 DEF Battles, IsBattle, IsFight, Good, RoomSound
<1>5. ASSUME NEW g \in Battles("adventure")
      PROVE  g \in DOMAIN battles /\ battles[g].type = "adventure" /\ room.settings.type = "adventure"
    BY <1>1 DEF Battles, Good, RoomSound
<1> QED
    BY <1>1, <1>2, <1>3, <1>4, <1>5

\* Results of a competitive battle name its players.
LEMMA VerdictIsFinal ==
    ASSUME NEW b
    PROVE  Final(Verdict(b)) /\ DOMAIN Verdict(b) = C!Roster(b)
           /\ \A p \in C!Roster(b) : Verdict(b)[p] \in Results
<1>1. \A p : C!Result(b, p) \in Results
    BY DEF C!Result, Results
<1> QED
    BY <1>1 DEF Verdict, Final

\* A handler writes the new battle with With.
LEMMA NowChanged ==
    ASSUME NEW g, NEW b
    PROVE  [Now EXCEPT !.battles = With(g, b)] = Changed(Now, g, b)
BY DEF Now, With, Changed

\* Another battle in the place of that of g; a competitive one counts nobody out.
Follows(g, b) == battles[g].type = "competitive" => Kept(battles[g].b, b, {})

LEMMA ChangedOutcome ==
    ASSUME Inv, NEW g \in DOMAIN battles, NEW b,
           Follows(g, b),
           NEW t, t = Changed(Now, g, b), NEW h
    PROVE  /\ Outcome(Now, t, delivery, h) /\ Pays(Now, t) /\ IsState(t)
           /\ t.room = room /\ t.sess = sess /\ t.paid = paid /\ t.refused = refused
           /\ DOMAIN t.battles = DOMAIN battles
           /\ t.battles[g] = [type |-> battles[g].type, b |-> b]
           /\ \A k \in DOMAIN battles \ {g} : t.battles[k] = battles[k]
<1>1. /\ IsState(Now) /\ Settled(Now.room)
      /\ Now.room = room /\ Now.sess = sess /\ Now.battles = battles /\ Now.paid = paid
      /\ Now.refused = refused
    BY NowIsState
<1>2. PICK type : type = battles[g].type
    OBVIOUS
<1>3. IsBattle([type |-> type, b |-> b])
    <2>1. IsBattle(battles[g])
        BY <1>1 DEF IsState
    <2>2. CASE type = "adventure"
        BY <2>2 DEF IsBattle
    <2>3. CASE type = "competitive"
        <3>1. IsFight(battles[g].b) /\ Kept(battles[g].b, b, {})
            BY <1>2, <2>1, <2>3 DEF IsBattle, IsFight, Follows
        <3>2. IsFight(b)
            BY <3>1, KeptFights
        <3> QED
            BY <2>3, <3>2 DEF IsBattle, IsFight
    <2> QED
        BY <1>2, <2>1, <2>2, <2>3 DEF IsBattle
<1>4. /\ IsState(t) /\ t.room = Now.room /\ t.sess = Now.sess /\ t.paid = Now.paid
      /\ t.refused = Now.refused
      /\ DOMAIN t.battles = DOMAIN Now.battles
      /\ t.battles[g] = [type |-> Now.battles[g].type, b |-> b]
      /\ \A k \in DOMAIN Now.battles \ {g} : t.battles[k] = Now.battles[k]
    <2>1. g \in DOMAIN Now.battles /\ IsBattle([type |-> Now.battles[g].type, b |-> b])
        BY <1>1, <1>2, <1>3
    <2> QED
        BY <1>1, <2>1, ChangeFields
<1>5. Counts(Now, t, {})
    BY <1>1, <1>4 DEF Counts, Kept, Follows
<1>6. Outcome(Now, t, delivery, h)
    BY <1>1, <1>4, <1>5, BattleOutcome
<1>7. Pays(Now, t)
    BY <1>4, NobodyMoves
<1> QED
    BY <1>1, <1>4, <1>6, <1>7

\* A competitive match whose battle s concludes is settled or forgotten in the same step.
LEMMA ConcludedOutcome ==
    ASSUME Inv, NEW g \in DOMAIN battles, NEW s, Outcome(Now, s, delivery, g), Pays(Now, s),
           DOMAIN s.battles = DOMAIN battles, s.battles[g].type = "competitive",
           NEW b, s.battles[g].b = b, EndsBut(s, delivery, clock, g),
           NEW unread, NEW t, t = SettleOrForget(s, g, Verdict(b), unread)
    PROVE  Outcome(Now, t, delivery, g) /\ Pays(Now, t) /\ Ends(t, delivery, clock \ {g})
<1>1. /\ IsState(Now) /\ Now.battles = battles /\ Fewer(mail, mail)
      /\ Typed(Now, mail, delivery) /\ Good(Now, mail, delivery, clock, finales, games)
      /\ games \in 0..MaxGames
    BY NowIsState
<1>2. Final(Verdict(b)) /\ DOMAIN Verdict(b) = C!Roster(b)
    BY VerdictIsFinal
<1>3. Typed(s, mail, delivery) /\ Good(s, mail, delivery, clock, finales, games)
    BY <1>1, OutcomeKeepsGood
<1>4. IsState(s) /\ Settled(s.room) /\ SessionsSound(s)
    BY <1>3 DEF Typed, Good, RoomSound, Settled
<1>5. /\ Outcome(s, t, delivery, g)
      /\ \/ \E actor \in Playing(s, g) : Refused(s, actor, g, Verdict(b)) /\ t = s
         \/ Unread(s, t, g)
         \/ t.battles = Drop(s.battles, g) /\ PaysOut(s, t, g)
    BY <1>2, <1>4, SettleOrForgetOutcome
<1>6. \A actor \in Playing(s, g) : ~Refused(s, actor, g, Verdict(b))
    BY <1>1, <1>2, <1>3, SettlementSucceeds
<1>7. Pays(s, t) /\ Over(s, t, g)
    <2>1. CASE Unread(s, t, g)
        <3>1. s.room.settings.type # "adventure"
            BY <1>3 DEF Good, RoomSound
        <3> QED
            BY <2>1, <3>1, NobodyMoves DEF Unread, Over
    <2>2. CASE t.battles = Drop(s.battles, g) /\ PaysOut(s, t, g)
        <3>1. s.refused \subseteq t.refused
            BY <1>5 DEF Outcome
        <3> QED
            BY <1>4, <2>2, <3>1, PaysOutPays DEF Over
    <2> QED
        BY <1>5, <1>6, <2>1, <2>2
<1>8. Pays(Now, t)
    BY <1>1, <1>5, <1>7, PaysComposes
<1>9. Ends(t, delivery, clock \ {g})
    BY <1>7, DropKeepsEnds
<1>10. Outcome(Now, t, delivery, g)
    BY <1>1, <1>5, OutcomeComposes
<1> QED
    BY <1>8, <1>9, <1>10

\* A battle that has an end has it with another clock as well.
LEMMA MoreClocks ==
    ASSUME NEW s, NEW d, NEW c, NEW k, Ends(s, d, c), c \subseteq k
    PROVE  Ends(s, d, k)
BY DEF Ends

\* A competitive departure.
LEMMA LeaveCompetitiveOutcome ==
    ASSUME Inv, NEW p \in Players, delivery[p] = Idle, sess[p].in,
           NEW g \in Battles("competitive"), sess[p].game = g, room.game = g,
           NEW unread, NEW t, t = LeaveCompetitive(p, g, unread)
    PROVE  Outcome(Now, t, delivery, g) /\ Pays(Now, t) /\ Ends(t, delivery, clock)
<1>1. /\ IsState(Now) /\ Settled(Now.room)
      /\ Now.room = room /\ Now.sess = sess /\ Now.battles = battles /\ Now.paid = paid
      /\ Now.refused = refused
      /\ Typed(Now, mail, delivery) /\ Good(Now, mail, delivery, clock, finales, games)
      /\ Ends(Now, delivery, clock) /\ games \in 0..MaxGames /\ Fewer(mail, mail)
      /\ g \in DOMAIN battles /\ g \in Games /\ battles[g].type = "competitive"
      /\ IsFight(battles[g].b) /\ room.settings.type # "adventure"
    BY NowIsState
<1>2. ~Delivers(delivery, p)
    BY DEF Idle, Delivers
<1>3. p \in Roster(room) /\ p \in C!Connected(battles[g].b)
    <2>1. p \in Roster(room)
        BY <1>1 DEF Good, SessionsSound
    <2> QED
        BY <1>1, <2>1 DEF Good, MembersSound, Enters
<1>4. PICK old : old = battles[g].b
    OBVIOUS
<1>5. PICK b : b = IF old.concluded THEN C!RecordGraceDeparture(old, p) ELSE C!RecordDeparture(old, p)
    OBVIOUS
<1>6. Kept(old, b, {p}) /\ IsFight(b) /\ b.team = old.team /\ p \in C!Roster(b)
    <2>1. Kept(old, b, {p})
        BY <1>1, <1>4, <1>5, DeparturesKeep
    <2> QED
        BY <1>1, <1>3, <1>4, <2>1, KeptFights DEF Kept, C!Connected, C!Roster
<1>7. PICK s1 : s1 = [Now EXCEPT !.battles = With(g, b)]
    OBVIOUS
<1>8. /\ IsState(s1) /\ s1.room = room /\ s1.sess = sess /\ s1.paid = paid /\ s1.refused = refused
      /\ DOMAIN s1.battles = DOMAIN battles
      /\ s1.battles[g] = [type |-> "competitive", b |-> b]
      /\ \A h \in DOMAIN battles \ {g} : s1.battles[h] = battles[h]
    <2>1. IsBattle([type |-> "competitive", b |-> b])
        BY <1>6 DEF IsBattle, IsFight
    <2>2. s1 = Changed(Now, g, b)
        BY <1>7, NowChanged
    <2>3. g \in DOMAIN Now.battles /\ IsBattle([type |-> Now.battles[g].type, b |-> b])
        BY <1>1, <2>1
    <2>4. /\ IsState(s1) /\ s1.room = Now.room /\ s1.sess = Now.sess /\ s1.paid = Now.paid
          /\ s1.refused = Now.refused
          /\ DOMAIN s1.battles = DOMAIN Now.battles
          /\ s1.battles[g] = [type |-> Now.battles[g].type, b |-> b]
          /\ \A h \in DOMAIN Now.battles \ {g} : s1.battles[h] = Now.battles[h]
        BY <1>1, <2>2, <2>3, ChangeFields
    <2> QED
        BY <1>1, <2>4
<1>9. PICK s2 : s2 = Left(s1, p)
    OBVIOUS
<1>10. /\ IsState(s2) /\ s2.room = Without(room, {p}) /\ s2.battles = s1.battles
       /\ s2.paid = paid /\ s2.refused = refused
       /\ Departed(s1, s2, {p})
    BY <1>8, <1>9, LeftFields
<1>11. Counts(Now, s2, {p})
    BY <1>1, <1>4, <1>6, <1>8, <1>10 DEF Counts, Kept
<1>12. Departed(Now, s2, {p})
    BY <1>1, <1>8, <1>10 DEF Departed
<1>13. Outcome(Now, s2, delivery, g)
    BY <1>1, <1>2, <1>10, <1>11, <1>12, DepartureOutcome
<1>14. PICK result : result = IF b.concluded THEN Verdict(b) ELSE [q \in {p} |-> "loss"]
    OBVIOUS
<1>15. Awards(result, {p})
    BY <1>6, <1>14, VerdictIsFinal DEF Awards, Results
<1>16. PICK s3 : s3 = Pay(s2, {p}, g, g, result)
    OBVIOUS
<1>17. /\ IsState(s3) /\ s3.room = s2.room /\ s3.sess = s2.sess /\ s3.battles = s1.battles
       /\ s3.refused = refused /\ Paying(s2, s3, {p}, g)
    BY <1>1, <1>10, <1>15, <1>16, PayFields
<1>18. s2.sess[p].game = 0 /\ \A q \in Players \ {p} : s2.sess[q] = sess[q]
    BY <1>1, <1>12, OutsideIsSession DEF Departed
<1>19. Outcome(Now, s3, delivery, g)
    BY <1>1, <1>10, <1>13, <1>17, <1>18, PaidOutcome
<1>20. Pays(Now, s3)
    <2>1. Payment(s3.paid[p], paid[p], g)
        BY <1>10, <1>17 DEF Paying
    <2> QED
        BY <1>1, <1>17, <1>18, <2>1 DEF Pays
<1>21. EndsBut(s3, delivery, clock, g)
    BY <1>1, <1>8, <1>17 DEF Ends, EndsBut
<1>22. t = IF b.concluded /\ ~old.concluded THEN SettleOrForget(s3, g, result, unread) ELSE s3
    BY <1>4, <1>5, <1>7, <1>9, <1>14, <1>16 DEF LeaveCompetitive
<1>23. CASE ~(b.concluded /\ ~old.concluded)
    <2>1. \/ g \in refused
          \/ g \in clock /\ ~b.concluded
          \/ \E q \in Players : Delivers(delivery, q) /\ delivery[q].game = g
        BY <1>1, <1>4, <1>6, <1>23 DEF Ends, Kept
    <2>2. Ends(s3, delivery, clock)
        BY <1>8, <1>17, <1>21, <2>1 DEF Ends, EndsBut
    <2> QED
        BY <1>19, <1>20, <1>22, <1>23, <2>2
<1>24. CASE b.concluded /\ ~old.concluded
    <2>1. t = SettleOrForget(s3, g, Verdict(b), unread)
        BY <1>14, <1>22, <1>24
    <2>2. /\ DOMAIN s3.battles = DOMAIN battles
          /\ s3.battles[g].type = "competitive" /\ s3.battles[g].b = b
        BY <1>8, <1>17
    <2> QED
        <3>1. Outcome(Now, t, delivery, g) /\ Pays(Now, t) /\ Ends(t, delivery, clock \ {g})
            BY <1>1, <1>19, <1>20, <1>21, <2>1, <2>2, ConcludedOutcome, ZenonT(30)
        <3> QED
            BY <3>1, MoreClocks
<1> QED
    BY <1>23, <1>24

\* A delivery that is shown is no longer in the way of what follows it.
LEMMA ShownIsHushed ==
    ASSUME Inv, NEW p \in Players, NEW kind, kind # "idle", Shown(p, kind)
    PROVE  /\ Hushed(delivery, delivery') /\ Delivers(delivery, p)
           /\ \A q \in Players \ {p} : delivery'[q] = delivery[q]
           /\ kind = "grace" => delivery'[p].kind = "result" /\ delivery'[p].game = delivery[p].game
           /\ kind # "grace" => delivery'[p] = Idle
<1>1. DOMAIN delivery = Players /\ IsDelivery(delivery[p])
    BY NowIsState DEF Typed
<1>2. PICK x : x = IF kind = "grace" THEN [delivery[p] EXCEPT !.kind = "result"] ELSE Idle
    OBVIOUS
<1>3. delivery' = [delivery EXCEPT ![p] = x] /\ delivery[p].kind = kind
    BY <1>2 DEF Shown
<1>4. delivery'[p] = x /\ DOMAIN delivery' = Players /\ \A q \in Players \ {p} : delivery'[q] = delivery[q]
    BY <1>1, <1>3
<1>5. kind = "grace" => x.kind = "result" /\ x.game = delivery[p].game
    BY <1>1, <1>2 DEF IsDelivery
<1> QED
    BY <1>2, <1>3, <1>4, <1>5 DEF Hushed, Delivers

\* A step of an adventure has nobody to pay and no end to lose.
LEMMA AdventureStep ==
    ASSUME Inv, room.settings.type = "adventure",
           NEW t, NEW g, Outcome(Now, t, delivery, g), Become(t),
           Hushed(delivery, delivery'), Fewer(mail, mail'), clock' \subseteq clock, games' = games,
           finales' \subseteq Games
    PROVE  Keeps
<1>1. Good(Now, mail, delivery, clock, finales, games) /\ Now.room = room
    BY NowIsState
<1>2. Pays(Now, t)
    BY <1>1, AdventuresPay
<1>3. Ends(t, delivery', clock')
    <2>1. \A h \in DOMAIN t.battles : t.battles[h].type = "adventure"
        BY <1>1 DEF Good, RoomSound, Outcome
    <2> QED
        BY <2>1 DEF Ends
<1> QED
    BY <1>2, <1>3, OutcomeStep

\* The clock of a competitive match.
LEMMA TimerStep ==
    ASSUME Inv, NEW g \in Games, Timer(g)
    PROVE  Keeps
<1>1. /\ IsState(Now) /\ Settled(Now.room)
      /\ Now.room = room /\ Now.sess = sess /\ Now.battles = battles /\ Now.paid = paid
      /\ Now.refused = refused
      /\ Good(Now, mail, delivery, clock, finales, games)
      /\ Ends(Now, delivery, clock) /\ games \in 0..MaxGames /\ Fewer(mail, mail)
      /\ DOMAIN delivery = Players
    BY NowIsState DEF Typed
<1>2. /\ g \in clock /\ clock' = clock \ {g} /\ mail' = mail /\ finales' = finales
      /\ delivery' = delivery /\ games' = games
    BY DEF Timer, Rings
<1>3. Hushed(delivery, delivery')
    BY <1>1, <1>2 DEF Hushed
<1>4. ASSUME NEW t, Outcome(Now, t, delivery, g), Pays(Now, t), Ends(t, delivery, clock \ {g}), Become(t)
      PROVE  Keeps
    BY <1>1, <1>2, <1>3, <1>4, OutcomeStep
<1>5. CASE g \notin DOMAIN battles
    <2>1. Become(Now)
        BY <1>1, <1>5 DEF Timer, Become
    <2>2. Outcome(Now, Now, delivery, g) /\ Pays(Now, Now)
        BY <1>1, OutcomeOfNothing, NobodyMoves
    <2>3. Ends(Now, delivery, clock \ {g})
        BY <1>1, <1>5 DEF Ends
    <2> QED
        BY <1>4, <2>1, <2>2, <2>3
<1>6. CASE g \in DOMAIN battles
    <2>1. battles[g].type = "competitive" /\ IsFight(battles[g].b)
        <3>1. g \notin Battles("adventure")
            BY <1>1, <1>2, NowIsState DEF Good, RoomSound
        <3>2. IsBattle(battles[g])
            BY <1>1, <1>6 DEF IsState
        <3> QED
            BY <1>6, <3>1, <3>2 DEF IsBattle, Battles, IsFight
    <2>2. PICK b : b = C!ConcludeTimeout(battles[g].b)
        OBVIOUS
    <2>3. Kept(battles[g].b, b, {})
        BY <2>1, <2>2, ReportsKeep
    <2>4. PICK late : late = [Now EXCEPT !.battles = With(g, b)]
        OBVIOUS
    <2>5. late = Changed(Now, g, b)
        BY <2>4, NowChanged
    <2>6. /\ Outcome(Now, late, delivery, g) /\ Pays(Now, late) /\ IsState(late)
          /\ DOMAIN late.battles = DOMAIN battles
          /\ late.battles[g] = [type |-> battles[g].type, b |-> b]
          /\ \A h \in DOMAIN battles \ {g} : late.battles[h] = battles[h]
        BY <1>6, <2>3, <2>5, ChangedOutcome DEF Follows
    <2>7. IF battles[g].b.concluded
          THEN Become(IF Playing(Now, g) = {} THEN [Now EXCEPT !.battles = Drop(@, g)] ELSE late)
          ELSE \E unread \in SUBSET Refusals : Become(SettleOrForget(late, g, Verdict(b), unread))
        BY <1>6, <2>2, <2>4 DEF Timer
    <2>8. EndsBut(Now, delivery, clock, g) /\ EndsBut(late, delivery, clock, g)
        BY <1>1, <2>6 DEF Ends, EndsBut, Outcome
    <2>9. CASE battles[g].b.concluded /\ Playing(Now, g) = {}
        <3>1. PICK t : t = [Now EXCEPT !.battles = Drop(@, g)]
            OBVIOUS
        <3>2. /\ IsState(t) /\ t.room = Now.room /\ t.sess = Now.sess /\ t.paid = Now.paid
              /\ t.refused = Now.refused
              /\ t.battles = Drop(Now.battles, g)
            BY <1>1, <3>1, DropFields
        <3>3. Outcome(Now, t, delivery, g) /\ Pays(Now, t)
            BY <1>1, <3>2, BattleOutcome, NobodyMoves
        <3>4. Ends(t, delivery, clock \ {g})
            BY <2>8, <3>2, DropKeepsEnds DEF Over
        <3>5. Become(t)
            BY <2>7, <2>9, <3>1
        <3> QED
            BY <1>4, <3>3, <3>4, <3>5
    <2>10. CASE battles[g].b.concluded /\ Playing(Now, g) # {}
        <3>1. \/ g \in refused
              \/ \E p \in Players : Delivers(delivery, p) /\ delivery[p].game = g
            BY <1>1, <1>6, <2>1, <2>10 DEF Ends
        <3>2. Ends(late, delivery, clock \ {g})
            BY <1>1, <2>6, <2>8, <3>1 DEF Ends, EndsBut, Outcome
        <3>3. Become(late)
            BY <2>7, <2>10
        <3> QED
            BY <1>4, <2>6, <3>2, <3>3
    <2>11. CASE ~battles[g].b.concluded
        <3>1. PICK unread \in SUBSET Refusals : Become(SettleOrForget(late, g, Verdict(b), unread))
            BY <2>7, <2>11
        <3>2. PICK t : t = SettleOrForget(late, g, Verdict(b), unread)
            OBVIOUS
        <3>3. late.battles[g].type = "competitive" /\ late.battles[g].b = b
            BY <2>1, <2>6
        <3>4. Outcome(Now, t, delivery, g) /\ Pays(Now, t) /\ Ends(t, delivery, clock \ {g})
            BY <1>6, <2>6, <2>8, <3>2, <3>3, ConcludedOutcome
        <3>5. Become(t)
            BY <3>1, <3>2
        <3> QED
            BY <1>4, <3>4, <3>5
    <2> QED
        BY <2>9, <2>10, <2>11
<1> QED
    BY <1>5, <1>6

\* The goroutine of p commits the result it has shown.
LEMMA CommitStep ==
    ASSUME Inv, NEW p \in Players, CommitResult(p)
    PROVE  Keeps
<1>1. /\ IsState(Now) /\ Settled(Now.room)
      /\ Now.room = room /\ Now.sess = sess /\ Now.battles = battles /\ Now.paid = paid
      /\ Now.refused = refused
      /\ Typed(Now, mail, delivery) /\ Good(Now, mail, delivery, clock, finales, games)
      /\ Ends(Now, delivery, clock) /\ games \in 0..MaxGames /\ Fewer(mail, mail)
    BY NowIsState
<1>2. mail' = mail /\ clock' = clock /\ finales' = finales /\ games' = games
    BY DEF CommitResult
<1>3. PICK d : d = delivery[p]
    OBVIOUS
<1>4. Shown(p, "result") /\ d.kind = "result"
    BY <1>3 DEF CommitResult, Shown
<1>5. /\ Hushed(delivery, delivery') /\ Delivers(delivery, p)
      /\ \A q \in Players \ {p} : delivery'[q] = delivery[q]
    BY <1>4, ShownIsHushed
<1>6. PICK unread \in SUBSET Refusals : Become(Settle(Now, p, d.game, d.results, unread))
    BY <1>3 DEF CommitResult
<1>7. PICK t : t = Settle(Now, p, d.game, d.results, unread) /\ Become(t)
    BY <1>6
<1>8. PICK g : g = sess[p].game
    OBVIOUS
<1>9. g \in {0, d.game}
    BY <1>1, <1>3, <1>5, <1>8 DEF Good, DeliveriesSound
<1>10. Final(d.results)
    BY <1>1, <1>3, <1>4 DEF Typed, IsDelivery, Final
<1>11. /\ Outcome(Now, t, delivery, g)
       /\ \/ Refused(Now, p, d.game, d.results) /\ t = Now
          \/ Unread(Now, t, g)
          \/ t.battles = Drop(Now.battles, g) /\ PaysOut(Now, t, g)
    BY <1>1, <1>7, <1>8, <1>9, <1>10, SettleOutcome
<1>12. ASSUME Over(Now, t, g), Pays(Now, t)
       PROVE  Keeps
    <2>1. Pays(Now, t)
        BY <1>12
    <2>2. CASE g = d.game
        <3>1. EndsBut(Now, delivery, clock, g)
            BY <1>1 DEF Ends, EndsBut
        <3>2. \A q \in Players : Delivers(delivery, q) /\ delivery[q].game # g => delivery'[q] = delivery[q]
            BY <1>3, <1>5, <2>2
        <3>3. Ends(t, delivery', clock)
            BY <1>12, <3>1, <3>2, DropKeepsEnds
        <3> QED
            BY <1>1, <1>2, <1>5, <1>7, <1>11, <2>1, <3>3, OutcomeStep
    <2>3. CASE g # d.game
        <3>1. \A h \in DOMAIN battles : h # 0
            BY NowIsState
        <3>2. d.game \in DOMAIN battles => battles[d.game].type # "competitive"
            BY <1>1, <1>3, <1>5, <1>8, <1>9, <2>3, <3>1 DEF Good, ResultsSound
        <3>3. DOMAIN t.battles \subseteq DOMAIN battles /\ \A h \in DOMAIN t.battles : t.battles[h] = battles[h]
            BY <1>1, <1>12 DEF Over, Drop, Restrict
        <3>4. Ends(t, delivery', clock)
            BY <1>1, <1>3, <1>5, <1>12, <3>2, <3>3 DEF Ends, Delivers, Over
        <3> QED
            BY <1>1, <1>2, <1>5, <1>7, <1>11, <2>1, <3>4, OutcomeStep
    <2> QED
        BY <2>2, <2>3
<1>13. CASE Refused(Now, p, d.game, d.results) /\ t = Now
    <2>1. ASSUME d.game \in DOMAIN battles, battles[d.game].type = "competitive"
          PROVE  FALSE
        <3>1. g = d.game /\ DOMAIN d.results = C!Roster(battles[g].b)
            BY <1>1, <1>3, <1>5, <1>8, <2>1 DEF Good, ResultsSound
        <3>2. g # 0
            BY <2>1, <3>1, NowIsState
        <3>3. p \in Playing(Now, g)
            BY <1>1, <1>8, <3>2 DEF Good, SessionsSound, Playing
        <3> QED
            BY <1>1, <1>13, <2>1, <3>1, <3>3, SettlementSucceeds
    <2>2. Ends(t, delivery', clock)
        BY <1>1, <1>3, <1>5, <1>13, <2>1 DEF Ends, Delivers
    <2>3. Pays(Now, t)
        BY <1>13, NobodyMoves
    <2> QED
        BY <1>1, <1>2, <1>5, <1>7, <1>11, <2>2, <2>3, OutcomeStep
<1>14. CASE t.battles = Drop(Now.battles, g) /\ PaysOut(Now, t, g)
    <2>1. Pays(Now, t)
        BY <1>1, <1>14, PaysOutPays DEF Good
    <2>2. Over(Now, t, g)
        BY <1>11, <1>14 DEF Over, Outcome
    <2> QED
        BY <1>12, <2>1, <2>2
<1>15. CASE Unread(Now, t, g)
    <2>1. Pays(Now, t)
        BY <1>15, NobodyMoves DEF Unread
    <2>2. CASE room.settings.type # "adventure"
        <3>1. Over(Now, t, g)
            BY <1>1, <1>15, <2>2 DEF Unread, Over
        <3> QED
            BY <1>12, <2>1, <3>1
    <2>3. CASE room.settings.type = "adventure"
        <3>1. finales' \subseteq Games
            BY <1>2 DEF Inv, TInv
        <3> QED
            BY <1>1, <1>2, <1>5, <1>7, <1>11, <2>3, <3>1, AdventureStep
    <2> QED
        BY <2>2, <2>3
<1> QED
    BY <1>11, <1>13, <1>14, <1>15

-----------------------------------------------------------------------------
(* The reports of the clients *)

\* A report changes nothing but a battle, and gives a player something to commit.
LEMMA DeliverStep ==
    ASSUME Inv, NEW t, NEW h, Outcome(Now, t, delivery, h), Become(t), t.sess = sess,
           NEW r \in Players, mail[r] = <<>>, delivery[r] = Idle,
           NEW x, IsDelivery(x), x.kind # "idle", sess[r].game = x.game, x.game \in DOMAIN t.battles,
           t.battles[x.game].type = "competitive" =>
               x.kind # "stage" /\ DOMAIN x.results = C!Roster(t.battles[x.game].b),
           delivery' = [delivery EXCEPT ![r] = x], EndsBut(t, delivery, clock, x.game),
           mail' = mail, clock' = clock, finales' = finales, games' = games
    PROVE  Keeps
<1>1. /\ Typed(Now, mail, delivery) /\ Good(Now, mail, delivery, clock, finales, games)
      /\ games \in 0..MaxGames /\ Fewer(mail, mail) /\ Now.sess = sess
      /\ clock \subseteq Games /\ finales \subseteq Games
    BY NowIsState DEF Inv, TInv
<1>2. Typed(t, mail, delivery) /\ Good(t, mail, delivery, clock, finales, games)
    BY <1>1, OutcomeKeepsGood
<1>3. PICK e : e = delivery'
    OBVIOUS
<1>4. Typed(t, mail, e) /\ Good(t, mail, e, clock, finales, games)
    BY <1>2, <1>3, DeliverKeepsGood
<1>5. DOMAIN delivery = Players
    BY <1>1 DEF Typed
<1>6. e[r] = x /\ \A p \in Players \ {r} : e[p] = delivery[p]
    BY <1>3, <1>5
<1>7. ~Delivers(delivery, r) /\ Delivers(e, r)
    BY <1>6 DEF Idle, Delivers
<1>8. Ends(t, e, clock)
    <2>1. ASSUME NEW g \in DOMAIN t.battles, t.battles[g].type = "competitive"
          PROVE  \/ g \in t.refused
                 \/ g \in clock /\ ~t.battles[g].b.concluded
                 \/ \E p \in Players : Delivers(e, p) /\ e[p].game = g
        <3>1. CASE g = x.game
            BY <1>6, <1>7, <3>1
        <3>2. CASE g # x.game
            BY <1>6, <1>7, <2>1, <3>2 DEF EndsBut, Delivers
        <3> QED
            BY <3>1, <3>2
    <2> QED
        BY <2>1 DEF Ends
<1>9. t = [room |-> t.room, sess |-> t.sess, battles |-> t.battles, paid |-> t.paid,
           refused |-> t.refused]
    BY <1>4 DEF Typed, IsState
<1>10. Now' = t
    BY <1>9 DEF Now, Become
<1>11. Inv'
    BY <1>1, <1>3, <1>4, <1>8, <1>10 DEF Inv, TInv, GInv, EInv
<1> QED
    BY <1>1, <1>10, <1>11, NobodyMoves DEF Keeps

\* A message of p about its match.
LEMMA PlaysFields ==
    ASSUME Inv, NEW p \in Players, NEW type, Plays(p, type)
    PROVE  /\ mail[p] = <<>> /\ delivery[p] = Idle /\ sess[p].in
           /\ sess[p].game \in Battles(type) /\ sess[p].game \in DOMAIN battles
           /\ battles[sess[p].game].type = type
BY DEF Plays, Acts, Battles

\* A new battle in the place of an old one, and nothing else.
LEMMA WithBecomes ==
    ASSUME NEW g, NEW b,
           battles' = With(g, b), room' = room, sess' = sess, paid' = paid /\ refused' = refused
    PROVE  Become(Changed(Now, g, b))
<1>1. PICK B : B = With(g, b)
    OBVIOUS
<1>2. PICK t : t = [Now EXCEPT !.battles = B]
    OBVIOUS
<1>3. t = Changed(Now, g, b)
    BY <1>1, <1>2, NowChanged
<1>4. t = [room |-> room, sess |-> sess, battles |-> B, paid |-> paid, refused |-> refused]
    BY <1>2 DEF Now
<1>5. t.room = room' /\ t.sess = sess' /\ t.battles = battles' /\ t.paid = paid' /\ t.refused = refused'
    BY <1>1, <1>4
<1> QED
    BY <1>3, <1>5 DEF Become

\* A report about a competitive battle.
LEMMA ReportsStep ==
    ASSUME Inv, NEW r \in Players, Plays(r, "competitive"), NEW b,
           Kept(battles[sess[r].game].b, b, {}), Reports(r, b)
    PROVE  Keeps
<1>1. PICK g : g = sess[r].game
    OBVIOUS
<1>2. PICK old : old = battles[g].b
    OBVIOUS
<1>3. /\ mail[r] = <<>> /\ delivery[r] = Idle /\ g \in DOMAIN battles
      /\ battles[g].type = "competitive" /\ Kept(old, b, {}) /\ IsFight(old)
    BY <1>1, <1>2, PlaysFields, NowIsState
<1>4. /\ battles' = With(g, b) /\ room' = room /\ sess' = sess /\ mail' = mail /\ clock' = clock
      /\ finales' = finales /\ paid' = paid /\ refused' = refused /\ games' = games
    BY <1>1 DEF Reports
<1>5. PICK t : t = Changed(Now, g, b)
    OBVIOUS
<1>6. Become(t)
    BY <1>4, <1>5, WithBecomes
<1>7. /\ Outcome(Now, t, delivery, g) /\ Pays(Now, t) /\ t.sess = sess
      /\ DOMAIN t.battles = DOMAIN battles
      /\ t.battles[g] = [type |-> battles[g].type, b |-> b]
      /\ \A k \in DOMAIN battles \ {g} : t.battles[k] = battles[k]
    BY <1>2, <1>3, <1>5, ChangedOutcome DEF Follows
<1>8. /\ Ends(Now, delivery, clock) /\ Now.battles = battles /\ Now.refused = refused
      /\ Fewer(mail, mail)
      /\ DOMAIN delivery = Players /\ g \in Games
    BY <1>3, NowIsState DEF Typed
<1>9. refused \subseteq t.refused
    BY <1>7, <1>8 DEF Outcome
<1>10. EndsBut(t, delivery, clock, g)
    BY <1>7, <1>8, <1>9 DEF Ends, EndsBut
<1>11. CASE b.concluded /\ ~old.concluded
    <2>1. PICK kind \in {"grace", "result"} : kind = IF b.grace THEN "grace" ELSE "result"
        OBVIOUS
    <2>2. PICK x : x = [kind |-> kind, game |-> g, results |-> Verdict(b)]
        OBVIOUS
    <2>3. delivery' = [delivery EXCEPT ![r] = x]
        BY <1>1, <1>2, <1>11, <2>1, <2>2 DEF Reports, Deliver
    <2>4. x.kind = kind /\ x.game = g /\ x.results = Verdict(b)
        BY <2>2
    <2>5. DOMAIN x.results = C!Roster(b) /\ \A p \in DOMAIN x.results : x.results[p] \in Results
        BY <2>4, VerdictIsFinal
    <2>6. IsDelivery(x)
        <3>1. x = [kind |-> x.kind, game |-> x.game, results |-> x.results]
            BY <2>2
        <3>2. x.game \in 0..MaxGames /\ x.game # 0
            BY <1>8, <2>4, MatchesAssumption DEF Games
        <3> QED
            BY <2>4, <2>5, <3>1, <3>2 DEF IsDelivery
    <2>7. /\ x.kind # "idle" /\ x.kind # "stage" /\ sess[r].game = x.game
          /\ x.game \in DOMAIN t.battles /\ DOMAIN x.results = C!Roster(t.battles[x.game].b)
          /\ EndsBut(t, delivery, clock, x.game)
        BY <1>1, <1>3, <1>7, <1>10, <2>4, <2>5
    <2> QED
        BY <1>3, <1>4, <1>6, <1>7, <2>3, <2>6, <2>7, DeliverStep
<1>12. CASE ~(b.concluded /\ ~old.concluded)
    <2>1. delivery' = delivery
        BY <1>1, <1>2, <1>12 DEF Reports
    <2>2. \/ g \in refused
          \/ g \in clock /\ ~b.concluded
          \/ \E p \in Players : Delivers(delivery, p) /\ delivery[p].game = g
        BY <1>2, <1>3, <1>8, <1>12 DEF Ends, Kept
    <2>3. Ends(t, delivery, clock)
        BY <1>7, <1>10, <1>9, <2>2 DEF Ends, EndsBut
    <2>4. Hushed(delivery, delivery')
        BY <1>8, <2>1 DEF Hushed
    <2> QED
        BY <1>4, <1>6, <1>7, <1>8, <2>1, <2>3, <2>4, OutcomeStep
<1> QED
    BY <1>11, <1>12

\* A death of a player and of the boss.
LEMMA DieStep ==
    ASSUME Inv, NEW r \in Players, NEW p, Die(r, p)
    PROVE  Keeps
<1>1. PICK old : old = battles[sess[r].game].b
    OBVIOUS
<1>2. Plays(r, "competitive") /\ IsFight(old)
    BY <1>1, PlaysFields, NowIsState DEF Die
<1>3. PICK b : b = IF old.grace THEN C!RecordGraceDeath(old, p) ELSE C!RecordDeath(old, p)
    OBVIOUS
<1>4. Kept(old, b, {})
    BY <1>2, <1>3, ReportsKeep
<1>5. Reports(r, b)
    BY <1>1, <1>3 DEF Die
<1> QED
    BY <1>1, <1>2, <1>4, <1>5, ReportsStep

LEMMA BossDieStep ==
    ASSUME Inv, NEW r \in Players, BossDie(r)
    PROVE  Keeps
<1>1. PICK old : old = battles[sess[r].game].b
    OBVIOUS
<1>2. Plays(r, "competitive") /\ IsFight(old)
    BY <1>1, PlaysFields, NowIsState DEF BossDie
<1>3. PICK b : b = C!RecordBossDeath(old, "boss")
    OBVIOUS
<1>4. Kept(old, b, {})
    BY <1>2, <1>3, ReportsKeep
<1>5. Reports(r, b)
    BY <1>1, <1>3 DEF BossDie
<1> QED
    BY <1>1, <1>2, <1>4, <1>5, ReportsStep

\* The grace of a boss victory is over: the goroutine that showed it commits it next.
LEMMA EndGraceStep ==
    ASSUME Inv, NEW p \in Players, EndGrace(p)
    PROVE  Keeps
<1>1. PICK g : g = delivery[p].game
    OBVIOUS
<1>2. /\ IsState(Now) /\ Settled(Now.room)
      /\ Now.room = room /\ Now.sess = sess /\ Now.battles = battles /\ Now.paid = paid
      /\ Now.refused = refused
      /\ Ends(Now, delivery, clock) /\ Fewer(mail, mail)
    BY NowIsState
<1>3. /\ room' = room /\ sess' = sess /\ paid' = paid /\ refused' = refused
      /\ mail' = mail /\ clock' = clock /\ finales' = finales /\ games' = games
    BY DEF EndGrace
<1>4. /\ Hushed(delivery, delivery') /\ \A q \in Players \ {p} : delivery'[q] = delivery[q]
      /\ delivery'[p].kind = "result" /\ delivery'[p].game = g
    <2>1. Shown(p, "grace")
        BY DEF EndGrace
    <2> QED
        BY <1>1, <2>1, ShownIsHushed
<1>5. ASSUME NEW t, Outcome(Now, t, delivery, g), Pays(Now, t), EndsBut(t, delivery, clock, g), Become(t)
      PROVE  Keeps
    <2>1. Ends(t, delivery', clock)
        BY <1>1, <1>4, <1>5 DEF EndsBut, Ends, Delivers
    <2> QED
        BY <1>2, <1>3, <1>4, <1>5, <2>1, OutcomeStep
<1>6. CASE g \notin DOMAIN battles
    <2>1. Become(Now)
        BY <1>1, <1>2, <1>3, <1>6 DEF EndGrace, Become
    <2>2. Outcome(Now, Now, delivery, g) /\ Pays(Now, Now)
        BY <1>2, OutcomeOfNothing, NobodyMoves
    <2>3. EndsBut(Now, delivery, clock, g)
        BY <1>2 DEF Ends, EndsBut
    <2> QED
        BY <1>5, <2>1, <2>2, <2>3
<1>7. CASE g \in DOMAIN battles
    <2>1. PICK b : b = C!CompleteGrace(battles[g].b)
        OBVIOUS
    <2>2. battles' = With(g, b)
        BY <1>1, <1>7, <2>1 DEF EndGrace
    <2>3. Follows(g, b)
        <3>1. ASSUME battles[g].type = "competitive"
              PROVE  Kept(battles[g].b, b, {})
            <4>1. IsFight(battles[g].b)
                BY <1>2, <1>7, <3>1 DEF IsState, IsBattle, IsFight
            <4>2. PICK old : old = battles[g].b
                OBVIOUS
            <4>3. IsFight(old) /\ b = [old EXCEPT !.grace = FALSE]
                BY <2>1, <4>1, <4>2 DEF C!CompleteGrace
            <4>4. Kept(old, b, {})
                BY <4>3, KeptUpdates
            <4> QED
                BY <4>2, <4>4
        <3> QED
            BY <3>1 DEF Follows
    <2>4. PICK t : t = Changed(Now, g, b)
        OBVIOUS
    <2>5. /\ Outcome(Now, t, delivery, g) /\ Pays(Now, t) /\ IsState(t)
          /\ t.room = room /\ t.sess = sess /\ t.paid = paid /\ t.refused = refused
          /\ DOMAIN t.battles = DOMAIN battles
          /\ t.battles[g] = [type |-> battles[g].type, b |-> b]
          /\ \A k \in DOMAIN battles \ {g} : t.battles[k] = battles[k]
        BY <1>7, <2>3, <2>4, ChangedOutcome
    <2>6. EndsBut(t, delivery, clock, g)
        BY <1>2, <2>5 DEF Ends, EndsBut
    <2>7. Become(t)
        BY <1>3, <2>2, <2>4, WithBecomes
    <2> QED
        BY <1>5, <2>5, <2>6, <2>7
<1> QED
    BY <1>6, <1>7

\* The client's own report of the end of the match.
LEMMA GameOverStep ==
    ASSUME Inv, NEW r \in Players, GameOver(r)
    PROVE  Keeps
<1>1. PICK g : g = sess[r].game
    OBVIOUS
<1>2. /\ IsState(Now) /\ Settled(Now.room)
      /\ Now.room = room /\ Now.sess = sess /\ Now.battles = battles /\ Now.paid = paid
      /\ Now.refused = refused
      /\ Ends(Now, delivery, clock) /\ \A h \in DOMAIN battles : h \in Games /\ h # 0
    BY NowIsState
<1>3. /\ room' = room /\ sess' = sess /\ battles' = battles /\ paid' = paid /\ refused' = refused
      /\ mail' = mail /\ clock' = clock /\ finales' = finales /\ games' = games
      /\ mail[r] = <<>> /\ delivery[r] = Idle /\ g \in DOMAIN battles
    BY <1>1 DEF GameOver, Acts
<1>4. PICK type, b : type = battles[g].type /\ b = battles[g].b
    OBVIOUS
<1>5. PICK results \in Verdicts(type, b) : Deliver(r, "result", g, results)
    BY <1>1, <1>4 DEF GameOver
<1>6. /\ \A p \in DOMAIN results : results[p] \in Results
      /\ type = "competitive" => DOMAIN results = C!Roster(b)
    <2>1. CASE type = "adventure"
        <3>1. PICK result \in {"win", "loss"} : results = Everybody(b.members, result)
            BY <1>5, <2>1 DEF Verdicts
        <3> QED
            BY <2>1, <3>1 DEF Everybody, Results
    <2>2. CASE type # "adventure"
        <3>1. PICK winner : results = [p \in C!Roster(b) |-> IF winner = b.team[p] THEN "win"
                                 ELSE IF winner = C!Draw /\ b.rule # "boss" THEN "draw" ELSE "loss"]
            BY <1>5, <2>2 DEF Verdicts
        <3> QED
            BY <3>1 DEF Results
    <2> QED
        BY <2>1, <2>2
<1>7. PICK x : x = [kind |-> "result", game |-> g, results |-> results]
    OBVIOUS
<1>8. x.kind = "result" /\ x.game = g /\ x.results = results
    BY <1>7
<1>9. delivery' = [delivery EXCEPT ![r] = x]
    BY <1>5, <1>7 DEF Deliver
<1>10. IsDelivery(x)
    <2>1. x = [kind |-> x.kind, game |-> x.game, results |-> x.results]
        BY <1>7
    <2>2. x.game \in 0..MaxGames /\ x.game # 0
        BY <1>2, <1>3, <1>8, MatchesAssumption DEF Games
    <2> QED
        BY <1>6, <1>8, <2>1, <2>2 DEF IsDelivery
<1>11. Outcome(Now, Now, delivery, g) /\ Become(Now)
    BY <1>2, <1>3, OutcomeOfNothing DEF Become
<1>12. EndsBut(Now, delivery, clock, x.game)
    BY <1>2 DEF Ends, EndsBut
<1>13. /\ x.kind # "idle" /\ x.kind # "stage" /\ sess[r].game = x.game /\ x.game \in DOMAIN Now.battles
       /\ Now.battles[x.game].type = "competitive" => DOMAIN x.results = C!Roster(Now.battles[x.game].b)
    BY <1>1, <1>2, <1>3, <1>4, <1>6, <1>8
<1> QED
    BY <1>2, <1>3, <1>9, <1>10, <1>11, <1>12, <1>13, DeliverStep

\* The stage of an adventure changes.
LEMMA StageOutcome ==
    ASSUME Inv, NEW g \in Battles("adventure"), NEW b,
           battles' = With(g, b), room' = room, sess' = sess, paid' = paid /\ refused' = refused,
           NEW t, t = Changed(Now, g, b)
    PROVE  /\ Outcome(Now, t, delivery, g) /\ Become(t) /\ t.sess = sess
           /\ DOMAIN t.battles = DOMAIN battles /\ g \in DOMAIN battles /\ g \in Games
           /\ t.battles[g].type = "adventure"
           /\ room.settings.type = "adventure"
<1>1. g \in DOMAIN battles /\ g \in Games /\ battles[g].type = "adventure" /\ room.settings.type = "adventure"
    BY NowIsState
<1>2. Follows(g, b)
    BY <1>1 DEF Follows
<1>3. /\ Outcome(Now, t, delivery, g) /\ Pays(Now, t) /\ IsState(t)
      /\ t.room = room /\ t.sess = sess /\ t.paid = paid /\ t.refused = refused
      /\ DOMAIN t.battles = DOMAIN battles
      /\ t.battles[g] = [type |-> battles[g].type, b |-> b]
      /\ \A k \in DOMAIN battles \ {g} : t.battles[k] = battles[k]
    BY <1>1, <1>2, ChangedOutcome
<1>4. Become(t)
    BY WithBecomes
<1> QED
    BY <1>1, <1>3, <1>4

\* A player is given the results of an adventure to commit.
LEMMA StageDeliverStep ==
    ASSUME Inv, NEW t, NEW g \in Battles("adventure"), Outcome(Now, t, delivery, g), Become(t), t.sess = sess,
           g \in DOMAIN t.battles, t.battles[g].type = "adventure",
           NEW r \in Players, Plays(r, "adventure"), sess[r].game = g,
           NEW kind \in {"result", "stage"}, NEW results,
           \A p \in DOMAIN results :
               results[p] \in IF kind = "stage" THEN {"loss", "absent"} ELSE Results,
           Deliver(r, kind, g, results),
           mail' = mail, clock' = clock, finales' = finales, games' = games
    PROVE  Keeps
<1>1. PICK x : x = [kind |-> kind, game |-> g, results |-> results]
    OBVIOUS
<1>2. x.kind = kind /\ x.game = g /\ x.results = results
    BY <1>1
<1>3. delivery' = [delivery EXCEPT ![r] = x]
    BY <1>1 DEF Deliver
<1>4. g \in Games /\ room.settings.type = "adventure" /\ Now.room = room /\ g # 0
      /\ Good(Now, mail, delivery, clock, finales, games)
    BY NowIsState
<1>5. IsDelivery(x)
    <2>1. x = [kind |-> x.kind, game |-> x.game, results |-> x.results]
        BY <1>1
    <2>2. x.game \in 0..MaxGames /\ x.game # 0
        BY <1>2, <1>4, MatchesAssumption DEF Games
    <2>3. x.kind \in {"idle", "grace", "result", "stage"}
        BY <1>2
    <2> QED
        BY <1>2, <2>1, <2>2, <2>3 DEF IsDelivery
<1>6. EndsBut(t, delivery, clock, x.game)
    <2>1. \A h \in DOMAIN t.battles : t.battles[h].type = "adventure"
        BY <1>4 DEF Good, RoomSound, Outcome
    <2> QED
        BY <2>1 DEF EndsBut
<1>7. mail[r] = <<>> /\ delivery[r] = Idle
    BY DEF Plays, Acts
<1>8. /\ x.kind # "idle" /\ sess[r].game = x.game /\ x.game \in DOMAIN t.battles
      /\ t.battles[x.game].type # "competitive"
    BY <1>2
<1> QED
    BY <1>3, <1>5, <1>6, <1>7, <1>8, DeliverStep

\* An NPC dies; with the last one of the last map the finale begins.
LEMMA NPCDieStep ==
    ASSUME Inv, NEW r \in Players, NPCDie(r)
    PROVE  Keeps
<1>1. PICK g : g = sess[r].game
    OBVIOUS
<1>2. g \in Battles("adventure")
    BY <1>1, PlaysFields DEF NPCDie
<1>3. PICK b : battles' = With(g, b) /\ finales' \in {finales, finales \cup {g}}
    BY <1>1 DEF NPCDie
<1>4. /\ room' = room /\ sess' = sess /\ paid' = paid /\ refused' = refused
      /\ mail' = mail /\ clock' = clock /\ delivery' = delivery /\ games' = games
    BY DEF NPCDie
<1>5. PICK t : t = Changed(Now, g, b)
    OBVIOUS
<1>6. /\ Outcome(Now, t, delivery, g) /\ Become(t) /\ room.settings.type = "adventure" /\ g \in Games
    BY <1>2, <1>3, <1>4, <1>5, StageOutcome
<1>7. finales' \subseteq Games /\ Hushed(delivery, delivery') /\ Fewer(mail, mail')
    BY <1>3, <1>4, <1>6, NowIsState DEF Inv, TInv, Typed, Hushed
<1> QED
    BY <1>4, <1>6, <1>7, AdventureStep

\* A rescue.
LEMMA ReviveStep ==
    ASSUME Inv, NEW r \in Players, NEW p, Revive(r, p)
    PROVE  Keeps
<1>1. PICK g : g = sess[r].game
    OBVIOUS
<1>2. g \in Battles("adventure")
    BY <1>1, PlaysFields DEF Revive
<1>3. PICK b : battles' = With(g, b)
    BY <1>1 DEF Revive
<1>4. /\ room' = room /\ sess' = sess /\ paid' = paid /\ refused' = refused /\ finales' = finales
      /\ mail' = mail /\ clock' = clock /\ delivery' = delivery /\ games' = games
    BY DEF Revive
<1>5. PICK t : t = Changed(Now, g, b)
    OBVIOUS
<1>6. /\ Outcome(Now, t, delivery, g) /\ Become(t) /\ room.settings.type = "adventure"
    BY <1>2, <1>3, <1>4, <1>5, StageOutcome
<1>7. finales' \subseteq Games /\ Hushed(delivery, delivery') /\ Fewer(mail, mail')
    BY <1>4, NowIsState DEF Inv, TInv, Typed, Hushed
<1> QED
    BY <1>4, <1>6, <1>7, AdventureStep

\* A player dies; with the last one the adventure is lost, or won if all NPCs are dead.
LEMMA PlayerDieStep ==
    ASSUME Inv, NEW r \in Players, NEW p, PlayerDie(r, p)
    PROVE  Keeps
<1>1. PICK g : g = sess[r].game
    OBVIOUS
<1>2. Plays(r, "adventure") /\ g \in Battles("adventure")
    BY <1>1, PlaysFields DEF PlayerDie
<1>3. PICK b : battles' = With(g, b)
    BY <1>1 DEF PlayerDie
<1>4. \/ delivery' = delivery
      \/ \E S : \E result \in {"win", "loss"} : Deliver(r, "result", g, Everybody(S, result))
    BY <1>1 DEF PlayerDie
<1>5. /\ room' = room /\ sess' = sess /\ paid' = paid /\ refused' = refused /\ finales' = finales
      /\ mail' = mail /\ clock' = clock /\ games' = games
    BY DEF PlayerDie
<1>6. PICK t : t = Changed(Now, g, b)
    OBVIOUS
<1>7. /\ Outcome(Now, t, delivery, g) /\ Become(t) /\ t.sess = sess
      /\ DOMAIN t.battles = DOMAIN battles /\ g \in DOMAIN battles
      /\ t.battles[g].type = "adventure" /\ room.settings.type = "adventure"
    BY <1>2, <1>3, <1>5, <1>6, StageOutcome
<1>8. CASE delivery' = delivery
    <2>1. finales' \subseteq Games /\ Hushed(delivery, delivery') /\ Fewer(mail, mail')
        BY <1>5, <1>8, NowIsState DEF Inv, TInv, Typed, Hushed
    <2> QED
        BY <1>5, <1>7, <2>1, AdventureStep
<1>9. ASSUME NEW S, NEW result \in {"win", "loss"}, Deliver(r, "result", g, Everybody(S, result))
      PROVE  Keeps
    <2>1. PICK results : results = Everybody(S, result)
        OBVIOUS
    <2>2. \A q \in DOMAIN results : results[q] \in Results
        BY <2>1 DEF Everybody, Results
    <2>3. Deliver(r, "result", g, results)
        BY <1>9, <2>1
    <2> QED
        BY <1>1, <1>2, <1>5, <1>7, <2>2, <2>3, StageDeliverStep
<1> QED
    BY <1>4, <1>8, <1>9

-----------------------------------------------------------------------------
(* Departures, eliminations and the finale *)

\* p leaves a room in which it has nothing to commit; its battle has already counted
\* it out, is an adventure, or is not the one its session is in.
LEMMA LeftOutcome ==
    ASSUME Inv, NEW p \in Players, delivery[p] = Idle, NEW s, IsState(s),
           s.room = room, s.sess = sess, s.paid = paid /\ s.refused = refused, Counts(Now, s, {p}),
           NEW t, t = Left(s, p), NEW g
    PROVE  /\ Outcome(Now, t, delivery, g) /\ IsState(t) /\ t.battles = s.battles
           /\ t.paid = paid /\ t.refused = refused
           /\ Departed(Now, t, {p}) /\ t.sess[p].game = 0
<1>1. /\ IsState(Now) /\ Settled(Now.room)
      /\ Now.room = room /\ Now.sess = sess /\ Now.battles = battles /\ Now.paid = paid
      /\ Now.refused = refused
    BY NowIsState
<1>2. ~Delivers(delivery, p)
    BY DEF Idle, Delivers
<1>3. /\ IsState(t) /\ t.room = Without(s.room, {p}) /\ t.battles = s.battles /\ t.paid = s.paid
      /\ t.refused = s.refused
      /\ Departed(s, t, {p})
    BY LeftFields
<1>4. Departed(Now, t, {p}) /\ Counts(Now, t, {p})
    BY <1>1, <1>3 DEF Departed, Counts
<1>5. Outcome(Now, t, delivery, g)
    BY <1>1, <1>2, <1>3, <1>4, DepartureOutcome
<1> QED
    BY <1>3, <1>4, <1>5, OutsideIsSession DEF Departed

\* A departure from an adventure.
LEMMA LeaveAdventureOutcome ==
    ASSUME Inv, NEW p \in Players, delivery[p] = Idle, NEW g \in Battles("adventure"),
           sess[p].game = g, NEW unread, NEW t, t = LeaveAdventure(p, g, unread)
    PROVE  Outcome(Now, t, delivery, g)
<1>1. /\ IsState(Now) /\ Settled(Now.room)
      /\ Now.room = room /\ Now.sess = sess /\ Now.battles = battles /\ Now.paid = paid
      /\ Now.refused = refused
      /\ Typed(Now, mail, delivery) /\ Good(Now, mail, delivery, clock, finales, games)
      /\ g \in DOMAIN battles /\ g \in Games /\ battles[g].type = "adventure"
      /\ games \in 0..MaxGames /\ Fewer(mail, mail)
    BY NowIsState
<1>2. PICK old : old = battles[g].b
    OBVIOUS
<1>3. PICK b : b = A!RemoveParticipant(old, p)
    OBVIOUS
<1>4. PICK s1 : s1 = [Now EXCEPT !.battles = With(g, b)]
    OBVIOUS
<1>5. s1 = Changed(Now, g, b)
    BY <1>4, NowChanged
<1>6. Follows(g, b)
    BY <1>1 DEF Follows
<1>7. /\ Outcome(Now, s1, delivery, g) /\ Pays(Now, s1) /\ IsState(s1)
      /\ s1.room = room /\ s1.sess = sess /\ s1.paid = paid /\ s1.refused = refused
      /\ DOMAIN s1.battles = DOMAIN battles
      /\ s1.battles[g] = [type |-> battles[g].type, b |-> b]
      /\ \A k \in DOMAIN battles \ {g} : s1.battles[k] = battles[k]
    BY <1>1, <1>5, <1>6, ChangedOutcome
<1>8. Counts(Now, s1, {p})
    BY <1>1, <1>7 DEF Counts
<1>9. PICK s2 : s2 = Left(s1, p)
    OBVIOUS
<1>10. /\ Outcome(Now, s2, delivery, g) /\ IsState(s2) /\ s2.battles = s1.battles
       /\ s2.paid = paid /\ s2.refused = refused
       /\ Departed(Now, s2, {p}) /\ s2.sess[p].game = 0
    BY <1>7, <1>8, <1>9, LeftOutcome
<1>11. PICK loss : loss = [q \in old.members |-> "loss"]
    OBVIOUS
<1>12. PICK s3 : s3 = Pay(s2, {p}, g, g, loss)
    OBVIOUS
<1>13. t = IF ~A!CanRemoveParticipant(old, p) THEN Left(Now, p)
           ELSE IF b.concluded /\ ~old.concluded THEN SettleOrForget(s3, g, loss, unread)
           ELSE IF b.members = {} THEN [s2 EXCEPT !.battles = Drop(@, g)] ELSE s2
    BY <1>2, <1>3, <1>4, <1>9, <1>11, <1>12 DEF LeaveAdventure
<1>14. CASE ~A!CanRemoveParticipant(old, p)
    <2>1. t = Left(Now, p) /\ Counts(Now, Now, {p})
        BY <1>13, <1>14 DEF Counts
    <2>2. /\ Outcome(Now, t, delivery, g) /\ IsState(t) /\ t.battles = Now.battles
          /\ t.paid = paid /\ t.refused = refused
          /\ Departed(Now, t, {p}) /\ t.sess[p].game = 0
        BY <1>1, <2>1, LeftOutcome
    <2> QED
        BY <2>2
<1>15. CASE A!CanRemoveParticipant(old, p) /\ b.concluded /\ ~old.concluded
    <2>1. Awards(loss, {p}) /\ Final(loss)
        BY <1>11, <1>15 DEF Awards, Final, Results, A!CanRemoveParticipant
    <2>2. /\ IsState(s3) /\ s3.room = s2.room /\ s3.sess = s2.sess /\ s3.battles = s2.battles
          /\ s3.refused = s2.refused /\ Paying(s2, s3, {p}, g)
        BY <1>1, <1>10, <1>12, <2>1, PayFields
    <2>3. Outcome(Now, s3, delivery, g)
        <3>1. Now.sess[p].game = g /\ s2.paid = Now.paid /\ s2.refused = Now.refused
            BY <1>1, <1>10
        <3> QED
            BY <1>1, <1>10, <2>2, <3>1, PaidOutcome
    <2>4. Settled(s3.room)
        BY <2>3 DEF Outcome, Settled
    <2>5. t = SettleOrForget(s3, g, loss, unread)
        BY <1>13, <1>15
    <2>6. /\ Outcome(s3, t, delivery, g)
          /\ \/ \E actor \in Playing(s3, g) : Refused(s3, actor, g, loss) /\ t = s3
             \/ Unread(s3, t, g)
             \/ t.battles = Drop(s3.battles, g) /\ PaysOut(s3, t, g)
        BY <2>1, <2>2, <2>4, <2>5, SettleOrForgetOutcome
    <2> QED
        BY <1>1, <2>3, <2>6, OutcomeComposes
<1>16. CASE A!CanRemoveParticipant(old, p) /\ ~(b.concluded /\ ~old.concluded) /\ b.members = {}
    <2>1. t = [s2 EXCEPT !.battles = Drop(@, g)]
        BY <1>13, <1>16
    <2>2. /\ IsState(t) /\ t.room = s2.room /\ t.sess = s2.sess /\ t.paid = s2.paid
          /\ t.refused = s2.refused
          /\ t.battles = Drop(s2.battles, g)
        BY <1>10, <2>1, DropFields
    <2>3. Settled(s2.room)
        BY <1>10 DEF Outcome, Settled
    <2>4. Outcome(s2, t, delivery, g)
        BY <1>10, <2>2, <2>3, BattleOutcome
    <2> QED
        BY <1>1, <1>10, <2>4, OutcomeComposes
<1>17. CASE A!CanRemoveParticipant(old, p) /\ ~(b.concluded /\ ~old.concluded) /\ b.members # {}
    BY <1>10, <1>13, <1>17
<1> QED
    BY <1>14, <1>15, <1>16, <1>17

\* A player leaves the room, with a message or without its connection.
LEMMA DepartStep ==
    ASSUME Inv, NEW p \in Players, Depart(p)
    PROVE  Keeps
<1>1. /\ IsState(Now) /\ Settled(Now.room)
      /\ Now.room = room /\ Now.sess = sess /\ Now.battles = battles /\ Now.paid = paid
      /\ Now.refused = refused
      /\ Typed(Now, mail, delivery) /\ Good(Now, mail, delivery, clock, finales, games)
      /\ Ends(Now, delivery, clock)
    BY NowIsState
<1>2. /\ delivery[p] = Idle /\ sess[p].in /\ mail' = [mail EXCEPT ![p] = <<>>]
      /\ clock' = clock /\ finales' = finales /\ delivery' = delivery /\ games' = games
    BY DEF Depart
<1>3. Fewer(mail, mail')
    <2>1. mail \in [Players -> Seq(News)] /\ <<>> \in Seq(News)
        BY <1>1 DEF Typed
    <2> QED
        BY <1>2, <2>1 DEF Fewer
<1>4. Hushed(delivery, delivery') /\ finales' \subseteq Games
    BY <1>1, <1>2 DEF Typed, Hushed, Inv, TInv
<1>5. PICK g : g = sess[p].game
    OBVIOUS
<1>6. PICK unread \in SUBSET Refusals :
          Become(IF g \in Battles("competitive") /\ room.game = g THEN LeaveCompetitive(p, g, unread)
                 ELSE IF g \in Battles("adventure") THEN LeaveAdventure(p, g, unread)
                 ELSE Left(Now, p))
    BY <1>5 DEF Depart
<1>7. CASE g \in Battles("competitive") /\ room.game = g
    <2>1. PICK t : t = LeaveCompetitive(p, g, unread)
        OBVIOUS
    <2>2. Become(t)
        BY <1>7, <1>6, <2>1
    <2>3. Outcome(Now, t, delivery, g) /\ Pays(Now, t) /\ Ends(t, delivery, clock)
        BY <1>2, <1>5, <1>7, <2>1, LeaveCompetitiveOutcome
    <2> QED
        BY <1>2, <1>3, <1>4, <2>2, <2>3, OutcomeStep
<1>8. CASE g \in Battles("adventure")
    <2>1. PICK t : t = LeaveAdventure(p, g, unread)
        OBVIOUS
    <2>2. g \notin Battles("competitive") /\ room.settings.type = "adventure"
        BY <1>8, NowIsState
    <2>3. Become(t)
        BY <1>8, <1>6, <2>1, <2>2
    <2>4. Outcome(Now, t, delivery, g)
        BY <1>2, <1>5, <1>8, <2>1, LeaveAdventureOutcome
    <2> QED
        BY <1>2, <1>3, <1>4, <2>2, <2>3, <2>4, AdventureStep
<1>9. CASE ~(g \in Battles("competitive") /\ room.game = g) /\ g \notin Battles("adventure")
    <2>1. PICK t : t = Left(Now, p)
        OBVIOUS
    <2>2. Become(t)
        BY <1>9, <1>6, <2>1
    <2>3. Counts(Now, Now, {p})
        BY DEF Counts
    <2>4. /\ Outcome(Now, t, delivery, g) /\ IsState(t) /\ t.battles = Now.battles
          /\ t.paid = paid /\ t.refused = refused
          /\ Departed(Now, t, {p}) /\ t.sess[p].game = 0
        BY <1>1, <1>2, <2>1, <2>3, LeftOutcome, ZenonT(30)
    <2>5. Ends(t, delivery', clock')
        BY <1>1, <1>2, <2>4 DEF Ends
    <2>6. Pays(Now, t)
        <3>1. CASE g \notin Battles("competitive")
            BY <1>1, <1>5, <2>4, <3>1 DEF Pays, Departed, Battles
        <3>2. ASSUME g \in Battles("competitive")
              PROVE  FALSE
            <4>1. room.settings.type # "adventure" /\ g \in DOMAIN battles
                BY <3>2, NowIsState
            <4>2. p \in Roster(room)
                BY <1>1, <1>2, <4>1 DEF Good, SessionsSound
            <4>3. room.game = g
                BY <1>1, <1>5, <4>1, <4>2 DEF Good, MembersSound, Enters
            <4> QED
                BY <1>9, <3>2, <4>3
        <3> QED
            BY <3>1, <3>2
    <2> QED
        BY <1>2, <1>3, <1>4, <2>2, <2>4, <2>5, <2>6, OutcomeStep
<1> QED
    BY <1>7, <1>8, <1>9

\* The eliminations of a stage take players out of the room, and pay those of them
\* that are still in the match.
LEMMA EliminateOutcome ==
    ASSUME Inv, NEW plan, IsDelivery(plan), plan.kind = "stage", room.settings.type = "adventure",
           NEW ok, NEW t, t = Eliminate(Now, plan, ok)
    PROVE  Outcome(Now, t, delivery, plan.game)
<1>1. /\ IsState(Now) /\ Settled(Now.room)
      /\ Now.room = room /\ Now.sess = sess /\ Now.battles = battles /\ Now.paid = paid
      /\ Now.refused = refused
    BY NowIsState
<1>2. PICK g : g = plan.game
    OBVIOUS
<1>3. g \in Games
    BY <1>2, MatchesAssumption DEF IsDelivery, Games
<1>4. PICK out : out = DOMAIN plan.results
    OBVIOUS
<1>5. PICK absent : absent = {p \in out : plan.results[p] = "absent"}
    OBVIOUS
<1>6. PICK playing : playing = Playing(Now, g) \cap (out \ absent)
    OBVIOUS
<1>7. PICK failed : failed = (absent \ Roster(Now.room)) \cup (playing \ ok)
    OBVIOUS
<1>8. PICK reached : reached = {p \in out : \A q \in failed : p < q}
    OBVIOUS
<1>9. PICK paying : paying = playing \cap reached
    OBVIOUS
<1>10. PICK u : u = Pay(Now, paying, g, g, plan.results)
    OBVIOUS
<1>11. PICK S : S = paying \cup (absent \cap reached)
    OBVIOUS
<1>12. t = [u EXCEPT !.room = Without(@, S),
                     !.sess = [p \in Players |-> IF p \in paying THEN Outside ELSE @[p]]]
    <2> DEFINE o == DOMAIN plan.results
               a == {p \in o : plan.results[p] = "absent"}
               l == Playing(Now, plan.game) \cap (o \ a)
               f == (a \ Roster(Now.room)) \cup (l \ ok)
               c == {p \in o : \A q \in f : p < q}
               y == l \cap c
               E(x, X, Y) == [x EXCEPT !.room = Without(@, Y),
                                       !.sess = [p \in Players |-> IF p \in X THEN Outside ELSE @[p]]]
    <2>1. t = E(Pay(Now, y, plan.game, plan.game, plan.results), y, y \cup (a \cap c))
        BY DEF Eliminate
    <2>2. o = out /\ a = absent
        BY <1>4, <1>5
    <2>3. l = playing
        BY <2>2, <1>2, <1>6
    <2>4. f = failed
        BY <2>2, <2>3, <1>7
    <2>5. c = reached
        BY <2>2, <2>4, <1>8
    <2>6. y = paying
        BY <2>3, <2>5, <1>9
    <2> HIDE DEF o, a, l, f, c, y, E
    <2>7. y \cup (a \cap c) = S
        BY <2>2, <2>5, <2>6, <1>11
    <2>8. Pay(Now, y, plan.game, plan.game, plan.results) = u
        BY <2>6, <1>2, <1>10
    <2>9. t = E(u, paying, S)
        BY <2>1, <2>6, <2>7, <2>8
    <2> QED
        BY <2>9 DEF E
<1>13. /\ paying \in SUBSET Players /\ paying \in SUBSET S /\ Awards(plan.results, paying)
       /\ \A p \in paying : sess[p].game = g
    BY <1>1, <1>4, <1>5, <1>6, <1>9, <1>11 DEF Playing, IsDelivery, Awards, Results
<1>14. /\ IsState(u) /\ u.room = Now.room /\ u.sess = Now.sess /\ u.battles = Now.battles
       /\ u.refused = Now.refused /\ Paying(Now, u, paying, g)
    BY <1>1, <1>3, <1>10, <1>13, PayFields
<1>15. PICK r : r = Without(room, S)
    OBVIOUS
<1>16. PICK T : T = [p \in Players |-> IF p \in paying THEN Outside ELSE u.sess[p]]
    OBVIOUS
<1>17. /\ u = [room |-> u.room, sess |-> u.sess, battles |-> u.battles, paid |-> u.paid,
               refused |-> u.refused]
       /\ u.paid \in [Players -> Seq(Payments)]
    BY <1>14 DEF IsState
<1>18. t = [u EXCEPT !.room = r, !.sess = T]
    BY <1>1, <1>12, <1>14, <1>15, <1>16
<1>19. t = [room |-> r, sess |-> T, battles |-> u.battles, paid |-> u.paid, refused |-> u.refused]
    BY <1>17, <1>18
<1>20. IsRoom(r)
    BY <1>1, <1>15, WithoutFields DEF IsState
<1>21. T \in [Players -> Sessions]
    BY <1>1, <1>14, <1>16, OutsideIsSession DEF IsState
<1>22. /\ \A p \in paying : T[p] = Outside
       /\ \A p \in Players \ paying : T[p] = sess[p]
    BY <1>1, <1>13, <1>14, <1>16
<1>23. PICK t0 : t0 = [room |-> r, sess |-> T, battles |-> battles, paid |-> paid, refused |-> refused]
    OBVIOUS
<1>24. t0.room = r /\ t0.sess = T /\ t0.battles = battles /\ t0.paid = paid /\ t0.refused = refused
    BY <1>23
<1>25. t.room = r /\ t.sess = T /\ t.battles = battles /\ t.paid = u.paid /\ t.refused = u.refused
    BY <1>1, <1>14, <1>19
<1>26. /\ paid \in [Players -> Seq(Payments)] /\ DOMAIN battles \subseteq Games
       /\ \A h \in DOMAIN battles : IsBattle(battles[h])
       /\ refused \in SUBSET Games
    BY <1>1 DEF IsState
<1>27. IsState(t0)
    BY <1>20, <1>21, <1>23, <1>26, StateOf
<1>28. IsState(t)
    <2>1. /\ DOMAIN u.battles \subseteq Games /\ \A h \in DOMAIN u.battles : IsBattle(u.battles[h])
          /\ u.refused \in SUBSET Games
        BY <1>14 DEF IsState
    <2> QED
        BY <1>17, <1>19, <1>20, <1>21, <2>1, StateOf
<1>29. Departed(Now, t0, paying)
    BY <1>1, <1>22, <1>24 DEF Departed
<1>30. Counts(Now, t0, S)
    BY <1>1, <1>24 DEF Counts
<1>31. Outcome(Now, t0, delivery, g)
    BY <1>1, <1>13, <1>15, <1>24, <1>27, <1>29, <1>30, DepartureOutcome
<1>32. Paying(t0, t, paying, g)
    BY <1>1, <1>14, <1>24, <1>25 DEF Paying
<1>33. \A p \in paying : Now.sess[p].game = g /\ t0.sess[p].game = 0
    BY <1>1, <1>13, <1>22, <1>24, OutsideIsSession
<1>34. t.room = t0.room /\ t.sess = t0.sess /\ t.battles = t0.battles
       /\ t0.paid = Now.paid /\ t.refused = t0.refused
    BY <1>1, <1>14, <1>24, <1>25
<1>35. Outcome(Now, t, delivery, g)
    BY <1>3, <1>13, <1>28, <1>31, <1>32, <1>33, <1>34, PaidOutcome
<1> QED
    BY <1>2, <1>35

\* The goroutine that has announced the next map settles those who do not go there.
LEMMA EliminationsStep ==
    ASSUME Inv, NEW r \in Players, ApplyEliminations(r)
    PROVE  Keeps
<1>1. /\ Typed(Now, mail, delivery) /\ Good(Now, mail, delivery, clock, finales, games)
      /\ Fewer(mail, mail) /\ Now.room = room
    BY NowIsState
<1>2. PICK plan : plan = delivery[r]
    OBVIOUS
<1>3. PICK ok : Become(Eliminate(Now, plan, ok))
    BY <1>2 DEF ApplyEliminations
<1>4. Shown(r, "stage") /\ mail' = mail /\ clock' = clock /\ finales' = finales /\ games' = games
    BY DEF ApplyEliminations
<1>5. IsDelivery(plan) /\ plan.kind = "stage"
    BY <1>1, <1>2, <1>4 DEF Typed, Shown
<1>6. room.settings.type = "adventure"
    BY <1>1, <1>2, <1>5 DEF Good, RoomSound
<1>7. PICK t : t = Eliminate(Now, plan, ok)
    OBVIOUS
<1>8. Outcome(Now, t, delivery, plan.game)
    BY <1>5, <1>6, <1>7, EliminateOutcome
<1>9. Hushed(delivery, delivery')
    BY <1>4, ShownIsHushed
<1>10. Become(t) /\ Fewer(mail, mail') /\ clock' \subseteq clock /\ finales' \subseteq Games
    BY <1>1, <1>3, <1>4, <1>7 DEF Inv, TInv
<1> QED
    BY <1>4, <1>6, <1>8, <1>9, <1>10, AdventureStep

\* The end of the loot grace of an adventure.
LEMMA FinaleStep ==
    ASSUME Inv, NEW g \in Games, Finale(g)
    PROVE  Keeps
<1>1. /\ IsState(Now) /\ Settled(Now.room)
      /\ Now.room = room /\ Now.sess = sess /\ Now.battles = battles /\ Now.paid = paid
      /\ Now.refused = refused
      /\ Typed(Now, mail, delivery) /\ Good(Now, mail, delivery, clock, finales, games)
      /\ Fewer(mail, mail)
    BY NowIsState
<1>2. /\ g \in finales /\ finales' \subseteq Games
      /\ mail' = mail /\ clock' = clock /\ delivery' = delivery /\ games' = games
    BY DEF Finale, Inv, TInv
<1>3. room.settings.type = "adventure"
    BY <1>1, <1>2 DEF Good, RoomSound
<1>4. Hushed(delivery, delivery')
    BY <1>1, <1>2 DEF Typed, Hushed
<1>5. ASSUME NEW t, Outcome(Now, t, delivery, g), Become(t)
      PROVE  Keeps
    BY <1>1, <1>2, <1>3, <1>4, <1>5, AdventureStep
<1>6. CASE room' = room /\ sess' = sess /\ battles' = battles /\ paid' = paid /\ refused' = refused
    <2>1. Become(Now)
        BY <1>1, <1>6 DEF Become
    <2>2. Outcome(Now, Now, delivery, g)
        BY <1>1, OutcomeOfNothing
    <2> QED
        BY <1>5, <2>1, <2>2
<1>7. CASE g \in DOMAIN battles /\ ~(room' = room /\ sess' = sess /\ battles' = battles /\ paid' = paid /\ refused' = refused)
    <2>1. PICK b : b = A!FinalizePendingVictory(battles[g].b)
        OBVIOUS
    <2>2. PICK won : won = [Now EXCEPT !.battles = With(g, b)]
        OBVIOUS
    <2>3. PICK results : results = Everybody(battles[g].b.winners, "win")
        OBVIOUS
    <2>4. PICK unread \in SUBSET Refusals : Become(SettleOrForget(won, g, results, unread))
        BY <1>7, <2>1, <2>2, <2>3 DEF Finale
    <2>5. PICK t : t = SettleOrForget(won, g, results, unread) /\ Become(t)
        BY <2>4
    <2>6. won = Changed(Now, g, b)
        BY <2>2, NowChanged
    <2>7. Follows(g, b)
        BY <1>1, <1>3, <1>7 DEF Good, RoomSound, Follows
    <2>8. /\ Outcome(Now, won, delivery, g) /\ Pays(Now, won) /\ IsState(won)
          /\ won.room = room /\ won.sess = sess /\ won.paid = paid /\ won.refused = refused
          /\ DOMAIN won.battles = DOMAIN battles
          /\ won.battles[g] = [type |-> battles[g].type, b |-> b]
          /\ \A k \in DOMAIN battles \ {g} : won.battles[k] = battles[k]
        BY <1>7, <2>6, <2>7, ChangedOutcome
    <2>9. Final(results) /\ Settled(won.room)
        BY <1>1, <2>3, <2>8 DEF Everybody, Final, Results
    <2>10. /\ Outcome(won, t, delivery, g)
           /\ \/ \E actor \in Playing(won, g) : Refused(won, actor, g, results) /\ t = won
              \/ Unread(won, t, g)
              \/ t.battles = Drop(won.battles, g) /\ PaysOut(won, t, g)
        BY <2>5, <2>8, <2>9, SettleOrForgetOutcome
    <2>11. Outcome(Now, t, delivery, g)
        BY <1>1, <2>8, <2>10, OutcomeComposes
    <2> QED
        BY <1>5, <2>5, <2>11
<1>8. g \in DOMAIN battles \/ (room' = room /\ sess' = sess /\ battles' = battles /\ paid' = paid /\ refused' = refused)
    BY DEF Finale
<1> QED
    BY <1>6, <1>7, <1>8

-----------------------------------------------------------------------------
(* The sessions hear of matches *)

\* A session S with the mail m has become T with the mail k: it is where it was, or
\* has read its mail, which may now tell of the start of the games in X.
Heard(S, T, m, k, X) ==
    /\ T.in = S.in /\ (T = S \/ T.game = 0 \/ (T.in /\ T.stage # 0))
    /\ \/ T.game = S.game /\ \A h : Started(k, h) => Started(m, h) \/ h \in X
       \/ k = <<>> /\ S.in /\ (Started(m, T.game) \/ T.game \in X)

LEMMA ReadHeard ==
    ASSUME NEW S \in Sessions, NEW m \in Seq(News), S.game # 0 => S.in
    PROVE  Read(S, m) \in Sessions /\ Heard(S, Read(S, m), m, <<>>, {})
<1>1. PICK T : T = Read(S, m)
    OBVIOUS
<1>2. /\ T \in Sessions /\ T.in = S.in /\ (T.game = S.game \/ (S.in /\ Started(m, T.game)))
      /\ T = S \/ (S.in /\ T.stage # 0)
    BY <1>1, ReadIsSession
<1>3. \A h : ~Started(<<>>, h)
    BY DEF Started
<1> QED
    BY <1>1, <1>2, <1>3 DEF Heard

\* Whoever is in who, and in the room, hears of x.
LEMMA ProjectHeard ==
    ASSUME Inv, NEW x \in News, NEW who, NEW missed, Project(who, missed, x)
    PROVE  /\ sess' \in [Players -> Sessions] /\ mail' \in [Players -> Seq(News)]
           /\ \A p \in Players :
                 /\ Heard(sess[p], sess'[p], mail[p], mail'[p], IF x.stage = 1 THEN {x.game} ELSE {})
                 /\ p \notin who \/ ~sess[p].in => sess'[p] = sess[p] /\ mail'[p] = mail[p]
                 /\ p \notin missed => mail'[p] \in {mail[p], <<>>}
                 /\ \A i \in DOMAIN mail'[p] :
                       mail'[p][i].game = x.game \/ \E j \in DOMAIN mail[p] : mail'[p][i].game = mail[p][j].game
<1>1. /\ sess \in [Players -> Sessions] /\ mail \in [Players -> Seq(News)]
      /\ \A p \in Players : sess[p].game # 0 => sess[p].in
    BY NowIsState DEF IsState, Typed, Good, SessionsSound
<1>2. PICK told : told = {p \in who : sess[p].in}
    OBVIOUS
<1>3. PICK X : X = IF x.stage = 1 THEN {x.game} ELSE {}
    OBVIOUS
<1>4. /\ missed \subseteq told
      /\ sess' = [p \in Players |-> IF p \in told \ missed THEN Read(sess[p], Append(mail[p], x)) ELSE sess[p]]
      /\ mail' = [p \in Players |-> IF p \in missed THEN Append(mail[p], x)
                                    ELSE IF p \in told THEN <<>> ELSE mail[p]]
    BY <1>2 DEF Project
<1>5. ASSUME NEW p \in Players
      PROVE  /\ sess'[p] \in Sessions /\ mail'[p] \in Seq(News)
             /\ Heard(sess[p], sess'[p], mail[p], mail'[p], X)
             /\ p \notin who \/ ~sess[p].in => sess'[p] = sess[p] /\ mail'[p] = mail[p]
             /\ p \notin missed => mail'[p] \in {mail[p], <<>>}
             /\ \A i \in DOMAIN mail'[p] :
                   mail'[p][i].game = x.game \/ \E j \in DOMAIN mail[p] : mail'[p][i].game = mail[p][j].game
    <2>1. PICK S \in Sessions, m \in Seq(News) : S = sess[p] /\ m = mail[p]
        BY <1>1
    <2>2. PICK long : long = Append(m, x)
        OBVIOUS
    <2>3. /\ long \in Seq(News)
          /\ \A h : Started(long, h) <=> Started(m, h) \/ (x.stage = 1 /\ x.game = h)
        BY <2>2, StartedAppend
    <2>4. \A h : Started(long, h) => Started(m, h) \/ h \in X
        BY <1>3, <2>3
    <2>5. CASE p \notin told
        <3>1. sess'[p] = S /\ mail'[p] = m
            BY <1>4, <2>1, <2>5
        <3>2. Heard(S, S, m, m, X)
            BY DEF Heard
        <3> QED
            BY <2>1, <3>1, <3>2
    <2>6. CASE p \in told \ missed
        <3>1. PICK T : T = Read(S, long)
            OBVIOUS
        <3>2. sess'[p] = T /\ mail'[p] = <<>>
            BY <1>4, <2>1, <2>2, <2>6, <3>1
        <3>3. S.game # 0 => S.in
            BY <1>1, <2>1
        <3>4. T \in Sessions /\ Heard(S, T, long, <<>>, {})
            BY <2>3, <3>1, <3>3, ReadHeard
        <3>5. Heard(S, T, m, <<>>, X)
            BY <2>4, <3>4 DEF Heard, Started
        <3>6. <<>> \in Seq(News)
            OBVIOUS
        <3> QED
            BY <1>2, <2>1, <2>6, <3>2, <3>4, <3>5, <3>6
    <2>7. CASE p \in missed
        <3>1. sess'[p] = S /\ mail'[p] = long
            BY <1>4, <2>1, <2>2, <2>7
        <3>2. Heard(S, S, m, long, X)
            BY <2>4 DEF Heard
        <3>3. \A i \in DOMAIN long : long[i].game = x.game \/ \E j \in DOMAIN m : long[i].game = m[j].game
            BY <2>2
        <3> QED
            BY <1>2, <1>4, <2>1, <2>3, <2>7, <3>1, <3>2, <3>3, ZenonT(30)
    <2> QED
        BY <2>5, <2>6, <2>7
<1>6. sess' \in [Players -> Sessions] /\ mail' \in [Players -> Seq(News)]
    BY <1>4, <1>5
<1> QED
    BY <1>3, <1>5, <1>6

\* Sessions that hear what is in their mail keep the invariant, and whoever is in a
\* running competitive match stays there.
LEMMA HeardKeepsGood ==
    ASSUME NEW s, NEW t, NEW m, NEW k, NEW d, NEW c, NEW f, NEW n,
           Typed(s, m, d), Good(s, m, d, c, f, n), n \in 0..MaxGames, IsState(t),
           t.room = s.room, t.battles = s.battles, t.paid = s.paid /\ t.refused = s.refused,
           k \in [Players -> Seq(News)],
           \A p \in Players : Heard(s.sess[p], t.sess[p], m[p], k[p], {}),
           \A p \in Players : \A i \in DOMAIN k[p] : k[p][i].game \in 1..n
    PROVE  Typed(t, k, d) /\ Good(t, k, d, c, f, n) /\ Pays(s, t)
<1>1. IsState(s) /\ Roster(s.room) \subseteq Players /\ DOMAIN s.battles \subseteq Games /\ n \in Nat
      /\ \A p \in Players : s.sess[p] \in Sessions /\ t.sess[p] \in Sessions
    BY MatchesAssumption DEF Typed, IsState, IsRoom
<1>2. ASSUME NEW p \in Players
      PROVE  /\ t.sess[p].in = s.sess[p].in
             /\ t.sess[p] = s.sess[p] \/ t.sess[p].game = 0 \/ (t.sess[p].in /\ t.sess[p].stage # 0)
             /\ \/ t.sess[p].game = s.sess[p].game /\ \A h : Started(k[p], h) => Started(m[p], h)
                \/ s.sess[p].in /\ (\A h : ~Started(k[p], h)) /\ Started(m[p], t.sess[p].game)
    <2>1. \A h : ~Started(<<>>, h)
        BY DEF Started
    <2> QED
        BY <2>1 DEF Heard
<1>3. \A p \in Players : \A h : Enters(t, k, p, h) => Enters(s, m, p, h)
    BY <1>2 DEF Enters
<1>4. \A p \in Players : \A h : Started(m[p], h) => h \in 1..n /\ h \in Games
    <2>1. \A p \in Players : \A i \in DOMAIN m[p] : m[p][i].game \in 1..n
        BY DEF Good, Allocated
    <2>2. \A h \in 1..n : h \in Games
        BY MatchesAssumption DEF Games
    <2> QED
        BY <2>1, <2>2 DEF Started
<1>5. RoomSound(t, c, f, d)
    BY DEF Good, RoomSound
<1>6. Allocated(t, k, d, n)
    <2>1. \A h \in 1..n : h \in 0..n
        BY <1>1
    <2>2. \A p \in Players : t.sess[p].game \in 0..n
        BY <1>2, <1>4, <2>1 DEF Good, Allocated
    <2> QED
        BY <2>2 DEF Good, Allocated
<1>7. SessionsSound(t)
    BY <1>2 DEF Good, SessionsSound
<1>8. AccountsSound(t, k)
    BY <1>3 DEF Good, AccountsSound
<1>9. MailSound(t, k)
    BY <1>2 DEF Good, MailSound
<1>10. DeliveriesSound(t, k, d)
    BY <1>2, <1>4 DEF Good, DeliveriesSound
<1>11. MembersSound(t, k)
    BY <1>1, <1>3 DEF Good, MembersSound
<1>12. ResultsSound(t, d)
    <2>1. \A p \in Players : Delivers(d, p) => t.sess[p].game = s.sess[p].game
        BY <1>2, <1>4 DEF Good, DeliveriesSound
    <2> QED
        BY <2>1 DEF Good, ResultsSound
<1>13. Typed(t, k, d)
    BY DEF Typed
<1>14. Pays(s, t)
    <2> SUFFICES ASSUME NEW p \in Players, NEW g \in DOMAIN s.battles,
                        s.battles[g].type = "competitive", s.sess[p].game = g, t.sess[p].game # g
                 PROVE  FALSE
        BY DEF Pays
    <2>1. s.sess[p].in /\ Started(m[p], t.sess[p].game) /\ t.sess[p].game \in Games
        BY <1>2, <1>4
    <2>2. s.room.settings.type # "adventure"
        BY DEF Good, RoomSound
    <2>3. p \in Roster(s.room)
        BY <2>1, <2>2 DEF Good, SessionsSound
    <2> QED
        BY <2>1, <2>3 DEF Good, MailSound
<1> QED
    BY <1>5, <1>6, <1>7, <1>8, <1>9, <1>10, <1>11, <1>12, <1>13, <1>14 DEF Good

\* A session reads the mail it has got while it was busy.
LEMMA ReadMailStep ==
    ASSUME Inv, NEW p \in Players, ReadMail(p)
    PROVE  Keeps
<1>1. /\ IsState(Now)
      /\ Now.room = room /\ Now.sess = sess /\ Now.battles = battles /\ Now.paid = paid
      /\ Now.refused = refused
      /\ Typed(Now, mail, delivery) /\ Good(Now, mail, delivery, clock, finales, games)
      /\ Ends(Now, delivery, clock) /\ games \in 0..MaxGames
    BY NowIsState
<1>2. /\ sess' = [sess EXCEPT ![p] = Read(@, mail[p])] /\ mail' = [mail EXCEPT ![p] = <<>>]
      /\ room' = room /\ battles' = battles /\ clock' = clock /\ finales' = finales
      /\ delivery' = delivery /\ paid' = paid /\ refused' = refused /\ games' = games
    BY DEF ReadMail
<1>3. sess \in [Players -> Sessions] /\ mail \in [Players -> Seq(News)] /\ (sess[p].game # 0 => sess[p].in)
    BY <1>1 DEF IsState, Typed, Good, SessionsSound
<1>4. PICK T, k : T = sess' /\ k = mail'
    OBVIOUS
<1>5. Read(sess[p], mail[p]) \in Sessions /\ Heard(sess[p], Read(sess[p], mail[p]), mail[p], <<>>, {})
    BY <1>3, ReadHeard
<1>6. T \in [Players -> Sessions] /\ k \in [Players -> Seq(News)]
    <2>1. <<>> \in Seq(News)
        OBVIOUS
    <2> QED
        BY <1>2, <1>3, <1>4, <1>5, <2>1
<1>7. ASSUME NEW q \in Players
      PROVE  Heard(sess[q], T[q], mail[q], k[q], {}) /\ \A i \in DOMAIN k[q] : k[q][i].game \in 1..games
    <2>1. CASE q = p
        BY <1>2, <1>3, <1>4, <1>5, <2>1
    <2>2. CASE q # p
        <3>1. T[q] = sess[q] /\ k[q] = mail[q]
            BY <1>2, <1>3, <1>4, <2>2
        <3>2. \A i \in DOMAIN mail[q] : mail[q][i].game \in 1..games
            BY <1>1 DEF Good, Allocated
        <3> QED
            BY <3>1, <3>2 DEF Heard
    <2> QED
        BY <2>1, <2>2
<1>8. PICK t : t = [room |-> room, sess |-> T, battles |-> battles, paid |-> paid, refused |-> refused]
    OBVIOUS
<1>9. t.room = Now.room /\ t.sess = T /\ t.battles = Now.battles /\ t.paid = Now.paid
      /\ t.refused = Now.refused
    BY <1>1, <1>8
<1>10. IsState(t)
    BY <1>1, <1>6, <1>8, StateOf DEF IsState
<1>11. Typed(t, k, delivery) /\ Good(t, k, delivery, clock, finales, games) /\ Pays(Now, t)
    BY <1>1, <1>6, <1>7, <1>9, <1>10, HeardKeepsGood
<1>12. Now' = t
    BY <1>2, <1>4, <1>8 DEF Now
<1>13. Ends(t, delivery, clock)
    BY <1>1, <1>9 DEF Ends
<1>14. Inv'
    BY <1>2, <1>4, <1>11, <1>12, <1>13 DEF Inv, TInv, GInv, EInv
<1> QED
    BY <1>11, <1>12, <1>14 DEF Keeps

\* The next map of an adventure, or behind the last one its victory.
LEMMA NextMapStep ==
    ASSUME Inv, NEW r \in Players, NEW missed, NextMap(r, missed)
    PROVE  Keeps
<1>1. /\ IsState(Now) /\ Settled(Now.room)
      /\ Now.room = room /\ Now.sess = sess /\ Now.battles = battles /\ Now.paid = paid
      /\ Now.refused = refused
      /\ Typed(Now, mail, delivery) /\ Good(Now, mail, delivery, clock, finales, games)
      /\ games \in 0..MaxGames /\ clock \subseteq Games /\ finales \subseteq Games /\ Fewer(mail, mail)
    BY NowIsState DEF Inv, TInv
<1>2. PICK g, b : g = sess[r].game /\ b = battles[g].b
    OBVIOUS
<1>3. /\ Plays(r, "adventure") /\ g \in Battles("adventure") /\ mail[r] = <<>> /\ delivery[r] = Idle
      /\ g \in DOMAIN battles /\ g \in Games /\ battles[g].type = "adventure"
      /\ room.settings.type = "adventure"
    BY <1>2, PlaysFields, NowIsState DEF NextMap
<1>4. /\ room' = room /\ clock' = clock /\ finales' = finales /\ paid' = paid
      /\ refused' = refused /\ games' = games
    BY DEF NextMap
<1>5. CASE /\ Deliver(r, "result", g, Everybody(b.members, "win"))
           /\ battles' = battles /\ sess' = sess /\ mail' = mail
    <2>1. PICK results : results = Everybody(b.members, "win")
        OBVIOUS
    <2>2. \A p \in DOMAIN results : results[p] \in Results
        BY <2>1 DEF Everybody, Results
    <2>3. Deliver(r, "result", g, results)
        BY <1>5, <2>1
    <2>4. Outcome(Now, Now, delivery, g) /\ Become(Now)
        BY <1>1, <1>4, <1>5, OutcomeOfNothing DEF Become
    <2> QED
        BY <1>1, <1>2, <1>3, <1>4, <1>5, <2>2, <2>3, <2>4, StageDeliverStep
<1>6. CASE /\ sess[r].stage < Stages /\ r \notin missed
           /\ \E n \in NPCs : battles' = With(g, A!AdvanceStage(b, n))
           /\ Project(b.alive, missed, [game |-> g, stage |-> sess[r].stage + 1])
           /\ \/ delivery' = delivery
              \/ Deliver(r, "stage", g, [p \in A!SettledOut(b) |-> IF sess[p].in THEN "loss" ELSE "absent"])
    <2>1. PICK B, n : B = A!AdvanceStage(b, n) /\ battles' = With(g, B)
        BY <1>6
    <2>2. PICK s : s = Changed(Now, g, B)
        OBVIOUS
    <2>3. Follows(g, B)
        BY <1>3 DEF Follows
    <2>4. /\ Outcome(Now, s, delivery, g) /\ Pays(Now, s) /\ IsState(s)
          /\ s.room = room /\ s.sess = sess /\ s.paid = paid /\ s.refused = refused
          /\ DOMAIN s.battles = DOMAIN battles
          /\ s.battles[g] = [type |-> battles[g].type, b |-> B]
          /\ \A k \in DOMAIN battles \ {g} : s.battles[k] = battles[k]
        BY <1>3, <2>2, <2>3, ChangedOutcome
    <2>5. Typed(s, mail, delivery) /\ Good(s, mail, delivery, clock, finales, games)
        BY <1>1, <2>4, OutcomeKeepsGood
    <2>6. PICK x : x = [game |-> g, stage |-> sess[r].stage + 1]
        OBVIOUS
    <2>7. x \in News /\ x.stage # 1 /\ x.game = g
        <3>1. sess[r] \in Sessions /\ sess[r].stage # 0
            BY <1>1, <1>2, <1>3 DEF IsState, Good, SessionsSound, Games
        <3>2. sess[r].stage + 1 \in 1..Stages /\ sess[r].stage + 1 # 1
            BY <1>6, <3>1, MatchesAssumption DEF Sessions
        <3> QED
            BY <1>3, <2>6, <3>2 DEF News
    <2>8. Project(b.alive, missed, x)
        BY <1>6, <2>6
    <2>9. /\ sess' \in [Players -> Sessions] /\ mail' \in [Players -> Seq(News)]
          /\ \A p \in Players :
                 /\ Heard(sess[p], sess'[p], mail[p], mail'[p], IF x.stage = 1 THEN {x.game} ELSE {})
                 /\ p \notin b.alive \/ ~sess[p].in => sess'[p] = sess[p] /\ mail'[p] = mail[p]
                 /\ p \notin missed => mail'[p] \in {mail[p], <<>>}
                 /\ \A i \in DOMAIN mail'[p] :
                       mail'[p][i].game = x.game \/ \E j \in DOMAIN mail[p] : mail'[p][i].game = mail[p][j].game
        BY <2>7, <2>8, ProjectHeard
    <2>10. PICK T, k : T = sess' /\ k = mail'
        OBVIOUS
    <2>11. T \in [Players -> Sessions] /\ k \in [Players -> Seq(News)]
        BY <2>9, <2>10
    <2>12. \A p \in Players : Heard(sess[p], T[p], mail[p], k[p], {})
        BY <2>7, <2>9, <2>10
    <2>13. ASSUME NEW p \in Players
           PROVE  \A i \in DOMAIN k[p] : k[p][i].game \in 1..games
        <3>1. g \in 1..games
            BY <1>1, <1>3 DEF Good, Allocated
        <3>2. \A j \in DOMAIN mail[p] : mail[p][j].game \in 1..games
            BY <1>1 DEF Good, Allocated
        <3> QED
            BY <2>7, <2>9, <2>10, <3>1, <3>2
    <2>14. PICK t : t = [room |-> room, sess |-> T, battles |-> s.battles, paid |-> paid,
                         refused |-> refused]
        OBVIOUS
    <2>15. t.room = s.room /\ t.sess = T /\ t.battles = s.battles /\ t.paid = s.paid
           /\ t.refused = s.refused
        BY <2>4, <2>14
    <2>16. IsState(t)
        <3>1. /\ IsRoom(room) /\ paid \in [Players -> Seq(Payments)] /\ DOMAIN s.battles \subseteq Games
              /\ \A h \in DOMAIN s.battles : IsBattle(s.battles[h])
              /\ refused \in SUBSET Games
            BY <2>4 DEF IsState
        <3> QED
            BY <2>11, <2>14, <3>1, StateOf
    <2>17. \A p \in Players : Heard(s.sess[p], t.sess[p], mail[p], k[p], {})
        BY <2>4, <2>12, <2>15
    <2>18. Typed(t, k, delivery) /\ Good(t, k, delivery, clock, finales, games) /\ Pays(s, t)
        BY <1>1, <2>5, <2>11, <2>13, <2>15, <2>16, <2>17, HeardKeepsGood
    <2>19. PICK e : e = delivery'
        OBVIOUS
    <2>20. Typed(t, k, e) /\ Good(t, k, e, clock, finales, games)
        <3>1. CASE e = delivery
            BY <2>18, <3>1
        <3>2. CASE Deliver(r, "stage", g, [p \in A!SettledOut(b) |-> IF sess[p].in THEN "loss" ELSE "absent"])
            <4>1. PICK results : results = [p \in A!SettledOut(b) |-> IF sess[p].in THEN "loss" ELSE "absent"]
                OBVIOUS
            <4>2. PICK y : y = [kind |-> "stage", game |-> g, results |-> results]
                OBVIOUS
            <4>3. y.kind = "stage" /\ y.game = g /\ y.results = results
                BY <4>2
            <4>4. e = [delivery EXCEPT ![r] = y]
                BY <2>19, <3>2, <4>1, <4>2 DEF Deliver
            <4>5. IsDelivery(y)
                <5>1. \A p \in DOMAIN results : results[p] \in {"loss", "absent"}
                    BY <4>1
                <5>2. g \in 0..MaxGames /\ g # 0
                    BY <1>3, MatchesAssumption DEF Games
                <5>3. y = [kind |-> y.kind, game |-> y.game, results |-> y.results]
                    BY <4>2
                <5> QED
                    BY <4>3, <5>1, <5>2, <5>3 DEF IsDelivery
            <4>6. k[r] = <<>>
                BY <1>3, <1>6, <2>9, <2>10
            <4>7. t.sess[r].game = y.game
                <5>1. ~Started(mail[r], T[r].game)
                    BY <1>3 DEF Started
                <5> QED
                    BY <1>2, <2>12, <2>15, <4>3, <5>1 DEF Heard
            <4>8. /\ y.kind # "idle" /\ y.game \in DOMAIN t.battles
                  /\ t.battles[y.game].type # "competitive"
                BY <1>3, <2>4, <2>15, <4>3
            <4> QED
                BY <2>18, <4>4, <4>5, <4>6, <4>7, <4>8, DeliverKeepsGood
        <3> QED
            BY <1>6, <2>19, <3>1, <3>2
    <2>21. Now' = t
        <3>1. t.battles = battles'
            <4>1. PICK W : W = With(g, B)
                OBVIOUS
            <4>2. s = [Now EXCEPT !.battles = W]
                BY <2>2, <4>1, NowChanged
            <4>3. s.battles = W
                BY <4>2 DEF Now
            <4> QED
                BY <2>1, <2>15, <4>1, <4>3
        <3> QED
            BY <1>4, <2>10, <2>14, <2>15, <3>1 DEF Now
    <2>22. room.settings.type = t.room.settings.type
        BY <2>4, <2>15
    <2>23. Ends(t, e, clock)
        BY <1>3, <2>20, <2>22, AdventuresEnd
    <2>24. Pays(Now, t)
        BY <1>1, <1>3, AdventuresPay
    <2>25. Inv'
        BY <1>1, <1>4, <2>10, <2>19, <2>20, <2>21, <2>23 DEF Inv, TInv, GInv, EInv
    <2> QED
        BY <2>21, <2>24, <2>25 DEF Keeps
<1>7. \/ /\ Deliver(r, "result", g, Everybody(b.members, "win"))
         /\ battles' = battles /\ sess' = sess /\ mail' = mail
      \/ /\ sess[r].stage < Stages /\ r \notin missed
         /\ \E n \in NPCs : battles' = With(g, A!AdvanceStage(b, n))
         /\ Project(b.alive, missed, [game |-> g, stage |-> sess[r].stage + 1])
         /\ \/ delivery' = delivery
            \/ Deliver(r, "stage", g, [p \in A!SettledOut(b) |-> IF sess[p].in THEN "loss" ELSE "absent"])
    BY <1>2 DEF NextMap
<1> QED
    BY <1>5, <1>6, <1>7

-----------------------------------------------------------------------------
(* The room between two matches *)

\* A message of p about a room without a match, of which p is then a member.
LEMMA RoomStep ==
    ASSUME Inv, NEW p \in Players, mail[p] = <<>>, delivery[p] = Idle,
           Roster(room) = {} \/ room.game = 0, sess[p].game = 0 \/ p \in Roster(room),
           NEW R, IsRoom(R), R.settings.type = room.settings.type, R.phase = "preparing", R.game = 0,
           Roster(R) = Roster(room) \cup {p},
           \A q \in Roster(room) \ {p} : R.members[q].ready => room.members[q].ready,
           NEW T \in [Players -> Sessions], T[p].in, T[p] = [sess[p] EXCEPT !.in = TRUE] \/ T[p].game = 0,
           sess[p].game # 0 => T[p] = sess[p] \/ T[p].game = 0,
           \A q \in Players \ {p} : T[q] = sess[q],
           room' = R, sess' = T, mail' = mail, battles' = battles, clock' = clock, finales' = finales,
           delivery' = delivery, paid' = paid /\ refused' = refused, games' = games
    PROVE  Keeps
<1>1. /\ IsState(Now)
      /\ Now.room = room /\ Now.sess = sess /\ Now.battles = battles /\ Now.paid = paid
      /\ Now.refused = refused
      /\ Typed(Now, mail, delivery) /\ Good(Now, mail, delivery, clock, finales, games)
      /\ Ends(Now, delivery, clock) /\ games \in 0..MaxGames
      /\ \A h \in DOMAIN battles : h \in Games /\ h # 0
    BY NowIsState
<1>2. PICK t : t = [room |-> R, sess |-> T, battles |-> battles, paid |-> paid, refused |-> refused]
    OBVIOUS
<1>3. t.room = R /\ t.sess = T /\ t.battles = battles /\ t.paid = paid /\ t.refused = refused
    BY <1>2
<1>4. IsState(t)
    BY <1>1, <1>2, StateOf DEF IsState
<1>5. Now' = t
    BY <1>2 DEF Now
<1>6. /\ \A h : ~Started(mail[p], h)
      /\ ~Delivers(delivery, p)
      /\ Roster(room) \subseteq Players
    BY <1>1 DEF Started, Delivers, Idle, IsState, IsRoom
<1>7. T[p] = sess[p] \/ T[p].game = 0
    <2>1. T[p] \in Sessions /\ sess[p] \in Sessions
        BY <1>1 DEF IsState
    <2>2. sess[p].game = 0 => T[p].game = 0
        BY <2>1 DEF Sessions
    <2> QED
        BY <2>2
<1>8. \A q \in Roster(room), h \in DOMAIN battles : ~Enters(Now, mail, q, h)
    BY <1>1 DEF Good, MembersSound
<1>9. \A q \in Players : \A h : Enters(t, mail, q, h) => Enters(Now, mail, q, h) \/ h = 0
    BY <1>1, <1>3, <1>7 DEF Enters
<1>10. \A q \in Roster(R), h \in DOMAIN battles : ~Enters(t, mail, q, h)
    <2> SUFFICES ASSUME NEW q \in Roster(R), NEW h \in DOMAIN battles, Enters(t, mail, q, h)
                 PROVE  FALSE
        OBVIOUS
    <2>1. q \notin Roster(room)
        BY <1>1, <1>6, <1>8, <1>9
    <2>2. q = p /\ sess[p].game = 0
        BY <2>1
    <2>3. T[p].game = 0
        BY <1>7, <2>2
    <2> QED
        BY <1>1, <1>3, <1>6, <2>2, <2>3 DEF Enters
<1>11. Typed(t, mail, delivery)
    BY <1>1, <1>4 DEF Typed
<1>12. RoomSound(t, clock, finales, delivery)
    BY <1>1, <1>3 DEF Good, RoomSound
<1>13. Allocated(t, mail, delivery, games)
    <2>1. 0 \in 0..games
        BY <1>1, MatchesAssumption
    <2>2. \A q \in Players : t.sess[q].game \in 0..games
        BY <1>1, <1>3, <1>7, <2>1 DEF Good, Allocated
    <2> QED
        BY <1>1, <1>3, <2>1, <2>2 DEF Good, Allocated
<1>14. SessionsSound(t)
    <2> SUFFICES ASSUME NEW q \in Players
                 PROVE  /\ q \in Roster(R) => T[q].in
                        /\ T[q].in /\ R.settings.type # "adventure" => q \in Roster(R)
                        /\ T[q].game # 0 => T[q].in /\ T[q].stage # 0
        BY <1>3 DEF SessionsSound
    <2>1. /\ q \in Roster(room) => sess[q].in
          /\ sess[q].in /\ room.settings.type # "adventure" => q \in Roster(room)
          /\ sess[q].game # 0 => sess[q].in /\ sess[q].stage # 0
        BY <1>1 DEF Good, SessionsSound
    <2>2. CASE q = p
        BY <1>7, <2>1, <2>2
    <2>3. CASE q # p
        BY <2>1, <2>3
    <2> QED
        BY <2>2, <2>3
<1>15. AccountsSound(t, mail)
    <2>1. \A q \in Players : \A i \in DOMAIN paid[q] : paid[q][i].game # 0
        <3>1. \A q \in Players : \A i \in DOMAIN paid[q] : paid[q][i].game \in 1..games
            BY <1>1 DEF Good, Allocated
        <3> QED
            BY <1>1, <3>1
    <2> QED
        BY <1>1, <1>3, <1>9, <2>1 DEF Good, AccountsSound
<1>16. MailSound(t, mail)
    <2> SUFFICES ASSUME NEW q \in Players, NEW h \in Games, Started(mail[q], h)
                 PROVE  /\ T[q].game # h
                        /\ q \in Roster(R) => T[q].game \notin DOMAIN battles
        BY <1>3 DEF MailSound
    <2>1. q # p
        BY <1>6
    <2> QED
        BY <1>1, <2>1 DEF Good, MailSound
<1>17. DeliveriesSound(t, mail, delivery)
    <2> SUFFICES ASSUME NEW q \in Players, Delivers(delivery, q)
                 PROVE  /\ T[q].game \in {0, delivery[q].game}
                        /\ \A h \in Games : ~Started(mail[q], h)
                        /\ q \in Roster(R) => ~R.members[q].ready
        BY <1>3 DEF DeliveriesSound
    <2>1. /\ sess[q].game \in {0, delivery[q].game}
          /\ \A h \in Games : ~Started(mail[q], h)
          /\ q \in Roster(room) /\ room.phase = "preparing" => ~room.members[q].ready
        BY <1>1 DEF Good, DeliveriesSound
    <2>2. q # p
        BY <1>6
    <2>3. q \in Roster(R) => room.phase = "preparing" /\ q \in Roster(room)
        BY <1>1, <2>2 DEF Good, RoomSound
    <2> QED
        BY <2>1, <2>2, <2>3
<1>18. MembersSound(t, mail)
    BY <1>3, <1>10 DEF MembersSound
<1>19. ResultsSound(t, delivery)
    BY <1>1, <1>3, <1>6 DEF Good, ResultsSound
<1>20. Good(t, mail, delivery, clock, finales, games)
    BY <1>12, <1>13, <1>14, <1>15, <1>16, <1>17, <1>18, <1>19 DEF Good
<1>21. Ends(t, delivery, clock)
    BY <1>1, <1>3 DEF Ends
<1>22. Inv'
    BY <1>5, <1>11, <1>20, <1>21 DEF Inv, TInv, GInv, EInv
<1>23. Pays(Now, t)
    <2> SUFFICES ASSUME NEW q \in Players, NEW h \in DOMAIN battles, sess[q].game = h, T[q].game # h
                 PROVE  FALSE
        BY <1>1, <1>3 DEF Pays
    <2>1. q = p /\ p \in Roster(room)
        BY <1>1
    <2> QED
        BY <1>1, <1>8, <2>1 DEF Enters
<1> QED
    BY <1>5, <1>22, <1>23 DEF Keeps

\* A session comes into the room.
LEMMA EnterStep ==
    ASSUME Inv, NEW p \in Players, Enter(p)
    PROVE  Keeps
<1>1. /\ IsRoom(room) /\ sess \in [Players -> Sessions]
      /\ room.phase = "preparing" <=> room.game = 0
    BY NowIsState DEF IsState, Good, RoomSound
<1>2. /\ mail[p] = <<>> /\ delivery[p] = Idle /\ sess[p].game = 0
      /\ sess' = [sess EXCEPT ![p].in = TRUE]
      /\ mail' = mail /\ battles' = battles /\ clock' = clock /\ finales' = finales
      /\ delivery' = delivery /\ paid' = paid /\ refused' = refused /\ games' = games
    BY DEF Enter, Acts
<1>3. PICK T : T = sess'
    OBVIOUS
<1>4. /\ T \in [Players -> Sessions] /\ T[p].in /\ T[p] = [sess[p] EXCEPT !.in = TRUE]
      /\ \A q \in Players \ {p} : T[q] = sess[q]
    BY <1>1, <1>2, <1>3 DEF Sessions
<1>5. PICK R : R = room'
    OBVIOUS
<1>6. /\ Roster(room) = {} \/ room.game = 0
      /\ IsRoom(R) /\ R.settings.type = room.settings.type /\ R.phase = "preparing" /\ R.game = 0
      /\ Roster(R) = Roster(room) \cup {p}
      /\ \A q \in Roster(room) \ {p} : R.members[q].ready => room.members[q].ready
    <2>1. CASE Roster(room) = {}
        <3>1. PICK settings : settings = [type |-> room.settings.type, fixed |-> FALSE, limit |-> 0]
            OBVIOUS
        <3>2. R = NewRoom(p, settings, FALSE)
            BY <1>5, <2>1, <3>1 DEF Enter, Created
        <3>3. settings \in Settings /\ settings.type = room.settings.type
            BY <1>1, <3>1, RoomFields, RoomAssumption DEF Settings
        <3>4. IsRoom(R)
            BY <3>2, <3>3, NewRoomIsRoom
        <3>5. /\ R.settings = settings /\ R.phase = "preparing" /\ R.game = 0
              /\ Roster(R) = {p}
            BY <3>2 DEF NewRoom, Roster
        <3> QED
            BY <2>1, <3>3, <3>4, <3>5
    <2>2. CASE Roster(room) # {}
        <3>1. CanJoin(room, p) /\ R = Join(room, p, 1)
            BY <1>5, <2>2 DEF Enter
        <3>2. room.phase = "preparing" /\ p \notin Roster(room) /\ Free(room) # {}
            BY <3>1 DEF CanJoin
        <3>3. IsRoom(R)
            BY <1>1, <3>1, <3>2, JoinIsRoom, RoomAssumption
        <3>4. Roster(R) = Roster(room) \cup {p}
            BY <1>1, <3>1, JoinRoster
        <3>5. R.phase = room.phase /\ R.game = room.game
            BY <1>1, <3>1, PreparationKeepsPhase
        <3>6. R.settings = room.settings /\ \A q \in Roster(room) \ {p} : R.members[q] = room.members[q]
            <4>1. PICK x : x = [team |-> 1, seat |-> FirstAvailableSeat(room), ready |-> FALSE]
                OBVIOUS
            <4>2. R = [room EXCEPT !.members = Put(room.members, p, x)]
                BY <3>1, <4>1 DEF Join
            <4>3. PICK M : M = Put(room.members, p, x)
                OBVIOUS
            <4>4. R = [room EXCEPT !.members = M]
                BY <4>2, <4>3
            <4>5. R.settings = room.settings /\ R.members = M
                BY <1>1, <4>4, RoomFields
            <4>6. \A q \in Roster(room) \ {p} : M[q] = room.members[q]
                BY <4>3 DEF Put, Roster
            <4> QED
                BY <4>5, <4>6
        <3> QED
            BY <1>1, <3>2, <3>3, <3>4, <3>5, <3>6
    <2> QED
        BY <2>1, <2>2
<1> QED
    BY <1>2, <1>3, <1>4, <1>5, <1>6, RoomStep

\* A member changes its team or becomes ready.
LEMMA PrepareStep ==
    ASSUME Inv, NEW p \in Players, Prepare(p)
    PROVE  Keeps
<1>1. /\ IsRoom(room) /\ sess \in [Players -> Sessions]
      /\ room.phase = "preparing" <=> room.game = 0
    BY NowIsState DEF IsState, Good, RoomSound
<1>2. /\ mail[p] = <<>> /\ delivery[p] = Idle /\ sess[p].in /\ room.phase = "preparing" /\ p \in Roster(room)
      /\ sess' = sess /\ mail' = mail /\ battles' = battles /\ clock' = clock /\ finales' = finales
      /\ delivery' = delivery /\ paid' = paid /\ refused' = refused /\ games' = games
    BY DEF Prepare, Acts, CanUpdateMember
<1>3. PICK R : R = room'
    OBVIOUS
<1>4. PICK x : R = [room EXCEPT !.members[p] = x] /\ IsRoom(R)
    <2>1. CASE \E team \in Teams : R = SetTeam(room, p, team)
        <3>1. PICK team \in Teams : R = SetTeam(room, p, team)
            BY <2>1
        <3>2. IsRoom(R)
            BY <1>1, <1>2, <3>1, PreparationIsRoom
        <3>3. R = [room EXCEPT !.members[p] = [room.members[p] EXCEPT !.team = team]]
            BY <3>1 DEF SetTeam
        <3> QED
            BY <3>2, <3>3
    <2>2. CASE R = SetReady(room, p, TRUE)
        <3>1. IsRoom(R)
            BY <1>1, <1>2, <2>2, PreparationIsRoom
        <3>2. R = [room EXCEPT !.members[p] = [room.members[p] EXCEPT !.ready = TRUE]]
            BY <2>2 DEF SetReady
        <3> QED
            BY <3>1, <3>2
    <2> QED
        BY <1>3, <2>1, <2>2 DEF Prepare
<1>5. PICK M : M = [room.members EXCEPT ![p] = x]
    OBVIOUS
<1>6. R = [room EXCEPT !.members = M]
    BY <1>4, <1>5
<1>7. R.settings = room.settings /\ R.phase = room.phase /\ R.game = room.game /\ R.members = M
    BY <1>1, <1>6, RoomFields
<1>8. /\ IsRoom(R) /\ R.settings.type = room.settings.type /\ R.phase = "preparing" /\ R.game = 0
      /\ Roster(R) = Roster(room) \cup {p}
      /\ \A q \in Roster(room) \ {p} : R.members[q].ready => room.members[q].ready
    BY <1>1, <1>2, <1>4, <1>5, <1>7 DEF Roster
<1>9. sess[p] \in Sessions
    BY <1>1
<1>10. sess[p] = [sess[p] EXCEPT !.in = TRUE]
    BY <1>2, <1>9 DEF Sessions
<1> QED
    BY <1>1, <1>2, <1>3, <1>8, <1>10, RoomStep

\* The price of a boss cannot be paid: the match that was started is over.
LEMMA StartFailsStep ==
    ASSUME Inv, NEW p \in Players, StartFails(p)
    PROVE  Keeps
<1>1. /\ IsRoom(room) /\ sess \in [Players -> Sessions] /\ games \in 0..MaxGames
      /\ Good(Now, mail, delivery, clock, finales, games) /\ Now.room = room /\ Now.sess = sess
    BY NowIsState DEF IsState
<1>2. /\ mail[p] = <<>> /\ delivery[p] = Idle /\ sess[p].in /\ room.game = 0
      /\ room.settings.type \in Competitive
      /\ sess' = [sess EXCEPT ![p].game = 0, ![p].stage = 0] /\ mail' = mail
      /\ battles' = battles /\ clock' = clock /\ finales' = finales
      /\ delivery' = delivery /\ paid' = paid /\ refused' = refused /\ games' = games
    BY DEF StartFails, Acts, ValidateStart
<1>3. p \in Roster(room)
    BY <1>1, <1>2 DEF Good, SessionsSound, Competitive
<1>4. PICK T : T = sess'
    OBVIOUS
<1>5. T \in [Players -> Sessions] /\ T[p].in /\ T[p].game = 0 /\ \A q \in Players \ {p} : T[q] = sess[q]
    <2>1. 0 \in 0..MaxGames /\ 0 \in 0..Stages
        BY MatchesAssumption
    <2>2. PICK S : S = [sess EXCEPT ![p].game = 0]
        OBVIOUS
    <2>3. T = [S EXCEPT ![p].stage = 0]
        BY <1>2, <1>4, <2>2
    <2>4. /\ S \in [Players -> Sessions] /\ S[p].game = 0 /\ S[p].in = sess[p].in
          /\ \A q \in Players \ {p} : S[q] = sess[q]
        BY <1>1, <2>1, <2>2 DEF Sessions
    <2>5. S[p] \in Sessions
        BY <2>4
    <2>6. /\ [S[p] EXCEPT !.stage = 0] \in Sessions
          /\ [S[p] EXCEPT !.stage = 0].game = S[p].game /\ [S[p] EXCEPT !.stage = 0].in = S[p].in
        BY <2>1, <2>5 DEF Sessions
    <2> QED
        BY <1>2, <2>3, <2>4, <2>6
<1>6. PICK started : started = StartMatch(room, games + 1)
    OBVIOUS
<1>7. IsRoom(started) /\ Roster(started) = Roster(room)
    BY <1>1, <1>6, MatchIsRoom, MatchRosters
<1>8. started.settings = room.settings
    BY <1>1, <1>6, RoomFields DEF StartMatch
<1>9. PICK R : R = CompleteMatch(started)
    OBVIOUS
<1>10. room' = R
    BY <1>6, <1>9 DEF StartFails
<1>11. /\ IsRoom(R) /\ Roster(R) = Roster(started) /\ R.phase = "preparing" /\ R.game = 0
       /\ R.settings = started.settings /\ \A q \in Roster(started) : ~R.members[q].ready
    BY <1>7, <1>9, CompletedRoom
<1>12. /\ R.settings.type = room.settings.type /\ Roster(R) = Roster(room) \cup {p}
       /\ \A q \in Roster(room) \ {p} : R.members[q].ready => room.members[q].ready
    BY <1>3, <1>7, <1>8, <1>11
<1> QED
    BY <1>2, <1>3, <1>4, <1>5, <1>10, <1>11, <1>12, RoomStep

\* The battle of a match that starts counts the members of the room.
LEMMA NewBattles ==
    ASSUME NEW p, IsRoom(room),
           NEW rule \in {"elimination", "boss"}, NEW n
    PROVE  /\ IsBattle(AdventureBattle(p, n)) /\ AdventureBattle(p, n).type = "adventure"
           /\ IsBattle(Battle(p, rule)) /\ Battle(p, rule).type = "competitive"
           /\ C!Roster(Battle(p, rule).b) = Roster(room) /\ Battle(p, rule).b.departed = {}
           /\ ~Battle(p, rule).b.concluded
<1>1. IsBattle(AdventureBattle(p, n)) /\ AdventureBattle(p, n).type = "adventure"
    BY DEF AdventureBattle, IsBattle
<1>2. PICK team : team = [q \in Roster(room) |-> IF rule = "boss" THEN 1 ELSE room.members[q].team]
    OBVIOUS
<1>3. PICK b : b = C!NewBattle(rule, team, {}, p)
    OBVIOUS
<1>4. Battle(p, rule) = [type |-> "competitive", b |-> b]
    BY <1>2, <1>3 DEF Battle
<1>5. /\ BattleFields \subseteq DOMAIN b /\ b.rule = rule /\ b.team = team
      /\ b.departed = {} /\ b.concluded = FALSE
    BY <1>3 DEF C!NewBattle, BattleFields
<1>6. Battle(p, rule).type = "competitive" /\ Battle(p, rule).b = b
    BY <1>4
<1>7. IsBattle(Battle(p, rule))
    BY <1>4, <1>5, <1>6 DEF IsBattle
<1>8. C!Roster(b) = Roster(room)
    BY <1>2, <1>5 DEF C!Roster
<1> QED
    BY <1>1, <1>5, <1>6, <1>7, <1>8

\* What a start does, besides telling the sessions.
LEMMA StartFields ==
    ASSUME Inv, NEW p \in Players, NEW missed, Start(p, missed), NEW g, g = games + 1
    PROVE  /\ mail[p] = <<>> /\ delivery[p] = Idle /\ sess[p].in /\ p = room.owner
           /\ games < MaxGames /\ p \notin missed /\ room.phase = "preparing" /\ room.game = 0
           /\ \A q \in Roster(room) \ {p} : room.members[q].ready
           /\ \E B : /\ battles' = Put(battles, g, B) /\ IsBattle(B)
                     /\ B.type = "adventure" <=> room.settings.type = "adventure"
                     /\ B.type = "competitive" =>
                           /\ C!Roster(B.b) = Roster(room) /\ B.b.departed = {} /\ ~B.b.concluded
                           /\ clock' = clock \cup {g}
                     /\ B.type = "adventure" => clock' = clock
           /\ room' = StartMatch(room, g) /\ games' = g
           /\ Project(Roster(room), missed, [game |-> g, stage |-> 1])
           /\ finales' = finales /\ delivery' = delivery /\ paid' = paid /\ refused' = refused
<1>1. IsRoom(room)
    BY NowIsState DEF IsState
<1>2. CASE /\ room.settings.type = "adventure" /\ ValidateStart(room, p, Ordinary)
           /\ \E n \in NPCs : battles' = Put(battles, g, AdventureBattle(p, n))
           /\ clock' = clock
    <2>1. PICK n : battles' = Put(battles, g, AdventureBattle(p, n))
        BY <1>2
    <2>2. IsBattle(AdventureBattle(p, n)) /\ AdventureBattle(p, n).type = "adventure"
        BY <1>1, NewBattles
    <2>3. PICK B : B = AdventureBattle(p, n)
        OBVIOUS
    <2>4. /\ battles' = Put(battles, g, B) /\ IsBattle(B) /\ B.type = "adventure"
          /\ room.settings.type = "adventure" /\ clock' = clock
        BY <1>2, <2>1, <2>2, <2>3
    <2>5. /\ p = room.owner /\ room.phase = "preparing" /\ room.game = 0
          /\ \A q \in Roster(room) \ {p} : room.members[q].ready
        BY <1>2 DEF ValidateStart, OwnerActs, EveryoneReady
    <2> QED
        BY <2>4, <2>5 DEF Start, Acts
<1>3. CASE /\ room.settings.type \in Competitive
           /\ \E rule \in MapRules :
                 /\ ValidateStart(room, p, IF rule = "boss" THEN BossStart ELSE Ordinary)
                 /\ battles' = Put(battles, g, Battle(p, rule))
           /\ clock' = clock \cup {g}
    <2>1. PICK rule \in MapRules :
                 /\ ValidateStart(room, p, IF rule = "boss" THEN BossStart ELSE Ordinary)
                 /\ battles' = Put(battles, g, Battle(p, rule))
        BY <1>3
    <2>2. rule \in {"elimination", "boss"}
        BY MatchesAssumption
    <2>3. /\ IsBattle(Battle(p, rule)) /\ Battle(p, rule).type = "competitive"
          /\ C!Roster(Battle(p, rule).b) = Roster(room) /\ Battle(p, rule).b.departed = {}
          /\ ~Battle(p, rule).b.concluded
        BY <1>1, <2>2, NewBattles
    <2>4. PICK B : B = Battle(p, rule)
        OBVIOUS
    <2>5. /\ battles' = Put(battles, g, B) /\ IsBattle(B) /\ B.type = "competitive"
          /\ C!Roster(B.b) = Roster(room) /\ B.b.departed = {} /\ ~B.b.concluded
          /\ room.settings.type # "adventure" /\ clock' = clock \cup {g}
        BY <1>3, <2>1, <2>3, <2>4 DEF Competitive
    <2>6. /\ p = room.owner /\ room.phase = "preparing" /\ room.game = 0
          /\ \A q \in Roster(room) \ {p} : room.members[q].ready
        BY <2>1 DEF ValidateStart, OwnerActs, EveryoneReady
    <2> QED
        BY <2>5, <2>6 DEF Start, Acts
<1> QED
    BY <1>2, <1>3 DEF Start

\* A match starts: no member of the room is in a running battle or has anything to
\* commit, because everybody but the owner, who asks for it, is ready.
LEMMA StartStep ==
    ASSUME Inv, NEW p \in Players, NEW missed, Start(p, missed)
    PROVE  Keeps
<1>1. /\ IsState(Now)
      /\ Now.room = room /\ Now.sess = sess /\ Now.battles = battles /\ Now.paid = paid
      /\ Now.refused = refused
      /\ Typed(Now, mail, delivery) /\ Good(Now, mail, delivery, clock, finales, games)
      /\ Ends(Now, delivery, clock) /\ games \in 0..MaxGames
      /\ clock \subseteq Games /\ finales \subseteq Games
      /\ \A h \in DOMAIN battles : h \in Games /\ h # 0
    BY NowIsState DEF Inv, TInv
<1>2. PICK g : g = games + 1
    OBVIOUS
<1>3. /\ mail[p] = <<>> /\ delivery[p] = Idle /\ sess[p].in /\ p = room.owner
      /\ games < MaxGames /\ p \notin missed /\ room.phase = "preparing" /\ room.game = 0
      /\ \A q \in Roster(room) \ {p} : room.members[q].ready
      /\ \E B : /\ battles' = Put(battles, g, B) /\ IsBattle(B)
                /\ B.type = "adventure" <=> room.settings.type = "adventure"
                /\ B.type = "competitive" =>
                      /\ C!Roster(B.b) = Roster(room) /\ B.b.departed = {} /\ ~B.b.concluded
                      /\ clock' = clock \cup {g}
                /\ B.type = "adventure" => clock' = clock
      /\ room' = StartMatch(room, g) /\ games' = g
      /\ Project(Roster(room), missed, [game |-> g, stage |-> 1])
      /\ finales' = finales /\ delivery' = delivery /\ paid' = paid /\ refused' = refused
    BY <1>2, StartFields
<1>4. PICK B : /\ battles' = Put(battles, g, B) /\ IsBattle(B)
               /\ B.type = "adventure" <=> room.settings.type = "adventure"
               /\ B.type = "competitive" =>
                     /\ C!Roster(B.b) = Roster(room) /\ B.b.departed = {} /\ ~B.b.concluded
                     /\ clock' = clock \cup {g}
               /\ B.type = "adventure" => clock' = clock
    BY <1>3
<1>5. /\ g \in Games /\ g \in 0..MaxGames /\ g # 0 /\ g \in Nat /\ g \notin 0..games
      /\ 0..games \subseteq 0..g /\ 1..games \subseteq 1..g /\ g \in 1..g /\ g \in 0..g
      /\ 1..games \subseteq 0..g
    BY <1>1, <1>2, <1>3, MatchesAssumption DEF Games
<1>6. PICK x : x = [game |-> g, stage |-> 1]
    OBVIOUS
<1>7. x \in News /\ x.stage = 1 /\ x.game = g
    BY <1>5, <1>6, MatchesAssumption DEF News
<1>8. Project(Roster(room), missed, x)
    BY <1>3, <1>6
<1>9. /\ sess' \in [Players -> Sessions] /\ mail' \in [Players -> Seq(News)]
      /\ \A q \in Players :
             /\ Heard(sess[q], sess'[q], mail[q], mail'[q], IF x.stage = 1 THEN {x.game} ELSE {})
             /\ q \notin Roster(room) \/ ~sess[q].in => sess'[q] = sess[q] /\ mail'[q] = mail[q]
             /\ q \notin missed => mail'[q] \in {mail[q], <<>>}
             /\ \A i \in DOMAIN mail'[q] :
                   mail'[q][i].game = x.game \/ \E j \in DOMAIN mail[q] : mail'[q][i].game = mail[q][j].game
    BY <1>7, <1>8, ProjectHeard
<1>10. PICK T, k, c, V, R : T = sess' /\ k = mail' /\ c = clock' /\ V = battles' /\ R = room'
    OBVIOUS
<1>11. /\ T \in [Players -> Sessions] /\ k \in [Players -> Seq(News)]
       /\ \A q \in Players :
             /\ Heard(sess[q], T[q], mail[q], k[q], {g})
             /\ q \notin Roster(room) => T[q] = sess[q] /\ k[q] = mail[q]
             /\ \A i \in DOMAIN k[q] : k[q][i].game = g \/ \E j \in DOMAIN mail[q] : k[q][i].game = mail[q][j].game
    BY <1>7, <1>9, <1>10
<1>12. /\ IsRoom(R) /\ Roster(R) = Roster(room) /\ R.settings = room.settings
       /\ R.phase = "inMatch" /\ R.game = g /\ Roster(room) \subseteq Players
    <2>1. IsRoom(room)
        BY <1>1 DEF IsState
    <2>2. R = StartMatch(room, g) /\ Roster(room) \subseteq Players
        BY <1>3, <1>10, <2>1 DEF IsRoom
    <2>3. IsRoom(R) /\ Roster(R) = Roster(room)
        BY <1>5, <2>1, <2>2, MatchIsRoom, MatchRosters
    <2>4. R.settings = room.settings /\ R.phase = "inMatch" /\ R.game = g
        BY <2>1, <2>2, RoomFields DEF StartMatch
    <2> QED
        BY <2>2, <2>3, <2>4
<1>13. /\ DOMAIN V = DOMAIN battles \cup {g} /\ V[g] = B /\ g \notin DOMAIN battles
       /\ \A h \in DOMAIN battles : V[h] = battles[h]
    <2>1. DOMAIN battles \subseteq 1..games
        BY <1>1 DEF Good, Allocated
    <2>2. g \notin DOMAIN battles
        BY <1>5, <2>1
    <2> QED
        BY <1>4, <1>10, <2>2 DEF Put
<1>14. PICK t : t = [room |-> R, sess |-> T, battles |-> V, paid |-> paid, refused |-> refused]
    OBVIOUS
<1>15. t.room = R /\ t.sess = T /\ t.battles = V /\ t.paid = paid /\ t.refused = refused
    BY <1>14
<1>16. DOMAIN V \subseteq Games /\ \A h \in DOMAIN V : IsBattle(V[h])
    BY <1>1, <1>4, <1>5, <1>13 DEF IsState
<1>17. IsState(t)
    BY <1>1, <1>11, <1>12, <1>14, <1>16, StateOf DEF IsState
<1>18. Now' = t
    BY <1>3, <1>10, <1>14 DEF Now
<1>19. ASSUME NEW q \in Players
       PROVE  /\ T[q].in = sess[q].in
              /\ T[q] = sess[q] \/ T[q].game = 0 \/ (T[q].in /\ T[q].stage # 0)
              /\ \/ T[q].game = sess[q].game /\ \A h : Started(k[q], h) => Started(mail[q], h) \/ h = g
                 \/ sess[q].in /\ (\A h : ~Started(k[q], h)) /\ (Started(mail[q], T[q].game) \/ T[q].game = g)
    <2>1. \A h : ~Started(<<>>, h)
        BY DEF Started
    <2> QED
        BY <1>11, <2>1 DEF Heard
<1>20. \A q \in Players : \A h : Enters(t, k, q, h) => Enters(Now, mail, q, h) \/ (h = g /\ q \in Roster(room))
    <2> SUFFICES ASSUME NEW q \in Players, NEW h, Enters(t, k, q, h), ~Enters(Now, mail, q, h)
                 PROVE  h = g /\ q \in Roster(room)
        OBVIOUS
    <2>1. h = g
        BY <1>1, <1>15, <1>19 DEF Enters
    <2>2. q \in Roster(room)
        BY <1>1, <1>11, <1>15 DEF Enters
    <2> QED
        BY <2>1, <2>2
<1>21. ASSUME NEW q \in Roster(room)
       PROVE  /\ \A h \in DOMAIN battles : ~Enters(Now, mail, q, h)
              /\ ~Delivers(delivery, q)
    <2>1. \A h \in DOMAIN battles : ~Enters(Now, mail, q, h)
        BY <1>1, <1>3 DEF Good, MembersSound
    <2>2. CASE q = p
        BY <1>3, <2>1, <2>2 DEF Idle, Delivers
    <2>3. CASE q # p
        <3>1. room.members[q].ready /\ q \in Players
            BY <1>3, <1>12, <2>3
        <3> QED
            BY <1>1, <1>3, <2>1, <3>1 DEF Good, DeliveriesSound
    <2> QED
        BY <2>2, <2>3
<1>22. \A q \in Players : /\ sess[q].game \in 0..games /\ delivery[q].game \in 0..games
                          /\ \A h : Started(mail[q], h) => h \in 1..games
    BY <1>1 DEF Good, Allocated, Started
<1>23. Typed(t, k, delivery)
    BY <1>1, <1>11, <1>17 DEF Typed
<1>24. RoomSound(t, c, finales, delivery)
    <2>1. \A h \in DOMAIN V : V[h].type = "adventure" <=> R.settings.type = "adventure"
        BY <1>1, <1>4, <1>12, <1>13 DEF Good, RoomSound
    <2>2. R.settings.type = "adventure" => c = {}
        BY <1>1, <1>4, <1>10, <1>12 DEF Good, RoomSound
    <2> QED
        BY <1>1, <1>5, <1>12, <1>15, <2>1, <2>2 DEF Good, RoomSound
<1>25. Allocated(t, k, delivery, g)
    <2>1. DOMAIN V \subseteq 1..g
        BY <1>1, <1>5, <1>13 DEF Good, Allocated
    <2>2. ASSUME NEW q \in Players
          PROVE  /\ T[q].game \in 0..g /\ delivery[q].game \in 0..g
                 /\ \A i \in DOMAIN k[q] : k[q][i].game \in 1..g
                 /\ \A i \in DOMAIN paid[q] : paid[q][i].game \in 1..g
        <3>1. T[q].game \in 0..g /\ delivery[q].game \in 0..g
            BY <1>5, <1>19, <1>22
        <3>2. \A i \in DOMAIN mail[q] : mail[q][i].game \in 1..games
            BY <1>1 DEF Good, Allocated
        <3>3. \A i \in DOMAIN k[q] : k[q][i].game \in 1..g
            BY <1>5, <1>11, <3>2
        <3>4. \A i \in DOMAIN paid[q] : paid[q][i].game \in 1..g
            BY <1>1, <1>5 DEF Good, Allocated
        <3> QED
            BY <3>1, <3>3, <3>4
    <2> QED
        BY <1>5, <1>12, <1>15, <2>1, <2>2 DEF Allocated
<1>26. SessionsSound(t)
    BY <1>1, <1>12, <1>15, <1>19 DEF Good, SessionsSound
<1>27. AccountsSound(t, k)
    <2> SUFFICES ASSUME NEW q \in Players
                 PROVE  /\ \A i, j \in DOMAIN paid[q] :
                              /\ paid[q][i].game = paid[q][j].game => i = j
                              /\ paid[q][i].battle = paid[q][i].game
                        /\ \A i \in DOMAIN paid[q] : ~Enters(t, k, q, paid[q][i].game)
        BY <1>15 DEF AccountsSound
    <2>1. /\ \A i, j \in DOMAIN paid[q] :
                /\ paid[q][i].game = paid[q][j].game => i = j
                /\ paid[q][i].battle = paid[q][i].game
          /\ \A i \in DOMAIN paid[q] : ~Enters(Now, mail, q, paid[q][i].game)
        BY <1>1 DEF Good, AccountsSound
    <2>2. \A i \in DOMAIN paid[q] : paid[q][i].game # g
        <3>1. \A i \in DOMAIN paid[q] : paid[q][i].game \in 1..games
            BY <1>1 DEF Good, Allocated
        <3>2. g \notin 1..games
            BY <1>1, <1>2
        <3> QED
            BY <3>1, <3>2
    <2> QED
        BY <1>20, <2>1, <2>2
<1>28. MailSound(t, k)
    <2> SUFFICES ASSUME NEW q \in Players, NEW h \in Games, Started(k[q], h)
                 PROVE  /\ T[q].game # h
                        /\ q \in Roster(room) => T[q].game \notin DOMAIN V
        BY <1>12, <1>15 DEF MailSound
    <2>1. T[q].game = sess[q].game /\ (Started(mail[q], h) \/ h = g)
        BY <1>19
    <2>2. sess[q].game # h /\ sess[q].game # g
        BY <1>1, <1>5, <1>22, <2>1 DEF Good, MailSound
    <2>3. q \in Roster(room) => sess[q].game \notin DOMAIN battles
        BY <1>1, <1>21 DEF Enters
    <2> QED
        BY <1>13, <2>1, <2>2, <2>3
<1>29. DeliveriesSound(t, k, delivery)
    <2> SUFFICES ASSUME NEW q \in Players, Delivers(delivery, q)
                 PROVE  T[q].game \in {0, delivery[q].game} /\ \A h \in Games : ~Started(k[q], h)
        BY <1>12, <1>15 DEF DeliveriesSound
    <2>1. sess[q].game \in {0, delivery[q].game} /\ \A h \in Games : ~Started(mail[q], h)
        BY <1>1 DEF Good, DeliveriesSound
    <2>2. T[q] = sess[q] /\ k[q] = mail[q]
        BY <1>11, <1>21
    <2> QED
        BY <2>1, <2>2
<1>30. MembersSound(t, k)
    <2> SUFFICES ASSUME NEW q \in Roster(room), NEW h \in DOMAIN V, Enters(t, k, q, h)
                 PROVE  /\ R.game = h
                        /\ V[h].type = "competitive" => q \in C!Connected(V[h].b)
        BY <1>12, <1>15 DEF MembersSound
    <2>1. h = g
        BY <1>12, <1>13, <1>20, <1>21
    <2> QED
        BY <1>4, <1>12, <1>13, <2>1 DEF C!Connected
<1>31. ResultsSound(t, delivery)
    <2> SUFFICES ASSUME NEW q \in Players, NEW h \in DOMAIN V,
                        Delivers(delivery, q), delivery[q].game = h, V[h].type = "competitive"
                 PROVE  T[q].game = h /\ DOMAIN delivery[q].results = C!Roster(V[h].b)
        BY <1>15 DEF ResultsSound
    <2>1. h # g
        BY <1>5, <1>22
    <2>2. h \in DOMAIN battles /\ V[h] = battles[h]
        BY <1>13, <2>1
    <2>3. T[q] = sess[q]
        BY <1>11, <1>21
    <2> QED
        BY <1>1, <2>2, <2>3 DEF Good, ResultsSound
<1>32. Good(t, k, delivery, c, finales, g)
    BY <1>24, <1>25, <1>26, <1>27, <1>28, <1>29, <1>30, <1>31 DEF Good
<1>33. Ends(t, delivery, c) /\ c \subseteq Games
    <2>1. clock \subseteq c /\ c \subseteq clock \cup {g} /\ (B.type = "competitive" => g \in c)
        BY <1>4, <1>10 DEF IsBattle
    <2>2. \A h \in DOMAIN battles : battles[h].type = "competitive" =>
              \/ h \in refused
              \/ h \in c /\ ~battles[h].b.concluded
              \/ \E q \in Players : Delivers(delivery, q) /\ delivery[q].game = h
        BY <1>1, <2>1 DEF Ends
    <2>3. B.type = "competitive" => g \in c /\ ~B.b.concluded
        BY <1>4, <2>1
    <2>4. Ends(t, delivery, c)
        BY <1>13, <1>15, <2>2, <2>3 DEF Ends
    <2> QED
        BY <1>1, <1>5, <2>1, <2>4
<1>34. Inv'
    BY <1>1, <1>3, <1>5, <1>10, <1>18, <1>23, <1>32, <1>33 DEF Inv, TInv, GInv, EInv
<1>35. Pays(Now, t)
    <2> SUFFICES ASSUME NEW q \in Players, NEW h \in DOMAIN battles, sess[q].game = h, T[q].game # h
                 PROVE  FALSE
        BY <1>1, <1>15 DEF Pays
    <2>1. q \in Roster(room)
        BY <1>11
    <2> QED
        BY <1>1, <1>21, <2>1 DEF Enters
<1> QED
    BY <1>18, <1>34, <1>35 DEF Keeps

-----------------------------------------------------------------------------
(* The theorems *)

\* In the beginning there is no room, no match and nothing to commit.
LEMMA InitInv == Init => Inv
<1> SUFFICES ASSUME Init
             PROVE  Inv
    OBVIOUS
<1>1. PICK type \in Types : room = NoRoom(type)
    BY DEF Init
<1>2. /\ type \in GameTypes /\ 0 \in 0..MaxGames /\ 0 \in 0..Stages /\ 0 \in 0..0
    BY MatchesAssumption
<1>3. /\ IsRoom(room) /\ Roster(room) = {} /\ room.phase = "preparing" /\ room.game = 0
    BY <1>1, <1>2, NoRoomFields
<1>4. /\ sess = [p \in Players |-> Outside] /\ mail = [p \in Players |-> <<>>]
      /\ battles = <<>> /\ clock = {} /\ finales = {}
      /\ delivery = [p \in Players |-> Idle] /\ paid = [p \in Players |-> <<>>]
      /\ refused = {} /\ games = 0
    BY DEF Init
<1>5. Now.room = room /\ Now.sess = sess /\ Now.battles = battles /\ Now.paid = paid
      /\ Now.refused = refused
    BY DEF Now
<1>6. /\ sess \in [Players -> Sessions] /\ paid \in [Players -> Seq(Payments)]
      /\ mail \in [Players -> Seq(News)] /\ DOMAIN battles = {}
    BY <1>4, OutsideIsSession
<1>7. IsState(Now)
    BY <1>3, <1>4, <1>6, StateOf DEF Now
<1>8. IsDelivery(Idle) /\ Idle.kind = "idle" /\ Idle.game = 0
    BY <1>2 DEF Idle, IsDelivery
<1>9. Typed(Now, mail, delivery)
    BY <1>4, <1>6, <1>7, <1>8 DEF Typed
<1>10. /\ \A p \in Players : ~Delivers(delivery, p) /\ delivery[p].game = 0
                             /\ delivery[p].kind # "stage"
       /\ \A p \in Players : \A h : ~Started(mail[p], h)
       /\ \A p \in Players : sess[p].game = 0 /\ ~sess[p].in
       /\ \A p \in Players : DOMAIN mail[p] = {} /\ DOMAIN paid[p] = {}
    BY <1>4, <1>8, OutsideIsSession DEF Delivers, Started
<1>11. RoomSound(Now, clock, finales, delivery)
    BY <1>3, <1>4, <1>5, <1>6, <1>10 DEF RoomSound
<1>12. Allocated(Now, mail, delivery, games)
    BY <1>2, <1>3, <1>4, <1>5, <1>6, <1>10 DEF Allocated
<1>13. SessionsSound(Now) /\ AccountsSound(Now, mail)
    BY <1>3, <1>5, <1>10 DEF SessionsSound, AccountsSound
<1>14. MailSound(Now, mail) /\ DeliveriesSound(Now, mail, delivery)
    BY <1>10 DEF MailSound, DeliveriesSound
<1>15. MembersSound(Now, mail) /\ ResultsSound(Now, delivery) /\ Ends(Now, delivery, clock)
    BY <1>3, <1>5, <1>6 DEF MembersSound, ResultsSound, Ends
<1>16. GInv
    BY <1>11, <1>12, <1>13, <1>14, <1>15 DEF GInv, Good
<1>17. TInv /\ EInv
    BY <1>2, <1>4, <1>9, <1>15 DEF TInv, EInv
<1> QED
    BY <1>16, <1>17 DEF Inv

\* Every step keeps the invariant, and pays whom it takes out of a competitive match.
LEMMA StepKeeps == Inv /\ [Next]_vars => Keeps
<1> SUFFICES ASSUME Inv, [Next]_vars
             PROVE  Keeps
    OBVIOUS
<1>1. CASE UNCHANGED vars
    <2>1. Now' = Now
        BY <1>1 DEF vars, Now
    <2>2. Pays(Now, Now)
        BY NobodyMoves
    <2>3. Inv'
        BY <1>1, <2>1 DEF Inv, TInv, GInv, EInv, vars
    <2> QED
        BY <2>1, <2>2, <2>3 DEF Keeps
<1>2. ASSUME NEW p \in Players, ReadMail(p) PROVE Keeps
    BY <1>2, ReadMailStep
<1>3. ASSUME NEW p \in Players, Enter(p) PROVE Keeps
    BY <1>3, EnterStep
<1>4. ASSUME NEW p \in Players, Prepare(p) PROVE Keeps
    BY <1>4, PrepareStep
<1>5. ASSUME NEW p \in Players, StartFails(p) PROVE Keeps
    BY <1>5, StartFailsStep
<1>6. ASSUME NEW p \in Players, Depart(p) PROVE Keeps
    BY <1>6, DepartStep
<1>7. ASSUME NEW p \in Players, GameOver(p) PROVE Keeps
    BY <1>7, GameOverStep
<1>8. ASSUME NEW p \in Players, EndGrace(p) PROVE Keeps
    BY <1>8, EndGraceStep
<1>9. ASSUME NEW p \in Players, CommitResult(p) PROVE Keeps
    BY <1>9, CommitStep
<1>10. ASSUME NEW p \in Players, ApplyEliminations(p) PROVE Keeps
    BY <1>10, EliminationsStep
<1>11. ASSUME NEW p \in Players, BossDie(p) PROVE Keeps
    BY <1>11, BossDieStep
<1>12. ASSUME NEW p \in Players, NPCDie(p) PROVE Keeps
    BY <1>12, NPCDieStep
<1>13. ASSUME NEW p \in Players, NEW missed, Start(p, missed) PROVE Keeps
    BY <1>13, StartStep
<1>14. ASSUME NEW p \in Players, NEW missed, NextMap(p, missed) PROVE Keeps
    BY <1>14, NextMapStep
<1>15. ASSUME NEW r \in Players, NEW p \in Players, Die(r, p) PROVE Keeps
    BY <1>15, DieStep
<1>16. ASSUME NEW r \in Players, NEW p \in Players, PlayerDie(r, p) PROVE Keeps
    BY <1>16, PlayerDieStep
<1>17. ASSUME NEW r \in Players, NEW p \in Players, Revive(r, p) PROVE Keeps
    BY <1>17, ReviveStep
<1>18. ASSUME NEW g \in Games, Timer(g) PROVE Keeps
    BY <1>18, TimerStep
<1>19. ASSUME NEW g \in Games, Finale(g) PROVE Keeps
    BY <1>19, FinaleStep
<1> QED
    BY <1>1, <1>2, <1>3, <1>4, <1>5, <1>6, <1>7, <1>8, <1>9, <1>10, <1>11, <1>12, <1>13,
       <1>14, <1>15, <1>16, <1>17, <1>18, <1>19 DEF Next

\* The invariant: the parts of the state agree about who is in which match, who has
\* been paid, who has something to commit, and who will end a battle.
THEOREM MatchesInvariant == Spec => []Inv
<1>1. Inv /\ [Next]_vars => Inv'
    BY StepKeeps DEF Keeps
<1> QED
    BY InitInv, <1>1, PTL DEF Spec

\* Rooms, sessions, mail, deliveries and payments stay well formed (liveRoomMatchSessions,
\* applyPendingProjections and the settlements of internal/server/probe).
THEOREM MatchesTypes == Spec => []TypeOK
<1>1. Inv => TypeOK
    <2> SUFFICES ASSUME Inv
                 PROVE  TypeOK
        OBVIOUS
    <2>1. /\ IsRoom(room) /\ games \in 0..MaxGames
          /\ sess \in [Players -> Sessions]
          /\ DOMAIN battles \cup clock \cup finales \cup refused \subseteq Games
        BY NowIsState DEF IsState, Inv, TInv
    <2>2. ASSUME NEW p \in Players
          PROVE  /\ \A i \in DOMAIN mail[p] : mail[p][i] \in [game : Games, stage : 1..Stages]
                 /\ delivery[p].kind \in {"idle", "grace", "result", "stage"}
                 /\ \A i \in DOMAIN paid[p] : paid[p][i].result \in {"win", "loss", "draw"}
        <3>1. mail[p] \in Seq(News) /\ paid[p] \in Seq(Payments) /\ IsDelivery(delivery[p])
            BY NowIsState DEF IsState, Typed
        <3>2. \A i \in DOMAIN mail[p] : mail[p][i] \in News
            BY <3>1
        <3>3. \A i \in DOMAIN paid[p] : paid[p][i] \in Payments
            BY <3>1
        <3> QED
            BY <3>1, <3>2, <3>3 DEF News, Payments, Results, IsDelivery
    <2> QED
        BY <2>1, <2>2 DEF TypeOK, Sessions
<1> QED
    BY <1>1, MatchesInvariant, PTL

\* An account gets one settlement of each match, of that match's own result, whatever
\* races for its end (completeCompetitiveRoomMatch, completeAdventureRoomMatch,
\* finishCompetitiveDeparture and applyAdventureStageEliminations).
THEOREM MatchesPayOnce == Spec => []PaidOnce
<1>1. Inv => PaidOnce
    BY NowIsState DEF Good, AccountsSound, PaidOnce
<1> QED
    BY <1>1, MatchesInvariant, PTL

\* A session in a registered competitive match is a member of the room that plays it,
\* and its battle counts it (handleCompetitiveDeparture, removeMemberLocked).
THEOREM MatchesCountPlayers == Spec => []PlayersAreCounted
<1>1. Inv => PlayersAreCounted
    <2> SUFFICES ASSUME Inv, NEW p \in Players, NEW g, g = sess[p].game, g \in Battles("competitive")
                 PROVE  p \in Roster(room) /\ room.game = g /\ p \in C!Connected(battles[g].b)
        BY DEF PlayersAreCounted
    <2>1. /\ Now.room = room /\ Now.sess = sess /\ Now.battles = battles
          /\ Good(Now, mail, delivery, clock, finales, games)
          /\ g \in DOMAIN battles /\ battles[g].type = "competitive" /\ g # 0
          /\ room.settings.type # "adventure"
        BY NowIsState
    <2>2. p \in Roster(room)
        BY <2>1 DEF Good, SessionsSound
    <2> QED
        BY <2>1, <2>2 DEF Good, MembersSound, Enters
<1> QED
    BY <1>1, MatchesInvariant, PTL

\* A competitive battle has a clock that runs or a goroutine that commits its result
\* (scheduleCompetitiveTimeout, completeDeliveredMatch), unless its settlement was
\* refused by the store (completeCompetitiveRoomMatchOnRoomActor).
THEOREM MatchesDoNotLeak == Spec => []NoLeak
<1>1. Inv => NoLeak
    BY NowIsState DEF Ends, NoLeak, Delivers
<1> QED
    BY <1>1, MatchesInvariant, PTL

\* Who comes out of a competitive match is paid for it in the same step
\* (finishCompetitiveDeparture, completeCompetitiveRoomMatch, completeCompetitiveTimeout).
THEOREM MatchesPayEveryPlayer == Spec => EveryPlayerIsPaid
<1>1. Inv /\ [Next]_vars =>
        [\A p \in Players :
          LET g == sess[p].game
          IN  g \in Battles("competitive") /\ sess'[p].game # g =>
                 Len(paid'[p]) = Len(paid[p]) + 1 /\ paid'[p][Len(paid'[p])].game = g]_vars
    <2> SUFFICES ASSUME Inv, [Next]_vars, NEW p \in Players, NEW g, g = sess[p].game,
                        g \in Battles("competitive"), sess'[p].game # g
                 PROVE  Len(paid'[p]) = Len(paid[p]) + 1 /\ paid'[p][Len(paid'[p])].game = g
        OBVIOUS
    <2>1. /\ Now.sess = sess /\ Now.battles = battles /\ Now.paid = paid
          /\ Now.refused = refused /\ paid[p] \in Seq(Payments)
          /\ g \in DOMAIN battles /\ battles[g].type = "competitive" /\ g \in Games
        BY NowIsState DEF IsState
    <2>2. Now'.sess = sess' /\ Now'.paid = paid'
        BY DEF Now
    <2>3. Pays(Now, Now')
        BY StepKeeps DEF Keeps
    <2>4. Payment(paid'[p], paid[p], g)
        BY <2>1, <2>2, <2>3 DEF Pays
    <2>5. PICK result \in Results : paid'[p] = Append(paid[p], [game |-> g, battle |-> g, result |-> result])
        BY <2>4 DEF Payment
    <2>6. PICK x : x = [game |-> g, battle |-> g, result |-> result]
        OBVIOUS
    <2>7. x \in Payments /\ x.game = g
        BY <2>1, <2>6 DEF Payments
    <2>8. Append(paid[p], x)[Len(paid[p]) + 1] = x /\ Len(Append(paid[p], x)) = Len(paid[p]) + 1
        BY <2>1, <2>7, AppendPayment
    <2> QED
        BY <2>5, <2>6, <2>7, <2>8
<1> QED
    BY <1>1, MatchesInvariant, PTL DEF Spec, EveryPlayerIsPaid

=============================================================================
