# TLA+ models of the QQTang server

This directory holds the verification project of the Go server in `src/`: TLA+ modules
translated from the code, TLC configurations that check them on small instances, and proofs
that TLAPS checks for every instance. `PROJECT.json` lists the components, the runs, the
mutants that show that each property can fail, the hazards, and for every definition the
lines of code it stands for.

## The system

The server speaks the protocol of a legacy game client. A client opens several TCP
connections: to the account service, to a game server (the *section*, a lobby with rooms of
up to eight seats), and to the shop. Clients simulate the scene of a match themselves; the
server owns identity, rooms, matches and rewards.

| Component | State it keeps | Operations | Modelled in |
| --- | --- | --- | --- |
| Room state machine, `game/room/state.go` | members, seats, owner, phase, game ID, settings, wedding | join, leave, ready, seat locks, settings, weddings, start, settle | `Room` |
| World, `application/world.go`, and lobby, `game/lobby/state.go` | rooms, membership index, presences, room summaries, game-ID counter | every room operation addressed by account; lobby entry and exit | `World`, `MCGhost` |
| Room actors, `probe/room_actor.go` | 64 mailboxes and goroutines, the shutdown flag | call, consume, close | `RoomActor`, `Lanes` |
| Sessions, `probe/live_sessions.go`, `login_service.go`, `session_departure.go` | per connection: UIN, live UIN, continuation, auxiliary, room; per host: lease, proof | login, bind, promote, log out, depart | `LiveSessions` |
| TCP front end, `probe/server.go`, `tcp_dispatch_pipeline.go`, `*_dispatch.go` | connections, pending frames | framing, decoding, routing to lanes, notifications, delivery of results | scheduling: `RoomActor`, `LiveSessions`, `Matches` |
| Session projections, `probe/server.go` 200-330 | a queue per session | start match, advance stage, leave room | `Matches` (not the kick) |
| Match start and settlement, `probe/match_start_dispatch.go`, `match_settlement.go`, `match_game_over_dispatch.go`, `adventure_*.go` | battle registries, prepared settlements, timers | start, roll back, settle, persist, eliminate between maps | `Matches` |
| Competitive battle, `game/match/competitive*.go` | lives, teams, objectives, arbitrator, conclusion | traps, kills, deaths, rescues, objectives, departures, time-out, boss grace | `Competitive`, `Rounds` |
| Adventure battle, `game/match/adventure.go` | the living, stage, NPC deaths, pending victory, arbitrator | deaths, rescues, next stage, victory, departures | `Adventure`, `Matches` |
| Player service, `application/player_service.go`, and persistence | profiles and inventories in SQLite; one lock per account | rewrites, transactions, settlements of several accounts | `Ledger`, `Accounts` |
| Shop, crafting, item rules | catalogues | pure rules | not modelled |
| In-room events and UDP peers, `probe/game_event_dispatch.go`, `room_fast_dispatch.go`, `room_peer_udp.go` | peer bindings | events of a battle; relay, identity binding | the events that change a battle, in `Rounds` and `Matches` |
| AI players, `probe/competitive_ai_runtime.go`, `game/battleai`, `battleengine`, `battleenv` | shared scene, policy memory | observe, choose, project | as participants without a session only |
| GM server, social services, network setup, launcher, tooling, wire formats, static data | — | administration, process control, decoding, loading | not modelled |

How the parts interact:

- A connection is one goroutine. It decodes a frame, finds the *lane* of the room concerned
  (`roomActorRouteForTCP`), and submits a closure that takes `session.mu` and dispatches the
  message. Lane 0 creates rooms. Messages that concern no room are run by the connection itself.
- The closure calls `World`, whose operations hold `World.mu`, change a `room.State`, and
  republish the room to the lobby section, which has a lock of its own.
- Other sessions learn of a change by a notification on their connection and by a projection
  in their queue, which they apply before their next message.
- `liveSessions` (under `liveMu`) is the authority on which connection owns an account. A
  snapshot of the session is leased for 15 seconds to its host so that the client can change
  connections. Pruning compares lobby presences with live sessions, not with `World`.
- Settlement, start and departure commands touch the room, the battle, the sessions of the
  members and the player store, one after the other, without a transaction around them.
- The message that ends a match does not settle it: its connection's goroutine first shows
  the result to the client, up to ten seconds long, and then enters the lane again to commit
  it. Meanwhile the clock of the match, other reports and departures go on.
- The player service takes the locks of its accounts in the order of their UINs, works on
  what the store holds, and gives the locks back before a session's profile is replaced.

### What is hard

Operations that fail half way and return; two mutexes that are taken one after the other;
snapshots that outlive what they were taken from; commands queued before and run after a
kick or a departure; projections that wait in a busy session while the match goes on; reports
of one event by several clients, over two transports, in any order and twice; four ways to
end one match at the same time; results that are committed seconds after they were decided;
shutdown while mailboxes are full; a store that fails while a settlement is prepared.
`PROJECT.json` lists these hazards at the lines where they bite, with the properties that cover them, or the reason why none does.

### What makes each component correct

- *Room*: seats are distinct, open and within the capacity shown; the owner is a member; a
  wedding binds two members who are there; a match keeps its roster.
- *World*: its four copies of "who is where" agree; no room without members; no two rooms
  with one game; one settlement for a game.
- *Room actors*: a serial first-in first-out lane per room; each accepted command is run and
  answered; shutdown ends, after all of them.
- *Sessions*: at most one owner of an account; presence as long as there is one; the
  session's room is World's; departures come to their end.
- *Battles*: one conclusion that its facts support and nothing changes later; an open battle
  can still be decided by somebody; one kill per life.
- *Match start and settlement*: who comes out of a competitive match is paid for it, and
  nobody is paid twice for a game; each battle ends, whoever leaves, and is forgotten.
- *Player service*: each change of the store is the whole effect of one operation, on all
  accounts it names; answers are true; no operation waits forever.

## Modules

| Module | Stands for |
| --- | --- |
| `Room` | One room as a record. A method of `State` is a pair of operators: `CanX` collects its early returns, `X` gives the room after it. |
| `World` | The variables are the maps of `World` and of the lobby `Section`; an action is an exported method, made atomic by `World.mu`, including the synchronisation of the summary at its end. |
| `MCWorld`, `MCGhost` | Instances for TLC. `MCGhost` composes `LeaveRoom` and `ReconcileRoomDeparture` as `leaveSessionRoom` does. |
| `RoomProofs`, `WorldProofs`, `MatchProofs` | Lemmas about the operators of `Room`, the theorems about the states of `World`, and those about its steps. |
| `Lanes` | What callers are promised: serial execution per room in the order of acceptance, an answer, an orderly shutdown. The order is a relation between the waiting calls, because rooms that share a shard share a queue that no caller can see. |
| `RoomActor`, `MCRoomActor` | The implementation: read-write lock, lazily started shards, bounded mailboxes, draining, the closer, and the departures that run alone after a shutdown. It implements `Lanes` under a refinement mapping. |
| `LiveSessions`, `MCLiveSessions` | All connections of one account. Each step ends where the goroutine gives up a mutex. |
| `Competitive` | One competitive battle as a record under eight kinds of rules, in the style of `Room`: what each method of `CompetitiveBattle` refuses and does. |
| `Rounds`, `MCRounds` | A competitive battle under the handlers that call it: who may report what, over TCP or the fast path, before and after its end. |
| `Adventure` | One adventure battle as a record. |
| `Matches`, `MCMatches` | The matches of a room from start to payment. It composes `Room`, `Competitive`, `Adventure`, the sessions of the players with their queues, the goroutines that deliver results, the clocks, and the store as a list of payments. |
| `Ledger` | What callers of the player service are promised. |
| `Accounts`, `MCAccounts` | The player service: locks, loads, saves, transactions, errors and answers, step by step. It implements `Ledger`. |
| `RoomActorProofs`, `LiveSessionsProofs`, `RoundsProofs`, `MatchesProofs`, `AccountsProofs` | The inductive invariants of these modules, the theorems that follow, and the refinements of `Lanes` and `Ledger`. |

Correspondence, where it is not by name:

- `World`: `memberships[p]` is the room of `World.memberships[uin]`; account and player ID
  are one model value, because a login gives an account one player ID for good.
  `starting[id]` is the game ID that a start holds in `CurrentGameID` between
  `AllocateGameID` and `StartMatchWithIDOptions`; meanwhile the lane of the room is taken,
  so only operations outside that lane interleave. `Depart` is the common tail of
  `removeMemberLocked` and `ReconcileRoomDeparture`, with the early return of a player who
  has no presence. `LeaveLobby` does not take `World.mu`. `PruneLobby` is the removal of the
  presence of a player who is in a room, which `pruneStaleLobbyPlayers` and the departure
  of a second owner can do.
- `Room`: left out are names, passwords, roles, identities, map numbers, `ContinueID` and
  the revision, on which no modelled decision depends; AI participants are
  the numbers per team that `StartValidationOptions` carries.
- `RoomActor`: a call is one goroutine that calls once; `current` also serves to tell a
  command that was run from one that was not; a command is a step that ends with a value or
  an error, which stands for a panic too. Callers pass room IDs from their session, so a
  call has its room from the start (see *Not modelled*).
- `World.JoinRoom` alone asks for no free lane: a session that a kick has retired while its
  message waited joins another room from the lane of its old one.
- `Competitive`: rules with the same conditions for lives and conclusion share a kind;
  a boss encounter is a kind of its own. A hit of a durability rule is a pair of a player and
  a key, because harm and death reports are matched by time and place.
- `Matches`: an action is a handler, since every handler about a room runs in its lane.
  `mail` is a session's queue of projections: `missed` in a start or a next stage are the
  sessions whose mutex is taken at that moment, and a disconnected session has not read its
  mail. `Read` is the whole loop of `applyPendingProjections` at once: the last start in the
  queue wins, and the last news of that game after it gives the map. `Eliminate` likewise is the
  loop of `applyAdventureStageEliminations`, which ends at the first player it cannot remove or
  pay. `Without` is `removeMemberLocked` for a set of players; a room without members is gone
  (`NoRoom`). `delivery[p]` is what the goroutine of p's connection still has to commit; meanwhile it
  reads no message, so p neither acts nor leaves. `clock` and `finales` are the games whose
  timers run. A payment records the game the settlement was made for and the battle whose
  results it used. A settlement that fails because the pets of a member cannot be read
  (`match_settlement.go:308-316`, `competitive_item_effects.go:142-145`) leaves room, sessions and
  battle as they are, and nobody tries again: `unread` are the games whose commit meets this, and
  `refused` remembers the competitive ones, for the properties only. A store that fails later, when a
  payment is stored, only changes the account. Fewer events of a battle happen
  here than in `Rounds`: deaths and the end of a boss stand for every report that can conclude one.
- `Accounts`: a profile is the set of operations it shows and one balance. The three kinds of
  operations differ in what they do before and after the store is changed; the store itself
  has one connection, so a load, a save and a transaction are single steps.
- `LiveSessions`: a Boolean stands for each field that is zero or not, because there is one
  account. `pc` names the program point; `seen` is what the goroutine took out of the scan of
  live sessions; `carry` is the room of a lease or session it copied. A session's mutex is
  held in the states of `Locked`. A shop connection is bound in one step by a configuration request
  (`BindShop`), whose goroutine has no lock, and under its own lock by a list or purchase request
  (`RequestShop`, `Borrow`). `Serial` restricts the *client* to binding or logging in
  with one connection at a time.

## Runs

All runs use fixed small sets; none uses symmetry, because the smallest player ID inherits
a room or arbitrates a battle, shards are numbers and accounts are locked in order.

| Run | Instance | Shows |
| --- | --- | --- |
| `world` | 3 players, 2 rooms of 2 seats, 2 games | The four copies agree, there are no ghosts, games are distinct, a match has one life and keeps its roster. |
| `rooms` | 3 players, 1 room of 3 seats, maps with and without limits, chat rooms, all start options, free rule on and off | Seats, capacity, owner and game are sound; a wedding keeps its pair and never outlives it. |
| `room_actor` | 4 calls, 3 rooms on 2 shards, mailboxes of 2, a shutdown | The refinement of `Lanes`, and that everybody is answered and `close` returns. |
| `sessions` | 2 connections and a shop connection of one host, entering one at a time | One owner, whose presence outlives it; sessions are consistent; departures end, unless a shop request blocks them. |
| `rounds` | 14 line-ups of 2 or 3 players: every kind of rule, with and without an AI player | A battle has one verdict, supported by its facts and changed by nothing; an open one goes on; lives, layers and kills are counted once. |
| `matches` | 2 players, 2 games, competitive, boss or adventure of 2 maps; one session may be busy, the store may fail | Nobody is paid twice, who comes out of a competitive match is paid, sessions and battles agree, every battle ends unless the store refused its settlement. |
| `accounts` | 3 accounts with one coin each, a settlement of 3, a debit of 2, a purchase, a used item | The refinement of `Ledger`, true answers, sessions that show only what was stored, no deadlock. |
| `ghost` (violation) | 2 players, 1 room | A failed departure leaves an empty room. |
| `owners` (violation) | 2 connections bound at the same time | Two owners of an account. |
| `stale_room` (violation) | 2 connections, one after the other | A session is in a room its player has left. |
| `victory` (violation) | 2 players, 1 adventure of one map | The departure of the last living player turns a won adventure into a loss for its teammate. |
| `circle` (violation) | a connection and its shop connection | A departure and a shop request wait for each other's lock. |

Why the bounds are enough for what they show: two rooms are needed for anything one room
can do to another (IDs, game IDs, the wrong index entry); three players for a room that is
full, an heir among several, a wedding with a bystander, and a competitor for a seat; three
seats for a hole between two members; two games for an old game ID beside a new one
(`MaxGames` bounds the counter, far below its wrap). In `room_actor` two rooms share a shard
and three calls can be due in one mailbox of two, so that a sender blocks with the read
lock; a third room has a shard of its own, and the fourth call lets a shard start late or not
at all. In `sessions` a departing owner, an heir and a shop window make three connections; that a
connection from another host changes nothing is the theorem `AccountHasOneOwner`, which holds
for every assignment of connections to hosts.

In `rounds` two against one is the smallest battle in which an ally can rescue, a team can be
short of one player and stay, and an arbitrator can leave somebody of its team behind; the
duel has three layers, so that two hits reported in the wrong order leave a player alive and it
shows, and one player can be hit once more than it has layers. Buns,
pieces, gems and hit points are the smallest numbers with a step before the last one, and
kills (`MaxKills`) and buns stored (`MaxStored`) are bounded where only a number is at stake.
In `matches` two players are one who decides a match and one who is late or leaves; two games
let a late start, clock, delivery or elimination of the first meet the second; two maps give
one elimination between them. One player is found busy by a start or a next stage (`Busy`), the other
reads its mail at once; the settlement of the first game can be refused (`Refusals`), that of the
second shows that the room goes on; a client's own result names no winner (`Claims`), because the
server's verdicts do. `victory` has both kinds of claims. In `accounts` the purchase meets the
debit and the settlement at one account, the used item meets the settlement at another, and one coin makes the debit
and the purchase compete.

`CHECK_DEADLOCK FALSE` is set where behaviours end: every call of `RoomActor` was made, every
connection of `LiveSessions` was closed, a battle of `Rounds` has nobody left to report,
the games of `Matches` are used up and its room is empty, every operation of `Accounts` is over.

### Fairness

`RoomActor!FairSpec` is weakly fair to each call, shard and the closer: goroutines are
scheduled, and a command returns, because a command never calls the actor system again (code
in a lane uses the `...OnRoomActor` functions). Nothing is fair about the request to shut
down. `LiveSessions!FairSpec` is weakly fair to each connection's `Server` steps only: a
goroutine that is not waiting for its client keeps running, and a mutex that stays free is
obtained. A shop request that waits for its owner's lock is such a step (`Borrow`), so the
circle of `circle` is a deadlock and no lack of fairness. Clients owe nothing, leases need not
expire. `Matches!Fairness` has clocks ring (`time.AfterFunc`) and a goroutine that shows a result
come to its end, because it waits for at most ten seconds and commits in any case, even when
writing to the client fails; players, their reports and the client's own GAME_OVER owe nothing. `Accounts!Fairness` is weakly fair to
an operation that was begun: its goroutine runs on, the database answers, and a mutex that
is free again is handed to one who waits.

### The five violations

1. `ghost`: the comment at `world.go:407-411` promises that reconciliation prevents "an
   unjoinable ghost". A player whose presence is gone (pruned, or removed by the departure
   of a second owner) makes `setPlayerRoomLocked` fail in both `removeMemberLocked` and
   `ReconcileRoomDeparture`; both return before the empty room is deleted.
2. `owners`: the comment at `live_sessions.go:365-368` promises one owner. The branch of
   `bindSessionContinuation` that resumes a lease stores `liveUIN` without `liveMu` and
   without a second scan. With `Serial` the property holds (`sessions`, and
   `AccountHasOneOwner` for any number of connections).
3. `stale_room`: the comment at `server.go:239-242` calls the session's room a projection
   of World. A lease restores the room it remembers, although the departure of its
   connection has taken the player out of it.
4. `victory`: the comment at `adventure.go:570-574` promises that a final victory is locked for
   all who reached the final stage, the dead included. `RemoveParticipant` (715) concludes the
   battle when the last living player leaves during the loot grace, and
   `finishAdventureDeparture` pays that departure's losses to the teammate who stays.
5. `circle`: the comment at `server.go:141-145` forbids a dispatcher to hold one connection's
   `session.mu` while it waits for another's. A shop list or purchase request is dispatched under
   the lock of the shop connection (915-921) and locks the owner in
   `bindAuxiliaryShopConnection` (`live_sessions.go:353`). A departing owner holds its own lock
   (784-786) and takes that of every session without a `liveUIN` in `promoteSessionContinuation`
   (486-498). `OnlyShopsBlockDepartures` (`sessions`) shows that this is the only such circle.

## Proofs

Everything below holds for all values of the constants that satisfy the modules' assumptions:
any number of players, rooms, calls, connections, accounts and operations, any mailbox size, any
lineup. Each safety result follows the same three steps: the initial states satisfy an inductive
invariant, each action keeps it (one lemma per action or per group of actions alike), and it
implies the property. What an action property says of a step follows from the invariant before it.

| Module | Theorem | Establishes |
| --- | --- | --- |
| `WorldProofs` | `TypeCorrect`, `IndexAgrees`, `RoomsStaySound` (of `PruneSpec`) | `TypeOK`, `MembershipAgrees`, `RoomsSound` |
| | `NoRoomIsLost`, `RoomListIsTrue`, `PresencesAreTrue` (of `Spec`) | `NoGhostRoom`, `LobbyAgrees`, `PresenceAgrees` |
| `MatchProofs` | `RosterIsKept`, `LifecycleIsKept`, `PairIsKept`, `GamesStayDistinct` (of `PruneSpec`) | `MatchKeepsRoster`, `MatchLifecycle`, `WeddingKeepsPair`, `GamesDistinct` |
| `RoomActorProofs` | `ActorsTyped`, `CleanupRunsAlone` | `TypeOK`, `AloneMeansDrained` |
| | `ActorsImplementLanes` | `LanesSpec`: the refinement of `Lanes` |
| `LiveSessionsProofs` | `SessionsTyped` | `TypeOK` |
| | `AccountHasOneOwner`, `OwnersStayPresent` (if `Serial`) | `OneOwner`, `PresenceOutlivesOwner` |
| `RoundsProofs` | `BattlesTyped`, `RoundsGoOn`, `VerdictsAreSound`, `DeadStayOut`, `LayersAreCharged` | `TypeOK`, `OpenRoundGoesOn`, `VerdictSound`, `TheDeadStayOut`, `LayersAgree` |
| | `VerdictIsLocked`, `LossesFinal`, `KillsArePaidOnce`, `ReportsDefeatTheBeaten` | `VerdictLocked`, `LossesAreFinal`, `OneKillPerLife`, `LosersAreBeaten` |
| `MatchesProofs` | `MatchesTypes`, `MatchesPayOnce`, `MatchesCountPlayers`, `MatchesDoNotLeak` | `TypeOK`, `PaidOnce`, `PlayersAreCounted`, `NoLeak` |
| | `MatchesPayEveryPlayer` | `EveryPlayerIsPaid` |
| `AccountsProofs` | `AccountsTyped`, `CallersAreToldTheTruth`, `SessionsShowOnlyStored` | `TypeOK`, `AnswersAreTrue`, `ShowsOnlyStored` |
| | `ServiceKeepsLedger` | `LedgerSpec`: the refinement of `Ledger` |
| | `OperationsNeverDeadlock` | no set of operations waits in a circle for each other's locks |

### World and Room

`Base == TypeOK /\ MembershipAgrees /\ RoomsSound` (`BaseHolds`) is inductive, although none of
its parts is. A departure keeps the index and the members in step only if the index led to a room
that has the player (`MembershipAgrees`); the seat of a newcomer is open and free only in a
room whose seats are sound (`RoomsSound`); the capacity that limits the newcomers and the
summary that may be refused are numbers only in a well-typed room (`TypeOK`). The argument
has two layers. `RoomProofs` shows for each operator of `Room` that it maps sound rooms to
sound rooms when its guard holds: membership (`Join`, `Leave`), preparation, weddings, match.
`WorldProofs` has one lemma per group of actions, which reduces an action to one of three
changes of the whole state: a room is replaced by a sound one with the same members, a
player is added to a room and to the index, or removed from both. `JoinThenLeave` shows that
the roll-back of a refused join restores the room exactly.

`Base` and its consequences are proved of `PruneSpec`, in which a presence may vanish at any
moment, and therefore of `Spec`. That there are no ghosts and that the room list and the
presences are true holds of `Spec` only (`ghost` is the counterexample); `LobbyInv` adds the
three to `Base`, because a departure republishes or deletes its room exactly when the player's
presence is there, and an empty room would be one whose summary is refused.

`MatchProofs` shows of each operator of `Room` that it leaves the match of a room alone (`Quiet`),
needs a room without a match, or is one of the three steps of a match; then that an action of
`World` changes at most one room by one of them. `Base` enters where a room that is preparing must
have no game, where a refused join must leave no trace, and where the actor's index entry must
lead to a room. `GamesDistinct` needs two facts more: a room's game and a reserved one were
allocated, so the next one is new, and the game a start has reserved is in no room.

### RoomActor

The invariant says where each accepted call is. It waits once in the mailbox of its own shard, or it
is the one its shard runs, or its result is there (`MailboxesSound`, `ShardsSound`,
`ResultsSound`). The write lock that `close` takes separates senders from draining: once `closed`,
no call is between its check and its send, and the shards that were started are stopped
(`ClosingSound`, `WorkersSound`). An exited shard has an empty mailbox (`EndSound`), which is what
makes a departure after shutdown run alone. The refinement maps a send to the acceptance of a
call, and shows that the order `before` of two waiting calls of a room is their order in the
mailbox of the shard they share; that the end of the shutdown leaves nothing behind is `EndSound`
again.

### LiveSessions

`Inv` (types, shop connections apart from the account, stages that fit their fields) holds whatever
the client does. `OneOwner` needs the hypothesis `Serial`, that connections are bound or logged in one at
a time, because without it `owners` refutes it. `SerialInv` adds `OneHolder`: among the owners at most
one has not yet passed the account on, a claim looks at all live sessions, a promotion comes from
the only holder, and a connection that is bound by its lease has scanned and found no owner.

### Rounds

The invariant of a battle has a part for who is there (`Seated`), for the verdict (`Decided`), for an
open battle that can be decided (`GoesOn`), and for the hits (`HitsCounted`). `Decided` alone is
not inductive: that a battle concluded without a winner and without a draw has at most one living
team uses that its players cannot come back, hence `Seated`. `OpenRoundGoesOn` says nothing of the
conclusion that the rule is about to draw, so each report is shown to end in one of the helpers
that conclude a battle when a team is beaten. `HitsCounted` counts what was charged: one layer for
each harm and one for each death that came before its harm or whose harm another death had taken;
as long as a layer is left every death is paired or charged. `LayersAgree` follows by counting. It
says less than the comment at `competitive_durability.go:22-25`, that the order of its reports "cannot
turn one hit into two server-side life charges": a death is remembered only when no harm is pending
(151), and the pending harm may be that of another hit, so that two crossing hits can cost three layers.
The four action properties are consequences of what each report is shown to do to a battle (`Step`,
`Report`), which is stated once and proved for each report.

### Matches

`PaidOnce` and `PlayersAreCounted` compare copies that different handlers keep, and say nothing of what
could make the copies disagree later: news of a start that a busy session has not read, a result
that a goroutine will commit, the room of the next match. `Inv` has a part for each of them.

- `RoomSound`: a preparing room has no game, and its battles, clocks and results are of its type.
  `Allocated`: whatever names a game names one that was allocated, so a start names a new one.
- `SessionsSound`: members have a session in the room and, unless eliminations take players out of an
  adventure, sessions in the room are members.
- `AccountsSound`: an account that has the settlement of a game is out of that game and has no
  unread news of its start. This is what makes `PaidOnce` inductive: settlement collects the
  sessions that are in the game, and reading the mail cannot bring a paid one back.
- `MailSound`: who is to hear of a start is in no running battle; reading moves nobody out of a
  match unpaid.
- `DeliveriesSound`, `ResultsSound`: a session whose goroutine has a result to commit is in that match
  or in none, hears of no other, and is not ready, so the next match cannot start before the
  commit; the result names all participants of the battle, so nobody is left out.
- `MembersSound`: who is in a running match, or will be, is in its room and counted by its battle.
- `Ends`: a competitive battle that is not concluded has its clock; any has that or a delivery, unless
  the store refused its settlement.

Everything that takes players out of a match (settlement, departure, timeout, elimination, the end
of the grace) is shown to be an `Outcome`: members and sessions only leave, each settlement goes
to a session that leaves its game in the same step, battles only end or count those who left
out. `Outcome` keeps `Good`; what handlers do to the mail and to the sessions that read it is
`Heard`, to the deliveries `Hushed`, and each action combines a few of them. `EveryPlayerIsPaid` is
`Pays`, proved of each action beside the invariant. Of `Competitive` the proofs use only what it does to
departures and to the conclusion (`Kept`), so they do not depend on the rules that `RoundsProofs`
proves sound.

### Accounts

An operation holds the lock of each account it touches from its first read to its return
(`LocksHeld`), so what it computed is computed from what is still stored (`CopiesFresh`); with what
each stage has copied (`CopiesKnown`) and stored (`CommitsKnown`, `CopiesStored`), every step is one
of `Ledger` or a stutter. The absence of deadlock is proved, not only checked: of the operations
that wait, the one that waits for the greatest account waits for an operation that waits for
none, because locks are taken in the order of the accounts.

### Assumptions

- `RoomAssumption`, `WorldAssumption`: players and rooms are finite sets of positive numbers, there
  is a seat, team 1 exists, the settings and options chosen from are valid ones.
- `ActorAssumption`: room IDs are natural numbers, there is a shard and a place in its mailbox.
- `SessionAssumption`: connections are finitely many, each of one host. `Serial` is a hypothesis of
  two theorems and about the client, not the code.
- `BattleAssumption`, `RoundsAssumption`: fighters and teams are finite sets of positive numbers, the
  quantities of the rules are positive, a hit is a pair of a fighter and a key, a lineup assigns
  teams to fighters. `MaxKills` and `MaxStored` stop reports at a bound (`CHECK_DEADLOCK FALSE`); the
  theorems hold for each of their values.
- `MatchesAssumption`: the game types and rules of a room are existing ones, an adventure has at least
  one map. `MaxGames` stops starts at a bound; the theorems hold for each of its values.
- `KindAssumption`, `NobodyAssumption`, and the assumption of `Ledger` that accounts are numbers.

TLC evaluates them in each run.

### Only model-checked

Every invariant, action property and refinement that a passing run checks is also a theorem. What
is left to TLC:

- Liveness under fairness (`EveryCallReturns`, `CloseReturns`, `AcceptedIsServed`,
  `OnlyShopsBlockDepartures`,
  `RoundsEnd`, `EveryOperationEnds`) and ENABLED are beyond the prover, as are facts by
  induction over data (`Matches!Read` and `Matches!Eliminate` are therefore closed forms of the loops
  they stand for). No module uses RECURSIVE operators.


## Not modelled

- Kicks are in `World` (as departures, and by the join that follows in the wrong lane) but not
  among the projections of `Matches`: a kick needs a preparing room.
- `Matches` and `World` are not one state: `Matches` follows one room with its sessions and
  battles, `World` the rooms among each other. Both are built from `Room`.
- Failing writes. `Matches` assumes that the answer to a START can be written: the clock of the
  match is set after it (`tcp_sequence.go:54-71`), so a starter whose connection breaks at
  this point leaves a battle without a clock. All other deliveries commit in any case.
- A fast packet is modelled message by message; the error of a message after the one that
  concluded a battle, which drops the settlement (`room_fast_dispatch.go:1132`), is not.
- The amount of a reward, points, scene items, collected items, boss rewards, the price of a
  boss beyond whether it was paid; detached scenes of eliminated players, who only watch.
- In `Accounts`: the rules of each kind of item, the GM server (whose deletion of an account
  takes no lock), and the profile a shop connection passes to its owner, which can replace a
  newer one in the session until the next message, but is never stored.
- Kin, marriage, friends and pets: requests to the database with notifications.
- Neural AI and the battle engine (state out of a model checker's reach), wire formats and
  encryption (functions on bytes), launcher and client tooling (effects on the operating
  system).
- In `World`: lobby chat, revisions, and two methods that only tests reach (`AttachMember`,
  `CreateRoomWithID`). `RemoveMember`, by which an elimination takes out a player without a session,
  is the departure of its member.
- In `LiveSessions`: the match part of a departure, profiles, and failures of the transport
  during a broadcast. The account is one; accounts share no state in this code.

## Plan

1. **Done**: `Room`, `World`; `RoomActor` with `Lanes`; `LiveSessions`; `Competitive` with `Rounds`;
   `Adventure`; `Matches`; `Accounts` with `Ledger`; the theorems above, which cover every safety
   property and both refinements.
2. **Proofs**: that the kicks of `World` and the departures of `LiveSessions` fit the mail of `Matches`,
   once they are in one state; that the battles of `Matches` keep the invariant of `Rounds`.
3. Open as models: peer identity over UDP, kin and marriage, the start whose answer is lost.
