------------------------------ MODULE Adventure -----------------------------
(***************************************************************************)
(* One adventure battle: internal/game/match/adventure.go.                 *)
(*                                                                         *)
(* As in Competitive.tla, CanX(b, ...) is the conjunction of a method's    *)
(* error returns and X(b, ...) the battle after it; it is newly concluded  *)
(* when it was open before.  Left out as data no property looks at: the    *)
(* statistics, the items collected, seeds and scene IDs.                   *)
(***************************************************************************)
EXTENDS Naturals, FiniteSetsExt

Nobody == 0                                   \* the zero player ID

\* The preferred participant, dead or alive, or the smallest ID.
SelectArbitrator(preferred, S) == IF preferred \in S THEN preferred ELSE Min(S)

\* expected is the number of NPCs of the stage; 0 for a stage without a rule.
NewBattle(participants, arbitrator, expected) ==
    [members |-> participants, alive |-> participants, arbitrator |-> arbitrator,
     expected |-> expected, deaths |-> 0, cleared |-> FALSE,
     pending |-> FALSE, winners |-> {}, concluded |-> FALSE]

-----------------------------------------------------------------------------
CanRecordNPCDeath(b) == ~b.concluded
RecordNPCDeath(b) ==
    IF b.cleared THEN b
    ELSE [b EXCEPT !.deaths = @ + 1,
                   !.cleared = b.expected # 0 /\ b.deaths + 1 >= b.expected]

\* RecordPlayerSaved, and RecordPlayerRelive, which names no rescuer.
CanRevive(b, p) == ~b.concluded /\ ~b.pending /\ p \in b.members
Revive(b, p) == [b EXCEPT !.alive = @ \cup {p}]

\* While a victory is pending the last death brings its delivery forward.
RecordDeath(b, p) ==
    LET fallen == [b EXCEPT !.alive = @ \ {p}]
    IN  IF b.concluded THEN b
        ELSE [fallen EXCEPT !.concluded = ~b.pending /\ fallen.alive = {}]

\* Everybody who reached the final stage wins.
BeginFinalStageVictory(b) ==
    IF b.pending THEN b ELSE [b EXCEPT !.pending = TRUE, !.winners = b.members]

CanFinalize(b) == b.concluded \/ b.pending
FinalizePendingVictory(b) ==
    IF b.concluded THEN b ELSE [b EXCEPT !.pending = FALSE, !.concluded = TRUE]

-----------------------------------------------------------------------------
CanPrepareNextStage(b, p) ==
    /\ p \in b.alive /\ ~b.concluded /\ ~b.pending
    /\ b.expected # 0 => b.cleared

SettledOut(b) == b.members \ b.alive

AdvanceStage(b, expected) ==
    NewBattle(b.alive, SelectArbitrator(b.arbitrator, b.alive), expected)

\* The dead can arbitrate, but without a living participant the battle ends,
\* whatever it was waiting for.
CanRemoveParticipant(b, p) == p \in b.members
RemoveParticipant(b, p) ==
    LET left == [b EXCEPT !.members = @ \ {p}, !.alive = @ \ {p}]
    IN  IF b.concluded THEN left
        ELSE IF left.alive = {} THEN [left EXCEPT !.concluded = TRUE, !.arbitrator = Nobody]
        ELSE [left EXCEPT !.arbitrator = SelectArbitrator(@, left.members)]
=============================================================================
