------------------------------- MODULE MCRounds -----------------------------
(* Two against one under every rule, the single player a client or an AI player; *)
(* a party of three against a boss; and a duel for the rule with layers.         *)
EXTENDS Rounds

Duel == [p \in {1, 3} |-> p]
TwoAgainstOne == [p \in {1, 2, 3} |-> IF p = 3 THEN 3 ELSE 1]

MCLineups ==
    {[rule |-> "durability", team |-> Duel, ai |-> {}],
     [rule |-> "boss", team |-> Unified(TwoAgainstOne), ai |-> {}]}
    \cup [rule : Rules \ {"boss", "durability"}, team : {TwoAgainstOne}, ai : {{}, {3}}]

\* One of the duellists can be hit once more than it has layers.
MCHits == {<<1, 1>>, <<1, 2>>, <<1, 3>>, <<1, 4>>, <<3, 1>>}
MCMaxKills == [rule \in Rules |-> IF rule \in {"durability", "wrestle"} THEN 2 ELSE 1]
=============================================================================
