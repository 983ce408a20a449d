------------------------------- MODULE MCWorld ------------------------------
(* World on small sets of players, seats, rooms and settings. *)
EXTENDS World

Random(type) == [type |-> type, fixed |-> FALSE, limit |-> 0]
Fixed(type, limit) == [type |-> type, fixed |-> TRUE, limit |-> limit]

OneMap == {Random("standard")}
\* A chat room can be turned into a room for matches, limited or not, and back.
EveryMap == {Random("standard"), Fixed("loot", 2), Random("chat")}

NoAI == [t \in Teams |-> 0]
Ordinary == [single |-> FALSE, defer |-> FALSE, virtual |-> NoAI]
BossCard == [single |-> TRUE, defer |-> FALSE, virtual |-> NoAI]
Deferred == [single |-> FALSE, defer |-> TRUE, virtual |-> NoAI]
OneAI == [single |-> FALSE, defer |-> FALSE, virtual |-> [t \in Teams |-> IF t = 2 THEN 1 ELSE 0]]

OrdinaryStarts == {Ordinary, BossCard}
AllStarts == {Ordinary, BossCard, Deferred, OneAI}
=============================================================================
