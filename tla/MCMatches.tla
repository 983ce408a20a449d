------------------------------ MODULE MCMatches -----------------------------
(* The matches of a room of two. *)
EXTENDS Matches

AllTypes == {"standard", "adventure"}
BothRules == {"elimination", "boss"}
=============================================================================
