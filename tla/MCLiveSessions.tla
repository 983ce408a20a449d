--------------------------- MODULE MCLiveSessions ---------------------------
(* Connections of a client from one host, with its shop connection. *)
EXTENDS LiveSessions, TLC

CONSTANTS first, second, third, home

Home == {home}
OneHost == [c \in Conns |-> home]
=============================================================================
