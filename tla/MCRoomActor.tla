---------------------------- MODULE MCRoomActor -----------------------------
(* Four calls about three rooms, two of which share a shard. *)
EXTENDS RoomActor, TLC

CONSTANTS a, b, c, d

MCCalls == {a, b, c, d}
MCRooms == {0, 1, 2}
MCRoomOf == a :> 0 @@ b :> 0 @@ c :> 2 @@ d :> 1
MCDepartures == {b, c}
=============================================================================
