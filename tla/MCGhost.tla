------------------------------- MODULE MCGhost ------------------------------
(***************************************************************************)
(* A session's departure as probe/session_departure.go composes it:        *)
(* leaveSessionRoom calls World.LeaveRoom and, when that returns an error,  *)
(* World.ReconcileRoomDeparture for the room the session was in.           *)
(***************************************************************************)
EXTENDS MCWorld

VARIABLE leaving      \* sessions between the failed LeaveRoom and its recovery

LeaveSessionRoom(p) ==
    /\ p \notin DOMAIN leaving
    /\ LeaveRoom(p)
    /\ leaving' = IF Online(p) THEN leaving ELSE Put(leaving, p, memberships[p])

Recover(p) ==
    /\ p \in DOMAIN leaving
    /\ ReconcileRoomDeparture(p, leaving[p])
    /\ leaving' = Drop(leaving, p)

Elsewhere(p) ==
    /\ p \notin DOMAIN leaving
    /\ LobbyNext(p) \/ RoomNext(p) \/ PruneLobby(p)
    /\ UNCHANGED leaving

GhostInit == Init /\ leaving = Empty
GhostNext == \E p \in Players : LeaveSessionRoom(p) \/ Recover(p) \/ Elsewhere(p)
GhostSpec == GhostInit /\ [][GhostNext]_<<vars, leaving>>

\* "This method ... removes whichever stale side still exists and then
\* republishes the lobby projection, preventing an adapter error from leaving an
\* unjoinable ghost" (world.go:407-411): once a departure is over, a room
\* without members is gone.
DepartureLeavesNoGhost ==
    \A id \in Live : Roster(rooms[id]) = {} => \E p \in DOMAIN leaving : leaving[p] = id
=============================================================================
