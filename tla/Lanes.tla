------------------------------- MODULE Lanes --------------------------------
(***************************************************************************)
(* What the room actors promise their callers                              *)
(* (internal/server/probe/room_actor.go): every room has a lane.  A call   *)
(* is refused or accepted; the accepted calls of a room run one at a time, *)
(* in the order of their acceptance, and each is answered.  Nothing is     *)
(* accepted once shutdown has begun, and shutdown is over only when every  *)
(* accepted call has run.                                                  *)
(***************************************************************************)
CONSTANTS Calls,     \* the calls made of the actor system
          roomOf     \* the room each call is about

VARIABLES waiting,   \* the accepted calls that have not begun
          before,    \* which of two waiting calls of a room was accepted first
          running,   \* the calls being run
          ran,       \* the calls that were run
          refused,   \* the calls that were rejected
          shutdown   \* "open", "begun" or "over"

vars == <<waiting, before, running, ran, refused, shutdown>>

Init ==
    /\ waiting = {}
    /\ before = {}
    /\ running = {}
    /\ ran = {}
    /\ refused = {}
    /\ shutdown = "open"

Fresh(c) == c \notin waiting \cup running \cup ran \cup refused
SameRoom(c) == {d \in Calls : roomOf[d] = roomOf[c]}

Accept(c) ==
    /\ shutdown = "open" /\ Fresh(c)
    /\ waiting' = waiting \cup {c}
    /\ before' = before \cup {<<d, c>> : d \in waiting \cap SameRoom(c)}
    /\ UNCHANGED <<running, ran, refused, shutdown>>

Refuse(c) ==
    /\ shutdown # "open" /\ Fresh(c)
    /\ refused' = refused \cup {c}
    /\ UNCHANGED <<waiting, before, running, ran, shutdown>>

\* The lane is idle and the call is the first in it.
Begin(c) ==
    /\ c \in waiting
    /\ running \cap SameRoom(c) = {}
    /\ \A d \in waiting : <<d, c>> \notin before
    /\ waiting' = waiting \ {c}
    /\ before' = before \ {<<c, d>> : d \in Calls}
    /\ running' = running \cup {c}
    /\ UNCHANGED <<ran, refused, shutdown>>

Finish(c) ==
    /\ c \in running
    /\ running' = running \ {c}
    /\ ran' = ran \cup {c}
    /\ UNCHANGED <<waiting, before, refused, shutdown>>

BeginShutdown ==
    /\ shutdown = "open"
    /\ shutdown' = "begun"
    /\ UNCHANGED <<waiting, before, running, ran, refused>>

EndShutdown ==
    /\ shutdown = "begun" /\ running = {} /\ waiting = {}
    /\ shutdown' = "over"
    /\ UNCHANGED <<waiting, before, running, ran, refused>>

Next ==
    \/ \E c \in Calls : Accept(c) \/ Refuse(c) \/ Begin(c) \/ Finish(c)
    \/ BeginShutdown \/ EndShutdown

Spec == Init /\ [][Next]_vars

\* An accepted call is run.
Served == \A c \in Calls : c \in waiting ~> c \in ran
=============================================================================
