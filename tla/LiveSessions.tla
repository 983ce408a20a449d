---------------------------- MODULE LiveSessions ----------------------------
(***************************************************************************)
(* Who owns an account: internal/server/probe/live_sessions.go with the    *)
(* login (login_service.go) and the departure of a connection              *)
(* (session_departure.go), for one account.                                *)
(*                                                                         *)
(* A connection owns the account (liveUIN), waits to inherit it            *)
(* (continuation), borrows it for the shop (auxiliary) or has nothing to   *)
(* do with it.  An owner's snapshot is leased to its host for a few        *)
(* seconds after its last message.  A connection is one goroutine and is   *)
(* never reused; a step ends where the goroutine gives up a mutex, so a    *)
(* departure, a login and a binding interleave as they do in the program.  *)
(***************************************************************************)
EXTENDS FiniteSets

CONSTANTS Conns,     \* the TCP connections made during a behaviour
          Hosts,     \* the remote hosts
          hostOf,    \* remoteHost of each connection
          Shops,     \* the connections made to the shop endpoint
          Serial     \* whether a client waits for one connection to be bound or
                     \* logged in before it begins with the next

ASSUME SessionAssumption ==
    /\ IsFiniteSet(Conns)
    /\ hostOf \in [Conns -> Hosts]
    /\ Shops \subseteq Conns
    /\ Serial \in BOOLEAN

VARIABLES pc,            \* where the connection's goroutine is
          seen,          \* the sessions it took from the live-session scan
          carry,         \* whether the snapshot it carries is of a session in a room
          bound,         \* session.UIN # 0
          owner,         \* session.liveUIN # 0
          continuation,  \* session.continuation
          auxiliary,     \* session.auxiliary
          room,          \* session.RoomID # 0
          lease,         \* per host, authenticatedSessions: whether it has a room
          proof,         \* the hosts with an unused password proof
          online,        \* the account has a lobby presence
          inRoom         \* the account is a member of a room (World.memberships)

session == <<bound, owner, continuation, auxiliary, room>>
account == <<lease, proof, online, inRoom>>
vars == <<pc, seen, carry, session, account>>

Binding == {"published", "leased", "resumed", "found", "copied"}
LoggingIn == {"proved", "unleased", "leasedLogin", "claimed"}
Departing == {"checking", "promoting", "promoted", "leavingRoom", "leavingLobby"}
Leases == {"none", "lobby", "room"}

\* Mutation: a binding keeps its own lock while it waits for the owner's.
LockedNested(c) == pc[c] \in LoggingIn \cup Departing \cup {"borrowing", "found"}

\* session.mu is held through a dispatched message and through a departure.
Locked(c) == pc[c] \in LoggingIn \cup Departing \cup {"borrowing"}

Registered == {c \in Conns : pc[c] \notin {"new", "gone"}}     \* liveSessions
Entering == {c \in Conns : pc[c] \in Binding \cup LoggingIn}
MayEnter == Serial => Entering = {}

\* Every variable has its type, whoever owns the account has its UIN, and a shop
\* connection never owns it or waits for it.
TypeOK ==
    /\ pc \in [Conns -> {"new", "idle", "borrowing", "dropped", "closed", "gone"}
                            \cup Binding \cup LoggingIn \cup Departing]
    /\ seen \in [Conns -> SUBSET Conns]
    /\ carry \in [Conns -> BOOLEAN]
    /\ bound \subseteq Conns /\ owner \subseteq bound /\ continuation \subseteq bound
    /\ auxiliary \subseteq bound \ (owner \cup continuation)
    /\ room \subseteq Conns
    /\ lease \in [Hosts -> Leases]
    /\ proof \subseteq Hosts
    /\ {online, inRoom} \subseteq BOOLEAN

Init ==
    /\ pc = [c \in Conns |-> "new"]
    /\ seen = [c \in Conns |-> {}]
    /\ carry = [c \in Conns |-> FALSE]
    /\ bound = {} /\ owner = {} /\ continuation = {} /\ auxiliary = {} /\ room = {}
    /\ lease = [h \in Hosts |-> "none"]
    /\ proof = {}
    /\ online = FALSE /\ inRoom = FALSE

Goes(c, from, to) == pc[c] = from /\ pc' = [pc EXCEPT ![c] = to]
Set(S, c, in) == IF in THEN S \cup {c} ELSE S \ {c}

\* The goroutine is done with the sessions and the snapshot it took.
Forget(c) ==
    /\ seen' = [seen EXCEPT ![c] = {}]
    /\ carry' = [carry EXCEPT ![c] = FALSE]

\* rememberAuthenticatedSession, at the end of every message: the snapshot of a
\* bound session; a shop connection only extends a lease that is there.
Remember(c) ==
    lease' = IF c \in bound' \ auxiliary'
             THEN [lease EXCEPT ![hostOf[c]] = IF c \in room' THEN "room" ELSE "lobby"]
             ELSE lease

-----------------------------------------------------------------------------
(* Messages of a bound connection *)

Open(c) ==
    /\ Goes(c, "new", "idle")
    /\ UNCHANGED <<seen, carry, session, account>>

\* Any message that changes nothing else.
Message(c) ==
    /\ pc[c] = "idle" /\ c \in bound
    /\ UNCHANGED <<pc, seen, carry, session, proof, online, inRoom>>
    /\ Remember(c)

\* authorizeBusinessDispatch: business needs the owner.
RefuseBusiness(c) ==
    /\ c \in bound \ (owner \cup auxiliary)
    /\ Goes(c, "idle", "dropped")
    /\ UNCHANGED <<seen, carry, session, proof, online, inRoom>>
    /\ Remember(c)

JoinRoom(c) ==
    /\ pc[c] = "idle" /\ c \in owner \ room
    /\ ~inRoom
    /\ inRoom' = TRUE /\ online' = TRUE
    /\ room' = room \cup {c}
    /\ UNCHANGED <<pc, seen, carry, bound, owner, continuation, auxiliary, proof>>
    /\ Remember(c)

\* leaveSessionRoom: LeaveRoom, or the reconciliation of what is left of it.
LeaveRoom(c) ==
    /\ c \in room
    /\ inRoom' = FALSE
    /\ room' = room \ {c}

LeaveByRequest(c) ==
    /\ pc[c] = "idle" /\ c \in owner
    /\ LeaveRoom(c)
    /\ UNCHANGED <<pc, seen, carry, bound, owner, continuation, auxiliary, proof, online>>
    /\ Remember(c)

\* logoutSession: the connection stays open, and the district selector gets a proof.
Logout(c) ==
    /\ pc[c] = "idle" /\ c \in owner
    /\ inRoom' = (inRoom /\ c \notin room)
    /\ room' = room \ {c}
    /\ online' = FALSE
    /\ lease' = [lease EXCEPT ![hostOf[c]] = "none"]
    /\ proof' = proof \cup {hostOf[c]}
    /\ bound' = bound \ {c} /\ owner' = owner \ {c} /\ continuation' = continuation \ {c}
    /\ UNCHANGED <<pc, seen, carry, auxiliary>>

-----------------------------------------------------------------------------
(* handleLoginRequest *)

\* The password challenge was answered from this host.
Authenticate(h) ==
    /\ proof' = proof \cup {h}
    /\ UNCHANGED <<pc, seen, carry, session, lease, online, inRoom>>

\* A client logs in once per connection.
BeginLogin(c) == pc[c] = "idle" /\ c \notin owner \cup Shops /\ MayEnter

\* A fresh proof is spent and supersedes the host's lease.
LoginByProof(c) ==
    /\ BeginLogin(c) /\ hostOf[c] \in proof
    /\ Goes(c, "idle", "proved")
    /\ proof' = proof \ {hostOf[c]}
    /\ lease' = [lease EXCEPT ![hostOf[c]] = "none"]
    /\ UNCHANGED <<seen, carry, session, online, inRoom>>

LoginByLease(c) ==
    /\ BeginLogin(c) /\ hostOf[c] \notin proof
    /\ lease[hostOf[c]] # "none"
    /\ Goes(c, "idle", "leasedLogin")
    /\ carry' = [carry EXCEPT ![c] = lease[hostOf[c]] = "room"]
    /\ UNCHANGED <<seen, session, account>>

RefuseLogin(c) ==
    /\ BeginLogin(c) /\ hostOf[c] \notin proof
    /\ lease[hostOf[c]] = "none"
    /\ Goes(c, "idle", "dropped")
    /\ UNCHANGED <<seen, carry, session, proof, online, inRoom>>
    /\ Remember(c)

Unowned(c) == Registered \cap owner \subseteq {c}

\* claimLiveUIN: no lease of any host ...
CheckLeases(c) ==
    /\ \A h \in Hosts : lease[h] = "none"
    /\ Goes(c, "proved", "unleased")
    /\ UNCHANGED <<seen, carry, session, account>>

\* ... and, under another mutex, no live owner.
Claim(c) ==
    /\ Unowned(c)
    /\ Goes(c, "unleased", "claimed")
    /\ bound' = bound \cup {c} /\ owner' = owner \cup {c}
    /\ UNCHANGED <<seen, carry, continuation, auxiliary, room, account>>

\* Mutation: the live sessions are not scanned again.
ClaimFromLeaseUnscanned(c) ==
    /\ Goes(c, "leasedLogin", "claimed")
    /\ bound' = bound \cup {c} /\ owner' = owner \cup {c}
    /\ continuation' = continuation \ {c}
    /\ room' = Set(room, c, carry[c])
    /\ Forget(c)
    /\ UNCHANGED <<auxiliary, account>>

\* claimLiveUINFromLease: the session comes back as the lease remembers it.
ClaimFromLease(c) ==
    /\ Unowned(c)
    /\ Goes(c, "leasedLogin", "claimed")
    /\ bound' = bound \cup {c} /\ owner' = owner \cup {c}
    /\ continuation' = continuation \ {c}
    /\ room' = Set(room, c, carry[c])
    /\ Forget(c)
    /\ UNCHANGED <<auxiliary, account>>

RefuseDuplicate(c) ==
    /\ \/ pc[c] = "proved" /\ \E h \in Hosts : lease[h] # "none"
       \/ pc[c] \in {"unleased", "leasedLogin"} /\ ~Unowned(c)
    /\ pc' = [pc EXCEPT ![c] = "dropped"]
    /\ Forget(c)
    /\ UNCHANGED <<session, proof, online, inRoom>>
    /\ Remember(c)

EndLogin(c) ==
    /\ Goes(c, "claimed", "idle")
    /\ online' = TRUE
    /\ UNCHANGED <<seen, carry, session, proof, inRoom>>
    /\ Remember(c)

\* The profile cannot be loaded or shown: the connection closes as the owner.
FailLogin(c) ==
    /\ Goes(c, "claimed", "dropped")
    /\ UNCHANGED <<seen, carry, session, proof, online, inRoom>>
    /\ Remember(c)

-----------------------------------------------------------------------------
(* bindSessionContinuation: a replacement connection identifies itself *)

\* The candidate is published before the old owner is looked up.
Publish(c) ==
    /\ c \notin owner \cup Shops /\ MayEnter
    /\ Goes(c, "idle", "published")
    /\ bound' = bound \cup {c} /\ continuation' = continuation \cup {c}
    /\ UNCHANGED <<seen, carry, owner, auxiliary, room, account>>

Scan(c) ==
    /\ Goes(c, "published", "found")
    /\ \/ Unowned(c) /\ seen' = [seen EXCEPT ![c] = {}]
       \/ \E p \in (Registered \cap owner) \ {c} : seen' = [seen EXCEPT ![c] = {p}]
    /\ UNCHANGED <<carry, session, account>>

\* The primary's lock is free, or there is no primary to lock.
Reached(c) == \A p \in seen[c] : hostOf[p] = hostOf[c] /\ ~Locked(p)

FindsItselfOwner(c) ==
    /\ c \in owner /\ Reached(c)
    /\ Goes(c, "found", "idle")
    /\ Forget(c)
    /\ UNCHANGED <<session, proof, online, inRoom>>
    /\ Remember(c)

\* rollbackSessionContinuation: another host, no lease, or an owner that is one no
\* longer.
Rollback(c) ==
    /\ \/ \E p \in seen[c] : hostOf[p] # hostOf[c]
       \/ seen[c] = {} /\ c \notin owner /\ lease[hostOf[c]] = "none"
       \/ seen[c] # {} /\ Reached(c) /\ c \notin owner /\ seen[c] \cap owner = {}
    /\ Goes(c, "found", "idle")
    /\ LET undone == IF c \in continuation \ owner THEN {c} ELSE {}
       IN  bound' = bound \ undone /\ continuation' = continuation \ undone
    /\ Forget(c)
    /\ UNCHANGED <<owner, auxiliary, room, proof, online, inRoom>>
    /\ Remember(c)

TakeLease(c) ==
    /\ seen[c] = {} /\ c \notin owner /\ lease[hostOf[c]] # "none"
    /\ Goes(c, "found", "leased")
    /\ carry' = [carry EXCEPT ![c] = lease[hostOf[c]] = "room"]
    /\ UNCHANGED <<seen, session, account>>

\* The owner is stored without liveMu and without a second scan.
ResumeLease(c) ==
    /\ Goes(c, "leased", "resumed")
    /\ owner' = owner \cup {c} /\ continuation' = continuation \ {c}
    /\ room' = Set(room, c, carry[c])
    /\ Forget(c)
    /\ UNCHANGED <<bound, auxiliary, account>>

EndResume(c) ==
    /\ Goes(c, "resumed", "idle")
    /\ online' = TRUE
    /\ UNCHANGED <<seen, carry, session, proof, inRoom>>
    /\ Remember(c)

\* The snapshot is taken under the primary's lock ...
Copy(c) ==
    /\ Reached(c) /\ c \notin owner /\ seen[c] \cap owner # {}
    /\ Goes(c, "found", "copied")
    /\ carry' = [carry EXCEPT ![c] = seen[c] \cap room # {}]
    /\ UNCHANGED <<seen, session, account>>

\* ... and stored under its own, whatever happened in between.
Continue(c) ==
    /\ Goes(c, "copied", "idle")
    /\ continuation' = continuation \cup {c}
    /\ room' = Set(room, c, carry[c])
    /\ Forget(c)
    /\ UNCHANGED <<bound, owner, auxiliary, proof, online, inRoom>>
    /\ Remember(c)

\* bindAuxiliaryShopConnection, in one step: it changes only the shop's connection.
\* With a configuration request that one holds no lock while it waits for the
\* owner's; with any request it waits for nobody when there is no owner.
BindShop(c) ==
    /\ pc[c] = "idle" /\ c \in Shops \ bound
    /\ \/ Unowned(c) /\ lease[hostOf[c]] # "none"
       \/ \E p \in Registered \cap owner : hostOf[p] = hostOf[c] /\ ~Locked(p)
    /\ bound' = bound \cup {c} /\ auxiliary' = auxiliary \cup {c}
    /\ UNCHANGED <<pc, seen, carry, owner, continuation, room, account>>

\* A list or purchase request is dispatched under the shop's own lock ...
RequestShop(c) ==
    /\ c \in Shops \ bound
    /\ \E p \in Registered \cap owner :
          hostOf[p] = hostOf[c] /\ seen' = [seen EXCEPT ![c] = {p}]
    /\ Goes(c, "idle", "borrowing")
    /\ UNCHANGED <<carry, session, account>>

\* ... which it keeps while it waits for that of the owner, who may be one no longer.
Borrow(c) ==
    /\ \A p \in seen[c] : ~Locked(p)
    /\ Goes(c, "borrowing", "idle")
    /\ LET lent == IF seen[c] \cap owner = {} THEN {} ELSE {c}
       IN  bound' = bound \cup lent /\ auxiliary' = auxiliary \cup lent
    /\ Forget(c)
    /\ UNCHANGED <<owner, continuation, room, account>>

Expire(h) ==
    /\ lease[h] # "none"
    /\ lease' = [lease EXCEPT ![h] = "none"]
    /\ UNCHANGED <<pc, seen, carry, session, proof, online, inRoom>>

-----------------------------------------------------------------------------
(* handleConnectionDeparture *)

Closing(c) == pc[c] \in {"idle", "dropped"}

\* Mutation: the shop window closes the account.
CloseAsideUnguarded(c) ==
    /\ Closing(c)
    /\ c \notin owner
    /\ pc' = [pc EXCEPT ![c] = IF c \in auxiliary THEN "leavingRoom" ELSE "closed"]
    /\ UNCHANGED <<seen, carry, session, account>>

\* A connection that does not own the account leaves it alone.  One that fell back
\* from a continuation may have kept a room, but it asks to leave it without a UIN
\* (rollbackSessionContinuation), which World refuses.
CloseAside(c) ==
    /\ Closing(c)
    /\ c \notin owner
    /\ pc' = [pc EXCEPT ![c] = "closed"]
    /\ UNCHANGED <<seen, carry, session, account>>

\* promoteSessionContinuation takes its candidates from the live sessions ...
CloseOwner(c) ==
    /\ Closing(c)
    /\ c \in owner
    /\ pc' = [pc EXCEPT ![c] = "checking"]
    /\ seen' = [seen EXCEPT ![c] = Registered \ owner]
    /\ UNCHANGED <<carry, session, account>>

\* Mutation: whoever does not own the account is taken for an heir.
CheckAnybody(c, k) ==
    /\ pc[c] = "checking" /\ k \in seen[c] /\ ~Locked(k)
    /\ seen' = [seen EXCEPT ![c] = {k}]
    /\ pc' = [pc EXCEPT ![c] = "promoting"]
    /\ UNCHANGED <<carry, session, account>>

\* ... asks them one by one, each under its lock ...
Check(c, k) ==
    /\ pc[c] = "checking" /\ k \in seen[c] /\ ~Locked(k)
    /\ IF k \in continuation \ owner
       THEN /\ seen' = [seen EXCEPT ![c] = {k}]
            /\ pc' = [pc EXCEPT ![c] = "promoting"]
       ELSE /\ seen' = [seen EXCEPT ![c] = @ \ {k}]
            /\ UNCHANGED pc
    /\ UNCHANGED <<carry, session, account>>

\* ... and gives everything to the first that waits for the account.
Promote(c, k) ==
    /\ seen[c] = {k} /\ ~Locked(k) /\ k \notin owner
    /\ Goes(c, "promoting", "promoted")
    /\ bound' = bound \cup {k} /\ owner' = owner \cup {k}
    /\ continuation' = continuation \ {k}
    /\ room' = Set(room, k, c \in room)
    /\ UNCHANGED <<seen, carry, auxiliary, account>>

Retire(c) ==
    /\ Goes(c, "promoted", "closed")
    /\ owner' = owner \ {c}
    /\ Forget(c)
    /\ UNCHANGED <<bound, continuation, auxiliary, room, account>>

NoHeir(c) ==
    /\ \/ pc[c] = "checking" /\ seen[c] = {}
       \/ pc[c] = "promoting" /\ \A k \in seen[c] : ~Locked(k) /\ k \in owner
    /\ pc' = [pc EXCEPT ![c] = "leavingRoom"]
    /\ Forget(c)
    /\ UNCHANGED <<session, account>>

DepartFromRoom(c) ==
    /\ Goes(c, "leavingRoom", "leavingLobby")
    /\ \/ LeaveRoom(c)
       \/ c \notin room /\ UNCHANGED <<room, inRoom>>
    /\ UNCHANGED <<seen, carry, bound, owner, continuation, auxiliary, lease, proof, online>>

\* liveUIN stays set: until it is unregistered a scan still finds an owner here.
DepartFromLobby(c) ==
    /\ Goes(c, "leavingLobby", "closed")
    /\ online' = FALSE
    /\ UNCHANGED <<seen, carry, session, lease, proof, inRoom>>

Unregister(c) ==
    /\ Goes(c, "closed", "gone")
    /\ UNCHANGED <<seen, carry, session, account>>

-----------------------------------------------------------------------------
Client(c) ==
    \/ Open(c) \/ Message(c) \/ RefuseBusiness(c) \/ JoinRoom(c) \/ LeaveByRequest(c)
    \/ Logout(c) \/ LoginByProof(c) \/ LoginByLease(c) \/ RefuseLogin(c) \/ Publish(c)
    \/ BindShop(c) \/ RequestShop(c) \/ (pc[c] = "idle" /\ (CloseAside(c) \/ CloseOwner(c)))

Server(c) ==
    \/ CheckLeases(c) \/ Claim(c) \/ ClaimFromLease(c) \/ RefuseDuplicate(c)
    \/ EndLogin(c) \/ FailLogin(c) \/ Scan(c) \/ FindsItselfOwner(c) \/ Rollback(c)
    \/ TakeLease(c) \/ ResumeLease(c) \/ EndResume(c) \/ Copy(c) \/ Continue(c) \/ Borrow(c)
    \/ (pc[c] = "dropped" /\ (CloseAside(c) \/ CloseOwner(c)))
    \/ \E k \in Conns : Check(c, k) \/ Promote(c, k)
    \/ Retire(c) \/ NoHeir(c) \/ DepartFromRoom(c) \/ DepartFromLobby(c) \/ Unregister(c)

Next ==
    \/ \E c \in Conns : Client(c) \/ Server(c)
    \/ \E h \in Hosts : Authenticate(h) \/ Expire(h)

Spec == Init /\ [][Next]_vars

\* A goroutine that is not waiting for its client keeps running.
FairSpec == Spec /\ \A c \in Conns : WF_vars(Server(c))

-----------------------------------------------------------------------------
(* Properties *)

Settled == {c \in owner : pc[c] \in {"idle", "dropped"}}

\* An account has at most one owning connection: two owners would both act for the
\* player, and the first to close would take the other's room and presence along.
OneOwner == \A c, d \in Settled : c = d

\* The player disappears from the lobby only when no connection owns the account any
\* more, whatever other connections of the account are refused, promoted or closed.
PresenceOutlivesOwner == [][online /\ ~online' => Settled' = {}]_vars

\* The room of the owning session is the projection of World's membership.
RoomIsProjected == \A c \in Settled : pc[c] = "idle" => (c \in room) = inRoom

\* "A dispatcher must never hold one connection's session.mu while waiting for another
\* connection's session.mu: two simultaneous account operations can otherwise form an
\* ABBA deadlock" (server.go:141-145): every departure comes to its end.
DepartureEnds == \A c \in Conns : pc[c] = "checking" ~> pc[c] = "gone"

\* The departing owner c and a shop connection wait for each other's lock.
Circle(c) == \E k \in Shops : pc[k] = "borrowing" /\ c \in seen[k] /\ k \in seen[c]

\* That circle, of a shop request with the departure of the owner it has found, is the
\* only one: a departure ends or is caught in it for good, whatever is bound, logs in
\* or departs at the same time.
OnlyShopsBlockDepartures ==
    \A c \in Conns : pc[c] = "checking" ~> (pc[c] = "gone" \/ [](pc[c] = "checking" /\ Circle(c)))
=============================================================================
