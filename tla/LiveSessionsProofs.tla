------------------------- MODULE LiveSessionsProofs -------------------------
(***************************************************************************)
(* Theorems about LiveSessions.tla, for any number of connections and      *)
(* hosts: when a client's connections are bound one after the other, an    *)
(* account has one owner, and its presence outlives it.                    *)
(***************************************************************************)
EXTENDS LiveSessions, TLAPS

-----------------------------------------------------------------------------
(* The invariant *)

\* A shop connection never comes to own the account or to wait for it.
ShopsApart ==
    /\ auxiliary \subseteq Shops
    /\ Shops \cap (owner \cup continuation) = {}
    /\ \A c \in Shops : pc[c] \notin Binding \cup LoggingIn
    /\ \A c \in Conns : pc[c] = "promoting" => seen[c] \cap Shops = {}
    /\ \A c \in Conns : pc[c] = "borrowing" => c \in Shops

\* A connection has its UIN while it is being bound and nothing before it opens,
\* and only an owner departs with an account to pass on.
StagesSound ==
    /\ \A c \in Conns : pc[c] \in Binding => c \in bound
    /\ \A c \in Conns : pc[c] = "new" => c \notin bound
    /\ \A c \in Conns : \A k \in seen[c] : pc[k] # "new"
    /\ \A c \in Conns : pc[c] \in Departing => c \in owner

\* The owners that a scan of the live sessions finds, and among them the ones that
\* have not passed the account on.
Owners == Registered \cap owner
Holders == {c \in Owners : pc[c] # "promoted"}

\* A connection that is bound to the account by its lease.
Inherits(c) == pc[c] = "leased" \/ (pc[c] = "found" /\ seen[c] = {})

\* A second owner can only be the one that has just passed the account on: a claim
\* looks at every live session, a promotion comes from the only holder, and a lease
\* is resumed after a scan found no owner, while nobody else can enter.
OneHolder ==
    /\ \A c, d \in Entering : c = d
    /\ \A c, d \in Holders : c = d
    /\ \A c \in Conns : Inherits(c) => Owners \subseteq {c}

Inv == TypeOK /\ ShopsApart /\ StagesSound
SerialInv == Inv /\ OneHolder

-----------------------------------------------------------------------------
(* Types *)

Stages == {"new", "idle", "borrowing", "dropped", "closed", "gone"} \cup Binding \cup LoggingIn \cup Departing

\* A lease that is remembered, and a goroutine that forgets, keep their types.
LEMMA RememberTyped ==
    ASSUME TypeOK, NEW c \in Conns, Remember(c)
    PROVE  lease' \in [Hosts -> Leases]
BY SessionAssumption DEF TypeOK, Remember, Leases
LEMMA ForgetTyped ==
    ASSUME TypeOK, NEW c \in Conns, Forget(c)
    PROVE  seen' \in [Conns -> SUBSET Conns] /\ carry' \in [Conns -> BOOLEAN]
BY DEF TypeOK, Forget

-----------------------------------------------------------------------------
(* Steps that leave the account to whom it belongs *)

\* The connection that enters is alone in it, if clients enter one at a time.
EntersAlone(c) == Serial => Entering \subseteq {c}

\* What becomes of the connection whose step it is.
Walks(c, to) ==
    /\ pc' = [pc EXCEPT ![c] = to] /\ to \in Stages \ {"new", "promoted"}
    /\ pc[c] \notin {"promoted", "gone"}
    /\ to \in Binding => c \in bound
    /\ to \in Binding \cup LoggingIn => c \notin Shops /\ (c \in Entering \/ EntersAlone(c))
    /\ to \in Departing => c \in owner
    /\ to = "borrowing" => c \in Shops

\* What it takes from the live sessions.
Looks(c) ==
    \/ seen' = seen
    \/ \E S \in SUBSET Conns : seen' = [seen EXCEPT ![c] = S] /\ \A k \in S : pc[k] # "new"
    \/ seen' = [seen EXCEPT ![c] = {}]

\* A step of a connection that changes no session field but the room.
Quiet(c) ==
    /\ UNCHANGED <<bound, owner, continuation, auxiliary>>
    /\ \/ pc' = pc
       \/ \E to \in Stages : Walks(c, to)
    /\ Looks(c)
    /\ pc'[c] = "promoting" => seen'[c] \cap Shops = {}
    /\ Inherits(c)' => Inherits(c) \/ Owners \subseteq {c}
    /\ \/ carry' = carry
       \/ carry' = [carry EXCEPT ![c] = TRUE]
       \/ carry' = [carry EXCEPT ![c] = FALSE]
    /\ room' = room \/ room' = room \cup {c} \/ room' = room \ {c}
    /\ lease' = lease \/ lease' = [lease EXCEPT ![hostOf[c]] = "none"] \/ Remember(c)
    /\ proof' = proof \/ proof' = proof \ {hostOf[c]}
    /\ online' \in {online, TRUE, FALSE} /\ inRoom' \in {inRoom, TRUE, FALSE}

\* Quiet steps keep the types.
LEMMA QuietKeepsTypes ==
    ASSUME Inv, NEW c \in Conns, Quiet(c)
    PROVE  TypeOK'
<1>1. pc' \in [Conns -> Stages]
    <2>1. pc \in [Conns -> Stages]
        BY DEF Inv, TypeOK, Stages
    <2> QED
        BY <2>1 DEF Quiet, Walks
<1>2. seen' \in [Conns -> SUBSET Conns] /\ carry' \in [Conns -> BOOLEAN]
    <2>1. seen \in [Conns -> SUBSET Conns] /\ carry \in [Conns -> BOOLEAN]
        BY DEF Inv, TypeOK
    <2>2. seen' \in [Conns -> SUBSET Conns]
        BY <2>1 DEF Quiet, Looks
    <2>3. carry' \in [Conns -> BOOLEAN]
        BY <2>1 DEF Quiet
    <2> QED
        BY <2>2, <2>3
<1>3. lease' \in [Hosts -> Leases]
    <2>1. lease \in [Hosts -> Leases]
        BY DEF Inv, TypeOK
    <2> QED
        BY <2>1, RememberTyped DEF Quiet, Leases, Inv
<1>4. /\ room' \subseteq Conns /\ proof' \subseteq Hosts /\ {online', inRoom'} \subseteq BOOLEAN
      /\ UNCHANGED <<bound, owner, continuation, auxiliary>>
    BY SessionAssumption DEF Inv, TypeOK, Quiet
<1> QED
    BY <1>1, <1>2, <1>3, <1>4 DEF Inv, TypeOK, Stages

\* What a quiet step does to the stages.
LEMMA QuietStages ==
    ASSUME Inv, NEW c \in Conns, Quiet(c)
    PROVE  /\ \A d \in Conns : d # c => pc'[d] = pc[d] /\ seen'[d] = seen[d]
           /\ \A k \in seen'[c] : pc[k] # "new"
           /\ \A d \in Conns : pc'[d] = "new" => pc[d] = "new"
<1>1. pc \in [Conns -> Stages] /\ seen \in [Conns -> SUBSET Conns]
    BY DEF Inv, TypeOK, Stages
<1>2. \A d \in Conns : d # c => pc'[d] = pc[d] /\ seen'[d] = seen[d]
    BY <1>1 DEF Quiet, Walks, Looks
<1>3. \A k \in seen'[c] : pc[k] # "new"
    BY <1>1 DEF Quiet, Looks, Inv, StagesSound
<1>4. \A d \in Conns : pc'[d] = "new" => pc[d] = "new"
    BY <1>1 DEF Quiet, Walks
<1> QED
    BY <1>2, <1>3, <1>4

\* Quiet steps keep the invariant.
LEMMA QuietKeepsInv ==
    ASSUME Inv, NEW c \in Conns, Quiet(c)
    PROVE  Inv'
<1>1. pc \in [Conns -> Stages] /\ seen \in [Conns -> SUBSET Conns]
    BY DEF Inv, TypeOK, Stages
<1>2. UNCHANGED <<bound, owner, continuation, auxiliary>>
    BY DEF Quiet
<1>3. ShopsApart'
    <2>1. \A d \in Shops : pc'[d] \notin Binding \cup LoggingIn
        <3>1. c \in Shops => pc'[c] \notin Binding \cup LoggingIn
            BY <1>1 DEF Quiet, Walks, Inv, ShopsApart
        <3> QED
            BY <3>1, QuietStages, SessionAssumption DEF Inv, ShopsApart
    <2>2. \A d \in Conns : pc'[d] = "promoting" => seen'[d] \cap Shops = {}
        BY QuietStages DEF Quiet, Inv, ShopsApart
    <2>3. \A d \in Conns : pc'[d] = "borrowing" => d \in Shops
        <3>1. pc'[c] = "borrowing" => c \in Shops
            BY <1>1 DEF Quiet, Walks, Inv, ShopsApart
        <3> QED
            BY <3>1, QuietStages DEF Inv, ShopsApart
    <2> QED
        BY <1>2, <2>1, <2>2, <2>3 DEF Inv, ShopsApart
<1>4. StagesSound'
    <2>1. (pc'[c] \in Binding => c \in bound) /\ (pc'[c] \in Departing => c \in owner)
        BY <1>1 DEF Quiet, Walks, Inv, StagesSound
    <2>2. \A d \in Conns : \A k \in seen'[d] : k \in Conns /\ pc[k] # "new"
        BY QuietStages, QuietKeepsTypes DEF Inv, StagesSound, TypeOK
    <2>3. \A d \in Conns : \A k \in seen'[d] : pc'[k] # "new"
        BY <2>2, QuietStages
    <2> QED
        BY <1>2, <2>1, <2>3, QuietStages DEF Inv, StagesSound
<1> QED
    BY <1>3, <1>4, QuietKeepsTypes DEF Inv

\* A step makes nobody else an owner, and lets only its connection enter.
NoNewOwner(c) ==
    /\ \A d \in Conns : d # c => pc'[d] = pc[d] /\ seen'[d] = seen[d]
    /\ Owners' \subseteq Owners /\ Holders' \subseteq Holders
    /\ c \in Entering' => c \in Entering \/ EntersAlone(c)
    /\ Inherits(c)' => Inherits(c) \/ Owners \subseteq {c}

\* Such a step keeps the holder unique.
LEMMA NoNewOwnerKeepsHolder ==
    ASSUME Serial, OneHolder, NEW c \in Conns, NoNewOwner(c)
    PROVE  OneHolder'
<1>1. \A d, e \in Entering' : d = e
    <2>1. Entering' \subseteq Entering \/ Entering' \subseteq {c}
        BY DEF NoNewOwner, Entering, EntersAlone
    <2> QED
        BY <2>1 DEF OneHolder
<1>2. \A d, e \in Holders' : d = e
    BY DEF NoNewOwner, OneHolder
<1>3. \A d \in Conns : Inherits(d)' => Owners' \subseteq {d}
    <2> SUFFICES ASSUME NEW d \in Conns, Inherits(d)' PROVE Owners' \subseteq {d}
        OBVIOUS
    <2>1. CASE d = c
        BY <2>1 DEF NoNewOwner, OneHolder
    <2>2. CASE d # c
        BY <2>2 DEF NoNewOwner, OneHolder, Inherits
    <2> QED
        BY <2>1, <2>2
<1> QED
    BY <1>1, <1>2, <1>3 DEF OneHolder

\* Quiet steps are among them.
LEMMA QuietMakesNoOwner ==
    ASSUME Inv, NEW c \in Conns, Quiet(c)
    PROVE  NoNewOwner(c)
<1>1. pc \in [Conns -> Stages] /\ owner \subseteq bound /\ owner' = owner
    BY DEF Inv, TypeOK, Stages, Quiet
<1>2. /\ \A d \in Conns : d # c => pc'[d] = pc[d] /\ seen'[d] = seen[d]
      /\ \A d \in Conns : pc'[d] = "new" => pc[d] = "new"
    BY QuietStages
<1>3. \A d \in Conns : pc[d] = "new" => d \notin owner
    BY <1>1 DEF Inv, StagesSound
<1>4. Owners' \subseteq Owners
    <2>1. pc[c] = "gone" => pc'[c] = "gone"
        BY <1>1 DEF Quiet, Walks
    <2> QED
        BY <1>1, <1>2, <1>3, <2>1 DEF Owners, Registered
<1>5. Holders' \subseteq Holders
    <2>1. pc[c] = "promoted" => pc'[c] = "promoted"
        BY <1>1 DEF Quiet, Walks
    <2> QED
        BY <1>2, <1>4, <2>1 DEF Holders, Owners, Registered
<1>6. c \in Entering' => c \in Entering \/ EntersAlone(c)
    BY <1>1 DEF Quiet, Walks, Entering
<1>7. Inherits(c)' => Inherits(c) \/ Owners \subseteq {c}
    BY DEF Quiet
<1> QED
    BY <1>2, <1>4, <1>5, <1>6, <1>7 DEF NoNewOwner
-----------------------------------------------------------------------------
(* The quiet steps *)

\* Messages of a bound connection leave the account to its owner.
LEMMA MessagesAreQuiet ==
    ASSUME Inv, NEW c \in Conns,
           \/ Open(c)
           \/ Message(c)
           \/ RefuseBusiness(c)
           \/ JoinRoom(c)
           \/ LeaveByRequest(c)
    PROVE  Quiet(c)
<1> USE DEF Quiet, Walks, Looks, Forget, Goes, session, account
<1> USE DEF Stages, Binding, LoggingIn, Departing, EntersAlone, Entering, Inherits
<1>1. pc \in [Conns -> Stages] /\ seen \in [Conns -> SUBSET Conns]
    BY DEF Inv, TypeOK
<1>2. c \in Entering => c \notin Shops
    BY DEF Inv, ShopsApart
<1>3. /\ pc[c] \in Binding => c \in bound
      /\ pc[c] \in Departing => c \in owner
      /\ \A k \in seen[c] : pc[k] # "new"
    BY DEF Inv, StagesSound
<1>4. CASE Open(c)
    BY <1>1, <1>2, <1>3, <1>4 DEF Open, LeaveRoom
<1>5. CASE Message(c)
    BY <1>1, <1>2, <1>3, <1>5 DEF Message, LeaveRoom
<1>6. CASE RefuseBusiness(c)
    BY <1>1, <1>2, <1>3, <1>6 DEF RefuseBusiness, LeaveRoom
<1>7. CASE JoinRoom(c)
    BY <1>1, <1>2, <1>3, <1>7 DEF JoinRoom, LeaveRoom
<1>8. CASE LeaveByRequest(c)
    BY <1>1, <1>2, <1>3, <1>8 DEF LeaveByRequest, LeaveRoom
<1> QED
    BY <1>4, <1>5, <1>6, <1>7, <1>8

\* So does a login, until it claims the account and after that.
LEMMA LoginsAreQuiet ==
    ASSUME Inv, NEW c \in Conns,
           \/ LoginByProof(c)
           \/ LoginByLease(c)
           \/ RefuseLogin(c)
           \/ CheckLeases(c)
           \/ RefuseDuplicate(c)
           \/ EndLogin(c)
           \/ FailLogin(c)
    PROVE  Quiet(c)
<1> USE DEF Quiet, Walks, Looks, Forget, Goes, session, account
<1> USE DEF Stages, Binding, LoggingIn, Departing, EntersAlone, Entering, Inherits
<1>1. pc \in [Conns -> Stages] /\ seen \in [Conns -> SUBSET Conns]
    BY DEF Inv, TypeOK
<1>2. c \in Entering => c \notin Shops
    BY DEF Inv, ShopsApart
<1>3. /\ pc[c] \in Binding => c \in bound
      /\ pc[c] \in Departing => c \in owner
      /\ \A k \in seen[c] : pc[k] # "new"
    BY DEF Inv, StagesSound
<1>4. CASE LoginByProof(c)
    BY <1>1, <1>2, <1>3, <1>4 DEF LoginByProof, BeginLogin, MayEnter
<1>5. CASE LoginByLease(c)
    <2>1. \/ carry' = [carry EXCEPT ![c] = TRUE]
          \/ carry' = [carry EXCEPT ![c] = FALSE]
        <3>1. CASE lease[hostOf[c]] = "room"
            BY <1>5, <3>1 DEF LoginByLease
        <3>2. CASE lease[hostOf[c]] # "room"
            BY <1>5, <3>2 DEF LoginByLease
        <3> QED
            BY <3>1, <3>2
    <2>2. \E to \in Stages : Walks(c, to)
        BY <1>1, <1>5 DEF LoginByLease, BeginLogin, MayEnter
    <2> QED
        BY <1>1, <2>1, <2>2, <1>5 DEF LoginByLease
<1>6. CASE RefuseLogin(c)
    BY <1>1, <1>2, <1>3, <1>6 DEF RefuseLogin, BeginLogin, MayEnter
<1>7. CASE CheckLeases(c)
    BY <1>1, <1>2, <1>3, <1>7 DEF CheckLeases, BeginLogin, MayEnter
<1>8. CASE RefuseDuplicate(c)
    <2>1. pc[c] \in LoggingIn /\ pc' = [pc EXCEPT ![c] = "dropped"]
        BY <1>8 DEF RefuseDuplicate
    <2>2. \E to \in Stages : Walks(c, to)
        BY <2>1
    <2> QED
        BY <1>1, <2>1, <2>2, <1>8 DEF RefuseDuplicate
<1>9. CASE EndLogin(c)
    BY <1>1, <1>2, <1>3, <1>9 DEF EndLogin, BeginLogin, MayEnter
<1>10. CASE FailLogin(c)
    BY <1>1, <1>2, <1>3, <1>10 DEF FailLogin, BeginLogin, MayEnter
<1> QED
    BY <1>4, <1>5, <1>6, <1>7, <1>8, <1>9, <1>10

\* So does a binding, but for what it publishes, resumes and rolls back.
LEMMA BindingsAreQuiet ==
    ASSUME Inv, NEW c \in Conns,
           \/ Scan(c)
           \/ FindsItselfOwner(c)
           \/ TakeLease(c)
           \/ EndResume(c)
           \/ Copy(c)
           \/ RequestShop(c)
    PROVE  Quiet(c)
<1> USE DEF Quiet, Walks, Looks, Forget, Goes, session, account
<1> USE DEF Stages, Binding, LoggingIn, Departing, EntersAlone, Entering, Inherits
<1>1. pc \in [Conns -> Stages] /\ seen \in [Conns -> SUBSET Conns]
    BY DEF Inv, TypeOK
<1>2. c \in Entering => c \notin Shops
    BY DEF Inv, ShopsApart
<1>3. /\ pc[c] \in Binding => c \in bound
      /\ pc[c] \in Departing => c \in owner
      /\ \A k \in seen[c] : pc[k] # "new"
    BY DEF Inv, StagesSound
<1>4. CASE Scan(c)
    <2>1. \E to \in Stages : Walks(c, to)
        BY <1>1, <1>2, <1>3, <1>4 DEF Scan
    <2>2. CASE Unowned(c) /\ seen' = [seen EXCEPT ![c] = {}]
        BY <1>1, <2>1, <2>2, <1>4 DEF Scan, Unowned, Owners
    <2>3. CASE \E p \in (Registered \cap owner) \ {c} : seen' = [seen EXCEPT ![c] = {p}]
        <3>1. PICK p \in (Registered \cap owner) \ {c} : seen' = [seen EXCEPT ![c] = {p}]
            BY <2>3
        <3>2. {p} \in SUBSET Conns /\ \A k \in {p} : pc[k] # "new"
            BY <3>1 DEF Registered
        <3>3. Looks(c) /\ seen'[c] = {p} /\ pc'[c] = "found"
            BY <1>1, <3>1, <3>2, <1>4 DEF Scan
        <3> QED
            BY <2>1, <3>3, <1>4 DEF Scan
    <2> QED
        BY <2>2, <2>3, <1>4 DEF Scan
<1>5. CASE FindsItselfOwner(c)
    BY <1>1, <1>2, <1>3, <1>5 DEF FindsItselfOwner, Reached, Unowned, Owners, Registered
<1>6. CASE TakeLease(c)
    <2>1. \/ carry' = [carry EXCEPT ![c] = TRUE]
          \/ carry' = [carry EXCEPT ![c] = FALSE]
        <3>1. CASE lease[hostOf[c]] = "room"
            BY <1>6, <3>1 DEF TakeLease
        <3>2. CASE ~(lease[hostOf[c]] = "room")
            BY <1>6, <3>2 DEF TakeLease
        <3> QED
            BY <3>1, <3>2
    <2>2. \E to \in Stages : Walks(c, to)
        BY <1>2, <1>3, <1>6 DEF TakeLease
    <2> QED
        BY <1>1, <2>1, <2>2, <1>6 DEF TakeLease
<1>7. CASE EndResume(c)
    BY <1>1, <1>2, <1>3, <1>7 DEF EndResume, Reached, Unowned, Owners, Registered
<1>8. CASE Copy(c)
    <2>1. \/ carry' = [carry EXCEPT ![c] = TRUE]
          \/ carry' = [carry EXCEPT ![c] = FALSE]
        <3>1. CASE seen[c] \cap room # {}
            BY <1>8, <3>1 DEF Copy
        <3>2. CASE ~(seen[c] \cap room # {})
            BY <1>8, <3>2 DEF Copy
        <3> QED
            BY <3>1, <3>2
    <2>2. \E to \in Stages : Walks(c, to)
        BY <1>2, <1>3, <1>8 DEF Copy
    <2> QED
        BY <1>1, <2>1, <2>2, <1>8 DEF Copy
<1>9. CASE RequestShop(c)
    <2>1. PICK p \in Registered \cap owner : seen' = [seen EXCEPT ![c] = {p}]
        BY <1>9 DEF RequestShop
    <2>2. {p} \in SUBSET Conns /\ \A k \in {p} : pc[k] # "new"
        BY <2>1 DEF Registered
    <2>3. Walks(c, "borrowing") /\ pc'[c] = "borrowing"
        BY <1>1, <1>9 DEF RequestShop
    <2> QED
        BY <2>1, <2>2, <2>3, <1>9 DEF RequestShop
<1> QED
    BY <1>4, <1>5, <1>6, <1>7, <1>8, <1>9

\* So does a departure, but for a promotion.
LEMMA DeparturesAreQuiet ==
    ASSUME Inv, NEW c \in Conns,
           \/ CloseAside(c)
           \/ CloseOwner(c)
           \/ (\E k \in Conns : Check(c, k))
           \/ NoHeir(c)
           \/ DepartFromRoom(c)
           \/ DepartFromLobby(c)
           \/ Unregister(c)
    PROVE  Quiet(c)
<1> USE DEF Quiet, Walks, Looks, Forget, Goes, session, account
<1> USE DEF Stages, Binding, LoggingIn, Departing, EntersAlone, Entering, Inherits
<1>1. pc \in [Conns -> Stages] /\ seen \in [Conns -> SUBSET Conns]
    BY DEF Inv, TypeOK
<1>2. c \in Entering => c \notin Shops
    BY DEF Inv, ShopsApart
<1>3. /\ pc[c] \in Binding => c \in bound
      /\ pc[c] \in Departing => c \in owner
      /\ \A k \in seen[c] : pc[k] # "new"
    BY DEF Inv, StagesSound
<1>4. CASE CloseAside(c)
    BY <1>1, <1>2, <1>3, <1>4 DEF CloseAside, Closing, Registered, LeaveRoom
<1>5. CASE CloseOwner(c)
    <2>1. PICK S : S = Registered \ owner
        OBVIOUS
    <2>2. S \in SUBSET Conns /\ \A k \in S : pc[k] # "new"
        BY <2>1 DEF Registered
    <2>3. /\ pc[c] \in {"idle", "dropped"} /\ c \in owner
          /\ pc' = [pc EXCEPT ![c] = "checking"] /\ seen' = [seen EXCEPT ![c] = S]
          /\ UNCHANGED <<carry, session, account>>
        BY <1>5, <2>1 DEF CloseOwner, Closing
    <2>4. Walks(c, "checking") /\ pc'[c] = "checking"
        BY <1>1, <2>3
    <2> QED
        BY <2>2, <2>3, <2>4
<1>6. CASE \E k \in Conns : Check(c, k)
    <2>1. PICK k \in Conns : Check(c, k)
        BY <1>6
    <2>2. CASE k \in continuation \ owner
        <3>1. {k} \cap Shops = {} /\ pc[k] # "new"
            BY <1>3, <2>1, <2>2 DEF Check, Inv, ShopsApart
        <3>2. \E to \in Stages : Walks(c, to)
            BY <1>3, <2>1, <2>2 DEF Check
        <3>3. Looks(c) /\ seen'[c] = {k} /\ pc'[c] = "promoting"
            BY <1>1, <2>1, <2>2, <3>1 DEF Check
        <3> QED
            BY <2>1, <3>1, <3>2, <3>3 DEF Check
    <2>3. CASE k \notin continuation \ owner
        <3>1. seen' = [seen EXCEPT ![c] = seen[c] \ {k}] /\ pc' = pc /\ pc[c] = "checking"
            BY <2>1, <2>3 DEF Check
        <3>2. seen[c] \ {k} \in SUBSET Conns /\ \A l \in seen[c] \ {k} : pc[l] # "new"
            BY <1>1, <1>3
        <3>3. Looks(c)
            BY <3>1, <3>2
        <3> QED
            BY <2>1, <3>1, <3>3 DEF Check
    <2> QED
        BY <2>2, <2>3
<1>7. CASE NoHeir(c)
    BY <1>1, <1>2, <1>3, <1>7 DEF NoHeir, Closing, Registered, LeaveRoom
<1>8. CASE DepartFromRoom(c)
    <2>1. Walks(c, "leavingLobby") /\ pc'[c] = "leavingLobby"
        BY <1>1, <1>3, <1>8 DEF DepartFromRoom
    <2> QED
        BY <2>1, <1>8 DEF DepartFromRoom, LeaveRoom
<1>9. CASE DepartFromLobby(c)
    <2>1. Walks(c, "closed") /\ pc'[c] = "closed"
        BY <1>1, <1>3, <1>9 DEF DepartFromLobby
    <2> QED
        BY <2>1, <1>9 DEF DepartFromLobby
<1>10. CASE Unregister(c)
    BY <1>1, <1>2, <1>3, <1>10 DEF Unregister, Closing, Registered, LeaveRoom
<1> QED
    BY <1>4, <1>5, <1>6, <1>7, <1>8, <1>9, <1>10

-----------------------------------------------------------------------------
(* The steps that change whose the account is *)

\* A connection whose account is taken from it: it logs out, its binding is rolled
\* back or it has passed the account on.
Releases(c) ==
    \/ Logout(c)
    \/ Rollback(c)
    \/ Retire(c)

\* A connection that is bound to the account without owning it.
Binds(c) ==
    \/ Publish(c)
    \/ Continue(c)
    \/ BindShop(c)
    \/ Borrow(c)

\* A connection that comes to own the account.
Claims(c) ==
    \/ Claim(c)
    \/ ClaimFromLease(c)
    \/ ResumeLease(c)

\* Releases keep the invariant.
LEMMA ReleasesKeepInv ==
    ASSUME Inv, NEW c \in Conns, Releases(c)
    PROVE  Inv'
<1> USE DEF Goes, session, account, Stages, Binding, LoggingIn, Departing
<1>1. /\ pc \in [Conns -> Stages] /\ seen \in [Conns -> SUBSET Conns]
      /\ carry \in [Conns -> BOOLEAN] /\ lease \in [Hosts -> Leases]
      /\ proof \subseteq Hosts /\ room \subseteq Conns /\ {online, inRoom} \subseteq BOOLEAN
      /\ hostOf[c] \in Hosts
    BY SessionAssumption DEF Inv, TypeOK
<1>2. /\ bound \subseteq Conns /\ owner \subseteq bound /\ continuation \subseteq bound
      /\ auxiliary \subseteq bound \ (owner \cup continuation)
    BY DEF Inv, TypeOK
<1>3. CASE Logout(c)
    <2>1. TypeOK'
        <3>1. pc' \in [Conns -> Stages] /\ seen' \in [Conns -> SUBSET Conns] /\ carry' \in [Conns -> BOOLEAN]
            BY <1>1, <1>3 DEF Logout, Forget
        <3>2. /\ lease' \in [Hosts -> Leases] /\ proof' \subseteq Hosts /\ room' \subseteq Conns
              /\ {online', inRoom'} \subseteq BOOLEAN
            BY <1>1, <1>3, RememberTyped DEF Logout, Set, Leases, Inv
        <3>3. /\ bound' \subseteq Conns /\ owner' \subseteq bound' /\ continuation' \subseteq bound'
              /\ auxiliary' \subseteq bound' \ (owner' \cup continuation')
            BY <1>1, <1>2, <1>3 DEF Logout, Inv, StagesSound, ShopsApart
        <3> QED
            BY <3>1, <3>2, <3>3 DEF TypeOK
    <2>2. ShopsApart'
        BY <1>1, <1>2, <1>3 DEF Logout, Forget, Inv, ShopsApart
    <2>3. StagesSound'
        BY <1>1, <1>2, <1>3 DEF Logout, Forget, Inv, StagesSound
    <2> QED
        BY <2>1, <2>2, <2>3 DEF Inv
<1>4. CASE Rollback(c)
    <2>1. TypeOK'
        <3>1. pc' \in [Conns -> Stages] /\ seen' \in [Conns -> SUBSET Conns] /\ carry' \in [Conns -> BOOLEAN]
            BY <1>1, <1>4 DEF Rollback, Forget
        <3>2. /\ lease' \in [Hosts -> Leases] /\ proof' \subseteq Hosts /\ room' \subseteq Conns
              /\ {online', inRoom'} \subseteq BOOLEAN
            BY <1>1, <1>4, RememberTyped DEF Rollback, Set, Leases, Inv
        <3>3. /\ bound' \subseteq Conns /\ owner' \subseteq bound' /\ continuation' \subseteq bound'
              /\ auxiliary' \subseteq bound' \ (owner' \cup continuation')
            BY <1>1, <1>2, <1>4 DEF Rollback, Inv, StagesSound, ShopsApart
        <3> QED
            BY <3>1, <3>2, <3>3 DEF TypeOK
    <2>2. ShopsApart'
        BY <1>1, <1>2, <1>4 DEF Rollback, Forget, Inv, ShopsApart
    <2>3. StagesSound'
        BY <1>1, <1>2, <1>4 DEF Rollback, Forget, Inv, StagesSound
    <2> QED
        BY <2>1, <2>2, <2>3 DEF Inv
<1>5. CASE Retire(c)
    <2>1. TypeOK'
        <3>1. pc' \in [Conns -> Stages] /\ seen' \in [Conns -> SUBSET Conns] /\ carry' \in [Conns -> BOOLEAN]
            BY <1>1, <1>5 DEF Retire, Forget
        <3>2. /\ lease' \in [Hosts -> Leases] /\ proof' \subseteq Hosts /\ room' \subseteq Conns
              /\ {online', inRoom'} \subseteq BOOLEAN
            BY <1>1, <1>5, RememberTyped DEF Retire, Set, Leases, Inv
        <3>3. /\ bound' \subseteq Conns /\ owner' \subseteq bound' /\ continuation' \subseteq bound'
              /\ auxiliary' \subseteq bound' \ (owner' \cup continuation')
            BY <1>1, <1>2, <1>5 DEF Retire, Inv, StagesSound, ShopsApart
        <3> QED
            BY <3>1, <3>2, <3>3 DEF TypeOK
    <2>2. ShopsApart'
        BY <1>1, <1>2, <1>5 DEF Retire, Forget, Inv, ShopsApart
    <2>3. StagesSound'
        BY <1>1, <1>2, <1>5 DEF Retire, Forget, Inv, StagesSound
    <2> QED
        BY <2>1, <2>2, <2>3 DEF Inv
<1> QED
    BY <1>3, <1>4, <1>5 DEF Releases

\* So do bindings.
LEMMA BindsKeepInv ==
    ASSUME Inv, NEW c \in Conns, Binds(c)
    PROVE  Inv'
<1> USE DEF Goes, session, account, Stages, Binding, LoggingIn, Departing
<1>1. /\ pc \in [Conns -> Stages] /\ seen \in [Conns -> SUBSET Conns]
      /\ carry \in [Conns -> BOOLEAN] /\ lease \in [Hosts -> Leases]
      /\ proof \subseteq Hosts /\ room \subseteq Conns /\ {online, inRoom} \subseteq BOOLEAN
      /\ hostOf[c] \in Hosts
    BY SessionAssumption DEF Inv, TypeOK
<1>2. /\ bound \subseteq Conns /\ owner \subseteq bound /\ continuation \subseteq bound
      /\ auxiliary \subseteq bound \ (owner \cup continuation)
    BY DEF Inv, TypeOK
<1>3. CASE Publish(c)
    <2>1. TypeOK'
        <3>1. pc' \in [Conns -> Stages] /\ seen' \in [Conns -> SUBSET Conns] /\ carry' \in [Conns -> BOOLEAN]
            BY <1>1, <1>3 DEF Publish, Forget
        <3>2. /\ lease' \in [Hosts -> Leases] /\ proof' \subseteq Hosts /\ room' \subseteq Conns
              /\ {online', inRoom'} \subseteq BOOLEAN
            BY <1>1, <1>3, RememberTyped DEF Publish, Set, Leases, Inv
        <3>3. /\ bound' \subseteq Conns /\ owner' \subseteq bound' /\ continuation' \subseteq bound'
              /\ auxiliary' \subseteq bound' \ (owner' \cup continuation')
            BY <1>1, <1>2, <1>3 DEF Publish, Inv, StagesSound, ShopsApart
        <3> QED
            BY <3>1, <3>2, <3>3 DEF TypeOK
    <2>2. ShopsApart'
        BY <1>1, <1>2, <1>3 DEF Publish, Forget, Inv, ShopsApart
    <2>3. StagesSound'
        BY <1>1, <1>2, <1>3 DEF Publish, Forget, Inv, StagesSound
    <2> QED
        BY <2>1, <2>2, <2>3 DEF Inv
<1>4. CASE Continue(c)
    <2>1. TypeOK'
        <3>1. pc' \in [Conns -> Stages] /\ seen' \in [Conns -> SUBSET Conns] /\ carry' \in [Conns -> BOOLEAN]
            BY <1>1, <1>4 DEF Continue, Forget
        <3>2. /\ lease' \in [Hosts -> Leases] /\ proof' \subseteq Hosts /\ room' \subseteq Conns
              /\ {online', inRoom'} \subseteq BOOLEAN
            BY <1>1, <1>4, RememberTyped DEF Continue, Set, Leases, Inv
        <3>3. /\ bound' \subseteq Conns /\ owner' \subseteq bound' /\ continuation' \subseteq bound'
              /\ auxiliary' \subseteq bound' \ (owner' \cup continuation')
            BY <1>1, <1>2, <1>4 DEF Continue, Inv, StagesSound, ShopsApart
        <3> QED
            BY <3>1, <3>2, <3>3 DEF TypeOK
    <2>2. ShopsApart'
        BY <1>1, <1>2, <1>4 DEF Continue, Forget, Inv, ShopsApart
    <2>3. StagesSound'
        BY <1>1, <1>2, <1>4 DEF Continue, Forget, Inv, StagesSound
    <2> QED
        BY <2>1, <2>2, <2>3 DEF Inv
<1>5. CASE BindShop(c)
    <2>1. TypeOK'
        <3>1. pc' \in [Conns -> Stages] /\ seen' \in [Conns -> SUBSET Conns] /\ carry' \in [Conns -> BOOLEAN]
            BY <1>1, <1>5 DEF BindShop, Forget
        <3>2. /\ lease' \in [Hosts -> Leases] /\ proof' \subseteq Hosts /\ room' \subseteq Conns
              /\ {online', inRoom'} \subseteq BOOLEAN
            BY <1>1, <1>5, RememberTyped DEF BindShop, Set, Leases, Inv
        <3>3. /\ bound' \subseteq Conns /\ owner' \subseteq bound' /\ continuation' \subseteq bound'
              /\ auxiliary' \subseteq bound' \ (owner' \cup continuation')
            BY <1>1, <1>2, <1>5 DEF BindShop, Inv, StagesSound, ShopsApart
        <3> QED
            BY <3>1, <3>2, <3>3 DEF TypeOK
    <2>2. ShopsApart'
        BY <1>1, <1>2, <1>5 DEF BindShop, Forget, Inv, ShopsApart
    <2>3. StagesSound'
        BY <1>1, <1>2, <1>5 DEF BindShop, Forget, Inv, StagesSound
    <2> QED
        BY <2>1, <2>2, <2>3 DEF Inv
<1>6. CASE Borrow(c)
    <2>1. PICK lent \in SUBSET {c} : bound' = bound \cup lent /\ auxiliary' = auxiliary \cup lent
        BY <1>6 DEF Borrow
    <2>2. c \in Shops /\ pc[c] = "borrowing" /\ pc' = [pc EXCEPT ![c] = "idle"]
        BY <1>6 DEF Borrow, Inv, ShopsApart
    <2>3. TypeOK'
        <3>1. pc' \in [Conns -> Stages] /\ seen' \in [Conns -> SUBSET Conns] /\ carry' \in [Conns -> BOOLEAN]
            BY <1>1, <1>6 DEF Borrow, Forget
        <3>2. UNCHANGED <<owner, continuation, room, lease, proof, online, inRoom>>
            BY <1>6 DEF Borrow
        <3>3. /\ bound' \subseteq Conns /\ owner' \subseteq bound' /\ continuation' \subseteq bound'
              /\ auxiliary' \subseteq bound' \ (owner' \cup continuation')
            BY <1>2, <2>1, <2>2, <3>2 DEF Inv, ShopsApart
        <3> QED
            BY <1>1, <3>1, <3>2, <3>3 DEF TypeOK
    <2>4. ShopsApart'
        BY <1>1, <2>1, <2>2, <1>6 DEF Borrow, Forget, Inv, ShopsApart
    <2>5. StagesSound'
        BY <1>1, <2>1, <2>2, <1>6 DEF Borrow, Forget, Inv, StagesSound
    <2> QED
        BY <2>3, <2>4, <2>5 DEF Inv
<1> QED
    BY <1>3, <1>4, <1>5, <1>6 DEF Binds

\* So do claims.
LEMMA ClaimsKeepInv ==
    ASSUME Inv, NEW c \in Conns, Claims(c)
    PROVE  Inv'
<1> USE DEF Goes, session, account, Stages, Binding, LoggingIn, Departing
<1>1. /\ pc \in [Conns -> Stages] /\ seen \in [Conns -> SUBSET Conns]
      /\ carry \in [Conns -> BOOLEAN] /\ lease \in [Hosts -> Leases]
      /\ proof \subseteq Hosts /\ room \subseteq Conns /\ {online, inRoom} \subseteq BOOLEAN
      /\ hostOf[c] \in Hosts
    BY SessionAssumption DEF Inv, TypeOK
<1>2. /\ bound \subseteq Conns /\ owner \subseteq bound /\ continuation \subseteq bound
      /\ auxiliary \subseteq bound \ (owner \cup continuation)
    BY DEF Inv, TypeOK
<1>3. CASE Claim(c)
    <2>1. TypeOK'
        <3>1. pc' \in [Conns -> Stages] /\ seen' \in [Conns -> SUBSET Conns] /\ carry' \in [Conns -> BOOLEAN]
            BY <1>1, <1>3 DEF Claim, Forget
        <3>2. /\ lease' \in [Hosts -> Leases] /\ proof' \subseteq Hosts /\ room' \subseteq Conns
              /\ {online', inRoom'} \subseteq BOOLEAN
            BY <1>1, <1>3, RememberTyped DEF Claim, Set, Leases, Inv
        <3>3. /\ bound' \subseteq Conns /\ owner' \subseteq bound' /\ continuation' \subseteq bound'
              /\ auxiliary' \subseteq bound' \ (owner' \cup continuation')
            BY <1>1, <1>2, <1>3 DEF Claim, Inv, StagesSound, ShopsApart
        <3> QED
            BY <3>1, <3>2, <3>3 DEF TypeOK
    <2>2. ShopsApart'
        BY <1>1, <1>2, <1>3 DEF Claim, Forget, Inv, ShopsApart
    <2>3. StagesSound'
        BY <1>1, <1>2, <1>3 DEF Claim, Forget, Inv, StagesSound
    <2> QED
        BY <2>1, <2>2, <2>3 DEF Inv
<1>4. CASE ClaimFromLease(c)
    <2>1. TypeOK'
        <3>1. pc' \in [Conns -> Stages] /\ seen' \in [Conns -> SUBSET Conns] /\ carry' \in [Conns -> BOOLEAN]
            BY <1>1, <1>4 DEF ClaimFromLease, Forget
        <3>2. /\ lease' \in [Hosts -> Leases] /\ proof' \subseteq Hosts /\ room' \subseteq Conns
              /\ {online', inRoom'} \subseteq BOOLEAN
            BY <1>1, <1>4, RememberTyped DEF ClaimFromLease, Set, Leases, Inv
        <3>3. /\ bound' \subseteq Conns /\ owner' \subseteq bound' /\ continuation' \subseteq bound'
              /\ auxiliary' \subseteq bound' \ (owner' \cup continuation')
            BY <1>1, <1>2, <1>4 DEF ClaimFromLease, Inv, StagesSound, ShopsApart
        <3> QED
            BY <3>1, <3>2, <3>3 DEF TypeOK
    <2>2. ShopsApart'
        BY <1>1, <1>2, <1>4 DEF ClaimFromLease, Forget, Inv, ShopsApart
    <2>3. StagesSound'
        BY <1>1, <1>2, <1>4 DEF ClaimFromLease, Forget, Inv, StagesSound
    <2> QED
        BY <2>1, <2>2, <2>3 DEF Inv
<1>5. CASE ResumeLease(c)
    <2>1. TypeOK'
        <3>1. pc' \in [Conns -> Stages] /\ seen' \in [Conns -> SUBSET Conns] /\ carry' \in [Conns -> BOOLEAN]
            BY <1>1, <1>5 DEF ResumeLease, Forget
        <3>2. /\ lease' \in [Hosts -> Leases] /\ proof' \subseteq Hosts /\ room' \subseteq Conns
              /\ {online', inRoom'} \subseteq BOOLEAN
            BY <1>1, <1>5, RememberTyped DEF ResumeLease, Set, Leases, Inv
        <3>3. /\ bound' \subseteq Conns /\ owner' \subseteq bound' /\ continuation' \subseteq bound'
              /\ auxiliary' \subseteq bound' \ (owner' \cup continuation')
            BY <1>1, <1>2, <1>5 DEF ResumeLease, Inv, StagesSound, ShopsApart
        <3> QED
            BY <3>1, <3>2, <3>3 DEF TypeOK
    <2>2. ShopsApart'
        BY <1>1, <1>2, <1>5 DEF ResumeLease, Forget, Inv, ShopsApart
    <2>3. StagesSound'
        BY <1>1, <1>2, <1>5 DEF ResumeLease, Forget, Inv, StagesSound
    <2> QED
        BY <2>1, <2>2, <2>3 DEF Inv
<1> QED
    BY <1>3, <1>4, <1>5 DEF Claims

\* So does a promotion.
LEMMA PromotionKeepsInv ==
    ASSUME Inv, NEW c \in Conns, NEW k \in Conns, Promote(c, k)
    PROVE  Inv'
<1> USE DEF Goes, session, account, Stages, Binding, LoggingIn, Departing
<1>1. /\ pc \in [Conns -> Stages] /\ seen \in [Conns -> SUBSET Conns]
      /\ carry \in [Conns -> BOOLEAN] /\ lease \in [Hosts -> Leases]
      /\ proof \subseteq Hosts /\ room \subseteq Conns /\ {online, inRoom} \subseteq BOOLEAN
      /\ hostOf[c] \in Hosts
    BY SessionAssumption DEF Inv, TypeOK
<1>2. /\ bound \subseteq Conns /\ owner \subseteq bound /\ continuation \subseteq bound
      /\ auxiliary \subseteq bound \ (owner \cup continuation)
    BY DEF Inv, TypeOK
<1>3. /\ k \notin Shops /\ pc[k] # "new" /\ c # k
      /\ pc[c] = "promoting" /\ pc' = [pc EXCEPT ![c] = "promoted"]
    BY DEF Promote, Inv, ShopsApart, StagesSound
<1>4. TypeOK'
    <2>1. pc' \in [Conns -> Stages] /\ room' \subseteq Conns
        BY <1>1 DEF Promote, Set
    <2>2. /\ bound' \subseteq Conns /\ owner' \subseteq bound' /\ continuation' \subseteq bound'
          /\ auxiliary' \subseteq bound' \ (owner' \cup continuation')
        BY <1>2, <1>3 DEF Promote, Inv, ShopsApart
    <2> QED
        BY <1>1, <2>1, <2>2 DEF Promote, TypeOK
<1>5. ShopsApart'
    BY <1>1, <1>3 DEF Promote, Inv, ShopsApart
<1>6. StagesSound'
    BY <1>1, <1>3 DEF Promote, Inv, StagesSound
<1> QED
    BY <1>4, <1>5, <1>6 DEF Inv

\* A release and a binding make nobody an owner.
LEMMA OthersMakeNoOwner ==
    ASSUME Inv, NEW c \in Conns, Releases(c) \/ Binds(c)
    PROVE  NoNewOwner(c)
<1> USE DEF Goes, session, account, Binding, LoggingIn, Owners, Holders, Registered
<1> USE DEF Inherits, Entering, EntersAlone, NoNewOwner
<1>1. /\ pc \in [Conns -> Stages] /\ seen \in [Conns -> SUBSET Conns]
      /\ c \in owner => pc[c] # "new"
    BY DEF Inv, TypeOK, Stages, StagesSound
<1>2. CASE Logout(c)
    BY <1>1, <1>2 DEF Logout
<1>3. CASE Rollback(c)
    BY <1>1, <1>3 DEF Rollback, Forget
<1>4. CASE Retire(c)
    BY <1>1, <1>4 DEF Retire, Forget
<1>5. CASE Publish(c)
    BY <1>1, <1>5 DEF Publish, MayEnter
<1>6. CASE Continue(c)
    BY <1>1, <1>6 DEF Continue, Forget
<1>7. CASE BindShop(c)
    BY <1>1, <1>7 DEF BindShop
<1>8. CASE Borrow(c)
    BY <1>1, <1>8 DEF Borrow, Forget
<1> QED
    BY <1>2, <1>3, <1>4, <1>5, <1>6, <1>7, <1>8 DEF Releases, Binds

\* A claim finds no other owner, and while the claimant enters nobody else does.
LEMMA ClaimsKeepHolder ==
    ASSUME Serial, SerialInv, NEW c \in Conns, Claims(c)
    PROVE  OneHolder'
<1> USE DEF Goes, session, account, Binding, LoggingIn, Owners, Registered, Inherits, Entering
<1>1. pc \in [Conns -> Stages] /\ seen \in [Conns -> SUBSET Conns]
    BY DEF SerialInv, Inv, TypeOK, Stages
<1>2. /\ c \in Entering /\ Entering \subseteq {c} /\ Owners \subseteq {c}
      /\ \E to \in {"claimed", "resumed"} : pc' = [pc EXCEPT ![c] = to]
      /\ owner' = owner \cup {c}
    BY DEF Claims, Claim, ClaimFromLease, ResumeLease, Unowned, SerialInv, OneHolder
<1>3. Entering' \subseteq {c} /\ Holders' \subseteq {c}
    BY <1>1, <1>2 DEF Holders
<1>4. \A d \in Conns : ~Inherits(d)'
    BY <1>1, <1>2
<1> QED
    BY <1>3, <1>4 DEF OneHolder

\* A promotion is of the only holder, and nobody who could inherit finds none.
LEMMA PromotionKeepsHolder ==
    ASSUME Serial, SerialInv, NEW c \in Conns, NEW k \in Conns, Promote(c, k)
    PROVE  OneHolder'
<1> USE DEF Goes, Binding, LoggingIn, Owners, Registered, Inherits, Entering
<1>1. pc \in [Conns -> Stages] /\ pc[c] = "promoting" /\ c \in owner /\ k \notin owner
    BY DEF SerialInv, Inv, TypeOK, Stages, StagesSound, Promote, Departing
<1>2. /\ pc' = [pc EXCEPT ![c] = "promoted"] /\ owner' = owner \cup {k}
      /\ seen' = seen
    BY DEF Promote
<1>3. Holders \subseteq {c} /\ c \in Owners
    BY <1>1 DEF SerialInv, OneHolder, Holders
<1>4. Entering' = Entering
    BY <1>1, <1>2
<1>5. Holders' \subseteq {k}
    BY <1>1, <1>2, <1>3 DEF Holders
<1>6. \A d \in Conns : ~Inherits(d)'
    BY <1>1, <1>2, <1>3 DEF SerialInv, OneHolder
<1> QED
    BY <1>4, <1>5, <1>6 DEF SerialInv, OneHolder

-----------------------------------------------------------------------------
(* Every step *)

\* The steps of a connection, by what they do to the ownership.
LEMMA ConnectionSteps ==
    ASSUME Inv, NEW c \in Conns, Client(c) \/ Server(c)
    PROVE  Quiet(c) \/ Releases(c) \/ Binds(c) \/ Claims(c) \/ (\E k \in Conns : Promote(c, k))
BY MessagesAreQuiet, LoginsAreQuiet, BindingsAreQuiet, DeparturesAreQuiet
   DEF Client, Server, Releases, Binds, Claims

\* A password proof and the end of a lease concern no connection.
LEMMA HostStepsKeepInv ==
    ASSUME Inv, NEW h \in Hosts, Authenticate(h) \/ Expire(h)
    PROVE  Inv' /\ UNCHANGED <<pc, seen, session>>
<1> USE DEF session
<1>1. UNCHANGED <<pc, seen, carry, bound, owner, continuation, auxiliary, room, online, inRoom>>
    BY DEF Authenticate, Expire
<1>2. lease' \in [Hosts -> Leases] /\ proof' \subseteq Hosts
    BY DEF Authenticate, Expire, Inv, TypeOK, Leases
<1>3. TypeOK'
    BY <1>1, <1>2 DEF Inv, TypeOK
<1>4. ShopsApart' /\ StagesSound'
    BY <1>1 DEF Inv, ShopsApart, StagesSound
<1> QED
    BY <1>1, <1>3, <1>4 DEF Inv

LEMMA StepKeepsInv ==
    ASSUME Inv, [Next]_vars
    PROVE  Inv'
<1>1. ASSUME NEW c \in Conns, Client(c) \/ Server(c) PROVE Inv'
    BY <1>1, ConnectionSteps, QuietKeepsInv, ReleasesKeepInv, BindsKeepInv, ClaimsKeepInv,
       PromotionKeepsInv
<1>2. ASSUME NEW h \in Hosts, Authenticate(h) \/ Expire(h) PROVE Inv'
    BY <1>2, HostStepsKeepInv
<1>3. CASE UNCHANGED vars
    BY <1>3 DEF vars, session, account, Inv, TypeOK, ShopsApart, StagesSound
<1> QED
    BY <1>1, <1>2, <1>3 DEF Next

\* What the steps do to the holder of the account.
LEMMA StepKeepsHolder ==
    ASSUME Serial, SerialInv, [Next]_vars
    PROVE  OneHolder'
<1>1. ASSUME NEW c \in Conns, Client(c) \/ Server(c) PROVE OneHolder'
    <2>1. Quiet(c) \/ Releases(c) \/ Binds(c) \/ Claims(c) \/ (\E k \in Conns : Promote(c, k))
        BY <1>1, ConnectionSteps DEF SerialInv
    <2>2. CASE Quiet(c) \/ Releases(c) \/ Binds(c)
        BY <2>2, QuietMakesNoOwner, OthersMakeNoOwner, NoNewOwnerKeepsHolder DEF SerialInv
    <2> QED
        BY <2>1, <2>2, ClaimsKeepHolder, PromotionKeepsHolder
<1>2. ASSUME UNCHANGED <<pc, seen, session>> PROVE OneHolder'
    BY <1>2 DEF session, SerialInv, OneHolder, Entering, Holders, Owners, Registered, Inherits
<1>3. ASSUME NEW h \in Hosts, Authenticate(h) \/ Expire(h) PROVE OneHolder'
    BY <1>2, <1>3, HostStepsKeepInv DEF SerialInv
<1>4. CASE UNCHANGED vars
    BY <1>2, <1>4 DEF vars
<1> QED
    BY <1>1, <1>3, <1>4 DEF Next

\* The inactive service holds nothing.
LEMMA InitSound == Init => SerialInv
BY SessionAssumption DEF Init, SerialInv, Inv, TypeOK, ShopsApart, StagesSound, OneHolder,
   Entering, Holders, Owners, Registered, Inherits, Binding, LoggingIn, Departing, Leases

-----------------------------------------------------------------------------
(* Theorems *)

\* Sessions and leases keep their types, whoever owns the account has its UIN, and a
\* shop connection never owns the account or waits for it, however the clients
\* interleave.
THEOREM InvHolds == Spec => []Inv
<1>1. Init => Inv
    BY InitSound DEF SerialInv
<1> QED
    BY <1>1, StepKeepsInv, PTL DEF Spec

THEOREM SessionsTyped == Spec => []TypeOK
<1>1. Inv => TypeOK
    BY DEF Inv
<1> QED
    BY <1>1, InvHolds, PTL

\* When the connections of the account are bound one after the other, at most one
\* of them holds it.
THEOREM SerialInvHolds == Serial /\ Spec => []SerialInv
<1> SUFFICES ASSUME Serial PROVE Spec => []SerialInv
    OBVIOUS
<1>1. SerialInv /\ [Next]_vars => SerialInv'
    BY StepKeepsInv, StepKeepsHolder DEF SerialInv
<1> QED
    BY <1>1, InitSound, PTL DEF Spec

\* Whoever is settled as the owner holds the account.
LEMMA SettledHold == Inv => Settled \subseteq Holders
BY DEF Inv, TypeOK, Settled, Holders, Owners, Registered

\* Then two connections never act for the player at the same time.
THEOREM AccountHasOneOwner == Serial /\ Spec => []OneOwner
<1>1. SerialInv => OneOwner
    BY SettledHold DEF SerialInv, OneHolder, OneOwner
<1> QED
    BY <1>1, SerialInvHolds, PTL

\* Only the owner's logout and its departure end the presence, and nobody else has
\* come to own the account by then.
LEMMA PresenceStep ==
    ASSUME SerialInv, [Next]_vars, online, ~online'
    PROVE  Settled' = {}
<1> USE DEF Goes, session, account
<1>1. PICK c \in Conns : Logout(c) \/ DepartFromLobby(c)
    <2>1. ASSUME NEW c \in Conns, Client(c) PROVE Logout(c)
        BY <2>1 DEF Client, Open, Message, RefuseBusiness, JoinRoom, LeaveByRequest, LoginByProof,
           LoginByLease, RefuseLogin, Publish, BindShop, RequestShop, CloseAside, CloseOwner
    <2>2. ASSUME NEW c \in Conns, Server(c) PROVE DepartFromLobby(c)
        BY <2>2 DEF Server, CheckLeases, Claim, ClaimFromLease, RefuseDuplicate, EndLogin,
           FailLogin, Scan, FindsItselfOwner, Rollback, TakeLease, ResumeLease, EndResume, Copy,
           Continue, Borrow, CloseAside, CloseOwner, Check, Promote, Retire, NoHeir, DepartFromRoom,
           Unregister
    <2>3. ASSUME NEW h \in Hosts PROVE ~Authenticate(h) /\ ~Expire(h)
        BY DEF Authenticate, Expire
    <2> QED
        BY <2>1, <2>2, <2>3 DEF Next, vars
<1>2. pc \in [Conns -> Stages] /\ owner \subseteq Conns
    BY DEF SerialInv, Inv, TypeOK, Stages
<1>3. c \in owner /\ pc[c] \in {"idle", "leavingLobby"}
    BY <1>1 DEF Logout, DepartFromLobby, SerialInv, Inv, StagesSound, Departing
<1>4. Settled \subseteq {c}
    BY <1>2, <1>3, SettledHold DEF SerialInv, OneHolder, Holders, Owners, Registered
<1>5. CASE Logout(c)
    BY <1>4, <1>5 DEF Logout, Settled
<1>6. CASE DepartFromLobby(c)
    BY <1>2, <1>4, <1>6 DEF DepartFromLobby, Settled
<1> QED
    BY <1>1, <1>5, <1>6

\* Whatever other connections of the account are refused, promoted or closed, the
\* player does not disappear from the lobby while a connection owns the account.
THEOREM OwnersStayPresent == Serial /\ Spec => PresenceOutlivesOwner
<1>1. SerialInv /\ [Next]_vars => [online /\ ~online' => Settled' = {}]_vars
    BY PresenceStep
<1> QED
    BY <1>1, SerialInvHolds, PTL DEF Spec, PresenceOutlivesOwner
=============================================================================
