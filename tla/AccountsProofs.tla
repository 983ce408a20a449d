--------------------------- MODULE AccountsProofs ---------------------------
(***************************************************************************)
(* Theorems about Accounts.tla, for any accounts, operations, gains and    *)
(* kinds of operation: the player service keeps the promise of Ledger.tla, *)
(* its callers are told the truth, and no session shows what is not stored.*)
(***************************************************************************)
EXTENDS Accounts, FiniteSetTheorems, NaturalsInduction, WellFoundedInduction, TLAPS

-----------------------------------------------------------------------------
(* The invariant *)

Before == {"idle", "locking", "loading", "committing"}     \* nothing is stored yet
Critical == {"loading", "committing", "projecting", "returning"}
Committed == {"projecting", "returning", "showing", "done"}  \* everything is stored
Stages == Before \cup Committed \cup {"failed"}

Types ==
    /\ stored \in [Accounts -> Profiles]
    /\ holder \in [Accounts -> Operations \cup {Nobody}]
    /\ pc \in [Operations -> Stages]
    /\ copy \in [Operations -> UNION {[S -> Profiles] : S \in SUBSET Accounts}]
    /\ shown \in [Accounts -> Profiles]

\* An operation holds every lock it needs from its first read to its return.
LocksHeld ==
    \A op \in Operations : pc[op] \in Critical => \A u \in Touches[op] : holder[u] = op

\* Which profiles an operation has at each of its stages.
CopiesKnown ==
    \A op \in Operations :
        /\ DOMAIN copy[op] \subseteq Touches[op]
        /\ pc[op] \in {"idle", "locking"} => DOMAIN copy[op] = {}
        /\ pc[op] = "loading" => DOMAIN copy[op] # Touches[op] /\ Kind[op] # "transaction"
        /\ pc[op] \in {"committing", "projecting"} =>
              DOMAIN copy[op] = IF Kind[op] = "transaction" THEN {} ELSE Touches[op]
        /\ pc[op] = "projecting" => Kind[op] # "settlement"

\* What is computed from a stored profile is computed from what is stored still.
CopiesFresh ==
    \A op \in Operations :
        pc[op] \in {"loading", "committing"} =>
            \A u \in DOMAIN copy[op] :
                Affords(op, stored[u]) /\ copy[op][u] = After(op, stored[u])

\* An operation is in no profile before it is committed, and in all it touches after.
CommitsKnown ==
    \A op \in Operations :
        /\ pc[op] \in Before => \A u \in Accounts : op \notin stored[u].applied
        /\ pc[op] = "failed" /\ Kind[op] = "settlement" =>
              \A u \in Accounts : op \notin stored[u].applied
        /\ pc[op] \in Committed => \A u \in Touches[op] : op \in stored[u].applied

\* What a committed operation will show has been stored.
CopiesStored ==
    \A op \in Operations :
        pc[op] \in Committed =>
            \A u \in DOMAIN copy[op] : copy[op][u].applied \subseteq stored[u].applied

Inv == /\ Types /\ LocksHeld /\ CopiesKnown /\ CopiesFresh
       /\ CommitsKnown /\ CopiesStored /\ ShowsOnlyStored

-----------------------------------------------------------------------------
(* Operators *)

\* A nonempty set of UINs has a least one, which Least returns.
LEMMA LeastIsMember ==
    ASSUME NEW S \in SUBSET Nat, S # {}
    PROVE  Least(S) \in S /\ \A y \in S : Least(S) <= y
<1> DEFINE R == OpToRel(<, Nat)
<1>1. \E x \in S : \A y \in S : ~(<<y, x>> \in R)
    <2>1. IsWellFoundedOn(R, Nat)
        BY NatLessThanWellFounded
    <2> HIDE DEF R
    <2> QED
        BY <2>1, WFMin
<1>2. PICK x \in S : \A y \in S : ~(<<y, x>> \in R)
    BY <1>1
<1>3. \A y \in S : ~(y < x)
    BY <1>2 DEF OpToRel
<1>4. \A y \in S : x <= y
    BY <1>3
<1> QED
    BY <1>4 DEF Least

\* A profile that can afford an operation is a profile after it, with one operation
\* more and none less.
LEMMA AfterIsProfile ==
    ASSUME NEW op \in Operations, NEW profile \in Profiles, Affords(op, profile)
    PROVE  /\ After(op, profile) \in Profiles
           /\ After(op, profile).applied = profile.applied \cup {op}
BY LedgerAssumption DEF Affords, After, Profiles

\* Only the operation's own locks are given back.
LEMMA UnlockedLocks ==
    ASSUME Types, NEW op \in Operations
    PROVE  /\ Unlocked(op) \in [Accounts -> Operations \cup {Nobody}]
           /\ \A u \in Accounts, other \in Operations \ {op} :
                 holder[u] = other => Unlocked(op)[u] = other
BY NobodyAssumption DEF Types, Unlocked, Held

\* An operation's copies with one profile more.
LEMMA WithCopies ==
    ASSUME Types, NEW op \in Operations, NEW u \in Accounts, NEW profile \in Profiles
    PROVE  /\ With(op, u, profile) \in [Operations -> UNION {[S -> Profiles] : S \in SUBSET Accounts}]
           /\ \A other \in Operations \ {op} : With(op, u, profile)[other] = copy[other]
           /\ DOMAIN With(op, u, profile)[op] = DOMAIN copy[op] \cup {u}
           /\ \A v \in DOMAIN copy[op] \cup {u} :
                 With(op, u, profile)[op][v] = IF v = u THEN profile ELSE copy[op][v]
<1> DEFINE mine == [v \in DOMAIN copy[op] \cup {u} |-> IF v = u THEN profile ELSE copy[op][v]]
<1>1. PICK S \in SUBSET Accounts : copy[op] \in [S -> Profiles]
    BY DEF Types
<1>2. mine \in [S \cup {u} -> Profiles]
    BY <1>1
<1>3. S \cup {u} \in SUBSET Accounts
    OBVIOUS
<1>4. mine \in UNION {[T -> Profiles] : T \in SUBSET Accounts}
    BY <1>2, <1>3
<1>5. With(op, u, profile) = [copy EXCEPT ![op] = mine]
    BY DEF With
<1> HIDE DEF mine
<1>6. With(op, u, profile) \in [Operations -> UNION {[T -> Profiles] : T \in SUBSET Accounts}]
    BY <1>4, <1>5 DEF Types
<1>7. /\ \A other \in Operations \ {op} : With(op, u, profile)[other] = copy[other]
      /\ With(op, u, profile)[op] = mine
    BY <1>5 DEF Types
<1> QED
    BY <1>6, <1>7 DEF mine

-----------------------------------------------------------------------------
(* Every step keeps the invariant *)

\* The invariant holds before any operation.
LEMMA InvInit == Init => Inv
<1> SUFFICES ASSUME Init PROVE Inv
    OBVIOUS
<1>1. Fresh \in [Accounts -> Profiles]
    BY LedgerAssumption DEF Fresh, Profiles
<1>2. <<>> \in [{} -> Profiles] /\ DOMAIN <<>> = {}
    OBVIOUS
<1>3. copy \in [Operations -> UNION {[S -> Profiles] : S \in SUBSET Accounts}]
    BY <1>2 DEF Init
<1>4. Types
    BY <1>1, <1>3 DEF Init, Types, Stages, Before
<1>5. \A op \in Operations : pc[op] = "idle" /\ DOMAIN copy[op] = {}
    BY <1>2 DEF Init
<1>6. LocksHeld /\ CopiesKnown /\ CopiesFresh /\ CopiesStored
    BY <1>5 DEF LocksHeld, CopiesKnown, CopiesFresh, CopiesStored, Critical, Committed
<1>7. CommitsKnown /\ ShowsOnlyStored
    BY <1>5 DEF Init, CommitsKnown, ShowsOnlyStored, Committed, Fresh
<1> QED
    BY <1>4, <1>6, <1>7 DEF Inv

\* A step that leaves the profiles alone and keeps the locks of the others, if the
\* stage it moves its operation to is one it has the locks and the copies for.
LEMMA MoveKeepsInv ==
    ASSUME Inv, NEW op \in Operations, NEW to \in Stages,
           pc' = [pc EXCEPT ![op] = to], UNCHANGED <<stored, copy, shown>>,
           holder' \in [Accounts -> Operations \cup {Nobody}],
           \A u \in Accounts, other \in Operations \ {op} : holder[u] = other => holder'[u] = other,
           to \in Critical => \A u \in Touches[op] : holder'[u] = op,
           to \in {"idle", "locking"} => DOMAIN copy[op] = {},
           to = "loading" => DOMAIN copy[op] # Touches[op] /\ Kind[op] # "transaction",
           to = "committing" => Kind[op] = "transaction" /\ DOMAIN copy[op] = {},
           to # "projecting",
           to \in Before => pc[op] \in Before,
           to = "failed" /\ Kind[op] = "settlement" => pc[op] \in Before,
           to = "loading" => DOMAIN copy[op] = {},
           to \in Committed => pc[op] \in Committed
    PROVE  Inv'
<1> USE DEF Before, Critical, Committed, Stages
<1>1. /\ \A o \in Operations \ {op} : pc'[o] = pc[o]
      /\ pc'[op] = to
      /\ \A o \in Operations : Touches[o] \subseteq Accounts
    <2>1. pc \in [Operations -> Stages]
        BY DEF Inv, Types
    <2>2. \A o \in Operations : Touches[o] \subseteq Accounts
        BY LedgerAssumption
    <2> QED
        BY <2>1, <2>2
<1>2. Types'
    BY DEF Inv, Types
<1>3. LocksHeld'
    BY <1>1 DEF Inv, LocksHeld
<1>4. CopiesKnown'
    BY <1>1 DEF Inv, CopiesKnown
<1>5. CopiesFresh'
    BY <1>1 DEF Inv, CopiesFresh
<1>6. CommitsKnown'
    BY <1>1 DEF Inv, CommitsKnown
<1>7. CopiesStored' /\ ShowsOnlyStored'
    BY <1>1 DEF Inv, CopiesStored, ShowsOnlyStored
<1> QED
    BY <1>2, <1>3, <1>4, <1>5, <1>6, <1>7 DEF Inv

\* An operation begins, takes one lock after the other, fails or returns.
LEMMA MovesKeepInv ==
    ASSUME Inv, NEW op \in Operations,
           Begin(op) \/ Lock(op) \/ Locked(op) \/ Fail(op) \/ Return(op)
    PROVE  Inv'
<1> USE DEF Before, Critical, Committed, Stages
<1>1. /\ Types /\ DOMAIN copy[op] \subseteq Touches[op] /\ Touches[op] # {}
      /\ holder \in [Accounts -> Operations \cup {Nobody}]
      /\ pc \in [Operations -> Stages]
      /\ Kind[op] \in {"rewrite", "transaction", "settlement"}
    BY LedgerAssumption, KindAssumption DEF Inv, Types, CopiesKnown
<1>2. CASE Begin(op)
    BY <1>1, <1>2, MoveKeepsInv DEF Begin, Inv, CopiesKnown
<1>3. CASE Lock(op)
    <2>1. PICK u : Free(u) /\ holder' = [holder EXCEPT ![u] = op]
        BY <1>3 DEF Lock
    <2>2. \A v \in Accounts, other \in Operations \ {op} : holder[v] = other => holder'[v] = other
        BY <1>1, <2>1, NobodyAssumption DEF Free
    <2>3. pc' = [pc EXCEPT ![op] = "locking"] /\ pc[op] = "locking" /\ UNCHANGED <<stored, copy, shown>>
        BY <1>1, <1>3 DEF Lock
    <2>4. holder' \in [Accounts -> Operations \cup {Nobody}]
        BY <1>1, <2>1
    <2>5. DOMAIN copy[op] = {}
        BY <2>3 DEF Inv, CopiesKnown
    <2> QED
        BY <2>2, <2>3, <2>4, <2>5, MoveKeepsInv
<1>4. CASE Locked(op)
    <2> DEFINE to == IF Kind[op] = "transaction" THEN "committing" ELSE "loading"
    <2>1. /\ pc' = [pc EXCEPT ![op] = to] /\ pc[op] = "locking"
          /\ UNCHANGED <<stored, holder, copy, shown>>
          /\ \A u \in Touches[op] : holder[u] = op
        BY <1>4 DEF Locked, Held
    <2>2. DOMAIN copy[op] = {}
        BY <2>1 DEF Inv, CopiesKnown
    <2>3. to \in Stages /\ (to = "loading" <=> Kind[op] # "transaction") /\ to \in {"committing", "loading"}
        OBVIOUS
    <2> HIDE DEF to
    <2> QED
        BY <1>1, <2>1, <2>2, <2>3, MoveKeepsInv
<1>5. CASE Fail(op)
    <2>1. /\ pc' = [pc EXCEPT ![op] = "failed"] /\ holder' = Unlocked(op)
          /\ pc[op] \in {"loading", "committing", "projecting"}
          /\ UNCHANGED <<stored, copy, shown>>
        BY <1>5 DEF Fail
    <2>2. Kind[op] = "settlement" => pc[op] \in Before
        BY <2>1 DEF Inv, CopiesKnown
    <2>3. /\ holder' \in [Accounts -> Operations \cup {Nobody}]
          /\ \A u \in Accounts, other \in Operations \ {op} :
                holder[u] = other => holder'[u] = other
        BY <1>1, <2>1, UnlockedLocks
    <2> QED
        BY <2>1, <2>2, <2>3, MoveKeepsInv
<1>6. CASE Return(op)
    <2>1. /\ pc' = [pc EXCEPT ![op] = "showing"] /\ holder' = Unlocked(op)
          /\ pc[op] = "returning" /\ UNCHANGED <<stored, copy, shown>>
        BY <1>6 DEF Return
    <2>2. /\ holder' \in [Accounts -> Operations \cup {Nobody}]
          /\ \A u \in Accounts, other \in Operations \ {op} :
                holder[u] = other => holder'[u] = other
        BY <1>1, <2>1, UnlockedLocks
    <2> QED
        BY <2>1, <2>2, MoveKeepsInv
<1> QED
    BY <1>2, <1>3, <1>4, <1>5, <1>6

\* The next profile is loaded and changed, under its lock.
LEMMA LoadKeepsInv ==
    ASSUME Inv, NEW op \in Operations, Load(op)
    PROVE  Inv'
<1> USE DEF Before, Critical, Committed, Stages
<1> DEFINE u == Least(Touches[op] \ DOMAIN copy[op])
           profile == After(op, stored[u])
<1>1. Types /\ pc[op] = "loading" /\ Kind[op] # "transaction" /\ DOMAIN copy[op] \subseteq Touches[op]
      /\ Touches[op] \subseteq Accounts /\ Accounts \subseteq Nat
    BY LedgerAssumption DEF Load, Inv, CopiesKnown
<1>2. u \in Touches[op] \ DOMAIN copy[op] /\ u \in Accounts
    <2>1. Touches[op] \ DOMAIN copy[op] # {}
        BY <1>1 DEF Inv, CopiesKnown
    <2> QED
        BY <1>1, <2>1, LeastIsMember
<1>3. /\ Affords(op, stored[u]) /\ copy' = With(op, u, profile)
      /\ pc' = [pc EXCEPT ![op] = IF DOMAIN copy'[op] = Touches[op] THEN "committing" ELSE @]
      /\ UNCHANGED <<stored, holder, shown>>
    BY DEF Load, Current
<1>4. profile \in Profiles
    BY <1>1, <1>2, <1>3, AfterIsProfile DEF Types
<1> HIDE DEF u, profile
<1>5. /\ copy' \in [Operations -> UNION {[S -> Profiles] : S \in SUBSET Accounts}]
      /\ \A o \in Operations \ {op} : copy'[o] = copy[o]
      /\ DOMAIN copy'[op] = DOMAIN copy[op] \cup {u}
      /\ \A v \in DOMAIN copy'[op] : copy'[op][v] = IF v = u THEN profile ELSE copy[op][v]
    BY <1>1, <1>2, <1>3, <1>4, WithCopies
<1>6. /\ pc' \in [Operations -> Stages]
      /\ \A o \in Operations \ {op} : pc'[o] = pc[o]
      /\ pc'[op] = IF DOMAIN copy'[op] = Touches[op] THEN "committing" ELSE "loading"
    BY <1>1, <1>3 DEF Types
<1>7. Types'
    BY <1>1, <1>3, <1>5, <1>6 DEF Types
<1>8. LocksHeld'
    BY <1>1, <1>3, <1>6 DEF Inv, LocksHeld
<1>9. CopiesKnown'
    <2>1. ASSUME NEW o \in Operations PROVE CopiesKnown!(o)'
        <3>1. CASE o = op
            BY <1>1, <1>2, <1>5, <1>6, <3>1
        <3>2. CopiesKnown!(o)
            BY DEF Inv, CopiesKnown
        <3>3. CASE o # op
            BY <1>5, <1>6, <3>2, <3>3
        <3> QED
            BY <3>1, <3>3
    <2> QED
        BY <2>1 DEF CopiesKnown
<1>10. CopiesFresh'
    <2>1. ASSUME NEW v \in DOMAIN copy'[op]
          PROVE  Affords(op, stored[v]) /\ copy'[op][v] = After(op, stored[v])
        BY <1>1, <1>3, <1>5 DEF profile, Inv, CopiesFresh
    <2>2. ASSUME NEW o \in Operations \ {op}, pc'[o] \in {"loading", "committing"},
                 NEW v \in DOMAIN copy'[o]
          PROVE  Affords(o, stored[v]) /\ copy'[o][v] = After(o, stored[v])
        BY <1>5, <1>6, <2>2 DEF Inv, CopiesFresh
    <2> QED
        BY <1>3, <2>1, <2>2 DEF CopiesFresh
<1>11. CommitsKnown'
    BY <1>1, <1>3, <1>6 DEF Inv, CommitsKnown
<1>12. CopiesStored' /\ ShowsOnlyStored'
    BY <1>3, <1>5, <1>6 DEF Inv, CopiesStored, ShowsOnlyStored
<1> QED
    BY <1>7, <1>8, <1>9, <1>10, <1>11, <1>12 DEF Inv

\* Two operations that both have their locks touch no account together.
LEMMA CriticalApart ==
    ASSUME Inv, NEW op \in Operations, NEW other \in Operations \ {op},
           pc[op] \in Critical, pc[other] \in Critical
    PROVE  Touches[op] \cap Touches[other] = {}
BY DEF Inv, LocksHeld

\* An operation that takes effect on what is stored, and on nothing else, keeps the
\* invariant: whoever has read one of these profiles has its lock.
LEMMA EffectKeepsInv ==
    ASSUME Inv, NEW op \in Operations, pc[op] = "committing", TakeEffect(op),
           NEW to \in {"projecting", "returning"}, to = "projecting" => Kind[op] # "settlement",
           pc' = [pc EXCEPT ![op] = to], UNCHANGED <<holder, copy, shown>>
    PROVE  Inv'
<1> USE DEF Before, Critical, Committed, Stages
<1>1. /\ Types /\ Touches[op] \subseteq Accounts /\ Accounts \subseteq Nat
      /\ \A o \in Operations : Touches[o] \subseteq Accounts
    BY LedgerAssumption DEF Inv
<1>2. /\ \A o \in Operations \ {op} : pc'[o] = pc[o]
      /\ pc'[op] = to
    BY <1>1 DEF Types
<1>3. /\ stored' \in [Accounts -> Profiles]
      /\ \A u \in Touches[op] : stored'[u] = After(op, stored[u])
                             /\ stored'[u].applied = stored[u].applied \cup {op}
      /\ \A u \in Accounts \ Touches[op] : stored'[u] = stored[u]
    BY <1>1, AfterIsProfile DEF TakeEffect, Types
<1>4. \A u \in Accounts : stored[u].applied \subseteq stored'[u].applied
                       /\ stored'[u].applied \subseteq stored[u].applied \cup {op}
    BY <1>1, <1>3
<1>5. Types'
    BY <1>1, <1>3 DEF Types
<1>6. LocksHeld'
    BY <1>2 DEF Inv, LocksHeld
<1>7. CopiesKnown'
    BY <1>2 DEF Inv, CopiesKnown
<1>8. CopiesFresh'
    <2>1. ASSUME NEW o \in Operations \ {op}, pc[o] \in {"loading", "committing"},
                 NEW u \in DOMAIN copy[o]
          PROVE  stored'[u] = stored[u]
        BY <1>1, <1>3, <2>1, CriticalApart DEF Inv, CopiesKnown
    <2> QED
        BY <1>2, <2>1 DEF Inv, CopiesFresh
<1>9. CommitsKnown'
    <2>1. ASSUME NEW o \in Operations \ {op}, NEW u \in Accounts
          PROVE  o \in stored'[u].applied <=> o \in stored[u].applied
        BY <1>4
    <2>2. \A u \in Touches[op] : op \in stored'[u].applied
        BY <1>3
    <2>3. \A o \in Operations : CommitsKnown!(o)
        BY DEF Inv, CommitsKnown
    <2>4. ASSUME NEW o \in Operations PROVE CommitsKnown!(o)'
        <3>1. CASE o = op
            BY <1>2, <2>2, <3>1
        <3>2. CASE o # op
            <4>1. CommitsKnown!(o)
                BY <2>3
            <4>2. pc'[o] = pc[o]
                BY <1>2, <3>2
            <4>3. \A u \in Accounts : o \in stored'[u].applied <=> o \in stored[u].applied
                BY <2>1, <3>2
            <4>4. Touches[o] \subseteq Accounts
                BY LedgerAssumption
            <4> QED
                BY <4>1, <4>2, <4>3, <4>4
        <3> QED
            BY <3>1, <3>2
    <2> QED
        BY <2>4 DEF CommitsKnown
<1>10. CopiesStored'
    <2>1. ASSUME NEW u \in DOMAIN copy[op]
          PROVE  copy[op][u].applied \subseteq stored'[u].applied
        BY <1>3 DEF Inv, CopiesKnown, CopiesFresh
    <2>2. ASSUME NEW o \in Operations \ {op}, pc[o] \in Committed, NEW u \in DOMAIN copy[o]
          PROVE  copy[o][u].applied \subseteq stored'[u].applied
        <3>1. u \in Accounts
            BY <1>1 DEF Inv, CopiesKnown
        <3> QED
            BY <1>4, <2>2, <3>1 DEF Inv, CopiesStored
    <2> QED
        BY <1>2, <2>1, <2>2 DEF CopiesStored
<1>11. ShowsOnlyStored'
    BY <1>4 DEF Inv, ShowsOnlyStored
<1> QED
    BY <1>5, <1>6, <1>7, <1>8, <1>9, <1>10, <1>11 DEF Inv

\* A save writes the whole effect of its operation on what is stored, although the
\* profiles it writes were read earlier.
LEMMA SaveTakesEffect ==
    ASSUME Inv, NEW op \in Operations, Save(op)
    PROVE  TakeEffect(op)
<1>1. /\ pc[op] = "committing" /\ Kind[op] # "transaction"
      /\ stored' = [u \in Accounts |-> IF u \in Touches[op] THEN copy[op][u] ELSE stored[u]]
    BY DEF Save
<1>2. Touches[op] \subseteq Accounts /\ DOMAIN copy[op] = Touches[op]
    BY <1>1, LedgerAssumption DEF Inv, CopiesKnown
<1>3. \A u \in Touches[op] : /\ Affords(op, stored[u]) /\ copy[op][u] = After(op, stored[u])
                             /\ op \notin stored[u].applied
    BY <1>1, <1>2 DEF Inv, CopiesFresh, CommitsKnown, Before
<1>4. stored' = [u \in Accounts |-> IF u \in Touches[op] THEN After(op, stored[u]) ELSE stored[u]]
    BY <1>1, <1>3
<1> QED
    BY <1>3, <1>4 DEF TakeEffect

\* A transaction checks and changes what is stored.
LEMMA TransactTakesEffect ==
    ASSUME Inv, NEW op \in Operations, Transact(op)
    PROVE  TakeEffect(op)
<1>1. pc[op] = "committing" /\ Touches[op] \subseteq Accounts
    BY LedgerAssumption DEF Transact
<1>2. \A u \in Touches[op] : op \notin stored[u].applied
    BY <1>1 DEF Inv, CommitsKnown, Before
<1> QED
    BY <1>2 DEF Transact, TakeEffect

\* Both ways to commit keep the invariant.
LEMMA CommitKeepsInv ==
    ASSUME Inv, NEW op \in Operations, Save(op) \/ Transact(op)
    PROVE  Inv'
<1>1. TakeEffect(op)
    BY SaveTakesEffect, TransactTakesEffect
<1>2. Kind[op] \in {"rewrite", "transaction", "settlement"}
    BY KindAssumption
<1>3. \E to \in {"projecting", "returning"} :
          /\ to = "projecting" => Kind[op] # "settlement"
          /\ pc' = [pc EXCEPT ![op] = to]
    BY <1>2 DEF Save, Transact
<1>4. pc[op] = "committing" /\ UNCHANGED <<holder, copy, shown>>
    BY DEF Save, Transact
<1> QED
    BY <1>1, <1>3, <1>4, EffectKeepsInv

\* What is to be shown is what the transaction has stored, or what was computed.
LEMMA ProjectKeepsInv ==
    ASSUME Inv, NEW op \in Operations, Project(op)
    PROVE  Inv'
<1> USE DEF Before, Critical, Committed, Stages
<1> DEFINE mine == [u \in Touches[op] |->
                       IF Kind[op] = "transaction" THEN stored[u] ELSE copy[op][u]]
<1>1. /\ Types /\ Touches[op] \subseteq Accounts
      /\ pc[op] = "projecting" /\ pc' = [pc EXCEPT ![op] = "returning"]
      /\ copy' = [copy EXCEPT ![op] = mine]
      /\ UNCHANGED <<stored, holder, shown>>
    BY LedgerAssumption DEF Project, Inv
<1>2. mine \in [Touches[op] -> Profiles] /\ \A u \in Touches[op] : mine[u].applied \subseteq stored[u].applied
    <2>1. CASE Kind[op] = "transaction"
        BY <1>1, <2>1 DEF Types
    <2>2. CASE Kind[op] # "transaction"
        <3>1. DOMAIN copy[op] = Touches[op]
            BY <1>1, <2>2 DEF Inv, CopiesKnown
        <3>2. PICK S \in SUBSET Accounts : copy[op] \in [S -> Profiles]
            BY <1>1 DEF Types
        <3> QED
            BY <1>1, <2>2, <3>1, <3>2 DEF Inv, CopiesStored
    <2> QED
        BY <2>1, <2>2
<1> HIDE DEF mine
<1>3. /\ \A o \in Operations \ {op} : pc'[o] = pc[o] /\ copy'[o] = copy[o]
      /\ pc'[op] = "returning" /\ copy'[op] = mine /\ DOMAIN mine = Touches[op]
    BY <1>1, <1>2 DEF Types
<1>4. Types'
    <2>1. mine \in UNION {[S -> Profiles] : S \in SUBSET Accounts}
        BY <1>1, <1>2
    <2> QED
        BY <1>1, <2>1 DEF Types
<1>5. LocksHeld'
    BY <1>1, <1>3 DEF Inv, LocksHeld
<1>6. CopiesKnown'
    BY <1>3 DEF Inv, CopiesKnown
<1>7. CopiesFresh'
    BY <1>1, <1>3 DEF Inv, CopiesFresh
<1>8. CommitsKnown'
    BY <1>1, <1>3 DEF Inv, CommitsKnown
<1>9. CopiesStored'
    BY <1>1, <1>2, <1>3 DEF Inv, CopiesStored
<1>10. ShowsOnlyStored'
    BY <1>1 DEF Inv, ShowsOnlyStored
<1> QED
    BY <1>4, <1>5, <1>6, <1>7, <1>8, <1>9, <1>10 DEF Inv

\* A session shows what has been stored, even when it was replaced in the store since.
LEMMA ShowKeepsInv ==
    ASSUME Inv, NEW op \in Operations, Show(op)
    PROVE  Inv'
<1> USE DEF Before, Critical, Committed, Stages
<1>1. PICK u \in DOMAIN copy[op] :
          /\ shown' = [shown EXCEPT ![u] = copy[op][u]]
          /\ copy' = [copy EXCEPT ![op] = [v \in DOMAIN @ \ {u} |-> @[v]]]
          /\ pc' = [pc EXCEPT ![op] = IF DOMAIN copy[op] = {u} THEN "done" ELSE @]
    BY DEF Show
<1> DEFINE rest == [v \in DOMAIN copy[op] \ {u} |-> copy[op][v]]
<1>2. /\ Types /\ Touches[op] \subseteq Accounts /\ DOMAIN copy[op] \subseteq Touches[op]
      /\ pc[op] = "showing" /\ UNCHANGED <<stored, holder>>
    BY LedgerAssumption DEF Show, Inv, CopiesKnown
<1>3. PICK S \in SUBSET Accounts : copy[op] \in [S -> Profiles]
    BY <1>2 DEF Types
<1>4. /\ \A o \in Operations \ {op} : pc'[o] = pc[o] /\ copy'[o] = copy[o]
      /\ pc'[op] \in {"showing", "done"} /\ copy'[op] = rest
    BY <1>1, <1>2 DEF Types
<1>5. rest \in [S \ {u} -> Profiles] /\ DOMAIN rest = DOMAIN copy[op] \ {u}
      /\ \A v \in DOMAIN rest : rest[v] = copy[op][v]
    BY <1>3
<1>6. Types'
    <2>1. rest \in UNION {[T -> Profiles] : T \in SUBSET Accounts}
        BY <1>5
    <2>2. copy' = [copy EXCEPT ![op] = rest] /\ copy[op][u] \in Profiles
        BY <1>1, <1>3
    <2>3. pc' \in [Operations -> Stages]
        BY <1>1, <1>2 DEF Types
    <2> HIDE DEF rest
    <2>4. copy' \in [Operations -> UNION {[T -> Profiles] : T \in SUBSET Accounts}]
        BY <1>2, <2>1, <2>2 DEF Types
    <2> QED
        BY <1>1, <1>2, <2>2, <2>3, <2>4 DEF Types
<1> HIDE DEF rest
<1>7. LocksHeld'
    BY <1>2, <1>4 DEF Inv, LocksHeld
<1>8. CopiesKnown'
    BY <1>2, <1>4, <1>5 DEF Inv, CopiesKnown
<1>9. CopiesFresh'
    BY <1>2, <1>4 DEF Inv, CopiesFresh
<1>10. CommitsKnown'
    BY <1>2, <1>4 DEF Inv, CommitsKnown
<1>11. CopiesStored'
    BY <1>2, <1>4, <1>5 DEF Inv, CopiesStored
<1>12. ShowsOnlyStored'
    <2>1. copy[op][u].applied \subseteq stored[u].applied
        BY <1>2 DEF Inv, CopiesStored
    <2> QED
        BY <1>1, <1>2, <2>1 DEF Inv, Types, ShowsOnlyStored
<1> QED
    BY <1>6, <1>7, <1>8, <1>9, <1>10, <1>11, <1>12 DEF Inv

\* The invariant is inductive.
LEMMA StepKeepsInv ==
    ASSUME Inv, [Next]_vars
    PROVE  Inv'
<1>1. CASE UNCHANGED vars
    BY <1>1 DEF vars, Inv, Types, LocksHeld, CopiesKnown, CopiesFresh, CommitsKnown,
                CopiesStored, ShowsOnlyStored
<1>2. CASE Next
    BY <1>2, MovesKeepInv, LoadKeepsInv, CommitKeepsInv, ProjectKeepsInv, ShowKeepsInv
       DEF Next, Step
<1> QED
    BY <1>1, <1>2

-----------------------------------------------------------------------------
(* Theorems *)

\* The inductive invariant holds in every state of the player service.
THEOREM InvHolds == Spec => []Inv
<1>1. Inv /\ [Next]_vars => Inv'
    BY StepKeepsInv
<1> QED
    BY InvInit, <1>1, PTL DEF Spec

\* Profiles, locks and copies keep their types; no balance falls below zero, whatever
\* operations meet.
THEOREM AccountsTyped == Spec => []TypeOK
<1>1. Inv => TypeOK
    <2> SUFFICES ASSUME Inv PROVE TypeOK
        OBVIOUS
    <2>1. ASSUME NEW op \in Operations
          PROVE  /\ DOMAIN copy[op] \subseteq Touches[op]
                 /\ \A u \in DOMAIN copy[op] : copy[op][u] \in Profiles
        <3>1. PICK S \in SUBSET Accounts : copy[op] \in [S -> Profiles]
            BY DEF Inv, Types
        <3> QED
            BY <3>1 DEF Inv, CopiesKnown
    <2> QED
        BY <2>1 DEF Inv, Types, TypeOK, Stages, Before, Committed
<1> QED
    BY InvHolds, <1>1, PTL

\* An answered operation is in every profile it names, and a settlement that reports
\* an error in none.
THEOREM CallersAreToldTheTruth == Spec => []AnswersAreTrue
<1>1. Inv => AnswersAreTrue
    <2> SUFFICES ASSUME Inv PROVE AnswersAreTrue
        OBVIOUS
    <2>1. \A op \in Operations : Touches[op] \subseteq Accounts
        BY LedgerAssumption
    <2> QED
        BY <2>1 DEF Inv, CommitsKnown, AnswersAreTrue, Committed
<1> QED
    BY InvHolds, <1>1, PTL

\* No session shows a reward, a purchase or a debit that was not stored.
THEOREM SessionsShowOnlyStored == Spec => []ShowsOnlyStored
<1>1. Inv => ShowsOnlyStored
    BY DEF Inv
<1> QED
    BY InvHolds, <1>1, PTL

\* Refinement: every step of the player service is the whole effect of one operation
\* on what is stored, or leaves the store alone. No update is lost, doubled or split.
THEOREM ServiceKeepsLedger == Spec => LedgerSpec
<1>1. Init => stored = Fresh
    BY DEF Init
<1>2. Inv /\ [Next]_vars => [\E op \in Operations : TakeEffect(op)]_stored
    <2> SUFFICES ASSUME Inv, [Next]_vars, stored' # stored
                 PROVE  \E op \in Operations : TakeEffect(op)
        OBVIOUS
    <2>1. PICK op \in Operations : Save(op) \/ Transact(op)
        BY DEF vars, Next, Step, Begin, Lock, Locked, Load, Project, Fail, Return, Show
    <2> QED
        BY <2>1, SaveTakesEffect, TransactTakesEffect
<1> QED
    BY <1>1, <1>2, InvHolds, PTL DEF Spec, LedgerSpec

-----------------------------------------------------------------------------
(* No circle of waiting operations *)

\* An operation has locks only while it runs, only of accounts it touches, and takes
\* them in the order of the UINs.
LocksInOrder ==
    /\ \A op \in Operations, u \in Accounts :
          holder[u] = op => pc[op] \in {"locking"} \cup Critical /\ u \in Touches[op]
    /\ \A op \in Operations :
          pc[op] = "locking" => \A u \in Held(op), v \in Touches[op] \ Held(op) : u < v

\* An operation that waits for nobody: its next lock is free, or it has them all.
Unblocked(op) ==
    \/ pc[op] \in Critical
    \/ pc[op] = "locking" /\ (Held(op) = Touches[op] \/ \E u \in NextLocks(op) : Free(u))

\* While operations are under way, not all of them wait for each other.
NoCircle ==
    (\E op \in Operations : pc[op] \in {"locking"} \cup Critical)
        => \E op \in Operations : Unblocked(op)

\* A nonempty finite set of natural numbers has a greatest element.
LEMMA GreatestExists ==
    ASSUME NEW S \in SUBSET Nat, S # {}, IsFiniteSet(S)
    PROVE  \E x \in S : \A y \in S : y <= x
<1>1. PICK n \in Nat : \E f : f \in Surjection(1..n, S)
    BY FS_NatSurjection DEF ExistsSurjection
<1> PICK f : f \in Surjection(1..n, S)
    BY <1>1
<1>2. /\ \A i \in 1..n : f[i] \in S /\ f[i] \in Nat
      /\ \A x \in S : \E i \in 1..n : f[i] = x
    BY <1>1 DEF Surjection
<1>3. n # 0
    <2>1. PICK x \in S : TRUE
        OBVIOUS
    <2>2. PICK i \in 1..n : f[i] = x
        BY <1>2
    <2> QED
        BY <2>2
<1> DEFINE Tops(k) == {m \in 1..k : \A i \in 1..k : f[i] <= f[m]}
           Bad == {k \in 1..n : Tops(k) = {}}
<1>4. Bad = {}
    <2>1. SUFFICES ASSUME Bad # {} PROVE FALSE
        OBVIOUS
    <2>2. PICK k \in Bad : \A i \in Bad : k <= i
        <3>1. Bad \in SUBSET Nat
            OBVIOUS
        <3> HIDE DEF Bad
        <3> QED
            BY <2>1, <3>1, LeastIsMember
    <2>3. 1 \in Tops(1)
        BY <1>2, <1>3
    <2>4. k # 1 /\ k - 1 \in 1..n /\ k - 1 \notin Bad
        <3>1. k \in 1..n /\ Tops(k) = {}
            BY <2>2
        <3>2. k # 1
            BY <2>3, <3>1
        <3>3. k - 1 \in 1..n /\ ~(k <= k - 1)
            BY <3>1, <3>2
        <3> HIDE DEF Bad
        <3> QED
            BY <2>2, <3>2, <3>3
    <2>5. PICK m \in 1..(k-1) : \A i \in 1..(k-1) : f[i] <= f[m]
        BY <2>4
    <2>6. CASE f[k] <= f[m]
        <3>1. m \in Tops(k)
            BY <1>2, <2>2, <2>4, <2>5, <2>6
        <3> QED
            BY <2>2, <3>1
    <2>7. CASE f[m] <= f[k]
        <3>1. ASSUME NEW i \in 1..k PROVE f[i] <= f[k]
            <4>1. f[i] \in Nat /\ f[k] \in Nat /\ f[m] \in Nat
                BY <1>2, <2>2, <2>4, <2>5
            <4>2. i = k \/ f[i] <= f[m]
                BY <2>2, <2>4, <2>5
            <4> QED
                BY <2>7, <4>1, <4>2
        <3>2. k \in Tops(k)
            BY <2>2, <3>1
        <3> QED
            BY <2>2, <3>2
    <2> QED
        BY <1>2, <2>2, <2>4, <2>6, <2>7
<1>5. PICK m \in 1..n : \A i \in 1..n : f[i] <= f[m]
    <2>1. n \in 1..n /\ n \notin Bad
        BY <1>3, <1>4
    <2> QED
        BY <2>1
<1>6. f[m] \in S
    BY <1>1, <1>5 DEF Surjection
<1> QED
    BY <1>2, <1>5, <1>6

\* The order of the locks is kept by every step.
LEMMA StepKeepsOrder ==
    ASSUME Inv, LocksInOrder, [Next]_vars
    PROVE  LocksInOrder'
<1> USE DEF Before, Critical, Committed, Stages
<1>1. /\ Types /\ NobodyAssumption /\ Accounts \subseteq Nat
      /\ \A op \in Operations : Touches[op] \subseteq Accounts
    BY LedgerAssumption, NobodyAssumption DEF Inv
<1>2. CASE UNCHANGED <<holder, pc>>
    BY <1>2 DEF LocksInOrder, Held
<1>3. ASSUME NEW op \in Operations, NEW to \in Stages, UNCHANGED holder,
             pc' = [pc EXCEPT ![op] = to],
             pc[op] \in {"locking"} \cup Critical => to \in Critical,
             to = "locking" => pc[op] = "idle"
      PROVE  LocksInOrder'
    <2>1. \A o \in Operations : Held(o)' = Held(o) /\ pc'[o] = IF o = op THEN to ELSE pc[o]
        BY <1>1, <1>3 DEF Held, Types
    <2>2. pc[op] \in {"idle", "locking"} \cup Critical \/ Held(op) = {}
        BY <1>1 DEF LocksInOrder, Held
    <2>3. pc[op] = "idle" => Held(op) = {}
        BY <1>1 DEF LocksInOrder, Held
    <2> QED
        BY <1>1, <1>3, <2>1, <2>2, <2>3 DEF LocksInOrder
<1>4. ASSUME NEW op \in Operations, Lock(op) PROVE LocksInOrder'
    <2> DEFINE rest == Touches[op] \ Held(op)
               u == Least(rest)
    <2>1. /\ rest # {} /\ rest \in SUBSET Nat /\ pc[op] = "locking" /\ UNCHANGED pc
          /\ Free(u) /\ holder' = [holder EXCEPT ![u] = op]
        BY <1>1, <1>4 DEF Lock, NextLocks, Held
    <2>2. u \in rest /\ \A v \in rest : u <= v
        BY <2>1, LeastIsMember
    <2> HIDE DEF u
    <2>3. u \in Accounts /\ \A v \in Accounts : holder'[v] = IF v = u THEN op ELSE holder[v]
        BY <1>1, <2>1, <2>2 DEF Types
    <2>4. Held(op)' = Held(op) \cup {u}
        BY <1>1, <2>2, <2>3 DEF Held
    <2>5. \A o \in Operations \ {op} : Held(o)' = Held(o)
        BY <1>1, <2>1, <2>3, NobodyAssumption DEF Held, Free
    <2>6. \A v \in Held(op)', w \in Touches[op] \ Held(op)' : v < w
        BY <1>1, <2>1, <2>2, <2>4 DEF LocksInOrder
    <2> QED
        BY <1>1, <2>1, <2>2, <2>3, <2>5, <2>6 DEF LocksInOrder
<1>5. ASSUME NEW op \in Operations, NEW to \in {"failed", "showing"}, holder' = Unlocked(op),
             pc' = [pc EXCEPT ![op] = to]
      PROVE  LocksInOrder'
    <2>1. \A o \in Operations : pc'[o] = IF o = op THEN to ELSE pc[o]
        BY <1>1, <1>5 DEF Types
    <2>2. \A v \in Accounts : holder'[v] = IF holder[v] = op THEN Nobody ELSE holder[v]
        BY <1>1, <1>5 DEF Unlocked, Held, LocksInOrder
    <2>3. \A o \in Operations \ {op} : Held(o)' = Held(o)
        BY <1>1, <2>2, NobodyAssumption DEF Held
    <2> QED
        BY <1>1, <2>1, <2>2, <2>3, NobodyAssumption DEF LocksInOrder
<1>6. CASE Next
    <2>1. PICK op \in Operations : Begin(op) \/ Step(op)
        BY <1>6 DEF Next
    <2>2. Types /\ pc[op] \in Stages
        BY <1>1 DEF Types
    <2>3. CASE Begin(op)
        BY <1>3, <2>3 DEF Begin
    <2>4. CASE Locked(op)
        <3>1. \E to \in {"committing", "loading"} : pc' = [pc EXCEPT ![op] = to]
            BY <2>4 DEF Locked
        <3> QED
            BY <1>3, <2>4, <3>1 DEF Locked
    <2>5. CASE Load(op)
        BY <1>3, <2>5 DEF Load
    <2>6. CASE Save(op) \/ Transact(op) \/ Project(op)
        BY <1>3, <2>6 DEF Save, Transact, Project
    <2>7. CASE Fail(op) \/ Return(op)
        BY <1>5, <2>7 DEF Fail, Return
    <2>8. CASE Show(op)
        BY <1>3, <2>8 DEF Show
    <2> QED
        BY <1>4, <2>1, <2>3, <2>4, <2>5, <2>6, <2>7, <2>8 DEF Step
<1> QED
    BY <1>2, <1>6 DEF vars

\* Of the operations that wait, the one that waits for the greatest UIN waits for an
\* operation that does not wait.
LEMMA OrderMeansNoCircle ==
    ASSUME Inv, LocksInOrder
    PROVE  NoCircle
<1> USE DEF Critical
<1>1. /\ Types /\ Accounts \subseteq Nat /\ IsFiniteSet(Accounts)
      /\ \A op \in Operations : Touches[op] \subseteq Accounts
    BY LedgerAssumption, KindAssumption DEF Inv
<1>2. SUFFICES ASSUME NEW op0 \in Operations, pc[op0] \in {"locking"} \cup Critical,
                      \A op \in Operations : ~Unblocked(op)
               PROVE  FALSE
    BY DEF NoCircle
<1> DEFINE Waiting == {op \in Operations : pc[op] = "locking"}
           Wanted(op) == Least(Touches[op] \ Held(op))
           Wants == {u \in Accounts : \E op \in Waiting : u = Wanted(op)}
<1>3. ASSUME NEW op \in Waiting
      PROVE  /\ Wanted(op) \in Touches[op] \ Held(op) /\ Wanted(op) \in Wants
             /\ \E other \in Waiting : Wanted(op) \in Held(other)
    <2>1. Touches[op] \ Held(op) # {} /\ Touches[op] \ Held(op) \in SUBSET Nat
        BY <1>1, <1>2 DEF Unblocked, Held
    <2>2. Wanted(op) \in Touches[op] \ Held(op)
        BY <2>1, LeastIsMember
    <2>3. ~Free(Wanted(op))
        BY <1>2 DEF Unblocked, NextLocks
    <2> HIDE DEF Wanted
    <2>4. holder[Wanted(op)] \in Operations
        BY <1>1, <2>2, <2>3 DEF Types, Free
    <2>5. Wanted(op) \in Held(holder[Wanted(op)]) /\ holder[Wanted(op)] \in Waiting
        BY <1>1, <1>2, <2>2, <2>4 DEF LocksInOrder, Held, Unblocked
    <2>6. Wanted(op) \in Wants
        BY <1>1, <2>2
    <2> QED
        BY <2>2, <2>5, <2>6
<1>4. op0 \in Waiting
    BY <1>2 DEF Unblocked
<1>5. Wants # {} /\ Wants \in SUBSET Nat /\ IsFiniteSet(Wants)
    BY <1>1, <1>3, <1>4, FS_Subset
<1> HIDE DEF Wants
<1>6. PICK u \in Wants : \A v \in Wants : v <= u
    BY <1>5, GreatestExists
<1>7. PICK op \in Waiting : u = Wanted(op)
    BY <1>6 DEF Wants
<1>8. PICK other \in Waiting : u \in Held(other)
    BY <1>3, <1>7
<1>9. u < Wanted(other)
    BY <1>3, <1>8 DEF LocksInOrder
<1>10. Wanted(other) <= u /\ Wanted(other) \in Nat /\ u \in Nat
    BY <1>3, <1>5, <1>6, <1>8
<1> QED
    BY <1>9, <1>10

\* Operations that take several accounts never wait for each other in a circle, for
\* any number of operations and accounts: the locks are taken in the order of the UINs.
THEOREM OperationsNeverDeadlock == Spec => []NoCircle
<1>1. Init => LocksInOrder
    BY NobodyAssumption DEF Init, LocksInOrder, Held
<1>2. Inv /\ LocksInOrder /\ [Next]_vars => LocksInOrder'
    BY StepKeepsOrder
<1>3. Inv /\ LocksInOrder => NoCircle
    BY OrderMeansNoCircle
<1> QED
    BY <1>1, <1>2, <1>3, InvHolds, PTL DEF Spec
=============================================================================
