------------------------------ MODULE Accounts ------------------------------
(* The player service: operations on profiles, each a sequence of store calls
   under the locks of its accounts. An operation is of one of three kinds:
     "rewrite"      loads a profile, changes a part and saves the whole of it
     "transaction"  changes the store in one transaction of the database, then
                    loads what it has changed (purchases, exchanges, debits)
     "settlement"   loads every profile and saves all of them together.
   A call of the store may fail at any time. A profile is the set of the
   operations it shows and one balance, for every field and item. *)
EXTENDS Ledger, FiniteSets

CONSTANT Kind   \* of each operation

ASSUME KindAssumption ==
    /\ Kind \in [Operations -> {"rewrite", "transaction", "settlement"}]
    /\ IsFiniteSet(Accounts)

VARIABLES holder,  \* per account: the operation that has its lock
          pc,      \* how far an operation is
          copy,    \* per operation: the profiles it has loaded or computed
          shown    \* per account: the profile its session keeps

vars == <<stored, holder, pc, copy, shown>>

Nobody == "nobody"

ASSUME NobodyAssumption == Nobody \notin Operations

Profiles == [applied : SUBSET Operations, coins : Nat]

Init ==
    /\ stored = Fresh
    /\ holder = [u \in Accounts |-> Nobody]
    /\ pc = [op \in Operations |-> "idle"]
    /\ copy = [op \in Operations |-> <<>>]
    /\ shown = Fresh

Least(S) == CHOOSE u \in S : \A v \in S : u <= v
Held(op) == {u \in Touches[op] : holder[u] = op}
Unlocked(op) == [u \in Accounts |-> IF u \in Held(op) THEN Nobody ELSE holder[u]]
With(op, u, profile) ==
    [copy EXCEPT ![op] = [v \in DOMAIN @ \cup {u} |-> IF v = u THEN profile ELSE @[v]]]

Begin(op) ==
    /\ pc[op] = "idle"
    /\ pc' = [pc EXCEPT ![op] = "locking"]
    /\ UNCHANGED <<stored, holder, copy, shown>>

\* Mutant: The locks are taken in the order of a map, not in the order of the UINs.
LocksInAnyOrder(op) == Touches[op] \ Held(op)

\* The account locked next: the operation's UINs are sorted.
NextLocks(op) == {Least(Touches[op] \ Held(op))}

\* A lock belongs to one operation at a time.
Free(u) == holder[u] = Nobody

Lock(op) ==
    /\ pc[op] = "locking" /\ Held(op) # Touches[op]
    /\ \E u \in NextLocks(op) : Free(u) /\ holder' = [holder EXCEPT ![u] = op]
    /\ UNCHANGED <<stored, pc, copy, shown>>

Locked(op) ==
    /\ pc[op] = "locking" /\ Held(op) = Touches[op]
    /\ pc' = [pc EXCEPT ![op] =
                 IF Kind[op] = "transaction" THEN "committing" ELSE "loading"]
    /\ UNCHANGED <<stored, holder, copy, shown>>

\* Mutant: The profile that the caller passed on is used, not the stored one.
CurrentOfSession(u) == shown[u]

\* The profile an operation works on: the stored one, not the caller's.
Current(u) == stored[u]

Load(op) ==
    /\ pc[op] = "loading"
    /\ LET u == Least(Touches[op] \ DOMAIN copy[op]) IN
       /\ Affords(op, Current(u))
       /\ copy' = With(op, u, After(op, Current(u)))
       /\ pc' = [pc EXCEPT ![op] = IF DOMAIN copy'[op] = Touches[op]
                                   THEN "committing" ELSE @]
    /\ UNCHANGED <<stored, holder, shown>>

\* Mutant: The profiles are saved one after the other, not in one transaction.
SaveOneByOne(op) ==
    /\ pc[op] = "committing" /\ Kind[op] # "transaction"
    /\ \E u \in Touches[op] :
       /\ op \notin stored[u].applied
       /\ stored' = [stored EXCEPT ![u] = copy[op][u]]
       /\ pc' = [pc EXCEPT ![op] =
             IF \E v \in Touches[op] \ {u} : op \notin stored[v].applied THEN @
             ELSE IF Kind[op] = "settlement" THEN "returning" ELSE "projecting"]
    /\ UNCHANGED <<holder, copy, shown>>

\* One transaction writes every profile an operation has computed.
Save(op) ==
    /\ pc[op] = "committing" /\ Kind[op] # "transaction"
    /\ stored' = [u \in Accounts |->
          IF u \in Touches[op] THEN copy[op][u] ELSE stored[u]]
    /\ pc' = [pc EXCEPT ![op] = IF Kind[op] = "settlement"
                                THEN "returning" ELSE "projecting"]
    /\ UNCHANGED <<holder, copy, shown>>

\* Mutant: A transaction does not check what the account has.
TransactUnchecked(op) ==
    /\ pc[op] = "committing" /\ Kind[op] = "transaction"
    /\ stored' = [u \in Accounts |->
          IF u \in Touches[op] THEN After(op, stored[u]) ELSE stored[u]]
    /\ pc' = [pc EXCEPT ![op] = "projecting"]
    /\ UNCHANGED <<holder, copy, shown>>

Transact(op) ==
    /\ pc[op] = "committing" /\ Kind[op] = "transaction"
    /\ \A u \in Touches[op] : Affords(op, stored[u])
    /\ stored' = [u \in Accounts |->
          IF u \in Touches[op] THEN After(op, stored[u]) ELSE stored[u]]
    /\ pc' = [pc EXCEPT ![op] = "projecting"]
    /\ UNCHANGED <<holder, copy, shown>>

\* What a transaction has changed is loaded; the equipment is projected.
Project(op) ==
    /\ pc[op] = "projecting"
    /\ copy' = [copy EXCEPT ![op] = [u \in Touches[op] |->
                   IF Kind[op] = "transaction" THEN stored[u] ELSE @[u]]]
    /\ pc' = [pc EXCEPT ![op] = "returning"]
    /\ UNCHANGED <<stored, holder, shown>>

\* Mutant: The computed profiles are shown although they could not be saved.
FailShown(op) ==
    /\ pc[op] \in {"loading", "committing", "projecting"}
    /\ pc' = [pc EXCEPT ![op] = IF copy[op] = <<>> THEN "failed" ELSE "showing"]
    /\ holder' = Unlocked(op)
    /\ UNCHANGED <<stored, copy, shown>>

\* A check or a call of the store fails: the locks go, and the caller hears of
\* an error, even when the operation has been committed.
Fail(op) ==
    /\ pc[op] \in {"loading", "committing", "projecting"}
    /\ pc' = [pc EXCEPT ![op] = "failed"]
    /\ holder' = Unlocked(op)
    /\ UNCHANGED <<stored, copy, shown>>

Return(op) ==
    /\ pc[op] = "returning"
    /\ pc' = [pc EXCEPT ![op] = "showing"]
    /\ holder' = Unlocked(op)
    /\ UNCHANGED <<stored, copy, shown>>

\* The sessions of the accounts replace their profiles, one after the other,
\* when the locks are gone.
Show(op) ==
    /\ pc[op] = "showing"
    /\ \E u \in DOMAIN copy[op] :
       /\ shown' = [shown EXCEPT ![u] = copy[op][u]]
       /\ copy' = [copy EXCEPT ![op] = [v \in DOMAIN @ \ {u} |-> @[v]]]
       /\ pc' = [pc EXCEPT ![op] = IF DOMAIN copy[op] = {u} THEN "done" ELSE @]
    /\ UNCHANGED <<stored, holder>>

Step(op) ==
    \/ Lock(op) \/ Locked(op) \/ Load(op) \/ Save(op) \/ Transact(op)
    \/ Project(op) \/ Fail(op) \/ Return(op) \/ Show(op)

Next == \E op \in Operations : Begin(op) \/ Step(op)

\* A call that was begun is run on by its goroutine, a mutex is handed to the
\* goroutines that wait for it, and the database answers.
Fairness == \A op \in Operations : WF_vars(Step(op))

Spec == Init /\ [][Next]_vars /\ Fairness
-----------------------------------------------------------------------------
\* Every variable is in its domain; nobody has less than nothing.
TypeOK ==
    /\ stored \in [Accounts -> Profiles]
    /\ holder \in [Accounts -> Operations \cup {Nobody}]
    /\ pc \in [Operations -> {"idle", "locking", "loading", "committing",
                  "projecting", "returning", "showing", "done", "failed"}]
    /\ \A op \in Operations :
          DOMAIN copy[op] \subseteq Touches[op] /\ \A u \in DOMAIN copy[op] : copy[op][u] \in Profiles
    /\ shown \in [Accounts -> Profiles]

(* A caller is told the truth: an operation that answers is in the profile of
   every account it names, and a settlement that reports an error, which the
   room then pays nobody for, is in none. (A rewrite or a transaction may have
   been committed before the error: the profile could not be read again.) *)
AnswersAreTrue ==
    \A op \in Operations :
       LET in == {u \in Touches[op] : op \in stored[u].applied} IN
       /\ pc[op] \in {"showing", "done"} => in = Touches[op]
       /\ (pc[op] = "failed" /\ Kind[op] = "settlement") => in = {}

(* A session may show an old profile, since it is replaced after the locks are
   gone, but never a reward, a purchase or a debit that was not stored. *)
ShowsOnlyStored ==
    \A u \in Accounts : shown[u].applied \subseteq stored[u].applied

(* Every operation that began comes to an end: operations on several accounts
   never wait for each other in a circle. *)
EveryOperationEnds ==
    \A op \in Operations : pc[op] # "idle" ~> pc[op] \in {"done", "failed"}
=============================================================================
