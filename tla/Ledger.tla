------------------------------- MODULE Ledger -------------------------------
(* What the player service promises to its callers, whoever calls at the same
   time: an operation changes all the accounts it names at once, by what it is
   worth and at most once, and never takes what an account does not have. *)
EXTENDS Integers

CONSTANTS Accounts,    \* the UINs
          Operations,  \* the calls
          Touches,     \* the accounts of a call
          Gain,        \* what a call adds to each of them, or takes if negative
          Purse        \* what an account has at first

ASSUME LedgerAssumption ==
    /\ Accounts \subseteq Nat
    /\ Touches \in [Operations -> (SUBSET Accounts) \ {{}}]
    /\ Gain \in [Operations -> Int]
    /\ Purse \in Nat

VARIABLE stored   \* per account: the operations its profile shows, its balance

Fresh == [u \in Accounts |-> [applied |-> {}, coins |-> Purse]]

Affords(op, profile) == profile.coins + Gain[op] >= 0

\* A profile with one operation more.
After(op, profile) ==
    [applied |-> profile.applied \cup {op}, coins |-> profile.coins + Gain[op]]

TakeEffect(op) ==
    /\ \A u \in Touches[op] :
          op \notin stored[u].applied /\ Affords(op, stored[u])
    /\ stored' = [u \in Accounts |->
          IF u \in Touches[op] THEN After(op, stored[u]) ELSE stored[u]]

(* The promise: every change of the store is the whole effect of one operation
   on what the store holds, so no update is lost, doubled or split. *)
LedgerSpec == stored = Fresh /\ [][\E op \in Operations : TakeEffect(op)]_stored
=============================================================================
