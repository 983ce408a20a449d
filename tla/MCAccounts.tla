----------------------------- MODULE MCAccounts -----------------------------
(* Three accounts: a settlement of all, a debit of two of them, a purchase by
   one of these, and a prepared item used by the third. *)
EXTENDS Accounts, TLC

MCOperations == {"settle", "debit", "purchase", "prepared"}
MCTouches == [op \in MCOperations |->
    CASE op = "settle" -> {1, 2, 3}
      [] op = "debit" -> {2, 3}
      [] op = "purchase" -> {2}
      [] op = "prepared" -> {1}]
MCGain == "settle" :> 1 @@ [op \in MCOperations |-> 0 - 1]
MCKind == [op \in MCOperations |->
    CASE op = "settle" -> "settlement"
      [] op = "prepared" -> "rewrite"
      [] OTHER -> "transaction"]
=============================================================================
