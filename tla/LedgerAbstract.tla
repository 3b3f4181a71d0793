--------------------------- MODULE LedgerAbstract ---------------------------
(***************************************************************************)
(* What the ledger promises its callers (spec.md 4.1 and 8): every money  *)
(* movement is one atomic step that changes the balances and appends its  *)
(* log rows together, happens only if its references are fresh and the   *)
(* debited asset exists and covers the amount.  There are no requests,    *)
(* locks, pre-checks or failures here: those of the implementation must   *)
(* be invisible (stuttering) at this level.                                *)
(*                                                                         *)
(* A withdrawal is three abstract steps: the debit with its pending row   *)
(* naming the gateway transfer, then at most one settlement of that row:  *)
(* confirmed (pending -> success) or refunded (the amount returned and    *)
(* the row failed).  A failed row is final.                               *)
(***************************************************************************)
EXTENDS LedgerStore

CONSTANT GwRefs     \* the gateway transfer codes a withdrawal row may carry

Init == StoreInit

Credit(u, c, amt, k) ==
    /\ ~Used(<<k, "">>)
    /\ CreditTx(u, c, amt, <<k, "">>, "deposit")

Swap(u, from, to, amtIn, amtOut, k) ==
    /\ HasAsset(u, from) /\ asset[u][from] >= amtIn
    /\ ~AnyUsed({<<k, "OUT">>, <<k, "IN">>})
    /\ SwapTx(u, from, to, amtIn, amtOut, k)

Transfer(u, v, c, amt, k) ==
    /\ u # v
    /\ HasAsset(u, c) /\ asset[u][c] >= amt
    /\ ~AnyUsed({<<k, "DEBIT">>, <<k, "CREDIT">>})
    /\ TransferTx(u, v, c, amt, k)

Withdraw(u, c, amt, k, gw) ==
    /\ HasAsset(u, c) /\ asset[u][c] >= amt
    /\ ~Used(<<k, "">>)
    /\ asset' = Decremented(asset, u, c, amt)
    /\ log' = Appended(log, <<k, "">> :> Row(u, c, amt, "withdrawal", "pending", gw))

IsWithdrawal(ref) == Used(ref) /\ log[ref].type = "withdrawal"

Confirm(ref) ==
    /\ IsWithdrawal(ref) /\ log[ref].status = "pending"
    /\ log' = [log EXCEPT ![ref].status = "success"]
    /\ UNCHANGED asset

Refund(ref) ==
    /\ IsWithdrawal(ref) /\ log[ref].status # "failed"
    /\ asset' = Upserted(asset, log[ref].wallet, log[ref].currency, log[ref].amount)
    /\ log' = [log EXCEPT ![ref].status = "failed"]

(* Every operation adds or settles a row, so a step that leaves the log  *)
(* alone is no operation; stated first, it settles an implementation's    *)
(* stuttering steps without enumerating the operations.                   *)
Next ==
    /\ log' # log
    /\ \/ \E ref \in DOMAIN log : Confirm(ref) \/ Refund(ref)
       \/ \E u \in Users, c \in Currencies, amt \in Amounts, k \in Keys :
           \/ Credit(u, c, amt, k)
           \/ \E to \in Currencies, out \in Amounts : Swap(u, c, to, amt, out, k)
           \/ \E v \in Users : Transfer(u, v, c, amt, k)
           \/ \E gw \in GwRefs : Withdraw(u, c, amt, k, gw)

Spec == Init /\ [][Next]_storeVars

=============================================================================
