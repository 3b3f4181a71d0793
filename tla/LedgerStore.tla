---------------------------- MODULE LedgerStore ----------------------------
(***************************************************************************)
(* The ledger tables of the transactional store (WalletAsset and          *)
(* Transaction, prisma/schema) and the multi-statement transactions that  *)
(* internals/repository/wallet_repo.go submits with                        *)
(* r.client.Prisma.Transaction(...).Exec(ctx).                            *)
(*                                                                         *)
(*   asset[u][c]  the balance of user u's WalletAsset row in currency c,  *)
(*                or NoAsset while that row does not exist (a wallet is   *)
(*                identified with its unique owner).                      *)
(*   log          the Transaction table as a function from reference to   *)
(*                row; its domain is the unique index on reference.       *)
(*                                                                         *)
(* A reference is a pair <<key, leg>>: the caller's key and the suffix     *)
(* the repository appends ("" for single-row operations, "OUT"/"IN" for   *)
(* swap legs, "DEBIT"/"CREDIT" for transfer legs).                        *)
(*                                                                         *)
(* The store enforces two constraints at commit: the unique index on      *)
(* Transaction.reference and the non_negative_balance check on            *)
(* WalletAsset.balance.  A transaction that would break either commits    *)
(* nothing.  Amounts are whole units: every float the code handles is a   *)
(* small natural here, which the properties cannot tell apart.            *)
(***************************************************************************)
EXTENDS Integers, FiniteSets, FiniteSetsExt, TLC

CONSTANTS
    Users,          \* users; each owns exactly one wallet
    Currencies,     \* currency codes, "NGN" among them
    Keys,           \* idempotency keys / provider references
    Amounts,        \* positive amounts a request may carry
    NoAsset         \* model value: no WalletAsset row for (wallet, currency)

ASSUME "NGN" \in Currencies /\ Amounts \subseteq Nat \ {0}

VARIABLES asset, log

storeVars == <<asset, log>>

Legs     == {"", "OUT", "IN", "DEBIT", "CREDIT"}
Refs     == Keys \X Legs
TxTypes  == {"deposit", "withdrawal", "transfer", "swap"}
Statuses == {"pending", "success", "failed"}
(* The empty GatewayRef of rows no gateway transfer belongs to. *)
NoGw == << >>

Row(u, c, amt, type, status, gw) ==
    [wallet |-> u, currency |-> c, amount |-> amt,
     type |-> type, status |-> status, gw |-> gw]

HasAsset(u, c) == asset[u][c] # NoAsset
Balance(u, c)  == IF HasAsset(u, c) THEN asset[u][c] ELSE 0
Used(ref)      == ref \in DOMAIN log

(* CreateUserWithWallet: every wallet starts with an "NGN" asset of the   *)
(* column's default balance 0; the Transaction table starts empty.        *)
StoreInit ==
    /\ asset = [u \in Users |-> [c \in Currencies |->
                    IF c = "NGN" THEN 0 ELSE NoAsset]]
    /\ log = [ref \in {} |-> Row("none", "none", 0, "none", "none", NoGw)]

(* WalletAsset.UpsertOne(...).Create(Balance.Set(amt))                    *)
(*                      .Update(Balance.Increment(amt))                   *)
Upserted(a, u, c, amt) ==
    [a EXCEPT ![u][c] = IF @ = NoAsset THEN amt ELSE @ + amt]

(* WalletAsset.FindUnique(id).Update(Balance.Decrement(amt)): the row is  *)
(* the one the repository read earlier, so it exists.                     *)
Decremented(a, u, c, amt) == [a EXCEPT ![u][c] = @ - amt]

(* The non_negative_balance check constraint, evaluated by the store on   *)
(* the decrement statement that opens every debiting transaction.         *)
DebitViolatesCheck(u, c, amt) == asset[u][c] - amt < 0

(* The unique index on Transaction.reference. *)
AnyUsed(refs) == \E ref \in refs : Used(ref)

(* Appending rows, given as a function from new references to rows. *)
Appended(l, rows) == l @@ rows

(* The committing half of CreditWallet (opTx, opAsset), also the          *)
(* committing half of CreditWalletByEmail (opAsset, opLog).               *)
CreditTx(u, c, amt, ref, type) ==
    /\ asset' = Upserted(asset, u, c, amt)
    /\ log' = Appended(log, ref :> Row(u, c, amt, type, "success", NoGw))

(* The committing half of SwapFunds: opDebit, opCredit, opLogOut, opLogIn *)
SwapTx(u, from, to, amtIn, amtOut, k) ==
    /\ asset' = Upserted(Decremented(asset, u, from, amtIn), u, to, amtOut)
    /\ log' = Appended(log, [ref \in {<<k, "OUT">>, <<k, "IN">>} |->
                IF ref[2] = "OUT"
                  THEN Row(u, from, amtIn, "swap", "success", NoGw)
                  ELSE Row(u, to, amtOut, "swap", "success", NoGw)])

(* The committing half of TransferFunds: opDebit, opCredit, opLogS, opLogR *)
TransferTx(u, v, c, amt, k) ==
    /\ asset' = Upserted(Decremented(asset, u, c, amt), v, c, amt)
    /\ log' = Appended(log, [ref \in {<<k, "DEBIT">>, <<k, "CREDIT">>} |->
                IF ref[2] = "DEBIT"
                  THEN Row(u, c, amt, "transfer", "success", NoGw)
                  ELSE Row(v, c, amt, "transfer", "success", NoGw)])

(* The signed effect a committed row has on its asset's balance: legs     *)
(* "OUT" and "DEBIT" and live withdrawals take money out, a withdrawal    *)
(* marked failed has been refunded, everything else puts money in.        *)
Effect(ref) ==
    LET t == log[ref] IN
    CASE t.type = "withdrawal"     -> IF t.status = "failed" THEN 0 ELSE -t.amount
      [] ref[2] \in {"OUT", "DEBIT"} -> -t.amount
      [] OTHER                       -> t.amount

Net(u, c) ==
    MapThenSumSet(Effect,
        {ref \in DOMAIN log : log[ref].wallet = u /\ log[ref].currency = c})

-----------------------------------------------------------------------------
(* Ledger invariants, checked by the modules that drive the store. *)

(* The ledger balances: every asset's balance equals the signed sum of    *)
(* the Transaction rows of that wallet and currency.  A debit without its *)
(* credit leg, a row without its balance change, or an operation applied  *)
(* twice under one reference (a duplicate that slipped past an expired    *)
(* or stolen idempotency lock, a webhook racing VerifyAndCredit), or a    *)
(* refund whose failed marker is later overwritten breaks it.             *)
LedgerBalanced ==
    \A u \in Users, c \in Currencies : Balance(u, c) = Net(u, c)

=============================================================================
