------------------------------- MODULE Wallet -------------------------------
(***************************************************************************)
(* The money-movement request paths: FundWallet, SwapFunds and            *)
(* TransferFunds of internals/service/wallet_service.go, each guarded by  *)
(* the idempotency lock of internals/pkg/redis.go and completed by the    *)
(* repository transaction of internals/repository/wallet_repo.go.         *)
(*                                                                         *)
(* Every request in Reqs is one HTTP call handled on its own goroutine;   *)
(* requests interleave at every store or Redis round trip.  A request's   *)
(* operation and arguments are fixed in Init (the handler has already     *)
(* decoded and validated them: amount > 0, Idempotency-Key present).      *)
(*                                                                         *)
(*   locks      the keys "idemp:<key>" present in Redis.  SetNX tests    *)
(*              presence only, so the value ("processing"/"completed")   *)
(*              and the TTL are abstracted to presence; a TTL running out *)
(*              is the action Expire, possible at any time.               *)
(*   leaked     history, for NoOrphanLock only: the keys whose release    *)
(*              Delete failed (its error is ignored) and that have not    *)
(*              since expired or been taken again                         *)
(*   req[r]     the request's arguments, its program counter and result. *)
(*                                                                         *)
(* The cache deletions at the end of each path touch only the cache, which *)
(* no guard here reads; they are modelled in the Cache module.            *)
(***************************************************************************)
EXTENDS LedgerStore

CONSTANTS
    Reqs,           \* concurrent HTTP requests
    NoAccount,      \* model value: an account number no wallet has
    RedisFaults     \* TRUE: a Redis command may fail with an error

ASSUME RedisFaults \in BOOLEAN

VARIABLES locks, leaked, req

lockVars == <<locks, leaked>>
vars == <<asset, log, locks, leaked, req>>

PCs     == {"lock", "rate", "precheck", "commit", "done"}
Results == {"none", "ok", "already", "error"}

(* The requests the three handlers can pass on, after validation. *)
FundArgs ==
    [op : {"fund"}, user : Users, key : Keys, cur : Currencies,
     amt : Amounts, to : {NoAccount}, cur2 : {"NGN"}, amt2 : {0}]
SwapArgs ==
    {a \in [op : {"swap"}, user : Users, key : Keys, cur : Currencies,
            amt : Amounts, to : {NoAccount}, cur2 : Currencies, amt2 : Amounts] :
        a.cur = a.cur2 => a.amt2 = a.amt}      \* fetchExchangeRate returns 1.0
TransferArgs ==
    [op : {"transfer"}, user : Users, key : Keys, cur : Currencies,
     amt : Amounts, to : Users \cup {NoAccount}, cur2 : {"NGN"}, amt2 : {0}]
Args == FundArgs \cup SwapArgs \cup TransferArgs

TypeOK ==
    /\ asset \in [Users -> [Currencies -> Int \cup {NoAsset}]]
    /\ DOMAIN log \subseteq Refs
    /\ locks \subseteq Keys /\ leaked \subseteq Keys
    /\ req \in [Reqs -> [args : Args, pc : PCs, res : Results]]

Init ==
    /\ StoreInit
    /\ locks = {} /\ leaked = {}
    /\ req \in [Reqs -> [args : Args, pc : {"lock"}, res : {"none"}]]

-----------------------------------------------------------------------------
(* Helpers for a request's step. *)
A(r) == req[r].args
Goto(r, pc) == req' = [req EXCEPT ![r].pc = pc]
Finish(r, res) == req' = [req EXCEPT ![r].pc = "done", ![r].res = res]
(* _ = s.redis.Delete(ctx, "idemp:"+reference): with RedisFaults the DEL *)
(* may fail, its error ignored, and the key stays until its TTL.          *)
Release(r) ==
    \/ locks' = locks \ {A(r).key} /\ leaked' = leaked \ {A(r).key}
    \/ RedisFaults /\ UNCHANGED locks /\ leaked' = leaked \cup {A(r).key}
(* Fault: the completion marker written under the wrong key. *)
MarkCompletedWrongKey(r) == locks' = locks \cup {r} /\ UNCHANGED leaked
(* _ = s.redis.Set(ctx, "idemp:"+reference, "completed", 24*time.Hour):   *)
(* SET recreates the key even if its TTL ran out meanwhile.               *)
MarkCompleted(r) == locks' = locks \cup {A(r).key} /\ UNCHANGED leaked

(* TryLockIdempotencyKey: SETNX "idemp:<key>" "processing" 5m.  The       *)
(* services ignore its error: a Redis failure reads as locked = false.    *)
TryLock(r) ==
    /\ req[r].pc = "lock"
    /\ \/ /\ A(r).key \notin locks
          /\ locks' = locks \cup {A(r).key} /\ leaked' = leaked \ {A(r).key}
          /\ Goto(r, IF A(r).op = "swap" THEN "rate" ELSE "commit")
       \/ /\ A(r).key \in locks
          /\ Finish(r, "already") /\ UNCHANGED lockVars
       \/ /\ RedisFaults                              \* SETNX errored
          /\ Finish(r, "already") /\ UNCHANGED lockVars
    /\ UNCHANGED storeVars

(* A Redis TTL runs out. *)
Expire(k) ==
    /\ k \in locks
    /\ locks' = locks \ {k} /\ leaked' = leaked \ {k}
    /\ UNCHANGED <<asset, log, req>>

-----------------------------------------------------------------------------
(* Fault: CreditWallet without the unique index on reference. *)
FundCommitNoUnique(r) ==
    LET u == A(r).user  c == A(r).cur  amt == A(r).amt  k == A(r).key IN
    /\ req[r].pc = "commit" /\ A(r).op = "fund"
    /\ \/ /\ ~HasAsset(u, c)
          /\ Release(r) /\ Finish(r, "error") /\ UNCHANGED storeVars
       \/ /\ HasAsset(u, c)
          /\ Release(r) /\ Finish(r, "error") /\ UNCHANGED storeVars
       \/ /\ HasAsset(u, c)
          /\ CreditTx(u, c, amt, <<k, "">>, "deposit")
          /\ MarkCompleted(r) /\ Finish(r, "ok")

(* FundWallet after the lock: GetAssetByCurrency, then CreditWallet.  The *)
(* read only tests that the asset row exists, and rows are never deleted, *)
(* so the read and the commit are one step without losing behaviours.     *)
FundCommit(r) ==
    LET u == A(r).user  c == A(r).cur  amt == A(r).amt  k == A(r).key IN
    /\ req[r].pc = "commit" /\ A(r).op = "fund"
    /\ \/ /\ ~HasAsset(u, c)                            \* err from the read
          /\ Release(r) /\ Finish(r, "error") /\ UNCHANGED storeVars
       \/ /\ HasAsset(u, c) /\ Used(<<k, "">>)          \* unique constraint
          /\ Finish(r, "already") /\ UNCHANGED <<asset, log, lockVars>>
       \/ /\ HasAsset(u, c) /\ ~Used(<<k, "">>)         \* store failure
          /\ Release(r) /\ Finish(r, "error") /\ UNCHANGED storeVars
       \/ /\ HasAsset(u, c) /\ ~Used(<<k, "">>)
          /\ CreditTx(u, c, amt, <<k, "">>, "deposit")
          /\ MarkCompleted(r) /\ Finish(r, "ok")

(* SwapFunds: fetchExchangeRate, an HTTP call that may fail unless the    *)
(* two currencies are equal.                                               *)
SwapRate(r) ==
    /\ req[r].pc = "rate"
    /\ \/ Goto(r, "precheck") /\ UNCHANGED lockVars
       \/ /\ A(r).cur # A(r).cur2
          /\ Release(r) /\ Finish(r, "error")
    /\ UNCHANGED storeVars

(* Fault: the pre-check failure returned without releasing the lock. *)
SwapPrecheckKeepsLock(r) ==
    LET u == A(r).user  c == A(r).cur IN
    /\ req[r].pc = "precheck"
    /\ IF HasAsset(u, c) /\ asset[u][c] >= A(r).amt
       THEN Goto(r, "commit") /\ UNCHANGED lockVars
       ELSE Finish(r, "error") /\ UNCHANGED lockVars
    /\ UNCHANGED storeVars

(* repository SwapFunds, first half: GetAssetByCurrency and the balance   *)
(* pre-check, a read whose result may be stale by the commit.             *)
SwapPrecheck(r) ==
    LET u == A(r).user  c == A(r).cur IN
    /\ req[r].pc = "precheck"
    /\ IF HasAsset(u, c) /\ asset[u][c] >= A(r).amt
       THEN Goto(r, "commit") /\ UNCHANGED lockVars
       ELSE Release(r) /\ Finish(r, "error")
    /\ UNCHANGED storeVars

(* repository SwapFunds, second half: the four-statement transaction.     *)
SwapCommit(r) ==
    LET a == A(r)  legs == {<<a.key, "OUT">>, <<a.key, "IN">>} IN
    /\ req[r].pc = "commit" /\ a.op = "swap"
    /\ \/ /\ DebitViolatesCheck(a.user, a.cur, a.amt)   \* "race condition"
          /\ Release(r) /\ Finish(r, "error") /\ UNCHANGED storeVars
       \/ /\ ~DebitViolatesCheck(a.user, a.cur, a.amt) /\ AnyUsed(legs)
          /\ Finish(r, "already") /\ UNCHANGED <<asset, log, lockVars>>
       \/ /\ ~DebitViolatesCheck(a.user, a.cur, a.amt) /\ ~AnyUsed(legs)
          /\ Release(r) /\ Finish(r, "error") /\ UNCHANGED storeVars
       \/ /\ ~DebitViolatesCheck(a.user, a.cur, a.amt) /\ ~AnyUsed(legs)
          /\ SwapTx(a.user, a.cur, a.cur2, a.amt, a.amt2, a.key)
          /\ MarkCompleted(r) /\ Finish(r, "ok")

(* Fault: the self-transfer check dropped. *)
TransferCommitAllowsSelf(r) ==
    LET a == A(r)  legs == {<<a.key, "DEBIT">>, <<a.key, "CREDIT">>} IN
    /\ req[r].pc = "commit" /\ a.op = "transfer"
    /\ \/ /\ a.to = NoAccount \/ ~HasAsset(a.user, a.cur)
          /\ Release(r) /\ Finish(r, "error") /\ UNCHANGED storeVars
       \/ /\ a.to # NoAccount /\ HasAsset(a.user, a.cur)
          /\ ~DebitViolatesCheck(a.user, a.cur, a.amt) /\ ~AnyUsed(legs)
          /\ TransferTx(a.user, a.to, a.cur, a.amt, a.key)
          /\ MarkCompleted(r) /\ Finish(r, "ok")

(* TransferFunds after the lock: the service resolves sender and          *)
(* receiver and refuses a self transfer, the repository reads the         *)
(* sender's asset (existence only, no balance pre-check) and commits the *)
(* four-statement transaction.  The reads are of rows never deleted, so   *)
(* they are one step with the commit.                                     *)
TransferCommit(r) ==
    LET a == A(r)  legs == {<<a.key, "DEBIT">>, <<a.key, "CREDIT">>} IN
    /\ req[r].pc = "commit" /\ a.op = "transfer"
    /\ \/ /\ a.to \in {NoAccount, a.user} \/ ~HasAsset(a.user, a.cur)
          /\ Release(r) /\ Finish(r, "error") /\ UNCHANGED storeVars
       \/ /\ a.to \notin {NoAccount, a.user} /\ HasAsset(a.user, a.cur)
          /\ \/ /\ DebitViolatesCheck(a.user, a.cur, a.amt)
                /\ Release(r) /\ Finish(r, "error") /\ UNCHANGED storeVars
             \/ /\ ~DebitViolatesCheck(a.user, a.cur, a.amt) /\ AnyUsed(legs)
                /\ Finish(r, "already") /\ UNCHANGED <<asset, log, lockVars>>
             \/ /\ ~DebitViolatesCheck(a.user, a.cur, a.amt) /\ ~AnyUsed(legs)
                /\ Release(r) /\ Finish(r, "error") /\ UNCHANGED storeVars
             \/ /\ ~DebitViolatesCheck(a.user, a.cur, a.amt) /\ ~AnyUsed(legs)
                /\ TransferTx(a.user, a.to, a.cur, a.amt, a.key)
                /\ MarkCompleted(r) /\ Finish(r, "ok")

-----------------------------------------------------------------------------
Next ==
    \/ \E r \in Reqs :
        \/ TryLock(r)
        \/ FundCommit(r)
        \/ SwapRate(r)
        \/ SwapPrecheck(r)
        \/ SwapCommit(r)
        \/ TransferCommit(r)
    \/ \E k \in Keys : Expire(k)

Spec == Init /\ [][Next]_vars

-----------------------------------------------------------------------------
(* Properties *)

InFlight(k) == \E r \in Reqs : A(r).key = k /\ req[r].pc \notin {"lock", "done"}
Applied(k)  == \E leg \in Legs : Used(<<k, leg>>)

(* A failed request must not leave its idempotency lock behind (spec 4.2: *)
(* the caller releases the lock on failure so that retries are possible): *)
(* a present lock belongs to a request still in flight, to a key whose    *)
(* operation was applied, or to a key whose release DEL failed (the       *)
(* ignored Delete errors of wallet_service.go, which only the 5-minute    *)
(* TTL ends).  An error path that returns without its Delete breaks it.  *)
NoOrphanLock ==
    \A k \in locks : InFlight(k) \/ Applied(k) \/ k \in leaked

(* The request paths implement the abstract ledger: lock handling,        *)
(* pre-checks and failed commits are stuttering steps, each committed     *)
(* transaction is one atomic abstract operation.                          *)
Abstract == INSTANCE LedgerAbstract
    WITH asset <- asset, log <- log, GwRefs <- {}
AbstractSpec == Abstract!Spec

(* A request answered "already processed" (reported to the client as      *)
(* success, wallet_handler.go and transfer_handler.go) refers to an       *)
(* operation that was applied: once every request has been answered, each *)
(* key some request was told "already processed" for has been applied.     *)
AlreadyMeansApplied ==
    (\A r \in Reqs : req[r].pc = "done") =>
        \A r \in Reqs : req[r].res = "already" => Applied(A(r).key)

=============================================================================
