------------------------------ MODULE Pipeline ------------------------------
(***************************************************************************)
(* The provider-event side of the service: Paystack deposits reaching the *)
(* ledger through the webhook, the Redis queue and the worker (or through  *)
(* the VerifyPaymentHandler), and withdrawals, which pay out through the   *)
(* gateway and are confirmed or refunded by later webhooks.                *)
(*                                                                         *)
(*   owner[k]     the user whose e-mail paid charge k at the gateway      *)
(*   payouts      gateway transfers: <<w, i>> is the i-th InitiateTransfer *)
(*                of withdrawal request w (1: WithdrawalHandler,           *)
(*                2: WalletService.WithdrawFunds); its transfer code and   *)
(*                its data.reference are both <<w, i>>                     *)
(*   posted       events the gateway has posted at least once             *)
(*   reposts      how many further postings (duplicates, retries) so far  *)
(*   acked        events the webhook answered with 200                     *)
(*   locks        the idemp:<data.reference> keys held in Redis            *)
(*   queue, dlq   the payment_webhooks list and its :dead_letter list      *)
(*   held         the job the worker has popped, or NoJob                 *)
(*   wreq[w]      withdrawal request w: its user and where it is           *)
(***************************************************************************)
EXTENDS LedgerStore, Sequences

CONSTANTS
    Charges,        \* gateway charge references (deposits)
    Wds,            \* withdrawal requests; each also names its ledger row
    NoJob,          \* model value: the worker holds no job
    RedisFaults,    \* may Redis calls fail
    GatewayTimeouts,\* may InitiateTransfer fail after the gateway accepted
    DedupExpires,   \* may the 24h webhook dedup key expire
    MaxReposts,     \* how many postings beyond the first of each event
    MaxCrashes      \* how often the worker goroutine may die mid-job

ASSUME /\ Keys = Charges \cup Wds /\ Charges \cap Wds = {}
       /\ 1 \in Amounts
       /\ {RedisFaults, GatewayTimeouts, DedupExpires} \subseteq BOOLEAN
       /\ MaxReposts \in Nat /\ MaxCrashes \in Nat

VARIABLES owner, payouts, posted, reposts, acked, locks, queue, dlq, held,
          crashes, wreq

vars == <<asset, log, owner, payouts, posted, reposts, acked, locks, queue, dlq,
          held, crashes, wreq>>

(* maxRetries in pkg/redis.go *)
maxRetries == 3

(* Every amount a charge or withdrawal carries: one unit of NGN. *)
Amt == 1

(* data.amount of such a charge: the gateway counts in kobo. *)
ChargeKobo == Amt * 100

(* Fault: the event's amount credited as it arrives, in kobo. *)
ToMajorUnconverted(kobo) == kobo

(* actualAmount := Data.Amount / 100.0, in ProcessPaystackEvent and in    *)
(* VerifyAndCredit: kobo to naira.                                         *)
ToMajor(kobo) == kobo \div 100

Payouts     == Wds \X {1, 2}
PayoutState == {"pending", "success", "failed", "reversed"}
TransferEvs == {"transfer.success", "transfer.failed", "transfer.reversed"}
Events ==
    [type : {"charge.success"}, ref : Charges] \cup
    [type : TransferEvs, ref : Payouts]
Jobs == [ev : Events, retries : 0..maxRetries]
WdPCs == {"pin", "pay1", "recipient2", "pay2", "check", "commit", "done"}

(* The transfer events a transfer in state st has caused. *)
Outcome(st) ==
    CASE st = "success"  -> {"transfer.success"}
      [] st = "failed"   -> {"transfer.failed"}
      [] st = "reversed" -> {"transfer.success", "transfer.reversed"}
      [] OTHER           -> {}

(* The events the gateway has to post: every charge, and for each       *)
(* transfer the outcome it reached (a reversal follows a success).       *)
Sent ==
    [type : {"charge.success"}, ref : Charges] \cup
    UNION { { [type |-> t, ref |-> p] : t \in Outcome(payouts[p]) } :
            p \in DOMAIN payouts }

TypeOK ==
    /\ owner \in [Charges -> Users]
    /\ \E P \in SUBSET Payouts : payouts \in [P -> PayoutState]
    /\ posted \subseteq Events /\ reposts \in 0..MaxReposts
    /\ acked \subseteq Events
    /\ locks \subseteq (Charges \cup Payouts)
    /\ queue \in Seq(Jobs) /\ dlq \in Seq(Jobs)
    /\ held \in Jobs \cup {NoJob}
    /\ crashes \in 0..MaxCrashes
    /\ wreq \in [Wds -> [user : Users, pc : WdPCs]]
    /\ \A u \in Users, c \in Currencies :
            asset[u][c] \in Int \cup {NoAsset}

Init ==
    /\ StoreInit
    /\ owner \in [Charges -> Users]
    /\ payouts = [p \in {} |-> "pending"]
    /\ posted = {} /\ reposts = 0
    /\ acked = {} /\ locks = {}
    /\ queue = << >> /\ dlq = << >> /\ held = NoJob /\ crashes = 0
    /\ wreq \in [Wds -> [user : Users, pc : {"pin"}]]

-----------------------------------------------------------------------------
(*************************** withdrawal requests ***************************)

WdGoto(w, pc) == wreq' = [wreq EXCEPT ![w].pc = pc]

(* WithdrawalHandler: VerifyTransactionPin and CreateTransferRecipient;  *)
(* either failing answers an error and nothing has happened yet.         *)
WdStart(w) ==
    /\ wreq[w].pc = "pin"
    /\ \/ WdGoto(w, "pay1")
       \/ WdGoto(w, "done")
    /\ UNCHANGED <<asset, log, owner, payouts, posted, reposts, acked, locks,
                   queue, dlq, held, crashes>>

(* PaymentService.InitiateTransfer for the i-th payout of w, continuing   *)
(* at next.  The gateway either rejects it (error), accepts it (pending   *)
(* transfer, success), or accepts it while the call still fails (a        *)
(* timeout or an unreadable answer): the transfer exists, the caller      *)
(* sees an error and stops.                                               *)
Initiate(w, i, next) ==
    /\ \/ /\ WdGoto(w, "done")
          /\ UNCHANGED payouts
       \/ /\ payouts' = payouts @@ (<<w, i>> :> "pending")
          /\ WdGoto(w, next)
       \/ /\ GatewayTimeouts
          /\ payouts' = payouts @@ (<<w, i>> :> "pending")
          /\ WdGoto(w, "done")
    /\ UNCHANGED <<asset, log, owner, posted, reposts, acked, locks, queue, dlq,
                   held, crashes>>

(* WithdrawalHandler's own InitiateTransfer, under its own WDR- reference *)
WdPay1(w) == wreq[w].pc = "pay1" /\ Initiate(w, 1, "recipient2")

(* WithdrawFunds: CreateTransferRecipient again *)
WdRecipient(w) ==
    /\ wreq[w].pc = "recipient2"
    /\ \/ WdGoto(w, "pay2")
       \/ WdGoto(w, "done")
    /\ UNCHANGED <<asset, log, owner, payouts, posted, reposts, acked, locks,
                   queue, dlq, held, crashes>>

(* WithdrawFunds: InitiateTransfer under a second WDR- reference *)
WdPay2(w) == wreq[w].pc = "pay2" /\ Initiate(w, 2, "check")

(* DebitForWithdrawal: the asset read and balance pre-check, outside the *)
(* transaction; a missing asset or a short balance is an error.          *)
WdCheck(w) ==
    /\ wreq[w].pc = "check"
    /\ LET u == wreq[w].user IN
       IF HasAsset(u, "NGN") /\ asset[u]["NGN"] >= Amt
       THEN \/ WdGoto(w, "commit")
            \/ WdGoto(w, "done")        \* the read itself fails
       ELSE WdGoto(w, "done")
    /\ UNCHANGED <<asset, log, owner, payouts, posted, reposts, acked, locks,
                   queue, dlq, held, crashes>>

(* DebitForWithdrawal: decrement and a pending withdrawal row carrying    *)
(* the second transfer's code, in one transaction; then WithdrawFunds     *)
(* deletes the caches.                                                    *)
WdCommit(w) ==
    /\ wreq[w].pc = "commit"
    /\ LET u == wreq[w].user IN
       \/ /\ ~DebitViolatesCheck(u, "NGN", Amt)
          /\ asset' = Decremented(asset, u, "NGN", Amt)
          /\ log' = Appended(log, <<w, "">> :>
                       Row(u, "NGN", Amt, "withdrawal", "pending", <<w, 2>>))
       \/ UNCHANGED <<asset, log>>      \* constraint or store failure
    /\ WdGoto(w, "done")
    /\ UNCHANGED <<owner, payouts, posted, reposts, acked, locks, queue, dlq,
                   held, crashes>>

-----------------------------------------------------------------------------
(************************** the gateway (environment) **********************)

(* A pending transfer settles: paid out, or failed. *)
Settle(p) ==
    /\ p \in DOMAIN payouts /\ payouts[p] = "pending"
    /\ \E st \in {"success", "failed"} : payouts' = [payouts EXCEPT ![p] = st]
    /\ UNCHANGED <<asset, log, owner, posted, reposts, acked, locks, queue, dlq,
                   held, crashes, wreq>>

(* A paid-out transfer is reversed by the receiving bank. *)
Reverse(p) ==
    /\ p \in DOMAIN payouts /\ payouts[p] = "success"
    /\ payouts' = [payouts EXCEPT ![p] = "reversed"]
    /\ UNCHANGED <<asset, log, owner, posted, reposts, acked, locks, queue, dlq,
                   held, crashes, wreq>>

-----------------------------------------------------------------------------
(***************************** webhook handler *****************************)

(* PaystackWebhookHandler for one posting of event e (the signature is    *)
(* genuine).  TryLockIdempotencyKey on data.reference with a 24h TTL; a   *)
(* failed SETNX, and a Redis error read the same way, answer 200 without  *)
(* enqueueing.  Otherwise Enqueue: on success the key stays and the       *)
(* answer is 200; on failure the key is deleted and the answer is 500,    *)
(* so the gateway posts again.                                            *)
Webhook(e) ==
    /\ e \in Sent
    /\ \/ e \notin posted /\ posted' = posted \cup {e} /\ UNCHANGED reposts
       \/ e \in posted /\ reposts < MaxReposts /\ reposts' = reposts + 1
                       /\ UNCHANGED posted
    /\ \/ /\ e.ref \in locks \/ RedisFaults
          /\ acked' = acked \cup {e}
          /\ UNCHANGED <<locks, queue>>
       \/ /\ e.ref \notin locks
          /\ locks' = locks \cup {e.ref}
          /\ queue' = Append(queue, [ev |-> e, retries |-> 0])
          /\ acked' = acked \cup {e}
       \/ /\ e.ref \notin locks /\ RedisFaults
          /\ UNCHANGED <<locks, queue, acked>>
       \/ /\ e.ref \notin locks /\ RedisFaults   \* the Delete fails too
          /\ locks' = locks \cup {e.ref}
          /\ UNCHANGED <<queue, acked>>
    /\ UNCHANGED <<asset, log, owner, payouts, dlq, held,
                   crashes, wreq>>

(* The 24h TTL of a dedup key runs out. *)
DedupExpire(ref) ==
    /\ DedupExpires /\ ref \in locks
    /\ locks' = locks \ {ref}
    /\ UNCHANGED <<asset, log, owner, payouts, posted, reposts, acked, queue, dlq,
                   held, crashes, wreq>>

-----------------------------------------------------------------------------
(**************************** ledger operations ****************************)

(* Fault: the unique index on Transaction.reference is missing. *)
CreditWalletByEmailNoUnique(k, amt) ==
    CreditTx(owner[k], "NGN", amt, <<k, "">>, "deposit")

(* CreditWalletByEmail: upsert and a success deposit row in one           *)
(* transaction; a unique violation on the reference is returned as nil.   *)
CreditWalletByEmail(k, amt) ==
    IF Used(<<k, "">>)
    THEN UNCHANGED storeVars
    ELSE CreditTx(owner[k], "NGN", amt, <<k, "">>, "deposit")

(* UpdateTransactionStatus: every row carrying the transfer code gets the *)
(* status, whatever status it had.                                        *)
UpdateTransactionStatus(code, status) ==
    /\ log' = [ref \in DOMAIN log |->
                 IF log[ref].gw = code
                 THEN [log[ref] EXCEPT !.status = status] ELSE log[ref]]
    /\ UNCHANGED asset

(* RefundWithdrawal: the withdrawal row with the transfer code; an error  *)
(* of that lookup, no row, or one already failed is a nil no-op; else     *)
(* re-credit the asset and mark the row failed in one transaction.        *)
RefundWithdrawal(code) ==
    LET hits == {ref \in DOMAIN log : log[ref].gw = code
                                      /\ log[ref].type = "withdrawal"}
        ref  == CHOOSE x \in hits : TRUE
    IN  \/ UNCHANGED storeVars
        \/ /\ hits # {} /\ log[ref].status # "failed"
           /\ asset' = Upserted(asset, log[ref].wallet, log[ref].currency,
                                log[ref].amount)
           /\ log' = [log EXCEPT ![ref].status = "failed"]

(* ProcessPaystackEvent returning nil: the routing by event kind. *)
ProcessPaystackEvent(e) ==
    CASE e.type = "charge.success"   -> CreditWalletByEmail(e.ref, ToMajor(ChargeKobo))
      [] e.type = "transfer.success" -> UpdateTransactionStatus(e.ref, "success")
      [] OTHER                       -> RefundWithdrawal(e.ref)

-----------------------------------------------------------------------------
(********************************* worker **********************************)

(* StartWorker: BLPop takes the head job off the list. *)
Pop ==
    /\ held = NoJob /\ queue # << >>
    /\ held' = Head(queue) /\ queue' = Tail(queue)
    /\ UNCHANGED <<asset, log, owner, payouts, posted, reposts, acked, locks, dlq,
                   crashes, wreq>>

(* Faults: the retry count is compared with <= (one attempt too many),  *)
(* or never incremented.                                                  *)
HandleFailureOffByOne(j) ==
    LET j2 == [j EXCEPT !.retries = @ + 1] IN
    \/ /\ j2.retries <= maxRetries
       /\ queue' = Append(queue, j2) /\ UNCHANGED dlq
    \/ /\ j2.retries > maxRetries
       /\ dlq' = Append(dlq, j2) /\ UNCHANGED queue
    \/ /\ RedisFaults
       /\ UNCHANGED <<queue, dlq>>

HandleFailureNoCount(j) ==
    \/ /\ j.retries < maxRetries
       /\ queue' = Append(queue, j) /\ UNCHANGED dlq
    \/ /\ j.retries >= maxRetries
       /\ dlq' = Append(dlq, j) /\ UNCHANGED queue
    \/ /\ RedisFaults
       /\ UNCHANGED <<queue, dlq>>

(* handleFailure: count the attempt and RPush the job back, or to the     *)
(* dead-letter list once it reaches maxRetries; the RPush error is        *)
(* ignored, so a failing push drops the job.                              *)
HandleFailure(j) ==
    LET j2 == [j EXCEPT !.retries = @ + 1] IN
    \/ /\ j2.retries < maxRetries
       /\ queue' = Append(queue, j2) /\ UNCHANGED dlq
    \/ /\ j2.retries >= maxRetries
       /\ dlq' = Append(dlq, j2) /\ UNCHANGED queue
    \/ /\ RedisFaults
       /\ UNCHANGED <<queue, dlq>>

(* StartWorker: ProcessPaystackEvent on the held job; nil ends the job,   *)
(* an error (a store call failing) goes to handleFailure.                 *)
Process ==
    /\ held # NoJob
    /\ \/ /\ ProcessPaystackEvent(held.ev)
          /\ UNCHANGED <<queue, dlq>>
       \/ /\ UNCHANGED <<asset, log>>
          /\ HandleFailure(held)
    /\ held' = NoJob
    /\ UNCHANGED <<owner, payouts, posted, reposts, acked, locks, crashes, wreq>>

(* The worker goroutine dies between BLPop and the end of the job; the    *)
(* server starts a new one, and the popped job is gone.                   *)
Crash ==
    /\ held # NoJob /\ crashes < MaxCrashes
    /\ held' = NoJob /\ crashes' = crashes + 1
    /\ UNCHANGED <<asset, log, owner, payouts, posted, reposts, acked, locks,
                   queue, dlq, wreq>>

(* VerifyPaymentHandler -> VerifyAndCredit(k): the gateway verification   *)
(* succeeds or fails; on success CreditWalletByEmail, which may also fail *)
(* with a store error.                                                    *)
VerifyAndCredit(k) ==
    /\ \/ CreditWalletByEmail(k, ToMajor(ChargeKobo))
       \/ UNCHANGED storeVars
    /\ UNCHANGED <<owner, payouts, posted, reposts, acked, locks, queue, dlq, held,
                   crashes, wreq>>

-----------------------------------------------------------------------------
Next ==
    \/ \E w \in Wds : \/ WdStart(w) \/ WdPay1(w) \/ WdRecipient(w)
                      \/ WdPay2(w) \/ WdCheck(w) \/ WdCommit(w)
    \/ \E p \in Payouts : Settle(p) \/ Reverse(p)
    \/ \E e \in Events : Webhook(e)
    \/ \E ref \in Charges \cup Payouts : DedupExpire(ref)
    \/ Pop \/ Process \/ Crash
    \/ \E k \in Charges : VerifyAndCredit(k)

Spec == Init /\ [][Next]_vars

(* The worker goroutine loops forever on BLPop (server.go starts it with  *)
(* the server), and the gateway re-posts an event until it gets a 200.    *)
Fairness ==
    /\ WF_vars(Pop) /\ WF_vars(Process)
    /\ \A e \in Events : WF_vars(e \notin acked /\ Webhook(e))

LiveSpec == Spec /\ Fairness

-----------------------------------------------------------------------------
(* Properties *)

(* Deposits, withdrawals and their settlement implement the abstract      *)
(* ledger: queueing, locks, retries, crashes and gateway calls are        *)
(* stuttering; a credit of the converted amount, the withdrawal debit,     *)
(* and each status update or refund are single abstract steps, and a       *)
(* failed withdrawal row is never confirmed or refunded again.            *)
Abstract == INSTANCE LedgerAbstract
    WITH asset <- asset, log <- log, GwRefs <- {<<w, 2>> : w \in Wds}
AbstractSpec == Abstract!Spec

DeadLettered(e) == \E i \in DOMAIN dlq : dlq[i].ev = e
WdRow(w) == <<w, "">>

(* Spec 4.3: the queue delivers at least once with bounded retry: every *)
(* charge the gateway reports is eventually credited to its owner's      *)
(* wallet, or its job sits in the dead-letter list after maxRetries      *)
(* failures (PaystackWebhookHandler, StartWorker, handleFailure).         *)
ChargeEventuallySettled ==
    \A k \in Charges :
        <>(Used(<<k, "">>) \/ DeadLettered([type |-> "charge.success", ref |-> k]))

(* Money the gateway has paid out for withdrawal request w: transfers    *)
(* that succeeded and were not reversed.                                  *)
PaidOut(w) ==
    Cardinality({p \in DOMAIN payouts : p[1] = w /\ payouts[p] = "success"})

(* Money the ledger has taken for w: its row exists and was not refunded. *)
Debited(w) == Used(WdRow(w)) /\ log[WdRow(w)].status # "failed"

(* Nothing of w is in flight: the request has answered and no transfer  *)
(* it initiated is still pending at the gateway.                          *)
WdSettled(w) ==
    /\ wreq[w].pc = "done"
    /\ \A p \in DOMAIN payouts : p[1] = w => payouts[p] # "pending"

(* Gateway and ledger agree on w: what was paid out is what was debited, *)
(* and the row's status is the one its transfer's outcome calls for.      *)
Reconciled(w) ==
    /\ PaidOut(w) = IF Debited(w) THEN 1 ELSE 0
    /\ Used(WdRow(w)) =>
          log[WdRow(w)].status =
              IF payouts[<<w, 2>>] = "success" THEN "success" ELSE "failed"

(* Spec 2 and 4.3: a withdrawal is reconciled with the gateway: once its *)
(* request has answered and its transfers have settled, failed or been    *)
(* reversed, the ledger eventually agrees: one debit per payout, the row *)
(* success for a paid transfer and failed, with the amount refunded, for  *)
(* a failed or reversed one (WithdrawalHandler, WithdrawFunds, the        *)
(* transfer.* webhook, ProcessPaystackEvent, UpdateTransactionStatus,     *)
(* RefundWithdrawal).                                                     *)
WithdrawalReconciled ==
    \A w \in Wds : (WdSettled(w) /\ ~Reconciled(w)) ~> Reconciled(w)

=============================================================================
