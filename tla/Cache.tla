------------------------------- MODULE Cache -------------------------------
(***************************************************************************)
(* The read-through caches in Redis: wallet:<user> (GetWalletWithAssets,  *)
(* 5 minutes) and user_profile:<user> (GetUserByID, 30 minutes), against   *)
(* the mutations that change what they cache and the deletions those       *)
(* mutations issue.  The cached data is abstracted to a version: ver[k]    *)
(* counts the commits that changed the data behind cache key k.            *)
(*                                                                         *)
(* The exchange-rate snapshot of GetExchangeRatesHandler (the package     *)
(* variables cachedRates and cacheExpiryTime under ratesMutex) is one more *)
(* read-through key, Rates: its "store" is the rates API, whose rates     *)
(* change with no invalidation in this service; a fetch is the read, the  *)
(* assignment under the write lock is the Set, and the hour is its TTL.   *)
(*                                                                         *)
(* tx_history:<user> is not modelled: GetTransactionHistory Sets a JSON    *)
(* array of rows and Gets it back into a []byte, which cannot decode an    *)
(* array of objects (an empty or null array decodes, but the second       *)
(* Unmarshal of the empty bytes fails), so the entry is never served.      *)
(*                                                                         *)
(*   ver[k]     commits to the data behind k                               *)
(*   cache[k]   NoEntry, or the entry a reader Set: snap is the version it *)
(*              read from the store, setVer the version when it Set it,   *)
(*              missedDel whether a Delete of it failed (setVer and        *)
(*              missedDel are auxiliary, for the property), expires        *)
(*              whether it was Set with a TTL                              *)
(*   rd[r]      reader r: the key it reads, where it is, what it read      *)
(*   mut[m]     mutation m: its step list and how many steps are done      *)
(***************************************************************************)
EXTENDS Naturals, Sequences

CONSTANTS
    Users,
    Readers,        \* concurrent read requests
    Muts,           \* concurrent mutation requests
    MutKinds,       \* the code paths the mutations may take
    NoEntry,        \* model value: the key is not in Redis
    RedisFaults,    \* may a Redis command fail (its error is ignored)
    RatesUpdates    \* how often the upstream exchange rates change

ASSUME RedisFaults \in BOOLEAN /\ RatesUpdates \in Nat

VARIABLES ver, cache, rd, mut

vars == <<ver, cache, rd, mut>>

W(u) == <<"wallet", u>>
P(u) == <<"user_profile", u>>
StoreKeys == {W(u) : u \in Users} \cup {P(u) : u \in Users}
(* cachedRates with its cacheExpiryTime: one snapshot for all users. *)
Rates == <<"rates">>
CacheKeys == StoreKeys \cup {Rates}

Commit(ks) == [op |-> "commit", keys |-> ks]
Del(k)     == [op |-> "del", keys |-> {k}]

(* Fault: a fund path that invalidates before its transaction commits. *)
FundStepsDelFirst(u) == << Del(W(u)), Commit({W(u)}) >>

(* The cache-relevant steps of each mutating path, in code order. *)
FundSteps(u)        == << Commit({W(u)}), Del(W(u)) >>
SwapSteps(u)        == << Commit({W(u)}), Del(W(u)) >>
TransferSteps(u, v) == << Commit({W(u), W(v)}), Del(W(u)), Del(W(v)) >>
WithdrawSteps(u)    == << Commit({W(u)}), Del(W(u)) >>
VerifySteps(u)      == << Commit({W(u)}), Del(W(u)) >>
ChargeSteps(u)      == << Del(W(u)), Commit({W(u)}) >>
RefundSteps(u)      == << Commit({W(u)}) >>
PinSteps(u)         == << Del(P(u)), Commit({P(u)}) >>

Steps(kind, u, v) ==
    CASE kind = "fund"     -> FundSteps(u)
      [] kind = "swap"     -> SwapSteps(u)
      [] kind = "transfer" -> TransferSteps(u, v)
      [] kind = "withdraw" -> WithdrawSteps(u)
      [] kind = "verify"   -> VerifySteps(u)
      [] kind = "charge"   -> ChargeSteps(u)
      [] kind = "refund"   -> RefundSteps(u)
      [] kind = "pin"      -> PinSteps(u)

Kinds == {"fund", "swap", "transfer", "withdraw", "verify", "charge",
          "refund", "pin"}
ASSUME MutKinds \subseteq Kinds

Entries == [snap : Nat, setVer : Nat, missedDel : BOOLEAN, expires : BOOLEAN]

TypeOK ==
    /\ ver \in [CacheKeys -> Nat]
    /\ cache \in [CacheKeys -> Entries \cup {NoEntry}]
    /\ rd \in [Readers -> [key : CacheKeys, pc : {"get", "read", "set", "done"},
                           snap : Nat]]
    /\ \A m \in Muts : mut[m].pc \in 0..Len(mut[m].steps)

Init ==
    /\ ver = [k \in CacheKeys |-> 0]
    /\ cache = [k \in CacheKeys |-> NoEntry]
    /\ rd \in [Readers -> [key : CacheKeys, pc : {"get"}, snap : {0}]]
    /\ mut \in [Muts -> {[steps |-> Steps(kd, uv[1], uv[2]), pc |-> 0] :
                          kd \in MutKinds,
                          uv \in {p \in Users \X Users : p[1] # p[2]}}]

-----------------------------------------------------------------------------
(* Readers: GetWalletWithAssets, GetUserByID, GetExchangeRatesHandler *)

(* A hit returns the cached value and ends the request; a miss goes on to *)
(* the store. *)
HitOrMiss(r) ==
    rd' = [rd EXCEPT ![r].pc = IF cache[rd[r].key] # NoEntry THEN "done"
                                                          ELSE "read"]

(* redis.Get; with RedisFaults any Get error also falls through. *)
RedisGet(r) ==
    \/ HitOrMiss(r)
    \/ RedisFaults /\ rd' = [rd EXCEPT ![r].pc = "read"]

(* cachedRates != nil && time.Now().Before(cacheExpiryTime), under the   *)
(* read lock, which cannot fail. *)
RatesGet(r) == HitOrMiss(r)

ReadGet(r) ==
    /\ rd[r].pc = "get"
    /\ \/ rd[r].key \in StoreKeys /\ RedisGet(r)
       \/ rd[r].key = Rates /\ RatesGet(r)
    /\ UNCHANGED <<ver, cache, mut>>

(* The store read on a miss; an error ends the request.  For Rates it is *)
(* the GET of the rates API, ended by a request, transport or decode      *)
(* error alike. *)
ReadStore(r) ==
    /\ rd[r].pc = "read"
    /\ \/ rd' = [rd EXCEPT ![r].pc = "set", ![r].snap = ver[rd[r].key]]
       \/ rd' = [rd EXCEPT ![r].pc = "done"]
    /\ UNCHANGED <<ver, cache, mut>>

SetEntry(k, snap) ==
    [snap |-> snap, setVer |-> ver[k], missedDel |-> FALSE, expires |-> TRUE]

(* redis.Set of what was read, unconditionally; its error is ignored. *)
RedisSet(r) ==
    \/ cache' = [cache EXCEPT ![rd[r].key] = SetEntry(rd[r].key, rd[r].snap)]
    \/ RedisFaults /\ UNCHANGED cache

(* cachedRates = apiData.Rates and the expiry an hour from now, under the *)
(* write lock, whatever snapshot is there: a fetch that started earlier   *)
(* but answers later overwrites a newer one.  An answer that decodes      *)
(* without a rates field stores nil, which the next request treats as a  *)
(* miss. *)
RatesSet(r) ==
    \/ cache' = [cache EXCEPT ![Rates] = SetEntry(Rates, rd[r].snap)]
    \/ cache' = [cache EXCEPT ![Rates] = NoEntry]

ReadSet(r) ==
    /\ rd[r].pc = "set"
    /\ \/ rd[r].key \in StoreKeys /\ RedisSet(r)
       \/ rd[r].key = Rates /\ RatesSet(r)
    /\ rd' = [rd EXCEPT ![r].pc = "done"]
    /\ UNCHANGED <<ver, mut>>

(* The TTL of an entry runs out. *)
CacheExpire(k) ==
    /\ cache[k] # NoEntry
    /\ cache[k].expires
    /\ cache' = [cache EXCEPT ![k] = NoEntry]
    /\ UNCHANGED <<ver, rd, mut>>

(* The rates API publishes new rates; nothing in this service learns of *)
(* it until its snapshot expires.                                         *)
RatesPublish ==
    /\ ver[Rates] < RatesUpdates
    /\ ver' = [ver EXCEPT ![Rates] = @ + 1]
    /\ UNCHANGED <<cache, rd, mut>>

-----------------------------------------------------------------------------
(* Mutations *)

NextStep(m) == mut[m].steps[mut[m].pc + 1]
Advance(m)  == mut' = [mut EXCEPT ![m].pc = @ + 1]
Abort(m)    == mut' = [mut EXCEPT ![m].pc = Len(mut[m].steps)]

(* A commit step: the store transaction changes the data behind its keys *)
(* and the path goes on, or it fails and the path returns its error       *)
(* before any later step.                                                 *)
MutCommit(m) ==
    /\ mut[m].pc < Len(mut[m].steps)
    /\ NextStep(m).op = "commit"
    /\ \/ /\ ver' = [k \in CacheKeys |->
                      IF k \in NextStep(m).keys THEN ver[k] + 1 ELSE ver[k]]
          /\ Advance(m)
       \/ /\ UNCHANGED ver
          /\ Abort(m)
    /\ UNCHANGED <<cache, rd>>

(* A delete step: redis.Delete; with RedisFaults it may fail unnoticed. *)
MutDel(m) ==
    /\ mut[m].pc < Len(mut[m].steps)
    /\ NextStep(m).op = "del"
    /\ \/ cache' = [k \in CacheKeys |->
                       IF k \in NextStep(m).keys THEN NoEntry ELSE cache[k]]
       \/ /\ RedisFaults
          /\ cache' = [k \in CacheKeys |->
                         IF k \in NextStep(m).keys /\ cache[k] # NoEntry
                         THEN [cache[k] EXCEPT !.missedDel = TRUE]
                         ELSE cache[k]]
    /\ Advance(m)
    /\ UNCHANGED <<ver, rd>>

-----------------------------------------------------------------------------
Next ==
    \/ \E r \in Readers : ReadGet(r) \/ ReadStore(r) \/ ReadSet(r)
    \/ \E k \in CacheKeys : CacheExpire(k)
    \/ RatesPublish
    \/ \E m \in Muts : MutCommit(m) \/ MutDel(m)

Spec == Init /\ [][Next]_vars

(* Redis removes a key once its TTL has passed, whatever the requests do. *)
(* Requests need no fairness: a reader or mutation that stops midway only *)
(* leaves fewer entries behind.                                           *)
Fairness == \A k \in CacheKeys : WF_vars(CacheExpire(k))

LiveSpec == Spec /\ Fairness


-----------------------------------------------------------------------------
(* Properties *)

Stale(k) == cache[k] # NoEntry /\ cache[k].snap < ver[k]

(* Some mutation has committed a change to k and has yet to delete k. *)
DelPending(k) ==
    \E m \in Muts :
        \E i \in 1..mut[m].pc, j \in (mut[m].pc + 1)..Len(mut[m].steps) :
            /\ mut[m].steps[i].op = "commit" /\ k \in mut[m].steps[i].keys
            /\ mut[m].steps[j] = Del(k)

(* Spec 1 and 4: every mutation invalidates the cached views it changes. *)
(* A cached entry older than the store can then only be (a) one whose     *)
(* mutation has committed and not yet reached its Delete, or (b) one a    *)
(* reader Set after a commit it did not see (the read-then-Set window of  *)
(* GetWalletWithAssets and GetUserByID spanned a commit).  A stale entry  *)
(* that was current when Set and outlived its mutation, with no failed    *)
(* Delete of it (an ignored Redis error), means a Delete is missing or    *)
(* ran before the commit.  (Rates has no invalidation to miss: its       *)
(* upstream changes unseen, so only the next property speaks of it.)     *)
StaleOnlyByRace ==
    \A k \in StoreKeys :
        Stale(k) => \/ cache[k].snap < cache[k].setVer
                    \/ DelPending(k)
                    \/ cache[k].missedDel

=============================================================================
