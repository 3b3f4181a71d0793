------------------------------ MODULE RateLimit ------------------------------
(***************************************************************************)
(* The per-user rate limiter on the swap, transfer and withdrawal routes:  *)
(* Server.RateLimit (server.go) wraps AuthMiddleware.RateLimitHandler      *)
(* (middlewares/rate_limit.go), which calls RedisQueue.IsRateLimited       *)
(* (pkg/redis.go): INCR ratelimit:<user>, then, on the first hit of a      *)
(* window, a separate EXPIRE whose result is ignored; a count above the    *)
(* limit answers 429, a Redis error lets the request through.              *)
(*                                                                         *)
(* One authenticated user (the auth middleware runs first and puts the     *)
(* user id in the context) sends requests from a few concurrent clients;   *)
(* each client sends again once answered.  Counters of different users    *)
(* never interact.                                                        *)
(*                                                                         *)
(*   count    the value of ratelimit:<user>, 0 while the key is absent     *)
(*   ttl      whether that key carries an expiry                           *)
(*   req[r]   client r's current request: where it is, the INCR result it *)
(*            got, and its answer                                         *)
(***************************************************************************)
EXTENDS Naturals

CONSTANTS
    Reqs,           \* concurrent clients of the user
    Limit,          \* the route's limit per window
    NilClient,      \* the middleware is given a RedisQueue without a client
    RedisFaults,    \* may INCR fail
    ExpireLost,     \* may the EXPIRE not take effect
    MaxCount        \* the largest counter value the model reaches

ASSUME /\ Limit \in Nat \ {0} /\ MaxCount > Limit
       /\ {NilClient, RedisFaults, ExpireLost} \subseteq BOOLEAN

VARIABLES count, ttl, req

vars == <<count, ttl, req>>

PCs     == {"idle", "incr", "expire", "check", "done"}
Answers == {"none", "served", "limited", "error"}

TypeOK ==
    /\ count \in 0..MaxCount /\ ttl \in BOOLEAN
    /\ req \in [Reqs -> [pc : PCs, cnt : 0..MaxCount, res : Answers]]

Init ==
    /\ count = 0 /\ ttl = FALSE
    /\ req = [r \in Reqs |-> [pc |-> "idle", cnt |-> 0, res |-> "none"]]

(* INCR of the counter.  Above Limit every value is answered alike (429, *)
(* no EXPIRE), so the count saturates at MaxCount.                        *)
Incremented(c) == IF c < MaxCount THEN c + 1 ELSE MaxCount

Answer(r, res) == req' = [req EXCEPT ![r].pc = "done", ![r].res = res]

(* A request reaches RateLimitHandler with the user id in its context. *)
Arrive(r) ==
    /\ req[r].pc \in {"idle", "done"}
    /\ req' = [req EXCEPT ![r] = [pc |-> "incr", cnt |-> 0, res |-> "none"]]
    /\ UNCHANGED <<count, ttl>>

(* IsRateLimited: the first hit of a window (count == 1) goes on to set  *)
(* the expiry.                                                            *)
NextAfterIncr(c) == IF c = 1 THEN "expire" ELSE "check"

(* INCR ratelimit:<user>.  As wired in Server.RateLimit the RedisQueue    *)
(* has a nil client: the call dereferences nil and chi's Recoverer        *)
(* answers 500.  A Redis error is returned and the middleware serves the  *)
(* request (fail open).                                                   *)
Incr(r) ==
    /\ req[r].pc = "incr"
    /\ \/ NilClient /\ Answer(r, "error") /\ UNCHANGED count
       \/ /\ ~NilClient
          /\ count' = Incremented(count)
          /\ req' = [req EXCEPT ![r].cnt = Incremented(count),
                                ![r].pc = NextAfterIncr(Incremented(count))]
       \/ ~NilClient /\ RedisFaults /\ Answer(r, "served") /\ UNCHANGED count
    /\ UNCHANGED ttl

(* EXPIRE ratelimit:<user> window, its result ignored: a Redis error or   *)
(* a request context cancelled after the INCR leaves the key without an   *)
(* expiry.                                                                 *)
Expire(r) ==
    /\ req[r].pc = "expire"
    /\ \/ ttl' = TRUE
       \/ ExpireLost /\ UNCHANGED ttl
    /\ req' = [req EXCEPT ![r].pc = "check"]
    /\ UNCHANGED count

(* int(count) > limit answers 429; otherwise the route's handler runs. *)
Check(r) ==
    /\ req[r].pc = "check"
    /\ Answer(r, IF req[r].cnt > Limit THEN "limited" ELSE "served")
    /\ UNCHANGED <<count, ttl>>

(* The window elapses: Redis drops a key that carries an expiry. *)
KeyExpire ==
    /\ ttl
    /\ count' = 0 /\ ttl' = FALSE
    /\ UNCHANGED req

Next ==
    \/ \E r \in Reqs : Arrive(r) \/ Incr(r) \/ Expire(r) \/ Check(r)
    \/ KeyExpire

Spec == Init /\ [][Next]_vars

(* Every handler goroutine runs to its answer, the clients keep sending, *)
(* and Redis expires a key once its window has passed.                    *)
Fairness ==
    /\ \A r \in Reqs : WF_vars(Arrive(r) \/ Incr(r) \/ Expire(r) \/ Check(r))
    /\ WF_vars(KeyExpire)

LiveSpec == Spec /\ Fairness

-----------------------------------------------------------------------------
(* Properties *)

(* Spec 4.2: a limit holds for one window and the limiter fails open; it *)
(* is never a hard dependency for availability.  So a user who keeps      *)
(* sending is served again and again: each window serves its first        *)
(* requests, and Redis errors let requests through.                       *)
ServedAgain ==
    []<>(\E r \in Reqs : req[r].pc = "done" /\ req[r].res = "served")

=============================================================================
