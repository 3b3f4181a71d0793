------------------------------- MODULE Auth --------------------------------
(***************************************************************************)
(* Registration and refresh-token rotation (auth_service.go,               *)
(* user_repository.go, utils/jwt.go) against the store's User, Wallet,     *)
(* WalletAsset and RefreshToken tables.                                    *)
(*                                                                         *)
(* CreateUserWithWallet issues three separate statements (user, wallet,    *)
(* NGN asset) outside any transaction; Register runs them after a         *)
(* FindUserByEmail check whose error it discards.  RotateRefreshToken     *)
(* validates, revokes and saves in three statements.                      *)
(*                                                                         *)
(* GenerateTokenPair signs {sub, exp, type} with HS256, exp in whole       *)
(* seconds: the refresh token is a function of the user and the second it *)
(* was made, so a token is the pair <<user id, second>>.  RefreshToken.    *)
(* token is unique (RevokeRefreshToken finds it with FindUnique).         *)
(*                                                                         *)
(*   users     the User rows: [id, email]; a row's id is the request      *)
(*             that created it                                            *)
(*   wallets   ids of users with a Wallet row                              *)
(*   assets    ids of users whose wallet has its NGN WalletAsset          *)
(*   reg[g]    registration request g                                     *)
(*   tokens    the RefreshToken table: token -> revoked flag              *)
(*   issued    refresh tokens returned to a client, as a bag: how many    *)
(*             responses carried each                                     *)
(*   rot[q]    rotation request q                                         *)
(*   rotated   tokens whose rotation returned new tokens (history)        *)
(*   now       the clock, in seconds                                      *)
(*   loggedOut tokens a Logout answered "logged out" for (history)          *)
(***************************************************************************)
EXTENDS Naturals, FiniteSets, Bags, TLC

CONSTANTS
    Emails,         \* addresses clients register with
    Regs,           \* registration requests; also the ids of their users
    Rots,           \* refresh requests
    MaxTime         \* the last second the clock reaches

VARIABLES users, wallets, assets, reg, tokens, issued, rot, rotated, now,
          loggedOut

vars == <<users, wallets, assets, reg, tokens, issued, rot, rotated, now,
          loggedOut>>

Tokens == Regs \X (0..MaxTime)
RegPCs == {"find", "user", "wallet", "asset", "done"}
RotPCs == {"idle", "validate", "revoke", "save", "done"}
NoToken == <<>>

(* The tokens some response has carried. *)
Handed == BagToSet(issued)

TypeOK ==
    /\ users \subseteq [id : Regs, email : Emails]
    /\ wallets \subseteq Regs /\ assets \subseteq Regs
    /\ reg \in [Regs -> [email : Emails, pc : RegPCs,
                         res : {"none", "ok", "exists", "error"}]]
    /\ DOMAIN tokens \subseteq Tokens
    /\ \A t \in DOMAIN tokens : tokens[t] \in BOOLEAN
    /\ IsABag(issued) /\ Handed \subseteq DOMAIN tokens
    /\ rot \in [Rots -> [tok : Tokens \cup {NoToken}, new : Tokens \cup {NoToken},
                         pc : RotPCs]]
    /\ rotated \subseteq Handed
    /\ now \in 0..MaxTime
    /\ loggedOut \subseteq Handed

Init ==
    /\ users = {} /\ wallets = {} /\ assets = {}
    /\ reg \in [Regs -> [email : Emails, pc : {"find"}, res : {"none"}]]
    /\ tokens = [t \in {} |-> FALSE]
    /\ issued = EmptyBag
    /\ rot = [q \in Rots |-> [tok |-> NoToken, new |-> NoToken, pc |-> "idle"]]
    /\ rotated = {}
    /\ now = 0
    /\ loggedOut = {}

EmailTaken(e) == \E u \in users : u.email = e
RegDone(g, res) == reg' = [reg EXCEPT ![g].pc = "done", ![g].res = res]
RegGoto(g, pc)  == reg' = [reg EXCEPT ![g].pc = pc]

-----------------------------------------------------------------------------
(* Register and CreateUserWithWallet *)

(* existingUser, _ := FindUserByEmail: a found user ends the request; a   *)
(* lookup error reads as "no user".                                        *)
RegFind(g) ==
    /\ reg[g].pc = "find"
    /\ \/ EmailTaken(reg[g].email) /\ RegDone(g, "exists")
       \/ RegGoto(g, "user")
    /\ UNCHANGED <<users, wallets, assets, tokens, issued, rot, rotated, now, loggedOut>>

(* User.CreateOne: the unique index on email turns a concurrent          *)
(* registration's row into ErrUserAlreadyExists; any other error ends the *)
(* request with nothing created.                                          *)
CreateUser(g) ==
    \/ /\ ~EmailTaken(reg[g].email)
       /\ users' = users \cup {[id |-> g, email |-> reg[g].email]}
       /\ RegGoto(g, "wallet")
    \/ EmailTaken(reg[g].email) /\ UNCHANGED users /\ RegDone(g, "exists")
    \/ UNCHANGED users /\ RegDone(g, "error")

RegUser(g) ==
    /\ reg[g].pc = "user"
    /\ CreateUser(g)
    /\ UNCHANGED <<wallets, assets, tokens, issued, rot, rotated, now, loggedOut>>

(* GenerateAccountNumber and Wallet.CreateOne; on an error (a failed     *)
(* random read, an account-number clash, a store error) the user row      *)
(* stays.                                                                 *)
RegWallet(g) ==
    /\ reg[g].pc = "wallet"
    /\ \/ wallets' = wallets \cup {g} /\ RegGoto(g, "asset")
       \/ UNCHANGED wallets /\ RegDone(g, "error")
    /\ UNCHANGED <<users, assets, tokens, issued, rot, rotated, now, loggedOut>>

(* WalletAsset.CreateOne for "NGN"; on an error user and wallet stay. *)
RegAsset(g) ==
    /\ reg[g].pc = "asset"
    /\ \/ assets' = assets \cup {g} /\ RegDone(g, "ok")
       \/ UNCHANGED assets /\ RegDone(g, "error")
    /\ UNCHANGED <<users, wallets, tokens, issued, rot, rotated, now, loggedOut>>


-----------------------------------------------------------------------------
(* Login, RotateRefreshToken and the RefreshToken table *)

(* GenerateTokenPair for user id u at the current second. *)
RefreshTokenOf(u) == <<u, now>>

(* Fault: a RefreshToken table without the unique index on token: the    *)
(* same token is stored again as a live row.                              *)
SaveRefreshTokenNoUnique(t) == tokens' = [x \in DOMAIN tokens \cup {t} |->
                                            IF x = t THEN FALSE ELSE tokens[x]]

(* SaveRefreshToken: RefreshToken.CreateOne, refused by the unique index  *)
(* on token when the same token was already stored.                       *)
SaveRefreshToken(t) ==
    /\ t \notin DOMAIN tokens
    /\ tokens' = tokens @@ (t :> FALSE)

(* Fault: Login returning the token pair although SaveRefreshToken      *)
(* failed.                                                                 *)
LoginIgnoresSaveError(u) ==
    /\ \E row \in users : row.id = u
    /\ SaveRefreshToken(RefreshTokenOf(u)) \/ UNCHANGED tokens
    /\ issued' = issued (+) SetToBag({RefreshTokenOf(u)})
    /\ UNCHANGED <<users, wallets, assets, reg, rot, rotated, now, loggedOut>>

(* Login of a registered user (the password check is assumed to pass):   *)
(* the token pair is returned only if SaveRefreshToken succeeded.         *)
Login(u) ==
    /\ \E row \in users : row.id = u
    /\ SaveRefreshToken(RefreshTokenOf(u))
    /\ issued' = issued (+) SetToBag({RefreshTokenOf(u)})
    /\ UNCHANGED <<users, wallets, assets, reg, rot, rotated, now, loggedOut>>

(* A client sends a refresh token it was given to /auth/refresh. *)
RotStart(q) ==
    /\ rot[q].pc = "idle"
    /\ \E t \in Handed : rot' = [rot EXCEPT ![q].tok = t, ![q].pc = "validate"]
    /\ UNCHANGED <<users, wallets, assets, reg, tokens, issued, rotated, now, loggedOut>>

(* RevokeRefreshToken: FindUnique on token, then Revoked = true. *)
Revoked(t) == [tokens EXCEPT ![t] = TRUE]

(* Fault: ValidateRefreshToken without the Revoked = false filter. *)
ValidNoRevokedFilter(t) == t \in DOMAIN tokens

(* ValidateRefreshToken: the token is stored and not revoked (its 7-day  *)
(* expiry is beyond the clock's range).                                   *)
Valid(t) == t \in DOMAIN tokens /\ ~tokens[t]

(* jwt.Parse has passed; ValidateRefreshToken.  A token that is not      *)
(* valid, or a lookup error, makes the request revoke it (which can fail *)
(* too) and fail; a valid one gets a new token pair for its subject.      *)
RotValidate(q) ==
    /\ rot[q].pc = "validate"
    /\ LET t == rot[q].tok IN
       \/ /\ Valid(t)
          /\ rot' = [rot EXCEPT ![q].new = RefreshTokenOf(t[1]),
                                ![q].pc = "revoke"]
          /\ UNCHANGED tokens
       \/ /\ tokens' = Revoked(t)
          /\ rot' = [rot EXCEPT ![q].pc = "done"]
       \/ /\ UNCHANGED tokens
          /\ rot' = [rot EXCEPT ![q].pc = "done"]
    /\ UNCHANGED <<users, wallets, assets, reg, issued, rotated, now, loggedOut>>

(* RevokeRefreshToken of the old token; an error ends the request. *)
RotRevoke(q) ==
    /\ rot[q].pc = "revoke"
    /\ \/ /\ tokens' = Revoked(rot[q].tok)
          /\ rot' = [rot EXCEPT ![q].pc = "save"]
       \/ /\ UNCHANGED tokens
          /\ rot' = [rot EXCEPT ![q].pc = "done"]
    /\ UNCHANGED <<users, wallets, assets, reg, issued, rotated, now, loggedOut>>

(* SaveRefreshToken of the new token: a token equal to one already      *)
(* stored (the same user in the same second) is refused and the request *)
(* fails with the old token already revoked.                             *)
RotSave(q) ==
    /\ rot[q].pc = "save"
    /\ LET t == rot[q].new IN
       \/ /\ SaveRefreshToken(t)
          /\ issued' = issued (+) SetToBag({t})
          /\ rotated' = rotated \cup {rot[q].tok}
       \/ UNCHANGED <<tokens, issued, rotated>>
    /\ rot' = [rot EXCEPT ![q].pc = "done"]
    /\ UNCHANGED <<users, wallets, assets, reg, now, loggedOut>>

(* Logout: RevokeRefreshToken of the cookie's token, its error ignored;  *)
(* the cookie is cleared and "logged out successfully" answered either    *)
(* way.                                                                   *)
Logout(t) ==
    /\ t \in Handed
    /\ tokens' = Revoked(t) \/ UNCHANGED tokens
    /\ loggedOut' = loggedOut \cup {t}
    /\ UNCHANGED <<users, wallets, assets, reg, issued, rot, rotated, now>>

Tick ==
    /\ now < MaxTime
    /\ now' = now + 1
    /\ UNCHANGED <<users, wallets, assets, reg, tokens, issued, rot, rotated, loggedOut>>

-----------------------------------------------------------------------------
Next ==
    \/ \E g \in Regs : RegFind(g) \/ RegUser(g) \/ RegWallet(g) \/ RegAsset(g)
    \/ \E u \in Regs : Login(u)
    \/ \E t \in Handed : Logout(t)
    \/ \E q \in Rots : RotStart(q) \/ RotValidate(q) \/ RotRevoke(q) \/ RotSave(q)
    \/ Tick

Spec == Init /\ [][Next]_vars

-----------------------------------------------------------------------------
(* Properties *)

(* The refresh handler's "token has been revoked or used": once a        *)
(* rotation of a token has returned new tokens, no request that presents *)
(* that token afterwards passes validation.                              *)
ReplayRejected ==
    [][\A q \in Rots :
          (rot[q].pc = "validate" /\ rot'[q].pc = "revoke")
              => rot[q].tok \notin rotated]_vars

(* Spec 3: a User, its Wallet and the initial NGN WalletAsset are created *)
(* together (one atomic creation sequence): once no registration is in   *)
(* flight, every user has a wallet with its NGN asset.                     *)
UserHasWallet ==
    (\A g \in Regs : reg[g].pc \in {"find", "done"})
    => \A u \in users : u.id \in wallets /\ u.id \in assets

(* RotateRefreshToken revokes the token it is given before saving the    *)
(* new one ("token has been revoked or used"): a refresh token is spent  *)
(* once.  A rotation saves a new token only for a token no earlier        *)
(* rotation has spent and no Logout has been answered for.               *)
RefreshSingleUse ==
    [][\A q \in Rots :
          (/\ rot[q].pc = "save" /\ rot'[q].pc = "done"
           /\ rot[q].new \notin DOMAIN tokens /\ rot[q].new \in DOMAIN tokens')
              => rot[q].tok \notin rotated \cup loggedOut]_vars

(* GenerateTokenPair puts exp in whole seconds (jwt.go:30), so two       *)
(* logins, or a login and a refresh, of one user in the same second make *)
(* the same refresh token.  Login and RotateRefreshToken return a token   *)
(* only once SaveRefreshToken has stored it, and the unique index on      *)
(* token refuses the second row: no token is handed to two clients, so    *)
(* one device's logout or refresh never spends another device's session. *)
TokenHandedOnce == \A t \in Handed : CopiesIn(t, issued) = 1

=============================================================================
