--------------------------- MODULE RefreshTokens ---------------------------
(***************************************************************************)
(* Refresh tokens: a login issues a pair, POST /auth/refresh trades a      *)
(* refresh token for a new pair, POST /auth/logout revokes one.  A token   *)
(* is good while its signature says so (its exp claim, in whole seconds)   *)
(* and while the store of the running process still lists its jti.         *)
(*                                                                         *)
(* The store is a map in the process, or Redis when the process could ping *)
(* it at its start: a restart may pass from the one to the other.  Calls   *)
(* run concurrently; each call to the store is one step.  The map is under *)
(* a mutex and never fails.  A Redis command may fail (it is given 500 ms) *)
(* before or after it has taken effect, and a DEL that was given up may    *)
(* still take effect later.                                                *)
(*                                                                         *)
(* A call issues at most one token: the token is named after the call.     *)
(* Time is counted in ticks, TicksPerSecond of them to a second.           *)
(***************************************************************************)
EXTENDS Integers

CONSTANTS
    Calls,           \* the calls of a behaviour, and the tokens they issue
    NoToken,         \* what does not parse as a refresh token of this server
    Backends,        \* the stores a start of the process may choose
    RefreshTTL,      \* the life of a refresh token, in ticks
    TicksPerSecond,  \* the resolution of the clock
    MaxTime,         \* bound on the clock
    MaxRestarts      \* bound on the restarts of the process

ASSUME NoTokenAssumption  == NoToken \notin Calls
ASSUME BackendsAssumption == Backends \subseteq {"memory", "redis"} /\ Backends # {}
ASSUME TTLAssumption      == RefreshTTL \in Nat \ {0}
ASSUME SecondAssumption   == TicksPerSecond \in Nat \ {0}
ASSUME BoundsAssumption   == MaxTime \in Nat /\ MaxRestarts \in Nat

VARIABLES
    now,        \* the clock
    backend,    \* the store the running process uses
    restarts,   \* how often the process has been restarted
    store,      \* per store, the expiry of the entry of each token, 0 for none
    lateDel,    \* the tokens of DEL commands given up that are still under way
    pc,         \* where each call stands
    op,         \* what it does
    old,        \* the token it was given
    exp,        \* the exp claim of the token it has signed
    delivered,  \* the tokens that were sent to a client
    erred,      \* history: the calls a store command of which failed
    asked,      \* history: the tokens a store was asked to revoke
    revoked,    \* history: the tokens of which a Revoke returned no error
    before,     \* history: for each call, what was revoked when it came in
    orphaned    \* history: the tokens a restart parted from their store

callVars == <<pc, op, old, exp>>
history  == <<erred, asked, revoked, before, orphaned>>
vars     == <<now, backend, restarts, store, lateDel, callVars, delivered, history>>

RefreshSteps == {"presented", "parsed", "known", "revoked"}
LogoutSteps  == {"leaving", "parsedOut"}
IssueSteps   == {"issuing", "signed"}
Outcomes     == {"issued", "refused", "loggedOut", "lost"}

TypeOK ==
    /\ now \in Nat
    /\ backend \in Backends
    /\ restarts \in 0..MaxRestarts
    /\ store \in [{"memory", "redis"} -> [Calls -> Nat]]
    /\ lateDel \subseteq Calls
    /\ pc \in [Calls -> {"idle"} \cup RefreshSteps \cup LogoutSteps
                          \cup IssueSteps \cup Outcomes]
    /\ op \in [Calls -> {"none", "login", "refresh", "logout"}]
    /\ old \in [Calls -> Calls \cup {NoToken}]
    /\ exp \in [Calls -> Nat]
    /\ delivered \subseteq Calls
    /\ erred \subseteq Calls /\ asked \subseteq Calls
    /\ revoked \subseteq Calls /\ orphaned \subseteq Calls
    /\ before \in [Calls -> SUBSET Calls]

Init ==
    /\ now = 0
    /\ backend \in Backends
    /\ restarts = 0
    /\ store = [b \in {"memory", "redis"} |-> [t \in Calls |-> 0]]
    /\ lateDel = {}
    /\ pc = [c \in Calls |-> "idle"]
    /\ op = [c \in Calls |-> "none"]
    /\ old = [c \in Calls |-> NoToken]
    /\ exp = [c \in Calls |-> 0]
    /\ delivered = {}
    /\ erred = {} /\ asked = {} /\ revoked = {} /\ orphaned = {}
    /\ before = [c \in Calls |-> {}]

Goto(c, step) == pc' = [pc EXCEPT ![c] = step]

Begin(c, operation, token, step) ==
    /\ pc[c] = "idle"
    /\ op' = [op EXCEPT ![c] = operation]
    /\ old' = [old EXCEPT ![c] = token]
    /\ before' = [before EXCEPT ![c] = revoked]
    /\ Goto(c, step)
    /\ UNCHANGED <<now, backend, restarts, store, lateDel, exp, delivered,
                   erred, asked, revoked, orphaned>>

(* A login (password, OTP or OAuth) whose user has been accepted.          *)
BeginLogin(c) == Begin(c, "login", NoToken, "issuing")

(* A client presents a token it was sent, or anything else.                *)
BeginRefresh(c) ==
    \E t \in delivered \cup {NoToken} : Begin(c, "refresh", t, "presented")

BeginLogout(c) ==
    \E t \in delivered \cup {NoToken} : Begin(c, "logout", t, "leaving")

(* parseToken: signed by this server and before its exp claim.             *)
IsValid(t) == t # NoToken /\ now < exp[t]

Parse(c) ==
    /\ pc[c] = "presented"
    /\ Goto(c, IF IsValid(old[c]) THEN "parsed" ELSE "refused")
    /\ UNCHANGED <<now, backend, restarts, store, lateDel, op, old, exp, delivered, history>>

ParseLogout(c) ==
    /\ pc[c] = "leaving"
    /\ Goto(c, IF IsValid(old[c]) THEN "parsedOut" ELSE "loggedOut")
    /\ UNCHANGED <<now, backend, restarts, store, lateDel, op, old, exp, delivered, history>>

(* An entry of the map is good up to its expiry, a Redis key only before.  *)
IsListed(t) ==
    /\ store[backend][t] # 0
    /\ \/ now < store[backend][t]
       \/ now = store[backend][t] /\ backend = "memory"

With(b, t, expiry) == [store EXCEPT ![b] = [store[b] EXCEPT ![t] = expiry]]

(* The look-up drops an entry it finds expired; Redis drops it by itself.  *)
Exists(c) ==
    /\ pc[c] = "parsed"
    /\ Goto(c, IF IsListed(old[c]) THEN "known" ELSE "refused")
    /\ store' = IF IsListed(old[c]) THEN store ELSE With(backend, old[c], 0)
    /\ UNCHANGED <<now, backend, restarts, lateDel, op, old, exp, delivered, history>>

ExistsFails(c) ==
    /\ pc[c] = "parsed"
    /\ backend = "redis"
    /\ erred' = erred \cup {c}
    /\ Goto(c, "refused")
    /\ UNCHANGED <<now, backend, restarts, store, lateDel, op, old, exp, delivered,
                   asked, revoked, before, orphaned>>

(* Mutant of Revoke: the DEL misses the prefix of the key. *)
RevokeOther(c) ==
    /\ pc[c] \in {"known", "parsedOut"}
    /\ asked' = asked \cup {old[c]}
    /\ revoked' = revoked \cup {old[c]}
    /\ Goto(c, IF pc[c] = "known" THEN "revoked" ELSE "loggedOut")
    /\ UNCHANGED <<now, backend, restarts, store, lateDel, op, old, exp, delivered,
                   erred, before, orphaned>>

(* Whether the entry was still there when it was deleted is not looked at. *)
Revoke(c) ==
    /\ pc[c] \in {"known", "parsedOut"}
    /\ store' = With(backend, old[c], 0)
    /\ asked' = asked \cup {old[c]}
    /\ revoked' = revoked \cup {old[c]}
    /\ Goto(c, IF pc[c] = "known" THEN "revoked" ELSE "loggedOut")
    /\ UNCHANGED <<now, backend, restarts, lateDel, op, old, exp, delivered,
                   erred, before, orphaned>>

(* A refresh is refused, a logout answers 204 as if nothing had happened.  *)
RevokeFails(c) ==
    /\ pc[c] \in {"known", "parsedOut"}
    /\ backend = "redis"
    /\ \/ store' \in {store, With(backend, old[c], 0)} /\ UNCHANGED lateDel
       \/ lateDel' = lateDel \cup {old[c]} /\ UNCHANGED store
    /\ asked' = asked \cup {old[c]}
    /\ erred' = erred \cup {c}
    /\ Goto(c, IF pc[c] = "known" THEN "refused" ELSE "loggedOut")
    /\ UNCHANGED <<now, backend, restarts, op, old, exp, delivered,
                   revoked, before, orphaned>>

LateDel(t) ==
    /\ t \in lateDel
    /\ lateDel' = lateDel \ {t}
    /\ store' = With("redis", t, 0)
    /\ UNCHANGED <<now, backend, restarts, callVars, delivered, history>>

(* Mutant of ExpClaim: the life counted backwards. *)
ExpClaimPast == now - RefreshTTL

(* GeneratePair signs first.  The exp claim is cut to the second.          *)
ExpClaim == (now - (now % TicksPerSecond)) + RefreshTTL

Sign(c) ==
    /\ pc[c] \in {"issuing", "revoked"}
    /\ exp' = [exp EXCEPT ![c] = ExpClaim]
    /\ Goto(c, "signed")
    /\ UNCHANGED <<now, backend, restarts, store, lateDel, op, old, delivered, history>>

(* Mutant of Store: the entry lives as long as an access token. *)
StoreBriefly(c) ==
    /\ pc[c] = "signed"
    /\ store' = With(backend, c, now + 1)
    /\ delivered' = delivered \cup {c}
    /\ Goto(c, "issued")
    /\ UNCHANGED <<now, backend, restarts, lateDel, op, old, exp, history>>

(* ... and the life of the entry starts when it is stored.                 *)
Store(c) ==
    /\ pc[c] = "signed"
    /\ store' = With(backend, c, now + RefreshTTL)
    /\ delivered' = delivered \cup {c}
    /\ Goto(c, "issued")
    /\ UNCHANGED <<now, backend, restarts, lateDel, op, old, exp, history>>

(* No pair is sent; the token a refresh was given is revoked all the same. *)
StoreFails(c) ==
    /\ pc[c] = "signed"
    /\ backend = "redis"
    /\ store' \in {store, With(backend, c, now + RefreshTTL)}
    /\ erred' = erred \cup {c}
    /\ Goto(c, "refused")
    /\ UNCHANGED <<now, backend, restarts, lateDel, op, old, exp, delivered,
                   asked, revoked, before, orphaned>>

(* The process starts anew, with an empty map; if Redis is configured, a   *)
(* ping decides which store it uses from now on.                           *)
Restart ==
    /\ restarts < MaxRestarts
    /\ restarts' = restarts + 1
    /\ backend' \in Backends
    /\ store' = [store EXCEPT !["memory"] = [t \in Calls |-> 0]]
    /\ pc' = [c \in Calls |->
                IF pc[c] \in {"idle"} \cup Outcomes THEN pc[c] ELSE "lost"]
    /\ orphaned' = IF backend = "redis" /\ backend' = "redis" THEN orphaned
                   ELSE orphaned \cup delivered
    /\ UNCHANGED <<now, lateDel, op, old, exp, delivered, erred, asked, revoked, before>>

Tick ==
    /\ now < MaxTime
    /\ now' = now + 1
    /\ UNCHANGED <<backend, restarts, store, lateDel, callVars, delivered, history>>

CallStep(c) ==
    \/ Parse(c)
    \/ ParseLogout(c)
    \/ Exists(c)
    \/ ExistsFails(c)
    \/ Revoke(c)
    \/ RevokeFails(c)
    \/ Sign(c)
    \/ Store(c)
    \/ StoreFails(c)

Next ==
    \/ Tick
    \/ Restart
    \/ \E c \in Calls : BeginLogin(c) \/ BeginRefresh(c) \/ BeginLogout(c)
    \/ \E c \in Calls : CallStep(c)
    \/ \E t \in Calls : LateDel(t)

Spec == Init /\ [][Next]_vars

-----------------------------------------------------------------------------

(* A client is never thrown out without a reason: when a refresh is        *)
(* refused and no store command of it has failed, its token was none, or   *)
(* has expired, or some call had asked for its revocation, or the process  *)
(* was restarted away from the store that held it.  The entry of a token   *)
(* is never gone before the token itself expires.                          *)
RefusalHasReason ==
    \A c \in Calls :
        op[c] = "refresh" /\ pc[c] = "refused" /\ c \notin erred =>
            ~IsValid(old[c]) \/ old[c] \in asked \cup orphaned

(* jwt_service_test.go: a refresh fails once its token has been rotated or *)
(* revoked.  A token of which a Revoke returned no error before a refresh  *)
(* of it came in never yields a pair.                                      *)
RevokedTokenIsRefused ==
    \A c \in Calls :
        op[c] = "refresh" /\ pc[c] = "issued" => old[c] \notin before[c]
=============================================================================
