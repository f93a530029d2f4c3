------------------------ MODULE RefreshTokensProofs ------------------------
(***************************************************************************)
(* Theorems about refresh tokens: a refresh is never refused without a     *)
(* reason, whatever stores the restarts choose; and a revoked token is     *)
(* refused as long as the deployment keeps to one store, or restarts at    *)
(* most once.                                                              *)
(***************************************************************************)
EXTENDS RefreshTokens, TLAPS

Stores == {"memory", "redis"}

(* A call works on a token that was delivered, which its own call has long *)
(* done with; only a login issues without having looked at a token.        *)
CallsInOrder ==
    /\ \A t \in delivered : pc[t] = "issued"
    /\ \A c \in Calls : old[c] \in delivered \cup {NoToken}
    /\ \A c \in Calls :
         pc[c] \in {"parsed", "known", "revoked", "parsedOut"} => old[c] \in delivered
    /\ \A c \in Calls : pc[c] = "issuing" => op[c] = "login"
    /\ lateDel \subseteq asked

(* The entry of a token is stored after the token is signed, so it lasts   *)
(* at least as long: until then only a revocation or a restart removes it. *)
EntriesOutliveTokens ==
    /\ \A c \in Calls : pc[c] = "signed" => exp[c] <= now + RefreshTTL
    /\ \A t \in delivered :
         \/ t \in asked \cup orphaned
         \/ store[backend][t] >= exp[t]
         \/ now >= exp[t]

IInv == TypeOK /\ CallsInOrder /\ EntriesOutliveTokens /\ RefusalHasReason

-----------------------------------------------------------------------------

(* Setting one entry of one store leaves all others as they were.          *)
LEMMA WithOneEntry ==
    ASSUME TypeOK, NEW b \in Stores, NEW t \in Calls, NEW e \in Nat
    PROVE  /\ With(b, t, e) \in [Stores -> [Calls -> Nat]]
           /\ \A s \in Stores, u \in Calls :
                With(b, t, e)[s][u] = IF s = b /\ u = t THEN e ELSE store[s][u]
BY DEF TypeOK, With, Stores

LEMMA BackendIsStore == TypeOK => backend \in Stores
BY BackendsAssumption DEF TypeOK, Stores

LEMMA WithCurrent ==
    ASSUME TypeOK, NEW t \in Calls, NEW e \in Nat
    PROVE  \A u \in Calls :
             With(backend, t, e)[backend][u] = IF u = t THEN e ELSE store[backend][u]
BY WithOneEntry, BackendIsStore

LEMMA WithLateDel ==
    ASSUME TypeOK, NEW t \in Calls
    PROVE  \A s \in Stores, u \in Calls :
             With("redis", t, 0)[s][u] = IF s = "redis" /\ u = t THEN 0 ELSE store[s][u]
<1>1. "redis" \in Stores
  BY DEF Stores
<1> DEFINE redis == "redis"
<1>2. redis \in Stores
  BY <1>1
<1> HIDE DEF redis
<1>3. \A s \in Stores, u \in Calls :
        With(redis, t, 0)[s][u] = IF s = redis /\ u = t THEN 0 ELSE store[s][u]
  BY <1>2, WithOneEntry
<1> QED BY <1>3 DEF redis

(* The exp claim is a time no later than a full life from now.             *)
LEMMA ExpClaimBound ==
    TypeOK => ExpClaim \in Nat /\ ExpClaim <= now + RefreshTTL
<1> SUFFICES ASSUME now \in Nat PROVE ExpClaim \in Nat /\ ExpClaim <= now + RefreshTTL
  BY DEF TypeOK
<1>1. now % TicksPerSecond \in Nat /\ now % TicksPerSecond <= now
  BY SecondAssumption
<1> QED BY <1>1, TTLAssumption DEF ExpClaim

(* An entry that is not listed has run out, or is not there.               *)
LEMMA UnlistedHasExpired ==
    ASSUME TypeOK, NEW t \in Calls, ~IsListed(t)
    PROVE  now >= store[backend][t]
BY BackendIsStore DEF TypeOK, IsListed, Stores

-----------------------------------------------------------------------------

LEMMA TypeCorrect == TypeOK /\ CallsInOrder /\ [Next]_vars => TypeOK'
<1> SUFFICES ASSUME TypeOK, CallsInOrder, [Next]_vars PROVE TypeOK'
  OBVIOUS
<1> USE BoundsAssumption, TTLAssumption
    DEF TypeOK, RefreshSteps, LogoutSteps, IssueSteps, Outcomes, callVars, history
<1>1. CASE Tick BY <1>1 DEF Tick
<1>2. CASE Restart BY <1>2 DEF Restart
<1>3. ASSUME NEW c \in Calls, BeginLogin(c) \/ BeginRefresh(c) \/ BeginLogout(c)
      PROVE  TypeOK'
  BY <1>3 DEF BeginLogin, BeginRefresh, BeginLogout, Begin, Goto
<1>4. ASSUME NEW c \in Calls, Parse(c) \/ ParseLogout(c) PROVE TypeOK'
  BY <1>4 DEF Parse, ParseLogout, Goto
<1>5. ASSUME NEW c \in Calls, Exists(c) PROVE TypeOK'
  <2>1. old[c] \in Calls BY <1>5 DEF Exists, CallsInOrder
  <2>2. store' \in [Stores -> [Calls -> Nat]]
    BY <1>5, <2>1, BackendIsStore, WithOneEntry DEF Exists, Stores
  <2> QED BY <1>5, <2>2 DEF Exists, Goto, Stores
<1>6. ASSUME NEW c \in Calls, ExistsFails(c) PROVE TypeOK'
  BY <1>6 DEF ExistsFails, Goto
<1>7. ASSUME NEW c \in Calls, Revoke(c) PROVE TypeOK'
  <2>1. old[c] \in Calls BY <1>7 DEF Revoke, CallsInOrder
  <2>2. store' \in [Stores -> [Calls -> Nat]]
    BY <1>7, <2>1, BackendIsStore, WithOneEntry DEF Revoke
  <2> QED BY <1>7, <2>1, <2>2 DEF Revoke, Goto, Stores
<1>8. ASSUME NEW c \in Calls, RevokeFails(c) PROVE TypeOK'
  <2>1. old[c] \in Calls BY <1>8 DEF RevokeFails, CallsInOrder
  <2>2. store' \in [Stores -> [Calls -> Nat]]
    <3>1. With(backend, old[c], 0) \in [Stores -> [Calls -> Nat]]
      BY <2>1, BackendIsStore, WithOneEntry
    <3>2. store' = store \/ store' = With(backend, old[c], 0)
      BY <1>8 DEF RevokeFails
    <3> QED BY <3>1, <3>2 DEF Stores
  <2> QED BY <1>8, <2>1, <2>2 DEF RevokeFails, Goto, Stores
<1>9. ASSUME NEW c \in Calls, Sign(c) PROVE TypeOK'
  BY <1>9, ExpClaimBound DEF Sign, Goto
<1>10. ASSUME NEW c \in Calls, Store(c) PROVE TypeOK'
  <2>1. store' \in [Stores -> [Calls -> Nat]]
    BY <1>10, BackendIsStore, WithOneEntry DEF Store
  <2> QED BY <1>10, <2>1 DEF Store, Goto, Stores
<1>11. ASSUME NEW c \in Calls, StoreFails(c) PROVE TypeOK'
  <2>1. store' \in [Stores -> [Calls -> Nat]]
    BY <1>11, BackendIsStore, WithOneEntry DEF StoreFails, Stores
  <2> QED BY <1>11, <2>1 DEF StoreFails, Goto, Stores
<1>12. ASSUME NEW t \in Calls, LateDel(t) PROVE TypeOK'
  <2>1. store' \in [Stores -> [Calls -> Nat]]
    BY <1>12, WithOneEntry DEF LateDel, Stores
  <2> QED BY <1>12, <2>1 DEF LateDel, Stores
<1>13. CASE UNCHANGED vars BY <1>13 DEF vars
<1> QED
  BY <1>1, <1>2, <1>3, <1>4, <1>5, <1>6, <1>7, <1>8, <1>9, <1>10, <1>11, <1>12, <1>13
  DEF Next, CallStep

LEMMA OrderKept == TypeOK /\ CallsInOrder /\ [Next]_vars => CallsInOrder'
<1> SUFFICES ASSUME TypeOK, CallsInOrder, [Next]_vars PROVE CallsInOrder'
  OBVIOUS
<1> USE NoTokenAssumption
    DEF TypeOK, CallsInOrder, RefreshSteps, LogoutSteps, IssueSteps, Outcomes, callVars, history
<1>1. CASE Tick BY <1>1 DEF Tick
<1>2. CASE Restart BY <1>2 DEF Restart
<1>3. ASSUME NEW c \in Calls, BeginLogin(c) \/ BeginRefresh(c) \/ BeginLogout(c)
      PROVE  CallsInOrder'
  BY <1>3 DEF BeginLogin, BeginRefresh, BeginLogout, Begin, Goto
<1>4. ASSUME NEW c \in Calls, Parse(c) \/ ParseLogout(c) PROVE CallsInOrder'
  BY <1>4 DEF Parse, ParseLogout, Goto, IsValid
<1>5. ASSUME NEW c \in Calls, Exists(c) PROVE CallsInOrder'
  BY <1>5 DEF Exists, Goto
<1>6. ASSUME NEW c \in Calls, ExistsFails(c) PROVE CallsInOrder'
  BY <1>6 DEF ExistsFails, Goto
<1>7. ASSUME NEW c \in Calls, Revoke(c) PROVE CallsInOrder'
  BY <1>7 DEF Revoke, Goto
<1>8. ASSUME NEW c \in Calls, RevokeFails(c) PROVE CallsInOrder'
  BY <1>8 DEF RevokeFails, Goto
<1>9. ASSUME NEW c \in Calls, Sign(c) PROVE CallsInOrder'
  BY <1>9 DEF Sign, Goto
<1>10. ASSUME NEW c \in Calls, Store(c) PROVE CallsInOrder'
  BY <1>10 DEF Store, Goto
<1>11. ASSUME NEW c \in Calls, StoreFails(c) PROVE CallsInOrder'
  BY <1>11 DEF StoreFails, Goto
<1>12. ASSUME NEW t \in Calls, LateDel(t) PROVE CallsInOrder'
  BY <1>12 DEF LateDel
<1>13. CASE UNCHANGED vars BY <1>13 DEF vars
<1> QED
  BY <1>1, <1>2, <1>3, <1>4, <1>5, <1>6, <1>7, <1>8, <1>9, <1>10, <1>11, <1>12, <1>13
  DEF Next, CallStep

(* What a store loses of a delivered token, it loses to a revocation, to a *)
(* restart or to time.                                                     *)
LEMMA EntriesKept ==
    TypeOK /\ CallsInOrder /\ EntriesOutliveTokens /\ [Next]_vars => EntriesOutliveTokens'
<1> SUFFICES ASSUME TypeOK, CallsInOrder, EntriesOutliveTokens, [Next]_vars
             PROVE  EntriesOutliveTokens'
  OBVIOUS
<1>0. TypeOK'
  BY TypeCorrect
<1> USE BoundsAssumption, TTLAssumption, BackendIsStore
    DEF TypeOK, EntriesOutliveTokens, callVars, history
<1>1. CASE Tick BY <1>1 DEF Tick
<1>2. CASE Restart
  <2>1. ASSUME NEW t \in delivered, t \notin asked', t \notin orphaned'
        PROVE  store'[backend'][t] = store[backend][t]
    BY <1>2, <2>1 DEF Restart
  <2> QED BY <1>2, <2>1 DEF Restart
<1>3. ASSUME NEW c \in Calls, BeginLogin(c) \/ BeginRefresh(c) \/ BeginLogout(c)
      PROVE  EntriesOutliveTokens'
  BY <1>3 DEF BeginLogin, BeginRefresh, BeginLogout, Begin, Goto
<1>4. ASSUME NEW c \in Calls, Parse(c) \/ ParseLogout(c) PROVE EntriesOutliveTokens'
  BY <1>4 DEF Parse, ParseLogout, Goto
<1>5. ASSUME NEW c \in Calls, Exists(c) PROVE EntriesOutliveTokens'
  <2>1. old[c] \in Calls BY <1>5 DEF Exists, CallsInOrder
  <2>2. /\ UNCHANGED <<now, backend, exp, delivered, asked, orphaned>>
        /\ \A d \in Calls : pc'[d] = "signed" => pc[d] = "signed"
    BY <1>5 DEF Exists, Goto
  <2>3. CASE IsListed(old[c])
    BY <1>5, <2>2, <2>3 DEF Exists
  <2>4. CASE ~IsListed(old[c])
    <3>1. now >= store[backend][old[c]]
      BY <2>1, <2>4, UnlistedHasExpired
    <3>2. \A t \in Calls : store'[backend][t] = IF t = old[c] THEN 0 ELSE store[backend][t]
      BY <1>5, <2>1, <2>4, WithCurrent DEF Exists
    <3>3. ASSUME NEW t \in delivered, t \notin asked, t \notin orphaned
          PROVE  store'[backend][t] >= exp[t] \/ now >= exp[t]
      <4>1. t \in Calls /\ exp[t] \in Nat /\ store[backend][t] \in Nat
        BY DEF Stores
      <4>2. store[backend][t] >= exp[t] \/ now >= exp[t]
        BY <3>3
      <4> QED BY <3>1, <3>2, <4>1, <4>2
    <3> QED BY <2>2, <3>3
  <2> QED BY <2>3, <2>4
<1>6. ASSUME NEW c \in Calls, ExistsFails(c) PROVE EntriesOutliveTokens'
  BY <1>6 DEF ExistsFails, Goto
<1>7. ASSUME NEW c \in Calls, Revoke(c) \/ RevokeFails(c) PROVE EntriesOutliveTokens'
  <2>1. old[c] \in Calls BY <1>7 DEF Revoke, RevokeFails, CallsInOrder
  <2>2. /\ UNCHANGED <<now, backend, exp, delivered, orphaned>>
        /\ asked' = asked \cup {old[c]}
        /\ \A d \in Calls : pc'[d] = "signed" => pc[d] = "signed"
    BY <1>7 DEF Revoke, RevokeFails, Goto
  <2>3. store' = store \/ store' = With(backend, old[c], 0)
    BY <1>7 DEF Revoke, RevokeFails
  <2>4. \A t \in Calls : t # old[c] => store'[backend][t] = store[backend][t]
    BY <2>1, <2>3, WithCurrent
  <2> QED BY <2>2, <2>4
<1>8. ASSUME NEW c \in Calls, Sign(c) PROVE EntriesOutliveTokens'
  <2>1. c \notin delivered BY <1>8 DEF Sign, CallsInOrder
  <2> QED BY <1>8, <2>1, ExpClaimBound DEF Sign, Goto
<1>9. ASSUME NEW c \in Calls, Store(c) PROVE EntriesOutliveTokens'
  <2>1. exp[c] <= now + RefreshTTL BY <1>9 DEF Store
  <2>2. \A t \in Calls : store'[backend][t] =
                            IF t = c THEN now + RefreshTTL ELSE store[backend][t]
    <3>1. store' = With(backend, c, now + RefreshTTL) /\ now + RefreshTTL \in Nat
      BY <1>9 DEF Store
    <3> QED BY <3>1, WithCurrent
  <2> QED BY <1>9, <2>1, <2>2 DEF Store, Goto
<1>10. ASSUME NEW c \in Calls, StoreFails(c) PROVE EntriesOutliveTokens'
  <2>1. c \notin delivered BY <1>10 DEF StoreFails, CallsInOrder
  <2>2. /\ store' = store \/ store' = With(backend, c, now + RefreshTTL)
        /\ now + RefreshTTL \in Nat
    BY <1>10 DEF StoreFails
  <2>3. \A t \in Calls : t # c => store'[backend][t] = store[backend][t]
    BY <2>2, WithCurrent
  <2> QED BY <1>10, <2>1, <2>3 DEF StoreFails, Goto
<1>11. ASSUME NEW t \in Calls, LateDel(t) PROVE EntriesOutliveTokens'
  <2>1. t \in asked BY <1>11 DEF LateDel, CallsInOrder
  <2>2. \A u \in Calls : u # t => store'[backend][u] = store[backend][u]
    BY <1>11, WithOneEntry DEF LateDel, Stores
  <2> QED BY <1>11, <2>1, <2>2 DEF LateDel
<1>12. CASE UNCHANGED vars BY <1>12 DEF vars
<1> QED
  BY <1>1, <1>2, <1>3, <1>4, <1>5, <1>6, <1>7, <1>8, <1>9, <1>10, <1>11, <1>12
  DEF Next, CallStep

(* A refusal keeps its reason: tokens do not get younger, and what was     *)
(* asked for or orphaned stays so.                                         *)
LEMMA ReasonsKept == IInv /\ [Next]_vars => RefusalHasReason'
<1> SUFFICES ASSUME IInv, [Next]_vars, NEW c \in Calls,
                    op'[c] = "refresh", pc'[c] = "refused", c \notin erred'
             PROVE  ~IsValid(old[c])' \/ old'[c] \in asked' \cup orphaned'
  BY DEF RefusalHasReason
<1>0. /\ TypeOK /\ CallsInOrder /\ EntriesOutliveTokens /\ RefusalHasReason
      /\ TypeOK' /\ CallsInOrder'
  BY TypeCorrect, OrderKept DEF IInv
<1>1. /\ now' >= now
      /\ asked \subseteq asked' /\ orphaned \subseteq orphaned' /\ erred \subseteq erred'
      /\ \A t \in delivered : exp'[t] = exp[t]
  BY <1>0 DEF Next, CallStep, vars, Tick, Restart, BeginLogin, BeginRefresh, BeginLogout,
     Begin, Parse, ParseLogout, Exists, ExistsFails, Revoke, RevokeFails, Sign, Store,
     StoreFails, LateDel, callVars, history, TypeOK, CallsInOrder
<1>2. CASE pc[c] = "refused"
  <2>1. op'[c] = op[c] /\ old'[c] = old[c]
    BY <1>0, <1>2 DEF Next, CallStep, vars, Tick, Restart, BeginLogin, BeginRefresh,
       BeginLogout, Begin, Parse, ParseLogout, Exists, ExistsFails, Revoke, RevokeFails,
       Sign, Store, StoreFails, LateDel, callVars, history, TypeOK
  <2>2. ~IsValid(old[c]) \/ old[c] \in asked \cup orphaned
    BY <1>0, <1>1, <1>2, <2>1 DEF RefusalHasReason
  <2>3. old[c] = NoToken \/ old[c] \in delivered
    BY <1>0 DEF CallsInOrder
  <2> QED BY <1>0, <1>1, <2>1, <2>2, <2>3 DEF IsValid, TypeOK
<1>3. CASE Parse(c)
  BY <1>0, <1>3 DEF Parse, Goto, IsValid, TypeOK
<1>4. CASE Exists(c)
  <2>1. ~IsListed(old[c]) /\ old[c] \in delivered
    BY <1>0, <1>4 DEF Exists, Goto, TypeOK, CallsInOrder
  <2>2. now >= store[backend][old[c]]
    BY <1>0, <2>1, UnlistedHasExpired DEF TypeOK
  <2>3. old[c] \in asked \cup orphaned \/ now >= exp[old[c]]
    BY <1>0, <2>1, <2>2, BackendIsStore DEF EntriesOutliveTokens, TypeOK, Stores
  <2>4. UNCHANGED <<now, exp, old, asked, orphaned>>
    BY <1>4 DEF Exists, history
  <2> QED BY <1>0, <2>1, <2>3, <2>4 DEF IsValid, TypeOK
<1>5. CASE pc[c] # "refused" /\ ~Parse(c) /\ ~Exists(c)
  <2>1. CASE \E d \in Calls : d # c /\ CallStep(d)
    BY <1>0, <1>5, <2>1 DEF CallStep, Goto, TypeOK, Parse, ParseLogout, Exists,
       ExistsFails, Revoke, RevokeFails, Sign, Store, StoreFails
  <2>2. CASE ExistsFails(c) \/ RevokeFails(c) \/ StoreFails(c)
    BY <2>2 DEF ExistsFails, RevokeFails, StoreFails
  <2>3. CASE ParseLogout(c) \/ Revoke(c) \/ Sign(c) \/ Store(c)
    BY <1>0, <1>5, <2>3 DEF ParseLogout, Revoke, Sign, Store, Goto, TypeOK
  <2>4. CASE Tick \/ Restart \/ UNCHANGED vars \/ \E t \in Calls : LateDel(t)
    BY <1>0, <1>5, <2>4 DEF Tick, Restart, LateDel, vars, callVars, TypeOK
  <2>5. CASE \E d \in Calls : BeginLogin(d) \/ BeginRefresh(d) \/ BeginLogout(d)
    BY <1>0, <1>5, <2>5 DEF BeginLogin, BeginRefresh, BeginLogout, Begin, Goto, TypeOK
  <2> QED BY <1>5, <2>1, <2>2, <2>3, <2>4, <2>5 DEF Next, CallStep
<1> QED BY <1>2, <1>3, <1>4, <1>5

LEMMA InitHolds == Init => IInv
BY BackendsAssumption, BoundsAssumption
DEF Init, IInv, TypeOK, CallsInOrder, EntriesOutliveTokens, RefusalHasReason

(* The strengthened invariant holds in every state of every behaviour.    *)
THEOREM InvariantHolds == Spec => []IInv
<1>1. IInv /\ [Next]_vars => IInv'
  BY TypeCorrect, OrderKept, EntriesKept, ReasonsKept DEF IInv
<1> QED BY <1>1, InitHolds, PTL DEF Spec

(* The types of the state, for every number of calls and every choice of   *)
(* stores.                                                                 *)
THEOREM TypesHold == Spec => []TypeOK
<1>1. IInv => TypeOK
  BY DEF IInv
<1> QED BY <1>1, InvariantHolds, PTL

(* No refresh is refused without a reason, whatever the stores.            *)
THEOREM RefusalsHaveReasons == Spec => []RefusalHasReason
<1>1. IInv => RefusalHasReason
  BY DEF IInv
<1> QED BY <1>1, InvariantHolds, PTL

-----------------------------------------------------------------------------

(* What was revoked is not in the store in use, and a refresh that got     *)
(* past the look-up was not given such a token.                            *)
RevokedIsGone ==
    /\ \A t \in revoked : t \in delivered /\ store[backend][t] = 0
    /\ \A c \in Calls : before[c] \subseteq revoked
    /\ \A c \in Calls :
         op[c] = "refresh" /\ pc[c] \in {"known", "revoked", "signed", "issued"}
         => old[c] \notin before[c]

(* A restart that does not bring back what the store in use had lost.      *)
NothingReturns ==
    Restart => \A t \in Calls : store[backend][t] = 0 => store'[backend'][t] = 0

(* Only a restart can bring a revoked token back.                          *)
LEMMA RevokedStaysGone ==
    ASSUME TypeOK, CallsInOrder, RevokedIsGone, [Next]_vars, NothingReturns
    PROVE  RevokedIsGone'
<1> USE BackendIsStore
    DEF TypeOK, RevokedIsGone, RefreshSteps, LogoutSteps, IssueSteps, Outcomes,
        callVars, history
<1>1. CASE Tick BY <1>1 DEF Tick
<1>2. CASE Restart
  <2>1. \A t \in Calls : store[backend][t] = 0 => store'[backend'][t] = 0
    BY <1>2 DEF NothingReturns
  <2>2. \A c \in Calls : pc'[c] \in {"known", "revoked", "signed", "issued"} => pc'[c] = pc[c]
    BY <1>2 DEF Restart
  <2> QED BY <1>2, <2>1, <2>2 DEF Restart
<1>3. ASSUME NEW c \in Calls, BeginLogin(c) \/ BeginRefresh(c) \/ BeginLogout(c)
      PROVE  RevokedIsGone'
  BY <1>3 DEF BeginLogin, BeginRefresh, BeginLogout, Begin, Goto
<1>4. ASSUME NEW c \in Calls, Parse(c) \/ ParseLogout(c) PROVE RevokedIsGone'
  BY <1>4 DEF Parse, ParseLogout, Goto
<1>5. ASSUME NEW c \in Calls, Exists(c) PROVE RevokedIsGone'
  <2>1. old[c] \in Calls BY <1>5 DEF Exists, CallsInOrder
  <2>2. IsListed(old[c]) => old[c] \notin before[c]
    BY DEF IsListed
  <2>3. \A t \in Calls : store[backend][t] = 0 => store'[backend][t] = 0
    <3>1. store' = store \/ store' = With(backend, old[c], 0)
      BY <1>5 DEF Exists
    <3> QED BY <2>1, <3>1, WithCurrent
  <2>4. UNCHANGED <<backend, op, old, delivered, revoked, before>>
    BY <1>5 DEF Exists
  <2>5. \A d \in Calls :
          pc'[d] \in {"known", "revoked", "signed", "issued"} =>
            \/ pc'[d] = pc[d]
            \/ d = c /\ IsListed(old[c])
    BY <1>5 DEF Exists, Goto
  <2> QED BY <2>2, <2>3, <2>4, <2>5
<1>6. ASSUME NEW c \in Calls, ExistsFails(c) PROVE RevokedIsGone'
  BY <1>6 DEF ExistsFails, Goto
<1>7. ASSUME NEW c \in Calls, Revoke(c) PROVE RevokedIsGone'
  <2>1. old[c] \in delivered BY <1>7 DEF Revoke, CallsInOrder
  <2>2. store' = With(backend, old[c], 0) /\ old[c] \in Calls
    BY <1>7, <2>1 DEF Revoke
  <2>3. \A t \in Calls : store'[backend][t] = IF t = old[c] THEN 0 ELSE store[backend][t]
    BY <2>2, WithCurrent
  <2> QED BY <1>7, <2>1, <2>3 DEF Revoke, Goto
<1>8. ASSUME NEW c \in Calls, RevokeFails(c) PROVE RevokedIsGone'
  <2>1. old[c] \in Calls BY <1>8 DEF RevokeFails, CallsInOrder
  <2>2. store' = store \/ store' = With(backend, old[c], 0)
    BY <1>8 DEF RevokeFails
  <2>3. \A t \in Calls : store[backend][t] = 0 => store'[backend][t] = 0
    BY <2>1, <2>2, WithCurrent
  <2> QED BY <1>8, <2>3 DEF RevokeFails, Goto
<1>9. ASSUME NEW c \in Calls, Sign(c) PROVE RevokedIsGone'
  BY <1>9 DEF Sign, Goto, CallsInOrder
<1>10. ASSUME NEW c \in Calls, Store(c) \/ StoreFails(c) PROVE RevokedIsGone'
  <2>1. c \notin revoked BY <1>10 DEF Store, StoreFails, CallsInOrder
  <2>2. /\ store' = store \/ store' = With(backend, c, now + RefreshTTL)
        /\ now + RefreshTTL \in Nat
    BY <1>10, TTLAssumption DEF Store, StoreFails
  <2>3. \A t \in Calls : t # c => store'[backend][t] = store[backend][t]
    BY <2>2, WithCurrent
  <2> QED BY <1>10, <2>1, <2>3 DEF Store, StoreFails, Goto
<1>11. ASSUME NEW t \in Calls, LateDel(t) PROVE RevokedIsGone'
  <2>1. \A u \in Calls : store[backend][u] = 0 => store'[backend][u] = 0
    <3>1. store' = With("redis", t, 0)
      BY <1>11 DEF LateDel
    <3>2. backend \in Stores
      BY BackendIsStore
    <3> QED BY <3>1, <3>2, WithLateDel
  <2> QED BY <1>11, <2>1 DEF LateDel
<1>12. CASE UNCHANGED vars BY <1>12 DEF vars
<1> QED
  BY <1>1, <1>2, <1>3, <1>4, <1>5, <1>6, <1>7, <1>8, <1>9, <1>10, <1>11, <1>12
  DEF Next, CallStep

(* With the map alone, or with Redis alone, a token once revoked without   *)
(* an error is refused to every refresh that comes in afterwards: rotation *)
(* and logout are final, for all interleavings, failures and restarts.     *)
THEOREM RevocationIsFinal ==
    ASSUME NEW b, Backends = {b}
    PROVE  Spec => []RevokedTokenIsRefused
<1>1. Init => RevokedIsGone
  BY DEF Init, RevokedIsGone
<1>2. IInv /\ [Next]_vars => NothingReturns
  <2> SUFFICES ASSUME IInv, [Next]_vars, Restart
               PROVE  \A t \in Calls : store[backend][t] = 0 => store'[backend'][t] = 0
    BY DEF NothingReturns
  <2>1. backend = b /\ backend' = b
    BY TypeCorrect DEF IInv, TypeOK
  <2> QED BY <2>1, BackendIsStore DEF Restart, Stores, IInv, TypeOK
<1>3. IInv /\ RevokedIsGone /\ [Next]_vars => RevokedIsGone'
  BY <1>2, RevokedStaysGone DEF IInv
<1>4. RevokedIsGone => RevokedTokenIsRefused
  BY DEF RevokedIsGone, RevokedTokenIsRefused
<1> QED BY <1>1, <1>3, <1>4, InvariantHolds, PTL DEF Spec

(* Until a restart the process has used one store, and the other is empty. *)
OtherIsEmpty ==
    restarts = 0 =>
        \A s \in Stores, t \in Calls : s # backend => store[s][t] = 0

(* Each step writes to the store in use, or deletes.                       *)
LEMMA OtherStaysEmpty ==
    ASSUME TypeOK, CallsInOrder, OtherIsEmpty, [Next]_vars
    PROVE  OtherIsEmpty'
<1> SUFFICES ASSUME restarts' = 0,
                    NEW s \in Stores, NEW t \in Calls, s # backend', store'[s][t] # 0
             PROVE  FALSE
  BY DEF OtherIsEmpty
<1>1. CASE Restart
  BY <1>1 DEF Restart, TypeOK
<1>2. CASE ~Restart
  <2>1. restarts = 0 /\ backend' = backend
    BY <1>2 DEF Next, Tick, BeginLogin, BeginRefresh, BeginLogout, Begin, CallStep, Parse,
                ParseLogout, Exists, ExistsFails, Revoke, RevokeFails, Sign, Store, StoreFails,
                LateDel, vars
  <2>2. store[s][t] = 0
    BY <2>1 DEF OtherIsEmpty
  <2>3. PICK b \in Stores, u \in Calls, e \in Nat :
          \/ store' = store
          \/ store' = With(b, u, e) /\ (b = backend \/ e = 0)
    <3>1. backend \in Stores /\ "redis" \in Stores
      BY BackendIsStore DEF Stores
    <3>2. now + RefreshTTL \in Nat
      BY TTLAssumption DEF TypeOK
    <3>3. CASE \E c \in Calls : CallStep(c)
      <4>1. PICK c \in Calls : CallStep(c)
        BY <3>3
      <4>2. CASE Exists(c) \/ Revoke(c) \/ RevokeFails(c)
        <5>1. old[c] \in Calls
          BY <4>2 DEF Exists, Revoke, RevokeFails, CallsInOrder, TypeOK
        <5>2. store' = store \/ store' = With(backend, old[c], 0)
          BY <4>2 DEF Exists, Revoke, RevokeFails
        <5> QED BY <3>1, <5>1, <5>2
      <4>3. CASE Store(c) \/ StoreFails(c)
        <5>1. store' = store \/ store' = With(backend, c, now + RefreshTTL)
          BY <4>3 DEF Store, StoreFails
        <5> QED BY <3>1, <3>2, <5>1
      <4>4. CASE Parse(c) \/ ParseLogout(c) \/ ExistsFails(c) \/ Sign(c)
        BY <3>1, <4>4 DEF Parse, ParseLogout, ExistsFails, Sign
      <4> QED BY <4>1, <4>2, <4>3, <4>4 DEF CallStep
    <3>4. CASE \E u \in Calls : LateDel(u)
      BY <3>1, <3>4 DEF LateDel
    <3>5. CASE UNCHANGED store
      BY <3>1, <3>2, <3>5
    <3> QED BY <1>2, <3>3, <3>4, <3>5 DEF Next, Tick, BeginLogin, BeginRefresh, BeginLogout,
                                         Begin, vars
  <2>4. CASE store' = store
    BY <2>2, <2>4
  <2>5. CASE store' = With(b, u, e) /\ (b = backend \/ e = 0)
    <3>1. store'[s][t] = IF s = b /\ t = u THEN e ELSE store[s][t]
      BY <2>5, WithOneEntry
    <3>2. store'[s][t] = e /\ s = b
      BY ONLY <2>2, <3>1, store'[s][t] # 0
    <3>3. e = 0
      BY ONLY <2>1, <2>5, <3>2, s # backend'
    <3> QED BY ONLY <3>2, <3>3, store'[s][t] # 0
  <2> QED BY <2>3, <2>4, <2>5
<1> QED BY <1>1, <1>2

(* Whatever stores the starts choose, one restart brings no revoked token  *)
(* back: it starts with an empty map or with a Redis that was in use, or   *)
(* has never been.  (RefreshRevival shows that two can.)                   *)
THEOREM OneRestartRevivesNothing ==
    ASSUME MaxRestarts <= 1
    PROVE  Spec => []RevokedTokenIsRefused
<1>1. Init => RevokedIsGone /\ OtherIsEmpty
  BY DEF Init, RevokedIsGone, OtherIsEmpty, Stores
<1>2. IInv /\ OtherIsEmpty /\ [Next]_vars => NothingReturns
  <2> SUFFICES ASSUME IInv, OtherIsEmpty, Restart
               PROVE  \A t \in Calls : store[backend][t] = 0 => store'[backend'][t] = 0
    BY DEF NothingReturns
  <2>1. restarts = 0
    BY BoundsAssumption DEF Restart, IInv, TypeOK
  <2>2. backend' \in Stores
    BY BackendsAssumption DEF Restart, Stores
  <2> QED BY <2>1, <2>2 DEF Restart, OtherIsEmpty, Stores, IInv, TypeOK
<1>3. IInv /\ RevokedIsGone /\ OtherIsEmpty /\ [Next]_vars => RevokedIsGone' /\ OtherIsEmpty'
  BY <1>2, RevokedStaysGone, OtherStaysEmpty DEF IInv
<1>4. RevokedIsGone => RevokedTokenIsRefused
  BY DEF RevokedIsGone, RevokedTokenIsRefused
<1> QED BY <1>1, <1>3, <1>4, InvariantHolds, PTL DEF Spec
=============================================================================
