----------------------- MODULE OTPRateLimiterProofs -----------------------
(***************************************************************************)
(* Theorems about the limiter in memory: it lets at most Max requests of a *)
(* key through per window, and it implements the sliding window.           *)
(*                                                                         *)
(* Both rest on one invariant: the pruned entries of a key and its history *)
(* agree on everything that is still in the window.                        *)
(***************************************************************************)
EXTENDS OTPRateLimiter, FiniteSetTheorems, TLAPS

(* The entries of a key are requests it was let through, with every recent *)
(* one among them; all are dated in the past and numbered by their call.   *)
HistoryAgrees ==
    \A key \in Keys :
        /\ hits[key] \subseteq grants[key]
        /\ IsFiniteSet(grants[key])
        /\ \A g \in grants[key] :
             /\ g.n < calls /\ g.at <= now
             /\ g.at > now - Window => g \in hits[key]

WindowsBounded ==
    \A key \in Keys, start \in Int : Cardinality(GrantsInWindow(key, start)) <= Max

IInv == TypeOK /\ HistoryAgrees /\ WindowsBounded

(* What is kept of the entries is what is recent in the history.           *)
LEMMA KeptIsRecent ==
    ASSUME IInv, NEW key \in Keys
    PROVE  Kept(key) = Abstract!Recent(grants[key])
BY DEF IInv, HistoryAgrees, Kept, Abstract!Recent

(* Letting a request through keeps every window within the bound: a window *)
(* that holds the new request holds only kept ones beside it.              *)
LEMMA AllowKeepsWindows ==
    ASSUME IInv, NEW key \in Keys, Allow(key)
    PROVE  WindowsBounded'
<1> USE WindowAssumption, MaxAssumption DEF IInv, TypeOK, Hits
<1> SUFFICES ASSUME NEW k \in Keys, NEW start \in Int
             PROVE  Cardinality(GrantsInWindow(k, start)') <= Max
  BY DEF WindowsBounded, GrantsInWindow
<1>1. CASE k # key
  <2>1. GrantsInWindow(k, start)' = GrantsInWindow(k, start)
    BY <1>1 DEF Allow, GrantsInWindow
  <2> QED BY <2>1 DEF WindowsBounded
<1>2. CASE k = key /\ ~(start < now /\ now <= start + Window)
  <2>1. GrantsInWindow(k, start)' = GrantsInWindow(k, start)
    BY <1>2 DEF Allow, GrantsInWindow, Hit
  <2> QED BY <2>1 DEF WindowsBounded
<1>3. CASE k = key /\ start < now /\ now <= start + Window
  <2>1. IsFiniteSet(Kept(key)) /\ Hit \notin Kept(key)
    <3>1. Kept(key) \subseteq grants[key]
      BY DEF Kept, HistoryAgrees
    <3>2. \A g \in Kept(key) : g.n < calls
      BY <3>1 DEF HistoryAgrees
    <3>3. Hit.n = calls /\ calls \in Nat
      BY BoundsAssumption DEF Hit
    <3> QED BY <3>1, <3>2, <3>3, FS_Subset DEF HistoryAgrees
  <2>2. GrantsInWindow(k, start)' \subseteq Kept(key) \cup {Hit}
    BY <1>3 DEF Allow, GrantsInWindow, HistoryAgrees, Kept, Hit
  <2>3. /\ IsFiniteSet(Kept(key) \cup {Hit})
        /\ Cardinality(Kept(key) \cup {Hit}) = Cardinality(Kept(key)) + 1
    BY <2>1, FS_AddElement
  <2>4. Cardinality(GrantsInWindow(k, start)') <= Cardinality(Kept(key)) + 1
    BY <2>2, <2>3, FS_Subset
  <2>5. Cardinality(Kept(key)) \in Nat /\ Cardinality(GrantsInWindow(k, start)') \in Nat
    BY <2>1, <2>2, <2>3, FS_CardinalityType, FS_Subset
  <2> QED BY <2>4, <2>5 DEF Allow
<1> QED BY <1>1, <1>2, <1>3

(* The invariant holds from the start.                                     *)
LEMMA InitHolds == Init => IInv
<1> SUFFICES ASSUME Init PROVE IInv
  OBVIOUS
<1>1. TypeOK
  BY BoundsAssumption DEF Init, TypeOK
<1>2. HistoryAgrees
  BY FS_EmptySet DEF Init, HistoryAgrees
<1>3. WindowsBounded
  <2>1. \A key \in Keys, start \in Int : GrantsInWindow(key, start) = {}
    BY DEF Init, GrantsInWindow
  <2> QED BY <2>1, FS_EmptySet, MaxAssumption DEF WindowsBounded
<1> QED BY <1>1, <1>2, <1>3 DEF IInv

(* ... and every step keeps it.                                            *)
LEMMA StepKeepsInvariant == IInv /\ [Next]_vars => IInv'
<1> SUFFICES ASSUME IInv, [Next]_vars PROVE IInv'
  OBVIOUS
<1> USE WindowAssumption, MaxAssumption, BoundsAssumption
<1>1. CASE Tick
  <2>1. TypeOK' BY <1>1 DEF IInv, TypeOK, Tick
  <2>2. HistoryAgrees'
    BY <1>1 DEF IInv, TypeOK, HistoryAgrees, Tick, Hits
  <2>3. WindowsBounded' BY <1>1 DEF IInv, WindowsBounded, GrantsInWindow, Tick
  <2> QED BY <2>1, <2>2, <2>3 DEF IInv
<1>2. CASE Restart
  <2>1. TypeOK' BY <1>2 DEF IInv, TypeOK, Restart
  <2>2. HistoryAgrees' BY <1>2, FS_EmptySet DEF HistoryAgrees, Restart
  <2>3. WindowsBounded'
    <3>1. \A key \in Keys, start \in Int : GrantsInWindow(key, start)' = {}
      BY <1>2 DEF Restart, GrantsInWindow
    <3> QED BY <3>1, FS_EmptySet DEF WindowsBounded
  <2> QED BY <2>1, <2>2, <2>3 DEF IInv
<1>3. ASSUME NEW key \in Keys, Allow(key) PROVE IInv'
  <2>1. Hit \in Hits /\ Kept(key) \subseteq Hits
    BY DEF Hit, Hits, Kept, IInv, TypeOK
  <2>2. TypeOK' BY <1>3, <2>1 DEF IInv, TypeOK, Allow
  <2>3. HistoryAgrees'
    <3> SUFFICES ASSUME NEW k \in Keys
                 PROVE  /\ hits'[k] \subseteq grants'[k]
                        /\ IsFiniteSet(grants'[k])
                        /\ \A g \in grants'[k] :
                             /\ g.n < calls' /\ g.at <= now'
                             /\ g.at > now' - Window => g \in hits'[k]
      BY DEF HistoryAgrees
    <3>1. hits'[k] = IF k = key THEN Kept(key) \cup {Hit} ELSE hits[k]
      BY <1>3 DEF Allow, IInv, TypeOK
    <3>2. grants'[k] = IF k = key THEN grants[key] \cup {Hit} ELSE grants[k]
      BY <1>3 DEF Allow, IInv, TypeOK
    <3>3. Kept(key) \subseteq grants[key]
      BY DEF Kept, IInv, HistoryAgrees
    <3>4. IsFiniteSet(grants'[k])
      <4>1. IsFiniteSet(grants[key]) /\ IsFiniteSet(grants[k])
        BY DEF IInv, HistoryAgrees
      <4>2. IsFiniteSet(grants[key] \cup {Hit})
        BY <4>1, FS_AddElement
      <4> QED BY <3>2, <4>1, <4>2
    <3>5. Hit.n = calls /\ Hit.at = now /\ calls \in Nat /\ now \in Nat
      BY DEF Hit, IInv, TypeOK
    <3>6. calls' = calls + 1 /\ now' = now
      BY <1>3 DEF Allow
    <3>7. \A g \in grants[k] : g.n \in Nat /\ g.at \in Nat
      BY DEF IInv, TypeOK, Hits
    <3>8. ASSUME NEW g \in grants'[k]
          PROVE  /\ g.n < calls' /\ g.at <= now'
                 /\ g.at > now' - Window => g \in hits'[k]
      <4>1. CASE g \in grants[k]
        BY <3>1, <3>5, <3>6, <3>7, <4>1 DEF IInv, HistoryAgrees, Kept
      <4>2. CASE g = Hit /\ k = key
        BY <3>1, <3>5, <3>6, <4>2
      <4> QED BY <3>2, <4>1, <4>2
    <3> QED BY <3>1, <3>2, <3>3, <3>4, <3>8 DEF IInv, HistoryAgrees
  <2>4. WindowsBounded' BY <1>3, AllowKeepsWindows
  <2> QED BY <2>2, <2>3, <2>4 DEF IInv
<1>4. ASSUME NEW key \in Keys, Deny(key) PROVE IInv'
  <2>1. Kept(key) \subseteq hits[key] BY DEF Kept
  <2>2. TypeOK' BY <1>4, <2>1 DEF IInv, TypeOK, Deny
  <2>3. HistoryAgrees'
    BY <1>4, <2>1 DEF IInv, TypeOK, HistoryAgrees, Deny, Kept, Hits
  <2>4. WindowsBounded' BY <1>4 DEF IInv, WindowsBounded, GrantsInWindow, Deny
  <2> QED BY <2>2, <2>3, <2>4 DEF IInv
<1>5. CASE UNCHANGED vars
  BY <1>5 DEF IInv, TypeOK, HistoryAgrees, WindowsBounded, GrantsInWindow, vars
<1> QED BY <1>1, <1>2, <1>3, <1>4, <1>5 DEF Next

(* The strengthened invariant holds in every state of every behaviour.    *)
THEOREM InvariantHolds == Spec => []IInv
BY InitHolds, StepKeepsInvariant, PTL DEF Spec

(* At most Max requests of a key are let through per window by one process *)
(* of the server, for any window, any Max and any number of keys.          *)
THEOREM LimiterBound == Spec => []AtMostMaxPerWindow
<1>1. IInv => AtMostMaxPerWindow
  BY WindowAssumption, BoundsAssumption DEF IInv, WindowsBounded, AtMostMaxPerWindow
<1> QED BY <1>1, InvariantHolds, PTL

(* Entries, histories and answers are well typed.                          *)
THEOREM LimiterTypesHold == Spec => []TypeOK
<1>1. IInv => TypeOK
  BY DEF IInv
<1> QED BY <1>1, InvariantHolds, PTL

(* The instance has a copy of the definition of Cardinality.               *)
LEMMA SameCardinality == \A S : Abstract!Cardinality(S) = Cardinality(S)
BY DEF Abstract!Cardinality, Cardinality

(* The limiter that prunes implements the one that forgets nothing.        *)
THEOREM LimiterRefines == Spec => RefinesSlidingWindow
<1>1. Init => Abstract!WindowInit
  BY DEF Init, Abstract!WindowInit, NoAnswer, Abstract!NoAnswer
<1>2. IInv /\ [Next]_vars => [Abstract!WindowNext]_Abstract!windowVars
  <2> SUFFICES ASSUME IInv, [Next]_vars
               PROVE  Abstract!WindowNext \/ UNCHANGED Abstract!windowVars
    OBVIOUS
  <2>1. CASE Tick
    BY <2>1 DEF Tick, IInv, TypeOK, Abstract!WindowNext, Abstract!Pass
  <2>2. CASE Restart
    BY <2>2 DEF Restart, Abstract!WindowNext, Abstract!Forget, NoAnswer, Abstract!NoAnswer
  <2>3. ASSUME NEW key \in Keys, Allow(key) PROVE Abstract!Decide(key)
    <3>1. Abstract!Cardinality(Abstract!Recent(grants[key])) < Max
      BY <2>3, KeptIsRecent, SameCardinality DEF Allow
    <3>2. Hit \in grants'[key] \ grants[key] /\ Hit.at = now
      BY <2>3, BoundsAssumption DEF Allow, Hit, IInv, TypeOK, HistoryAgrees
    <3> QED BY <2>3, <3>1, <3>2 DEF Allow, Abstract!Decide
  <2>4. ASSUME NEW key \in Keys, Deny(key) PROVE Abstract!Decide(key)
    <3>1. IsFiniteSet(Kept(key))
      BY FS_Subset DEF IInv, HistoryAgrees, Kept
    <3>2. ~(Abstract!Cardinality(Abstract!Recent(grants[key])) < Max)
      BY <2>4, <3>1, KeptIsRecent, SameCardinality, FS_CardinalityType, MaxAssumption
         DEF Deny
    <3>3. (Abstract!Cardinality(Abstract!Recent(grants[key])) < Max) = FALSE
      BY <3>2
    <3> QED BY <2>4, <3>3, Zenon DEF Deny, Abstract!Decide
  <2>5. CASE UNCHANGED vars
    BY <2>5 DEF vars, Abstract!windowVars
  <2> QED BY <2>1, <2>2, <2>3, <2>4, <2>5 DEF Next, Abstract!WindowNext
<1> QED BY <1>1, <1>2, InvariantHolds, PTL DEF Spec, RefinesSlidingWindow, Abstract!WindowSpec
=============================================================================
