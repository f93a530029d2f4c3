--------------------- MODULE RedisOTPRateLimiterProofs ---------------------
(***************************************************************************)
(* Theorems about the limiter over Redis, for any window, budget, number   *)
(* of calls and of repeated scripts: a request is denied only after more   *)
(* than Max runs of the script in the window that ends with the denial,    *)
(* and no window, wherever it starts, sees more than 2 * Max - 1 requests  *)
(* let through on an answer.                                               *)
(*                                                                         *)
(* The argument is about the counter a key has, or had last: it counts     *)
(* runs of its own life, which began a window before its expiry; no more   *)
(* requests than it counts, and than Max, were let through in that life,   *)
(* one fewer after its first instant; and a window that reaches into that  *)
(* life holds, of the lives before it, only what came after such a first   *)
(* instant.                                                                *)
(***************************************************************************)
EXTENDS RedisOTPRateLimiter, FiniteSetTheorems, TLAPS

(* When the counter of a key was, or would have been, created.             *)
Born(c) == c.expiry - Window

Since(events, t)         == {e \in events : t <= e.at}
After(events, t)         == {e \in events : t < e.at}
Between(events, from, t) == {e \in events : from < e.at /\ e.at < t}

(* A run is the only one with its call and attempt: calls are numbered,    *)
(* and one with a run still under way has none yet.                        *)
RunsAreCalls ==
    /\ \A p \in late : p[2] < calls
    /\ \A k \in Keys : \A e \in runs[k] :
         e.call < calls /\ <<k, e.call>> \notin late /\ e.at <= now

(* A counter counts runs of its own life.                                  *)
CountsRuns ==
    \A k \in Keys :
        /\ IsFiniteSet(runs[k])
        /\ Born(counter[k]) <= now
        /\ counter[k].count <= Cardinality(Since(runs[k], Born(counter[k])))

(* The requests a key was let through, against its counter c.              *)
Fits(c, events) ==
    /\ IsFiniteSet(events)
    /\ c.count = 0 => events = {}
    /\ \A e \in events : e.at < c.expiry
    /\ Cardinality(Since(events, Born(c))) <= Max
    /\ Cardinality(Since(events, Born(c))) <= c.count
    /\ Cardinality(After(events, Born(c))) <= Max - 1
    /\ c.count > 0 => Cardinality(After(events, Born(c))) <= c.count - 1
    /\ \A start \in Int :
         start >= Born(c) - Window => Cardinality(Between(events, start, Born(c))) <= Max - 1
    /\ \A start \in Int : Cardinality(InWindow(events, start)) <= 2 * Max - 1

GrantsFit == \A k \in Keys : Fits(counter[k], grants[k])

IInv ==
    /\ TypeOK
    /\ RunsAreCalls
    /\ CountsRuns
    /\ DenialHasReason
    /\ GrantsFit
    /\ \A k \in Keys : \A e \in grants[k] : e.at <= now

-----------------------------------------------------------------------------

(* A counter that is used is alive; it is a new one, or counts on.         *)
LEMMA CountedIs ==
    ASSUME TypeOK, NEW key \in Keys, NEW n \in Nat \ {0}
    PROVE  /\ Counted(key, n) \in [count : Nat, expiry : Nat]
           /\ Counted(key, n).count > 0 /\ now < Counted(key, n).expiry
           /\ \/ /\ counter[key].count = 0 \/ now >= counter[key].expiry
                 /\ Counted(key, n).count = n /\ Born(Counted(key, n)) = now
              \/ /\ counter[key].count > 0 /\ now < counter[key].expiry
                 /\ Counted(key, n).count = counter[key].count + n
                 /\ Counted(key, n).expiry = counter[key].expiry
<1>1. counter[key] \in [count : Nat, expiry : Nat] /\ now \in Nat
  BY DEF TypeOK
<1> QED BY <1>1, WindowAssumption DEF Counted, Born

(* The runs of one call.                                                   *)
Runs(call, n) == {[call |-> call, attempt |-> a, at |-> now] : a \in 1..n}

LEMMA RunsAreThatMany ==
    ASSUME NEW call, NEW n \in Nat
    PROVE  IsFiniteSet(Runs(call, n)) /\ Cardinality(Runs(call, n)) = n
<1> DEFINE f == [a \in 1..n |-> [call |-> call, attempt |-> a, at |-> now]]
<1>1. f \in Bijection(1..n, Runs(call, n))
  <2>1. \A a \in 1..n : f[a] \in Runs(call, n)
    BY DEF Runs
  <2>2. \A e \in Runs(call, n) : \E a \in 1..n : f[a] = e
    BY DEF Runs
  <2>3. \A a, b \in 1..n : f[a] = f[b] => a = b
    <3> SUFFICES ASSUME NEW a \in 1..n, NEW b \in 1..n, f[a] = f[b] PROVE a = b
      OBVIOUS
    <3>1. f[a].attempt = a /\ f[b].attempt = b
      OBVIOUS
    <3> QED BY <3>1
  <2> HIDE DEF f
  <2>4. f \in [1..n -> Runs(call, n)]
    BY <2>1 DEF f
  <2> QED BY <2>2, <2>3, <2>4 DEF Bijection, Injection, Surjection, IsInjective
<1>2. ExistsBijection(1..n, Runs(call, n))
  BY <1>1 DEF ExistsBijection
<1>3. IsFiniteSet(1..n) /\ Cardinality(1..n) = n
  BY FS_Interval
<1> QED BY <1>2, <1>3, FS_Bijection

(* More events are not fewer in any part of time.                          *)
LEMMA MoreAreNotFewer ==
    ASSUME NEW S, NEW T, IsFiniteSet(T), S \subseteq T
    PROVE  /\ IsFiniteSet(S) /\ Cardinality(S) \in Nat /\ Cardinality(T) \in Nat
           /\ Cardinality(S) <= Cardinality(T)
BY FS_Subset, FS_CardinalityType

-----------------------------------------------------------------------------

(* What one or more runs of the script do to a key; the call is new.       *)
Scripted(key, call, n) ==
    /\ counter' = [counter EXCEPT ![key] = Counted(key, n)]
    /\ runs' = [runs EXCEPT ![key] = runs[key] \cup Runs(call, n)]
    /\ now' = now
    /\ \A e \in runs[key] : e.call # call

(* The runs that are new are counted once, those before them as they were. *)
LEMMA CountKept ==
    ASSUME TypeOK, RunsAreCalls, CountsRuns,
           NEW key \in Keys, NEW call, NEW n \in Nat \ {0}, Scripted(key, call, n)
    PROVE  CountsRuns'
<1> SUFFICES ASSUME NEW k \in Keys
             PROVE  /\ IsFiniteSet(runs'[k])
                    /\ Born(counter'[k]) <= now'
                    /\ counter'[k].count <= Cardinality(Since(runs'[k], Born(counter'[k])))
  BY DEF CountsRuns, Since, Born
<1>1. CASE k # key
  BY <1>1 DEF Scripted, CountsRuns, TypeOK
<1>2. CASE k = key
  <2> DEFINE c == counter[key]
             d == Counted(key, n)
             New == Runs(call, n)
             Old == Since(runs[key], Born(d))
  <2>1. counter'[key] = d /\ runs'[key] = runs[key] \cup New
    BY DEF Scripted, TypeOK
  <2>2. IsFiniteSet(New) /\ Cardinality(New) = n
    BY RunsAreThatMany
  <2>3. IsFiniteSet(runs[key]) /\ c.count <= Cardinality(Since(runs[key], Born(c)))
    BY DEF CountsRuns
  <2>4. IsFiniteSet(Old) /\ Cardinality(Old) \in Nat
    BY <2>3, MoreAreNotFewer DEF Since
  <2>5. \A e \in New : e.at = now /\ e.call = call
    BY DEF Runs
  <2>6. Old \cap New = {}
    BY <2>5 DEF Scripted, Since
  <2>7. Born(d) <= now
    <3>1. now \in Nat /\ Born(c) <= now
      BY DEF TypeOK, CountsRuns
    <3>2. CASE Born(d) = now
      BY <3>1, <3>2
    <3>3. CASE d.expiry = c.expiry
      BY <3>1, <3>3 DEF Born
    <3> QED BY <3>2, <3>3, CountedIs
  <2>8. Since(runs'[key], Born(d)) = Old \cup New
    BY <2>1, <2>5, <2>7 DEF Since
  <2>9. Cardinality(Old \cup New) = Cardinality(Old) + n
    <3>1. Cardinality(Old \cap New) = 0
      BY <2>6, FS_EmptySet
    <3>2. Cardinality(Old \cup New)
            = Cardinality(Old) + Cardinality(New) - Cardinality(Old \cap New)
      BY ONLY <2>2, <2>4, FS_Union
    <3> QED BY ONLY <2>2, <2>4, <3>1, <3>2, n \in Nat
  <2>10. d.count <= Cardinality(Old) + n
    <3>1. CASE d.count = n
      BY <2>4, <3>1
    <3>2. CASE d.count = c.count + n /\ d.expiry = c.expiry
      <4>1. Old = Since(runs[key], Born(c))
        BY <3>2 DEF Born
      <4> QED BY <2>3, <2>4, <3>2, <4>1 DEF TypeOK
    <3> QED BY <3>1, <3>2, CountedIs
  <2>11. IsFiniteSet(runs'[key])
    <3>1. IsFiniteSet(runs[key] \cup New)
      BY ONLY <2>2, <2>3, FS_Union
    <3> QED BY ONLY <2>1, <3>1
  <2> QED BY <1>2, <2>1, <2>7, <2>8, <2>9, <2>10, <2>11 DEF Scripted
<1> QED BY <1>1, <1>2

-----------------------------------------------------------------------------

(* A request let through now, or none.                                     *)
Granted(more, events, t) ==
    more = events \/ \E g \in Dated : g.at = t /\ more = events \cup {g}

(* The rest of one life and the whole of the next.                         *)
LEMMA TwoLives ==
    ASSUME NEW S, NEW T, IsFiniteSet(S), IsFiniteSet(T), NEW R, R \subseteq S \cup T,
           Cardinality(S) <= Max - 1, Cardinality(T) <= Max
    PROVE  Cardinality(R) <= 2 * Max - 1
<1>1. /\ IsFiniteSet(S \cup T) /\ Cardinality(S) \in Nat /\ Cardinality(T) \in Nat
      /\ Cardinality(S \cup T) = Cardinality(S) + Cardinality(T) - Cardinality(S \cap T)
      /\ Cardinality(S \cap T) \in Nat
  BY FS_Union, FS_CardinalityType, FS_Intersection
<1>2. Cardinality(R) \in Nat /\ Cardinality(R) <= Cardinality(S \cup T)
  BY <1>1, MoreAreNotFewer
<1> QED BY <1>1, <1>2, MaxAssumption

(* The counter after the script has run, against the requests let through  *)
(* by then: what it counts grew by more than they did.                     *)
LEMMA NewLifeFits ==
    ASSUME NEW c \in [count : Nat, expiry : Nat], NEW d \in [count : Nat, expiry : Nat],
           NEW events \in SUBSET Dated, NEW more \in SUBSET Dated, NEW t \in Nat,
           Fits(c, events), Granted(more, events, t), more # events => d.count <= Max,
           \A e \in events : e.at <= t, Born(c) <= t,
           d.count > 0, Born(d) = t, c.count = 0 \/ t >= c.expiry
    PROVE  Fits(d, more)
<1> USE WindowAssumption, MaxAssumption DEF Born
<1>0. IsFiniteSet(events) /\ IsFiniteSet(more)
  BY FS_AddElement DEF Fits, Granted
<1>1. \A e \in events : e.at < t
  BY DEF Fits, Dated
<1>2. \A e \in more : e.at <= t /\ (e \in events \/ e.at = t)
  BY DEF Granted
<1>3. \A e \in more : e.at < d.expiry
  BY <1>2 DEF Dated
<1>4. Since(more, t) = {} \/ \E g \in Dated : Since(more, t) = {g} /\ more # events
  BY <1>1, <1>2 DEF Granted, Since, Dated
<1>5. Cardinality(Since(more, t)) <= Max /\ Cardinality(Since(more, t)) <= d.count
  <2>1. CASE Since(more, t) = {}
    BY <2>1, FS_EmptySet
  <2>2. ASSUME NEW g \in Dated, Since(more, t) = {g}, more # events
        PROVE  /\ Cardinality(Since(more, t)) <= Max
               /\ Cardinality(Since(more, t)) <= d.count
    <3>1. Cardinality({g}) = 1
      BY FS_Singleton
    <3> QED BY <2>2, <3>1
  <2> QED BY <1>4, <2>1, <2>2
<1>6. After(more, t) = {}
  BY <1>2 DEF After, Dated
<1>7. Cardinality(After(more, t)) = 0
  BY <1>6, FS_EmptySet
<1>8. ASSUME NEW start \in Int, start >= t - Window
      PROVE  Cardinality(Between(more, start, t)) <= Max - 1
  <2>1. Between(more, start, t) \subseteq After(events, Born(c))
    <3>1. CASE c.count = 0
      BY <1>2, <3>1 DEF Fits, Between, Dated
    <3>2. CASE t >= c.expiry
      BY <1>2, <1>8, <3>2 DEF Between, After, Dated
    <3> QED BY <3>1, <3>2
  <2>2. IsFiniteSet(After(events, Born(c)))
    BY <1>0, FS_Subset DEF After
  <2> QED BY <2>1, <2>2, MoreAreNotFewer DEF Fits
<1>9. ASSUME NEW start \in Int
      PROVE  Cardinality(InWindow(more, start)) <= 2 * Max - 1
  <2>1. CASE InWindow(more, start) = InWindow(events, start)
    BY <2>1 DEF Fits
  <2>2. CASE InWindow(more, start) # InWindow(events, start)
    <3>1. start >= t - Window
      BY <1>2, <2>2 DEF InWindow, Granted
    <3>2. InWindow(more, start) \subseteq Between(more, start, t) \cup Since(more, t)
      BY DEF InWindow, Between, Since, Dated
    <3>3. IsFiniteSet(Between(more, start, t)) /\ IsFiniteSet(Since(more, t))
      BY <1>0, FS_Subset DEF Between, Since
    <3> QED BY <1>5, <1>8, <3>1, <3>2, <3>3, TwoLives
  <2> QED BY <2>1, <2>2
<1>10. d.count = 0 => more = {}
  OBVIOUS
<1>11. Born(d) = t
  OBVIOUS
<1> QED BY ONLY <1>0, <1>3, <1>5, <1>7, <1>8, <1>9, <1>10, <1>11, MaxAssumption, d.count > 0,
        d \in [count : Nat, expiry : Nat] DEF Fits

LEMMA SameLifeFits ==
    ASSUME NEW c \in [count : Nat, expiry : Nat], NEW d \in [count : Nat, expiry : Nat],
           NEW events \in SUBSET Dated, NEW more \in SUBSET Dated, NEW t \in Nat,
           Fits(c, events), Granted(more, events, t), more # events => d.count <= Max,
           \A e \in events : e.at <= t, Born(c) <= t,
           d.count > c.count, d.expiry = c.expiry, c.count > 0, t < c.expiry
    PROVE  Fits(d, more)
<1> DEFINE s == Born(c)
<1> USE WindowAssumption, MaxAssumption
<1>0. IsFiniteSet(events) /\ IsFiniteSet(more) /\ Born(d) = s /\ s \in Int
  BY FS_AddElement DEF Fits, Granted, Born
<1>1. \A e \in more : e.at <= t /\ e.at \in Nat
  BY DEF Granted, Dated
<1>2. \A e \in more : e.at < d.expiry
  BY <1>1
<1>3. CASE more = events
  <2>1. Cardinality(Since(events, s)) \in Nat /\ Cardinality(After(events, s)) \in Nat
    BY <1>0, MoreAreNotFewer DEF Since, After
  <2> QED BY <1>0, <1>2, <1>3, <2>1 DEF Fits
<1>4. ASSUME NEW g \in Dated, g.at = t, more = events \cup {g}, d.count <= Max
      PROVE  Fits(d, more)
  <2>1. Since(more, s) = Since(events, s) \cup {g}
    BY <1>4 DEF Since
  <2>2. IsFiniteSet(Since(events, s)) /\ IsFiniteSet(After(events, s))
    BY <1>0, MoreAreNotFewer DEF Since, After
  <2>3. /\ Cardinality(Since(events, s)) \in Nat /\ Cardinality(After(events, s)) \in Nat
        /\ Cardinality(Since(more, s)) <= Cardinality(Since(events, s)) + 1
        /\ Cardinality(Since(more, s)) \in Nat
    <3>1. /\ Cardinality(Since(events, s)) \in Nat /\ Cardinality(After(events, s)) \in Nat
          /\ Cardinality(Since(events, s) \cup {g})
               \in {Cardinality(Since(events, s)), Cardinality(Since(events, s)) + 1}
      BY <2>2, FS_AddElement, FS_CardinalityType
    <3> HIDE DEF s
    <3> QED BY <2>1, <3>1
  <2>4. Cardinality(Since(more, s)) <= d.count /\ Cardinality(Since(more, s)) <= Max
    BY <1>4, <2>3 DEF Fits
  <2>5. After(more, s) \subseteq After(events, s) \cup {g}
    BY <1>4 DEF After
  <2>6. Cardinality(After(more, s)) <= Cardinality(After(events, s)) + 1
    <3>1. /\ IsFiniteSet(After(events, s) \cup {g})
          /\ Cardinality(After(events, s) \cup {g})
               \in {Cardinality(After(events, s)), Cardinality(After(events, s)) + 1}
      BY <2>2, FS_AddElement
    <3>2. /\ Cardinality(After(more, s)) \in Nat
          /\ Cardinality(After(more, s)) <= Cardinality(After(events, s) \cup {g})
      BY <2>5, <3>1, MoreAreNotFewer
    <3> HIDE DEF s
    <3> QED BY <2>3, <3>1, <3>2
  <2>7. Cardinality(After(more, s)) <= d.count - 1 /\ Cardinality(After(more, s)) <= Max - 1
    <3>1. Cardinality(After(more, s)) \in Nat
      BY <1>0, MoreAreNotFewer DEF After
    <3> QED BY <1>4, <2>3, <2>6, <3>1 DEF Fits
  <2>8. \A start \in Int : Between(more, start, s) = Between(events, start, s)
    BY <1>0, <1>4 DEF Between
  <2>9. ASSUME NEW start \in Int
        PROVE  Cardinality(InWindow(more, start)) <= 2 * Max - 1
    <3>1. CASE InWindow(more, start) = InWindow(events, start)
      BY <3>1 DEF Fits
    <3>2. CASE InWindow(more, start) # InWindow(events, start)
      <4>1. start >= s - Window
        BY <1>0, <1>4, <3>2 DEF InWindow
      <4>2. InWindow(more, start) \subseteq Between(events, start, s) \cup Since(more, s)
        BY <1>0, <1>1, <2>8 DEF InWindow, Between, Since
      <4>3. IsFiniteSet(Between(events, start, s)) /\ IsFiniteSet(Since(more, s))
        BY <1>0, FS_Subset DEF Between, Since
      <4>4. Cardinality(Between(events, start, s)) <= Max - 1
        BY <4>1 DEF Fits
      <4> QED BY <2>4, <4>2, <4>3, <4>4, TwoLives
    <3> QED BY <3>1, <3>2
  <2>10. d.count > 0
    OBVIOUS
  <2> QED BY ONLY <1>0, <1>2, <2>4, <2>7, <2>8, <2>9, <2>10, Fits(c, events),
          d \in [count : Nat, expiry : Nat] DEF Fits
<1> QED BY <1>3, <1>4 DEF Granted

-----------------------------------------------------------------------------

LEMMA TypeCorrect == TypeOK /\ [Next]_vars => TypeOK'
<1> SUFFICES ASSUME TypeOK, [Next]_vars PROVE TypeOK'
  OBVIOUS
<1> USE BoundsAssumption, AttemptsAssumption DEF TypeOK, Dated
<1>1. ASSUME NEW key \in Keys, NEW n \in 1..MaxAttempts, RunScript(key, n)
      PROVE  /\ counter' \in [Keys -> [count : Nat, expiry : Nat]]
             /\ runs' \in [Keys -> SUBSET Dated]
  <2>1. Counted(key, n) \in [count : Nat, expiry : Nat]
    BY CountedIs
  <2> QED BY <1>1, <2>1 DEF RunScript
<1>2. CASE Tick BY <1>2 DEF Tick
<1>3. ASSUME NEW key \in Keys, Allow(key) PROVE TypeOK'
  BY <1>1, <1>3 DEF Allow, BeginCall
<1>4. ASSUME NEW key \in Keys, Deny(key) PROVE TypeOK'
  BY <1>1, <1>4 DEF Deny, BeginCall
<1>5. ASSUME NEW key \in Keys, FailOpen(key) PROVE TypeOK'
  BY <1>1, <1>5 DEF FailOpen, BeginCall
<1>6. ASSUME NEW key \in Keys, NEW call \in 0..MaxCalls, LateRun(key, call) PROVE TypeOK'
  <2>1. Counted(key, 1) \in [count : Nat, expiry : Nat]
    BY CountedIs
  <2> QED BY <1>6, <2>1 DEF LateRun
<1>7. CASE UNCHANGED vars BY <1>7 DEF vars
<1> QED BY <1>2, <1>3, <1>4, <1>5, <1>6, <1>7 DEF Next

(* What a step does to the counters: nothing, or runs of one call's script *)
(* that are all new, letting its request through only within the budget.   *)
Scripts(key, call, n) ==
    /\ Scripted(key, call, n)
    /\ \A k \in Keys : k # key => grants'[k] = grants[k]
    /\ Granted(grants'[key], grants[key], now)
    /\ grants'[key] # grants[key] => Counted(key, n).count <= Max

Unscripted ==
    /\ UNCHANGED <<counter, runs, grants>>
    /\ now \in Nat /\ now' \in Nat /\ now <= now'

LEMMA StepScripts ==
    ASSUME TypeOK, RunsAreCalls, [Next]_vars
    PROVE  \/ Unscripted
           \/ \E key \in Keys, n \in Nat \ {0}, call \in Nat : Scripts(key, call, n)
<1> DEFINE Goal == \/ Unscripted
                   \/ \E key \in Keys, n \in Nat \ {0}, call \in Nat : Scripts(key, call, n)
<1> USE AttemptsAssumption, BoundsAssumption DEF TypeOK, Unscripted
<1>1. CASE Tick BY <1>1 DEF Tick
<1>2. CASE UNCHANGED vars BY <1>2 DEF vars
<1>3. ASSUME NEW key \in Keys, NEW n \in 1..MaxAttempts, RunScript(key, n), now' = now
      PROVE  n \in Nat \ {0} /\ calls \in Nat /\ Scripted(key, calls, n)
  <2>1. calls \in Nat /\ n \in Nat \ {0}
    OBVIOUS
  <2>2. \A e \in runs[key] : e.call \in Nat /\ e.call < calls
    <3>1. runs[key] \subseteq Dated
      OBVIOUS
    <3>2. \A e \in Dated : e.call \in Nat
      BY DEF Dated
    <3>3. \A e \in runs[key] : e.call < calls
      BY ONLY RunsAreCalls, key \in Keys DEF RunsAreCalls
    <3> QED BY ONLY <3>1, <3>2, <3>3
  <2>3. \A e \in runs[key] : e.call # calls
    BY <2>1, <2>2
  <2> QED BY <1>3, <2>1, <2>3 DEF RunScript, Scripted, Runs
<1>4. ASSUME NEW key \in Keys, Allow(key) PROVE Goal
  <2>1. PICK n \in 1..MaxAttempts : RunScript(key, n) /\ Counted(key, n).count <= Max
    BY <1>4 DEF Allow
  <2>2. Granted(grants'[key], grants[key], now)
    <3> DEFINE g == [call |-> calls, attempt |-> 0, at |-> now]
    <3>1. g \in Dated /\ g.at = now /\ grants'[key] = grants[key] \cup {g}
      BY <1>4 DEF Allow, Dated
    <3> QED BY <3>1 DEF Granted
  <2>3. Scripts(key, calls, n)
    BY <1>3, <1>4, <2>1, <2>2 DEF Allow, Scripts
  <2> QED BY <1>3, <1>4, <2>1, <2>3 DEF Allow
<1>5. ASSUME NEW key \in Keys, Deny(key) PROVE Goal
  <2>1. PICK n \in 1..MaxAttempts : RunScript(key, n)
    BY <1>5 DEF Deny
  <2> QED BY <1>3, <1>5, <2>1 DEF Deny, Scripts, Granted
<1>6. ASSUME NEW key \in Keys, FailOpen(key) PROVE Goal
  <2>1. CASE UNCHANGED <<counter, runs>>
    BY <1>6, <2>1 DEF FailOpen
  <2>2. ASSUME NEW n \in 1..MaxAttempts, RunScript(key, n) PROVE Goal
    BY <1>3, <1>6, <2>2 DEF FailOpen, Scripts, Granted
  <2> QED BY <1>6, <2>1, <2>2 DEF FailOpen
<1>7. ASSUME NEW key \in Keys, NEW call \in 0..MaxCalls, LateRun(key, call) PROVE Goal
  <2>1. Runs(call, 1) = {[call |-> call, attempt |-> 1, at |-> now]}
    BY DEF Runs
  <2>2. \A e \in runs[key] : e.call # call
    BY <1>7 DEF LateRun, RunsAreCalls
  <2>3. Scripts(key, call, 1)
    BY <1>7, <2>1, <2>2 DEF LateRun, Scripts, Scripted, Granted
  <2> QED BY <2>3
<1> QED BY <1>1, <1>2, <1>4, <1>5, <1>6, <1>7 DEF Next

LEMMA RunsAreCallsKept ==
    ASSUME TypeOK, RunsAreCalls, [Next]_vars
    PROVE  RunsAreCalls'
<1> USE DEF TypeOK, RunsAreCalls, Dated
<1>1. CASE Tick BY <1>1 DEF Tick
<1>2. CASE UNCHANGED vars BY <1>2 DEF vars
<1>3. ASSUME NEW key \in Keys, NEW n \in 1..MaxAttempts, RunScript(key, n),
             BeginCall, late' = late, now' = now
      PROVE  RunsAreCalls'
  <2>1. /\ calls' = calls + 1 /\ calls \in Nat
        /\ \A k \in Keys : \A e \in runs'[k] :
             e \in runs[k] \/ (e.call = calls /\ e.at = now)
    BY <1>3, BoundsAssumption DEF BeginCall, RunScript
  <2>2. \A p \in late' : p[2] \in Nat /\ p[2] < calls
    BY <1>3
  <2> QED BY <1>3, <2>1, <2>2
<1>4. ASSUME NEW key \in Keys, Allow(key) \/ Deny(key) PROVE RunsAreCalls'
  BY <1>3, <1>4 DEF Allow, Deny
<1>5. ASSUME NEW key \in Keys, FailOpen(key) PROVE RunsAreCalls'
  <2>1. CASE UNCHANGED <<counter, runs, late>>
    BY <1>5, <2>1, BoundsAssumption DEF FailOpen, BeginCall
  <2>2. CASE late' = late \cup {<<key, calls>>} /\ UNCHANGED <<counter, runs>>
    BY <1>5, <2>2, BoundsAssumption DEF FailOpen, BeginCall
  <2> QED BY <1>3, <1>5, <2>1, <2>2 DEF FailOpen
<1>6. ASSUME NEW key \in Keys, NEW call \in 0..MaxCalls, LateRun(key, call)
      PROVE  RunsAreCalls'
  <2>1. \A k \in Keys : \A e \in runs'[k] :
          e \in runs[k] \/ (k = key /\ e.call = call /\ e.at = now)
    BY <1>6 DEF LateRun
  <2>2. call < calls
    BY <1>6 DEF LateRun
  <2> QED BY <1>6, <2>1, <2>2 DEF LateRun
<1> QED BY <1>1, <1>2, <1>4, <1>5, <1>6 DEF Next

LEMMA CountsRunsKept ==
    ASSUME TypeOK, RunsAreCalls, CountsRuns, [Next]_vars
    PROVE  CountsRuns'
<1>1. CASE Unscripted
  <2>1. \A k \in Keys : counter[k].expiry \in Nat /\ Born(counter[k]) <= now'
    <3> SUFFICES ASSUME NEW k \in Keys
                 PROVE  counter[k].expiry \in Nat /\ Born(counter[k]) <= now'
      OBVIOUS
    <3>1. counter[k].expiry \in Nat
      BY DEF TypeOK
    <3>2. Born(counter[k]) <= now
      BY DEF CountsRuns
    <3> QED BY <1>1, <3>1, <3>2, WindowAssumption DEF Unscripted, Born
  <2>2. counter' = counter /\ runs' = runs
    BY <1>1 DEF Unscripted
  <2> QED BY <2>1, <2>2 DEF CountsRuns, Born, Since
<1>2. ASSUME NEW key \in Keys, NEW n \in Nat \ {0}, NEW call \in Nat, Scripts(key, call, n)
      PROVE  CountsRuns'
  BY <1>2, CountKept DEF Scripts
<1> QED BY <1>1, <1>2, StepScripts

LEMMA GrantsFitKept ==
    ASSUME TypeOK, TypeOK', RunsAreCalls, CountsRuns, GrantsFit,
           \A k \in Keys : \A e \in grants[k] : e.at <= now, [Next]_vars
    PROVE  GrantsFit' /\ \A k \in Keys : \A e \in grants'[k] : e.at <= now'
<1>1. CASE Unscripted
  <2>1. GrantsFit'
    BY <1>1 DEF Unscripted, GrantsFit
  <2>2. \A k \in Keys : \A e \in grants'[k] : e.at \in Nat
    BY <1>1 DEF Unscripted, TypeOK, Dated
  <2> QED BY <1>1, <2>1, <2>2 DEF Unscripted
<1>2. ASSUME NEW key \in Keys, NEW n \in Nat \ {0}, NEW call \in Nat, Scripts(key, call, n)
      PROVE  GrantsFit' /\ \A k \in Keys : \A e \in grants'[k] : e.at <= now'
  <2> DEFINE c == counter[key]
             d == Counted(key, n)
  <2>1. /\ c \in [count : Nat, expiry : Nat] /\ d \in [count : Nat, expiry : Nat]
        /\ grants[key] \in SUBSET Dated /\ grants'[key] \in SUBSET Dated
        /\ now \in Nat /\ now' = now
        /\ counter' = [counter EXCEPT ![key] = d] /\ counter'[key] = d
    BY <1>2, CountedIs DEF TypeOK, Scripts, Scripted
  <2>2. /\ Fits(c, grants[key]) /\ Granted(grants'[key], grants[key], now)
        /\ grants'[key] # grants[key] => d.count <= Max
        /\ \A e \in grants[key] : e.at <= now
        /\ Born(c) <= now
    BY <1>2 DEF Scripts, GrantsFit, CountsRuns
  <2>3. Fits(d, grants'[key])
    <3>1. CASE d.count = n /\ Born(d) = now /\ (c.count = 0 \/ now >= c.expiry)
      BY <2>1, <2>2, <3>1, NewLifeFits
    <3>2. CASE d.count = c.count + n /\ d.expiry = c.expiry /\ c.count > 0 /\ now < c.expiry
      <4>1. d.count > c.count
        BY <2>1, <3>2
      <4> QED BY <2>1, <2>2, <3>2, <4>1, SameLifeFits
    <3> QED BY <3>1, <3>2, CountedIs
  <2>4. \A k \in Keys : k # key => counter'[k] = counter[k] /\ grants'[k] = grants[k]
    BY <1>2, <2>1 DEF Scripts, TypeOK
  <2>5. \A e \in grants'[key] : e.at <= now
    BY <2>1, <2>2 DEF Granted
  <2>6. GrantsFit'
    <3> SUFFICES ASSUME NEW k \in Keys PROVE Fits(counter'[k], grants'[k])
      BY DEF GrantsFit, Fits, Born, Since, After, Between, InWindow
    <3> QED BY <2>1, <2>3, <2>4 DEF GrantsFit
  <2> QED BY <2>1, <2>4, <2>5, <2>6
<1> QED BY <1>1, <1>2, StepScripts

(* A denial is written down with more than Max runs behind it, and runs    *)
(* are never forgotten.                                                    *)
LEMMA DenialsKept ==
    ASSUME TypeOK, TypeOK', RunsAreCalls, RunsAreCalls', CountsRuns, CountsRuns',
           DenialHasReason, [Next]_vars
    PROVE  DenialHasReason'
<1>1. \A k \in Keys : runs[k] \subseteq runs'[k]
  <2>1. CASE Unscripted
    BY <2>1 DEF Unscripted
  <2>2. ASSUME NEW key \in Keys, NEW n \in Nat \ {0}, NEW call \in Nat, Scripts(key, call, n)
        PROVE  \A k \in Keys : runs[k] \subseteq runs'[k]
    BY <2>2 DEF Scripts, Scripted, TypeOK
  <2> QED BY <2>1, <2>2, StepScripts
<1>2. ASSUME NEW k \in Keys, NEW at \in denials'[k], at \notin denials[k]
      PROVE  Cardinality(InWindow(runs'[k], at - Window)) > Max
  <2>1. /\ at = now /\ now' = now /\ counter'[k].count > Max /\ now < counter'[k].expiry
    <3>1. PICK key \in Keys : Deny(key)
      BY <1>2 DEF Next, Tick, Allow, FailOpen, LateRun, vars
    <3>2. k = key /\ at = now /\ now' = now
      BY <1>2, <3>1 DEF Deny, TypeOK
    <3>3. PICK n \in 1..MaxAttempts : RunScript(key, n) /\ Counted(key, n).count > Max
      BY <3>1 DEF Deny
    <3>4. n \in Nat \ {0}
      BY <3>3, AttemptsAssumption
    <3> QED BY <3>2, <3>3, <3>4, CountedIs DEF RunScript, TypeOK
  <2>2. Since(runs'[k], Born(counter'[k])) \subseteq InWindow(runs'[k], now - Window)
    <3>1. counter'[k].expiry \in Nat /\ now \in Nat /\ \A e \in runs'[k] : e.at \in Nat /\ e.at <= now
      <4>1. counter'[k].expiry \in Nat /\ now \in Nat /\ runs'[k] \subseteq Dated
        BY <2>1 DEF TypeOK
      <4>2. \A e \in runs'[k] : e.at <= now'
        BY DEF RunsAreCalls
      <4> QED BY <2>1, <4>1, <4>2 DEF Dated
    <3> QED BY <2>1, <3>1, WindowAssumption DEF Since, InWindow, Born
  <2>3. IsFiniteSet(InWindow(runs'[k], now - Window))
    BY FS_Subset DEF CountsRuns, InWindow
  <2>4. counter'[k].count <= Cardinality(Since(runs'[k], Born(counter'[k])))
    BY DEF CountsRuns, Since, Born
  <2>5. counter'[k].count \in Nat
    BY DEF TypeOK
  <2> QED BY <2>1, <2>2, <2>3, <2>4, <2>5, MoreAreNotFewer, MaxAssumption
<1>3. ASSUME NEW k \in Keys, NEW at \in denials[k]
      PROVE  Cardinality(InWindow(runs'[k], at - Window)) > Max
  <2>1. Cardinality(InWindow(runs[k], at - Window)) > Max
    BY DEF DenialHasReason
  <2>2. InWindow(runs[k], at - Window) \subseteq InWindow(runs'[k], at - Window)
    BY <1>1 DEF InWindow
  <2>3. IsFiniteSet(InWindow(runs'[k], at - Window))
    BY FS_Subset DEF CountsRuns, InWindow
  <2> QED BY <2>1, <2>2, <2>3, MoreAreNotFewer, MaxAssumption
<1> QED BY <1>2, <1>3 DEF DenialHasReason

-----------------------------------------------------------------------------

LEMMA InitHolds == Init => IInv
<1> SUFFICES ASSUME Init PROVE IInv
  OBVIOUS
<1> USE DEF Init
<1>1. TypeOK
  BY BoundsAssumption DEF TypeOK
<1>2. RunsAreCalls /\ DenialHasReason
  BY DEF RunsAreCalls, DenialHasReason
<1>3. \A t : Since({}, t) = {} /\ After({}, t) = {}
  BY DEF Since, After
<1>4. \A t, u : Between({}, t, u) = {} /\ InWindow({}, t) = {}
  BY DEF Between, InWindow
<1>5. CountsRuns
  BY <1>3, FS_EmptySet, WindowAssumption DEF CountsRuns, Born
<1>6. GrantsFit
  <2>1. Fits([count |-> 0, expiry |-> 0], {})
    <3> DEFINE c == [count |-> 0, expiry |-> 0]
    <3>1. c.count = 0
      OBVIOUS
    <3> HIDE DEF c
    <3>2. IsFiniteSet({}) /\ Cardinality({}) = 0
      BY FS_EmptySet
    <3>3. 0 <= Max /\ 0 <= Max - 1 /\ 0 <= 2 * Max - 1
      BY MaxAssumption
    <3>4. Fits(c, {})
      <4>1. \A t : Cardinality(Since({}, t)) = 0 /\ Cardinality(After({}, t)) = 0
        BY <1>3, <3>2
      <4>2. \A t, u : Cardinality(Between({}, t, u)) = 0 /\ Cardinality(InWindow({}, t)) = 0
        BY <1>4, <3>2
      <4>3. \A start \in Int : Cardinality(InWindow({}, start)) <= 2 * Max - 1
        BY <3>3, <4>2
      <4>4. \A start \in Int : Cardinality(Between({}, start, Born(c))) <= Max - 1
        BY <3>3, <4>2
      <4> QED BY ONLY <3>1, <3>2, <3>3, <4>1, <4>3, <4>4 DEF Fits
    <3> QED BY <3>4 DEF c
  <2> QED BY <2>1 DEF GrantsFit
<1> QED BY <1>1, <1>2, <1>5, <1>6 DEF IInv

LEMMA StepKeepsInvariant == IInv /\ [Next]_vars => IInv'
<1> SUFFICES ASSUME IInv, [Next]_vars PROVE IInv'
  OBVIOUS
<1> USE DEF IInv
<1>1. TypeOK'
  BY TypeCorrect
<1>2. RunsAreCalls' /\ CountsRuns'
  BY RunsAreCallsKept, CountsRunsKept
<1>3. DenialHasReason'
  BY <1>1, <1>2, DenialsKept
<1>4. GrantsFit' /\ \A k \in Keys : \A e \in grants'[k] : e.at <= now'
  BY <1>1, GrantsFitKept
<1> QED BY <1>1, <1>2, <1>3, <1>4

(* The inductive invariant of the counters and the calls.                  *)
THEOREM InvariantHolds == Spec => []IInv
BY InitHolds, StepKeepsInvariant, PTL DEF Spec

(* Counters, late runs and histories are well typed.                       *)
THEOREM CounterTypesHold == Spec => []TypeOK
<1>1. IInv => TypeOK
  BY DEF IInv
<1> QED BY <1>1, InvariantHolds, PTL

(* However often a call's script is repeated, and however late: a denial   *)
(* has more than Max runs in the window that ends with it.                 *)
THEOREM DenialsHaveReason == Spec => []DenialHasReason
<1>1. IInv => DenialHasReason
  BY DEF IInv
<1> QED BY <1>1, InvariantHolds, PTL

(* No window sees more requests let through on an answer than the rest of  *)
(* one counter and the whole of the next.                                  *)
THEOREM TwoCountersPerWindow == Spec => []AtMostTwoCountersPerWindow
<1>1. IInv => AtMostTwoCountersPerWindow
  BY WindowAssumption, BoundsAssumption DEF IInv, GrantsFit, Fits, AtMostTwoCountersPerWindow
<1> QED BY <1>1, InvariantHolds, PTL
=============================================================================
