------------------------ MODULE RedisOTPRateLimiter ------------------------
(***************************************************************************)
(* redisOTPRateLimiter, the limiter of OTP requests over Redis: a script   *)
(* increments the counter of the key and, when it has just created it,     *)
(* makes it expire a window later.  Allow compares the counter with Max,   *)
(* and lets the request through when there is no answer within 500 ms.     *)
(*                                                                         *)
(* Redis runs a script in one step.  The client repeats a script whose     *)
(* connection broke, so one call may run it several times; a call given up *)
(* may have run it, or leave one run under way that takes place later.     *)
(***************************************************************************)
EXTENDS Integers, FiniteSets

CONSTANTS
    Keys,         \* the normalized e-mail addresses
    Window,       \* the expiry of a counter, in ticks (10 minutes)
    Max,          \* requests let through per counter (3)
    MaxAttempts,  \* how often one call may run the script
    MaxTime,      \* bound on the clock
    MaxCalls      \* bound on the requests of a behaviour

ASSUME WindowAssumption   == Window \in Nat \ {0}
ASSUME MaxAssumption      == Max \in Nat \ {0}
ASSUME AttemptsAssumption == MaxAttempts \in Nat \ {0}
ASSUME BoundsAssumption   == MaxTime \in Nat /\ MaxCalls \in Nat

VARIABLES
    now,      \* the clock
    counter,  \* per key: its count and its expiry; no key, no count
    late,     \* the keys of the runs still under way, per call
    calls,    \* requests so far
    runs,     \* history: per key, the runs of the script, dated
    grants,   \* history: per key, the requests let through on an answer
    denials   \* history: per key, the dates of the denials

vars == <<now, counter, late, calls, runs, grants, denials>>

Dated == [call : Nat, attempt : Nat, at : Nat]

TypeOK ==
    /\ now \in Nat
    /\ counter \in [Keys -> [count : Nat, expiry : Nat]]
    /\ late \subseteq (Keys \X Nat)
    /\ calls \in 0..MaxCalls
    /\ runs \in [Keys -> SUBSET Dated]
    /\ grants \in [Keys -> SUBSET Dated]
    /\ denials \in [Keys -> SUBSET Nat]

Init ==
    /\ now = 0
    /\ counter = [k \in Keys |-> [count |-> 0, expiry |-> 0]]
    /\ late = {}
    /\ calls = 0
    /\ runs = [k \in Keys |-> {}]
    /\ grants = [k \in Keys |-> {}]
    /\ denials = [k \in Keys |-> {}]

(* Mutant of Counted: the key gets no EXPIRE: its TTL is -1. *)
CountedForGood(key, n) == [count |-> counter[key].count + n, expiry |-> -1]

(* Mutant of Counted: the count outlives the window. *)
CountedOn(key, n) == [count |-> counter[key].count + n, expiry |-> now + Window]

(* The counter of a key after the script has run n more times.             *)
Counted(key, n) ==
    IF counter[key].count = 0 \/ now >= counter[key].expiry
    THEN [count |-> n, expiry |-> now + Window]
    ELSE [counter[key] EXCEPT !.count = counter[key].count + n]

RunScript(key, n) ==
    /\ counter' = [counter EXCEPT ![key] = Counted(key, n)]
    /\ runs' = [runs EXCEPT ![key] = runs[key] \cup
                  {[call |-> calls, attempt |-> a, at |-> now] : a \in 1..n}]

BeginCall ==
    /\ calls < MaxCalls
    /\ calls' = calls + 1

(* Mutant of Allow: off by one. *)
AllowOneMore(key) ==
    /\ BeginCall
    /\ \E n \in 1..MaxAttempts :
         /\ RunScript(key, n)
         /\ Counted(key, n).count <= Max + 1
    /\ grants' = [grants EXCEPT ![key] = grants[key] \cup
                    {[call |-> calls, attempt |-> 0, at |-> now]}]
    /\ UNCHANGED <<now, late, denials>>

Allow(key) ==
    /\ BeginCall
    /\ \E n \in 1..MaxAttempts :
         /\ RunScript(key, n)
         /\ Counted(key, n).count <= Max
    /\ grants' = [grants EXCEPT ![key] = grants[key] \cup
                    {[call |-> calls, attempt |-> 0, at |-> now]}]
    /\ UNCHANGED <<now, late, denials>>

Deny(key) ==
    /\ BeginCall
    /\ \E n \in 1..MaxAttempts :
         /\ RunScript(key, n)
         /\ Counted(key, n).count > Max
    /\ denials' = [denials EXCEPT ![key] = denials[key] \cup {now}]
    /\ UNCHANGED <<now, late, grants>>

(* No answer: the request is let through, counted or not, now or later.    *)
FailOpen(key) ==
    /\ BeginCall
    /\ \/ UNCHANGED <<counter, runs, late>>
       \/ \E n \in 1..MaxAttempts : RunScript(key, n) /\ UNCHANGED late
       \/ late' = late \cup {<<key, calls>>} /\ UNCHANGED <<counter, runs>>
    /\ UNCHANGED <<now, grants, denials>>

LateRun(key, call) ==
    /\ <<key, call>> \in late
    /\ late' = late \ {<<key, call>>}
    /\ counter' = [counter EXCEPT ![key] = Counted(key, 1)]
    /\ runs' = [runs EXCEPT ![key] = runs[key] \cup
                  {[call |-> call, attempt |-> 1, at |-> now]}]
    /\ UNCHANGED <<now, calls, grants, denials>>

Tick ==
    /\ now < MaxTime
    /\ now' = now + 1
    /\ UNCHANGED <<counter, late, calls, runs, grants, denials>>

Next ==
    \/ Tick
    \/ \E key \in Keys : Allow(key) \/ Deny(key) \/ FailOpen(key)
    \/ \E key \in Keys, call \in 0..MaxCalls : LateRun(key, call)

Spec == Init /\ [][Next]_vars

-----------------------------------------------------------------------------

InWindow(events, start) == {e \in events : start < e.at /\ e.at <= start + Window}

(* The counter starts a window of its own, so the bound is not that of the *)
(* limiter in memory: a window, wherever it starts, sees at most           *)
(* 2 * Max - 1 requests of a key let through on an answer of Redis, the    *)
(* rest of one counter and the whole of the next.                          *)
AtMostTwoCountersPerWindow ==
    \A key \in Keys, start \in -Window..MaxTime :
        Cardinality(InWindow(grants[key], start)) <= 2 * Max - 1

(* A request is denied only if the script ran more than Max times for its  *)
(* key within the window that ends with the denial: denied requests do not *)
(* prolong the counter, and no key stays locked without fresh requests.    *)
DenialHasReason ==
    \A key \in Keys : \A at \in denials[key] :
        Cardinality(InWindow(runs[key], at - Window)) > Max
=============================================================================
