-------------------------- MODULE OTPRateLimiter --------------------------
(***************************************************************************)
(* otpRateLimiter, the limiter of OTP requests in memory: per key it keeps *)
(* the dates of the requests it let through, and forgets those that have   *)
(* left the window whenever the key is asked for.  Allow holds a mutex     *)
(* throughout, the clock included, so a call is one step.                  *)
(*                                                                         *)
(* The code keeps a slice; here a request is numbered, and a slice is the  *)
(* set of its requests: the code only filters, appends and counts.         *)
(***************************************************************************)
EXTENDS Integers, FiniteSets

CONSTANTS
    Keys,        \* the normalized e-mail addresses
    Window,      \* the window, in ticks (10 minutes)
    Max,         \* requests let through per window (3)
    MaxTime,     \* bound on the clock
    MaxCalls,    \* bound on the requests of a behaviour
    MaxRestarts  \* bound on the restarts of the process

ASSUME WindowAssumption == Window \in Nat \ {0}
ASSUME MaxAssumption    == Max \in Nat \ {0}
ASSUME BoundsAssumption == MaxTime \in Nat /\ MaxCalls \in Nat /\ MaxRestarts \in Nat

VARIABLES
    now,       \* the clock
    hits,      \* l.hits
    calls,     \* requests so far
    restarts,  \* restarts so far
    grants,    \* history: the requests this process has let through
    answer     \* history: the last answer

vars == <<now, hits, calls, restarts, grants, answer>>

Hits == [n : Nat, at : Nat]

NoAnswer == [key |-> "none", allowed |-> FALSE]

TypeOK ==
    /\ now \in Nat
    /\ hits \in [Keys -> SUBSET Hits]
    /\ calls \in 0..MaxCalls
    /\ restarts \in 0..MaxRestarts
    /\ grants \in [Keys -> SUBSET Hits]
    /\ answer \in [key : Keys, allowed : BOOLEAN] \cup {NoAnswer}

Init ==
    /\ now = 0
    /\ hits = [k \in Keys |-> {}]
    /\ calls = 0
    /\ restarts = 0
    /\ grants = [k \in Keys |-> {}]
    /\ answer = NoAnswer

(* What is left of the entries of a key once the old ones are filtered out.*)
Kept(key) == {h \in hits[key] : h.at > now - Window}

(* Mutant of Hit: dated at the cutoff. *)
HitAtCutoff == [n |-> calls, at |-> now - Window]

Hit == [n |-> calls, at |-> now]

(* Mutant of Allow: off by one. *)
AllowOneMore(key) ==
    /\ calls < MaxCalls
    /\ calls' = calls + 1
    /\ Cardinality(Kept(key)) <= Max
    /\ hits' = [hits EXCEPT ![key] = Kept(key) \cup {Hit}]
    /\ grants' = [grants EXCEPT ![key] = grants[key] \cup {Hit}]
    /\ answer' = [key |-> key, allowed |-> TRUE]
    /\ UNCHANGED <<now, restarts>>

Allow(key) ==
    /\ calls < MaxCalls
    /\ calls' = calls + 1
    /\ Cardinality(Kept(key)) < Max
    /\ hits' = [hits EXCEPT ![key] = Kept(key) \cup {Hit}]
    /\ grants' = [grants EXCEPT ![key] = grants[key] \cup {Hit}]
    /\ answer' = [key |-> key, allowed |-> TRUE]
    /\ UNCHANGED <<now, restarts>>

(* Mutant of Deny: denied requests are counted too. *)
DenyCounting(key) ==
    /\ calls < MaxCalls
    /\ calls' = calls + 1
    /\ Cardinality(Kept(key)) >= Max
    /\ hits' = [hits EXCEPT ![key] = Kept(key) \cup {Hit}]
    /\ answer' = [key |-> key, allowed |-> FALSE]
    /\ UNCHANGED <<now, restarts, grants>>

Deny(key) ==
    /\ calls < MaxCalls
    /\ calls' = calls + 1
    /\ Cardinality(Kept(key)) >= Max
    /\ hits' = [hits EXCEPT ![key] = Kept(key)]
    /\ answer' = [key |-> key, allowed |-> FALSE]
    /\ UNCHANGED <<now, restarts, grants>>

(* The map goes with the process: its users start with a fresh budget.     *)
Restart ==
    /\ restarts < MaxRestarts
    /\ restarts' = restarts + 1
    /\ hits' = [k \in Keys |-> {}]
    /\ grants' = [k \in Keys |-> {}]
    /\ answer' = NoAnswer
    /\ UNCHANGED <<now, calls>>

Tick ==
    /\ now < MaxTime
    /\ now' = now + 1
    /\ UNCHANGED <<hits, calls, restarts, grants, answer>>

Next ==
    \/ Tick
    \/ Restart
    \/ \E key \in Keys : Allow(key) \/ Deny(key)

Spec == Init /\ [][Next]_vars

-----------------------------------------------------------------------------

(* In no window of the length of Window, wherever it starts, are more than *)
(* Max requests of a key let through by one process, although the entries  *)
(* are pruned only when the key is asked for.                              *)
GrantsInWindow(key, start) ==
    {g \in grants[key] : start < g.at /\ g.at <= start + Window}

AtMostMaxPerWindow ==
    \A key \in Keys, start \in -Window..MaxTime :
        Cardinality(GrantsInWindow(key, start)) <= Max

(* The limiter is a sliding window: it answers as one that forgets nothing *)
(* would, so pruning loses no request that still counts and keeps none     *)
(* that no longer does, and one key never uses up another's budget.        *)
Abstract == INSTANCE SlidingWindow WITH
    Keys <- Keys, Window <- Window, Max <- Max,
    now <- now, grants <- grants, answer <- answer
RefinesSlidingWindow == Abstract!WindowSpec
=============================================================================
