--------------------------- MODULE SlidingWindow ---------------------------
(***************************************************************************)
(* What an OTP rate limiter promises, without saying how: a request of a   *)
(* key is let through exactly when fewer than Max requests of that key     *)
(* were let through in the last Window, for as long as the process lives.  *)
(***************************************************************************)
EXTENDS Integers, FiniteSets

CONSTANTS
    Keys,     \* the normalized e-mail addresses
    Window,   \* the length of the window, in ticks of the clock; at least 1
    Max       \* how many requests a window lets through; at least 1

VARIABLES
    now,     \* the clock
    grants,  \* per key, the requests let through, numbered and dated
    answer   \* the last answer given

windowVars == <<now, grants, answer>>

NoAnswer == [key |-> "none", allowed |-> FALSE]

WindowInit ==
    /\ now \in Nat
    /\ grants = [k \in Keys |-> {}]
    /\ answer = NoAnswer

Recent(requests) == {g \in requests : g.at > now - Window}

Decide(key) ==
    LET allowed == Cardinality(Recent(grants[key])) < Max
    IN  /\ answer' = [key |-> key, allowed |-> allowed]
        /\ IF allowed
           THEN \E g \in grants'[key] \ grants[key] :
                  /\ g.at = now
                  /\ grants' = [grants EXCEPT ![key] = grants[key] \cup {g}]
           ELSE UNCHANGED grants
        /\ UNCHANGED now

Forget ==
    /\ grants' = [k \in Keys |-> {}]
    /\ answer' = NoAnswer
    /\ UNCHANGED now

Pass ==
    /\ now' > now
    /\ UNCHANGED <<grants, answer>>

WindowNext ==
    \/ Pass
    \/ Forget
    \/ \E key \in Keys : Decide(key)

WindowSpec == WindowInit /\ [][WindowNext]_windowVars
=============================================================================
