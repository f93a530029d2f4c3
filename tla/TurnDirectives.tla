-------------------------- MODULE TurnDirectives --------------------------
(***************************************************************************)
(* What Chat tells the LLM to do in a turn: the goal DetermineGoal chooses *)
(* and the directives BuildClonePrompt derives from the narrative, the     *)
(* goal and the triviality of the input.  The wording is left out.         *)
(***************************************************************************)
EXTENDS NarrativeRules

Goals   == {"toxic", "grey rock", "default"}
Filters == {"none", "casual", "suspicious"}

(* The vectors of a profile without characters, or whose characters cannot *)
(* be read.                                                                *)
NoBond == [trust |-> 0, intimacy |-> 0]

(* Mutant of DetermineGoal: triviality first. *)
DetermineGoalTrivialFirst(bond, message, trivial, big5) ==
    IF trivial /\ big5.neuroticism < 60 THEN "grey rock"
    ELSE IF bond.trust < 45 /\ bond.intimacy > 60 /\ message.keyword THEN "toxic"
    ELSE "default"

(* A jealous bond and a message about going out come before triviality.    *)
DetermineGoal(bond, message, trivial, big5) ==
    IF bond.trust < 45 /\ bond.intimacy > 60 /\ message.keyword THEN "toxic"
    ELSE IF trivial /\ big5.neuroticism < 60 THEN "grey rock"
    ELSE "default"

(* The goal joins the narrative as its [OBJETIVO]; the text of the toxic   *)
(* one holds words of tension, that of the grey rock does not.             *)
Directives(narrative, goal, trivial) ==
    [goal     |-> goal,
     conflict |-> narrative.residue,
     filter   |-> IF ~trivial THEN "none"
                  ELSE IF narrative.tense \/ goal = "toxic" THEN "suspicious"
                  ELSE "casual"]
=============================================================================
