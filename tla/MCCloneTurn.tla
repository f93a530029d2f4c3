---------------------------- MODULE MCCloneTurn ----------------------------
(* Instances of CloneTurn for TLC. *)
EXTENDS CloneTurn, TLC

CONSTANTS rain, friends   \* two texts

Message(text, raw, category) ==
    [text |-> text, raw |-> raw, category |-> category, signal |-> FALSE,
     negates |-> FALSE, benign |-> FALSE, keyword |-> FALSE, names |-> {}]

(* One that is remembered; a wish; one about going out that names its bond;*)
(* one that negates its subject.  All but the first are faint.             *)
SomeMessages ==
    {Message(rain, 90, "IRA"),
     [Message(rain, 20, "NEUTRAL") EXCEPT !.benign = TRUE],
     [Message(friends, 20, "NEUTRAL") EXCEPT !.keyword = TRUE, !.names = {1}],
     [Message(friends, 20, "NEUTRAL") EXCEPT !.keyword = TRUE, !.negates = TRUE]}

Scene(content, importance, weight, category) ==
    [content |-> content, importance |-> importance, weight |-> weight,
     category |-> category, signal |-> FALSE]

(* One of high impact, a faint bad one, and one of the text of the first.  *)
SomeScenes ==
    {Scene(rain, 8, 10, "ODIO"), Scene(friends, 1, 1, "IRA"),
     Scene(rain, 5, 5, "NEUTRAL")}

(* A jealous bond, and one whose trust is low for a goal and not for a     *)
(* mode.                                                                   *)
SomeCharacters ==
    {[name |-> 1, trust |-> 40, intimacy |-> 70, respect |-> 50, signal |-> FALSE],
     [name |-> 2, trust |-> 44, intimacy |-> 65, respect |-> 50, signal |-> FALSE]}

(* The object asked for, its monologue over two lines, fenced, whole or    *)
(* ended anywhere; objects without a public text; prose before one.        *)
SomeAnswers ==
    CutOff(<<"fence", "open", "monologue", "thought", "public", "close", "fence">>)
      \cup {<<"open", "monologue", "thought", "close">>,
            <<"open", "monologue", "blank", "close">>,
            <<"prose", "open", "monologue", "blank", "close">>,
            <<"prose">>}

CloneSymmetry == Permutations(Clones)
=============================================================================
