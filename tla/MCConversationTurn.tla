------------------------ MODULE MCConversationTurn ------------------------
(* Instances of ConversationTurn for TLC. *)
EXTENDS ConversationTurn, TLC

CONSTANT s1   \* a session id

Item(trait, value) == [trait |-> trait, value |-> value]

(* A value to clamp; a name the service does not keep; a trait twice;      *)
(* nothing.                                                                *)
NeuroticReport == {<<Item("neuroticism", 120)>>}
MixedReports   ==
    {<<Item("humor", 80), Item("neuroticism", 80), Item("openness", 120)>>,
     <<Item("neuroticism", 80), Item("humor", 80), Item("neuroticism", 120)>>, <<>>}

(* A message strong enough to be remembered, and one that is only in a     *)
(* tense turn.                                                             *)
TwoEmotions == {[raw |-> 80, category |-> "IRA"], [raw |-> 10, category |-> "NEUTRAL"]}

OneSession     == {s1}
WithAndWithout == {s1, NoSession}

RequestSymmetry == Permutations(Requests)
=============================================================================
