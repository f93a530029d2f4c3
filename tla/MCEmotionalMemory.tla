------------------------- MODULE MCEmotionalMemory -------------------------
(* Instances of EmotionalMemory for TLC. *)
EXTENDS EmotionalMemory

(* The deployed clone, and a clone less stable than it.                    *)
SomeProfiles == {LoadedBig5, [LoadedBig5 EXCEPT !.neuroticism = 80]}

(* Just below and above the noise gate (54/55), the short scale (58/59),   *)
(* the activation of Extreme (45), a product the truncation cuts (90), and *)
(* the ends of the guide given to the LLM.                                 *)
GateIntensities  == {0, 45, 54, 55, 59, 90, 100}
=============================================================================
