-------------------------- MODULE EmotionReaction --------------------------
(***************************************************************************)
(* The emotional arithmetic of one user message: how the intensity the LLM *)
(* reports becomes the intensity of a stored memory, and how a stored      *)
(* intensity reads when the memory is recalled.  No state: the modules     *)
(* that model a turn of the conversation use these operators.              *)
(*                                                                         *)
(* The code computes with float64.  Here every quantity is an integer over *)
(* a named scale, and where the last bit of a float can decide the result  *)
(* (int() of a product that is a whole number) the operator yields the set *)
(* of results the build can produce.                                       *)
(***************************************************************************)
EXTENDS Integers

(* The emotion categories an analysis can yield, up to case: one for each  *)
(* way the code tells categories apart.  "ENOJO" is negative for the       *)
(* narrative and unknown to the reaction engine; "FURIA", as any other     *)
(* that holds a tension word ("ADMIRACION" holds "ira"), is negative for   *)
(* neither.                                                                *)
Categories == {"", "NEUTRAL", "ALEGRIA", "IRA", "ODIO", "ENOJO", "FURIA", "Extreme"}

Clamp(v, lo, hi) == IF v < lo THEN lo ELSE IF v > hi THEN hi ELSE v

(* The scale of a resilience: 1.0 is 10000.                                *)
ResilienceUnit == 10000

(* Mutant of GetResilience: neuroticism counted as stability. *)
GetResilienceUninverted(big5) ==
    60 * big5.neuroticism + 25 * big5.conscientiousness + 15 * big5.extraversion

(* 60% stability, 25% conscientiousness, 15% extraversion.                 *)
GetResilience(big5) ==
    60 * (100 - big5.neuroticism) + 25 * big5.conscientiousness
        + 15 * big5.extraversion

(* The profile repository selects no trait columns and nothing else fills  *)
(* profile.Big5: whatever the traits are, Chat reacts with the zero value. *)
LoadedBig5 == [neuroticism |-> 0, conscientiousness |-> 0, extraversion |-> 0]

(* int(num / den) for num >= 0: a quotient that is a whole number may come *)
(* out of the float product one ulp short and lose one to the truncation   *)
(* (90 * 0.7 does).                                                        *)
Truncations(num, den) ==
    IF num > 0 /\ num % den = 0 THEN {num \div den, num \div den - 1}
                                ELSE {num \div den}

(* Mutant of AnalyzeEmotion: the noise gate keeps the category. *)
AnalyzeEmotionKeepingCategory(big5, raw, category) ==
    LET intensity == IF raw <= 0 THEN 10 ELSE raw
        scale     == 2 * ResilienceUnit
        damped    == intensity * (scale - GetResilience(big5))
        threshold == 20 * scale + 60 * GetResilience(big5)
    IN  IF damped < threshold /\ category # "Extreme"
        THEN {[intensity |-> 0, category |-> category]}
        ELSE [intensity : Truncations(damped, scale), category : {category}]

(* AnalyzeEmotion after the LLM has answered: damping by half the          *)
(* resilience, then the noise gate 20 + 30 * resilience, which only the    *)
(* category Extreme passes regardless.                                     *)
AnalyzeEmotion(big5, raw, category) ==
    LET intensity == IF raw <= 0 THEN 10 ELSE raw
        scale     == 2 * ResilienceUnit
        damped    == intensity * (scale - GetResilience(big5))
        threshold == 20 * scale + 60 * GetResilience(big5)
    IN  IF damped < threshold /\ category # "Extreme"
        THEN {[intensity |-> 0, category |-> "NEUTRAL"]}
        ELSE [intensity : Truncations(damped, scale),
              category  : {IF category = "" THEN "NEUTRAL" ELSE category}]

(* What Chat assumes when the analysis fails.                              *)
DefaultEmotion == [intensity |-> 10, category |-> "NEUTRAL"]

IsNegativeEmotion(category) == category \in {"IRA", "ODIO"}
IsNeutralEmotion(category)  == category \in {"", "NEUTRAL"}

(* Mutant of CalculateReaction: no threshold. *)
CalculateReactionUnrectified(intensity, big5) == IF intensity < 0 THEN 0 ELSE intensity

(* The ReLU of the reaction engine, rounded as Chat rounds it: the         *)
(* threshold is 30 * stability, stability = (100 - neuroticism) / 100.     *)
CalculateReaction(intensity, big5) ==
    LET stability == Clamp(100 - big5.neuroticism, 0, 100)
        effective == 10 * intensity - 3 * stability
    IN  IF effective < 0 THEN 0 ELSE (effective + 5) \div 10

TensionIntensityFloor == 35

(* A faint message is filtered out before the reaction unless the bond is  *)
(* tense; a tense bond never attends with less than the floor.             *)
IsFaint(emotion) ==
    /\ emotion.intensity < 30
    /\ IsNegativeEmotion(emotion.category) \/ IsNeutralEmotion(emotion.category)

(* Mutant of AttendedIntensity: the floor only for what would be filtered out. *)
AttendedIntensityOfFaint(emotion, tense) ==
    IF ~IsFaint(emotion) THEN emotion.intensity
    ELSE IF tense THEN TensionIntensityFloor ELSE 0

AttendedIntensity(emotion, tense) ==
    IF tense /\ emotion.intensity < TensionIntensityFloor
    THEN TensionIntensityFloor
    ELSE IF ~tense /\ IsFaint(emotion) THEN 0 ELSE emotion.intensity

(* The intensity Chat ends up with, and whether it calls the input trivial.*)
EffectiveIntensity(emotion, tense, big5) ==
    CalculateReaction(AttendedIntensity(emotion, tense), big5)

IsTrivial(emotion, tense, big5) ==
    /\ ~tense
    /\ \/ IsFaint(emotion)
       \/ /\ EffectiveIntensity(emotion, tense, big5) = 0
          /\ 2 * GetResilience(big5) >= ResilienceUnit

(* A memory is written exactly when this holds (and the writes succeed).   *)
IsRemembered(emotion, tense, big5) ==
    /\ ~IsTrivial(emotion, tense, big5)
    /\ EffectiveIntensity(emotion, tense, big5) > 0

(* Mutant of StoredIntensity: the short scale of the recall, applied when storing. *)
StoredIntensityRescaled(intensity) ==
    IF intensity <= 0 THEN 10
    ELSE IF intensity <= 10 THEN 10 * intensity ELSE Clamp(intensity, 0, 100)

(* What the database keeps of an intensity: clamped by InjectMemory, and   *)
(* a zero replaced by 10 in the repository.                                *)
StoredIntensity(intensity) ==
    IF intensity <= 0 THEN 10 ELSE Clamp(intensity, 0, 100)

(* Mutant of MemoryOf: the tenth rounded down, and no clamp. *)
MemoryOfRoundedDown(emotion, tense, big5) ==
    LET effective == EffectiveIntensity(emotion, tense, big5)
    IN  [importance |-> effective \div 10,
         weight     |-> effective \div 10,
         intensity  |-> StoredIntensity(effective),
         category   |-> emotion.category]

(* The memory Chat hands to InjectMemory: importance = weight = one tenth  *)
(* of the effective intensity, rounded up.                                 *)
MemoryOf(emotion, tense, big5) ==
    LET effective == EffectiveIntensity(emotion, tense, big5)
        weight    == Clamp((effective + 9) \div 10, 1, 10)
    IN  [importance |-> weight,
         weight     |-> weight,
         intensity  |-> StoredIntensity(effective),
         category   |-> emotion.category]

(* How a stored intensity reads when the memory is recalled.               *)
NormalizeIntensity(v) ==
    IF v < 0 THEN 0 ELSE IF v <= 10 THEN 10 * v ELSE Clamp(v, 0, 100)

(* The thresholds of the working memory, which are compared in the         *)
(* database with what is stored, not with the normalized intensity.        *)
IsHighImpact(memory) == memory.importance >= 8 \/ memory.intensity >= 60

(* isNegativeCategory of the narrative rules.                              *)
IsNegativeCategory(category) == category \in {"IRA", "ODIO", "ENOJO"}
=============================================================================
