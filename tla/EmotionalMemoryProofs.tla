----------------------- MODULE EmotionalMemoryProofs -----------------------
(***************************************************************************)
(* Theorems about the emotional loop of a clone, for any profile, any      *)
(* ratings and categories of the analyst and any choice of memories: a     *)
(* tense turn is remembered, tension has roots, stronger messages make     *)
(* stronger memories, instability amplifies, and the clone as it is loaded *)
(* stores nothing of high impact.                                          *)
(*                                                                         *)
(* The argument: what is stored or being weighed is what the arithmetic    *)
(* makes of some message under the profile of the clone, so the properties *)
(* are facts about the arithmetic, proved as lemmas of their own.          *)
(***************************************************************************)
EXTENDS EmotionalMemory, TLAPS

(* The two kinds of turns.                                                 *)
Tense == TRUE
Calm  == FALSE

(* What the analysis of a message may come to, failures included.          *)
Emotions(profile, msg) ==
    AnalyzeEmotion(profile, msg.raw, msg.category) \cup {DefaultEmotion}

(* A memory is what a turn, tense or not, makes of a message.              *)
WasWeighed(m, profile) ==
    \E msg \in AnyMessages : \E e \in Emotions(profile, msg) :
        \/ IsRemembered(e, Tense, profile) /\ m = FeltRow(msg, e, Tense, profile)
        \/ IsRemembered(e, Calm, profile) /\ m = FeltRow(msg, e, Calm, profile)

LEMMA PickWeighed ==
    ASSUME NEW m, NEW profile, WasWeighed(m, profile)
    PROVE  \E msg, e :
             /\ msg \in AnyMessages /\ e \in Emotions(profile, msg)
             /\ \/ IsRemembered(e, Tense, profile) /\ m = FeltRow(msg, e, Tense, profile)
                \/ IsRemembered(e, Calm, profile) /\ m = FeltRow(msg, e, Calm, profile)
BY DEF WasWeighed

MemoriesWereWeighed ==
    \A m \in memories : m.origin = "seeded" \/ WasWeighed(m, big5)

(* The message of a turn is there, and the emotion is its own.             *)
TurnIsWeighed ==
    /\ stage # "idle" => message \in AnyMessages
    /\ stage = "analyzed" => emotion \in Emotions(big5, message)

(* A tense turn has something to show for it.                              *)
TensionIsRecalled ==
    tense /\ ~tenseBond =>
        \E m \in recalled :
            m.signal \/ m.category \in SignalCategories \/ LeavesResidue(m)

IInv == TypeOK /\ MemoriesWereWeighed /\ TurnIsWeighed /\ TensionIsRecalled

-----------------------------------------------------------------------------
(* The arithmetic.                                                         *)

Scale == 2 * ResilienceUnit

Rated(raw) == IF raw <= 0 THEN 10 ELSE raw

(* What is left of a rating, in units of 1 / Scale.                        *)
Damped(profile, raw) == Rated(raw) * (Scale - GetResilience(profile))

Gate(profile) == 20 * Scale + 60 * GetResilience(profile)

(* The weights of resilience make up one.                                  *)
Weighed(n, c, x) == 60 * (100 - n) + 25 * c + 15 * x

LEMMA WeightsMakeUpOne ==
    ASSUME NEW n \in 0..100, NEW c \in 0..100, NEW x \in 0..100
    PROVE  Weighed(n, c, x) \in 0..ResilienceUnit
<1>1. 60 * (100 - n) \in Int /\ 0 <= 60 * (100 - n) /\ 60 * (100 - n) <= 6000
  OBVIOUS
<1>2. 25 * c \in Int /\ 0 <= 25 * c /\ 25 * c <= 2500
  OBVIOUS
<1>3. 15 * x \in Int /\ 0 <= 15 * x /\ 15 * x <= 1500
  OBVIOUS
<1>4. Weighed(n, c, x) \in Int /\ 0 <= Weighed(n, c, x) /\ Weighed(n, c, x) <= 10000
  BY <1>1, <1>2, <1>3 DEF Weighed
<1>5. ResilienceUnit \in Int /\ Weighed(n, c, x) <= ResilienceUnit
  BY ONLY <1>4 DEF ResilienceUnit
<1> QED BY ONLY <1>4, <1>5

LEMMA ResilienceIsAPart ==
    ASSUME NEW b \in Big5Profile
    PROVE  GetResilience(b) \in 0..ResilienceUnit /\ b.neuroticism \in 0..100
<1>1. b.neuroticism \in 0..100 /\ b.conscientiousness \in 0..100 /\ b.extraversion \in 0..100
  BY DEF Big5Profile
<1>2. GetResilience(b) = Weighed(b.neuroticism, b.conscientiousness, b.extraversion)
  BY DEF GetResilience, Weighed
<1>3. Weighed(b.neuroticism, b.conscientiousness, b.extraversion) \in 0..ResilienceUnit
  BY ONLY <1>1, WeightsMakeUpOne
<1> QED BY <1>1, <1>2, <1>3

(* What damping leaves is at least half.                                   *)
LEMMA DampingLeaves ==
    ASSUME NEW b \in Big5Profile
    PROVE  /\ Scale - GetResilience(b) \in Nat /\ Scale - GetResilience(b) > 0
           /\ Scale = 20000 /\ GetResilience(b) \in Nat /\ Gate(b) \in Nat
<1>1. Scale = 20000
  BY DEF Scale, ResilienceUnit
<1>2. GetResilience(b) \in Int /\ 0 <= GetResilience(b) /\ GetResilience(b) <= 10000
  <2>1. ResilienceUnit \in Int
    BY DEF ResilienceUnit
  <2>2. /\ GetResilience(b) \in Int /\ 0 <= GetResilience(b)
        /\ GetResilience(b) <= ResilienceUnit
    BY ONLY <2>1, b \in Big5Profile, ResilienceIsAPart
  <2> QED BY ONLY <2>2 DEF ResilienceUnit
<1> DEFINE r == GetResilience(b)
<1>3. Gate(b) = 20 * Scale + 60 * r
  BY DEF Gate
<1> HIDE DEF r
<1>4. r \in Int /\ 0 <= r /\ r <= 10000
  BY <1>2 DEF r
<1>5. 20000 - r \in Nat /\ 20000 - r > 0 /\ r \in Nat /\ 20 * 20000 + 60 * r \in Nat
  BY <1>4
<1>6. Scale - GetResilience(b) = 20000 - r /\ GetResilience(b) = r
  BY <1>1 DEF r
<1> QED BY <1>1, <1>3, <1>5, <1>6

(* A larger rating is a larger product.                                    *)
LEMMA ProductsGrow ==
    ASSUME NEW i \in Nat, NEW j \in Nat, NEW k \in Nat, k > 0
    PROVE  i * k \in Nat /\ (i < j => i * k < j * k)
OBVIOUS

(* ... and so is one of the same rating that is damped less.               *)
LEMMA FactorsGrow ==
    ASSUME NEW i \in Nat, i > 0, NEW k \in Nat, NEW l \in Nat, k < l
    PROVE  i * k < i * l
OBVIOUS

(* A truncation is the whole part, or one less for a whole number.         *)
LEMMA TruncationIs ==
    ASSUME NEW num \in Nat, NEW x \in Truncations(num, Scale)
    PROVE  x \in Nat /\ Scale * x <= num /\ num <= Scale * x + Scale
<1>1. Scale = 20000
  BY DEF Scale, ResilienceUnit
<1>2. /\ num \div 20000 \in Nat
      /\ num % 20000 \in Int /\ 0 <= num % 20000 /\ num % 20000 < 20000
  OBVIOUS
<1>3. num = 20000 * (num \div 20000) + (num % 20000)
  OBVIOUS
<1>4. CASE num > 0 /\ num % 20000 = 0 /\ x = num \div 20000 - 1
  BY <1>1, <1>2, <1>3, <1>4
<1>5. CASE x = num \div 20000
  BY <1>1, <1>2, <1>3, <1>5
<1> QED BY <1>1, <1>4, <1>5 DEF Truncations

(* Truncation keeps the order, whichever way whole numbers go.             *)
LEMMA TruncationsGrow ==
    ASSUME NEW a \in Nat, NEW b \in Nat, a < b,
           NEW x \in Truncations(a, Scale), NEW y \in Truncations(b, Scale)
    PROVE  x <= y
<1>1. x \in Nat /\ Scale * x <= a /\ y \in Nat /\ b <= Scale * y + Scale
  BY TruncationIs
<1> QED BY <1>1 DEF Scale, ResilienceUnit

(* What the noise gate has stopped, and what has passed it.                *)
Stopped(profile, raw, category, e) ==
    /\ e.intensity = 0 /\ e.category = "NEUTRAL"
    /\ Damped(profile, raw) < Gate(profile) /\ category # "Extreme"

Passed(profile, raw, category, e) ==
    /\ e.intensity \in Truncations(Damped(profile, raw), Scale)
    /\ e.category = IF category = "" THEN "NEUTRAL" ELSE category
    /\ Damped(profile, raw) >= Gate(profile) \/ category = "Extreme"

(* An analysis is one or the other.                                        *)
LEMMA AnalysisIs ==
    ASSUME NEW b \in Big5Profile, NEW raw \in Int, NEW category \in Categories,
           NEW e \in AnalyzeEmotion(b, raw, category)
    PROVE  /\ Damped(b, raw) \in Nat /\ e \in [intensity : Nat, category : Categories]
           /\ Stopped(b, raw, category, e) \/ Passed(b, raw, category, e)
<1>1. /\ Rated(raw) \in Nat /\ GetResilience(b) \in Nat /\ Gate(b) \in Nat
      /\ Scale - GetResilience(b) \in Nat /\ Scale - GetResilience(b) > 0
  BY DampingLeaves DEF Rated
<1>2. Damped(b, raw) \in Nat
  BY <1>1, ProductsGrow DEF Damped
<1>3. AnalyzeEmotion(b, raw, category) =
        IF Damped(b, raw) < Gate(b) /\ category # "Extreme"
        THEN {[intensity |-> 0, category |-> "NEUTRAL"]}
        ELSE [intensity : Truncations(Damped(b, raw), Scale),
              category  : {IF category = "" THEN "NEUTRAL" ELSE category}]
  BY DEF AnalyzeEmotion, Damped, Rated, Gate, Scale
<1>4. CASE Damped(b, raw) < Gate(b) /\ category # "Extreme"
  <2>1. e = [intensity |-> 0, category |-> "NEUTRAL"]
    BY <1>3, <1>4
  <2> QED BY <1>2, <1>4, <2>1 DEF Categories, Stopped
<1>5. CASE ~(Damped(b, raw) < Gate(b) /\ category # "Extreme")
  <2>1. /\ e.intensity \in Truncations(Damped(b, raw), Scale)
        /\ e.category = IF category = "" THEN "NEUTRAL" ELSE category
    <3>1. e \in [intensity : Truncations(Damped(b, raw), Scale),
                 category  : {IF category = "" THEN "NEUTRAL" ELSE category}]
      BY <1>3, <1>5
    <3> QED BY <3>1
  <2>2. e \in [intensity : Nat, category : Categories]
    <3>1. Truncations(Damped(b, raw), Scale) \subseteq Nat
      BY <1>2, TruncationIs
    <3>2. (IF category = "" THEN "NEUTRAL" ELSE category) \in Categories
      BY DEF Categories
    <3>3. e \in [intensity : Truncations(Damped(b, raw), Scale),
                 category  : {IF category = "" THEN "NEUTRAL" ELSE category}]
      BY <1>3, <1>5
    <3> QED BY <3>1, <3>2, <3>3
  <2>3. Damped(b, raw) >= Gate(b) \/ category = "Extreme"
    BY <1>1, <1>2, <1>5
  <2> QED BY <1>2, <2>1, <2>2, <2>3 DEF Passed
<1> QED BY <1>4, <1>5

(* A stronger message of the same category is no weaker after damping.     *)
LEMMA DampedGrows ==
    ASSUME NEW b \in Big5Profile, NEW r \in Int, NEW s \in Int, 0 < r, r < s
    PROVE  Damped(b, r) < Damped(b, s)
<1>1. Rated(r) = r /\ Rated(s) = s /\ r \in Nat /\ s \in Nat
  BY DEF Rated
<1>2. Scale - GetResilience(b) \in Nat /\ Scale - GetResilience(b) > 0
  BY DampingLeaves
<1> QED BY <1>1, <1>2, ProductsGrow DEF Damped

(* The ReLU keeps the order of intensities and turns that of stabilities.  *)
LEMMA ReactionIs ==
    ASSUME NEW b \in Big5Profile, NEW x \in Int
    PROVE  /\ CalculateReaction(x, b) \in Nat
           /\ x <= 0 => CalculateReaction(x, b) = 0
           /\ x >= 35 => CalculateReaction(x, b) > 0
           /\ x >= 0 => CalculateReaction(x, b) <= x
BY DEF CalculateReaction, Clamp, Big5Profile

LEMMA ReactionGrows ==
    ASSUME NEW b \in Big5Profile, NEW c \in Big5Profile, NEW x \in Int, NEW y \in Int,
           x <= y, b.neuroticism <= c.neuroticism
    PROVE  CalculateReaction(x, b) <= CalculateReaction(y, c)
BY DEF CalculateReaction, Clamp, Big5Profile

-----------------------------------------------------------------------------
(* What becomes of a message.                                              *)

LEMMA EmotionIs ==
    ASSUME NEW b \in Big5Profile, NEW msg \in AnyMessages, NEW e \in Emotions(b, msg)
    PROVE  e \in [intensity : Nat, category : Categories]
<1>1. msg.raw \in Int /\ msg.category \in Categories
  BY RawIntensitiesAssumption, RawCategoriesAssumption DEF AnyMessages
<1>2. CASE e = DefaultEmotion
  BY <1>2 DEF DefaultEmotion, Categories
<1>3. CASE e \in AnalyzeEmotion(b, msg.raw, msg.category)
  BY <1>1, <1>3, AnalysisIs
<1> QED BY <1>2, <1>3 DEF Emotions

LEMMA AttentionIs ==
    ASSUME NEW e \in [intensity : Nat, category : Categories]
    PROVE  /\ AttendedIntensity(e, Tense) = IF e.intensity < 35 THEN 35 ELSE e.intensity
           /\ AttendedIntensity(e, Calm) = IF IsFaint(e) THEN 0 ELSE e.intensity
           /\ AttendedIntensity(e, Tense) \in Nat /\ AttendedIntensity(e, Tense) >= 35
           /\ AttendedIntensity(e, Calm) \in Nat
<1>1. /\ AttendedIntensity(e, Tense) = IF e.intensity < 35 THEN 35 ELSE e.intensity
      /\ AttendedIntensity(e, Calm) = IF IsFaint(e) THEN 0 ELSE e.intensity
  BY DEF AttendedIntensity, TensionIntensityFloor, Tense, Calm
<1> QED BY <1>1

LEMMA EffectIs ==
    ASSUME NEW b \in Big5Profile, NEW e \in [intensity : Nat, category : Categories]
    PROVE  /\ EffectiveIntensity(e, Tense, b) \in Nat \ {0}
           /\ EffectiveIntensity(e, Tense, b) = CalculateReaction(AttendedIntensity(e, Tense), b)
           /\ EffectiveIntensity(e, Calm, b) \in Nat
           /\ EffectiveIntensity(e, Calm, b) = CalculateReaction(AttendedIntensity(e, Calm), b)
           /\ IsFaint(e) => EffectiveIntensity(e, Calm, b) = 0
<1>1. IsFaint(e) => AttendedIntensity(e, Calm) = 0
  BY AttentionIs
<1> QED BY <1>1, AttentionIs, ReactionIs DEF EffectiveIntensity

(* The columns of a memory that was felt.                                  *)
LEMMA FeltRowIs ==
    ASSUME NEW msg, NEW e, NEW t, NEW b, NEW m, m = FeltRow(msg, e, t, b)
    PROVE  /\ m.intensity = StoredIntensity(EffectiveIntensity(e, t, b))
           /\ m.importance = Clamp((EffectiveIntensity(e, t, b) + 9) \div 10, 1, 10)
           /\ m.weight = m.importance
           /\ m.category = e.category /\ m.signal = msg.signal /\ m.raw = msg.raw
           /\ m.origin = IF AttendedIntensity(e, t) = e.intensity THEN "felt" ELSE "floored"
           /\ m = [importance |-> m.importance, weight |-> m.weight,
                   intensity |-> m.intensity, category |-> m.category,
                   signal |-> m.signal, origin |-> m.origin, raw |-> m.raw]
BY DEF FeltRow, Row, MemoryOf

(* What is stored of an effective intensity.                               *)
LEMMA StoredIs ==
    ASSUME NEW x \in Nat
    PROVE  /\ StoredIntensity(x) \in 1..100 /\ Clamp((x + 9) \div 10, 1, 10) \in 1..10
           /\ x > 0 => StoredIntensity(x) <= x
           /\ x < 60 => StoredIntensity(x) < 60 /\ Clamp((x + 9) \div 10, 1, 10) < 8
           /\ x \in 1..100 => StoredIntensity(x) = x
BY DEF StoredIntensity, Clamp

LEMMA StoredGrows ==
    ASSUME NEW x \in Nat, NEW y \in Nat, 0 < x, x <= y
    PROVE  /\ StoredIntensity(x) <= StoredIntensity(y)
           /\ Clamp((x + 9) \div 10, 1, 10) <= Clamp((y + 9) \div 10, 1, 10)
BY DEF StoredIntensity, Clamp

(* Whatever is remembered of a message is a row of the table.              *)
LEMMA FeltRowIsMemory ==
    ASSUME NEW b \in Big5Profile, NEW msg \in AnyMessages, NEW e \in Emotions(b, msg),
           NEW t, EffectiveIntensity(e, t, b) \in Nat
    PROVE  FeltRow(msg, e, t, b) \in Memories /\ FeltRow(msg, e, t, b).origin # "seeded"
<1> DEFINE m == FeltRow(msg, e, t, b)
<1>1. e \in [intensity : Nat, category : Categories]
  BY EmotionIs
<1>2. m.intensity \in 1..100 /\ m.importance \in 1..10 /\ m.weight \in 1..10
  BY StoredIs, FeltRowIs
<1>3. m.signal \in BOOLEAN /\ m.raw \in Int /\ m.category \in Categories
  BY <1>1, FeltRowIs, RawIntensitiesAssumption, SignalsAssumption DEF AnyMessages
<1>4. m.origin \in {"felt", "floored"}
  BY FeltRowIs
<1>5. m = [importance |-> m.importance, weight |-> m.weight,
           intensity |-> m.intensity, category |-> m.category,
           signal |-> m.signal, origin |-> m.origin, raw |-> m.raw]
  BY FeltRowIs
<1> HIDE DEF m
<1> QED BY <1>2, <1>3, <1>4, <1>5 DEF Memories, m

(* ... and what the director seeds is.                                     *)
LEMMA SeededRowIsMemory ==
    ASSUME NEW importance \in Int, NEW weight \in Int, NEW category \in Categories,
           NEW signal \in BOOLEAN
    PROVE  /\ SeededRow(importance, weight, category, signal) \in Memories
           /\ SeededRow(importance, weight, category, signal).origin = "seeded"
<1>1. Clamp(importance, 1, 10) \in 1..10 /\ Clamp(weight, 1, 10) \in 1..10
  BY DEF Clamp
<1>2. StoredIntensity(IF weight < 1 THEN 10 ELSE 10 * weight) \in 1..100
  BY DEF StoredIntensity, Clamp
<1> QED BY <1>1, <1>2 DEF SeededRow, Row, Memories
-----------------------------------------------------------------------------
(* The properties, as facts about what becomes of a message.               *)

(* The floor, the ReLU and the triviality filter never cancel out.         *)
LEMMA TenseIsRemembered ==
    ASSUME NEW b \in Big5Profile, NEW e \in [intensity : Nat, category : Categories]
    PROVE  IsRemembered(e, Tense, b)
<1>1. EffectiveIntensity(e, Tense, b) > 0
  BY EffectIs
<1> QED BY <1>1 DEF IsRemembered, IsTrivial, Tense

(* What the noise gate left nothing of is not remembered as it is.         *)
LEMMA FaintIsNotFelt ==
    ASSUME NEW b \in Big5Profile, NEW e \in [intensity : Nat, category : Categories],
           e.intensity < 30, e.category = "NEUTRAL"
    PROVE  ~IsRemembered(e, Calm, b) /\ AttendedIntensity(e, Tense) # e.intensity
<1>1. IsFaint(e)
  BY DEF IsFaint, IsNeutralEmotion
<1>2. EffectiveIntensity(e, Calm, b) = 0
  BY <1>1, EffectIs
<1>3. AttendedIntensity(e, Tense) = 35
  BY AttentionIs
<1> QED BY <1>2, <1>3 DEF IsRemembered

(* What is not faint has passed the noise gate.                            *)
LEMMA FeltIsUngated ==
    ASSUME NEW b \in Big5Profile, NEW msg \in AnyMessages, NEW e \in Emotions(b, msg),
           ~(e.intensity < 30 /\ e.category = "NEUTRAL")
    PROVE  Damped(b, msg.raw) \in Nat /\ Passed(b, msg.raw, msg.category, e)
<1>1. msg.raw \in Int /\ msg.category \in Categories
  BY RawIntensitiesAssumption, RawCategoriesAssumption DEF AnyMessages
<1>2. e # DefaultEmotion
  BY DEF DefaultEmotion
<1>3. e \in AnalyzeEmotion(b, msg.raw, msg.category)
  BY <1>2 DEF Emotions
<1>4. ~Stopped(b, msg.raw, msg.category, e)
  BY DEF Stopped
<1> QED BY <1>1, <1>3, <1>4, AnalysisIs

(* The memory of a composed clone that tenses a later turn was felt.       *)
LEMMA WhatTensesWasFelt ==
    ASSUME NEW b \in Big5Profile, IsComposed(b), NEW m, WasWeighed(m, b),
           m.category \in SignalCategories \/ LeavesResidue(m)
    PROVE  m.origin = "felt" /\ m.category # "NEUTRAL"
<1>1. PICK msg, e : /\ msg \in AnyMessages /\ e \in Emotions(b, msg)
                    /\ \/ IsRemembered(e, Tense, b) /\ m = FeltRow(msg, e, Tense, b)
                       \/ IsRemembered(e, Calm, b) /\ m = FeltRow(msg, e, Calm, b)
  BY PickWeighed
<1>2. m.category # "NEUTRAL" /\ m.category = e.category
  BY <1>1, FeltRowIs DEF SignalCategories, LeavesResidue
<1>3. e \in [intensity : Nat, category : Categories]
  BY <1>1, EmotionIs
<1>4. /\ Damped(b, msg.raw) \in Nat
      /\ e.intensity \in Truncations(Damped(b, msg.raw), Scale)
      /\ Damped(b, msg.raw) >= Gate(b) \/ msg.category = "Extreme"
      /\ e.category = IF msg.category = "" THEN "NEUTRAL" ELSE msg.category
  BY <1>1, <1>2, FeltIsUngated DEF Passed
<1>5. CASE IsRemembered(e, Calm, b) /\ m = FeltRow(msg, e, Calm, b)
  <2>1. EffectiveIntensity(e, Calm, b) > 0
    BY <1>5 DEF IsRemembered
  <2>2. ~IsFaint(e)
    BY <1>3, <2>1, EffectIs
  <2>3. AttendedIntensity(e, Calm) = e.intensity
    BY <1>3, <2>2, AttentionIs
  <2> QED BY <1>2, <1>5, <2>3, FeltRowIs
<1>6. CASE m = FeltRow(msg, e, Tense, b) /\ e.intensity >= 35
  <2>1. AttendedIntensity(e, Tense) = e.intensity
    BY <1>3, <1>6, AttentionIs
  <2> QED BY <1>2, <1>6, <2>1, FeltRowIs
<1>7. CASE m = FeltRow(msg, e, Tense, b) /\ e.intensity < 35 /\ msg.category = "Extreme"
  <2>1. e.category = "Extreme" /\ AttendedIntensity(e, Tense) = 35
    BY <1>3, <1>4, <1>7, AttentionIs
  <2>2. EffectiveIntensity(e, Tense, b) = CalculateReaction(35, b)
    BY <2>1 DEF EffectiveIntensity
  <2>3. CalculateReaction(35, b) \in 1..35
    BY ReactionIs
  <2>4. m.intensity = CalculateReaction(35, b)
    BY <1>7, <2>2, <2>3, FeltRowIs, StoredIs
  <2>5. NormalizeIntensity(CalculateReaction(35, b)) < 60
    BY DEF IsComposed, TensionIntensityFloor
  <2>6. NormalizeIntensity(CalculateReaction(35, b)) \in Int
    BY <2>3 DEF NormalizeIntensity, Clamp
  <2> QED BY <1>2, <2>1, <2>4, <2>5, <2>6 DEF SignalCategories, LeavesResidue
<1>8. CASE e.intensity < 35 /\ msg.category # "Extreme"
  <2> DEFINE d == Damped(b, msg.raw)
             r == GetResilience(b)
             x == e.intensity
             i == Rated(msg.raw)
  <2>1. x \in Nat /\ x < 35 /\ d \in Nat
    BY <1>3, <1>4, <1>8
  <2>2. Scale = 20000 /\ r \in Nat /\ r >= 5000
    <3>1. 2 * r >= 10000
      BY DEF IsComposed, ResilienceUnit
    <3> QED BY <3>1, DampingLeaves
  <2>3. d >= 20 * 20000 + 60 * r
    <3>1. d >= Gate(b)
      BY <1>4, <1>8
    <3> QED BY <2>2, <3>1 DEF Gate
  <2>4. d <= 20000 * x + 20000
    <3>1. d <= Scale * x + Scale
      BY <1>4, TruncationIs
    <3> QED BY <2>2, <3>1
  <2>5. d = i * (20000 - r)
    BY <2>2 DEF Damped
  <2>6. i \in Int
    <3>1. msg.raw \in Int
      BY <1>1, RawIntensitiesAssumption DEF AnyMessages
    <3> QED BY <3>1 DEF Rated
  <2> HIDE DEF d, r, x, i
  <2>7. r = 5000 /\ d = 700000
    BY <2>1, <2>2, <2>3, <2>4
  <2>8. d = i * 15000
    BY <2>5, <2>7
  <2> QED BY <2>6, <2>7, <2>8
<1> QED BY <1>1, <1>3, <1>5, <1>6, <1>7, <1>8

(* Of two memories that were felt, that of the stronger message is no less.*)
LEMMA StrongerIsStored ==
    ASSUME NEW b \in Big5Profile, NEW m, NEW n, WasWeighed(m, b), WasWeighed(n, b),
           m.origin = "felt", n.origin = "felt", m.category = n.category,
           0 < m.raw, m.raw < n.raw
    PROVE  m.intensity <= n.intensity /\ m.importance <= n.importance
<1>1. ASSUME NEW o, WasWeighed(o, b), o.origin = "felt"
      PROVE  \E x \in Nat :
               /\ o.raw \in Int /\ Damped(b, o.raw) \in Nat
               /\ x \in Truncations(Damped(b, o.raw), Scale)
               /\ CalculateReaction(x, b) > 0
               /\ o.intensity = StoredIntensity(CalculateReaction(x, b))
               /\ o.importance = Clamp((CalculateReaction(x, b) + 9) \div 10, 1, 10)
  <2>1. PICK msg, e : /\ msg \in AnyMessages /\ e \in Emotions(b, msg)
                      /\ \/ IsRemembered(e, Tense, b) /\ o = FeltRow(msg, e, Tense, b)
                         \/ IsRemembered(e, Calm, b) /\ o = FeltRow(msg, e, Calm, b)
    BY <1>1, PickWeighed
  <2>2. e \in [intensity : Nat, category : Categories]
    BY <2>1, EmotionIs
  <2>3. PICK t : /\ IsRemembered(e, t, b) /\ o = FeltRow(msg, e, t, b)
                 /\ AttendedIntensity(e, t) = e.intensity
                 /\ ~(e.intensity < 30 /\ e.category = "NEUTRAL")
    <3>1. CASE IsRemembered(e, Tense, b) /\ o = FeltRow(msg, e, Tense, b)
      <4>1. AttendedIntensity(e, Tense) = e.intensity
        BY <1>1, <3>1, FeltRowIs
      <4> QED BY <2>2, <3>1, <4>1, FaintIsNotFelt
    <3>2. CASE IsRemembered(e, Calm, b) /\ o = FeltRow(msg, e, Calm, b)
      <4>1. AttendedIntensity(e, Calm) = e.intensity
        BY <1>1, <3>2, FeltRowIs
      <4> QED BY <2>2, <3>2, <4>1, FaintIsNotFelt
    <3> QED BY <2>1, <3>1, <3>2
  <2>4. msg.raw \in Int
    BY <2>1, RawIntensitiesAssumption DEF AnyMessages
  <2>5. Damped(b, msg.raw) \in Nat /\ e.intensity \in Truncations(Damped(b, msg.raw), Scale)
    BY <2>1, <2>3, FeltIsUngated DEF Passed
  <2>6. EffectiveIntensity(e, t, b) = CalculateReaction(e.intensity, b)
    BY <2>3 DEF EffectiveIntensity
  <2>7. CalculateReaction(e.intensity, b) > 0
    BY <2>3, <2>6 DEF IsRemembered
  <2>8. /\ o.raw = msg.raw
        /\ o.intensity = StoredIntensity(CalculateReaction(e.intensity, b))
        /\ o.importance = Clamp((CalculateReaction(e.intensity, b) + 9) \div 10, 1, 10)
    BY <2>3, <2>6, FeltRowIs
  <2> QED BY <2>2, <2>4, <2>5, <2>7, <2>8
<1>2. PICK x \in Nat : /\ m.raw \in Int /\ Damped(b, m.raw) \in Nat
                       /\ x \in Truncations(Damped(b, m.raw), Scale)
                       /\ CalculateReaction(x, b) > 0
                       /\ m.intensity = StoredIntensity(CalculateReaction(x, b))
                       /\ m.importance = Clamp((CalculateReaction(x, b) + 9) \div 10, 1, 10)
  BY <1>1
<1>3. PICK y \in Nat : /\ n.raw \in Int /\ Damped(b, n.raw) \in Nat
                       /\ y \in Truncations(Damped(b, n.raw), Scale)
                       /\ CalculateReaction(y, b) > 0
                       /\ n.intensity = StoredIntensity(CalculateReaction(y, b))
                       /\ n.importance = Clamp((CalculateReaction(y, b) + 9) \div 10, 1, 10)
  BY <1>1
<1>4. x <= y
  BY <1>2, <1>3, DampedGrows, TruncationsGrow
<1>5. /\ CalculateReaction(x, b) \in Nat /\ CalculateReaction(y, b) \in Nat
      /\ CalculateReaction(x, b) <= CalculateReaction(y, b)
  BY <1>4, ReactionIs, ReactionGrows DEF Big5Profile
<1> QED BY <1>2, <1>3, <1>5, StoredGrows
(* No message rated within the guide is stored strongly by the clone as it *)
(* is loaded.                                                              *)
LEMMA LoadedStoresFaintly ==
    ASSUME NEW m, WasWeighed(m, LoadedBig5), m.raw <= 100
    PROVE  ~IsHighImpact(m)
<1> DEFINE b == LoadedBig5
<1>0. b \in Big5Profile /\ b.neuroticism = 0 /\ GetResilience(b) = 6000
  BY DEF Big5Profile, LoadedBig5, GetResilience
<1> HIDE DEF b
<1>1. PICK msg, e : /\ msg \in AnyMessages /\ e \in Emotions(b, msg)
                    /\ \/ IsRemembered(e, Tense, b) /\ m = FeltRow(msg, e, Tense, b)
                       \/ IsRemembered(e, Calm, b) /\ m = FeltRow(msg, e, Calm, b)
  BY PickWeighed DEF b
<1>2. e \in [intensity : Nat, category : Categories]
  BY <1>0, <1>1, EmotionIs
<1>3. msg.raw \in Int /\ msg.raw <= 100 /\ msg.category \in Categories
  BY <1>1, FeltRowIs, RawIntensitiesAssumption, RawCategoriesAssumption DEF AnyMessages
<1>4. e.intensity <= 70
  <2>1. CASE e = DefaultEmotion
    BY <2>1 DEF DefaultEmotion
  <2>2. CASE e \in AnalyzeEmotion(b, msg.raw, msg.category)
    <3>1. Stopped(b, msg.raw, msg.category, e) \/ Passed(b, msg.raw, msg.category, e)
      BY <1>0, <1>3, <2>2, AnalysisIs
    <3>2. CASE Stopped(b, msg.raw, msg.category, e)
      BY <3>2 DEF Stopped
    <3>3. CASE Passed(b, msg.raw, msg.category, e)
      <4> DEFINE i == Rated(msg.raw)
                 d == Damped(b, msg.raw)
                 x == e.intensity
      <4>1. i \in Nat /\ i <= 100
        BY <1>3 DEF Rated
      <4>2. Scale = 20000
        BY <1>0, DampingLeaves
      <4>3. d \in Nat
        BY <1>0, <1>3, <2>2, AnalysisIs
      <4>4. Scale * x <= d /\ x \in Nat
        BY <3>3, <4>3, TruncationIs DEF Passed
      <4>5. d = i * (20000 - 6000)
        BY <1>0, <4>2 DEF Damped
      <4> HIDE DEF i, d, x
      <4>6. x <= 70
        BY <4>1, <4>2, <4>4, <4>5
      <4> QED BY <4>6 DEF x
    <3> QED BY <3>1, <3>2, <3>3
  <2> QED BY <1>1, <2>1, <2>2 DEF Emotions
<1>5. ASSUME NEW x \in Nat, x <= 70
      PROVE  CalculateReaction(x, b) \in Nat /\ CalculateReaction(x, b) < 60
  BY <1>0, <1>5 DEF CalculateReaction, Clamp
<1>6. /\ AttendedIntensity(e, Tense) \in Nat /\ AttendedIntensity(e, Tense) <= 70
      /\ AttendedIntensity(e, Calm) \in Nat /\ AttendedIntensity(e, Calm) <= 70
  BY <1>2, <1>4, AttentionIs
<1>7. /\ EffectiveIntensity(e, Tense, b) \in Nat /\ EffectiveIntensity(e, Tense, b) < 60
      /\ EffectiveIntensity(e, Calm, b) \in Nat /\ EffectiveIntensity(e, Calm, b) < 60
  BY <1>5, <1>6 DEF EffectiveIntensity
<1>8. m.intensity \in 1..100 /\ m.intensity < 60 /\ m.importance \in 1..10 /\ m.importance < 8
  BY <1>1, <1>7, FeltRowIs, StoredIs
<1> QED BY <1>8 DEF IsHighImpact

(* A message weighs no less with the less stable of two like clones.       *)
LEMMA LessStableWeighsMore ==
    ASSUME NEW b \in Big5Profile, NEW c \in Big5Profile,
           c.conscientiousness = b.conscientiousness, c.extraversion = b.extraversion,
           c.neuroticism > b.neuroticism, NEW raw \in Int, NEW category \in Categories,
           NEW x \in AnalyzeEmotion(b, raw, category), NEW y \in AnalyzeEmotion(c, raw, category)
    PROVE  /\ EffectiveIntensity(x, Tense, b) <= EffectiveIntensity(y, Tense, c)
           /\ EffectiveIntensity(x, Calm, b) <= EffectiveIntensity(y, Calm, c)
<1>1. /\ x \in [intensity : Nat, category : Categories]
      /\ y \in [intensity : Nat, category : Categories]
      /\ Damped(b, raw) \in Nat /\ Damped(c, raw) \in Nat
      /\ Stopped(b, raw, category, x) \/ Passed(b, raw, category, x)
      /\ Stopped(c, raw, category, y) \/ Passed(c, raw, category, y)
  BY AnalysisIs
<1>2. b.neuroticism \in 0..100 /\ c.neuroticism \in 0..100
  BY ResilienceIsAPart
<1>3. GetResilience(c) < GetResilience(b)
  <2> DEFINE n == b.neuroticism
             q == c.neuroticism
             u == 25 * b.conscientiousness
             v == 15 * b.extraversion
  <2>1. GetResilience(b) = 60 * (100 - n) + u + v /\ GetResilience(c) = 60 * (100 - q) + u + v
    BY DEF GetResilience
  <2>2. u \in Int /\ v \in Int
    BY DEF Big5Profile
  <2>3. n \in 0..100 /\ q \in 0..100 /\ n < q
    BY <1>2
  <2> HIDE DEF n, q, u, v
  <2> QED BY <2>1, <2>2, <2>3
<1>4. Damped(b, raw) < Damped(c, raw) /\ Gate(c) < Gate(b) /\ Gate(b) \in Nat /\ Gate(c) \in Nat
  <2> DEFINE k == Scale - GetResilience(b)
             l == Scale - GetResilience(c)
             i == Rated(raw)
  <2>1. k \in Nat /\ l \in Nat /\ k < l /\ Gate(b) \in Nat /\ Gate(c) \in Nat /\ Scale = 20000
    BY <1>3, DampingLeaves
  <2>2. i \in Nat /\ i > 0
    BY DEF Rated
  <2>3. Damped(b, raw) = i * k /\ Damped(c, raw) = i * l
    BY DEF Damped
  <2>4. Gate(c) < Gate(b)
    <3> DEFINE r == GetResilience(b)
               q == GetResilience(c)
    <3>1. Gate(b) = 20 * 20000 + 60 * r /\ Gate(c) = 20 * 20000 + 60 * q
      BY <2>1 DEF Gate
    <3>2. r \in Nat /\ q \in Nat /\ q < r
      BY <1>3, DampingLeaves
    <3> HIDE DEF r, q
    <3> QED BY <3>1, <3>2
  <2> HIDE DEF k, l, i
  <2> QED BY <2>1, <2>2, <2>3, <2>4, FactorsGrow
<1>5. ASSUME NEW u \in Nat, NEW v \in Nat, u <= v
      PROVE  CalculateReaction(u, b) <= CalculateReaction(v, c)
  BY <1>2, <1>5, ReactionGrows
<1>6. CASE Stopped(b, raw, category, x)
  <2>1. IsFaint(x) /\ x.intensity = 0
    BY <1>6 DEF Stopped, IsFaint, IsNeutralEmotion
  <2>2. EffectiveIntensity(x, Calm, b) = 0 /\ EffectiveIntensity(y, Calm, c) \in Nat
    BY <1>1, <2>1, EffectIs
  <2>3. AttendedIntensity(x, Tense) = 35 /\ AttendedIntensity(y, Tense) \in Nat
        /\ AttendedIntensity(y, Tense) >= 35
    BY <1>1, <2>1, AttentionIs
  <2>4. CalculateReaction(AttendedIntensity(x, Tense), b)
          <= CalculateReaction(AttendedIntensity(y, Tense), c)
    BY <1>5, <2>3
  <2> QED BY <2>2, <2>4 DEF EffectiveIntensity
<1>7. CASE Passed(b, raw, category, x)
  <2>1. Passed(c, raw, category, y)
    <3> SUFFICES ASSUME Stopped(c, raw, category, y) PROVE FALSE
      BY <1>1
    <3>1. Damped(c, raw) < Gate(c) /\ Damped(b, raw) >= Gate(b)
      BY <1>7 DEF Stopped, Passed
    <3> QED BY <1>1, <1>4, <3>1
  <2>2. x.category = y.category
    BY <1>7, <2>1 DEF Passed
  <2>3. x.intensity <= y.intensity
    BY <1>1, <1>4, <1>7, <2>1, TruncationsGrow DEF Passed
  <2>4. IsFaint(y) => IsFaint(x)
    BY <1>1, <2>2, <2>3 DEF IsFaint
  <2>5. /\ AttendedIntensity(x, Tense) \in Nat /\ AttendedIntensity(y, Tense) \in Nat
        /\ AttendedIntensity(x, Calm) \in Nat /\ AttendedIntensity(y, Calm) \in Nat
        /\ AttendedIntensity(x, Tense) <= AttendedIntensity(y, Tense)
        /\ AttendedIntensity(x, Calm) <= AttendedIntensity(y, Calm)
    BY <1>1, <2>3, <2>4, AttentionIs
  <2>6. /\ CalculateReaction(AttendedIntensity(x, Tense), b)
             <= CalculateReaction(AttendedIntensity(y, Tense), c)
        /\ CalculateReaction(AttendedIntensity(x, Calm), b)
             <= CalculateReaction(AttendedIntensity(y, Calm), c)
    BY <1>5, <2>5
  <2> QED BY <2>6 DEF EffectiveIntensity
<1> QED BY <1>1, <1>6, <1>7
-----------------------------------------------------------------------------
(* The loop.                                                               *)

LEMMA ProfileIsTyped == TypeOK => big5 \in Big5Profile
BY ProfilesAssumption DEF TypeOK

(* A turn that is weighed is tense or calm, and so is its memory.          *)
LEMMA TurnLeaves ==
    ASSUME TypeOK, TurnIsWeighed, stage = "analyzed"
    PROVE  /\ tense = Tense \/ tense = Calm
           /\ emotion \in [intensity : Nat, category : Categories]
           /\ IsRemembered(emotion, tense, big5) =>
                /\ FeltRow(message, emotion, tense, big5) \in Memories
                /\ WasWeighed(FeltRow(message, emotion, tense, big5), big5)
<1>1. tense = Tense \/ tense = Calm
  BY DEF TypeOK, Tense, Calm
<1>2. message \in AnyMessages /\ emotion \in Emotions(big5, message) /\ big5 \in Big5Profile
  BY ProfileIsTyped DEF TurnIsWeighed
<1>3. emotion \in [intensity : Nat, category : Categories]
  BY <1>2, EmotionIs
<1>4. ASSUME NEW t, t = Tense \/ t = Calm, IsRemembered(emotion, t, big5)
      PROVE  /\ FeltRow(message, emotion, t, big5) \in Memories
             /\ WasWeighed(FeltRow(message, emotion, t, big5), big5)
  <2>1. EffectiveIntensity(emotion, t, big5) \in Nat
    BY <1>2, <1>3, <1>4, EffectIs
  <2>2. FeltRow(message, emotion, t, big5) \in Memories
    BY <1>2, <2>1, FeltRowIsMemory
  <2>3. \/ /\ IsRemembered(emotion, Tense, big5)
           /\ FeltRow(message, emotion, t, big5) = FeltRow(message, emotion, Tense, big5)
        \/ /\ IsRemembered(emotion, Calm, big5)
           /\ FeltRow(message, emotion, t, big5) = FeltRow(message, emotion, Calm, big5)
    BY <1>4
  <2> QED BY <1>2, <2>2, <2>3 DEF WasWeighed
<1> QED BY <1>1, <1>3, <1>4

LEMMA DefaultIsTyped == DefaultEmotion \in [intensity : Int, category : Categories]
BY DEF DefaultEmotion, Categories

LEMMA InitHolds == Init => IInv
<1> SUFFICES ASSUME Init PROVE IInv
  OBVIOUS
<1>1. TypeOK
  <2>1. turns \in 0..MaxTurns
    BY MaxTurnsAssumption DEF Init
  <2> QED BY <2>1, DefaultIsTyped DEF Init, TypeOK
<1>2. MemoriesWereWeighed /\ TurnIsWeighed /\ TensionIsRecalled
  BY DEF Init, MemoriesWereWeighed, TurnIsWeighed, TensionIsRecalled
<1> QED BY <1>1, <1>2 DEF IInv

(* Ending a turn leaves nothing to be weighed.                             *)
LEMMA EndKeepsInvariant ==
    ASSUME IInv, EndTurn, UNCHANGED <<big5, turns>>, memories \subseteq memories',
           memories' \subseteq Memories, MemoriesWereWeighed'
    PROVE  IInv'
<1>1. TypeOK'
  BY DefaultIsTyped DEF IInv, TypeOK, EndTurn
<1>2. TurnIsWeighed' /\ TensionIsRecalled'
  BY DEF EndTurn, TurnIsWeighed, TensionIsRecalled
<1> QED BY <1>1, <1>2 DEF IInv

LEMMA RecallKeepsInvariant ==
    ASSUME IInv, BuildNarrativeContext
    PROVE  IInv'
<1>1. recalled' \subseteq memories
  <2>1. PICK working \in WorkingMemories, found \in SUBSET memories :
          recalled' = working \cup found
    BY DEF BuildNarrativeContext
  <2> QED BY <2>1 DEF WorkingMemories
<1>2. tenseBond' \in BOOLEAN
  BY SignalsAssumption DEF BuildNarrativeContext
<1>3. CASE recalled' = {} /\ tense' = tenseBond'
  <2>1. TypeOK'
    BY <1>1, <1>2, <1>3 DEF IInv, TypeOK, BuildNarrativeContext
  <2>2. TensionIsRecalled'
    BY <1>3 DEF TensionIsRecalled
  <2>3. MemoriesWereWeighed' /\ TurnIsWeighed'
    BY DEF IInv, BuildNarrativeContext, MemoriesWereWeighed, TurnIsWeighed
  <2> QED BY <2>1, <2>2, <2>3 DEF IInv
<1>4. ASSUME NEW top \in Strongest(recalled'), tense' = HighTension(tenseBond', recalled', top)
      PROVE  IInv'
  <2>1. top \in recalled'
    BY <1>4 DEF Strongest
  <2>2. tense' \in BOOLEAN
    BY <1>4 DEF HighTension
  <2>3. TypeOK'
    BY <1>1, <2>2 DEF IInv, TypeOK, BuildNarrativeContext
  <2>4. TensionIsRecalled'
    BY <1>4, <2>1 DEF TensionIsRecalled, HighTension
  <2>5. MemoriesWereWeighed' /\ TurnIsWeighed'
    BY DEF IInv, BuildNarrativeContext, MemoriesWereWeighed, TurnIsWeighed
  <2> QED BY <2>3, <2>4, <2>5 DEF IInv
<1> QED BY <1>3, <1>4 DEF BuildNarrativeContext

LEMMA StepKeepsInvariant == IInv /\ [Next]_vars => IInv'
<1> SUFFICES ASSUME IInv, [Next]_vars PROVE IInv'
  OBVIOUS
<1> USE DEF IInv
<1>1. CASE Receive
  <2>1. TypeOK'
    <3>1. turns' \in 0..MaxTurns
      BY <1>1, MaxTurnsAssumption DEF Receive, TypeOK
    <3> QED BY <1>1, <3>1 DEF Receive, TypeOK
  <2>2. MemoriesWereWeighed' /\ TurnIsWeighed' /\ TensionIsRecalled'
    BY <1>1 DEF Receive, MemoriesWereWeighed, TurnIsWeighed, TensionIsRecalled
  <2> QED BY <2>1, <2>2
<1>2. CASE BuildNarrativeContext
  BY <1>2, RecallKeepsInvariant
<1>3. CASE SkipNarrativeContext
  <2>1. TypeOK'
    BY <1>3 DEF SkipNarrativeContext, TypeOK
  <2>2. MemoriesWereWeighed' /\ TurnIsWeighed' /\ TensionIsRecalled'
    BY <1>3 DEF SkipNarrativeContext, MemoriesWereWeighed, TurnIsWeighed, TensionIsRecalled
  <2> QED BY <2>1, <2>2
<1>4. CASE Analyze \/ AnalyzeFails
  <2>1. emotion' \in Emotions(big5, message) /\ message \in AnyMessages
    BY <1>4 DEF Analyze, AnalyzeFails, Emotions, TurnIsWeighed
  <2>2. emotion' \in [intensity : Int, category : Categories]
    BY <2>1, ProfileIsTyped, EmotionIs
  <2>3. TypeOK'
    BY <1>4, <2>2 DEF Analyze, AnalyzeFails, TypeOK
  <2>4. MemoriesWereWeighed' /\ TurnIsWeighed' /\ TensionIsRecalled'
    BY <1>4, <2>1 DEF Analyze, AnalyzeFails, MemoriesWereWeighed, TurnIsWeighed,
       TensionIsRecalled
  <2> QED BY <2>3, <2>4
<1>5. CASE Remember
  <2> DEFINE row == FeltRow(message, emotion, tense, big5)
  <2>1. row \in Memories /\ WasWeighed(row, big5)
    BY <1>5, TurnLeaves DEF Remember
  <2>2. memories' = memories \cup {row} /\ big5' = big5
    BY <1>5 DEF Remember
  <2> HIDE DEF row
  <2>3. MemoriesWereWeighed'
    BY <2>1, <2>2 DEF MemoriesWereWeighed
  <2>4. memories' \subseteq Memories
    BY <2>1, <2>2 DEF TypeOK
  <2> QED BY <1>5, <2>2, <2>3, <2>4, EndKeepsInvariant DEF Remember
<1>6. CASE RememberFails \/ LetPass \/ Abandon
  <2>1. EndTurn /\ UNCHANGED <<big5, memories, turns>>
    BY <1>6 DEF RememberFails, LetPass, Abandon
  <2>2. MemoriesWereWeighed' /\ memories' \subseteq Memories
    BY <2>1 DEF MemoriesWereWeighed, TypeOK
  <2> QED BY <2>1, <2>2, EndKeepsInvariant
<1>7. CASE SeedMemory
  <2>0. turns' \in 0..MaxTurns
    <3>1. turns < MaxTurns /\ turns' = turns + 1
      BY <1>7 DEF SeedMemory
    <3>2. turns \in Int /\ 0 <= turns
      BY DEF TypeOK
    <3> HIDE DEF IInv
    <3> QED BY <3>1, <3>2, MaxTurnsAssumption
  <2>1. PICK importance \in SeedWeights, weight \in SeedWeights,
             category \in RawCategories \ {""}, signal \in ContentSignals :
          memories' = memories \cup {SeededRow(importance, weight, category, signal)}
    BY <1>7 DEF SeedMemory
  <2> DEFINE row == SeededRow(importance, weight, category, signal)
  <2>2. row \in Memories /\ row.origin = "seeded"
    BY SeededRowIsMemory, SeedWeightsAssumption, RawCategoriesAssumption, SignalsAssumption
  <2>3. memories' = memories \cup {row}
    BY <2>1
  <2> HIDE DEF row
  <2>4. TypeOK'
    <3>1. memories' \subseteq Memories /\ recalled' \subseteq memories'
      BY <1>7, <2>2, <2>3 DEF SeedMemory, turnVars, TypeOK
    <3> QED BY <1>7, <2>0, <3>1 DEF SeedMemory, turnVars, TypeOK
  <2>5. MemoriesWereWeighed' /\ TurnIsWeighed' /\ TensionIsRecalled'
    BY <1>7, <2>2, <2>3 DEF SeedMemory, turnVars, MemoriesWereWeighed, TurnIsWeighed,
       TensionIsRecalled
  <2> QED BY <2>4, <2>5
<1>8. CASE UNCHANGED vars
  BY <1>8 DEF vars, turnVars, TypeOK, MemoriesWereWeighed, TurnIsWeighed, TensionIsRecalled
<1> QED BY <1>1, <1>2, <1>3, <1>4, <1>5, <1>6, <1>7, <1>8 DEF Next

-----------------------------------------------------------------------------

(* The inductive invariant: what is stored, and what is being weighed,     *)
(* comes of a message.                                                     *)
THEOREM InvariantHolds == Spec => []IInv
BY InitHolds, StepKeepsInvariant, PTL DEF Spec

(* What is stored is a row of the table, and a turn recalls only rows.     *)
THEOREM LoopTypesHold == Spec => []TypeOK
<1>1. IInv => TypeOK
  BY DEF IInv
<1> QED BY <1>1, InvariantHolds, PTL

(* A turn taken in tension is remembered, for any profile and any message. *)
THEOREM TenseTurnsAreRemembered == Spec => []TenseTurnIsRemembered
<1>1. IInv => TenseTurnIsRemembered
  <2> SUFFICES ASSUME IInv, stage = "analyzed", tense PROVE IsRemembered(emotion, tense, big5)
    BY DEF TenseTurnIsRemembered
  <2>1. emotion \in [intensity : Nat, category : Categories] /\ big5 \in Big5Profile
    BY TurnLeaves, ProfileIsTyped DEF IInv
  <2>2. tense = Tense
    BY DEF IInv, TypeOK, Tense
  <2>3. IsRemembered(emotion, Tense, big5)
    BY <2>1, TenseIsRemembered
  <2> QED BY ONLY <2>2, <2>3
<1> QED BY <1>1, InvariantHolds, PTL

(* Tension never feeds on the memories tension made, in a composed clone.  *)
THEOREM TensionIsRooted == Spec => []TensionHasRoots
<1>1. IInv => TensionHasRoots
  <2> SUFFICES ASSUME IInv, IsComposed(big5), tense, ~tenseBond
               PROVE  \E m \in recalled : \/ m.signal
                                          \/ m.origin = "seeded"
                                          \/ m.origin = "felt" /\ m.category # "NEUTRAL"
    BY DEF TensionHasRoots
  <2>1. PICK m \in recalled :
          m.signal \/ m.category \in SignalCategories \/ LeavesResidue(m)
    BY DEF IInv, TensionIsRecalled
  <2>2. m.origin = "seeded" \/ WasWeighed(m, big5)
    BY DEF IInv, TypeOK, MemoriesWereWeighed
  <2>3. m.signal \/ m.origin = "seeded" \/ (m.origin = "felt" /\ m.category # "NEUTRAL")
    BY <2>1, <2>2, WhatTensesWasFelt, ProfileIsTyped DEF IInv
  <2> QED BY <2>3
<1> QED BY <1>1, InvariantHolds, PTL

(* Nothing the clone as it is loaded stores of a message reaches the       *)
(* working memory.                                                         *)
THEOREM HighImpactIsSeeded == Spec => []OnlySeedsAreHighImpact
<1>1. IInv => OnlySeedsAreHighImpact
  BY LoadedStoresFaintly DEF IInv, MemoriesWereWeighed, OnlySeedsAreHighImpact
<1> QED BY <1>1, InvariantHolds, PTL

(* Stronger messages are stored as no weaker memories.                     *)
THEOREM StrongerIsNoWeaker == Spec => []StrongerMessageStrongerMemory
<1>1. IInv => StrongerMessageStrongerMemory
  <2> SUFFICES ASSUME IInv, NEW m \in memories, NEW n \in memories,
                      m.origin = "felt", n.origin = "felt", m.category = n.category,
                      0 < m.raw, m.raw < n.raw
               PROVE  m.intensity <= n.intensity /\ m.importance <= n.importance
    BY DEF StrongerMessageStrongerMemory
  <2>1. WasWeighed(m, big5) /\ WasWeighed(n, big5) /\ big5 \in Big5Profile
    BY ProfileIsTyped DEF IInv, MemoriesWereWeighed
  <2> QED BY <2>1, StrongerIsStored
<1> QED BY <1>1, InvariantHolds, PTL

(* Of two clones alike but for their neuroticism, the less stable one      *)
(* never weighs a message less.                                            *)
THEOREM InstabilityNeverDampens == Spec => []InstabilityAmplifies
<1>1. IInv => InstabilityAmplifies
  <2> SUFFICES ASSUME IInv, stage = "analyzed", NEW p \in Profiles,
                      p.conscientiousness = big5.conscientiousness,
                      p.extraversion = big5.extraversion,
                      p.neuroticism > big5.neuroticism,
                      NEW calm \in AnalyzeEmotion(big5, message.raw, message.category),
                      NEW touchy \in AnalyzeEmotion(p, message.raw, message.category)
               PROVE  EffectiveIntensity(calm, tense, big5) <= EffectiveIntensity(touchy, tense, p)
    BY DEF InstabilityAmplifies
  <2>1. /\ message.raw \in Int /\ message.category \in Categories
        /\ big5 \in Big5Profile /\ p \in Big5Profile
    BY ProfileIsTyped, ProfilesAssumption, RawIntensitiesAssumption, RawCategoriesAssumption
       DEF IInv, TurnIsWeighed, AnyMessages
  <2>2. tense = Tense \/ tense = Calm
    BY DEF IInv, TypeOK, Tense, Calm
  <2>3. /\ EffectiveIntensity(calm, Tense, big5) <= EffectiveIntensity(touchy, Tense, p)
        /\ EffectiveIntensity(calm, Calm, big5) <= EffectiveIntensity(touchy, Calm, p)
    BY <2>1, LessStableWeighsMore
  <2> QED BY ONLY <2>2, <2>3
<1> QED BY <1>1, InvariantHolds, PTL
=============================================================================
