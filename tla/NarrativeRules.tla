-------------------------- MODULE NarrativeRules --------------------------
(***************************************************************************)
(* The rules of the narrative memory that decide without asking anyone:    *)
(* the row a memory becomes, how recalled memories and bonds read, and how *)
(* a search is ranked.  No state: EmotionalMemory and NarrativeRetrieval   *)
(* use these operators.                                                    *)
(*                                                                         *)
(* Scores and the factor that weighs emotion are integers in units of      *)
(* 1/2000 (defaultEmotionalWeightFactor is 0.0005), similarities are in    *)
(* hundredths.                                                             *)
(***************************************************************************)
EXTENDS EmotionReaction, FiniteSets

(* The columns of a row that matter and, for the properties to look back,  *)
(* how it came about: felt at the message's own intensity, floored by a    *)
(* tense bond, or seeded; and the raw intensity of its message.            *)
Memories == [importance : 1..10, weight : 1..10, intensity : 1..100,
             category : Categories, signal : BOOLEAN,
             origin : {"felt", "floored", "seeded"}, raw : Int]

Row(columns, signal, origin, raw) ==
    [importance |-> columns.importance, weight |-> columns.weight,
     intensity |-> columns.intensity, category |-> columns.category,
     signal |-> signal, origin |-> origin, raw |-> raw]

(* What Chat stores of a message it remembers.                             *)
FeltRow(message, emotion, tense, big5) ==
    Row(MemoryOf(emotion, tense, big5), message.signal,
        IF AttendedIntensity(emotion, tense) = emotion.intensity
          THEN "felt" ELSE "floored",
        message.raw)

(* What seedMemoryFlow stores: ten intensity points per point of weight,   *)
(* the importance typed apart from it.                                     *)
SeededRow(importance, weight, category, signal) ==
    Row([importance |-> Clamp(importance, 1, 10),
         weight     |-> Clamp(weight, 1, 10),
         intensity  |-> StoredIntensity(IF weight < 1 THEN 10 ELSE 10 * weight),
         category   |-> category], signal, "seeded", 0)

(* The recalled memories put their category, in capitals, and their text   *)
(* into the narrative; the strongest adds an [ESTADO INTERNO] section when *)
(* it reads 60 or more and is not neutral.                                 *)
Strongest(rows) ==
    {m \in rows : \A n \in rows : NormalizeIntensity(n.intensity)
                                    <= NormalizeIntensity(m.intensity)}

LeavesResidue(m) ==
    NormalizeIntensity(m.intensity) >= 60 /\ m.category # "NEUTRAL"

(* Categories that hold a word the tension detector looks for.             *)
SignalCategories == {"IRA", "ENOJO", "FURIA"}

(* DetectHighTensionFromNarrative on a text made of the rows, whose        *)
(* residue is taken from top, and of a bond section.                       *)
HighTension(tenseBond, rows, top) ==
    \/ tenseBond
    \/ \E m \in rows : m.signal \/ m.category \in SignalCategories
    \/ LeavesResidue(top)

-----------------------------------------------------------------------------
(* Bonds: a character is a name, three vectors and a status whose text may *)
(* hold a tension word.                                                    *)

ActiveCharacters(chars, message) ==
    LET called == {c \in chars : c.name \in message.names}
    IN  IF called = {} THEN chars ELSE called

(* deriveBondDynamics: the two modes it may write, both of which name      *)
(* their tension.                                                          *)
IsJealous(c) == c.intimacy >= 70 /\ c.trust <= 40
IsHostile(c) == c.respect <= 35

IsTenseBond(c) == IsJealous(c) \/ IsHostile(c) \/ c.signal

(* ORDER BY intimacy DESC, trust DESC: the characters that may come first. *)
(* The name decides between those alike, and what is made of the first one *)
(* does not look beyond the two.                                           *)
Foremost(chars) ==
    {c \in chars : \A d \in chars :
        \/ d.intimacy < c.intimacy
        \/ d.intimacy = c.intimacy /\ d.trust <= c.trust}

-----------------------------------------------------------------------------
(* The search and what is kept of it.  detectMixedIntent holds only where  *)
(* detectBenignIntent does, and every use of it comes after the benign     *)
(* case: it decides nothing and has no place here.                         *)

UpperSimilarity == 62    \* upperSim
HardFloor       == 20    \* hardFloor
GapScore        == 160   \* gapScore

ScoreUnit == 2000

(* defaultEmotionalWeightFactor, and none for a wish.                      *)
WeightFactor(message) == IF message.benign THEN 0 ELSE 1

(* The factor as the query gets it.  It multiplies two INT columns without *)
(* a cast, so the database takes the parameter for an integer, and the     *)
(* driver sends the whole part of the float.                               *)
AsInteger(factor) == factor \div ScoreUnit

(* Mutant of Score: what is old weighs more. *)
ScoreOldFirst(row, similarity, days, message) ==
    20 * similarity + 20 * days
      + ScoreUnit * row.intensity * row.weight * AsInteger(WeightFactor(message))

(* Similarity, the emotional reinforcement, and a hundredth off for each   *)
(* day since the row was written.                                          *)
Score(row, similarity, days, message) ==
    20 * similarity - 20 * days
      + ScoreUnit * row.intensity * row.weight * AsInteger(WeightFactor(message))

ShouldSkipTrauma(row) ==
    IsNegativeCategory(row.category) /\ NormalizeIntensity(row.intensity) < 60
=============================================================================
