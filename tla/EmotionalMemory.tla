-------------------------- MODULE EmotionalMemory --------------------------
(***************************************************************************)
(* The emotional loop of one clone: a message is weighed against what the  *)
(* clone recalls, may become a memory, and that memory may colour the      *)
(* turns after it.  CloneService.Chat runs the loop once per message:      *)
(* BuildNarrativeContext recalls, DetectHighTensionFromNarrative looks at  *)
(* the recalled text, AnalyzeEmotion and CalculateReaction weigh the       *)
(* message, InjectMemory stores it.  The director's console may seed       *)
(* memories between turns and, from its own process, during one.           *)
(*                                                                         *)
(* Abstracted: the text of messages and memories (a text either holds one  *)
(* of the tension words or not), the bonds (their section either reads as  *)
(* tense or not, in each turn) and the similarity search, which may return *)
(* any memories.  CloneTurn puts the code's own choices in their place and *)
(* implements this specification.  Turns are taken one after another;      *)
(* ConversationTurn interleaves them.                                      *)
(***************************************************************************)
EXTENDS NarrativeRules

CONSTANTS
    RawIntensities,   \* the emotional_intensity values the analyst LLM reports
    RawCategories,    \* the emotion_category values it reports
    ContentSignals,   \* subset of BOOLEAN: may a text hold a tension word
    Profiles,         \* the Big Five values the clone's profile may carry
    TenseBonds,       \* subset of BOOLEAN: may the bond line read as tense
    SeedWeights,      \* the weights the director's console may seed
    MaxTurns          \* bound on the messages and seeds of a behaviour

Big5Profile == [neuroticism : 0..100, conscientiousness : 0..100, extraversion : 0..100]

ASSUME RawIntensitiesAssumption == RawIntensities \subseteq Int
ASSUME RawCategoriesAssumption  == RawCategories \subseteq Categories
ASSUME ProfilesAssumption       == Profiles \subseteq Big5Profile
ASSUME SignalsAssumption        == ContentSignals \subseteq BOOLEAN /\ TenseBonds \subseteq BOOLEAN
ASSUME SeedWeightsAssumption    == SeedWeights \subseteq Int
ASSUME MaxTurnsAssumption       == MaxTurns \in Nat

NoMessage == [raw |-> 0, category |-> "", signal |-> FALSE]

AnyMessages == [raw : RawIntensities, category : RawCategories, signal : ContentSignals]

VARIABLES
    big5,       \* profile.Big5 of the clone
    tenseBond,  \* whether the [ESTADO DEL VINCULO] section holds a tension word
    memories,   \* the rows of narrative_memories
    stage,      \* where Chat stands in the current turn
    message,    \* the message of the current turn
    recalled,   \* the memories in the narrative context of the turn
    tense,      \* isHighTension
    emotion,    \* emotionalIntensity and emotionCategory
    turns       \* messages received and memories seeded so far

turnVars == <<stage, message, tenseBond, recalled, tense, emotion>>
vars == <<big5, memories, turnVars, turns>>

TypeOK ==
    /\ big5 \in Profiles
    /\ tenseBond \in TenseBonds \cup {FALSE}
    /\ memories \subseteq Memories
    /\ stage \in {"idle", "received", "narrated", "analyzed"}
    /\ message \in AnyMessages \cup {NoMessage}
    /\ recalled \subseteq memories
    /\ tense \in BOOLEAN
    /\ emotion \in [intensity : Int, category : Categories]
    /\ turns \in 0..MaxTurns

Init ==
    /\ big5 \in Profiles
    /\ tenseBond = FALSE
    /\ memories = {}
    /\ stage = "idle"
    /\ message = NoMessage
    /\ recalled = {}
    /\ tense = FALSE
    /\ emotion = DefaultEmotion
    /\ turns = 0

Receive ==
    /\ stage = "idle"
    /\ turns < MaxTurns
    /\ message' \in AnyMessages
    /\ stage' = "received"
    /\ turns' = turns + 1
    /\ UNCHANGED <<big5, tenseBond, memories, recalled, tense, emotion>>

MaxWorking  == 3   \* workingMemoryLimit
MaxFound    == 5   \* the k of the search
MaxRecalled == 7   \* maxTotalMemoriesInContext

(* The working memory: rows of high impact, up to the limit.  Rows carry   *)
(* no date here, and those alike count once: which ones is left open.      *)
WorkingMemories ==
    {ms \in SUBSET {m \in memories : IsHighImpact(m)} :
        Cardinality(ms) <= MaxWorking}

(* BuildNarrativeContext: the working memory is recalled regardless, and   *)
(* the similarity search adds any others.                                  *)
BuildNarrativeContext ==
    /\ stage = "received"
    /\ tenseBond' \in TenseBonds
    /\ \E working \in WorkingMemories, found \in SUBSET memories :
         /\ Cardinality(found) <= MaxFound
         /\ Cardinality(working \cup found) <= MaxRecalled
         /\ recalled' = working \cup found
    /\ \/ recalled' = {} /\ tense' = tenseBond'
       \/ \E top \in Strongest(recalled') :
             tense' = HighTension(tenseBond', recalled', top)
    /\ stage' = "narrated"
    /\ UNCHANGED <<big5, memories, message, emotion, turns>>

(* There is no narrative text for a message that negates its subject, and  *)
(* none when a call fails: Chat goes on without it either way.             *)
SkipNarrativeContext ==
    /\ stage = "received"
    /\ recalled' = {}
    /\ tense' = FALSE
    /\ stage' = "narrated"
    /\ UNCHANGED <<big5, tenseBond, memories, message, emotion, turns>>

Analyze ==
    /\ stage = "narrated"
    /\ emotion' \in AnalyzeEmotion(big5, message.raw, message.category)
    /\ stage' = "analyzed"
    /\ UNCHANGED <<big5, tenseBond, memories, message, recalled, tense, turns>>

AnalyzeFails ==
    /\ stage = "narrated"
    /\ emotion' = DefaultEmotion
    /\ stage' = "analyzed"
    /\ UNCHANGED <<big5, tenseBond, memories, message, recalled, tense, turns>>

(* What the call computed goes with the call.                              *)
EndTurn ==
    /\ stage' = "idle"
    /\ message' = NoMessage
    /\ tenseBond' = FALSE
    /\ recalled' = {}
    /\ tense' = FALSE
    /\ emotion' = DefaultEmotion

(* InjectMemory at the end of the weighing.                                *)
Remember ==
    /\ stage = "analyzed"
    /\ IsRemembered(emotion, tense, big5)
    /\ memories' = memories \cup {FeltRow(message, emotion, tense, big5)}
    /\ EndTurn
    /\ UNCHANGED <<big5, turns>>

(* The embedding or the insert failed: the error is only logged.           *)
RememberFails ==
    /\ stage = "analyzed"
    /\ IsRemembered(emotion, tense, big5)
    /\ EndTurn
    /\ UNCHANGED <<big5, memories, turns>>

LetPass ==
    /\ stage = "analyzed"
    /\ ~IsRemembered(emotion, tense, big5)
    /\ EndTurn
    /\ UNCHANGED <<big5, memories, turns>>

(* A call Chat does not do without fails, or the process stops.            *)
Abandon ==
    /\ stage # "idle"
    /\ EndTurn
    /\ UNCHANGED <<big5, memories, turns>>

(* seedMemoryFlow of the director's console.                               *)
SeedMemory ==
    /\ turns < MaxTurns
    /\ turns' = turns + 1
    /\ UNCHANGED <<big5, turnVars>>
    /\ \E importance, weight \in SeedWeights, category \in RawCategories \ {""},
          signal \in ContentSignals :
         memories' = memories \cup {SeededRow(importance, weight, category, signal)}

Next ==
    \/ Receive
    \/ BuildNarrativeContext
    \/ SkipNarrativeContext
    \/ Analyze
    \/ AnalyzeFails
    \/ Remember
    \/ RememberFails
    \/ LetPass
    \/ Abandon
    \/ SeedMemory

Spec == Init /\ [][Next]_vars

-----------------------------------------------------------------------------

(* A turn taken in tension is always remembered, however faint the message *)
(* and whatever the analysis says: the floor, the ReLU and the triviality  *)
(* filter of Chat never cancel out to nothing.                             *)
TenseTurnIsRemembered ==
    stage = "analyzed" /\ tense => IsRemembered(emotion, tense, big5)

(* A clone whose noise gate is not below the floor of a tense turn, and    *)
(* whose memory of a turn at that floor leaves no residue.  The clone as   *)
(* the profile repository loads it is one.                                 *)
IsComposed(profile) ==
    /\ 2 * GetResilience(profile) >= ResilienceUnit
    /\ NormalizeIntensity(CalculateReaction(TensionIntensityFloor, profile)) < 60

(* In a composed clone, tension is never raised by the memories tension    *)
(* itself made: with a calm bond and no tension word, a tense turn recalls *)
(* a memory that was seeded, or felt at its own intensity with an emotion  *)
(* of its own.  The noise gate resets the category, so what the floor      *)
(* stores is too faint to tense a later turn.                              *)
TensionHasRoots ==
    IsComposed(big5) /\ tense /\ ~tenseBond =>
        \E m \in recalled :
           \/ m.signal
           \/ m.origin = "seeded"
           \/ m.origin = "felt" /\ m.category # "NEUTRAL"

(* No message of a chat with the clone as the profile repository loads it, *)
(* its Big Five all zero, is stored strongly enough for the thresholds of  *)
(* the working memory if it is rated within the guide, not even one rated  *)
(* 100: only seeded memories are recalled there.                           *)
OnlySeedsAreHighImpact ==
    big5 = LoadedBig5 =>
        \A m \in memories : m.raw <= 100 /\ IsHighImpact(m) => m.origin = "seeded"

(* Of two memories of one emotion, both felt at their own intensity, the   *)
(* one of the stronger message is stored as at least as strong and as at   *)
(* least as important, whatever the tension of the turns.  (A message that *)
(* is rated 0 has no rating, and is read as 10.)                           *)
StrongerMessageStrongerMemory ==
    \A m, n \in memories :
        /\ m.origin = "felt" /\ n.origin = "felt"
        /\ m.category = n.category /\ 0 < m.raw /\ m.raw < n.raw
        => m.intensity <= n.intensity /\ m.importance <= n.importance

(* The less stable of two clones that are otherwise alike never weighs the *)
(* same message less: resilience dampens, in the noise gate as in the ReLU.*)
InstabilityAmplifies ==
    stage = "analyzed" =>
        \A p \in Profiles :
            /\ p.conscientiousness = big5.conscientiousness
            /\ p.extraversion = big5.extraversion
            /\ p.neuroticism > big5.neuroticism
            => \A calm \in AnalyzeEmotion(big5, message.raw, message.category),
                  touchy \in AnalyzeEmotion(p, message.raw, message.category) :
                  EffectiveIntensity(calm, tense, big5)
                    <= EffectiveIntensity(touchy, tense, p)
=============================================================================
