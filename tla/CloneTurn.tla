----------------------------- MODULE CloneTurn -----------------------------
(***************************************************************************)
(* A turn of CloneService.Chat from the message to the reply, with what    *)
(* EmotionalMemory leaves open filled in by the code: the memories the     *)
(* narrative is made of and the bonds that make it tense                   *)
(* (NarrativeRetrieval), the goal and the directives of the prompt         *)
(* (TurnDirectives), the text taken from the answer (ResponseParser).      *)
(*                                                                         *)
(* The director's console works on the same tables at any time.  The turns *)
(* of the user are taken one after another here; ConversationTurn has them *)
(* overlap, and the table of messages.                                     *)
(***************************************************************************)
EXTENDS NarrativeRetrieval, TurnDirectives, ResponseParser

CONSTANT Answers   \* what the LLM may send, as sequences of lines

ASSUME AnswersAssumption == Answers \subseteq Seq(Lines)

VARIABLES
    snapshot,  \* analysisSummary.Relationship
    emotion,   \* emotionalIntensity and emotionCategory
    prompt,    \* the directives sent to the LLM
    answer,    \* responseRaw
    reply      \* the content of the clone's message

turnVars == <<snapshot, emotion, prompt, answer, reply>>
vars     == <<retrievalVars, turnVars>>

NoPrompt == Directives(NoNarrative, "default", FALSE)

TypeOK ==
    /\ \A m \in memories : m.clone \in Clones /\ m.row \in Memories
    /\ {m.at : m \in memories} = 1..Cardinality(memories)
    /\ stage \in {"idle", "received", "bonded", "ranked", "narrated", "sighted",
                  "analyzed", "weighed", "prompted", "answered"}
    /\ message \in Messages \cup {NoMessage}
    /\ turns \in 0..MaxTurns
    /\ Len(found) < next /\ next <= Len(ranked) + 1 /\ Len(ranked) <= SearchLimit
    /\ Cardinality(DOMAIN verdicts) <= MaxJudge
    /\ narrative.recalled \subseteq MemoriesOf(speaker)
    /\ Cardinality(narrative.recalled) <= ContextLimit
    /\ emotion.category \in Categories
    /\ prompt \in [goal : Goals, conflict : BOOLEAN, filter : Filters]
    /\ Range(reply) \subseteq Lines \cup Range(NoReply)

Init ==
    /\ RetrievalInit
    /\ snapshot = NoBond
    /\ emotion = DefaultEmotion
    /\ prompt = NoPrompt
    /\ answer = <<>>
    /\ reply = <<>>

-----------------------------------------------------------------------------

(* What the call computed goes with it.                                    *)
EndTurn ==
    /\ stage' = "idle"
    /\ message' = NoMessage
    /\ speaker' = NoClone
    /\ known' = 0
    /\ active' = {}
    /\ narrative' = NoNarrative
    /\ NoSearch
    /\ snapshot' = NoBond
    /\ emotion' = DefaultEmotion
    /\ prompt' = NoPrompt
    /\ answer' = <<>>
    /\ reply' = <<>>

(* snapshotRelationship lists the characters again; it takes the first of  *)
(* the active ones, and no bond when there is none or the list fails.      *)
SnapshotRelationship ==
    /\ stage = "narrated"
    /\ LET chars == ActiveCharacters(CharactersOf(speaker), message)
       IN  snapshot' \in {NoBond} \cup
             {[trust |-> c.trust, intimacy |-> c.intimacy] : c \in Foremost(chars)}
    /\ stage' = "sighted"
    /\ UNCHANGED <<tables, turns, message, speaker, known, active, searchVars, narrative,
                   emotion, prompt, answer, reply>>

Analyze ==
    /\ stage = "sighted"
    /\ emotion' \in AnalyzeEmotion(LoadedBig5, message.raw, message.category)
                      \cup {DefaultEmotion}
    /\ stage' = "analyzed"
    /\ UNCHANGED <<tables, turns, message, speaker, known, active, searchVars, narrative,
                   snapshot, prompt, answer, reply>>

Weighed ==
    /\ stage = "analyzed"
    /\ stage' = "weighed"
    /\ UNCHANGED <<characters, turns, message, speaker, known, active, searchVars,
                   narrative, turnVars>>

Remember ==
    /\ IsRemembered(emotion, narrative.tense, LoadedBig5)
    /\ Insert(speaker, message.text, FeltRow(message, emotion, narrative.tense, LoadedBig5))
    /\ Weighed

(* Not to be remembered, or the embedding or the insert failed.            *)
LetPass ==
    /\ UNCHANGED memories
    /\ Weighed

(* DetermineGoal and BuildClonePrompt, and the prompt goes out.            *)
SendPrompt ==
    /\ stage = "weighed"
    /\ LET trivial == IsTrivial(emotion, narrative.tense, LoadedBig5)
           goal    == DetermineGoal(snapshot, message, trivial, LoadedBig5)
       IN  prompt' = Directives(narrative, goal, trivial)
    /\ emotion' = DefaultEmotion
    /\ stage' = "prompted"
    /\ UNCHANGED <<tables, turns, message, speaker, known, active, searchVars, narrative,
                   snapshot, answer, reply>>

ReceiveAnswer ==
    /\ stage = "prompted"
    /\ answer' \in Answers
    /\ reply' = ReplyTo(answer')
    /\ stage' = "answered"
    /\ message' = NoMessage
    /\ speaker' = NoClone
    /\ known' = 0
    /\ narrative' = NoNarrative
    /\ snapshot' = NoBond
    /\ prompt' = NoPrompt
    /\ UNCHANGED <<tables, turns, active, searchVars, emotion>>

(* The reply is stored, or a call that Chat does not do without fails      *)
(* (profile, traits, context, the answer), or the process stops.           *)
Finish ==
    /\ stage # "idle"
    /\ EndTurn
    /\ UNCHANGED <<tables, turns>>

Next ==
    \/ Receive /\ UNCHANGED turnVars
    \/ RetrievalStep /\ UNCHANGED turnVars
    \/ SnapshotRelationship
    \/ Analyze
    \/ Remember
    \/ LetPass
    \/ SendPrompt
    \/ ReceiveAnswer
    \/ Finish
    \/ DirectorStep /\ UNCHANGED turnVars

Spec == Init /\ [][Next]_vars

-----------------------------------------------------------------------------

(* Retrieval and turn together are an emotional loop: whatever the search, *)
(* the judge, the bonds and the prompt make of a turn, in whichever clone, *)
(* it is a turn EmotionalMemory allows, and what is checked there of any   *)
(* choice of memories holds of the code's own.                             *)
Weighing == stage \in {"narrated", "sighted", "analyzed"}

LoopStage ==
    CASE stage \in {"bonded", "ranked"}                           -> "received"
      [] stage = "sighted"                                        -> "narrated"
      [] stage \in {"weighed", "prompted", "answered"}            -> "idle"
      [] OTHER                                                    -> stage

Loop ==
    INSTANCE EmotionalMemory WITH
        RawIntensities <- {m.raw : m \in Messages},
        RawCategories  <- {m.category : m \in Messages} \cup {s.category : s \in Scenes},
        ContentSignals <- BOOLEAN,
        Profiles       <- {LoadedBig5},
        TenseBonds     <- BOOLEAN,
        SeedWeights    <- {s.importance : s \in Scenes} \cup {s.weight : s \in Scenes},
        MaxTurns       <- MaxTurns,
        big5      <- LoadedBig5,
        tenseBond <- Weighing /\ narrative.tenseBond,
        memories  <- {m.row : m \in memories},
        stage     <- LoopStage,
        message   <- IF LoopStage = "idle" THEN NoMessage
                     ELSE [raw |-> message.raw, category |-> message.category,
                           signal |-> message.signal],
        recalled  <- IF Weighing THEN {m.row : m \in narrative.recalled} ELSE {},
        tense     <- Weighing /\ narrative.tense,
        emotion   <- IF LoopStage = "idle" THEN DefaultEmotion ELSE emotion,
        turns     <- turns

ImplementsEmotionalLoop == Loop!Spec

(* Of two memories of the clone that the search has ranked, the one with   *)
(* the better claim in all that counts (as close to the message or closer, *)
(* and newer; how strong they are does not reach the score) is never       *)
(* dropped while the other is kept, but for one of these reasons: the      *)
(* judge said no to it; it came second, behind by the gap; it is a faint   *)
(* bad memory before a wish; or it had no verdict when the loop came to    *)
(* it, the judge giving none or being used up, and either it was not       *)
(* behind the other, which has the verdict of another row of its text, or  *)
(* the two have the same score.                                            *)
BetterClaim(c, d) ==
    /\ c.similarity >= d.similarity
    /\ c.memory.at > d.memory.at

BetterClaimPrevails ==
    stage = "ranked" /\ next > Len(ranked) =>
        \A i, j \in DOMAIN ranked :
            LET c == ranked[i]
                d == ranked[j]
            IN  /\ BetterClaim(c, d)
                /\ d.memory \in Range(found) /\ c.memory \notin Range(found)
                => \/ Judged(c) /\ ~verdicts[c.memory.content]
                   \/ i = 2 /\ ranked[1].score - c.score >= GapScore
                   \/ message.benign /\ ShouldSkipTrauma(c.memory.row)
                   \/ /\ Doubtful(c) /\ (i < j \/ c.score = d.score)
                      /\ \/ ~Judged(c)
                         \/ \E k \in DOMAIN ranked :
                               k > i /\ ranked[k].memory.content = c.memory.content

(* cli_chat/main.go:176 tells the director that the clone will remember    *)
(* what is seeded when the chat begins.  A seed of high impact stored      *)
(* before a message is before the clone when it answers, unless another    *)
(* clone of the user answers, newer ones of its kind fill the working      *)
(* memory, or the message gets no narrative.                               *)
SeedsAreRecalled ==
    stage = "prompted" /\ narrative.built =>
        \A m \in memories :
            /\ m.row.origin = "seeded" /\ IsHighImpact(m.row)
            /\ m.at <= known
            => \/ m \in narrative.recalled
               \/ m.clone # speaker
               \/ Cardinality({n \in MemoriesOf(speaker) : n.at > m.at /\ IsHighImpact(n.row)})
                    >= WorkingMemoryLimit

(* The prompt does not ask for two things at once.  A clone told to answer *)
(* with little energy has no tense narrative, no residual emotion and no   *)
(* jealous bond its user provokes; it is told to look for a subtext only   *)
(* for the toxic goal, and to name a residual emotion only of a memory.    *)
DirectivesAgree ==
    stage = "prompted" =>
        /\ prompt.goal = "grey rock" \/ prompt.filter = "casual" =>
             /\ ~narrative.tense /\ ~prompt.conflict /\ prompt.goal # "toxic"
             /\ ~(message.keyword /\ IsJealous([trust    |-> snapshot.trust,
                                               intimacy |-> snapshot.intimacy]))
        /\ prompt.filter = "suspicious" => prompt.goal = "toxic" /\ ~narrative.tense
        /\ prompt.conflict => narrative.tense

(* llm_parser.go:27 and :115: the fallback never returns inner_monologue,  *)
(* not even when it comes as plain text.                                   *)
MonologueIsNeverReturned ==
    stage = "answered" => {"monologue", "thought"} \cap Range(reply) = {}
=============================================================================
