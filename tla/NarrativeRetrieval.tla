------------------------ MODULE NarrativeRetrieval ------------------------
(***************************************************************************)
(* NarrativeService over its two tables: what BuildNarrativeContext puts   *)
(* before the clone when a message comes in, while the director's console, *)
(* a process of its own, seeds memories and creates characters for any     *)
(* clone of the user.                                                      *)
(*                                                                         *)
(* One action per call to the database or the LLM.  CloneTurn takes the    *)
(* message to its end.                                                     *)
(*                                                                         *)
(* Abstracted: a text is a name with what the rules find in it; the        *)
(* similarity of a query and a text, and the verdict of the judge, are     *)
(* free; cosine similarity depends on the text alone, so rows of one text  *)
(* have one similarity.  The external cache is never set in this program.  *)
(***************************************************************************)
EXTENDS NarrativeRules, Sequences, Functions

CONSTANTS
    Clones,       \* the profiles of the user
    NoClone,      \* stands for no profile
    Messages,     \* the messages that may come in, with what is found in them
    Scenes,       \* what the console may seed: [content, importance, weight, category, signal]
    Characters,   \* what the console may create: [name, trust, intimacy, respect, signal]
    Similarities, \* the similarities a search may find
    DaysAgo,      \* how many days before a search a row may have been written
    SearchLimit, WorkingMemoryLimit, MaxJudge,
    ContextLimit, \* maxTotalMemoriesInContext
    MaxTurns      \* bound on the messages, seeds and characters of a behaviour

ASSUME CloneAssumption == NoClone \notin Clones
ASSUME MessagesAssumption ==
    \A m \in Messages :
        /\ m.raw \in Int /\ m.category \in Categories
        /\ {m.signal, m.negates, m.benign, m.keyword} \subseteq BOOLEAN
ASSUME ScenesAssumption ==
    \A s \in Scenes :
        /\ {s.importance, s.weight} \subseteq Int /\ s.category \in Categories \ {""}
        /\ s.signal \in BOOLEAN
ASSUME CharactersAssumption ==
    \A c \in Characters :
        {c.trust, c.intimacy, c.respect} \subseteq Int /\ c.signal \in BOOLEAN
ASSUME SearchAssumption == Similarities \subseteq Int /\ DaysAgo \subseteq Int
ASSUME TurnsAssumption  == MaxTurns \in Nat

(* The deployed limits are 5, 3, 2 and 7: so the working memory always     *)
(* fits and the search may be cut.                                         *)
ASSUME LimitsAssumption ==
    /\ SearchLimit \in 1..5 /\ WorkingMemoryLimit \in 1..3 /\ MaxJudge \in 0..2
    /\ ContextLimit \in WorkingMemoryLimit..7

VARIABLES
    memories,   \* narrative_memories: [clone, at, content, row], at their order
    characters, \* the table characters: [clone, bond]
    turns,      \* messages received and memories seeded so far
    stage,      \* where Chat stands in the current turn
    message,    \* userMessage
    speaker,    \* the profile Chat has found for the user
    known,      \* history: the number of rows when the message came in
    active,     \* the bonds of the turn
    ranked,     \* scored: the result of the search, best first
    next,       \* the candidate the loop is at
    verdicts,   \* judgeCache: the judge's answers in this call, by text
    found,      \* the candidates kept so far, in order
    narrative   \* the context, once built: its memories, residue, bond, tension

tables        == <<memories, characters>>
searchVars    == <<ranked, next, verdicts, found>>
retrievalVars == <<tables, turns, stage, message, speaker, known, active,
                   searchVars, narrative>>

NoMessage   == [raw |-> 0, category |-> "", signal |-> FALSE]
NoNarrative == [built |-> FALSE, recalled |-> {}, residue |-> FALSE,
                tenseBond |-> FALSE, tense |-> FALSE]

(* What the call computed goes with the call.                              *)
NoSearch ==
    /\ ranked' = <<>>
    /\ next' = 1
    /\ verdicts' = <<>>
    /\ found' = <<>>

RetrievalInit ==
    /\ memories = {} /\ characters = {} /\ turns = 0
    /\ stage = "idle" /\ message = NoMessage /\ speaker = NoClone /\ known = 0
    /\ active = {}
    /\ ranked = <<>> /\ next = 1 /\ verdicts = <<>> /\ found = <<>>
    /\ narrative = NoNarrative

-----------------------------------------------------------------------------
(* The tables.                                                             *)

MemoriesOf(clone)   == {m \in memories : m.clone = clone}
CharactersOf(clone) == {c.bond : c \in {d \in characters : d.clone = clone}}

(* Mutant of Insert: a text is kept once. *)
InsertOncePerText(clone, content, row) ==
    memories' = {m \in memories : m.clone # clone \/ m.content # content}
                  \cup {[clone |-> clone, at |-> Cardinality(memories) + 1,
                         content |-> content, row |-> row]}

(* InjectMemory: rows are never changed or deleted.                        *)
Insert(clone, content, row) ==
    memories' = memories \cup {[clone |-> clone, at |-> Cardinality(memories) + 1,
                                content |-> content, row |-> row]}

InBounds == turns + Cardinality(characters) < MaxTurns

(* The director, at any time: seedMemoryFlow and addCharacterFlow, for the *)
(* clone selected in the console.                                          *)
SeedMemory ==
    /\ InBounds
    /\ \E clone \in Clones, s \in Scenes :
         Insert(clone, s.content, SeededRow(s.importance, s.weight, s.category, s.signal))
    /\ turns' = turns + 1
    /\ UNCHANGED <<characters, stage, message, speaker, known, active, searchVars, narrative>>

CreateRelation ==
    /\ InBounds
    /\ \E clone \in Clones, bond \in Characters :
         characters' = characters \cup {[clone |-> clone, bond |-> bond]}
    /\ UNCHANGED <<memories, turns, stage, message, speaker, known, active,
                   searchVars, narrative>>

-----------------------------------------------------------------------------
(* The call.                                                               *)

(* Chat: GetByUserID selects the profiles of the user in no order and      *)
(* takes the first row.                                                    *)
Receive ==
    /\ stage = "idle"
    /\ InBounds
    /\ message' \in Messages
    /\ speaker' \in Clones
    /\ known' = Cardinality(memories)
    /\ stage' = "received"
    /\ turns' = turns + 1
    /\ UNCHANGED <<tables, active, searchVars, narrative>>

ListCharacters ==
    /\ stage = "received"
    /\ ~message.negates
    /\ active' = ActiveCharacters(CharactersOf(speaker), message)
    /\ stage' = "bonded"
    /\ UNCHANGED <<tables, turns, message, speaker, known, searchVars, narrative>>

(* A message that negates its subject gets no narrative at all; nor does   *)
(* one whose characters, query embedding, search or working memory cannot  *)
(* be read.  Chat goes on without.                                         *)
SkipNarrativeContext ==
    /\ \/ stage \in {"received", "bonded"}
       \/ stage = "ranked" /\ next > Len(ranked)
    /\ NoSearch
    /\ active' = {}
    /\ stage' = "narrated"
    /\ UNCHANGED <<tables, turns, message, speaker, known, narrative>>

(* Neither attempt at a query yields one: nothing is searched for.         *)
EvokeNothing ==
    /\ stage = "bonded"
    /\ NoSearch
    /\ stage' = "ranked"
    /\ UNCHANGED <<tables, turns, message, speaker, known, active, narrative>>

(* The order of a search: best score first, ties in any order, cut.        *)
Rankings(scored) ==
    LET n == IF Cardinality(scored) < SearchLimit THEN Cardinality(scored) ELSE SearchLimit
    IN  {s \in [1..n -> scored] :
           /\ IsInjective(s)
           /\ \A i \in 1..n, c \in scored :
                (\A j \in 1..i : s[j] # c) => c.score <= s[i].score}

(* The days since each row was written are those of their order.           *)
Ages(rows) ==
    {age \in [rows -> DaysAgo] : \A m, n \in rows : m.at < n.at => age[n] <= age[m]}

Search ==
    /\ stage = "bonded"
    /\ LET rows == MemoriesOf(speaker)
       IN  \E similarity \in [{m.content : m \in rows} -> Similarities], age \in Ages(rows) :
             ranked' \in Rankings(
               {[memory     |-> m,
                 similarity |-> similarity[m.content],
                 score      |-> Score(m.row, similarity[m.content], age[m], message)]
                  : m \in rows})
    /\ stage' = "ranked"
    /\ UNCHANGED <<tables, turns, message, speaker, known, active, next, verdicts, found,
                   narrative>>

(* The second of the ranking is dropped when the first is well ahead; at   *)
(* just the gap, the last bit of the scores decides.                       *)
Gap(c) == next = 2 /\ ranked[1].score - c.score >= GapScore
NoGap(c) == next # 2 \/ ranked[1].score - c.score <= GapScore

Judged(c) == c.memory.content \in DOMAIN verdicts
Doubtful(c) == c.similarity >= HardFloor /\ c.similarity < UpperSimilarity

(* Mutant of Budget: verdicts are not counted. *)
BudgetUnspent == MaxJudge

(* judgeCalls against maxJudge: only answered calls count.                 *)
Budget == MaxJudge - Cardinality(DOMAIN verdicts)

(* Kept or dropped without asking.                                         *)
Keeps(c) ==
    \/ message.benign /\ ~ShouldSkipTrauma(c.memory.row) /\ c.similarity >= HardFloor
    \/ /\ ~message.benign /\ NoGap(c)
       /\ \/ c.similarity >= UpperSimilarity
          \/ Doubtful(c) /\ Judged(c) /\ verdicts[c.memory.content]

Drops(c) ==
    \/ message.benign /\ (ShouldSkipTrauma(c.memory.row) \/ c.similarity < HardFloor)
    \/ ~message.benign /\ Gap(c)
    \/ ~message.benign /\ NoGap(c) /\ c.similarity < HardFloor
    \/ /\ ~message.benign /\ NoGap(c) /\ Doubtful(c)
       /\ IF Judged(c) THEN ~verdicts[c.memory.content] ELSE Budget = 0

AsksJudge(c) ==
    ~message.benign /\ NoGap(c) /\ Doubtful(c) /\ ~Judged(c) /\ Budget > 0

(* The candidate the loop is at, and the step to the one after it.         *)
AtCandidate == stage = "ranked" /\ next <= Len(ranked)
Candidate   == ranked[next]
Step ==
    /\ next' = next + 1
    /\ UNCHANGED <<tables, turns, stage, message, speaker, known, active, ranked, narrative>>

Keep ==
    /\ AtCandidate /\ Keeps(Candidate)
    /\ found' = Append(found, Candidate.memory)
    /\ UNCHANGED verdicts
    /\ Step

Drop ==
    /\ AtCandidate /\ Drops(Candidate)
    /\ UNCHANGED <<found, verdicts>>
    /\ Step

JudgeMemory ==
    /\ AtCandidate /\ AsksJudge(Candidate)
    /\ \E use \in BOOLEAN :
         /\ verdicts' = [text \in DOMAIN verdicts \cup {Candidate.memory.content} |->
                           IF text \in DOMAIN verdicts THEN verdicts[text] ELSE use]
         /\ found' = IF use THEN Append(found, Candidate.memory) ELSE found
    /\ Step

(* No answer, or one that is no verdict: dropped, and the budget is whole. *)
JudgeFails ==
    /\ AtCandidate /\ AsksJudge(Candidate)
    /\ UNCHANGED <<found, verdicts>>
    /\ Step

(* The newest of the rows of high impact.                                  *)
WorkingMemories(clone) ==
    LET strong == {m \in MemoriesOf(clone) : IsHighImpact(m.row)}
    IN  {m \in strong : Cardinality({n \in strong : n.at > m.at}) < WorkingMemoryLimit}

(* Mutant of Merged: the search first. *)
MergedSearchFirst(working, others) ==
    LET room == ContextLimit - Len(others)
    IN  Range(others) \cup
          {m \in working : Cardinality({n \in working \ Range(others) : n.at > m.at}) < room}

(* mergeDedupMemories and limitMemories: the working memory first, then    *)
(* what the search found, as far as there is room.                         *)
Merged(working, others) ==
    LET new  == {i \in DOMAIN others : others[i] \notin working}
        room == ContextLimit - Cardinality(working)
    IN  working \cup
          {others[i] : i \in {j \in new : Cardinality({k \in new : k < j}) < room}}

(* The first of the strongest, the lines being sorted newest first.        *)
Dominant(rows) ==
    CHOOSE m \in rows :
        /\ m.row \in Strongest({n.row : n \in rows})
        /\ \A n \in rows : n.row \in Strongest({o.row : o \in rows}) => n.at <= m.at

NarrativeOf(recalled, bonds) ==
    LET tenseBond == \E c \in bonds : IsTenseBond(c)
        rows == {m.row : m \in recalled}
    IN  IF recalled = {}
        THEN [NoNarrative EXCEPT !.built = TRUE, !.tenseBond = tenseBond,
                                 !.tense = tenseBond]
        ELSE LET top == Dominant(recalled).row
             IN  [built |-> TRUE, recalled |-> recalled, residue |-> LeavesResidue(top),
                  tenseBond |-> tenseBond, tense |-> HighTension(tenseBond, rows, top)]

(* The working memory is read when the search is through, and the text is  *)
(* put together.                                                           *)
BuildNarrativeContext ==
    /\ stage = "ranked" /\ next > Len(ranked)
    /\ narrative' = NarrativeOf(Merged(WorkingMemories(speaker), found), active)
    /\ active' = {}
    /\ NoSearch
    /\ stage' = "narrated"
    /\ UNCHANGED <<tables, turns, message, speaker, known>>

RetrievalStep ==
    \/ ListCharacters
    \/ SkipNarrativeContext
    \/ EvokeNothing
    \/ Search
    \/ Keep
    \/ Drop
    \/ JudgeMemory
    \/ JudgeFails
    \/ BuildNarrativeContext

DirectorStep == SeedMemory \/ CreateRelation
=============================================================================
