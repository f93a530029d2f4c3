---------------------- MODULE ConversationTurnProofs ----------------------
(***************************************************************************)
(* The turn of a conversation composed with the analyses it starts: every  *)
(* step of the composition is, to the analyses, one of their own or time   *)
(* passing.  So what is proved of the analyses alone holds of them here.   *)
(*                                                                         *)
(* And theorems about the messages: an answer matches the database, a post *)
(* that is rejected leaves nothing, and the context of a turn is the       *)
(* recent past of its session.  They rest on one invariant about the       *)
(* requests together: a handler that has got past its insert finds its     *)
(* message in the table, one that has not has set nothing off, and what    *)
(* was the newest part of a session stays below what is inserted later.    *)
(***************************************************************************)
EXTENDS ConversationTurn, TraitAnalysisProofs, FiniteSetTheorems

(* A step of Chat starts an analysis, reads the clock, or leaves the       *)
(* analyses as they are.                                                   *)
LEMMA ChatStepRunsApart ==
    ASSUME TraitTypeOK, NEW r \in Requests, ChatStep(r)
    PROVE  [TraitNext]_traitVars
<1>1. CASE StorePost(r)
  BY <1>1 DEF StorePost, TraitNext
<1>2. CASE Generate(r)
  BY <1>2 DEF Generate, TraitNext, TimePasses, TraitTypeOK
<1>3. CASE \/ StorePostFails(r) \/ RefuseBlank(r) \/ GetProfile(r) \/ FindTraits(r)
           \/ GetContext(r) \/ Weigh(r) \/ InjectMemory(r)
           \/ StoreReply(r) \/ StoreReplyFails(r) \/ ChatFails(r)
  BY <1>3 DEF StorePostFails, RefuseBlank, GetProfile, FindTraits, GetContext, Weigh,
     InjectMemory, StoreReply, StoreReplyFails, ChatFails
<1> QED BY <1>1, <1>2, <1>3 DEF ChatStep

LEMMA StepRunsApart == TraitTypeOK /\ [Next]_vars => [TraitNext]_traitVars
<1> SUFFICES ASSUME TraitTypeOK, [Next]_vars PROVE [TraitNext]_traitVars
  OBVIOUS
<1>1. CASE CloneCreated
  BY <1>1 DEF CloneCreated, TraitNext
<1>2. CASE CreateSession
  BY <1>2 DEF CreateSession
<1>3. CASE Crash
  BY <1>3 DEF Crash, TraitNext
<1>4. ASSUME NEW r \in Requests, Accept(r) PROVE [TraitNext]_traitVars
  BY <1>4 DEF Accept, TraitNext, TimePasses, TraitTypeOK
<1>5. ASSUME NEW r \in Requests, ChatStep(r) PROVE [TraitNext]_traitVars
  BY <1>5, ChatStepRunsApart
<1>6. ASSUME NEW r \in Requests, BackgroundStep(r) PROVE [TraitNext]_traitVars
  BY <1>6 DEF BackgroundStep, TraitNext
<1>7. CASE UNCHANGED vars
  BY <1>7 DEF vars
<1> QED BY <1>1, <1>2, <1>3, <1>4, <1>5, <1>6, <1>7 DEF Next

(* A conversation, for any number of requests, sessions and reports,       *)
(* implements the analyses it starts.                                      *)
THEOREM ConversationRunsAnalysesApart == Spec => AnalysesRunApart
<1>1. Init => TraitInit
  BY DEF Init
<1>2. TraitInit => TraitTypeOK
  BY InitHolds DEF IInv
<1>3. TraitTypeOK /\ [TraitNext]_traitVars => TraitTypeOK'
  BY TypeCorrect
<1> QED BY <1>1, <1>2, <1>3, StepRunsApart, PTL DEF Spec, AnalysesRunApart, TraitSpec

(* In a conversation too no analysis is undone by an earlier one ...       *)
THEOREM LaterPrevailsInConversation == Spec => []LaterAnalysisPrevails
BY ConversationRunsAnalysesApart, LaterPrevails, PTL DEF AnalysesRunApart

(* ... and a time stamp goes back only when two analyses overlapped.       *)
THEOREM StampsInConversation == Spec => UpdatedAtGoesBackOnlyByOverlap
BY ConversationRunsAnalysesApart, StampsGoBackOnlyByOverlap, PTL DEF AnalysesRunApart

(* Of a trait that a report names twice, the last item prevails there too. *)
THEOREM LastItemsInConversation == Spec => []LastItemPrevails
BY ConversationRunsAnalysesApart, LastItemsPrevail, PTL DEF AnalysesRunApart

-----------------------------------------------------------------------------

(* The handler has a reply to store only after the message it answers, the *)
(* message is in the database from then on, and its time is of the past.   *)
PostIsStored ==
    \A r \in Requests :
        /\ pc[r] \in ChatSteps \ {"accepted"} => PostRow(r) \in messages
        /\ pc[r] \in ChatSteps => post[r].at <= now
        /\ pc[r] = "generated" => post[r].at < replyAt[r]

(* Until a message is stored with success, nothing else is due to its      *)
(* request.                                                                *)
NothingBeforePost ==
    \A r \in Requests : pc[r] \in {"idle", "accepted", "rejected"} =>
        /\ \A m \in StoredParts(r) : m.part = "post"
        /\ r \notin remembered
        /\ apc[r] = "none"
        /\ \A t \in Traits : traitRow[t].by # r

(* A turn that was answered when another came in is over for good.         *)
AnsweredStay ==
    \A r \in Requests : \A q \in answered[r] : pc[q] = "created"

TurnInv ==
    /\ TypeOK
    /\ PostIsStored
    /\ ResponseMatchesStore
    /\ NothingBeforePost
    /\ IsFiniteSet(messages)
    /\ AnsweredStay
    /\ ContextIsRecent

-----------------------------------------------------------------------------

LEMMA Defaults ==
    /\ NoPost \in Posts
    /\ NoTraits \in [Traits -> TraitRows]
BY SessionsAssumption DEF NoPost, Posts, NoTraits, NoTraitRow, TraitRows

LEMMA RowsAreRows ==
    ASSUME TypeOK, NEW r \in Requests
    PROVE  PostRow(r) \in Rows /\ ReplyRow(r) \in Rows
BY DEF TypeOK, Posts, PostRow, ReplyRow, Rows

(* A request that is closed keeps nothing.                                 *)
LEMMA CloseKeepsTypes ==
    ASSUME TypeOK, NEW r \in Requests, NEW result \in Closed, Close(r, result)
    PROVE  /\ pc' \in [Requests -> {"idle"} \cup ChatSteps \cup Closed]
           /\ post' \in [Requests -> Posts]
           /\ context' \in [Requests -> SUBSET Rows]
           /\ traits' \in [Requests -> [Traits -> TraitRows]]
           /\ replyAt' \in [Requests -> Nat]
           /\ answered' \in [Requests -> SUBSET Requests]
BY Defaults DEF TypeOK, Close, Goto

LEMMA ChatStepKeepsTypes ==
    ASSUME TypeOK, TraitTypeOK', NEW r \in Requests, ChatStep(r)
    PROVE  TypeOK'
<1> USE DEF TypeOK
<1>1. CASE StorePost(r)
  BY <1>1, RowsAreRows DEF StorePost, Goto, ChatSteps
<1>2. CASE StorePostFails(r)
  <2>1. "rejected" \in Closed /\ Close(r, "rejected")
    BY <1>2 DEF StorePostFails, Closed
  <2> QED BY <1>2, <2>1, CloseKeepsTypes, RowsAreRows DEF StorePostFails
<1>3. CASE RefuseBlank(r) \/ ChatFails(r)
  <2>1. "failed" \in Closed /\ Close(r, "failed")
    BY <1>3 DEF RefuseBlank, ChatFails, Closed
  <2> QED BY <1>3, <2>1, CloseKeepsTypes DEF RefuseBlank, ChatFails
<1>4. CASE StoreReply(r)
  <2>1. "created" \in Closed /\ Close(r, "created")
    BY <1>4 DEF StoreReply, Closed
  <2> QED BY <1>4, <2>1, CloseKeepsTypes, RowsAreRows DEF StoreReply
<1>5. CASE StoreReplyFails(r)
  <2>1. "failed" \in Closed /\ Close(r, "failed")
    BY <1>5 DEF StoreReplyFails, Closed
  <2> QED BY <1>5, <2>1, CloseKeepsTypes, RowsAreRows DEF StoreReplyFails
<1>6. CASE GetProfile(r)
  BY <1>6 DEF GetProfile, Goto, ChatSteps
<1>7. CASE FindTraits(r)
  BY <1>7 DEF FindTraits, Goto, ChatSteps, TraitTypeOK
<1>8. CASE GetContext(r)
  BY <1>8 DEF GetContext, Goto, ChatSteps, Newest, InSession
<1>9. CASE Weigh(r)
  BY <1>9 DEF Weigh, Goto, ChatSteps
<1>10. CASE InjectMemory(r)
  BY <1>10 DEF InjectMemory, Goto, ChatSteps
<1>11. CASE Generate(r)
  BY <1>11 DEF Generate, Goto, ChatSteps, TraitTypeOK
<1> QED BY <1>1, <1>2, <1>3, <1>4, <1>5, <1>6, <1>7, <1>8, <1>9, <1>10, <1>11 DEF ChatStep

(* Types are kept by every step of the conversation.                       *)
LEMMA TurnTypeCorrect == TypeOK /\ [Next]_vars => TypeOK'
<1> SUFFICES ASSUME TypeOK, [Next]_vars PROVE TypeOK'
  OBVIOUS
<1>1. TraitTypeOK'
  BY StepRunsApart, TypeCorrect DEF TypeOK
<1> USE <1>1 DEF TypeOK
<1>2. CASE CloneCreated
  BY <1>2 DEF CloneCreated, chatVars
<1>3. CASE CreateSession
  BY <1>3 DEF CreateSession, chatVars
<1>4. CASE Crash
  <2>1. pc' \in [Requests -> {"idle"} \cup ChatSteps \cup Closed]
    BY <1>4 DEF Crash, Closed
  <2> QED BY <1>4, <2>1, Defaults DEF Crash
<1>5. ASSUME NEW r \in Requests, Accept(r) PROVE TypeOK'
  BY <1>5, BlanksAssumption DEF Accept, Goto, ChatSteps, Posts, TraitTypeOK
<1>6. ASSUME NEW r \in Requests, ChatStep(r) PROVE TypeOK'
  BY <1>6, ChatStepKeepsTypes
<1>7. ASSUME NEW r \in Requests, BackgroundStep(r) PROVE TypeOK'
  BY <1>7 DEF BackgroundStep, chatVars
<1>8. CASE UNCHANGED vars
  BY <1>8 DEF vars, chatVars
<1> QED BY <1>2, <1>3, <1>4, <1>5, <1>6, <1>7, <1>8 DEF Next
-----------------------------------------------------------------------------

(* What the conversation keeps of a request.                               *)
SameTurn(q) ==
    /\ pc'[q] = pc[q]
    /\ post'[q] = post[q]
    /\ context'[q] = context[q]
    /\ replyAt'[q] = replyAt[q]
    /\ answered'[q] = answered[q]

(* A step of Chat is one of a request that has come in and not been        *)
(* answered: it changes that request's turn only and adds rows of its own. *)
LEMMA ChatStepIsItsOwn ==
    ASSUME TypeOK, NEW r \in Requests, ChatStep(r)
    PROVE  /\ pc[r] \in ChatSteps
           /\ \A q \in Requests \ {r} : SameTurn(q) /\ apc'[q] = apc[q]
           /\ messages \subseteq messages'
           /\ messages' \subseteq messages \cup {PostRow(r), ReplyRow(r)}
           /\ remembered' \subseteq remembered \cup {r}
           /\ now \in Nat /\ now' \in Nat /\ now <= now'
           /\ traitRow' = traitRow
<1> USE DEF TypeOK, TraitTypeOK, SameTurn, ChatSteps, Goto, Close, traitVars, analysisVars
<1>1. CASE StorePost(r)
  BY <1>1 DEF StorePost, StartAnalysis
<1>2. CASE StorePostFails(r) \/ RefuseBlank(r) \/ ChatFails(r)
  BY <1>2 DEF StorePostFails, RefuseBlank, ChatFails
<1>3. CASE StoreReply(r) \/ StoreReplyFails(r)
  BY <1>3 DEF StoreReply, StoreReplyFails
<1>4. CASE GetProfile(r) \/ FindTraits(r) \/ GetContext(r)
  BY <1>4 DEF GetProfile, FindTraits, GetContext
<1>5. CASE Weigh(r) \/ InjectMemory(r)
  BY <1>5 DEF Weigh, InjectMemory
<1>6. CASE Generate(r)
  BY <1>6 DEF Generate
<1> QED BY <1>1, <1>2, <1>3, <1>4, <1>5, <1>6 DEF ChatStep

(* A step that leaves the turns and the rows alone, while time may pass.   *)
QuietTurn ==
    /\ \A q \in Requests : SameTurn(q)
    /\ messages' = messages
    /\ remembered' = remembered
    /\ now \in Nat /\ now' \in Nat /\ now <= now'

LEMMA RowsOfATurn ==
    ASSUME NEW r \in Requests
    PROVE  /\ PostRow(r).req = r /\ PostRow(r).part = "post"
           /\ PostRow(r).session = post[r].session /\ PostRow(r).at = post[r].at
           /\ ReplyRow(r).req = r /\ ReplyRow(r).part = "reply"
           /\ ReplyRow(r).session = post[r].session /\ ReplyRow(r).at = replyAt[r]
BY DEF PostRow, ReplyRow

LEMMA SameTurnSameRows ==
    ASSUME NEW q \in Requests, SameTurn(q)
    PROVE  PostRow(q)' = PostRow(q)
BY DEF SameTurn, PostRow

(* The request of a step of Chat: its message stays stored and dated.      *)
LEMMA OwnPostIsStored ==
    ASSUME TypeOK, PostIsStored, NEW r \in Requests, ChatStep(r)
    PROVE  /\ pc'[r] \in ChatSteps \ {"accepted"} => PostRow(r)' \in messages'
           /\ pc'[r] \in ChatSteps => post'[r].at <= now'
           /\ pc'[r] = "generated" => post'[r].at < replyAt'[r]
<1> DEFINE Stored == /\ pc'[r] \in ChatSteps \ {"accepted"} => PostRow(r)' \in messages'
                     /\ pc'[r] \in ChatSteps => post'[r].at <= now'
                     /\ pc'[r] = "generated" => post'[r].at < replyAt'[r]
<1>1. ASSUME post'[r] = post[r] PROVE PostRow(r)' = PostRow(r)
  BY <1>1 DEF PostRow
<1>2. post[r].at \in Nat /\ now \in Nat
  BY DEF TypeOK, TraitTypeOK, Posts
<1>3. ASSUME NEW result \in Closed, Close(r, result) PROVE Stored
  BY <1>3 DEF TypeOK, Close, Goto, Closed, ChatSteps
<1> USE DEF PostIsStored, ChatSteps, Goto, TypeOK, traitVars
<1>4. CASE StorePost(r)
  BY <1>1, <1>2, <1>4 DEF StorePost, StartAnalysis
<1>5. CASE StorePostFails(r) \/ RefuseBlank(r) \/ ChatFails(r) \/ StoreReply(r) \/ StoreReplyFails(r)
  BY <1>3, <1>5 DEF StorePostFails, RefuseBlank, ChatFails, StoreReply, StoreReplyFails, Closed
<1>6. CASE GetProfile(r) \/ FindTraits(r) \/ GetContext(r) \/ Weigh(r) \/ InjectMemory(r)
  <2>1. /\ pc[r] \in {"stored", "profiled", "traitsRead", "contextRead", "weighed"}
        /\ pc'[r] \in ChatSteps \ {"generated"} /\ post' = post /\ messages' = messages /\ now' = now
    BY <1>6 DEF GetProfile, FindTraits, GetContext, Weigh, InjectMemory
  <2> QED BY <1>1, <1>2, <2>1
<1>7. CASE Generate(r)
  BY <1>1, <1>2, <1>7 DEF Generate
<1> QED BY <1>4, <1>5, <1>6, <1>7 DEF ChatStep

LEMMA ChatKeepsPostIsStored ==
    ASSUME TypeOK, PostIsStored, NEW r \in Requests, ChatStep(r)
    PROVE  PostIsStored'
<1> SUFFICES ASSUME NEW q \in Requests
             PROVE  /\ pc'[q] \in ChatSteps \ {"accepted"} => PostRow(q)' \in messages'
                    /\ pc'[q] \in ChatSteps => post'[q].at <= now'
                    /\ pc'[q] = "generated" => post'[q].at < replyAt'[q]
  BY DEF PostIsStored
<1>1. CASE q = r
  BY <1>1, OwnPostIsStored
<1>2. CASE q # r
  <2>1. SameTurn(q) /\ messages \subseteq messages' /\ now <= now' /\ now \in Nat /\ now' \in Nat
    BY <1>2, ChatStepIsItsOwn
  <2>2. PostRow(q)' = PostRow(q)
    BY <2>1, SameTurnSameRows
  <2>3. post[q].at \in Nat
    BY DEF TypeOK, Posts
  <2> QED BY <2>1, <2>2, <2>3 DEF PostIsStored, SameTurn
<1> QED BY <1>1, <1>2
(* What a turn promises when it closes is in the database: "created" comes *)
(* after both rows, "failed" only after the first.                         *)
LEMMA OwnResponseMatches ==
    ASSUME TypeOK, PostIsStored, NEW r \in Requests, ChatStep(r)
    PROVE  /\ pc'[r] = "created" =>
                /\ PostRow(r) \in messages' /\ ReplyRow(r) \in messages'
                /\ post[r].at < replyAt[r]
           /\ pc'[r] = "failed" => PostRow(r) \in messages'
<1> USE DEF TypeOK, Goto, Close
<1>1. CASE StorePost(r) \/ StorePostFails(r)
  BY <1>1 DEF StorePost, StorePostFails
<1>2. CASE RefuseBlank(r) \/ ChatFails(r) \/ StoreReply(r) \/ StoreReplyFails(r)
  BY <1>2 DEF RefuseBlank, ChatFails, StoreReply, StoreReplyFails, PostIsStored, ChatSteps
<1>3. CASE \/ GetProfile(r) \/ FindTraits(r) \/ GetContext(r) \/ Weigh(r)
           \/ InjectMemory(r) \/ Generate(r)
  BY <1>3 DEF GetProfile, FindTraits, GetContext, Weigh, InjectMemory, Generate
<1> QED BY <1>1, <1>2, <1>3 DEF ChatStep

LEMMA ChatKeepsResponse ==
    ASSUME TypeOK, PostIsStored, ResponseMatchesStore, NEW r \in Requests, ChatStep(r)
    PROVE  ResponseMatchesStore'
<1> SUFFICES ASSUME NEW q \in Requests
             PROVE  /\ pc'[q] = "created" =>
                         \E p, s \in StoredParts(q)' :
                            /\ p.part = "post" /\ s.part = "reply"
                            /\ p.session = s.session /\ p.at < s.at
                    /\ pc'[q] = "failed" => \E p \in StoredParts(q)' : p.part = "post"
  BY DEF ResponseMatchesStore
<1>1. CASE q = r
  <2>1. /\ PostRow(r) \in messages' => PostRow(r) \in StoredParts(r)'
        /\ ReplyRow(r) \in messages' => ReplyRow(r) \in StoredParts(r)'
    BY RowsOfATurn DEF StoredParts
  <2> QED BY <1>1, <2>1, OwnResponseMatches, RowsOfATurn
<1>2. CASE q # r
  <2>1. StoredParts(q) \subseteq StoredParts(q)' /\ pc'[q] = pc[q]
    BY <1>2, ChatStepIsItsOwn DEF StoredParts, SameTurn
  <2> QED BY <2>1 DEF ResponseMatchesStore
<1> QED BY <1>1, <1>2

(* Neither the request's own step nor another's leaves anything behind     *)
(* before its message is stored.                                           *)
LEMMA OwnNothingBefore ==
    ASSUME TypeOK, NothingBeforePost, NEW r \in Requests, ChatStep(r),
           pc'[r] \in {"idle", "accepted", "rejected"}
    PROVE  /\ pc[r] = "accepted" /\ remembered' = remembered /\ UNCHANGED traitVars
           /\ messages' \subseteq messages \cup {PostRow(r)}
<1> USE DEF TypeOK, Goto, Close
<1>1. CASE StorePostFails(r)
  BY <1>1 DEF StorePostFails
<1>2. CASE StorePost(r) \/ RefuseBlank(r) \/ ChatFails(r) \/ StoreReply(r) \/ StoreReplyFails(r)
  BY <1>2 DEF StorePost, RefuseBlank, ChatFails, StoreReply, StoreReplyFails
<1>3. CASE \/ GetProfile(r) \/ FindTraits(r) \/ GetContext(r) \/ Weigh(r)
           \/ InjectMemory(r) \/ Generate(r)
  BY <1>3 DEF GetProfile, FindTraits, GetContext, Weigh, InjectMemory, Generate
<1> QED BY <1>1, <1>2, <1>3 DEF ChatStep

LEMMA ChatKeepsNothingBefore ==
    ASSUME TypeOK, NothingBeforePost, NEW r \in Requests, ChatStep(r)
    PROVE  NothingBeforePost'
<1> SUFFICES ASSUME NEW q \in Requests, pc'[q] \in {"idle", "accepted", "rejected"}
             PROVE  /\ \A m \in StoredParts(q)' : m.part = "post"
                    /\ q \notin remembered'
                    /\ apc'[q] = "none"
                    /\ \A t \in Traits : traitRow'[t].by # q
  BY DEF NothingBeforePost
<1>1. CASE q = r
  <2>1. StoredParts(r)' \subseteq StoredParts(r) \cup {PostRow(r)}
    BY <1>1, OwnNothingBefore DEF StoredParts
  <2> QED BY <1>1, <2>1, OwnNothingBefore, RowsOfATurn
          DEF NothingBeforePost, traitVars, analysisVars
<1>2. CASE q # r
  <2>1. StoredParts(q)' \subseteq StoredParts(q)
    BY <1>2, ChatStepIsItsOwn, RowsOfATurn DEF StoredParts
  <2> QED BY <1>2, <2>1, ChatStepIsItsOwn DEF NothingBeforePost, SameTurn
<1> QED BY <1>1, <1>2

(* A trait row is only ever written by the analysis it then names.         *)
LEMMA BackgroundKeepsNothingBefore ==
    ASSUME TypeOK, NothingBeforePost, NEW r \in Requests, BackgroundStep(r)
    PROVE  NothingBeforePost'
<1>1. /\ apc[r] # "none" /\ \A q \in Requests \ {r} : apc'[q] = apc[q]
      /\ pc' = pc /\ messages' = messages /\ remembered' = remembered
  BY DEF BackgroundStep, AnalysisStep, AnalysisProfile, RunAnalysis, UpsertTrait, SkipItem,
     UpsertFails, FinishAnalysis, AnalysisFails, TypeOK, TraitTypeOK, chatVars
<1>2. \A t \in Traits : traitRow'[t].by \in {traitRow[t].by, r}
  <2>1. CASE UpsertTrait(r)
    BY <2>1, HeadIsItem, UpsertedRow DEF UpsertTrait, TypeOK
  <2>2. CASE UpsertFails(r)
    BY <2>2, HeadIsItem, UpsertedRow DEF UpsertFails, TypeOK
  <2>3. CASE traitRow' = traitRow
    BY <2>3
  <2> QED BY <2>1, <2>2, <2>3 DEF BackgroundStep, AnalysisStep, AnalysisProfile, RunAnalysis,
          SkipItem, FinishAnalysis, AnalysisFails
<1> QED BY <1>1, <1>2 DEF NothingBeforePost, StoredParts

LEMMA ChatKeepsAnswered ==
    ASSUME TypeOK, AnsweredStay, NEW r \in Requests, ChatStep(r)
    PROVE  AnsweredStay'
<1>1. answered'[r] \in {answered[r], {}}
  BY DEF ChatStep, StorePost, StorePostFails, RefuseBlank, ChatFails, StoreReply, StoreReplyFails,
     GetProfile, FindTraits, GetContext, Weigh, InjectMemory, Generate, Close, TypeOK
<1>2. \A q \in Requests : answered'[q] \subseteq answered[q]
  BY <1>1, ChatStepIsItsOwn DEF SameTurn
<1>3. \A q \in Requests : pc[q] = "created" => pc'[q] = "created"
  BY ChatStepIsItsOwn DEF SameTurn, ChatSteps
<1> QED BY <1>2, <1>3 DEF AnsweredStay, TypeOK
LEMMA ChatKeepsFinite ==
    ASSUME TypeOK, IsFiniteSet(messages), NEW r \in Requests, ChatStep(r)
    PROVE  IsFiniteSet(messages')
<1>1. messages' \subseteq (messages \cup {PostRow(r)}) \cup {ReplyRow(r)}
  BY ChatStepIsItsOwn
<1>2. IsFiniteSet((messages \cup {PostRow(r)}) \cup {ReplyRow(r)})
  BY FS_AddElement
<1> QED BY <1>1, <1>2, FS_Subset

(* The rows of the turn a request answers, and of those answered before.   *)
Past(q) == {m \in InSession(post[q].session) :
              ~m.blank /\ (m.req = q \/ m.req \in answered[q])}

NewerThan(rows, m, session) == {n \in rows : n.session = session /\ n.at > m.at}

(* What GetContext leaves out of the context has a window of newer rows.   *)
LEMMA ContextRead ==
    ASSUME TypeOK, IsFiniteSet(messages), NEW r \in Requests, GetContext(r),
           post[r].session # NoSession, NEW m \in Past(r), m \notin context'[r]
    PROVE  Cardinality(NewerThan(messages, m, post[r].session)) >= ContextWindow
<1>1. m \notin Newest(InSession(post[r].session))
  BY DEF GetContext, TypeOK, Past
<1>2. ~(Cardinality(NewerThan(messages, m, post[r].session)) < ContextWindow)
  <2>1. NewerThan(messages, m, post[r].session)
          = {n \in InSession(post[r].session) : n.at > m.at}
    BY DEF NewerThan, InSession
  <2> QED BY <1>1, <2>1 DEF Newest, Past
<1>3. IsFiniteSet(NewerThan(messages, m, post[r].session))
  BY FS_Subset DEF NewerThan, InSession
<1>4. Cardinality(NewerThan(messages, m, post[r].session)) \in Nat
  BY <1>3, FS_CardinalityType
<1> QED BY <1>2, <1>4, ContextWindowAssumption

(* More rows of a session leave no row with fewer newer ones.              *)
LEMMA NewerOnlyGrows ==
    ASSUME IsFiniteSet(messages'), messages \subseteq messages', NEW m, NEW session,
           Cardinality(NewerThan(messages, m, session)) >= ContextWindow
    PROVE  Cardinality(NewerThan(messages', m, session)) >= ContextWindow
<1>1. NewerThan(messages, m, session) \subseteq NewerThan(messages', m, session)
  BY DEF NewerThan, InSession
<1>2. IsFiniteSet(NewerThan(messages', m, session))
  BY FS_Subset DEF NewerThan, InSession
<1>3. /\ Cardinality(NewerThan(messages, m, session)) \in Nat
      /\ Cardinality(NewerThan(messages', m, session)) \in Nat
      /\ Cardinality(NewerThan(messages, m, session)) <= Cardinality(NewerThan(messages', m, session))
  BY <1>1, <1>2, FS_Subset, FS_CardinalityType
<1> QED BY <1>3, ContextWindowAssumption

(* The rows that count as past of a request that has read its context do   *)
(* not become more by a step of another request's: an answered turn writes *)
(* no more.                                                                *)
LEMMA PastIsFixed ==
    ASSUME TypeOK, AnsweredStay, NEW r \in Requests, ChatStep(r),
           NEW q \in Requests, q # r
    PROVE  Past(q)' \subseteq Past(q)
<1>1. SameTurn(q) /\ messages' \subseteq messages \cup {PostRow(r), ReplyRow(r)}
  BY ChatStepIsItsOwn
<1>2. r \notin answered[q]
  BY ChatStepIsItsOwn DEF AnsweredStay, ChatSteps
<1> QED BY <1>1, <1>2, RowsOfATurn DEF Past, SameTurn, InSession

LEMMA ContextIsRecentOf ==
    ContextIsRecent <=>
        \A q \in Requests : pc[q] = "contextRead" /\ post[q].session # NoSession =>
            \A m \in Past(q) : \/ m \in context[q]
                               \/ Cardinality(NewerThan(messages, m, post[q].session)) >= ContextWindow
BY DEF ContextIsRecent, Past, NewerThan, InSession

LEMMA ContextIsRecentAfter ==
    ASSUME \A q \in Requests : pc'[q] = "contextRead" /\ post'[q].session # NoSession =>
               \A m \in Past(q)' :
                   \/ m \in context'[q]
                   \/ Cardinality(NewerThan(messages', m, post'[q].session)) >= ContextWindow
    PROVE  ContextIsRecent'
BY DEF ContextIsRecent, Past, NewerThan, InSession

LEMMA ChatKeepsContext ==
    ASSUME TypeOK, IsFiniteSet(messages), AnsweredStay, ContextIsRecent,
           NEW r \in Requests, ChatStep(r)
    PROVE  ContextIsRecent'
<1>1. IsFiniteSet(messages')
  BY ChatKeepsFinite
<1> SUFFICES ASSUME NEW q \in Requests, pc'[q] = "contextRead", post'[q].session # NoSession,
                    NEW m \in Past(q)', m \notin context'[q]
             PROVE  Cardinality(NewerThan(messages', m, post'[q].session)) >= ContextWindow
  BY ContextIsRecentAfter
<1>2. CASE q = r
  <2>1. GetContext(r)
    BY <1>2 DEF ChatStep, StorePost, StorePostFails, RefuseBlank, ChatFails, StoreReply,
       StoreReplyFails, GetProfile, FindTraits, Weigh, InjectMemory, Generate, Close, Goto, TypeOK
  <2>2. post' = post /\ messages' = messages /\ answered' = answered
    BY <2>1 DEF GetContext
  <2>3. m \in Past(r) /\ NewerThan(messages', m, post[r].session) = NewerThan(messages, m, post[r].session)
    BY <1>2, <2>2 DEF Past, NewerThan, InSession
  <2> QED BY <1>2, <2>1, <2>2, <2>3, ContextRead
<1>3. CASE q # r
  <2>1. SameTurn(q) /\ messages \subseteq messages'
    BY <1>3, ChatStepIsItsOwn
  <2>2. m \in Past(q)
    BY <1>3, PastIsFixed
  <2>3. Cardinality(NewerThan(messages, m, post[q].session)) >= ContextWindow
    BY <2>1, <2>2, ContextIsRecentOf DEF SameTurn
  <2>4. Cardinality(NewerThan(messages', m, post[q].session)) >= ContextWindow
    BY <1>1, <2>1, <2>3, NewerOnlyGrows
  <2> QED BY <2>1, <2>4 DEF SameTurn
<1> QED BY <1>2, <1>3
-----------------------------------------------------------------------------

(* The steps that are no turn's leave them all as they are, but for the    *)
(* one that comes in and those a crash cuts off.                           *)
LEMMA QuietKeepsTurns ==
    ASSUME TurnInv, QuietTurn, NothingBeforePost'
    PROVE  /\ PostIsStored' /\ ResponseMatchesStore' /\ IsFiniteSet(messages')
           /\ AnsweredStay' /\ ContextIsRecent'
<1> USE DEF TurnInv, QuietTurn
<1>1. PostIsStored'
  <2>1. \A q \in Requests : PostRow(q)' = PostRow(q) /\ post[q].at \in Nat
    BY SameTurnSameRows DEF TypeOK, Posts
  <2> QED BY <2>1 DEF PostIsStored, SameTurn
<1>2. ResponseMatchesStore'
  BY DEF ResponseMatchesStore, StoredParts, SameTurn
<1>3. AnsweredStay'
  BY DEF AnsweredStay, SameTurn, TypeOK
<1>4. ContextIsRecent'
  BY DEF ContextIsRecent, InSession, SameTurn
<1> QED BY <1>1, <1>2, <1>3, <1>4

LEMMA AcceptKeepsTurns ==
    ASSUME TurnInv, TypeOK', NEW r \in Requests, Accept(r)
    PROVE  TurnInv'
<1> USE DEF TurnInv, Accept, Goto
<1>1. /\ \A q \in Requests \ {r} : SameTurn(q)
      /\ pc[r] = "idle" /\ pc'[r] = "accepted" /\ post'[r].at = now' /\ now' = now + 1
      /\ messages' = messages /\ remembered' = remembered /\ apc' = apc /\ traitRow' = traitRow
      /\ answered'[r] = {q \in Requests : pc[q] = "created"}
  BY DEF TypeOK, SameTurn, analysisVars
<1>2. PostIsStored'
  <2>1. \A q \in Requests \ {r} : PostRow(q)' = PostRow(q) /\ post[q].at \in Nat
    BY <1>1, SameTurnSameRows DEF TypeOK, Posts
  <2>2. now \in Nat /\ now' \in Nat /\ now <= now' /\ post'[r].at <= now'
    BY <1>1 DEF TypeOK, TraitTypeOK
  <2> QED BY ONLY <1>1, <2>1, <2>2, TurnInv DEF TurnInv, PostIsStored, SameTurn, ChatSteps
<1>3. ResponseMatchesStore'
  BY <1>1 DEF ResponseMatchesStore, StoredParts, SameTurn
<1>4. NothingBeforePost'
  BY <1>1 DEF NothingBeforePost, StoredParts, SameTurn
<1>5. AnsweredStay'
  BY <1>1 DEF AnsweredStay, SameTurn, TypeOK
<1>6. ContextIsRecent'
  BY <1>1 DEF ContextIsRecent, InSession, SameTurn
<1> QED BY <1>1, <1>2, <1>3, <1>4, <1>5, <1>6

LEMMA CrashKeepsTurns ==
    ASSUME TurnInv, TypeOK', Crash
    PROVE  TurnInv'
<1> USE DEF TurnInv, Crash
<1>1. /\ \A q \in Requests : /\ pc'[q] \notin ChatSteps /\ answered'[q] = {}
                             /\ pc'[q] \in {"lost", pc[q]}
                             /\ pc[q] = "idle" \/ pc[q] \in Closed => pc'[q] = pc[q]
      /\ messages' = messages /\ remembered' = remembered
      /\ \A q \in Requests : apc[q] = "none" => apc'[q] = "none"
      /\ traitRow' = traitRow
  BY DEF TypeOK, TraitTypeOK, ChatSteps, Closed, CrashAnalyses, AnalysisSteps
<1>2. PostIsStored'
  BY <1>1 DEF PostIsStored, ChatSteps
<1>3. ResponseMatchesStore'
  BY <1>1 DEF ResponseMatchesStore, StoredParts
<1>4. NothingBeforePost'
  BY <1>1 DEF NothingBeforePost, StoredParts, ChatSteps
<1>5. AnsweredStay'
  BY <1>1 DEF AnsweredStay
<1>6. ContextIsRecent'
  BY <1>1 DEF ContextIsRecent, ChatSteps
<1> QED BY <1>1, <1>2, <1>3, <1>4, <1>5, <1>6

LEMMA TurnInvInit == Init => TurnInv
<1> SUFFICES ASSUME Init PROVE TurnInv
  OBVIOUS
<1>1. TraitTypeOK
  BY InitHolds DEF IInv, Init
<1>2. TypeOK
  BY <1>1, Defaults DEF Init, TypeOK
<1>3. PostIsStored /\ ResponseMatchesStore /\ AnsweredStay /\ ContextIsRecent
  BY DEF Init, PostIsStored, ResponseMatchesStore, AnsweredStay, ContextIsRecent, ChatSteps
<1>4. NothingBeforePost
  BY NoWriterAssumption DEF Init, TraitInit, NothingBeforePost, StoredParts, NoTraitRow
<1>5. IsFiniteSet(messages)
  BY FS_EmptySet DEF Init
<1> QED BY <1>2, <1>3, <1>4, <1>5 DEF TurnInv

LEMMA TurnInvStep == TurnInv /\ [Next]_vars => TurnInv'
<1> SUFFICES ASSUME TurnInv, [Next]_vars PROVE TurnInv'
  OBVIOUS
<1>1. TypeOK'
  BY TurnTypeCorrect DEF TurnInv
<1> USE DEF TurnInv
<1>2. ASSUME QuietTurn, NothingBeforePost' PROVE TurnInv'
  BY <1>1, <1>2, QuietKeepsTurns
<1>3. CASE CloneCreated
  <2>1. QuietTurn /\ apc' = apc /\ traitRow' = traitRow /\ pc' = pc
    BY <1>3 DEF CloneCreated, InitClone, QuietTurn, SameTurn, chatVars, analysisVars, TypeOK, TraitTypeOK
  <2> QED BY <1>2, <2>1 DEF NothingBeforePost, StoredParts, QuietTurn
<1>4. CASE CreateSession
  <2>1. QuietTurn /\ apc' = apc /\ traitRow' = traitRow /\ pc' = pc
    BY <1>4 DEF CreateSession, QuietTurn, SameTurn, chatVars, traitVars, analysisVars, TypeOK, TraitTypeOK
  <2> QED BY <1>2, <2>1 DEF NothingBeforePost, StoredParts, QuietTurn
<1>5. CASE Crash
  BY <1>1, <1>5, CrashKeepsTurns
<1>6. ASSUME NEW r \in Requests, Accept(r) PROVE TurnInv'
  BY <1>1, <1>6, AcceptKeepsTurns
<1>7. ASSUME NEW r \in Requests, ChatStep(r) PROVE TurnInv'
  BY <1>1, <1>7, ChatKeepsPostIsStored, ChatKeepsResponse, ChatKeepsNothingBefore,
     ChatKeepsFinite, ChatKeepsAnswered, ChatKeepsContext
<1>8. ASSUME NEW r \in Requests, BackgroundStep(r) PROVE TurnInv'
  <2>1. NothingBeforePost'
    BY <1>8, BackgroundKeepsNothingBefore
  <2>2. now \in Nat /\ now' \in Nat /\ now <= now'
    BY <1>1, <1>8 DEF BackgroundStep, AnalysisStep, AnalysisProfile, RunAnalysis, UpsertTrait,
       SkipItem, UpsertFails, FinishAnalysis, AnalysisFails, TypeOK, TraitTypeOK
  <2>3. QuietTurn
    BY <1>8, <2>2 DEF BackgroundStep, QuietTurn, SameTurn, chatVars
  <2> QED BY <1>2, <2>1, <2>3
<1>9. CASE UNCHANGED vars
  <2>1. QuietTurn /\ apc' = apc /\ traitRow' = traitRow /\ pc' = pc
    BY <1>9 DEF vars, QuietTurn, SameTurn, chatVars, traitVars, analysisVars, TypeOK, TraitTypeOK
  <2> QED BY <1>2, <2>1 DEF NothingBeforePost, StoredParts, QuietTurn
<1> QED BY <1>3, <1>4, <1>5, <1>6, <1>7, <1>8, <1>9 DEF Next

(* The inductive invariant of the requests and their messages.             *)
THEOREM TurnInvHolds == Spec => []TurnInv
BY TurnInvInit, TurnInvStep, PTL DEF Spec

(* Every row of the conversation, and all a handler keeps, is well formed. *)
THEOREM TurnTypesHold == Spec => []TypeOK
<1>1. TurnInv => TypeOK
  BY DEF TurnInv
<1> QED BY <1>1, TurnInvHolds, PTL

(* A 201 finds both of its messages in the database, in order; a 500 that  *)
(* echoes the client's message finds that one.                             *)
THEOREM ResponsesMatch == Spec => []ResponseMatchesStore
<1>1. TurnInv => ResponseMatchesStore
  BY DEF TurnInv
<1> QED BY <1>1, TurnInvHolds, PTL

(* A request whose message was not stored sets nothing off, however the    *)
(* other requests and their analyses interleave with it.                   *)
THEOREM RejectedLeavesNothing == Spec => []RejectedPostLeavesNothing
<1>1. TurnInv => RejectedPostLeavesNothing
  BY DEF TurnInv, NothingBeforePost, RejectedPostLeavesNothing
<1> QED BY <1>1, TurnInvHolds, PTL

(* For any number of sessions, requests and rows, and any window, Chat's   *)
(* context is the recent past of the session.                              *)
THEOREM ContextStaysRecent == Spec => []ContextIsRecent
<1>1. TurnInv => ContextIsRecent
  BY DEF TurnInv
<1> QED BY <1>1, TurnInvHolds, PTL
=============================================================================
