-------------------------- MODULE ConversationTurn --------------------------
(***************************************************************************)
(* POST /message of the conversation API and all that it sets off: the     *)
(* handler stores the client's message, starts an analysis of it in a      *)
(* goroutine of its own (TraitAnalysis) and runs CloneService.Chat, whose  *)
(* steps read the profile, the traits and the session's messages, weigh    *)
(* the message (EmotionReaction), may store a memory, ask the LLM and      *)
(* store the reply.  Requests run concurrently over one database; every    *)
(* call to the database or to the LLM may fail; the process may die        *)
(* between any two steps.                                                  *)
(*                                                                         *)
(* One action per call that reads or changes shared state.  A write that   *)
(* fails may have taken effect (its answer was lost).  A client that goes  *)
(* away cancels the request's context, which makes the later calls fail:   *)
(* an outcome every one of them has anyway.  The role a client gives its   *)
(* message only labels a line of the prompt; one the database refuses is a *)
(* failed insert, and so is a session there is no row of.  One user, with  *)
(* at most one clone.  Every reading of the server's clock is later than   *)
(* the one before.                                                         *)
(***************************************************************************)
EXTENDS TraitAnalysis, EmotionReaction, FiniteSets

CONSTANTS
    Sessions,        \* the session ids clients send
    NoSession,       \* the empty session id, if they send it
    Blanks,          \* subset of BOOLEAN: may a message consist of blanks
    ContextWindow,   \* how many messages of the session Chat looks at (10)
    Emotions         \* the [raw, category] pairs the LLM reports of a message

ASSUME SessionsAssumption      == Sessions # {}
ASSUME BlanksAssumption        == Blanks \subseteq BOOLEAN
ASSUME ContextWindowAssumption == ContextWindow \in Nat \ {0}
ASSUME EmotionsAssumption      == Emotions \subseteq [raw : Int, category : Categories]

VARIABLES
    opened,     \* the rows of sessions
    messages,   \* the rows of messages
    remembered, \* the requests whose message has a row in narrative_memories
    pc,         \* where the handler of each request stands
    post,       \* the request: session, content and created_at of its message
    context,    \* the messages in contextText
    traits,     \* the trait rows Chat has read
    replyAt,    \* the created_at of the reply
    answered    \* history: the turns answered when the request came in

chatVars == <<pc, post, context, traits, replyAt, answered>>
vars == <<traitVars, opened, messages, remembered, chatVars>>

ChatSteps == {"accepted", "stored", "profiled", "traitsRead", "contextRead",
              "weighed", "ready", "generated"}

(* The request is over: 201 with both messages; 500 after a stored message *)
(* (echoed in the response); 500 before; or cut off by a crash.            *)
Closed == {"created", "failed", "rejected", "lost"}

Rows == [req : Requests, part : {"post", "reply"}, session : Sessions,
         blank : BOOLEAN, at : Nat]

Posts  == [session : Sessions, blank : BOOLEAN, at : Nat]
NoPost == [session |-> CHOOSE s \in Sessions : TRUE, blank |-> FALSE, at |-> 0]

NoTraits == [t \in Traits |-> NoTraitRow]

TypeOK ==
    /\ TraitTypeOK
    /\ opened \subseteq Sessions \ {NoSession}
    /\ messages \subseteq Rows
    /\ remembered \subseteq Requests
    /\ pc \in [Requests -> {"idle"} \cup ChatSteps \cup Closed]
    /\ post \in [Requests -> Posts]
    /\ context \in [Requests -> SUBSET Rows]
    /\ traits \in [Requests -> [Traits -> TraitRows]]
    /\ replyAt \in [Requests -> Nat]
    /\ answered \in [Requests -> SUBSET Requests]

Init ==
    /\ TraitInit
    /\ opened = {}
    /\ messages = {}
    /\ remembered = {}
    /\ pc = [r \in Requests |-> "idle"]
    /\ post = [r \in Requests |-> NoPost]
    /\ context = [r \in Requests |-> {}]
    /\ traits = [r \in Requests |-> NoTraits]
    /\ replyAt = [r \in Requests |-> 0]
    /\ answered = [r \in Requests |-> {}]

-----------------------------------------------------------------------------

Goto(r, step) == pc' = [pc EXCEPT ![r] = step]

(* What a call has read, and where it stands, goes with the call.          *)
Close(r, result) ==
    /\ Goto(r, result)
    /\ post' = [post EXCEPT ![r] = NoPost]
    /\ context' = [context EXCEPT ![r] = {}]
    /\ traits' = [traits EXCEPT ![r] = NoTraits]
    /\ replyAt' = [replyAt EXCEPT ![r] = 0]
    /\ answered' = [answered EXCEPT ![r] = {}]

PostRow(r) == [req |-> r, part |-> "post", session |-> post[r].session,
               blank |-> post[r].blank, at |-> post[r].at]

ReplyRow(r) == [req |-> r, part |-> "reply", session |-> post[r].session,
                blank |-> FALSE, at |-> replyAt[r]]

(* POST /session.  The id is new; that it expires is checked nowhere.       *)
CreateSession ==
    /\ \E session \in Sessions \ {NoSession} :
         /\ session \notin opened
         /\ opened' = opened \cup {session}
    /\ UNCHANGED <<traitVars, messages, remembered, chatVars>>

(* A request comes in and its message gets its created_at.                 *)
Accept(r) ==
    /\ pc[r] = "idle"
    /\ apc[r] = "none"
    /\ now' = now + 1
    /\ \E session \in Sessions, blank \in Blanks :
         post' = [post EXCEPT ![r] = [session |-> session, blank |-> blank, at |-> now + 1]]
    /\ answered' = [answered EXCEPT ![r] = {q \in Requests : pc[q] = "created"}]
    /\ Goto(r, "accepted")
    /\ UNCHANGED <<crashes, profile, traitRow, analysisVars, opened, messages, remembered,
                   context, traits, replyAt>>

(* session_id is NULL or refers to a row of sessions.                      *)
SessionExists(r) == post[r].session \in opened \cup {NoSession}

(* The message is stored, in a session there is or in none; then, and only *)
(* then, its analysis is started.                                          *)
StorePost(r) ==
    /\ pc[r] = "accepted"
    /\ SessionExists(r)
    /\ messages' = messages \cup {PostRow(r)}
    /\ StartAnalysis(r)
    /\ Goto(r, "stored")
    /\ UNCHANGED <<opened, remembered, post, context, traits, replyAt, answered>>

(* Mutant of StorePostFails: the analysis is started all the same. *)
StorePostFailsAnalysing(r) ==
    /\ pc[r] = "accepted"
    /\ \/ UNCHANGED messages
       \/ SessionExists(r) /\ messages' = messages \cup {PostRow(r)}
    /\ StartAnalysis(r)
    /\ Close(r, "rejected")
    /\ UNCHANGED <<opened, remembered>>

StorePostFails(r) ==
    /\ pc[r] = "accepted"
    /\ \/ UNCHANGED messages
       \/ SessionExists(r) /\ messages' = messages \cup {PostRow(r)}
    /\ Close(r, "rejected")
    /\ UNCHANGED <<traitVars, opened, remembered>>

(* Chat turns down a message of blanks, which the handler has let through. *)
RefuseBlank(r) ==
    /\ pc[r] = "stored"
    /\ post[r].blank
    /\ Close(r, "failed")
    /\ UNCHANGED <<traitVars, opened, messages, remembered>>

GetProfile(r) ==
    /\ pc[r] = "stored"
    /\ ~post[r].blank
    /\ profile
    /\ Goto(r, "profiled")
    /\ UNCHANGED <<traitVars, opened, messages, remembered, post, context, traits, replyAt, answered>>

(* Mutant of FindTraits: reading the rows touches their updated_at. *)
FindTraitsTouching(r) ==
    /\ pc[r] = "profiled"
    /\ traits' = [traits EXCEPT ![r] = traitRow]
    /\ traitRow' = [t \in Traits |->
         IF traitRow[t] = NoTraitRow THEN NoTraitRow ELSE [traitRow[t] EXCEPT !.at = now]]
    /\ Goto(r, "traitsRead")
    /\ UNCHANGED <<now, crashes, profile, analysisVars, opened, messages, remembered,
                   post, context, replyAt, answered>>

FindTraits(r) ==
    /\ pc[r] = "profiled"
    /\ traits' = [traits EXCEPT ![r] = traitRow]
    /\ Goto(r, "traitsRead")
    /\ UNCHANGED <<traitVars, opened, messages, remembered, post, context, replyAt, answered>>

(* The newest messages of a session, the blank ones dropped only after the *)
(* cut; no session, no context.                                            *)
InSession(session) == {m \in messages : m.session = session}

(* Mutant of Newest: ORDER BY created_at ASC before the cut. *)
Oldest(rows) ==
    {m \in rows : Cardinality({n \in rows : n.at < m.at}) < ContextWindow}

Newest(rows) ==
    {m \in rows : Cardinality({n \in rows : n.at > m.at}) < ContextWindow}

GetContext(r) ==
    /\ pc[r] = "traitsRead"
    /\ context' = [context EXCEPT ![r] =
         IF post[r].session = NoSession THEN {}
         ELSE {m \in Newest(InSession(post[r].session)) : ~m.blank}]
    /\ Goto(r, "contextRead")
    /\ UNCHANGED <<traitVars, opened, messages, remembered, post, traits, replyAt, answered>>

(* The narrative context and the analysis of the emotion; their failures   *)
(* are swallowed.  The narrative may or may not read as tense.             *)
Weigh(r) ==
    /\ pc[r] = "contextRead"
    /\ \E tense \in BOOLEAN, m \in Emotions :
         \E e \in AnalyzeEmotion(LoadedBig5, m.raw, m.category) \cup {DefaultEmotion} :
            Goto(r, IF IsRemembered(e, tense, LoadedBig5) THEN "weighed" ELSE "ready")
    /\ UNCHANGED <<traitVars, opened, messages, remembered, post, context, traits, replyAt, answered>>

(* The embedding and the insert of the memory; a failure is only logged.   *)
InjectMemory(r) ==
    /\ pc[r] = "weighed"
    /\ remembered' \in {remembered, remembered \cup {r}}
    /\ Goto(r, "ready")
    /\ UNCHANGED <<traitVars, opened, messages, post, context, traits, replyAt, answered>>

(* The LLM answers; whatever the parser makes of it, there is a reply text.*)
Generate(r) ==
    /\ pc[r] = "ready"
    /\ now' = now + 1
    /\ replyAt' = [replyAt EXCEPT ![r] = now + 1]
    /\ Goto(r, "generated")
    /\ UNCHANGED <<crashes, profile, traitRow, analysisVars, opened, messages, remembered,
                   post, context, traits, answered>>

StoreReply(r) ==
    /\ pc[r] = "generated"
    /\ messages' = messages \cup {ReplyRow(r)}
    /\ Close(r, "created")
    /\ UNCHANGED <<traitVars, opened, remembered>>

(* Mutant of StoreReplyFails: the error is swallowed. *)
StoreReplyFailsSilently(r) ==
    /\ pc[r] = "generated"
    /\ messages' \in {messages, messages \cup {ReplyRow(r)}}
    /\ Close(r, "created")
    /\ UNCHANGED <<traitVars, opened, remembered>>

StoreReplyFails(r) ==
    /\ pc[r] = "generated"
    /\ messages' \in {messages, messages \cup {ReplyRow(r)}}
    /\ Close(r, "failed")
    /\ UNCHANGED <<traitVars, opened, remembered>>

(* Mutant of ChatFails: a missing profile does not end the call. *)
ChatFailsLate(r) ==
    /\ pc[r] \in {"profiled", "traitsRead", "ready"}
    /\ Close(r, "failed")
    /\ UNCHANGED <<traitVars, opened, messages, remembered>>

(* A read or the LLM fails, or there is no profile: Chat returns at once.  *)
ChatFails(r) ==
    /\ pc[r] \in {"stored", "profiled", "traitsRead", "ready"}
    /\ Close(r, "failed")
    /\ UNCHANGED <<traitVars, opened, messages, remembered>>

ChatStep(r) ==
    \/ StorePost(r)
    \/ StorePostFails(r)
    \/ RefuseBlank(r)
    \/ GetProfile(r)
    \/ FindTraits(r)
    \/ GetContext(r)
    \/ Weigh(r)
    \/ InjectMemory(r)
    \/ Generate(r)
    \/ StoreReply(r)
    \/ StoreReplyFails(r)
    \/ ChatFails(r)

(* The goroutine has a context of its own: nothing the request goes        *)
(* through after starting it reaches it.                                   *)
BackgroundStep(r) ==
    AnalysisStep(r) /\ UNCHANGED <<opened, messages, remembered, chatVars>>

(* The process dies: the server has no graceful shutdown and nothing of a  *)
(* turn is kept outside the database.                                      *)
Crash ==
    /\ CrashAnalyses
    /\ pc' = [r \in Requests |-> IF pc[r] \in ChatSteps THEN "lost" ELSE pc[r]]
    /\ post' = [r \in Requests |-> NoPost]
    /\ context' = [r \in Requests |-> {}]
    /\ traits' = [r \in Requests |-> NoTraits]
    /\ replyAt' = [r \in Requests |-> 0]
    /\ answered' = [r \in Requests |-> {}]
    /\ UNCHANGED <<opened, messages, remembered>>

CloneCreated == InitClone /\ UNCHANGED <<opened, messages, remembered, chatVars>>

Next ==
    \/ CloneCreated
    \/ CreateSession
    \/ Crash
    \/ \E r \in Requests : Accept(r) \/ ChatStep(r) \/ BackgroundStep(r)

Spec == Init /\ [][Next]_vars

(* The calls of a handler and of a goroutine return, if only with an error *)
(* (the LLM client has a timeout of 60 s): both keep stepping.             *)
Fairness ==
    \A r \in Requests : WF_vars(ChatStep(r)) /\ WF_vars(BackgroundStep(r))

FairSpec == Spec /\ Fairness

-----------------------------------------------------------------------------

StoredParts(r) == {m \in messages : m.req = r}

(* A 201 means what it shows: the client's message and the reply are both  *)
(* in the database, in the same session and in that order.  A 500 that     *)
(* echoes the message means the message at least is there.                 *)
ResponseMatchesStore ==
    \A r \in Requests :
        /\ pc[r] = "created" =>
             \E p, q \in StoredParts(r) :
                /\ p.part = "post" /\ q.part = "reply"
                /\ p.session = q.session /\ p.at < q.at
        /\ pc[r] = "failed" => \E p \in StoredParts(r) : p.part = "post"

(* A request turned down because its message could not be stored sets      *)
(* nothing off: no reply, no memory, no analysis, no trait is due to it.   *)
RejectedPostLeavesNothing ==
    \A r \in Requests : pc[r] = "rejected" =>
        /\ \A m \in StoredParts(r) : m.part = "post"
        /\ r \notin remembered
        /\ apc[r] = "none"
        /\ \A t \in Traits : traitRow[t].by # r

(* What Chat shows the LLM of a session is its recent past: the message    *)
(* being answered, and every message of a turn that was answered before    *)
(* this one came in, are in it unless as many newer messages as the window *)
(* holds have come between.                                                *)
ContextIsRecent ==
    \A r \in Requests :
        pc[r] = "contextRead" /\ post[r].session # NoSession =>
            \A m \in InSession(post[r].session) :
                /\ ~m.blank
                /\ m.req = r \/ m.req \in answered[r]
                => \/ m \in context[r]
                   \/ Cardinality({n \in InSession(post[r].session) : n.at > m.at})
                        >= ContextWindow

(* To the analyses, everything else that happens in the server is time     *)
(* passing: the turns start them and the crash ends them as TraitAnalysis  *)
(* says, and none of the steps of Chat reaches into their rows.            *)
AnalysesRunApart == TraitSpec

(* Every request that came in is answered, unless the process dies.        *)
RequestsAreAnswered ==
    \A r \in Requests : pc[r] = "accepted" ~> pc[r] \in Closed

(* Every message stored with success is analysed, or its analysis fails:   *)
(* the goroutine outlives a request that ends, well or badly.              *)
StoredPostsAreAnalysed ==
    \A r \in Requests : pc[r] = "stored" ~> apc[r] \in AnalysisOver

(* README: the clone dampens mild insults according to its stability,      *)
(* derived from OCEAN.  So when Chat has read a neuroticism, the           *)
(* resilience it reacts with is that of a profile so neurotic.             *)
ResilienceFollowsTraits ==
    \A r \in Requests :
        pc[r] = "contextRead" /\ traits[r]["neuroticism"].by # NoWriter =>
            GetResilience(LoadedBig5) =
              GetResilience([LoadedBig5 EXCEPT !.neuroticism = traits[r]["neuroticism"].value])
=============================================================================
