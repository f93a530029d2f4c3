# LLM-Psy: specification and proofs

TLA+ models of the Go server and console of this repository, the TLC
configurations that check them, and TLAPS proofs of the results that hold for
every instance. Each definition is translated from the code; `PROJECT.json`
(`map`) gives the lines it stands for, the runs, the mutated definitions each
property is known to catch, the hazards, the findings and the theorems.

To reproduce: `tlc -config X.cfg M.tla` for a run (the module of each is in
the table below), `tlapm M.tla` for a module of proofs.

## 1. The system

LLM-Psy is one process (`cmd/api`) over PostgreSQL, an LLM reached by HTTP, an
SMTP server and, if configured and reachable at start-up, Redis. A console
(`cmd/cli_chat`) works on the same database. Requests run concurrently, each
statement goes to a pool on its own, there are **no transactions**, no
graceful shutdown, and the only locks are the mutexes of the two in-memory
stores. So the state that matters is in the tables, the two stores, and the
local variables of the requests in progress.

| component | state | operations | talks to |
|---|---|---|---|
| OTP limiter, in memory (`user_service.go`) | per address, the dates of the requests let through | `Allow` | asked by `RequestOTP`, under a mutex |
| OTP limiter over Redis (`otp_rate_limiter_redis.go`) | a counter with an expiry per address | `Allow` (a script, 500 ms) | Redis |
| User accounts (`user_service.go`, `user_repo.go`, `user_handler.go`) | table `users` | create, log in, request and verify a code, OAuth | limiter, mail, tokens |
| Refresh tokens (`jwt_service.go`, `refresh_token_store.go`) | a map or Redis keys by jti | issue, refresh, revoke | end of every login |
| Conversation (`chat_handler.go`, `clone_service.go`, `context_service.go`) | tables `sessions`, `messages`, the requests in progress | `POST /session`, `POST /message` | analysis, narrative, LLM |
| Trait analysis (`analysis_service.go`, `trait_repo.go`) | table `traits` | `AnalyzeAndPersist`, `InitClone` | LLM; a goroutine of each posted message |
| Emotion and reaction (`reaction_logic.go`, `clone_profile.go`) | none: arithmetic | analysis, damping, ReLU, resilience | called by `Chat` |
| Narrative memory (`narrative_*.go`, `memory_repo.go`) | tables `narrative_memories`, `characters` | recall, inject, relations | embeddings, LLM as a judge |
| Goals, prompts (`goal_service.go`, `clone_prompt_builder.go`) | none | choice of a goal, directives to the LLM | called by `Chat` |
| LLM parser (`llm_parser.go`) | none | the text for the user in an answer of the LLM | called by `Chat` |
| Director mode (`cmd/cli_chat`) | none of its own | seed memories, characters, test, chat | the same services |
| Router, middleware, configuration, LLM client, mail | none | I/O | |

What is hard about it, and hard to test:

- **Interleaving.** Look-up and change are separate statements everywhere: two
  `RequestOTP`, two `VerifyOTP`, two first OAuth logins, two refreshes of one
  token, two posts of one session, two analyses of one clone.
- **Failure.** A statement or a Redis command may fail with or without having
  taken effect; a Redis command given up after 500 ms may take effect later.
  A failed chat leaves its message, its analysis and perhaps a memory behind.
- **Restart.** The map of tokens and the map of the limiter go with the
  process, and one failed ping at start-up changes which store is used.
- **Feedback.** What a turn stores is recalled by later turns, makes them
  tense, and tense turns store more.
- **Retrieval.** What is before the clone when it answers is the outcome of a
  search, a gap between scores, a judge with a budget and a cache, a working
  memory and a cut, over tables another process writes to meanwhile.
- **Numbers.** Four thresholds in a row decide whether a message becomes a
  memory; the intensity column is read on a scale other than the one written.

What makes each component correct is stated as the properties of section 4.
The hazards, each at its line with the properties that cover it, are in
`PROJECT.json`.

## 2. The modules

| module | models | state and actions |
|---|---|---|
| `SlidingWindow` | what a limiter promises | the requests let through, never forgotten; a request passes iff fewer than `Max` are recent |
| `OTPRateLimiter` | `otpRateLimiter` | `hits` is `l.hits` as sets of numbered, dated requests; `Allow`/`Deny` are the two returns of `Allow`, pruning included; `Restart` |
| `RedisOTPRateLimiter` | `redisOTPRateLimiter` | `counter` is the key and its expiry; `Counted` is the script; `Allow`/`Deny`/`FailOpen` the outcomes of a call, in which the client may have run the script more than once; `LateRun` a script that runs after its caller gave up |
| `RefreshTokens` | `JWTService` with both stores | `store[backend]`; a call steps through parse, `Exists`, `Revoke`, sign, `Store`; the commands fail with, without or after effect; `Restart` chooses the store as `main` does |
| `UserAccounts` | `UserService` and `PgUserRepository` | `users` is the table; a call is one step per statement, with its copy of what it read (`user`, `seen`); inserts meet the unique address |
| `TraitAnalysis` | `AnalyzeAndPersist`, the table `traits`, `InitClone` | a call steps through profile, LLM, one upsert per item; `CrashAnalyses` |
| `EmotionReaction` | the arithmetic from the LLM's intensity to a stored memory and back | operators only, over integers at a named scale |
| `NarrativeRules` | the rows, the bonds, the tension of a text, the score of a search | operators only; scores in units of 1/2000 |
| `EmotionalMemory` | what a turn may do to a clone's memories: the loop over `EmotionReaction`, with free recall, and the console's seeding | recall, weigh, remember; sequential |
| `NarrativeRetrieval` | `BuildNarrativeContext` and the console over both narrative tables | one action per call: characters, search, one per candidate of the loop (`Keep`, `Drop`, `JudgeMemory`, `JudgeFails`), working memory and text; `SeedMemory` and `CreateRelation` at any time, for any clone of the user |
| `TurnDirectives` | `DetermineGoal` and what `BuildClonePrompt` derives | operators only |
| `ResponseParser` | `ParseLLMResponseSafe` and its fallback | operators only; an answer is a sequence of lines of a kind |
| `CloneTurn` | `Chat` from the message to the reply, composed of the three above | snapshot of the bond, analysis, memory, prompt, answer; implements `EmotionalMemory` |
| `ConversationTurn` | `PostMessage` and `Chat`, composed with `TraitAnalysis` and `EmotionReaction` | one action per statement or LLM call; the analysis of a message is started by `StorePost` and runs on its own |

`MC*` modules hold TLC's constants and symmetry sets, `*Proofs` the theorems.
Definitions headed "Mutant of ..." are plausible bugs used to show that a
property can fail; no specification uses them.

How they compose: `ConversationTurn` extends `TraitAnalysis`, so the goroutine
of a message and the handler share clock, profile, trait rows and crashes, and
it uses the operators of `EmotionReaction` to decide whether `Chat` stores a
memory. What it may do to the analyses is what they may do alone
(`AnalysesRunApart`). `CloneTurn` extends `NarrativeRetrieval`, `TurnDirectives`
and `ResponseParser` and takes a message from one to the next.

Two refinements, each by `INSTANCE ... WITH`:

- `OTPRateLimiter` implements `SlidingWindow`, a limiter that forgets nothing:
  the same requests pass.
- `CloneTurn` implements `EmotionalMemory`, in which recall is any choice of
  memories up to the limits (`ImplementsEmotionalLoop`). A state of the turn
  is mapped to the bare rows of the table, to what the narrative recalls while
  the message is weighed, and to "idle" from the moment it has been weighed:
  prompt and answer are outside the loop. The rows of every clone of the user
  are mapped to one set, which is sound because recall is free.

`UserAccounts` takes the limiter's answer as free, and its
logins end where `BeginLogin` of `RefreshTokens` starts.

Abstractions worth knowing:

- *Emotions.* A text either holds a tension word or not; categories are one
  per way the code tells them apart (negative for the reaction, for the
  narrative, for both or neither, and holding a tension word or not). Floats are integers at scale; the one
  place where the last bit decides (`int()` of a product that is a whole
  number) yields both results (`Truncations`). All other decisions agree with
  float64 on every profile in 0..100.
- *Recall.* In `EmotionalMemory` the search may return any memories up to the
  code's limits, and which rows of high impact fill the working memory is left
  open. In `NarrativeRetrieval` only what the program cannot know is free: the
  similarity of a query and a text (one per text, as the embedding is), the
  judge's verdicts, the days since a row was written, the order of ties.
- *Texts.* A message or a memory is a name, with what the rules find in it: a
  tension word, a negation, a wish, a word of `toxicTriggerKeywords`, the
  names of characters. An answer of the LLM is a sequence of lines; escapes
  are left out.
- *The score.* It is what the query computes: similarity less a hundredth a day.
  The factor of the emotional reinforcement reaches the database as an integer,
  0 (`AsInteger`), so that strength does not rank.
- *Accounts.* Names, hashing and the salt are left out; two random codes are
  taken to differ; a wrong guess is represented by a code of another request.
  `otp_expires_at` is written together with the hash and is a function of it.
- *Chat.* `ConversationTurn` interleaves turns and leaves what is recalled and
  said to `CloneTurn`, which takes one turn after another: whatever the parser
  makes of an answer, there is a reply. The expiry of a session is never
  looked at.
- *Tokens.* The claims that identify the user, and access tokens, are left out;
  the middleware that would check those is mounted on no route.

## 3. Assumptions about the environment

- A statement is atomic, and PostgreSQL keeps `UNIQUE`. Its answer may be lost.
- A client that goes away cancels the context of its request, which makes the
  next calls fail: every one of them may fail anyway. The goroutine of an
  analysis has a context of its own.
- Each reading of the clock in `ConversationTurn` is later than the one
  before; in the other modules readings may coincide.
- The server and Redis agree on the time.
- **Fairness** is used by one specification, `FairSpec` of `ConversationTurn`:
  weak fairness of each handler's steps and of each analysis's. The code
  justifies it: a handler or a goroutine is never blocked by another (there is
  no lock or channel between them), the LLM client times out after 60 s, and a
  database call returns, if only with an error. Nothing is assumed of clients,
  of `InitClone`, or of crashes.

## 4. What is checked

All runs are exhaustive over their bounds. States are distinct ones found.

| run (module) | states | question, and answer |
|---|---|---|
| `OTPRateLimiter` (`MCOTPRateLimiter`) | 0.7 M | Does pruning only on demand keep the limit? At most `Max` per window wherever the window starts (`AtMostMaxPerWindow`), and every answer is that of the sliding window (`RefinesSlidingWindow`). |
| `RedisOTPRateLimiter` (`MCRedisOTPRateLimiter`) | 1.4 M | What does the counter guarantee with repeated, lost and late scripts? At most `2 * Max - 1` on an answer per window; a denial has more than `Max` runs in the window before it. |
| `RefreshTokens` (`MCRefreshTokens`) | 1.1 M | Is a revoked token refused, and only a revoked one? Yes, with overlapping calls, failing and late commands and one change of store. |
| `RefreshRevival` (`MCRefreshTokens`) | violation | With two restarts, to the map and back to Redis, no: finding 1. |
| `UserAccounts` (`MCUserAccounts`) | 1.0 M | Which codes, identities and passwords are good? A spent or replaced code never, a current one always; an identity on two accounts, or a right password refused, only in the stated cases. |
| `VerifiedLogin` (`MCUserAccounts`) | violation | Does the right password always log in? Not once the address was verified: finding 2. |
| `ConversationTurn` (`MCConversationTurn`) | 1.3 M | Does an answer match the database, does a rejected post leave anything, is the context shown to the LLM the recent past, and do analyses prevail in their order and run as they would alone, with two posts, their analyses, failures with or without effect, and a crash? |
| `ConversationLiveness` (`MCConversationTurn`) | 4.8 k | Does every post end, and every stored message's analysis, whatever becomes of the other? Does the last item of a report prevail? |
| `ConversationResilience` (`MCConversationTurn`) | violation | Do the traits `Chat` reads decide its resilience? No: finding 3. |
| `CloneTurn` (`MCCloneTurn`) | 2.2 M | Does the better of two memories prevail but for the code's stated reasons (`BetterClaimPrevails`), is a seed recalled (`SeedsAreRecalled`), do the directives of a prompt agree (`DirectivesAgree`), and is every turn one of `EmotionalMemory`? |
| `PrivateMonologue` (`MCCloneTurn`) | violation | Is the monologue never shown, as the parser's rule says (`MonologueIsNeverReturned`)? Further lines of it are: finding 4. |
| `EmotionalMemory` (`MCEmotionalMemory`) | 3.8 M | Do the thresholds ever cancel a tense turn, does tension feed itself, what reaches the working memory, are strength and instability monotone? |

Why the bounds are enough for the cases that matter:

- *Limiters.* Seven requests and seven ticks over a window of three span more
  than two windows with `Max = 2`; two keys show that one does not use up the
  other's budget. Over Redis one key suffices: no step reads another's counter.
- *Tokens.* Four calls hold a login, a refresh or logout that revokes, and two
  refreshes that overlap it; the TTL is one second of two ticks, so a token
  may be signed between two seconds. One change of store cannot bring a
  revoked token back, two can: hence the bound of the two runs.
- *Accounts.* Three calls hold every pair of overlapping operations after or
  around a first one, two addresses an identity that is claimed twice, and the
  clock passes the expiry. A fourth call (a code stored into a row that has
  just been verified) is beyond the run; `AcceptedIsCurrent` covers it, and any
  number of calls, by proof.
- *Turns.* Two requests, a window of two messages (so the cut happens), a
  blank message, one crash. For liveness one request is enough: requests share
  no lock, so no step of one waits for another. It has reports with unsupported
  and repeated traits, requests with and without a session, and a crash.
- *Emotions.* The intensities lie on both sides of every threshold of the chain,
  for the profile the database loads and for a less stable one; three turns are
  a memory, a turn it makes tense, and one that recalls both. Three properties
  say for which clones or messages they hold: `TensionHasRoots` for composed
  clones, the loaded one among them (in a less stable one a turn at the floor
  may tense the next), `OnlySeedsAreHighImpact` for ratings up to 100, which the
  prompt of the analysis asks for and nothing checks,
  `StrongerMessageStrongerMemory` for ratings above 0, as 0 stands for none.
- *A whole turn.* Four messages, seeds or characters are two rows of one text
  and one of another, or a bond, and the message that meets them. Limits of
  3, 1, 1 and 2 (deployed: 5, 3, 2 and 7) keep their order and make the search
  cut, the judge's budget run out, the working memory overflow and the context
  be cut with those few rows; similarities lie below, between and above the
  two thresholds, ages far enough apart to turn a ranking. Every exception
  `BetterClaimPrevails` allows is needed by some behaviour of the run, save the
  judge's refusal, which takes two verdicts in a call: with `MaxJudge = 2`, as
  deployed, it is needed, and the run passes too. The
  answers are the one the prompt asks for, ended anywhere, and those
  that reach each branch of the fallback. Every kind of failure is one of
  `SkipNarrativeContext`, `JudgeFails`, `LetPass` and `Finish`.

Deadlock is not checked: requests, clock and restarts are bounded, so every
behaviour of these models comes to an end. Symmetry is used only in runs of
safety properties, and no definition chooses an element of a symmetric set.

### Findings and observations

1. **A logout can be undone by restarts** (`RefreshRevival`,
   `cmd/api/main.go:79`). A process that cannot ping Redis at its start runs on
   an empty map; a logout there answers 204 and revokes nothing, and the token
   is good again once a later start is back on Redis.
2. **A verified user is locked out** (`VerifiedLogin`, `user_repo.go:184`).
   `VerifyEmail` stores NULL as the hash of the code; the reads scan that column
   into a Go string, which fails, so every later login, code request,
   verification and OAuth login of the user is answered with 500. The tests run
   on a mock that stores the empty string.
3. **Traits do not reach the reaction** (`ConversationResilience`,
   `profile_repo.go:62`). The documentation derives resilience from OCEAN; the
   profile `Chat` reacts with never carries the stored traits.
4. **The monologue can be shown** (`PrivateMonologue`, `llm_parser.go:134`). "Regla:
   nunca devolvemos inner_monologue" (`:27`, `:115`) holds of the line that names
   it. Its further lines are echoed when the answer is no whole object, as when
   the LLM's limit of tokens ends it; `OnlyBrokenAnswersTell` proves that this is
   the only case.

Observed while modelling, without a run of their own:

- *Two scales in one column* (`narrative_rules.go:197`). A stored intensity of 10
  or less is read as one of a scale of ten, though `src/README.md:20` has
  intensities of 1 to 100: a message rated 55 is stored as 8, which reads as 80
  and dominates a stored 11.
- *The emotional reinforcement is lost* (`memory_repo.go:96`). `$4` multiplies two
  INT columns without a cast, PostgreSQL takes it for an integer, and the driver
  cuts 0.0005 to 0. So the "refuerzo emocional ponderado" of the query adds
  nothing, and "cuanto pesa lo emocional en el ranking" (`narrative_service.go:82`)
  is nothing for any message, benign or not.
- `detectMixedIntent` holds only where `detectBenignIntent` does, and each use
  of it comes after the benign case: the weight of 0.5 (`narrative_service.go:87`)
  and the exception from the gap (`:185`) are never reached.
- The console tells the director that "El clon ahora recordara esto al iniciar
  el chat" (`cli_chat/main.go:176`). `Chat` answers as whichever clone of the
  user the database returns first (`profile_repo.go:62`), and a seed below high
  impact is recalled only if the search finds it; `SeedsAreRecalled` states
  what is kept of the promise.

## 5. What is proved

For every value of the constants, under the named assumptions of each module:
positive windows, budgets and TTLs; the stores named; the placeholders distinct
from the elements they stand beside; inputs of the type the code decodes them
into; at least one session (`SessionsAssumption`); for the narrative, limits up to
the deployed ones (`LimitsAssumption`), which are literals in the code. Calls,
clock, restarts, turns and failures are bounded only by constants that may be
any number. Every safety property of the passing runs has a theorem, that of
revoked tokens under a hypothesis on the deployment, and both refinements are
proved step by step.

The inductive invariants hold on the instances of the runs too: TLC finds no
state that breaks them (with start instants and ratings, which the proofs take
from all integers, restricted to those in question).

**`OTPRateLimiterProofs`.** `LimiterTypesHold`, `LimiterBound`
(`AtMostMaxPerWindow`) and `LimiterRefines` (`RefinesSlidingWindow`). The bound is
not inductive: pruned entries are gone from `hits`. The invariant adds
`HistoryAgrees` (the entries of a key are among the requests let through, and
every recent one of these is among the entries), from which `KeptIsRecent`
follows: the filter keeps exactly the recent history. A window that contains
the new request then holds fewer than `Max` others, by cardinality. The same
lemma maps each step to a step of the sliding window.

**`RedisOTPRateLimiterProofs`.** `CounterTypesHold`, `DenialsHaveReason`
(`DenialHasReason`) and `TwoCountersPerWindow` (`AtMostTwoCountersPerWindow`), with
any number of repeated and late scripts. `CountsRuns` says that the counter
counts no more than the runs since it was born, a window before its expiry, so
a count above `Max` is the reason of a denial. `Fits` is what the bound needs:
within the life of the counter no more requests were let through than it
counts, nor than `Max`; after the first instant of that life, one fewer, because
the run that created the counter is counted and belongs to that instant; and a
window that reaches back from a life's start holds at most `Max - 1` of what
came before. A window meets at most two lives (`TwoLives`), the tail of one and
the whole of the next, hence `2 * Max - 1`.

**`RefreshTokensProofs`.** `TypesHold` (`TypeOK`), `RefusalsHaveReasons`
(`RefusalHasReason`) for any choice of stores, and `RevokedTokenIsRefused` under
either of two hypotheses: `RevocationIsFinal` when the deployment has one kind
of store, for any number of restarts, and `OneRestartRevivesNothing` when it
restarts at most once, for any choice of stores. The counterexample of finding 1
needs two stores and two restarts: neither hypothesis can be weakened. The
invariants are `CallsInOrder` (calls work on delivered tokens),
`EntriesOutliveTokens` (unless asked to go or orphaned by a restart, the entry of
a delivered token in the current store lasts at least to its exp claim: this is
where cutting the claim to the second matters), `RevokedIsGone` (a revoked token
is not in the store, and no later refresh of it gets past `Exists`) and, for the
one restart, `OtherIsEmpty` (until then the store not in use holds nothing).

**`TraitAnalysisProofs`.** `TraitTypesHold` (`TraitTypeOK`), `LaterPrevails`
(`LaterAnalysisPrevails`), `StampsGoBackOnlyByOverlap`
(`UpdatedAtGoesBackOnlyByOverlap`), `LastItemsPrevail` (`LastItemPrevails`). The
invariant says that settled calls write no more, that what a call has still to
write is the tail of its report (`TodoIsRest`), that what it has been through
belongs to no call it found settled (`WrittenPrevails`), and that a row bears its
writer's stamp; for the last theorem, that a row holds the last word its writer
has had on the trait so far (`LastWordStands`).

**`ConversationTurnProofs`.** `ConversationRunsAnalysesApart`
(`AnalysesRunApart`): a conversation implements the analyses it starts. Each
step of a turn starts one, reads the clock or leaves their state alone; the type
invariant of `TraitAnalysisProofs` carries over with the steps. So
`LaterPrevailsInConversation`, `StampsInConversation` and
`LastItemsInConversation` follow from the theorems about the analyses alone, for
any number of posts around them. About the posts themselves: `TurnTypesHold`,
`ResponsesMatch` (`ResponseMatchesStore`), `RejectedLeavesNothing`
(`RejectedPostLeavesNothing`), `ContextStaysRecent` (`ContextIsRecent`). None is
inductive alone; `TurnInv` joins them with `PostIsStored` (a handler past its
insert finds its row in the table, dated before its reply), `NothingBeforePost`
(one that has not inserted has set nothing off) and `AnsweredStay` (what a
request found answered when it came in stays so).

**`UserAccountsProofs`.** `AccountTypesHold` (`TypeOK`), `AddressesAreUnique`
and `AcceptedIsCurrent` (`AcceptedCodeIsCurrent`). That an accepted code is
current follows only because the table never gets back a code it has lost: the
call that generated it is the one that stores it, once, and into the one
account of its address. The invariant says so in parts: what a call was asked
for fits where it stands (`StepsFitRequests`), a call works on the account of
its own address (`AccountsFound`), a code in the table has been neither spent
nor replaced by any call (`HeldCodesAreCurrent`), and one that a verification
has read had been neither when the verification came in (`SeenCodesAreCurrent`).

The converses are `RefusedCodesHaveReason`, `RefusedLoginsHaveReason` and
`SharedOnlyByOverlap`, over `ReasonInv`: a mailed code has been written
(`CodesAreWritten`), is in the row of its address or some call has changed that
row since (`StoredOrChanged`), and the same of what a verification has read
(`ReadOrChanged`); a hash that is NULL was cleared by a verification or an OAuth
login of that address (`ClearedHasReason`); an OAuth login that has found no
account of its identity, while there is one, overlaps the login that made it
(`FoundIsOverlap`).

**`EmotionalMemoryProofs`.** `LoopTypesHold` and, for every rating and every
profile in 0..100, `TenseTurnsAreRemembered`, `TensionIsRooted`,
`HighImpactIsSeeded`, `StrongerIsNoWeaker`, `InstabilityNeverDampens`. The
invariant only says that what is stored or being weighed is what the arithmetic
makes of some message under the profile of the clone (`MemoriesWereWeighed`,
`TurnIsWeighed`), and that a tense turn has recalled what makes it so; the
properties are then facts about the arithmetic: damping leaves at least half, a
truncation keeps the order whichever way the last bit goes, what passes the
noise gate passes the thresholds of a tense turn.

**`CloneTurnProofs`.** `TurnTypesHold`, `OnlyBrokenAnswersTell` (how far the rule
of finding 4 is kept), `PromptsAgree` (`DirectivesAgree`), `SeedsComeBack`
(`SeedsAreRecalled`), `BetterClaimsPrevail` (`BetterClaimPrevails`) and `TurnIsEmotionalLoop`
(`ImplementsEmotionalLoop`). `IInv` has a part for each stage of a turn: the
tables (`RowsOK`, `BondsOK`), the call (`CallOK`), the search with its loop over
candidates (`SearchOK`), the narrative (`NarrativeOK`), prompt and reply (`TurnOK`).

- That a search returns no more than its limit needs counting: rows have
  places 1, 2, ... in their table, one each (`PlacesTell`), so the first of them
  are as many as their places (`FewAreFew`).
- `SeedsStay` and `PromptIsOfTurn` carry what was decided when the narrative was
  built to the steps after it, while the console inserts rows.
- For the better claim, `ScoreIs` says that similarity and age are all a score
  is made of, `RankedByScore` that the ranking respects scores, and `LoopIsReasoned` keeps, for each candidate the loop has gone through, the
  reason it was kept or dropped: the gap, the judge or its spent budget, the
  repeated text. When the text is built, those reasons are the exceptions the
  property allows, the working memory and the cut of the context the others.
- For the refinement, the rules and the weighing of the two modules agree
  (`RulesAgree`, `WeighingAgrees`). Recall, weighing and storing map to the three
  steps of the loop, `SeedMemory` to its seeding, and everything else stutters.

### What is only model-checked

- *Liveness.* `RequestsAreAnswered` and `StoredPostsAreAnalysed` rest on fairness
  and `ENABLED`, which the prover does not handle.
- *The findings.* The runs that end in a counterexample have, of course, no
  theorem. For finding 1 the two theorems on `RevokedTokenIsRefused` show that it
  is as small as it can be.
- *That the constants of the code satisfy the assumptions* TLC evaluates on the
  instances; that the profiles, limits and windows of the deployment do, is
  read off the code.

## 6. What is not modelled

`PROJECT.json` lists every component. Left out because nothing of their state
can go wrong in a way these models could show: the router and the unused
middleware, the configuration, the LLM client, the mailer and the pool (their
calls may fail or answer anything where they are used), and the wording of the
prompts. Without a caller, and so without a model: `MessageService`,
`DetermineNextGoal`, the external cache of `NarrativeService`, `ListByCharacter`,
and `Update` and `FindByName` of the characters. Of the console, the menus, the
creation of a profile and its own chat, which stores a message and runs `Chat`
without an analysis: a turn of `CloneTurn`, but not one of the overlapping turns of
`ConversationTurn`. Overlapping turns of one clone within `NarrativeRetrieval`
are left out for the size of the state: the rows that come in between are those
of `SeedMemory` alone.

## 7. Plan

The safety of what is modelled is proved. What is left, most important first:

1. A module still to write, `Authentication`: `UserAccounts`, a limiter and
   `RefreshTokens` composed, a session from the first code to the logout, with an
   abstract specification of who may hold a live token. Its proofs would carry
   over those of the parts, as `ConversationTurnProofs` does for the analyses.
2. The theorems of `EmotionalMemoryProofs` for `CloneTurn`: they are about any
   behaviour of the loop, and `TurnIsEmotionalLoop` says that every turn is one;
   stating them of `CloneTurn` takes the module of proofs under an instance.
3. Two turns of one clone that overlap inside `NarrativeRetrieval`, if a smaller
   state can be found for it.
