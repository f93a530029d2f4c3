--------------------------- MODULE TraitAnalysis ---------------------------
(***************************************************************************)
(* AnalysisService.AnalyzeAndPersist: one call infers Big Five traits from *)
(* a text with the LLM and upserts them one by one into the clone's rows   *)
(* of traits.  Calls run concurrently (a goroutine per posted message, the *)
(* personality test of the console) and nothing orders their writes: each  *)
(* upsert overwrites the row, and its updated_at, with what the call has.  *)
(*                                                                         *)
(* A call may fail at every call it makes itself, an upsert also after it  *)
(* has taken effect, and the process may die between any two of them.      *)
(***************************************************************************)
EXTENDS Integers, Sequences

CONSTANTS
    Requests,    \* the calls of a behaviour, named for the request that starts them
    Traits,      \* the Big Five names the service keeps
    OtherNames,  \* other names the LLM may report
    Values,      \* the trait values the LLM may give, before the clamp
    Reports,     \* the trait lists it may report, as sequences of items
    NoWriter,    \* the writer of a trait row that does not exist
    MaxCrashes   \* bound on the crashes of a behaviour

Items == [trait : Traits \cup OtherNames, value : Values]

ASSUME ValuesAssumption   == Values \subseteq Int
ASSUME ReportsAssumption  == Reports \subseteq Seq(Items)
ASSUME NamesAssumption    == Traits \cap OtherNames = {}
ASSUME NoWriterAssumption == NoWriter \notin Requests
ASSUME CrashesAssumption  == MaxCrashes \in Nat

VARIABLES
    now,        \* the server's clock
    crashes,    \* how often the process has died
    profile,    \* whether the user's clone_profiles row exists
    traitRow,   \* the rows of traits of the clone, by name
    apc,        \* where each call stands
    todo,       \* the items it has still to upsert
    analyzedAt, \* the time stamp it writes as created_at and updated_at
    report,     \* history: the items it was given
    settled     \* history: the calls that were over when it took its stamp

analysisVars == <<apc, todo, analyzedAt, report, settled>>
traitVars    == <<now, crashes, profile, traitRow, analysisVars>>

AnalysisSteps == {"started", "profiled", "upserting"}
AnalysisOver  == {"done", "failed", "lost"}

TraitRows  == [by : Requests \cup {NoWriter}, value : 0..100, at : Nat]
NoTraitRow == [by |-> NoWriter, value |-> 0, at |-> 0]

TraitTypeOK ==
    /\ now \in Nat
    /\ crashes \in 0..MaxCrashes
    /\ profile \in BOOLEAN
    /\ traitRow \in [Traits -> TraitRows]
    /\ apc \in [Requests -> {"none"} \cup AnalysisSteps \cup AnalysisOver]
    /\ todo \in [Requests -> Seq(Items)]
    /\ analyzedAt \in [Requests -> Nat]
    /\ report \in [Requests -> Seq(Items)]
    /\ settled \in [Requests -> SUBSET Requests]

TraitInit ==
    /\ now = 0
    /\ crashes = 0
    /\ profile \in BOOLEAN
    /\ traitRow = [t \in Traits |-> NoTraitRow]
    /\ apc = [r \in Requests |-> "none"]
    /\ todo = [r \in Requests |-> <<>>]
    /\ analyzedAt = [r \in Requests |-> 0]
    /\ report = [r \in Requests |-> <<>>]
    /\ settled = [r \in Requests |-> {}]

(* POST /clone/init.                                                       *)
InitClone ==
    /\ ~profile
    /\ profile' = TRUE
    /\ UNCHANGED <<now, crashes, traitRow, analysisVars>>

(* AnalyzeTestResponses, or the goroutine of a stored message.             *)
StartAnalysis(r) ==
    /\ apc[r] = "none"
    /\ apc' = [apc EXCEPT ![r] = "started"]
    /\ UNCHANGED <<now, crashes, profile, traitRow, todo, analyzedAt, report, settled>>

AnalysisProfile(r) ==
    /\ apc[r] = "started"
    /\ profile
    /\ apc' = [apc EXCEPT ![r] = "profiled"]
    /\ UNCHANGED <<now, crashes, profile, traitRow, todo, analyzedAt, report, settled>>

(* The LLM reports, and one time stamp is taken for all of its traits.     *)
RunAnalysis(r) ==
    /\ apc[r] = "profiled"
    /\ now' = now + 1
    /\ \E items \in Reports :
         /\ todo' = [todo EXCEPT ![r] = items]
         /\ report' = [report EXCEPT ![r] = items]
    /\ analyzedAt' = [analyzedAt EXCEPT ![r] = now + 1]
    /\ settled' = [settled EXCEPT ![r] = {q \in Requests : apc[q] \in AnalysisOver}]
    /\ apc' = [apc EXCEPT ![r] = "upserting"]
    /\ UNCHANGED <<crashes, profile, traitRow>>

(* Mutant of ClampedValue: no upper clamp. *)
ClampedValueBelow(v) == IF v < 0 THEN 0 ELSE v

ClampedValue(v) == IF v < 0 THEN 0 ELSE IF v > 100 THEN 100 ELSE v

(* Mutant of Upserted: DO NOTHING on a conflict. *)
UpsertedIfNew(r, item) ==
    IF traitRow[item.trait].by # NoWriter THEN traitRow
    ELSE [traitRow EXCEPT ![item.trait] =
            [by |-> r, value |-> ClampedValue(item.value), at |-> analyzedAt[r]]]

(* Mutant of Upserted: the first value of a call is kept. *)
UpsertedOncePerCall(r, item) ==
    IF traitRow[item.trait].by = r THEN traitRow
    ELSE [traitRow EXCEPT ![item.trait] =
            [by |-> r, value |-> ClampedValue(item.value), at |-> analyzedAt[r]]]

(* Mutant of Upserted: no time stamp for the update of a conflict. *)
UpsertedUnstamped(r, item) ==
    [traitRow EXCEPT ![item.trait] =
        [by |-> r, value |-> ClampedValue(item.value),
         at |-> IF traitRow[item.trait].by = NoWriter THEN analyzedAt[r] ELSE 0]]

(* INSERT ... ON CONFLICT DO UPDATE: the row is overwritten whatever it is.*)
Upserted(r, item) ==
    [traitRow EXCEPT ![item.trait] =
        [by |-> r, value |-> ClampedValue(item.value), at |-> analyzedAt[r]]]

UpsertTrait(r) ==
    /\ apc[r] = "upserting"
    /\ todo[r] # <<>>
    /\ Head(todo[r]).trait \in Traits
    /\ traitRow' = Upserted(r, Head(todo[r]))
    /\ todo' = [todo EXCEPT ![r] = Tail(todo[r])]
    /\ UNCHANGED <<now, crashes, profile, apc, analyzedAt, report, settled>>

(* A name that is none of the Big Five is logged and passed over.          *)
SkipItem(r) ==
    /\ apc[r] = "upserting"
    /\ todo[r] # <<>>
    /\ Head(todo[r]).trait \notin Traits
    /\ todo' = [todo EXCEPT ![r] = Tail(todo[r])]
    /\ UNCHANGED <<now, crashes, profile, traitRow, apc, analyzedAt, report, settled>>

(* The first failure ends the call with the rows before it in place, and   *)
(* perhaps this one.                                                       *)
UpsertFails(r) ==
    /\ apc[r] = "upserting"
    /\ todo[r] # <<>>
    /\ Head(todo[r]).trait \in Traits
    /\ traitRow' \in {traitRow, Upserted(r, Head(todo[r]))}
    /\ todo' = [todo EXCEPT ![r] = <<>>]
    /\ apc' = [apc EXCEPT ![r] = "failed"]
    /\ UNCHANGED <<now, crashes, profile, analyzedAt, report, settled>>

FinishAnalysis(r) ==
    /\ apc[r] = "upserting"
    /\ todo[r] = <<>>
    /\ apc' = [apc EXCEPT ![r] = "done"]
    /\ UNCHANGED <<now, crashes, profile, traitRow, todo, analyzedAt, report, settled>>

(* Mutant of AnalysisFails: a missing profile does not end the call. *)
AnalysisFailsLate(r) ==
    /\ apc[r] = "profiled"
    /\ apc' = [apc EXCEPT ![r] = "failed"]
    /\ UNCHANGED <<now, crashes, profile, traitRow, todo, analyzedAt, report, settled>>

(* No profile, no answer from the LLM, or not the JSON it was asked for.   *)
AnalysisFails(r) ==
    /\ apc[r] \in {"started", "profiled"}
    /\ apc' = [apc EXCEPT ![r] = "failed"]
    /\ UNCHANGED <<now, crashes, profile, traitRow, todo, analyzedAt, report, settled>>

AnalysisStep(r) ==
    \/ AnalysisProfile(r)
    \/ RunAnalysis(r)
    \/ UpsertTrait(r)
    \/ SkipItem(r)
    \/ UpsertFails(r)
    \/ FinishAnalysis(r)
    \/ AnalysisFails(r)

(* The process dies: calls are kept nowhere but in it.                     *)
CrashAnalyses ==
    /\ crashes < MaxCrashes
    /\ crashes' = crashes + 1
    /\ apc' = [r \in Requests |-> IF apc[r] \in AnalysisSteps THEN "lost" ELSE apc[r]]
    /\ todo' = [r \in Requests |-> <<>>]
    /\ UNCHANGED <<now, profile, traitRow, analyzedAt, report, settled>>

(* Others read the clock too.                                              *)
TimePasses ==
    /\ now' \in Nat
    /\ now' > now
    /\ UNCHANGED <<crashes, profile, traitRow, analysisVars>>

TraitNext ==
    \/ InitClone
    \/ CrashAnalyses
    \/ TimePasses
    \/ \E r \in Requests : StartAnalysis(r) \/ AnalysisStep(r)

TraitSpec == TraitInit /\ [][TraitNext]_traitVars

-----------------------------------------------------------------------------

(* Analyses that do not overlap never undo one another: once an analysis   *)
(* is done, no trait it reported is left as it was written by an analysis  *)
(* that was over before this one had its result.                           *)
LaterAnalysisPrevails ==
    \A r \in Requests : apc[r] = "done" =>
        \A i \in DOMAIN report[r] :
            report[r][i].trait \in Traits =>
                traitRow[report[r][i].trait].by \notin settled[r]

(* A row's updated_at is the stamp of the analysis whose value it holds,   *)
(* and it only ever goes back when two analyses overlapped: an analysis    *)
(* over before another had its result is never the later of the two.       *)
UpdatedAtGoesBackOnlyByOverlap ==
    [][\A t \in Traits :
         traitRow'[t].at < traitRow[t].at =>
            traitRow[t].by \notin settled[traitRow'[t].by]]_traitVars

(* An analysis that reports a trait twice leaves the last of the values,   *)
(* unless another analysis has written the row since: the rows of a call   *)
(* that is done are the call's own last word or another call's.            *)
LastItemPrevails ==
    \A r \in Requests, t \in Traits :
        apc[r] = "done" /\ traitRow[t].by = r =>
            \E i \in DOMAIN report[r] :
                /\ report[r][i].trait = t
                /\ traitRow[t].value = ClampedValue(report[r][i].value)
                /\ \A j \in DOMAIN report[r] : j > i => report[r][j].trait # t
=============================================================================
