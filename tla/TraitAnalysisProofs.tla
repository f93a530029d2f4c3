------------------------ MODULE TraitAnalysisProofs ------------------------
(***************************************************************************)
(* Theorems about concurrent analyses: of those that do not overlap, the   *)
(* later one prevails, and a row's time stamp goes back only when two of   *)
(* them overlap.  Both rest on two facts: a call that is over writes no    *)
(* more, and what a call has still to write is the rest of its report.     *)
(* Where a report names a trait twice, the last item prevails: what a call *)
(* has written of a trait so far is its last word on it so far.            *)
(***************************************************************************)
EXTENDS TraitAnalysis, TLAPS

(* The items a call has been through by now.                               *)
Written(r) == 1..(Len(report[r]) - Len(todo[r]))

(* A call settles with the calls that are over and stay so.                *)
SettledIsOver ==
    \A r \in Requests : \A q \in settled[r] :
        apc[q] \in AnalysisOver /\ analyzedAt[q] <= analyzedAt[r]

(* What a call has still to write is the rest of its report.               *)
IsRest(rest, items) ==
    /\ Len(rest) <= Len(items)
    /\ \A j \in 1..Len(rest) : rest[j] = items[Len(items) - Len(rest) + j]

TodoIsRest ==
    \A r \in Requests :
        /\ apc[r] = "upserting" => IsRest(todo[r], report[r])
        /\ apc[r] = "done" => todo[r] = <<>>

(* What it has been through is its own or a later writer's.                *)
WrittenPrevails ==
    \A r \in Requests : apc[r] \in {"upserting", "done"} =>
        \A i \in Written(r) :
            report[r][i].trait \in Traits =>
                traitRow[report[r][i].trait].by \notin settled[r]

(* A row bears the stamp of its writer, a call that had its result.        *)
RowBearsStamp ==
    /\ \A t \in Traits : traitRow[t].by # NoWriter =>
         /\ traitRow[t].at = analyzedAt[traitRow[t].by]
         /\ apc[traitRow[t].by] \in {"upserting"} \cup AnalysisOver
    /\ \A r \in Requests : analyzedAt[r] <= now

IInv == TraitTypeOK /\ SettledIsOver /\ TodoIsRest /\ WrittenPrevails /\ RowBearsStamp

-----------------------------------------------------------------------------

LEMMA ClampedRange == \A v \in Int : ClampedValue(v) \in 0..100
BY DEF ClampedValue

(* The row a call upserts, and only that row, becomes the call's.          *)
LEMMA UpsertedRow ==
    ASSUME TraitTypeOK, NEW r \in Requests, NEW item \in Items, item.trait \in Traits
    PROVE  /\ Upserted(r, item) \in [Traits -> TraitRows]
           /\ \A t \in Traits :
                IF t = item.trait
                THEN /\ Upserted(r, item)[t].by = r
                     /\ Upserted(r, item)[t].at = analyzedAt[r]
                ELSE Upserted(r, item)[t] = traitRow[t]
<1>1. ClampedValue(item.value) \in 0..100
  BY ClampedRange, ValuesAssumption DEF Items
<1> QED BY <1>1 DEF TraitTypeOK, Upserted, TraitRows

(* The head of what a call has still to do is an item.                     *)
LEMMA HeadIsItem ==
    ASSUME TraitTypeOK, NEW r \in Requests, todo[r] # <<>>
    PROVE  /\ Head(todo[r]) \in Items /\ Head(todo[r]) = todo[r][1]
           /\ Tail(todo[r]) \in Seq(Items) /\ Len(Tail(todo[r])) = Len(todo[r]) - 1
           /\ \A j \in 1..(Len(todo[r]) - 1) : Tail(todo[r])[j] = todo[r][j + 1]
           /\ Len(todo[r]) \in Nat \ {0}
<1>1. todo[r] \in Seq(Items)
  BY DEF TraitTypeOK
<1> QED BY <1>1

LEMMA TypeCorrect == TraitTypeOK /\ [TraitNext]_traitVars => TraitTypeOK'
<1> SUFFICES ASSUME TraitTypeOK, [TraitNext]_traitVars PROVE TraitTypeOK'
  OBVIOUS
<1> USE CrashesAssumption DEF TraitTypeOK, AnalysisSteps, AnalysisOver, analysisVars
<1>1. CASE InitClone BY <1>1 DEF InitClone
<1>2. CASE CrashAnalyses BY <1>2 DEF CrashAnalyses
<1>3. ASSUME NEW r \in Requests, StartAnalysis(r) PROVE TraitTypeOK'
  BY <1>3 DEF StartAnalysis
<1>4. ASSUME NEW r \in Requests, AnalysisProfile(r) PROVE TraitTypeOK'
  BY <1>4 DEF AnalysisProfile
<1>5. ASSUME NEW r \in Requests, RunAnalysis(r) PROVE TraitTypeOK'
  BY <1>5, ReportsAssumption DEF RunAnalysis
<1>6. ASSUME NEW r \in Requests, UpsertTrait(r) PROVE TraitTypeOK'
  <2>1. traitRow' \in [Traits -> TraitRows] /\ todo' \in [Requests -> Seq(Items)]
    BY <1>6, HeadIsItem, UpsertedRow DEF UpsertTrait
  <2> QED BY <1>6, <2>1 DEF UpsertTrait
<1>7. ASSUME NEW r \in Requests, SkipItem(r) PROVE TraitTypeOK'
  BY <1>7, HeadIsItem DEF SkipItem
<1>8. ASSUME NEW r \in Requests, UpsertFails(r) PROVE TraitTypeOK'
  <2>1. Upserted(r, Head(todo[r])) \in [Traits -> TraitRows]
    BY <1>8, HeadIsItem, UpsertedRow DEF UpsertFails
  <2> QED BY <1>8, <2>1 DEF UpsertFails
<1>9. ASSUME NEW r \in Requests, FinishAnalysis(r) PROVE TraitTypeOK'
  BY <1>9 DEF FinishAnalysis
<1>10. ASSUME NEW r \in Requests, AnalysisFails(r) PROVE TraitTypeOK'
  BY <1>10 DEF AnalysisFails
<1>11. CASE UNCHANGED traitVars BY <1>11 DEF traitVars
<1>12. CASE TimePasses BY <1>12 DEF TimePasses
<1> QED BY <1>1, <1>2, <1>3, <1>4, <1>5, <1>6, <1>7, <1>8, <1>9, <1>10, <1>11, <1>12
        DEF TraitNext, AnalysisStep

(* A step of a call that only moves its own pc, and not to the end of its  *)
(* upserts, keeps everything else.                                         *)
LEMMA QuietStep ==
    ASSUME IInv, NEW r \in Requests,
           NEW step \in {"started", "profiled", "failed"},
           apc[r] \in {"none", "started", "profiled"},
           apc' = [apc EXCEPT ![r] = step],
           UNCHANGED <<now, traitRow, todo, analyzedAt, report, settled>>
    PROVE  SettledIsOver' /\ TodoIsRest' /\ WrittenPrevails' /\ RowBearsStamp'
<1> USE DEF IInv, TraitTypeOK, AnalysisOver
<1>1. SettledIsOver' BY DEF SettledIsOver
<1>2. TodoIsRest' BY DEF TodoIsRest
<1>3. WrittenPrevails' BY DEF WrittenPrevails, Written
<1>4. RowBearsStamp' BY DEF RowBearsStamp
<1> QED BY <1>1, <1>2, <1>3, <1>4

(* The result of the LLM: a fresh report, all of it still to be written.   *)
LEMMA RunKeeps ==
    ASSUME IInv, NEW r \in Requests, RunAnalysis(r)
    PROVE  SettledIsOver' /\ TodoIsRest' /\ WrittenPrevails' /\ RowBearsStamp'
<1> USE DEF IInv, TraitTypeOK
<1>1. SettledIsOver'
  <2>1. \A q \in Requests : apc[q] \in AnalysisOver => q # r
    BY DEF RunAnalysis, AnalysisOver
  <2>2. ASSUME NEW p \in Requests, NEW q \in settled'[p]
        PROVE  apc'[q] \in AnalysisOver /\ analyzedAt'[q] <= analyzedAt'[p]
    <3>1. CASE p = r
      BY <2>1, <2>2, <3>1 DEF RunAnalysis, RowBearsStamp, AnalysisOver
    <3>2. CASE p # r
      BY <2>1, <2>2, <3>2 DEF RunAnalysis, SettledIsOver
    <3> QED BY <3>1, <3>2
  <2> QED BY <2>2 DEF SettledIsOver
<1>2. PICK items \in Reports : /\ todo' = [todo EXCEPT ![r] = items]
                               /\ report' = [report EXCEPT ![r] = items]
  BY DEF RunAnalysis
<1>3. items \in Seq(Items) /\ todo'[r] = items /\ report'[r] = items
  BY <1>2, ReportsAssumption
<1>4. TodoIsRest'
  <2>1. IsRest(items, items)
    BY <1>3 DEF IsRest
  <2>2. \A q \in Requests \ {r} : apc'[q] = apc[q] /\ todo'[q] = todo[q] /\ report'[q] = report[q]
    BY <1>2 DEF RunAnalysis
  <2> QED BY <1>3, <2>1, <2>2 DEF TodoIsRest, RunAnalysis
<1>5. WrittenPrevails'
  <2>1. Written(r)' = {}
    BY <1>3 DEF Written
  <2>2. \A q \in Requests \ {r} : /\ Written(q)' = Written(q)
                                  /\ report'[q] = report[q] /\ settled'[q] = settled[q]
                                  /\ apc'[q] = apc[q] /\ traitRow' = traitRow
    BY <1>2 DEF Written, RunAnalysis
  <2> QED BY <2>1, <2>2 DEF WrittenPrevails
<1>6. RowBearsStamp'
  <2>1. \A t \in Traits : traitRow[t].by # r
    BY NoWriterAssumption DEF RunAnalysis, RowBearsStamp, AnalysisOver
  <2> QED BY <2>1 DEF RowBearsStamp, RunAnalysis
<1> QED BY <1>1, <1>4, <1>5, <1>6

(* The tail of what is left is still what is left.                         *)
LEMMA TailIsRest ==
    ASSUME NEW rest \in Seq(Items), NEW items \in Seq(Items), rest # <<>>, IsRest(rest, items)
    PROVE  IsRest(Tail(rest), items)
<1> DEFINE n == Len(rest) m == Len(items)
<1>1. /\ n \in Nat \ {0} /\ m \in Nat /\ n <= m
      /\ Len(Tail(rest)) = n - 1
      /\ \A j \in 1..(n - 1) : Tail(rest)[j] = rest[j + 1]
  BY DEF IsRest
<1>2. ASSUME NEW j \in 1..(n - 1)
      PROVE  Tail(rest)[j] = items[m - (n - 1) + j]
  <2>1. j + 1 \in 1..n /\ m - n + (j + 1) = m - (n - 1) + j
    <3> HIDE DEF n, m
    <3> QED BY <1>1
  <2>2. rest[j + 1] = items[m - n + (j + 1)]
    BY <2>1 DEF IsRest
  <2> QED BY <1>1, <2>1, <2>2
<1>3. Len(Tail(rest)) <= m
  <2> HIDE DEF n, m
  <2> QED BY <1>1
<1> QED BY <1>1, <1>2, <1>3 DEF IsRest

(* A step of an upserting call that writes the head of its list, or passes *)
(* over it, and goes on.                                                   *)
LEMMA AdvanceKeeps ==
    ASSUME IInv, NEW r \in Requests, UpsertTrait(r) \/ SkipItem(r)
    PROVE  SettledIsOver' /\ TodoIsRest' /\ WrittenPrevails' /\ RowBearsStamp'
<1> USE DEF IInv
<1> DEFINE item == Head(todo[r])
<1>1. /\ apc[r] = "upserting" /\ todo[r] # <<>>
      /\ todo' = [todo EXCEPT ![r] = Tail(todo[r])]
      /\ UNCHANGED <<now, apc, analyzedAt, report, settled>>
  BY DEF UpsertTrait, SkipItem
<1>2. /\ item \in Items /\ item = todo[r][1]
      /\ Len(todo[r]) \in Nat \ {0} /\ Len(Tail(todo[r])) = Len(todo[r]) - 1
      /\ \A j \in 1..(Len(todo[r]) - 1) : Tail(todo[r])[j] = todo[r][j + 1]
  BY <1>1, HeadIsItem
<1>3. todo'[r] = Tail(todo[r]) /\ \A q \in Requests \ {r} : todo'[q] = todo[q]
  BY <1>1 DEF TraitTypeOK
<1>4. Len(report[r]) \in Nat /\ Len(todo[r]) <= Len(report[r])
  BY <1>1 DEF TraitTypeOK, TodoIsRest, IsRest
<1>5. item = report[r][Len(report[r]) - Len(todo[r]) + 1]
  <2>1. 1 \in 1..Len(todo[r])
    BY <1>2
  <2> QED BY <1>1, <1>2, <2>1 DEF TodoIsRest, IsRest
<1>L. /\ Len(todo[r]) \in Nat \ {0} /\ Len(report[r]) \in Nat
      /\ Len(todo'[r]) \in Nat /\ Len(todo'[r]) = Len(todo[r]) - 1
      /\ Len(todo[r]) <= Len(report[r])
  BY <1>2, <1>3, <1>4
<1>6. SettledIsOver'
  BY <1>1 DEF SettledIsOver
<1>7. TodoIsRest'
  <2>1. IsRest(Tail(todo[r]), report[r])
    BY <1>1, TailIsRest DEF TodoIsRest, TraitTypeOK
  <2>2. \A q \in Requests : /\ apc'[q] = apc[q] /\ report'[q] = report[q]
                            /\ q # r => todo'[q] = todo[q]
    BY <1>1, <1>3
  <2> QED BY <1>1, <1>3, <2>1, <2>2 DEF TodoIsRest
<1>8. /\ \A t \in Traits : traitRow'[t] = traitRow[t] \/ (traitRow'[t].by = r /\ traitRow'[t].at = analyzedAt[r])
      /\ item.trait \in Traits => traitRow'[item.trait].by = r
  <2>1. CASE UpsertTrait(r)
    BY <1>2, <2>1, UpsertedRow DEF UpsertTrait
  <2>2. CASE SkipItem(r)
    BY <2>2 DEF SkipItem
  <2> QED BY <2>1, <2>2
<1>9. \A q \in Requests : r \notin settled[q]
  BY <1>1 DEF SettledIsOver, AnalysisOver
<1>10. WrittenPrevails'
  <2> SUFFICES ASSUME NEW q \in Requests, apc[q] \in {"upserting", "done"},
                      NEW i \in Written(q)', report[q][i].trait \in Traits
               PROVE  traitRow'[report[q][i].trait].by \notin settled[q]
    BY <1>1 DEF WrittenPrevails
  <2>1. CASE i \in Written(q)
    BY <1>8, <1>9, <2>1 DEF WrittenPrevails
  <2>2. CASE i \notin Written(q)
    <3>1. q = r
      BY <1>1, <1>3, <2>2 DEF Written
    <3>2. i = Len(report[r]) - Len(todo[r]) + 1
      BY <1>1, <1>L, <2>2, <3>1 DEF Written
    <3> QED BY <1>5, <1>8, <1>9, <3>1, <3>2
  <2> QED BY <2>1, <2>2
<1>11. RowBearsStamp'
  BY <1>1, <1>8 DEF RowBearsStamp
<1> QED BY <1>6, <1>7, <1>10, <1>11

(* A failed upsert ends the call, with or without its last row.            *)
LEMMA FailureKeeps ==
    ASSUME IInv, NEW r \in Requests, UpsertFails(r)
    PROVE  SettledIsOver' /\ TodoIsRest' /\ WrittenPrevails' /\ RowBearsStamp'
<1> USE DEF IInv
<1>1. /\ apc[r] = "upserting"
      /\ todo' = [todo EXCEPT ![r] = <<>>] /\ apc' = [apc EXCEPT ![r] = "failed"]
      /\ UNCHANGED <<now, analyzedAt, report, settled>>
  BY DEF UpsertFails
<1>2. \A t \in Traits : traitRow'[t] = traitRow[t] \/ (traitRow'[t].by = r /\ traitRow'[t].at = analyzedAt[r])
  BY HeadIsItem, UpsertedRow DEF UpsertFails
<1>3. \A q \in Requests : r \notin settled[q]
  BY <1>1 DEF SettledIsOver, AnalysisOver
<1>4. /\ apc'[r] = "failed"
      /\ \A q \in Requests \ {r} : apc'[q] = apc[q] /\ todo'[q] = todo[q]
  BY <1>1 DEF TraitTypeOK
<1>5. SettledIsOver'
  BY <1>1, <1>3, <1>4 DEF SettledIsOver, AnalysisOver
<1>6. TodoIsRest'
  <2>1. \A q \in Requests : /\ report'[q] = report[q]
                            /\ q # r => apc'[q] = apc[q] /\ todo'[q] = todo[q]
    BY <1>1, <1>4
  <2>2. apc'[r] # "upserting" /\ apc'[r] # "done"
    BY <1>4
  <2>3. ASSUME NEW q \in Requests
        PROVE  /\ apc'[q] = "upserting" => IsRest(todo'[q], report'[q])
               /\ apc'[q] = "done" => todo'[q] = <<>>
    <3>1. CASE q = r BY <2>2, <3>1
    <3>2. CASE q # r BY <2>1, <3>2 DEF TodoIsRest
    <3> QED BY <3>1, <3>2
  <2> QED BY <2>3 DEF TodoIsRest
<1>7. WrittenPrevails'
  BY <1>1, <1>2, <1>3, <1>4 DEF WrittenPrevails, Written
<1>8. RowBearsStamp'
  BY <1>1, <1>2, <1>4 DEF RowBearsStamp, AnalysisOver
<1> QED BY <1>5, <1>6, <1>7, <1>8

LEMMA FinishKeeps ==
    ASSUME IInv, NEW r \in Requests, FinishAnalysis(r)
    PROVE  SettledIsOver' /\ TodoIsRest' /\ WrittenPrevails' /\ RowBearsStamp'
<1> USE DEF IInv
<1>1. /\ apc[r] = "upserting" /\ todo[r] = <<>> /\ apc' = [apc EXCEPT ![r] = "done"]
      /\ UNCHANGED <<now, traitRow, todo, analyzedAt, report, settled>>
  BY DEF FinishAnalysis
<1>2. apc'[r] = "done" /\ \A q \in Requests \ {r} : apc'[q] = apc[q]
  BY <1>1 DEF TraitTypeOK
<1>3. SettledIsOver'
  BY <1>1, <1>2 DEF SettledIsOver, AnalysisOver
<1>4. TodoIsRest'
  BY <1>1, <1>2 DEF TodoIsRest
<1>5. WrittenPrevails'
  BY <1>1, <1>2 DEF WrittenPrevails, Written
<1>6. RowBearsStamp'
  BY <1>1, <1>2 DEF RowBearsStamp, AnalysisOver
<1> QED BY <1>3, <1>4, <1>5, <1>6

(* A crash ends every call that is under way; what it wrote stays.         *)
LEMMA CrashKeeps ==
    ASSUME IInv, CrashAnalyses
    PROVE  SettledIsOver' /\ TodoIsRest' /\ WrittenPrevails' /\ RowBearsStamp'
<1> USE DEF IInv, CrashAnalyses
<1>1. \A r \in Requests :
        /\ todo'[r] = <<>>
        /\ apc'[r] # "upserting"
        /\ apc'[r] = "done" => apc[r] = "done"
        /\ apc[r] \in {"upserting"} \cup AnalysisOver => apc'[r] \in AnalysisOver
        /\ apc[r] \in AnalysisOver => apc'[r] = apc[r]
  BY DEF AnalysisSteps, AnalysisOver
<1>2. SettledIsOver' BY <1>1 DEF SettledIsOver, TraitTypeOK
<1>3. TodoIsRest' BY <1>1 DEF TodoIsRest
<1>4. WrittenPrevails' BY <1>1 DEF WrittenPrevails, Written, TodoIsRest
<1>5. RowBearsStamp' BY <1>1 DEF RowBearsStamp, TraitTypeOK, TraitRows
<1> QED BY <1>2, <1>3, <1>4, <1>5

LEMMA InitHolds == TraitInit => IInv
BY CrashesAssumption
DEF TraitInit, IInv, TraitTypeOK, TraitRows, NoTraitRow, AnalysisOver, AnalysisSteps,
    SettledIsOver, TodoIsRest, WrittenPrevails, Written, RowBearsStamp

LEMMA StepKeepsInvariant == IInv /\ [TraitNext]_traitVars => IInv'
<1> SUFFICES ASSUME IInv, [TraitNext]_traitVars
             PROVE  SettledIsOver' /\ TodoIsRest' /\ WrittenPrevails' /\ RowBearsStamp'
  BY TypeCorrect DEF IInv
<1>1. CASE InitClone
  BY <1>1 DEF InitClone, IInv, SettledIsOver, TodoIsRest, WrittenPrevails, Written,
     RowBearsStamp, analysisVars
<1>2. CASE CrashAnalyses
  BY <1>2, CrashKeeps
<1>3. ASSUME NEW r \in Requests, StartAnalysis(r) \/ AnalysisProfile(r) \/ AnalysisFails(r)
      PROVE  SettledIsOver' /\ TodoIsRest' /\ WrittenPrevails' /\ RowBearsStamp'
  BY <1>3, QuietStep DEF StartAnalysis, AnalysisProfile, AnalysisFails
<1>4. ASSUME NEW r \in Requests, RunAnalysis(r)
      PROVE  SettledIsOver' /\ TodoIsRest' /\ WrittenPrevails' /\ RowBearsStamp'
  BY <1>4, RunKeeps
<1>5. ASSUME NEW r \in Requests, UpsertTrait(r) \/ SkipItem(r)
      PROVE  SettledIsOver' /\ TodoIsRest' /\ WrittenPrevails' /\ RowBearsStamp'
  BY <1>5, AdvanceKeeps
<1>6. ASSUME NEW r \in Requests, UpsertFails(r)
      PROVE  SettledIsOver' /\ TodoIsRest' /\ WrittenPrevails' /\ RowBearsStamp'
  BY <1>6, FailureKeeps
<1>7. ASSUME NEW r \in Requests, FinishAnalysis(r)
      PROVE  SettledIsOver' /\ TodoIsRest' /\ WrittenPrevails' /\ RowBearsStamp'
  BY <1>7, FinishKeeps
<1>8. CASE UNCHANGED traitVars
  BY <1>8 DEF IInv, SettledIsOver, TodoIsRest, WrittenPrevails, Written,
     RowBearsStamp, analysisVars, traitVars
<1>9. CASE TimePasses
  BY <1>9 DEF TimePasses, IInv, TraitTypeOK, SettledIsOver, TodoIsRest, WrittenPrevails,
     Written, RowBearsStamp, analysisVars
<1> QED BY <1>1, <1>2, <1>3, <1>4, <1>5, <1>6, <1>7, <1>8, <1>9 DEF TraitNext, AnalysisStep

(* The strengthened invariant holds in every state of every behaviour.    *)
THEOREM InvariantHolds == TraitSpec => []IInv
BY InitHolds, StepKeepsInvariant, PTL DEF TraitSpec

(* The types of the state, for any number of calls, traits and reports.    *)
THEOREM TraitTypesHold == TraitSpec => []TraitTypeOK
<1>1. IInv => TraitTypeOK
  BY DEF IInv
<1> QED BY <1>1, InvariantHolds, PTL

(* No analysis that is done is undone by one that was over before it had   *)
(* its result, however the calls interleave, fail and crash.               *)
THEOREM LaterPrevails == TraitSpec => []LaterAnalysisPrevails
<1>1. ASSUME IInv, NEW r \in Requests, apc[r] = "done", NEW i \in DOMAIN report[r]
      PROVE  i \in Written(r)
  <2>1. Len(todo[r]) = 0 /\ report[r] \in Seq(Items)
    BY <1>1 DEF IInv, TodoIsRest, TraitTypeOK
  <2> QED BY <1>1, <2>1 DEF Written
<1>2. IInv => LaterAnalysisPrevails
  BY <1>1 DEF IInv, WrittenPrevails, LaterAnalysisPrevails
<1> QED BY <1>2, InvariantHolds, PTL

(* A row's time stamp goes back only to that of an analysis overlapping    *)
(* the one before it.                                                      *)
THEOREM StampsGoBackOnlyByOverlap == TraitSpec => UpdatedAtGoesBackOnlyByOverlap
<1>1. ASSUME IInv, [TraitNext]_traitVars, NEW t \in Traits, traitRow'[t].at < traitRow[t].at
      PROVE  traitRow[t].by \notin settled[traitRow'[t].by]
  <2>1. PICK r \in Requests : UpsertTrait(r) \/ UpsertFails(r)
    BY <1>1 DEF TraitNext, AnalysisStep, traitVars, InitClone, CrashAnalyses, TimePasses, StartAnalysis,
       AnalysisProfile, RunAnalysis, SkipItem, FinishAnalysis, AnalysisFails, IInv,
       TraitTypeOK, TraitRows
  <2>2. /\ apc[r] = "upserting" /\ todo[r] # <<>> /\ Head(todo[r]).trait \in Traits
        /\ traitRow' \in {traitRow, Upserted(r, Head(todo[r]))}
    BY <2>1 DEF UpsertTrait, UpsertFails
  <2>3. traitRow'[t] = traitRow[t] \/ (traitRow'[t].by = r /\ traitRow'[t].at = analyzedAt[r])
    BY <1>1, <2>2, HeadIsItem, UpsertedRow DEF IInv
  <2>4. traitRow[t] \in TraitRows /\ analyzedAt[r] \in Nat
    BY <1>1 DEF IInv, TraitTypeOK
  <2>5. traitRow'[t].by = r /\ analyzedAt[r] < traitRow[t].at
    BY <1>1, <2>3, <2>4 DEF TraitRows
  <2>6. ASSUME traitRow[t].by \in settled[r] PROVE FALSE
    <3>1. traitRow[t].by \in Requests
      BY <1>1, <2>6 DEF IInv, TraitTypeOK
    <3>2. traitRow[t].at = analyzedAt[traitRow[t].by]
      BY <1>1, <3>1, NoWriterAssumption DEF IInv, RowBearsStamp
    <3>3. analyzedAt[traitRow[t].by] <= analyzedAt[r] /\ analyzedAt[traitRow[t].by] \in Nat
      BY <1>1, <2>6, <3>1 DEF IInv, SettledIsOver, TraitTypeOK
    <3> QED BY <2>4, <2>5, <3>2, <3>3
  <2> QED BY <2>5, <2>6
<1>2. IInv /\ [TraitNext]_traitVars =>
        [\A t \in Traits :
           traitRow'[t].at < traitRow[t].at =>
              traitRow[t].by \notin settled[traitRow'[t].by]]_traitVars
  BY <1>1
<1> QED BY <1>2, InvariantHolds, PTL DEF TraitSpec, UpdatedAtGoesBackOnlyByOverlap
-----------------------------------------------------------------------------

(* A row of a call holds the last of the values that the call has been     *)
(* through, from its first upsert on.                                      *)
IsLastWord(r, t, i) ==
    /\ report[r][i].trait = t
    /\ traitRow[t].value = ClampedValue(report[r][i].value)
    /\ \A j \in Written(r) : j > i => report[r][j].trait # t

LastWordStands ==
    \A r \in Requests, t \in Traits :
        apc[r] \in {"upserting", "done"} /\ traitRow[t].by = r =>
            \E i \in Written(r) : IsLastWord(r, t, i)

LEMMA SameWords ==
    ASSUME NEW r \in Requests, report'[r] = report[r], todo'[r] = todo[r]
    PROVE  /\ Written(r)' = Written(r)
           /\ \A t \in Traits : traitRow'[t] = traitRow[t] =>
                 \A i \in Written(r) : IsLastWord(r, t, i) => IsLastWord(r, t, i)'
<1>1. Written(r)' = Written(r)
  BY DEF Written
<1> QED BY <1>1 DEF IsLastWord

(* A step that takes no call further, nor any row from one call to another *)
(* that is still heard.                                                    *)
LEMMA WordsKept ==
    ASSUME IInv, LastWordStands, UNCHANGED report,
           NEW Heard \in SUBSET Requests,
           \A r \in Requests : apc'[r] \in {"upserting", "done"} =>
              r \in Heard /\ apc[r] \in {"upserting", "done"} /\ todo'[r] = todo[r],
           \A t \in Traits : traitRow'[t] = traitRow[t] \/ traitRow'[t].by \notin Heard
    PROVE  LastWordStands'
<1> SUFFICES ASSUME NEW r \in Requests, NEW t \in Traits,
                    apc'[r] \in {"upserting", "done"}, traitRow'[t].by = r
             PROVE  \E i \in Written(r)' : IsLastWord(r, t, i)'
  BY DEF LastWordStands
<1>1. traitRow'[t] = traitRow[t] /\ todo'[r] = todo[r] /\ apc[r] \in {"upserting", "done"}
  OBVIOUS
<1>2. PICK i \in Written(r) : IsLastWord(r, t, i)
  BY <1>1 DEF LastWordStands
<1> QED BY <1>1, <1>2, SameWords

(* An item of the list of a call, written or passed over.                  *)
LEMMA WordsAdvance ==
    ASSUME IInv, LastWordStands, NEW r \in Requests, UpsertTrait(r) \/ SkipItem(r)
    PROVE  LastWordStands'
<1> USE DEF IInv
<1> DEFINE item == Head(todo[r])
           k    == Len(report[r]) - Len(todo[r])
<1>1. /\ apc[r] = "upserting" /\ todo[r] # <<>> /\ item \in Items
      /\ \A q \in Requests \ {r} : todo'[q] = todo[q]
      /\ UNCHANGED <<apc, report>>
  BY HeadIsItem DEF UpsertTrait, SkipItem, TraitTypeOK
<1>2. todo'[r] = Tail(todo[r]) /\ Len(todo'[r]) = Len(todo[r]) - 1
  BY HeadIsItem DEF UpsertTrait, SkipItem, TraitTypeOK
<1>3. /\ Len(todo[r]) \in Nat /\ Len(report[r]) \in Nat
      /\ Len(todo[r]) > 0 /\ Len(todo[r]) <= Len(report[r])
  BY <1>1, HeadIsItem DEF TodoIsRest, IsRest, TraitTypeOK
<1>4. item = report[r][k + 1]
  <2>1. 1 \in 1..Len(todo[r]) /\ item = todo[r][1]
    BY <1>1, <1>3, HeadIsItem
  <2> QED BY <1>1, <2>1 DEF TodoIsRest, IsRest
<1>5. k \in Nat /\ Written(r) = 1..k /\ Written(r)' = 1..(k + 1)
  <2>1. Len(report[r]) - (Len(todo[r]) - 1) = Len(report[r]) - Len(todo[r]) + 1
    BY <1>3
  <2>2. k \in Nat
    BY <1>3
  <2>3. Written(r) = 1..k
    BY DEF Written
  <2>4. Written(r)' = 1..(Len(report[r]) - Len(todo'[r]))
    BY <1>1 DEF Written
  <2> QED BY <1>2, <2>1, <2>2, <2>3, <2>4
<1>6. \A t \in Traits :
        \/ t = item.trait /\ traitRow'[t].by = r
              /\ traitRow'[t].value = ClampedValue(item.value)
        \/ t # item.trait /\ traitRow'[t] = traitRow[t]
  BY <1>1 DEF UpsertTrait, SkipItem, Upserted, TraitTypeOK
<1> HIDE DEF item, k
<1> SUFFICES ASSUME NEW q \in Requests, NEW t \in Traits,
                    apc[q] \in {"upserting", "done"}, traitRow'[t].by = q
             PROVE  \E i \in Written(q)' : IsLastWord(q, t, i)'
  BY <1>1 DEF LastWordStands
<1>7. CASE q # r
  <2>1. traitRow'[t] = traitRow[t] /\ todo'[q] = todo[q]
    BY <1>1, <1>6, <1>7
  <2>2. PICK i \in Written(q) : IsLastWord(q, t, i)
    BY <2>1 DEF LastWordStands
  <2> QED BY <1>1, <2>1, <2>2, SameWords
<1>8. CASE q = r /\ t = item.trait
  <2>1. k + 1 \in Written(r)' /\ \A j \in Written(r)' : ~(j > k + 1)
    BY <1>5
  <2>2. report'[r][k + 1].trait = t /\ traitRow'[t].value = ClampedValue(report'[r][k + 1].value)
    BY <1>1, <1>4, <1>6, <1>8
  <2> QED BY <1>8, <2>1, <2>2 DEF IsLastWord
<1>9. CASE q = r /\ t # item.trait
  <2>1. traitRow'[t] = traitRow[t]
    BY <1>6, <1>9
  <2>2. PICK i \in Written(r) : IsLastWord(r, t, i)
    BY <1>9, <2>1 DEF LastWordStands
  <2>3. i \in Written(r)' /\ \A j \in Written(r)' : j \in Written(r) \/ j = k + 1
    BY <1>5
  <2>4. report[r][k + 1].trait # t
    BY <1>4, <1>9
  <2> QED BY <1>1, <1>9, <2>1, <2>2, <2>3, <2>4 DEF IsLastWord
<1> QED BY <1>7, <1>8, <1>9

LEMMA WordsStand == IInv /\ LastWordStands /\ [TraitNext]_traitVars => LastWordStands'
<1> SUFFICES ASSUME IInv, LastWordStands, [TraitNext]_traitVars PROVE LastWordStands'
  OBVIOUS
<1> USE DEF IInv, TraitTypeOK, analysisVars
<1> DEFINE Heard == {r \in Requests : apc[r] \in {"upserting", "done"}}
<1>1. CASE InitClone \/ TimePasses \/ UNCHANGED traitVars
  <2>1. UNCHANGED <<traitRow, apc, todo, report>>
    BY <1>1 DEF InitClone, TimePasses, traitVars
  <2> QED BY <2>1, WordsKept
<1>2. CASE CrashAnalyses
  <2>1. \A r \in Requests : apc'[r] \in {"upserting", "done"} =>
           r \in Heard /\ apc[r] = "done" /\ todo'[r] = todo[r]
    BY <1>2 DEF CrashAnalyses, AnalysisSteps, TodoIsRest
  <2> QED BY <1>2, <2>1, WordsKept DEF CrashAnalyses
<1>3. ASSUME NEW r \in Requests, StartAnalysis(r) \/ AnalysisProfile(r) \/ AnalysisFails(r)
      PROVE  LastWordStands'
  <2>1. \A q \in Requests : apc'[q] \in {"upserting", "done"} =>
           q \in Heard /\ apc[q] \in {"upserting", "done"} /\ todo'[q] = todo[q]
    BY <1>3 DEF StartAnalysis, AnalysisProfile, AnalysisFails
  <2>2. report' = report /\ traitRow' = traitRow
    BY <1>3 DEF StartAnalysis, AnalysisProfile, AnalysisFails
  <2> QED BY <2>1, <2>2, WordsKept
<1>4. ASSUME NEW r \in Requests, RunAnalysis(r) PROVE LastWordStands'
  <2>1. \A t \in Traits : traitRow'[t] = traitRow[t] /\ traitRow[t].by # r
    BY <1>4, NoWriterAssumption DEF RunAnalysis, RowBearsStamp, AnalysisOver
  <2>2. \A q \in Requests \ {r} :
           apc'[q] = apc[q] /\ todo'[q] = todo[q] /\ report'[q] = report[q]
    BY <1>4 DEF RunAnalysis
  <2> SUFFICES ASSUME NEW q \in Requests, NEW t \in Traits,
                      apc'[q] \in {"upserting", "done"}, traitRow'[t].by = q
               PROVE  \E i \in Written(q)' : IsLastWord(q, t, i)'
    BY DEF LastWordStands
  <2>3. q # r
    BY <2>1
  <2>4. PICK i \in Written(q) : IsLastWord(q, t, i)
    BY <2>1, <2>2, <2>3 DEF LastWordStands
  <2> QED BY <2>1, <2>2, <2>3, <2>4, SameWords
<1>5. ASSUME NEW r \in Requests, UpsertTrait(r) \/ SkipItem(r) PROVE LastWordStands'
  BY <1>5, WordsAdvance
<1>6. ASSUME NEW r \in Requests, UpsertFails(r) PROVE LastWordStands'
  <2>1. \A q \in Requests : apc'[q] \in {"upserting", "done"} =>
           q \in Heard \ {r} /\ apc[q] \in {"upserting", "done"} /\ todo'[q] = todo[q]
    BY <1>6 DEF UpsertFails
  <2>2. \A t \in Traits : traitRow'[t] = traitRow[t] \/ traitRow'[t].by \notin Heard \ {r}
    BY <1>6, HeadIsItem, UpsertedRow DEF UpsertFails
  <2>3. report' = report
    BY <1>6 DEF UpsertFails
  <2> QED BY <2>1, <2>2, <2>3, WordsKept
<1>7. ASSUME NEW r \in Requests, FinishAnalysis(r) PROVE LastWordStands'
  <2>1. \A q \in Requests : apc'[q] \in {"upserting", "done"} =>
           q \in Heard /\ apc[q] \in {"upserting", "done"} /\ todo'[q] = todo[q]
    BY <1>7 DEF FinishAnalysis
  <2>2. report' = report /\ traitRow' = traitRow
    BY <1>7 DEF FinishAnalysis
  <2> QED BY <2>1, <2>2, WordsKept
<1> QED BY <1>1, <1>2, <1>3, <1>4, <1>5, <1>6, <1>7 DEF TraitNext, AnalysisStep

(* Whatever the interleaving, the rows of a call that is done are its last *)
(* word on each trait, or another call's.                                  *)
THEOREM LastItemsPrevail == TraitSpec => []LastItemPrevails
<1>1. TraitInit => LastWordStands
  BY DEF TraitInit, LastWordStands
<1>2. IInv /\ LastWordStands => LastItemPrevails
  <2> SUFFICES ASSUME IInv, LastWordStands, NEW r \in Requests, NEW t \in Traits,
                      apc[r] = "done", traitRow[t].by = r
               PROVE  \E i \in DOMAIN report[r] :
                        /\ report[r][i].trait = t
                        /\ traitRow[t].value = ClampedValue(report[r][i].value)
                        /\ \A j \in DOMAIN report[r] : j > i => report[r][j].trait # t
    BY DEF LastItemPrevails
  <2>1. Written(r) = DOMAIN report[r]
    <3>1. Len(todo[r]) = 0 /\ report[r] \in Seq(Items)
      BY DEF IInv, TodoIsRest, TraitTypeOK
    <3> QED BY <3>1 DEF Written
  <2>2. PICK i \in Written(r) : IsLastWord(r, t, i)
    BY DEF LastWordStands
  <2> QED BY <2>1, <2>2 DEF IsLastWord
<1> QED BY <1>1, <1>2, InvariantHolds, WordsStand, PTL DEF TraitSpec
=============================================================================
