-------------------------- MODULE CloneTurnProofs --------------------------
(***************************************************************************)
(* Theorems about a turn of Chat, for any tables, messages, similarities,  *)
(* verdicts and answers: the narrative keeps to its limits, a seed is      *)
(* recalled, the better of two memories prevails but for a reason, the     *)
(* directives of a prompt agree, the monologue is not shown; and a turn is *)
(* one of EmotionalMemory.                                                 *)
(*                                                                         *)
(* The argument: rows have places in their table, one each, so the newest  *)
(* and the first of them are as many as the limits say (PlacesTell,        *)
(* FewAreFew).  The tables, the call, the search with its loop and the     *)
(* narrative have an invariant each; and the loop keeps, for each          *)
(* candidate behind it, the reason it was kept or dropped for.             *)
(***************************************************************************)
EXTENDS CloneTurn, FiniteSetTheorems, TLAPS

-----------------------------------------------------------------------------
(* Finite sets in an order, which the key of an element gives.             *)

UpTo(S, key, x)   == {y \in S : key[y] <= key[x]}
Before(S, key, x) == {y \in S : key[y] < key[x]}

(* The place of an element tells it from the others, and every place is    *)
(* taken.                                                                  *)
LEMMA PlacesTell ==
    ASSUME NEW S, IsFiniteSet(S), NEW key \in [S -> Int], IsInjective(key)
    PROVE  /\ \A x \in S : Cardinality(UpTo(S, key, x)) \in 1..Cardinality(S)
           /\ \A x, y \in S : key[x] < key[y] =>
                 Cardinality(UpTo(S, key, x)) < Cardinality(UpTo(S, key, y))
           /\ \A n \in 1..Cardinality(S) :
                 \E x \in S : Cardinality(UpTo(S, key, x)) = n
<1> DEFINE place == [x \in S |-> Cardinality(UpTo(S, key, x))]
<1>1. \A x \in S : /\ IsFiniteSet(UpTo(S, key, x))
                   /\ Cardinality(UpTo(S, key, x)) \in Nat
                   /\ Cardinality(UpTo(S, key, x)) <= Cardinality(S)
  <2> SUFFICES ASSUME NEW x \in S
               PROVE  /\ IsFiniteSet(UpTo(S, key, x))
                      /\ Cardinality(UpTo(S, key, x)) \in Nat
                      /\ Cardinality(UpTo(S, key, x)) <= Cardinality(S)
    OBVIOUS
  <2>1. UpTo(S, key, x) \in SUBSET S
    BY DEF UpTo
  <2> QED BY <2>1, FS_Subset, FS_CardinalityType
<1>2. \A x \in S : Cardinality(UpTo(S, key, x)) # 0
  <2> SUFFICES ASSUME NEW x \in S PROVE Cardinality(UpTo(S, key, x)) # 0
    OBVIOUS
  <2>1. x \in UpTo(S, key, x)
    BY DEF UpTo
  <2> QED BY <1>1, <2>1, FS_EmptySet
<1>3. Cardinality(S) \in Nat
  BY FS_CardinalityType
<1>4. \A x \in S : Cardinality(UpTo(S, key, x)) \in 1..Cardinality(S)
  BY <1>1, <1>2, <1>3
<1>5. \A x, y \in S : key[x] < key[y] =>
         Cardinality(UpTo(S, key, x)) < Cardinality(UpTo(S, key, y))
  <2> SUFFICES ASSUME NEW x \in S, NEW y \in S, key[x] < key[y]
               PROVE  Cardinality(UpTo(S, key, x)) < Cardinality(UpTo(S, key, y))
    OBVIOUS
  <2>1. UpTo(S, key, x) \in SUBSET UpTo(S, key, y)
    BY DEF UpTo
  <2>2. y \in UpTo(S, key, y) /\ y \notin UpTo(S, key, x)
    BY DEF UpTo
  <2>3. /\ Cardinality(UpTo(S, key, x)) <= Cardinality(UpTo(S, key, y))
        /\ Cardinality(UpTo(S, key, y)) # Cardinality(UpTo(S, key, x))
    BY <1>1, <2>1, <2>2, FS_Subset
  <2> QED BY <1>1, <2>3
<1>6. \A x, y \in S : place[x] = place[y] => x = y
  <2> SUFFICES ASSUME NEW x \in S, NEW y \in S, x # y PROVE place[x] # place[y]
    OBVIOUS
  <2>1. key[x] # key[y]
    BY DEF IsInjective
  <2>2. key[x] < key[y] \/ key[y] < key[x]
    BY <2>1
  <2> QED BY <1>1, <1>5, <2>2
<1>7. place \in [S -> 1..Cardinality(S)]
  BY <1>4
<1>8. IsInjective(place)
  BY <1>6 DEF IsInjective
<1>9. place \in Surjection(S, 1..Cardinality(S))
  <2>1. place \in Injection(S, 1..Cardinality(S))
    BY <1>7, <1>8 DEF Injection
  <2>2. IsFiniteSet(1..Cardinality(S)) /\ Cardinality(1..Cardinality(S)) = Cardinality(S)
    BY <1>3, FS_Interval
  <2> QED BY <2>1, <2>2, FS_Injection
<1>10. \A n \in 1..Cardinality(S) : \E x \in S : place[x] = n
  BY <1>9 DEF Surjection
<1> QED BY <1>4, <1>5, <1>10

(* Those with fewer than some number before them are no more than that.    *)
LEMMA FewAreFew ==
    ASSUME NEW S, IsFiniteSet(S), NEW key \in [S -> Int], IsInjective(key), NEW limit \in Nat,
           NEW few, few = {x \in S : Cardinality(Before(S, key, x)) < limit}
    PROVE  IsFiniteSet(few) /\ Cardinality(few) <= limit
<1>1. \A x \in few : Cardinality(UpTo(S, key, x)) \in 1..limit
  <2> SUFFICES ASSUME NEW x \in S, Cardinality(Before(S, key, x)) < limit
               PROVE  Cardinality(UpTo(S, key, x)) \in 1..limit
    OBVIOUS
  <2> DEFINE before == Before(S, key, x)
  <2>1. IsFiniteSet(before) /\ Cardinality(before) \in Nat
    <3>1. before \in SUBSET S
      BY DEF Before
    <3> QED BY <3>1, FS_Subset, FS_CardinalityType
  <2>2. UpTo(S, key, x) = before \cup {x} /\ x \notin before
    BY DEF UpTo, Before, IsInjective
  <2>3. Cardinality(UpTo(S, key, x)) = Cardinality(before) + 1
    BY <2>1, <2>2, FS_AddElement
  <2> QED BY <2>1, <2>3
<1> DEFINE place == [x \in few |-> Cardinality(UpTo(S, key, x))]
<1>2. place \in [few -> 1..limit]
  BY <1>1
<1>3. \A x, y \in few : place[x] = place[y] => x = y
  <2> SUFFICES ASSUME NEW x \in S, NEW y \in S, x # y
               PROVE  Cardinality(UpTo(S, key, x)) # Cardinality(UpTo(S, key, y))
    OBVIOUS
  <2>1. key[x] < key[y] \/ key[y] < key[x]
    BY DEF IsInjective
  <2>2. /\ Cardinality(UpTo(S, key, x)) \in Int /\ Cardinality(UpTo(S, key, y)) \in Int
        /\ key[x] < key[y] => Cardinality(UpTo(S, key, x)) < Cardinality(UpTo(S, key, y))
        /\ key[y] < key[x] => Cardinality(UpTo(S, key, y)) < Cardinality(UpTo(S, key, x))
    BY PlacesTell
  <2> QED BY <2>1, <2>2
<1>4. place \in Injection(few, 1..limit)
  BY <1>2, <1>3 DEF Injection, IsInjective
<1>5. IsFiniteSet(1..limit) /\ Cardinality(1..limit) = limit
  BY FS_Interval
<1> QED BY <1>4, <1>5, FS_Injection

(* An image has no more elements than the set.                             *)
LEMMA ImageIsSmaller ==
    ASSUME NEW S, IsFiniteSet(S), NEW f, DOMAIN f = S, NEW T, T = {f[x] : x \in S}
    PROVE  IsFiniteSet(T) /\ Cardinality(T) <= Cardinality(S)
<1> DEFINE g == [x \in S |-> f[x]]
<1>1. g \in Surjection(S, T)
  BY DEF Surjection
<1> QED BY <1>1, FS_Surjection

-----------------------------------------------------------------------------
(* The text taken from an answer.                                          *)

(* To leave out the lines of a kind keeps the others, and the two ends if  *)
(* they are of another kind.                                               *)
LEMMA WithoutKeepsOrder ==
    ASSUME NEW lines \in Seq(Lines), NEW kind
    PROVE  /\ Without(lines, kind) \in Seq(Lines)
           /\ kind \notin Range(Without(lines, kind))
           /\ lines # <<>> /\ Head(lines) # kind /\ lines[Len(lines)] # kind =>
                /\ Without(lines, kind) # <<>>
                /\ Head(Without(lines, kind)) = Head(lines)
                /\ Without(lines, kind)[Len(Without(lines, kind))] = lines[Len(lines)]
<1> DEFINE rest   == {i \in DOMAIN lines : lines[i] # kind}
           count(i) == Cardinality({k \in rest : k <= i})
           key    == [i \in rest |-> i]
           nth(n) == CHOOSE i \in rest : count(i) = n
           kept   == Without(lines, kind)
<1>1. /\ rest \subseteq 1..Len(lines) /\ Len(lines) \in Nat
      /\ \A i \in 1..Len(lines) : lines[i] # kind => i \in rest
      /\ \A i \in rest : /\ i \in Int /\ 1 <= i /\ i <= Len(lines)
                          /\ lines[i] # kind /\ lines[i] \in Lines
  OBVIOUS
<1>2. IsFiniteSet(rest) /\ Cardinality(rest) \in Nat
  <2>1. IsFiniteSet(1..Len(lines))
    BY <1>1, FS_Interval
  <2>2. rest \in SUBSET (1..Len(lines))
    BY <1>1
  <2> HIDE DEF rest
  <2> QED BY <2>1, <2>2, FS_Subset, FS_CardinalityType
<1>3. key \in [rest -> Int] /\ IsInjective(key)
  BY <1>1 DEF IsInjective
<1>4. \A i \in rest : UpTo(rest, key, i) = {k \in rest : k <= i}
  BY DEF UpTo
<1>5. /\ \A i \in rest : count(i) \in 1..Cardinality(rest)
      /\ \A i, j \in rest : i < j =>
            count(i) < count(j)
      /\ \A n \in 1..Cardinality(rest) :
            \E i \in rest : count(i) = n
  <2> HIDE DEF rest, key
  <2>1. /\ \A i \in rest : Cardinality(UpTo(rest, key, i)) \in 1..Cardinality(rest)
        /\ \A i, j \in rest : key[i] < key[j] =>
              Cardinality(UpTo(rest, key, i)) < Cardinality(UpTo(rest, key, j))
        /\ \A n \in 1..Cardinality(rest) :
              \E i \in rest : Cardinality(UpTo(rest, key, i)) = n
    BY <1>2, <1>3, PlacesTell
  <2>2. \A i \in rest : key[i] = i
    BY DEF key
  <2> QED BY <1>4, <2>1, <2>2
<1>6. \A n \in 1..Cardinality(rest) :
         nth(n) \in rest /\ count(nth(n)) = n
  BY <1>5
<1>7. kept = [n \in 1..Cardinality(rest) |-> lines[nth(n)]]
  BY DEF Without
<1> HIDE DEF rest, count, nth, kept
<1>8. kept \in Seq(Lines) /\ Len(kept) = Cardinality(rest)
  <2>1. \A n \in 1..Cardinality(rest) : lines[nth(n)] \in Lines
    BY <1>1, <1>6
  <2> QED BY <1>2, <1>7, <2>1
<1>9. kind \notin Range(kept)
  BY <1>1, <1>6, <1>7 DEF Range
<1>10. ASSUME lines # <<>>, Head(lines) # kind, lines[Len(lines)] # kind
       PROVE  /\ kept # <<>>
              /\ Head(kept) = Head(lines)
              /\ kept[Len(kept)] = lines[Len(lines)]
  <2>1. 1 \in rest /\ Len(lines) \in rest
    <3>1. Head(lines) = lines[1] /\ 1 \in 1..Len(lines) /\ Len(lines) \in 1..Len(lines)
      BY <1>1, <1>10
    <3> QED BY <1>1, <1>10, <3>1
  <2>2. 1 \in 1..Cardinality(rest) /\ Cardinality(rest) \in 1..Cardinality(rest)
    BY <1>2, <1>5, <2>1
  <2>3. nth(1) = 1
    <3>1. nth(1) \in rest /\ count(nth(1)) = 1
      BY <1>6, <2>2
    <3>2. count(1) \in 1..Cardinality(rest)
      BY <1>5, <2>1
    <3>3. ~ (1 < nth(1))
      BY <1>2, <1>5, <2>1, <3>1, <3>2
    <3>4. nth(1) \in Int /\ 1 <= nth(1)
      BY <1>1, <3>1
    <3> QED BY <3>3, <3>4
  <2>4. nth(Cardinality(rest)) = Len(lines)
    <3> DEFINE last == nth(Cardinality(rest))
    <3> HIDE DEF last
    <3>1. last \in rest /\ count(last) = Cardinality(rest)
      BY <1>6, <2>2 DEF last
    <3>2. count(Len(lines)) \in 1..Cardinality(rest)
      BY <1>5, <2>1
    <3>3. ~ (last < Len(lines))
      BY <1>2, <1>5, <2>1, <3>1, <3>2
    <3>4. last \in Int /\ last <= Len(lines)
      BY <1>1, <3>1
    <3>5. last = Len(lines)
      BY <1>1, <3>3, <3>4
    <3> QED BY <3>5 DEF last
  <2>5. kept[1] = lines[1] /\ kept[Cardinality(rest)] = lines[Len(lines)]
    BY <1>7, <2>2, <2>3, <2>4
  <2>6. Head(kept) = kept[1] /\ Head(lines) = lines[1] /\ kept # <<>>
    BY <1>8, <1>10, <2>2
  <2> QED BY <1>8, <2>5, <2>6
<1> QED BY <1>8, <1>9, <1>10 DEF kept

(* A reply of one line.                                                    *)
LEMMA RangeOfOne == ASSUME NEW x PROVE Range(<<x>>) = {x}
<1> DEFINE s == <<x>>
<1>1. DOMAIN s = {1} /\ s[1] = x
  OBVIOUS
<1> HIDE DEF s
<1>2. Range(s) = {x}
  BY <1>1 DEF Range
<1> QED BY <1>2 DEF s

(* What is between the fences is lines of the answer.                      *)
LEMMA UnfencedIsLines ==
    ASSUME NEW a \in Seq(Lines)
    PROVE  Unfenced(a) \in Seq(Lines)
<1> DEFINE from == IF a # <<>> /\ Head(a) = "fence" THEN 2 ELSE 1
           to   == IF Len(a) >= from /\ a[Len(a)] = "fence" THEN Len(a) - 1 ELSE Len(a)
<1>1. Unfenced(a) = SubSeq(a, from, to)
  BY DEF Unfenced
<1>2. from \in {1, 2} /\ to \in Int /\ to <= Len(a)
  OBVIOUS
<1> HIDE DEF from, to
<1> QED BY <1>1, <1>2

(* Whatever the LLM sends, the reply is text it may show, or none.         *)
LEMMA ReplyIs ==
    ASSUME NEW a \in Seq(Lines)
    PROVE  /\ Range(ReplyTo(a)) \subseteq Lines \cup Range(NoReply)
           /\ "public" \in Range(a) => ReplyTo(a) = <<"public">>
           /\ "monologue" \notin Range(ReplyTo(a))
           /\ "thought" \in Range(ReplyTo(a)) \/ "blank" \in Range(ReplyTo(a)) =>
                ~IsObject(Unfenced(a))
<1> DEFINE lines == Unfenced(a)
           rest  == Without(lines, "monologue")
<1>1. lines \in Seq(Lines)
  BY UnfencedIsLines
<1>2. /\ rest \in Seq(Lines)
      /\ "monologue" \notin Range(rest)
      /\ lines # <<>> /\ Head(lines) # "monologue" /\ lines[Len(lines)] # "monologue" =>
           /\ rest # <<>>
           /\ Head(rest) = Head(lines)
           /\ rest[Len(rest)] = lines[Len(lines)]
  <2> HIDE DEF lines
  <2> QED BY <1>1, WithoutKeepsOrder
<1>3. Sanitized(a) = IF IsObject(rest) THEN <<>> ELSE rest
  BY DEF Sanitized
<1> HIDE DEF rest
<1>4. IsObject(lines) => IsObject(rest)
  BY <1>2 DEF IsObject
<1>5. Range(<<"public">>) = {"public"} /\ Range(NoReply) = {"no reply"}
  BY RangeOfOne DEF NoReply
<1>6. CASE "public" \in Range(a)
  <2>1. ReplyTo(a) = <<"public">>
    BY <1>6 DEF ReplyTo
  <2>2. Range(ReplyTo(a)) = {"public"}
    BY <1>5, <2>1
  <2>3. "public" \in Lines
    BY DEF Lines
  <2> QED BY <2>1, <2>2, <2>3
<1>7. CASE "public" \notin Range(a) /\ Sanitized(a) = <<>>
  <2>1. ReplyTo(a) = NoReply
    BY <1>7 DEF ReplyTo
  <2>2. Range(ReplyTo(a)) = {"no reply"} /\ Range(NoReply) = {"no reply"}
    BY <1>5, <2>1
  <2> QED BY <1>7, <2>2
<1>8. CASE "public" \notin Range(a) /\ Sanitized(a) # <<>>
  <2>1. ReplyTo(a) = rest /\ ~IsObject(lines)
    BY <1>3, <1>4, <1>8 DEF ReplyTo
  <2>2. Range(rest) \subseteq Lines
    BY <1>2 DEF Range
  <2> QED BY <1>2, <1>8, <2>1, <2>2
<1> QED BY <1>6, <1>7, <1>8

-----------------------------------------------------------------------------
(* The rows of memories, for the clone as it is loaded.                    *)

Emotions == [intensity : Nat, category : Categories]

(* An analysis is an emotion.                                              *)
LEMMA AnalysisIs ==
    ASSUME NEW raw \in Int, NEW category \in Categories
    PROVE  AnalyzeEmotion(LoadedBig5, raw, category) \cup {DefaultEmotion} \subseteq Emotions
<1> DEFINE intensity == IF raw <= 0 THEN 10 ELSE raw
           damped    == intensity * (2 * ResilienceUnit - GetResilience(LoadedBig5))
<1>1. GetResilience(LoadedBig5) = 6000 /\ 2 * ResilienceUnit = 20000
  BY DEF GetResilience, LoadedBig5, ResilienceUnit
<1>2. damped \in Nat
  <2>1. intensity \in Nat
    OBVIOUS
  <2> HIDE DEF intensity
  <2> QED BY <1>1, <2>1
<1>3. Truncations(damped, 20000) \subseteq Nat
  <2>1. \A num \in Nat : Truncations(num, 20000) \subseteq Nat
    BY DEF Truncations
  <2> HIDE DEF damped
  <2> QED BY <1>2, <2>1
<1>4. \A e \in AnalyzeEmotion(LoadedBig5, raw, category) :
         \/ e = [intensity |-> 0, category |-> "NEUTRAL"]
         \/ e \in [intensity : Truncations(damped, 2 * ResilienceUnit),
                   category  : {IF category = "" THEN "NEUTRAL" ELSE category}]
  BY DEF AnalyzeEmotion
<1>5. (IF category = "" THEN "NEUTRAL" ELSE category) \in Categories
  BY DEF Categories
<1>6. DefaultEmotion \in Emotions /\ [intensity |-> 0, category |-> "NEUTRAL"] \in Emotions
  BY DEF Emotions, DefaultEmotion, Categories
<1> HIDE DEF intensity, damped
<1>7. [intensity : Truncations(damped, 2 * ResilienceUnit),
       category  : {IF category = "" THEN "NEUTRAL" ELSE category}] \subseteq Emotions
  <2> DEFINE read == IF category = "" THEN "NEUTRAL" ELSE category
             few  == Truncations(damped, 2 * ResilienceUnit)
  <2>1. few \subseteq Nat /\ read \in Categories
    <3>1. few \subseteq Nat
      <4>1. few = Truncations(damped, 20000)
        BY <1>1
      <4> QED BY <1>3, <4>1
    <3> QED BY <1>5, <3>1
  <2> HIDE DEF read, few
  <2>2. [intensity : few, category : {read}] \subseteq Emotions
    BY <2>1 DEF Emotions
  <2> QED BY <2>2 DEF read, few
<1> QED BY <1>4, <1>6, <1>7

(* What Chat stores fits the columns of the table ...                      *)
LEMMA FeltRowIsMemory ==
    ASSUME NEW msg \in Messages, NEW e \in Emotions, NEW tense \in BOOLEAN
    PROVE  FeltRow(msg, e, tense, LoadedBig5) \in Memories
<1> DEFINE x == EffectiveIntensity(e, tense, LoadedBig5)
           origin == IF AttendedIntensity(e, tense) = e.intensity THEN "felt" ELSE "floored"
<1>1. AttendedIntensity(e, tense) \in Nat
  BY DEF AttendedIntensity, TensionIntensityFloor, Emotions
<1>2. x \in Nat
  <2>1. \A y \in Nat : CalculateReaction(y, LoadedBig5) \in Nat
    BY DEF CalculateReaction, Clamp, LoadedBig5
  <2> QED BY <1>1, <2>1 DEF EffectiveIntensity
<1>3. FeltRow(msg, e, tense, LoadedBig5) =
        [importance |-> Clamp((x + 9) \div 10, 1, 10), weight |-> Clamp((x + 9) \div 10, 1, 10),
         intensity |-> StoredIntensity(x), category |-> e.category,
         signal |-> msg.signal, origin |-> origin, raw |-> msg.raw]
  BY DEF FeltRow, Row, MemoryOf
<1>4. origin \in {"felt", "floored", "seeded"}
  OBVIOUS
<1> HIDE DEF x, origin
<1>5. Clamp((x + 9) \div 10, 1, 10) \in 1..10 /\ StoredIntensity(x) \in 1..100
  BY <1>2 DEF StoredIntensity, Clamp
<1>6. e.category \in Categories /\ msg.signal \in BOOLEAN /\ msg.raw \in Int
  BY MessagesAssumption DEF Emotions
<1> QED BY <1>3, <1>4, <1>5, <1>6 DEF Memories

(* ...  and so does what the console stores.                               *)
LEMMA SeededRowIsMemory ==
    ASSUME NEW s \in Scenes
    PROVE  SeededRow(s.importance, s.weight, s.category, s.signal) \in Memories
<1>1. s.importance \in Int /\ s.weight \in Int /\ s.category \in Categories /\ s.signal \in BOOLEAN
  BY ScenesAssumption
<1>2. Clamp(s.importance, 1, 10) \in 1..10 /\ Clamp(s.weight, 1, 10) \in 1..10
  BY <1>1 DEF Clamp
<1>3. StoredIntensity(IF s.weight < 1 THEN 10 ELSE 10 * s.weight) \in 1..100
  BY <1>1 DEF StoredIntensity, Clamp
<1> QED BY <1>1, <1>2, <1>3 DEF SeededRow, Row, Memories

-----------------------------------------------------------------------------
(* The inductive invariant.                                                *)

(* Where the call has its message in hand, and where its narrative.        *)
Told  == {"narrated", "sighted", "analyzed", "weighed", "prompted"}
Asked == {"received", "bonded", "ranked"} \cup Told

(* Rows are numbered as they come.                                         *)
RowsOK ==
    /\ IsFiniteSet(memories)
    /\ \A m \in memories : m.clone \in Clones /\ m.row \in Memories
    /\ {m.at : m \in memories} = 1..Cardinality(memories)
    /\ \A m, n \in memories : m.at = n.at => m = n

BondsOK ==
    /\ IsFiniteSet(characters)
    /\ \A c \in characters : c.bond \in Characters
    /\ turns \in 0..MaxTurns

CallOK ==
    /\ stage \in Asked \cup {"idle", "answered"}
    /\ message \in Messages \cup {NoMessage}
    /\ stage \in Asked => message \in Messages /\ speaker \in Clones
    /\ known \in 0..Cardinality(memories)
    /\ active \subseteq Characters

Candidates == [memory : memories, similarity : Similarities, score : Int]

SearchOK ==
    /\ ranked \in Seq(Candidates) /\ Len(ranked) <= SearchLimit
    /\ \A i \in 1..Len(ranked) : ranked[i].memory.clone = speaker
    /\ next \in 1..(Len(ranked) + 1)
    /\ found \in Seq(memories) /\ Len(found) < next
    /\ \A i \in 1..Len(found) : found[i].clone = speaker
    /\ IsFiniteSet(DOMAIN verdicts) /\ Cardinality(DOMAIN verdicts) <= MaxJudge
    /\ \A text \in DOMAIN verdicts : verdicts[text] \in BOOLEAN
    /\ stage # "ranked" => ranked = <<>> /\ next = 1 /\ verdicts = <<>> /\ found = <<>>

(* A residue makes a narrative tense.                                      *)
NarrativeOK ==
    /\ narrative.recalled \subseteq MemoriesOf(speaker)
    /\ Cardinality(narrative.recalled) <= ContextLimit
    /\ {narrative.built, narrative.residue, narrative.tenseBond, narrative.tense} \subseteq BOOLEAN
    /\ narrative.residue => narrative.tense
    /\ stage \notin Told => narrative = NoNarrative

TurnOK ==
    /\ snapshot.trust \in Int /\ snapshot.intimacy \in Int
    /\ emotion \in Emotions
    /\ stage \notin {"analyzed", "weighed"} => emotion = DefaultEmotion
    /\ prompt \in [goal : Goals, conflict : BOOLEAN, filter : Filters]
    /\ Range(reply) \subseteq Lines \cup Range(NoReply)
    /\ stage = "answered" => answer \in Seq(Lines) /\ reply = ReplyTo(answer)

(* The prompt is made of what the turn still has before it.                *)
PromptIsOfTurn ==
    stage = "prompted" =>
        \E trivial \in BOOLEAN :
            /\ trivial => ~narrative.tense
            /\ prompt = Directives(narrative,
                                   DetermineGoal(snapshot, message, trivial, LoadedBig5),
                                   trivial)

(* What the working memory holds of the rows before the message.           *)
Newer(m) == {n \in MemoriesOf(speaker) : n.at > m.at /\ IsHighImpact(n.row)}

SeedsStay ==
    stage \in Told /\ narrative.built =>
        \A m \in memories :
            IsHighImpact(m.row) /\ m.at <= known /\ m.clone = speaker
            => m \in narrative.recalled \/ Cardinality(Newer(m)) >= WorkingMemoryLimit

IInv == RowsOK /\ BondsOK /\ CallOK /\ SearchOK /\ NarrativeOK /\ TurnOK

(* A search ranks each row once, by its score.                             *)
RankedByScore ==
    \A i, j \in 1..Len(ranked) :
        /\ ranked[i].memory = ranked[j].memory => i = j
        /\ i < j => ranked[j].score <= ranked[i].score
        /\ BetterClaim(ranked[i], ranked[j]) => ranked[j].score <= ranked[i].score

(* Why the loop has kept a candidate, and why it has not.                  *)
IsBehind(i) == i = 2 /\ ranked[1].score - ranked[2].score >= GapScore

KeptFor(i) ==
    LET c == ranked[i]
    IN  IF message.benign THEN c.similarity >= HardFloor
        ELSE c.similarity >= UpperSimilarity \/ Doubtful(c)

DroppedFor(i) ==
    LET c == ranked[i]
    IN  \/ message.benign /\ (ShouldSkipTrauma(c.memory.row) \/ c.similarity < HardFloor)
        \/ ~message.benign /\ IsBehind(i)
        \/ ~message.benign /\ c.similarity < HardFloor
        \/ ~message.benign /\ Judged(c) /\ ~verdicts[c.memory.content]
        \/ /\ ~message.benign /\ Doubtful(c)
           /\ \/ ~Judged(c)
              \/ \E k \in 1..Len(ranked) :
                    i < k /\ k < next /\ ranked[k].memory.content = c.memory.content

LoopIsReasoned ==
    /\ \A i \in 1..Len(ranked) :
          i < next => ranked[i].memory \in Range(found) \/ DroppedFor(i)
    /\ \A m \in Range(found) : \E i \in 1..Len(ranked) :
          i < next /\ m = ranked[i].memory /\ KeptFor(i)

-----------------------------------------------------------------------------
(* The tables.                                                             *)

(* A new row takes the place after all others.                             *)
LEMMA InsertGrows ==
    ASSUME RowsOK, NEW clone \in Clones, NEW content, NEW row \in Memories,
           Insert(clone, content, row)
    PROVE  /\ RowsOK' /\ memories \subseteq memories'
           /\ Cardinality(memories) \in Nat /\ Cardinality(memories') = Cardinality(memories) + 1
           /\ \A m \in memories' : m \in memories \/ m.at = Cardinality(memories) + 1
<1> DEFINE n   == Cardinality(memories)
           new == [clone |-> clone, at |-> n + 1, content |-> content, row |-> row]
<1>1. n \in Nat
  BY FS_CardinalityType DEF RowsOK
<1>2. \A m \in memories : m.at \in 1..n
  BY DEF RowsOK
<1>3. memories' = memories \cup {new} /\ new.at = n + 1 /\ new.clone = clone /\ new.row = row
  BY DEF Insert
<1> HIDE DEF n, new
<1>4. new \notin memories
  BY <1>1, <1>2, <1>3
<1>5. IsFiniteSet(memories') /\ Cardinality(memories') = n + 1
  BY <1>3, <1>4, FS_AddElement DEF RowsOK, n
<1>6. {m.at : m \in memories'} = 1..(n + 1)
  <2>1. {m.at : m \in memories'} = {m.at : m \in memories} \cup {n + 1}
    BY <1>3
  <2>2. {m.at : m \in memories} = 1..n
    BY DEF RowsOK, n
  <2> QED BY <1>1, <2>1, <2>2
<1>7. \A m, k \in memories' : m.at = k.at => m = k
  BY <1>1, <1>2, <1>3 DEF RowsOK
<1>8. \A m \in memories' : m.clone \in Clones /\ m.row \in Memories
  BY <1>3 DEF RowsOK
<1> QED BY <1>1, <1>3, <1>5, <1>6, <1>7, <1>8 DEF RowsOK, n

(* The tables only grow, and the call knows of what was there before.      *)
TablesGrow ==
    /\ memories \subseteq memories'
    /\ Cardinality(memories) \in Nat /\ Cardinality(memories') \in Nat
    /\ Cardinality(memories) <= Cardinality(memories')
    /\ \A m \in memories' : m \in memories \/ m.at > Cardinality(memories)

(* Every step keeps the tables well formed, and takes nothing out.         *)
LEMMA TablesStand == IInv /\ [Next]_vars => RowsOK' /\ BondsOK' /\ TablesGrow
<1> SUFFICES ASSUME IInv, [Next]_vars PROVE RowsOK' /\ BondsOK' /\ TablesGrow
  OBVIOUS
<1> USE DEF IInv
<1>a. Cardinality(memories) \in Nat /\ Cardinality(characters) \in Nat
  BY FS_CardinalityType DEF RowsOK, BondsOK
<1>b. ASSUME UNCHANGED memories PROVE RowsOK' /\ TablesGrow
  BY <1>a, <1>b DEF RowsOK, TablesGrow
<1>c. ASSUME UNCHANGED <<characters, turns>> PROVE BondsOK'
  BY <1>c DEF BondsOK
<1>d. ASSUME InBounds PROVE turns + 1 \in 0..MaxTurns
  BY <1>a, <1>d, TurnsAssumption DEF InBounds, BondsOK
<1>1. CASE Receive
  <2>1. BondsOK'
    BY <1>1, <1>d DEF Receive, BondsOK, tables
  <2> QED BY <1>1, <1>b, <2>1 DEF Receive, tables
<1>2. CASE RetrievalStep
  <2>1. UNCHANGED tables /\ UNCHANGED turns
    BY <1>2 DEF RetrievalStep, ListCharacters, SkipNarrativeContext, EvokeNothing, Search,
                Keep, Drop, JudgeMemory, JudgeFails, Step, BuildNarrativeContext
  <2> QED BY <1>b, <1>c, <2>1 DEF tables
<1>3. CASE SnapshotRelationship \/ Analyze \/ LetPass \/ SendPrompt \/ ReceiveAnswer \/ Finish
  <2>1. UNCHANGED tables /\ UNCHANGED turns
    BY <1>3 DEF SnapshotRelationship, Analyze, LetPass, Weighed, SendPrompt, ReceiveAnswer,
                Finish, tables
  <2> QED BY <1>b, <1>c, <2>1 DEF tables
<1>4. CASE Remember
  <2>1. speaker \in Clones /\ message \in Messages
    BY <1>4 DEF Remember, Weighed, CallOK, Asked, Told
  <2>2. FeltRow(message, emotion, narrative.tense, LoadedBig5) \in Memories
    BY <2>1, FeltRowIsMemory DEF TurnOK, NarrativeOK
  <2>3. RowsOK' /\ TablesGrow
    BY <1>a, <1>4, <2>1, <2>2, InsertGrows DEF Remember, TablesGrow
  <2> QED BY <1>4, <1>c, <2>3 DEF Remember, Weighed
<1>5. CASE SeedMemory
  <2>1. PICK clone \in Clones, s \in Scenes :
          Insert(clone, s.content, SeededRow(s.importance, s.weight, s.category, s.signal))
    BY <1>5 DEF SeedMemory
  <2>2. SeededRow(s.importance, s.weight, s.category, s.signal) \in Memories
    BY SeededRowIsMemory
  <2>3. RowsOK' /\ TablesGrow
    BY <1>a, <2>1, <2>2, InsertGrows DEF TablesGrow
  <2>4. BondsOK'
    BY <1>5, <1>d DEF SeedMemory, BondsOK
  <2> QED BY <2>3, <2>4
<1>6. CASE CreateRelation
  <2>1. PICK clone \in Clones, bond \in Characters :
          characters' = characters \cup {[clone |-> clone, bond |-> bond]}
    BY <1>6 DEF CreateRelation
  <2>2. IsFiniteSet(characters')
    BY <2>1, FS_AddElement DEF BondsOK
  <2>3. BondsOK'
    BY <1>6, <2>1, <2>2 DEF CreateRelation, BondsOK
  <2> QED BY <1>6, <1>b, <2>3 DEF CreateRelation
<1>7. CASE UNCHANGED vars
  BY <1>7, <1>b, <1>c DEF vars, retrievalVars, tables
<1> QED BY <1>1, <1>2, <1>3, <1>4, <1>5, <1>6, <1>7 DEF Next, DirectorStep

-----------------------------------------------------------------------------
(* The narrative: what it is made of, and how it reads.                    *)

(* A finite set has a greatest element.                                    *)
LEMMA GreatestExists ==
    ASSUME NEW S, IsFiniteSet(S), S # {}, NEW key \in [S -> Int]
    PROVE  \E x \in S : \A y \in S : key[y] <= key[x]
<1> DEFINE T == {key[x] : x \in S}
           id == [t \in T |-> t]
           place(t) == Cardinality(UpTo(T, id, t))
<1>1. IsFiniteSet(T) /\ T # {} /\ T \subseteq Int
  BY ImageIsSmaller
<1>2. Cardinality(T) \in Nat /\ Cardinality(T) # 0
  <2> HIDE DEF T
  <2> QED BY <1>1, FS_CardinalityType, FS_EmptySet
<1>3. id \in [T -> Int] /\ IsInjective(id) /\ \A t \in T : id[t] = t
  BY <1>1 DEF IsInjective
<1>4. /\ \A t \in T : place(t) \in 1..Cardinality(T)
      /\ \A t, u \in T : t < u => place(t) < place(u)
      /\ \A n \in 1..Cardinality(T) : \E t \in T : place(t) = n
  <2> HIDE DEF T, id
  <2> QED BY <1>1, <1>3, PlacesTell
<1> HIDE DEF place, id
<1>5. PICK t \in T : \A u \in T : u <= t
  <2> HIDE DEF T
  <2>1. PICK t \in T : place(t) = Cardinality(T)
    BY <1>2, <1>4
  <2>2. \A u \in T : place(u) \in 1..Cardinality(T) /\ ~(t < u) /\ u \in Int /\ t \in Int
    BY <1>1, <1>2, <1>4, <2>1
  <2>3. \A u \in T : u <= t
    BY <2>2
  <2> QED BY <2>3
<1> QED BY <1>5

(* What a stored intensity reads as is a number.                           *)
LEMMA NormalizedIs ==
    ASSUME NEW row \in Memories
    PROVE  NormalizeIntensity(row.intensity) \in Int
BY DEF Memories, NormalizeIntensity, Clamp

(* The dominant memory is one of the strongest.                            *)
LEMMA DominantIsStrongest ==
    ASSUME RowsOK, NEW recalled, recalled \subseteq memories, recalled # {}
    PROVE  /\ Dominant(recalled) \in recalled
           /\ Dominant(recalled).row \in Strongest({m.row : m \in recalled})
<1> DEFINE rows == {m.row : m \in recalled}
           strength == [m \in recalled |-> NormalizeIntensity(m.row.intensity)]
           strongest == {m \in recalled : m.row \in Strongest(rows)}
           at == [m \in strongest |-> m.at]
<1>1. IsFiniteSet(recalled)
  BY FS_Subset DEF RowsOK
<1>2. strength \in [recalled -> Int]
  BY NormalizedIs DEF RowsOK
<1>3. PICK m \in recalled : \A n \in recalled : strength[n] <= strength[m]
  <2> HIDE DEF strength
  <2> QED BY <1>1, <1>2, GreatestExists
<1>4. m.row \in Strongest(rows)
  BY <1>3 DEF Strongest
<1>5. IsFiniteSet(strongest) /\ strongest # {}
  <2>1. strongest \in SUBSET recalled /\ m \in strongest
    BY <1>4
  <2> HIDE DEF strongest
  <2> QED BY <1>1, <2>1, FS_Subset
<1>6. at \in [strongest -> Int]
  <2>1. \A n \in memories : n.at \in Int
    BY FS_CardinalityType DEF RowsOK
  <2> QED BY <2>1
<1>7. PICK top \in strongest : \A n \in strongest : at[n] <= at[top]
  <2> HIDE DEF strongest, at
  <2> QED BY <1>5, <1>6, GreatestExists
<1>8. \A n \in recalled : n.row \in Strongest(rows) => n.at <= top.at
  BY <1>7
<1> QED BY <1>7, <1>8 DEF Dominant

LEMMA BondsAreTenseOrNot ==
    ASSUME NEW bonds, bonds \subseteq Characters
    PROVE  (\E c \in bonds : IsTenseBond(c)) \in BOOLEAN
OBVIOUS

(* A narrative reads as HighTension says, of one of its strongest rows.    *)
LEMMA NarrativeReads ==
    ASSUME RowsOK, NEW recalled, recalled \subseteq memories, NEW bonds, bonds \subseteq Characters
    PROVE  LET n == NarrativeOf(recalled, bonds)
           IN  /\ n.recalled = recalled /\ n.built = TRUE
               /\ {n.residue, n.tenseBond, n.tense} \subseteq BOOLEAN
               /\ n.residue => n.tense
               /\ \/ recalled = {} /\ n.tense = n.tenseBond
                  \/ \E top \in Strongest({m.row : m \in recalled}) :
                        n.tense = HighTension(n.tenseBond, {m.row : m \in recalled}, top)
<1> DEFINE tenseBond == \E c \in bonds : IsTenseBond(c)
           rows == {m.row : m \in recalled}
           top  == Dominant(recalled).row
           n    == NarrativeOf(recalled, bonds)
<1>1. CASE recalled = {}
  <2>1. n = [NoNarrative EXCEPT !.built = TRUE, !.tenseBond = tenseBond, !.tense = tenseBond]
    BY <1>1 DEF NarrativeOf
  <2> QED BY <1>1, <2>1 DEF NoNarrative
<1>2. CASE recalled # {}
  <2>1. n = [built |-> TRUE, recalled |-> recalled, residue |-> LeavesResidue(top),
             tenseBond |-> tenseBond, tense |-> HighTension(tenseBond, rows, top)]
    BY <1>2 DEF NarrativeOf
  <2>2. top \in Strongest(rows)
    BY <1>2, DominantIsStrongest
  <2>3. LeavesResidue(top) \in BOOLEAN /\ HighTension(tenseBond, rows, top) \in BOOLEAN
    BY DEF LeavesResidue, HighTension
  <2>4. LeavesResidue(top) => HighTension(tenseBond, rows, top)
    BY DEF HighTension
  <2> HIDE DEF n, top, rows, tenseBond
  <2>5. /\ n.recalled = recalled /\ n.built = TRUE /\ n.residue = LeavesResidue(top)
        /\ n.tenseBond = tenseBond /\ n.tense = HighTension(tenseBond, rows, top)
    BY <2>1
  <2>6. tenseBond \in BOOLEAN
    BY DEF tenseBond
  <2>7. n.tense = HighTension(n.tenseBond, rows, top)
    BY <2>5
  <2>8. n.residue => n.tense
    BY <2>4, <2>5
  <2>9. {n.residue, n.tenseBond, n.tense} \subseteq BOOLEAN
    BY <2>3, <2>5, <2>6
  <2> QED BY <2>2, <2>5, <2>7, <2>8, <2>9 DEF n, rows
<1> QED BY <1>1, <1>2

(* The working memory keeps to its limit.                                  *)
LEMMA WorkingMemoryFits ==
    ASSUME RowsOK, NEW clone
    PROVE  /\ WorkingMemories(clone) \subseteq MemoriesOf(clone)
           /\ \A m \in WorkingMemories(clone) : IsHighImpact(m.row)
           /\ IsFiniteSet(WorkingMemories(clone))
           /\ Cardinality(WorkingMemories(clone)) \in 0..WorkingMemoryLimit
<1> DEFINE strong == {m \in MemoriesOf(clone) : IsHighImpact(m.row)}
           key    == [m \in strong |-> -m.at]
           few    == WorkingMemories(clone)
<1>1. few = {m \in strong : Cardinality({n \in strong : n.at > m.at}) < WorkingMemoryLimit}
  BY DEF WorkingMemories
<1>2. strong \subseteq memories /\ \A m \in memories : m.at \in Int
  BY FS_CardinalityType DEF MemoriesOf, RowsOK
<1>3. IsFiniteSet(strong)
  <2> HIDE DEF strong
  <2> QED BY <1>2, FS_Subset DEF RowsOK
<1>4. key \in [strong -> Int] /\ IsInjective(key)
  BY <1>2 DEF IsInjective, RowsOK
<1>5. \A m, n \in strong : key[n] < key[m] <=> n.at > m.at
  BY <1>2
<1>6. WorkingMemoryLimit \in Nat
  BY LimitsAssumption
<1>7. few \subseteq MemoriesOf(clone) /\ \A m \in few : IsHighImpact(m.row)
  BY <1>1
<1> HIDE DEF strong, key, few
<1>8. few = {m \in strong : Cardinality(Before(strong, key, m)) < WorkingMemoryLimit}
  <2>1. \A m \in strong : Before(strong, key, m) = {n \in strong : n.at > m.at}
    BY <1>5 DEF Before
  <2> QED BY <1>1, <2>1
<1>9. IsFiniteSet(few) /\ Cardinality(few) <= WorkingMemoryLimit
  BY <1>3, <1>4, <1>6, <1>8, FewAreFew
<1> QED BY <1>6, <1>7, <1>9, FS_CardinalityType DEF few

(* ... and the narrative to its own.                                       *)
LEMMA MergedFits ==
    ASSUME RowsOK, NEW clone, NEW others \in Seq(memories), Len(others) <= SearchLimit,
           \A i \in 1..Len(others) : others[i].clone = clone
    PROVE  \E picked \in SUBSET MemoriesOf(clone) :
              /\ Merged(WorkingMemories(clone), others) = WorkingMemories(clone) \cup picked
              /\ IsFiniteSet(picked) /\ Cardinality(picked) <= SearchLimit
              /\ Cardinality(WorkingMemories(clone)) + Cardinality(picked) <= ContextLimit
<1> DEFINE working == WorkingMemories(clone)
           new  == {i \in DOMAIN others : others[i] \notin working}
           room == ContextLimit - Cardinality(working)
           at   == [i \in new |-> i]
           few  == {j \in new : Cardinality({k \in new : k < j}) < room}
           pick == [i \in few |-> others[i]]
           picked == {pick[i] : i \in few}
<1>1. room \in Nat /\ Cardinality(working) \in Nat /\ SearchLimit \in Nat /\ ContextLimit \in Nat
  BY WorkingMemoryFits, LimitsAssumption
<1>2. Merged(working, others) = working \cup picked
  <2>1. picked = {others[i] : i \in few}
    OBVIOUS
  <2>2. Merged(working, others) = working \cup {others[i] : i \in few}
    BY DEF Merged
  <2> QED BY <2>1, <2>2
<1>3. new \in SUBSET (1..Len(others)) /\ few \subseteq new
  OBVIOUS
<1>4. IsFiniteSet(1..Len(others)) /\ Cardinality(1..Len(others)) = Len(others)
  BY FS_Interval
<1>5. IsFiniteSet(new) /\ at \in [new -> Int] /\ IsInjective(at)
  <2>1. IsFiniteSet(new)
    <3> HIDE DEF new
    <3> QED BY <1>3, <1>4, FS_Subset
  <2> QED BY <2>1, <1>3 DEF IsInjective
<1>6. \A j \in new : Before(new, at, j) = {k \in new : k < j}
  BY DEF Before
<1>7. IsFiniteSet(few) /\ Cardinality(few) <= room /\ Cardinality(few) \in Nat
  <2> HIDE DEF new, at, room
  <2>1. few = {j \in new : Cardinality(Before(new, at, j)) < room}
    BY <1>6
  <2> HIDE DEF few
  <2>2. IsFiniteSet(few) /\ Cardinality(few) <= room
    BY <1>1, <1>5, <2>1, FewAreFew
  <2> QED BY <2>2, FS_CardinalityType
<1>8. Cardinality(few) <= Len(others)
  <2> HIDE DEF few, new
  <2>1. few \in SUBSET (1..Len(others))
    BY <1>3
  <2> QED BY <1>4, <2>1, FS_Subset
<1>9. picked \subseteq MemoriesOf(clone)
  <2>1. \A i \in few : others[i] \in memories /\ others[i].clone = clone
    <3> HIDE DEF few, new
    <3> QED BY <1>3
  <2> HIDE DEF few
  <2> QED BY <2>1 DEF MemoriesOf
<1> HIDE DEF few, working
<1>10. IsFiniteSet(picked) /\ Cardinality(picked) <= Cardinality(few) /\ Cardinality(picked) \in Nat
  <2>1. DOMAIN pick = few
    OBVIOUS
  <2> HIDE DEF pick
  <2>2. IsFiniteSet(picked) /\ Cardinality(picked) <= Cardinality(few)
    BY <1>7, <2>1, ImageIsSmaller
  <2> HIDE DEF picked
  <2> QED BY <2>2, FS_CardinalityType
<1>11. Cardinality(picked) <= SearchLimit /\ Cardinality(working) + Cardinality(picked) <= ContextLimit
  <2>1. Len(others) \in Nat
    OBVIOUS
  <2> HIDE DEF picked
  <2> QED BY <1>1, <1>7, <1>8, <1>10, <2>1
<1> HIDE DEF picked
<1> QED BY <1>2, <1>9, <1>10, <1>11 DEF working

-----------------------------------------------------------------------------
(* The search and the loop over what it found.                             *)

(* The factor that weighs emotion has no whole part, for any message: a    *)
(* memory ranks by its similarity and its age.                             *)
LEMMA ScoreIs ==
    ASSUME NEW row \in Memories, NEW similarity \in Int, NEW days \in Int, NEW msg
    PROVE  /\ Score(row, similarity, days, msg) \in Int
           /\ Score(row, similarity, days, msg) = 20 * similarity - 20 * days
<1> DEFINE strength == ScoreUnit * row.intensity * row.weight
<1>1. AsInteger(WeightFactor(msg)) = 0
  BY DEF AsInteger, WeightFactor, ScoreUnit
<1>2. strength \in Int
  <2>1. row.intensity \in Int /\ row.weight \in Int
    BY DEF Memories
  <2> QED BY <2>1 DEF ScoreUnit
<1>3. Score(row, similarity, days, msg) = 20 * similarity - 20 * days + strength * 0
  BY <1>1 DEF Score
<1> HIDE DEF strength
<1> QED BY <1>2, <1>3

(* A search finds rows of the clone, each once, best score first.          *)
LEMMA SearchFinds ==
    ASSUME IInv, Search
    PROVE  /\ ranked' \in Seq(Candidates') /\ Len(ranked') <= SearchLimit
           /\ \A i \in 1..Len(ranked') : ranked'[i].memory.clone = speaker'
           /\ RankedByScore'
<1> USE DEF IInv
<1> DEFINE rows == MemoriesOf(speaker)
<1>1. PICK similarity \in [{m.content : m \in rows} -> Similarities], age \in Ages(rows) :
        ranked' \in Rankings(
          {[memory     |-> m,
            similarity |-> similarity[m.content],
            score      |-> Score(m.row, similarity[m.content], age[m], message)]
             : m \in rows})
  BY DEF Search
<1>2. UNCHANGED <<memories, message, speaker>>
  BY DEF Search, tables
<1> DEFINE cand == [m \in rows |->
                     [memory     |-> m,
                      similarity |-> similarity[m.content],
                      score      |-> Score(m.row, similarity[m.content], age[m], message)]]
           scored == {cand[m] : m \in rows}
<1>3. ranked' \in Rankings(scored)
  BY <1>1
<1>4. IsFiniteSet(scored) /\ Cardinality(scored) \in Nat
  <2>1. IsFiniteSet(rows)
    BY FS_Subset DEF MemoriesOf, RowsOK
  <2>2. DOMAIN cand = rows
    OBVIOUS
  <2>3. IsFiniteSet(scored)
    <3> HIDE DEF cand
    <3> QED BY <2>1, <2>2, ImageIsSmaller
  <2> HIDE DEF scored
  <2> QED BY <2>3, FS_CardinalityType
<1>5. \A m \in rows : /\ m \in memories /\ m.clone = speaker /\ m.row \in Memories
                      /\ similarity[m.content] \in Similarities
                      /\ similarity[m.content] \in Int /\ age[m] \in Int
  BY SearchAssumption DEF MemoriesOf, RowsOK, Ages
<1>6. \A m \in rows : /\ cand[m].memory = m
                      /\ cand[m].similarity = similarity[m.content]
                      /\ cand[m].score = Score(m.row, similarity[m.content], age[m], message)
  OBVIOUS
<1>7. \A m \in rows : cand[m] \in Candidates
  <2>1. \A m \in rows : Score(m.row, similarity[m.content], age[m], message) \in Int
    BY <1>5, ScoreIs
  <2> QED BY <1>5, <2>1 DEF Candidates
<1>8. \A m, n \in rows : m.at < n.at => age[n] <= age[m]
  BY DEF Ages
<1> DEFINE n == IF Cardinality(scored) < SearchLimit THEN Cardinality(scored) ELSE SearchLimit
<1>9. n \in Nat /\ n <= SearchLimit
  BY <1>4, LimitsAssumption
<1>10. /\ ranked' \in [1..n -> scored] /\ IsInjective(ranked')
       /\ \A i \in 1..n, c \in scored :
             (\A j \in 1..i : ranked'[j] # c) => c.score <= ranked'[i].score
  BY <1>3 DEF Rankings
<1> HIDE DEF n, cand
<1>11. ranked' \in Seq(scored) /\ Len(ranked') = n
  BY <1>9, <1>10
<1>12. \A i \in 1..n : \E m \in rows : ranked'[i] = cand[m]
  BY <1>10
<1>13. scored \subseteq Candidates'
  <2>1. Candidates' = Candidates
    BY <1>2 DEF Candidates
  <2> QED BY <1>7, <2>1
<1>14. ranked' \in Seq(Candidates')
  BY <1>11, <1>13
<1>15. \A i \in 1..n : ranked'[i].memory.clone = speaker'
  BY <1>2, <1>5, <1>6, <1>12
<1>16. ASSUME NEW i \in 1..n, NEW j \in 1..n
       PROVE  /\ ranked'[i].memory = ranked'[j].memory => i = j
              /\ i < j => ranked'[j].score <= ranked'[i].score
              /\ BetterClaim(ranked'[i], ranked'[j]) =>
                    ranked'[j].score <= ranked'[i].score
  <2>1. PICK m \in rows : ranked'[i] = cand[m]
    BY <1>12
  <2>2. PICK k \in rows : ranked'[j] = cand[k]
    BY <1>12
  <2>3. ranked'[i].memory = ranked'[j].memory => i = j
    BY <1>6, <1>10, <2>1, <2>2 DEF IsInjective
  <2>4. i < j => ranked'[j].score <= ranked'[i].score
    <3> SUFFICES ASSUME i < j PROVE ranked'[j].score <= ranked'[i].score
      OBVIOUS
    <3>1. \A h \in 1..i : ranked'[h] # ranked'[j]
      BY <1>9, <1>10 DEF IsInjective
    <3>2. ranked'[j] \in scored
      BY <2>2
    <3> QED BY <1>10, <3>1, <3>2
  <2>5. ASSUME BetterClaim(ranked'[i], ranked'[j])
        PROVE  ranked'[j].score <= ranked'[i].score
    <3>1. similarity[m.content] >= similarity[k.content] /\ m.at > k.at
      BY <1>6, <2>1, <2>2, <2>5 DEF BetterClaim
    <3>2. m.at \in Int /\ k.at \in Int
      BY <1>5, FS_CardinalityType DEF RowsOK
    <3>3. age[m] <= age[k]
      BY <1>8, <3>1, <3>2
    <3>4. /\ ranked'[i].score = 20 * similarity[m.content] - 20 * age[m]
          /\ ranked'[j].score = 20 * similarity[k.content] - 20 * age[k]
      BY <1>5, <1>6, <2>1, <2>2, ScoreIs
    <3> QED BY <1>5, <3>1, <3>3, <3>4
  <2> QED BY <2>3, <2>4, <2>5
<1>17. RankedByScore'
  BY <1>2, <1>11, <1>16 DEF RankedByScore, BetterClaim
<1> QED BY <1>9, <1>11, <1>14, <1>15, <1>17

LoopStep == Keep \/ Drop \/ JudgeMemory \/ JudgeFails

NoSearchLeft == ranked' = <<>> /\ next' = 1 /\ verdicts' = <<>> /\ found' = <<>>

(* What a step may do to the search.                                       *)
LEMMA SearchGoes ==
    ASSUME IInv, [Next]_vars
    PROVE  \/ Search
           \/ LoopStep
           \/ NoSearchLeft
           \/ UNCHANGED <<searchVars, message, speaker, stage>>
<1> USE DEF IInv, NoSearchLeft, searchVars
<1>1. ASSUME stage # "ranked", UNCHANGED searchVars PROVE NoSearchLeft
  BY <1>1 DEF SearchOK
<1>2. CASE Receive
  BY <1>1, <1>2 DEF Receive
<1>3. CASE RetrievalStep
  <2>1. CASE ListCharacters
    BY <1>1, <2>1 DEF ListCharacters
  <2>2. CASE SkipNarrativeContext \/ EvokeNothing \/ BuildNarrativeContext
    BY <2>2 DEF SkipNarrativeContext, EvokeNothing, BuildNarrativeContext, NoSearch
  <2> QED BY <1>3, <2>1, <2>2 DEF RetrievalStep, LoopStep
<1>4. CASE SnapshotRelationship \/ Analyze \/ Remember \/ LetPass \/ SendPrompt \/ ReceiveAnswer
  <2>1. stage # "ranked" /\ UNCHANGED searchVars
    BY <1>4 DEF SnapshotRelationship, Analyze, Remember, LetPass, Weighed, SendPrompt, ReceiveAnswer
  <2> QED BY <1>1, <2>1
<1>5. CASE Finish
  BY <1>5 DEF Finish, EndTurn, NoSearch
<1>6. CASE DirectorStep \/ UNCHANGED vars
  BY <1>6 DEF DirectorStep, SeedMemory, CreateRelation, vars, retrievalVars
<1> QED BY <1>2, <1>3, <1>4, <1>5, <1>6 DEF Next

(* A step of the loop takes the candidate it is at.                        *)
LEMMA LoopGoes ==
    ASSUME IInv, LoopStep
    PROVE  /\ stage = "ranked" /\ next \in 1..Len(ranked) /\ next' = next + 1
           /\ UNCHANGED <<tables, stage, message, speaker, ranked>>
           /\ Candidate \in Candidates /\ Candidate.memory.clone = speaker
           /\ \/ found' = found
              \/ found' = Append(found, Candidate.memory)
           /\ \/ verdicts' = verdicts
              \/ /\ AsksJudge(Candidate)
                 /\ \E use \in BOOLEAN :
                      verdicts' = [text \in DOMAIN verdicts \cup {Candidate.memory.content} |->
                                     IF text \in DOMAIN verdicts THEN verdicts[text] ELSE use]
<1> USE DEF IInv, LoopStep, Keep, Drop, JudgeMemory, JudgeFails
<1>1. AtCandidate /\ Step
  OBVIOUS
<1>2. stage = "ranked" /\ next \in 1..Len(ranked)
  BY <1>1 DEF AtCandidate, SearchOK
<1>3. next' = next + 1 /\ UNCHANGED <<tables, stage, message, speaker, ranked>>
  BY <1>1 DEF Step
<1>4. Candidate \in Candidates /\ Candidate.memory.clone = speaker
  BY <1>2 DEF Candidate, SearchOK
<1>5. found' = found \/ found' = Append(found, Candidate.memory)
  OBVIOUS
<1>6. \/ verdicts' = verdicts
      \/ /\ AsksJudge(Candidate)
         /\ \E use \in BOOLEAN :
              verdicts' = [text \in DOMAIN verdicts \cup {Candidate.memory.content} |->
                             IF text \in DOMAIN verdicts THEN verdicts[text] ELSE use]
  OBVIOUS
<1> QED BY <1>2, <1>3, <1>4, <1>5, <1>6

(* The judge is asked no more often than its budget allows.                *)
LEMMA VerdictsFit ==
    ASSUME IInv, LoopStep
    PROVE  /\ IsFiniteSet(DOMAIN verdicts') /\ Cardinality(DOMAIN verdicts') <= MaxJudge
           /\ \A text \in DOMAIN verdicts' : verdicts'[text] \in BOOLEAN
<1> USE DEF IInv
<1> DEFINE text == Candidate.memory.content
           judged == DOMAIN verdicts
<1>1. CASE verdicts' = verdicts
  BY <1>1 DEF SearchOK
<1>2. ASSUME AsksJudge(Candidate), NEW use \in BOOLEAN,
             verdicts' = [t \in judged \cup {text} |-> IF t \in judged THEN verdicts[t] ELSE use]
      PROVE  /\ IsFiniteSet(DOMAIN verdicts') /\ Cardinality(DOMAIN verdicts') <= MaxJudge
             /\ \A t \in DOMAIN verdicts' : verdicts'[t] \in BOOLEAN
  <2>1. DOMAIN verdicts' = judged \cup {text} /\ text \notin judged
    BY <1>2 DEF AsksJudge, Judged
  <2>2. Cardinality(judged) < MaxJudge
    <3>1. IsFiniteSet(judged) /\ Cardinality(judged) \in Nat /\ MaxJudge \in Nat
      BY FS_CardinalityType, LimitsAssumption DEF SearchOK
    <3>2. MaxJudge - Cardinality(judged) > 0
      BY <1>2 DEF AsksJudge, Budget
    <3> QED BY <3>1, <3>2
  <2>3. IsFiniteSet(judged) /\ \A t \in judged : verdicts[t] \in BOOLEAN
    BY DEF SearchOK
  <2>4. IsFiniteSet(judged \cup {text}) /\ Cardinality(judged \cup {text}) = Cardinality(judged) + 1
    <3> HIDE DEF judged, text
    <3> QED BY <2>1, <2>3, FS_AddElement
  <2>5. Cardinality(judged) \in Nat /\ MaxJudge \in Nat
    BY <2>3, FS_CardinalityType, LimitsAssumption
  <2>6. \A t \in DOMAIN verdicts' : verdicts'[t] \in BOOLEAN
    BY <1>2, <2>1, <2>3
  <2> HIDE DEF judged, text
  <2>7. Cardinality(judged \cup {text}) <= MaxJudge
    BY <2>2, <2>4, <2>5
  <2> QED BY <2>1, <2>4, <2>6, <2>7
<1> QED BY <1>1, <1>2, LoopGoes

(* Where no search is under way there is nothing left of one.              *)
LEMMA EmptySearchOK ==
    ASSUME NoSearchLeft
    PROVE  SearchOK'
<1>1. DOMAIN verdicts' = {}
  BY DEF NoSearchLeft
<1>2. IsFiniteSet(DOMAIN verdicts') /\ Cardinality(DOMAIN verdicts') = 0
  BY <1>1, FS_EmptySet
<1>3. 0 <= MaxJudge /\ 0 <= SearchLimit
  BY LimitsAssumption
<1> QED BY <1>1, <1>2, <1>3 DEF SearchOK, NoSearchLeft

(* Every step keeps the search within its limits.                          *)
LEMMA SearchStands == IInv /\ [Next]_vars => SearchOK'
<1> SUFFICES ASSUME IInv, [Next]_vars PROVE SearchOK'
  OBVIOUS
<1>1. TablesGrow
  BY TablesStand
<1>2. Candidates \subseteq Candidates' /\ memories \subseteq memories'
  BY <1>1 DEF TablesGrow, Candidates
<1>3. SearchOK
  BY DEF IInv
<1>4. CASE Search
  <2>1. /\ ranked' \in Seq(Candidates') /\ Len(ranked') <= SearchLimit
        /\ \A i \in 1..Len(ranked') : ranked'[i].memory.clone = speaker'
    BY <1>4, SearchFinds
  <2>2. /\ next = 1 /\ verdicts = <<>> /\ found = <<>> /\ stage' = "ranked"
        /\ UNCHANGED <<next, verdicts, found>>
    BY <1>3, <1>4 DEF Search, SearchOK
  <2>3. DOMAIN verdicts' = {}
    BY <2>2
  <2>4. IsFiniteSet(DOMAIN verdicts') /\ Cardinality(DOMAIN verdicts') <= MaxJudge
    BY <2>3, FS_EmptySet, LimitsAssumption
  <2> QED BY <2>1, <2>2, <2>3, <2>4 DEF SearchOK
<1>5. CASE LoopStep
  <2>1. /\ stage' = "ranked" /\ next \in 1..Len(ranked) /\ next' = next + 1
        /\ UNCHANGED <<speaker, ranked>>
        /\ Candidate.memory \in memories /\ Candidate.memory.clone = speaker
        /\ found' = found \/ found' = Append(found, Candidate.memory)
    BY <1>5, LoopGoes DEF Candidates
  <2>2. ranked' \in Seq(Candidates') /\ Len(ranked') <= SearchLimit
    <3>1. ranked \in Seq(Candidates) /\ Len(ranked) <= SearchLimit
      BY <1>3 DEF SearchOK
    <3> QED BY <1>2, <2>1, <3>1
  <2>3. next' \in 1..(Len(ranked') + 1)
    <3>1. Len(ranked) \in Nat
      BY <1>3 DEF SearchOK
    <3> QED BY <2>1, <3>1
  <2>4. found' \in Seq(memories') /\ Len(found') <= Len(found) + 1
    <3>1. found \in Seq(memories)
      BY <1>3 DEF SearchOK
    <3> QED BY <1>2, <2>1, <3>1
  <2>5. Len(found') < next'
    BY <1>3, <2>1, <2>4 DEF SearchOK
  <2>6. \A i \in 1..Len(found') : found'[i].clone = speaker'
    <3>1. found \in Seq(memories) /\ \A i \in 1..Len(found) : found[i].clone = speaker
      BY <1>3 DEF SearchOK
    <3> DEFINE kept == Candidate.memory
    <3>2. kept.clone = speaker /\ (found' = found \/ found' = Append(found, kept))
      BY <2>1
    <3> HIDE DEF kept
    <3> QED BY <2>1, <3>1, <3>2
  <2> QED BY <1>3, <1>5, <2>1, <2>2, <2>3, <2>5, <2>4, <2>6, VerdictsFit DEF SearchOK
<1>6. CASE UNCHANGED <<searchVars, message, speaker, stage>>
  <2>1. ranked' \in Seq(Candidates') /\ found' \in Seq(memories')
    BY <1>2, <1>3, <1>6 DEF SearchOK, searchVars
  <2> QED BY <1>3, <1>6, <2>1 DEF SearchOK, searchVars
<1> QED BY <1>4, <1>5, <1>6, SearchGoes, EmptySearchOK

-----------------------------------------------------------------------------
(* The call.                                                               *)

(* The bonds of a turn are rows of the table.                              *)
LEMMA ActiveAreCharacters ==
    ASSUME BondsOK, NEW clone, NEW msg
    PROVE  ActiveCharacters(CharactersOf(clone), msg) \subseteq Characters
BY DEF BondsOK, CharactersOf, ActiveCharacters

(* Every step leaves a call with what its stage needs.                     *)
LEMMA CallStands == IInv /\ [Next]_vars => CallOK'
<1> SUFFICES ASSUME IInv, [Next]_vars PROVE CallOK'
  OBVIOUS
<1> USE DEF IInv
<1>1. TablesGrow
  BY TablesStand
<1>2. known \in 0..Cardinality(memories') /\ 0 \in 0..Cardinality(memories')
  BY <1>1 DEF TablesGrow, CallOK
<1> USE DEF CallOK, Told, Asked
<1>3. CASE Receive
  BY <1>1, <1>3 DEF Receive, TablesGrow
<1>4. CASE RetrievalStep
  <2>1. CASE ListCharacters
    BY <1>2, <2>1, ActiveAreCharacters DEF ListCharacters
  <2>2. CASE SkipNarrativeContext
    BY <1>2, <2>2 DEF SkipNarrativeContext
  <2>3. CASE EvokeNothing
    BY <1>2, <2>3 DEF EvokeNothing
  <2>4. CASE Search
    BY <1>2, <2>4 DEF Search
  <2>5. CASE Keep \/ Drop \/ JudgeMemory \/ JudgeFails
    <3>1. UNCHANGED <<tables, turns, stage, message, speaker, known, active>>
      BY <2>5 DEF Keep, Drop, JudgeMemory, JudgeFails, Step
    <3> QED BY <1>2, <3>1
  <2>6. CASE BuildNarrativeContext
    BY <1>2, <2>6 DEF BuildNarrativeContext
  <2> QED BY <1>4, <2>1, <2>2, <2>3, <2>4, <2>5, <2>6 DEF RetrievalStep
<1>5. CASE SnapshotRelationship \/ Analyze \/ Remember \/ LetPass \/ SendPrompt
  BY <1>2, <1>5 DEF SnapshotRelationship, Analyze, Remember, LetPass, Weighed, SendPrompt
<1>6. CASE ReceiveAnswer
  BY <1>2, <1>6 DEF ReceiveAnswer
<1>7. CASE Finish
  BY <1>2, <1>7 DEF Finish, EndTurn
<1>8. CASE DirectorStep \/ UNCHANGED vars
  BY <1>2, <1>8 DEF DirectorStep, SeedMemory, CreateRelation, vars, retrievalVars
<1> QED BY <1>3, <1>4, <1>5, <1>6, <1>7, <1>8 DEF Next

(* No narrative is a narrative within the limits ...                       *)
LEMMA NoNarrativeOK ==
    ASSUME narrative' = NoNarrative
    PROVE  NarrativeOK'
<1>1. Cardinality({}) <= ContextLimit
  BY FS_EmptySet, LimitsAssumption
<1> QED BY <1>1 DEF NarrativeOK, NoNarrative

(* ...  and one that is built from the two parts is, too.                  *)
LEMMA NarrativeBuilt ==
    ASSUME IInv, BuildNarrativeContext
    PROVE  NarrativeOK'
<1> USE DEF IInv
<1> DEFINE recalled == Merged(WorkingMemories(speaker), found)
<1>1. narrative' = NarrativeOf(recalled, active) /\ UNCHANGED <<memories, speaker>>
  BY DEF BuildNarrativeContext, tables
<1>2. PICK picked \in SUBSET MemoriesOf(speaker) :
              /\ recalled = WorkingMemories(speaker) \cup picked
              /\ IsFiniteSet(picked) /\ Cardinality(picked) <= SearchLimit
              /\ Cardinality(WorkingMemories(speaker)) + Cardinality(picked) <= ContextLimit
  <2>1. /\ found \in Seq(memories) /\ Len(found) <= SearchLimit
        /\ \A i \in 1..Len(found) : found[i].clone = speaker
    BY LimitsAssumption DEF SearchOK
  <2> QED BY <2>1, MergedFits
<1>3. recalled \subseteq MemoriesOf(speaker) /\ recalled \subseteq memories
  BY <1>2, WorkingMemoryFits DEF MemoriesOf
<1>4. Cardinality(recalled) <= ContextLimit
  <2> DEFINE working == WorkingMemories(speaker)
  <2>1. IsFiniteSet(working) /\ Cardinality(working) \in Nat /\ Cardinality(picked) \in Nat
    BY <1>2, WorkingMemoryFits, FS_CardinalityType
  <2>2. IsFiniteSet(working \cap picked) /\ Cardinality(working \cap picked) \in Nat
    BY <2>1, FS_Intersection, FS_CardinalityType
  <2>3. Cardinality(recalled) = Cardinality(working) + Cardinality(picked)
                                  - Cardinality(working \cap picked)
    BY <1>2, <2>1, FS_Union
  <2> QED BY <1>2, <2>1, <2>2, <2>3, LimitsAssumption
<1> HIDE DEF recalled
<1>5. /\ narrative'.recalled = recalled /\ narrative'.built = TRUE
      /\ {narrative'.residue, narrative'.tenseBond, narrative'.tense} \subseteq BOOLEAN
      /\ narrative'.residue => narrative'.tense
  BY <1>1, <1>3, NarrativeReads DEF CallOK
<1>6. stage' \in Told
  BY DEF BuildNarrativeContext, Told
<1> QED BY <1>1, <1>3, <1>4, <1>5, <1>6 DEF NarrativeOK, MemoriesOf

(* Every step keeps the narrative of the clone that answers.               *)
LEMMA NarrativeStands == IInv /\ [Next]_vars => NarrativeOK'
<1> SUFFICES ASSUME IInv, [Next]_vars PROVE NarrativeOK'
  OBVIOUS
<1>1. memories \subseteq memories'
  BY TablesStand DEF TablesGrow
<1>2. NarrativeOK
  BY DEF IInv
<1>3. ASSUME UNCHANGED <<speaker, narrative>>, stage \in Told => stage' \in Told
      PROVE  NarrativeOK'
  BY <1>1, <1>2, <1>3 DEF NarrativeOK, MemoriesOf
<1>4. CASE Receive
  <2>1. narrative' = NoNarrative
    BY <1>2, <1>4 DEF Receive, NarrativeOK, Told
  <2> QED BY <2>1, NoNarrativeOK
<1>5. CASE RetrievalStep
  <2>1. CASE ListCharacters \/ SkipNarrativeContext \/ EvokeNothing \/ Search
    BY <1>3, <2>1 DEF ListCharacters, SkipNarrativeContext, EvokeNothing, Search, Told
  <2>2. CASE Keep \/ Drop \/ JudgeMemory \/ JudgeFails
    BY <1>3, <2>2 DEF Keep, Drop, JudgeMemory, JudgeFails, Step
  <2> QED BY <1>5, <2>1, <2>2, NarrativeBuilt DEF RetrievalStep
<1>6. CASE SnapshotRelationship \/ Analyze \/ Remember \/ LetPass \/ SendPrompt
  BY <1>3, <1>6 DEF SnapshotRelationship, Analyze, Remember, LetPass, Weighed, SendPrompt, Told
<1>7. CASE ReceiveAnswer \/ Finish
  BY <1>7, NoNarrativeOK DEF ReceiveAnswer, Finish, EndTurn
<1>8. CASE DirectorStep \/ UNCHANGED vars
  BY <1>3, <1>8 DEF DirectorStep, SeedMemory, CreateRelation, vars, retrievalVars
<1> QED BY <1>4, <1>5, <1>6, <1>7, <1>8 DEF Next

(* The directives are of their kinds, and so is the goal.                  *)
LEMMA DirectivesAre ==
    ASSUME NEW told, {told.residue, told.tense} \subseteq BOOLEAN, NEW goal \in Goals,
           NEW trivial \in BOOLEAN
    PROVE  Directives(told, goal, trivial) \in [goal : Goals, conflict : BOOLEAN, filter : Filters]
BY DEF Directives, Filters

LEMMA GoalIs ==
    ASSUME NEW bond, NEW msg, NEW trivial, NEW big5
    PROVE  DetermineGoal(bond, msg, trivial, big5) \in Goals
BY DEF DetermineGoal, Goals

(* Every step keeps bond, emotion, prompt and reply of their kinds.        *)
LEMMA TurnStands == IInv /\ [Next]_vars => TurnOK'
<1> SUFFICES ASSUME IInv, [Next]_vars PROVE TurnOK'
  OBVIOUS
<1> USE DEF IInv
<1>1. ASSUME UNCHANGED turnVars, stage' = stage \/ stage' \notin {"answered"}, stage \notin {"analyzed", "weighed"} \/ stage' = stage
      PROVE  TurnOK'
  BY <1>1 DEF TurnOK, turnVars
<1>2. CASE Receive /\ UNCHANGED turnVars
  BY <1>1, <1>2 DEF Receive
<1>3. CASE RetrievalStep /\ UNCHANGED turnVars
  <2>1. CASE ListCharacters \/ SkipNarrativeContext \/ EvokeNothing \/ Search \/ BuildNarrativeContext
    BY <1>1, <1>3, <2>1 DEF ListCharacters, SkipNarrativeContext, EvokeNothing, Search,
                            BuildNarrativeContext
  <2>2. CASE Keep \/ Drop \/ JudgeMemory \/ JudgeFails
    BY <1>1, <1>3, <2>2 DEF Keep, Drop, JudgeMemory, JudgeFails, Step
  <2> QED BY <1>3, <2>1, <2>2 DEF RetrievalStep
<1>4. CASE SnapshotRelationship
  <2> DEFINE chars == ActiveCharacters(CharactersOf(speaker), message)
  <2>1. Foremost(chars) \subseteq Characters
    BY ActiveAreCharacters DEF Foremost
  <2>2. snapshot' = NoBond \/ \E c \in Foremost(chars) :
                                snapshot' = [trust |-> c.trust, intimacy |-> c.intimacy]
    BY <1>4 DEF SnapshotRelationship
  <2>3. snapshot'.trust \in Int /\ snapshot'.intimacy \in Int
    BY <2>1, <2>2, CharactersAssumption DEF NoBond
  <2> QED BY <1>4, <2>3 DEF SnapshotRelationship, TurnOK
<1>5. CASE Analyze
  <2>1. message \in Messages
    BY <1>5 DEF Analyze, CallOK, Asked, Told
  <2>2. emotion' \in Emotions
    BY <1>5, <2>1, AnalysisIs, MessagesAssumption DEF Analyze
  <2> QED BY <1>5, <2>2 DEF Analyze, TurnOK
<1>6. CASE Remember \/ LetPass
  BY <1>6 DEF Remember, LetPass, Weighed, TurnOK, turnVars
<1>7. CASE SendPrompt
  <2>1. PICK trivial \in BOOLEAN :
          prompt' = Directives(narrative, DetermineGoal(snapshot, message, trivial, LoadedBig5), trivial)
    BY <1>7 DEF SendPrompt, IsTrivial
  <2>2. prompt' \in [goal : Goals, conflict : BOOLEAN, filter : Filters]
    BY <2>1, DirectivesAre, GoalIs DEF NarrativeOK
  <2>3. DefaultEmotion \in Emotions
    BY DEF Emotions, DefaultEmotion, Categories
  <2> QED BY <1>7, <2>2, <2>3 DEF SendPrompt, TurnOK
<1>8. NoPrompt \in [goal : Goals, conflict : BOOLEAN, filter : Filters]
  BY DirectivesAre DEF NoPrompt, NoNarrative, Goals
<1>9. NoBond.trust \in Int /\ NoBond.intimacy \in Int /\ DefaultEmotion \in Emotions
  BY DEF NoBond, Emotions, DefaultEmotion, Categories
<1>10. CASE ReceiveAnswer
  <2>1. answer' \in Seq(Lines) /\ reply' = ReplyTo(answer')
    BY <1>10, AnswersAssumption DEF ReceiveAnswer
  <2>2. Range(reply') \subseteq Lines \cup Range(NoReply)
    BY <2>1, ReplyIs
  <2> QED BY <1>8, <1>9, <1>10, <2>1, <2>2 DEF ReceiveAnswer, TurnOK
<1>11. CASE Finish
  <2>1. Range(<<>>) = {}
    BY DEF Range
  <2> QED BY <1>8, <1>9, <1>11, <2>1 DEF Finish, EndTurn, TurnOK
<1>12. CASE DirectorStep /\ UNCHANGED turnVars
  BY <1>1, <1>12 DEF DirectorStep, SeedMemory, CreateRelation
<1>13. CASE UNCHANGED vars
  BY <1>1, <1>13 DEF vars, retrievalVars
<1> QED BY <1>2, <1>3, <1>4, <1>5, <1>6, <1>7, <1>10, <1>11, <1>12, <1>13 DEF Next

(* Nothing is stored and nobody speaks at first.                           *)
LEMMA InitHolds == Init => IInv
<1> SUFFICES ASSUME Init PROVE IInv
  OBVIOUS
<1> USE DEF Init, RetrievalInit
<1>1. IsFiniteSet({}) /\ Cardinality({}) = 0
  BY FS_EmptySet
<1>2. RowsOK
  BY <1>1 DEF RowsOK
<1>3. BondsOK
  BY <1>1, TurnsAssumption DEF BondsOK
<1>4. CallOK
  BY <1>1 DEF CallOK, Asked, Told
<1>5. SearchOK
  <2>1. DOMAIN verdicts = {}
    OBVIOUS
  <2> QED BY <1>1, <2>1, LimitsAssumption DEF SearchOK
<1>6. NarrativeOK
  BY <1>1, LimitsAssumption DEF NarrativeOK, NoNarrative, Told
<1>7. TurnOK
  <2>1. NoPrompt \in [goal : Goals, conflict : BOOLEAN, filter : Filters]
    BY DirectivesAre DEF NoPrompt, NoNarrative, Goals
  <2>2. NoBond.trust \in Int /\ NoBond.intimacy \in Int /\ DefaultEmotion \in Emotions
    BY DEF NoBond, Emotions, DefaultEmotion, Categories
  <2>3. Range(<<>>) = {}
    BY DEF Range
  <2> QED BY <2>1, <2>2, <2>3 DEF TurnOK
<1> QED BY <1>2, <1>3, <1>4, <1>5, <1>6, <1>7 DEF IInv

(* The inductive invariant of a turn.                                      *)
THEOREM InvariantHolds == Spec => []IInv
<1>1. IInv /\ [Next]_vars => IInv'
  BY TablesStand, CallStands, SearchStands, NarrativeStands, TurnStands DEF IInv
<1> QED BY <1>1, InitHolds, PTL DEF Spec

(* For any clones, messages, scenes, characters and answers, every row has *)
(* the columns of its table and its own place in it, a call carries what   *)
(* its stage needs, and the search, its verdicts and the narrative keep to *)
(* their limits.                                                           *)
THEOREM TurnTypesHold == Spec => []TypeOK
<1>1. IInv => TypeOK
  <2> SUFFICES ASSUME IInv PROVE TypeOK
    OBVIOUS
  <2> USE DEF IInv
  <2>1. \A m \in memories : m.clone \in Clones /\ m.row \in Memories
    BY DEF RowsOK
  <2>2. {m.at : m \in memories} = 1..Cardinality(memories)
    BY DEF RowsOK
  <2>3. /\ stage \in {"idle", "received", "bonded", "ranked", "narrated", "sighted",
                      "analyzed", "weighed", "prompted", "answered"}
        /\ message \in Messages \cup {NoMessage}
    BY DEF CallOK, Asked, Told
  <2>4. Len(found) < next /\ next <= Len(ranked) + 1 /\ Len(ranked) <= SearchLimit
    BY DEF SearchOK
  <2>5. emotion.category \in Categories
    BY DEF TurnOK, Emotions
  <2> QED BY <2>1, <2>2, <2>3, <2>4, <2>5 DEF TypeOK, BondsOK, SearchOK, NarrativeOK, TurnOK
<1> QED BY <1>1, InvariantHolds, PTL

-----------------------------------------------------------------------------
(* The properties.                                                         *)

(* How far the parser keeps its rule, which MonologueIsNeverReturned       *)
(* states and which it breaks.                                             *)
MonologueOnlyOfBrokenAnswers ==
    stage = "answered" =>
        /\ "public" \in Range(answer) => reply = <<"public">>
        /\ "monologue" \notin Range(reply)
        /\ "thought" \in Range(reply) => ~IsObject(Unfenced(answer))

(* Whatever the LLM sends, ParseLLMResponseSafe returns the public text if *)
(* it is whole, never a line that names the monologue, and further lines   *)
(* of the monologue only of an answer that is no whole object.             *)
THEOREM OnlyBrokenAnswersTell == Spec => []MonologueOnlyOfBrokenAnswers
<1>1. IInv => MonologueOnlyOfBrokenAnswers
  BY ReplyIs DEF IInv, TurnOK, MonologueOnlyOfBrokenAnswers
<1> QED BY <1>1, InvariantHolds, PTL

(* A prompt is made of the turn, which stays as it is until the answer.    *)
LEMMA PromptStands == IInv /\ PromptIsOfTurn /\ [Next]_vars => PromptIsOfTurn'
<1> SUFFICES ASSUME IInv, PromptIsOfTurn, [Next]_vars, stage' = "prompted"
             PROVE  PromptIsOfTurn'
  BY DEF PromptIsOfTurn
<1>1. ASSUME UNCHANGED <<stage, message, narrative, turnVars>> PROVE PromptIsOfTurn'
  BY <1>1 DEF PromptIsOfTurn, turnVars
<1>2. CASE SendPrompt
  <2> DEFINE trivial == IsTrivial(emotion, narrative.tense, LoadedBig5)
  <2>1. trivial \in BOOLEAN /\ (trivial => ~narrative.tense)
    BY DEF IsTrivial
  <2>2. /\ prompt' = Directives(narrative, DetermineGoal(snapshot, message, trivial, LoadedBig5), trivial)
        /\ UNCHANGED <<message, narrative, snapshot>>
    BY <1>2 DEF SendPrompt
  <2> HIDE DEF trivial
  <2> QED BY <2>1, <2>2 DEF PromptIsOfTurn
<1>3. CASE RetrievalStep /\ UNCHANGED turnVars
  <2>1. CASE LoopStep
    BY <1>1, <1>3, <2>1 DEF LoopStep, Keep, Drop, JudgeMemory, JudgeFails, Step
  <2>2. CASE ~LoopStep
    BY <1>3, <2>2 DEF RetrievalStep, LoopStep, ListCharacters, SkipNarrativeContext, EvokeNothing,
                      Search, BuildNarrativeContext
  <2> QED BY <2>1, <2>2
<1>4. CASE (DirectorStep /\ UNCHANGED turnVars) \/ UNCHANGED vars
  BY <1>1, <1>4 DEF DirectorStep, SeedMemory, CreateRelation, vars, retrievalVars
<1>5. ~Receive /\ ~SnapshotRelationship /\ ~Analyze /\ ~Remember /\ ~LetPass
        /\ ~ReceiveAnswer /\ ~Finish
  BY DEF Receive, SnapshotRelationship, Analyze, Remember, LetPass, Weighed, ReceiveAnswer,
         Finish, EndTurn
<1> QED BY <1>2, <1>3, <1>4, <1>5 DEF Next

(* For every message, bond and narrative, the directives of a prompt agree *)
(* with one another and with the turn they come of.                        *)
THEOREM PromptsAgree == Spec => []DirectivesAgree
<1>1. Init => PromptIsOfTurn
  BY DEF Init, RetrievalInit, PromptIsOfTurn
<1>2. IInv /\ PromptIsOfTurn => DirectivesAgree
  <2> SUFFICES ASSUME IInv, PromptIsOfTurn, stage = "prompted"
               PROVE  /\ prompt.goal = "grey rock" \/ prompt.filter = "casual" =>
                           /\ ~narrative.tense /\ ~prompt.conflict /\ prompt.goal # "toxic"
                           /\ ~(message.keyword /\ IsJealous([trust    |-> snapshot.trust,
                                                             intimacy |-> snapshot.intimacy]))
                      /\ prompt.filter = "suspicious" => prompt.goal = "toxic" /\ ~narrative.tense
                      /\ prompt.conflict => narrative.tense
    BY DEF DirectivesAgree
  <2> USE DEF IInv
  <2>1. PICK trivial \in BOOLEAN :
          /\ trivial => ~narrative.tense
          /\ prompt = Directives(narrative, DetermineGoal(snapshot, message, trivial, LoadedBig5), trivial)
    BY DEF PromptIsOfTurn
  <2> DEFINE goal == DetermineGoal(snapshot, message, trivial, LoadedBig5)
             provoked == message.keyword /\ IsJealous([trust    |-> snapshot.trust,
                                                      intimacy |-> snapshot.intimacy])
  <2>2. /\ narrative.residue => narrative.tense
        /\ narrative.residue \in BOOLEAN /\ narrative.tense \in BOOLEAN
    BY DEF NarrativeOK
  <2>3. provoked => goal = "toxic"
    <3>1. snapshot.trust \in Int /\ snapshot.intimacy \in Int
      BY DEF TurnOK
    <3>2. provoked => snapshot.intimacy >= 70 /\ snapshot.trust <= 40 /\ message.keyword
      BY DEF IsJealous
    <3>3. provoked => snapshot.trust < 45 /\ snapshot.intimacy > 60 /\ message.keyword
      BY <3>1, <3>2
    <3> QED BY <3>3 DEF DetermineGoal
  <2>4. goal = "grey rock" => trivial
    BY DEF DetermineGoal
  <2>5. /\ prompt.goal = goal /\ prompt.conflict = narrative.residue
        /\ prompt.filter = IF ~trivial THEN "none"
                           ELSE IF narrative.tense \/ goal = "toxic" THEN "suspicious"
                           ELSE "casual"
    BY <2>1 DEF Directives
  <2> HIDE DEF goal, provoked
  <2>6. prompt.goal = "grey rock" \/ prompt.filter = "casual" =>
          ~narrative.tense /\ ~prompt.conflict /\ prompt.goal # "toxic" /\ ~provoked
    BY <2>1, <2>2, <2>3, <2>4, <2>5
  <2>7. prompt.filter = "suspicious" => prompt.goal = "toxic" /\ ~narrative.tense
    BY <2>1, <2>5
  <2> QED BY <2>2, <2>5, <2>6, <2>7 DEF provoked
<1> QED BY <1>1, <1>2, InvariantHolds, PromptStands, PTL DEF Spec

(* What the narrative has of the rows before the message, it keeps while   *)
(* the tables grow.                                                        *)
LEMMA SeedsStayTold ==
    ASSUME IInv, SeedsStay, TablesGrow, RowsOK', UNCHANGED <<speaker, known, narrative>>
    PROVE  SeedsStay'
<1> USE DEF IInv
<1> SUFFICES ASSUME narrative.built,
                    NEW m \in memories', IsHighImpact(m.row), m.at <= known, m.clone = speaker
             PROVE  m \in narrative.recalled \/ Cardinality(Newer(m)') >= WorkingMemoryLimit
  BY DEF SeedsStay
<1>1. stage \in Told
  BY DEF NarrativeOK, NoNarrative
<1>2. m \in memories
  <2>1. m \in memories \/ m.at > Cardinality(memories)
    BY DEF TablesGrow
  <2>2. known \in Nat /\ known <= Cardinality(memories) /\ Cardinality(memories) \in Nat
    BY DEF CallOK, TablesGrow
  <2>3. m.at \in Int
    <3>1. Cardinality(memories') \in Nat
      BY DEF TablesGrow
    <3>2. m.at \in 1..Cardinality(memories')
      BY DEF RowsOK
    <3> QED BY <3>1, <3>2
  <2> QED BY <2>1, <2>2, <2>3
<1>3. m \in narrative.recalled \/ Cardinality(Newer(m)) >= WorkingMemoryLimit
  BY <1>1, <1>2 DEF SeedsStay
<1>4. Cardinality(Newer(m)) <= Cardinality(Newer(m)')
  <2>1. Newer(m)' \in SUBSET memories' /\ Newer(m) \in SUBSET (Newer(m)')
    BY DEF Newer, MemoriesOf, TablesGrow
  <2>2. IsFiniteSet(Newer(m)')
    BY <2>1, FS_Subset DEF RowsOK
  <2> QED BY <2>1, <2>2, FS_Subset
<1>5. Cardinality(Newer(m)) \in Nat /\ Cardinality(Newer(m)') \in Nat
  <2>1. Newer(m)' \in SUBSET memories' /\ Newer(m) \in SUBSET memories
    BY DEF Newer, MemoriesOf
  <2> QED BY <2>1, FS_Subset, FS_CardinalityType DEF RowsOK
<1> QED BY <1>3, <1>4, <1>5, LimitsAssumption

(* What was recalled when the narrative was built stays recalled, whatever *)
(* the director adds.                                                      *)
LEMMA SeedsStand == IInv /\ SeedsStay /\ [Next]_vars => SeedsStay'
<1> SUFFICES ASSUME IInv, SeedsStay, [Next]_vars PROVE SeedsStay'
  OBVIOUS
<1>1. TablesGrow /\ RowsOK'
  BY TablesStand
<1>2. ASSUME UNCHANGED <<speaker, known, narrative>> PROVE SeedsStay'
  BY <1>1, <1>2, SeedsStayTold
<1>3. CASE Receive
  BY <1>3 DEF Receive, SeedsStay, Told
<1>4. CASE BuildNarrativeContext
  <2> USE DEF IInv
  <2> DEFINE recalled == Merged(WorkingMemories(speaker), found)
             strong == {n \in MemoriesOf(speaker) : IsHighImpact(n.row)}
  <2>1. narrative' = NarrativeOf(recalled, active) /\ UNCHANGED <<memories, speaker, known>>
    BY <1>4 DEF BuildNarrativeContext, tables
  <2>2. WorkingMemories(speaker) \subseteq recalled
    BY DEF Merged
  <2>3. recalled \subseteq memories
    <3>1. /\ found \in Seq(memories) /\ Len(found) <= SearchLimit
          /\ \A i \in 1..Len(found) : found[i].clone = speaker
      BY LimitsAssumption DEF SearchOK
    <3>2. WorkingMemories(speaker) \subseteq memories
      BY WorkingMemoryFits DEF MemoriesOf
    <3> QED BY <3>1, <3>2, MergedFits DEF MemoriesOf
  <2> HIDE DEF recalled
  <2>4. narrative'.recalled = recalled
    BY <2>1, <2>3, NarrativeReads DEF CallOK
  <2>5. ASSUME NEW m \in memories, IsHighImpact(m.row), m.clone = speaker,
               m \notin WorkingMemories(speaker)
        PROVE  Cardinality(Newer(m)) >= WorkingMemoryLimit
    <3>1. m \in strong
      BY <2>5 DEF MemoriesOf
    <3>2. Newer(m) = {n \in strong : n.at > m.at}
      BY DEF Newer
    <3>3. ~(Cardinality({n \in strong : n.at > m.at}) < WorkingMemoryLimit)
      BY <2>5, <3>1 DEF WorkingMemories
    <3>4. Cardinality(Newer(m)) \in Nat
      <4>1. Newer(m) \in SUBSET memories
        BY DEF Newer, MemoriesOf
      <4> QED BY <4>1, FS_Subset, FS_CardinalityType DEF RowsOK
    <3> HIDE DEF strong
    <3> QED BY <3>2, <3>3, <3>4, LimitsAssumption
  <2>6. \A m : Newer(m)' = Newer(m)
    BY <2>1 DEF Newer, MemoriesOf
  <2> QED BY <2>1, <2>2, <2>4, <2>5, <2>6 DEF SeedsStay
<1>5. CASE RetrievalStep /\ ~BuildNarrativeContext
  BY <1>2, <1>5 DEF RetrievalStep, ListCharacters, SkipNarrativeContext, EvokeNothing, Search,
                    Keep, Drop, JudgeMemory, JudgeFails, Step
<1>6. CASE SnapshotRelationship \/ Analyze \/ Remember \/ LetPass \/ SendPrompt
  BY <1>2, <1>6 DEF SnapshotRelationship, Analyze, Remember, LetPass, Weighed, SendPrompt
<1>7. CASE ReceiveAnswer \/ Finish
  BY <1>7 DEF ReceiveAnswer, Finish, EndTurn, SeedsStay, Told
<1>8. CASE DirectorStep \/ UNCHANGED vars
  BY <1>2, <1>8 DEF DirectorStep, SeedMemory, CreateRelation, vars, retrievalVars
<1> QED BY <1>3, <1>4, <1>5, <1>6, <1>7, <1>8 DEF Next

(* For any tables, and whatever the director adds meanwhile: a seed of     *)
(* high impact stored before a message is before the clone when it         *)
(* answers, or the working memory is full of newer ones.                   *)
THEOREM SeedsComeBack == Spec => []SeedsAreRecalled
<1>1. Init => SeedsStay
  BY DEF Init, RetrievalInit, SeedsStay, Told
<1>2. IInv /\ SeedsStay => SeedsAreRecalled
  <2>1. \A m : Newer(m) = {n \in MemoriesOf(speaker) : n.at > m.at /\ IsHighImpact(n.row)}
    BY DEF Newer
  <2> QED BY <2>1 DEF SeedsStay, SeedsAreRecalled, Told
<1> QED BY <1>1, <1>2, InvariantHolds, SeedsStand, PTL DEF Spec

(* Each step of the loop adds a reason, and no reason goes.                *)
LEMMA LoopReasons ==
    ASSUME IInv, LoopIsReasoned, LoopStep
    PROVE  LoopIsReasoned'
<1> USE DEF IInv
<1> DEFINE text == Candidate.memory.content
<1>1. /\ next \in 1..Len(ranked) /\ next' = next + 1 /\ UNCHANGED <<ranked, message>>
      /\ Candidate = ranked[next] /\ Candidate \in Candidates
  BY LoopGoes DEF Candidate
<1>2. Len(ranked) \in Nat /\ found \in Seq(memories) /\ Candidate.memory \in memories
  BY <1>1 DEF SearchOK, Candidates
<1>3. /\ Range(found) \subseteq Range(found')
      /\ Range(found') \subseteq Range(found) \cup {Candidate.memory}
      /\ found' = Append(found, Candidate.memory) => Candidate.memory \in Range(found')
  <2> DEFINE kept == Candidate.memory
  <2>1. kept \in memories /\ (found' = found \/ found' = Append(found, kept))
    BY <1>2, LoopGoes
  <2> HIDE DEF kept
  <2>2. ASSUME found' = Append(found, kept) PROVE Range(found') = Range(found) \cup {kept}
    <3>1. /\ DOMAIN found' = DOMAIN found \cup {Len(found) + 1}
          /\ \A i \in DOMAIN found : found'[i] = found[i]
          /\ found'[Len(found) + 1] = kept
      BY <1>2, <2>1, <2>2
    <3> QED BY <3>1 DEF Range
  <2>3. Range(found') = Range(found) \/ Range(found') = Range(found) \cup {kept}
    BY <2>1, <2>2
  <2> QED BY <2>2, <2>3 DEF kept
<1>4. /\ DOMAIN verdicts \subseteq DOMAIN verdicts'
      /\ \A t \in DOMAIN verdicts : verdicts'[t] = verdicts[t]
      /\ \A t \in DOMAIN verdicts' : t \in DOMAIN verdicts \/ t = text
  BY LoopGoes
<1>5. ASSUME NEW i \in 1..Len(ranked), i < next, DroppedFor(i) PROVE DroppedFor(i)'
  <2> DEFINE c == ranked[i]
  <2>1. CASE message.benign \/ IsBehind(i) \/ c.similarity < HardFloor
    BY <1>1, <1>5, <2>1 DEF DroppedFor, IsBehind, Doubtful, UpperSimilarity, HardFloor
  <2>2. CASE ~message.benign /\ Judged(c) /\ ~verdicts[c.memory.content]
    BY <1>1, <1>4, <2>2 DEF DroppedFor, Judged
  <2>3. CASE ~message.benign /\ Doubtful(c) /\ ~Judged(c)
    <3>1. CASE c.memory.content \notin DOMAIN verdicts'
      BY <1>1, <2>3, <3>1 DEF DroppedFor, Judged, Doubtful
    <3>2. CASE c.memory.content \in DOMAIN verdicts'
      <4>1. ranked[next].memory.content = c.memory.content
        BY <1>1, <1>4, <2>3, <3>2 DEF Judged
      <4>2. i < next /\ next < next' /\ next \in 1..Len(ranked')
        BY <1>1, <1>2, <1>5
      <4>3. \E k \in 1..Len(ranked') :
               i < k /\ k < next' /\ ranked'[k].memory.content = ranked'[i].memory.content
        BY <1>1, <4>1, <4>2
      <4> QED BY <1>1, <2>3, <4>3 DEF DroppedFor, Doubtful
    <3> QED BY <3>1, <3>2
  <2>4. ASSUME ~message.benign, Doubtful(c),
               NEW k \in 1..Len(ranked), i < k, k < next, ranked[k].memory.content = c.memory.content
        PROVE  DroppedFor(i)'
    <3>1. k \in 1..Len(ranked') /\ k < next'
      BY <1>1, <1>2, <2>4
    <3>2. \E h \in 1..Len(ranked') :
             i < h /\ h < next' /\ ranked'[h].memory.content = ranked'[i].memory.content
      BY <1>1, <2>4, <3>1
    <3> QED BY <1>1, <2>4, <3>2 DEF DroppedFor, Doubtful
  <2> QED BY <1>5, <2>1, <2>2, <2>3, <2>4 DEF DroppedFor
<1>0. PICK at \in 1..Len(ranked) : at = next
  BY <1>1
<1>6. \/ found' = Append(found, Candidate.memory) /\ KeptFor(at)
      \/ found' = found /\ DroppedFor(at)'
  <2> USE <1>0, <1>1 DEF KeptFor, DroppedFor
  <2>1. CASE Keep
    BY <2>1 DEF Keep, Keeps
  <2>2. CASE Drop
    BY <2>2 DEF Drop, Drops, Gap, IsBehind, Judged, Doubtful
  <2>3. CASE JudgeMemory
    <3>1. PICK use \in BOOLEAN :
            /\ verdicts' = [t \in DOMAIN verdicts \cup {text} |->
                              IF t \in DOMAIN verdicts THEN verdicts[t] ELSE use]
            /\ found' = IF use THEN Append(found, Candidate.memory) ELSE found
      BY <2>3 DEF JudgeMemory
    <3>2. AsksJudge(Candidate)
      BY <2>3 DEF JudgeMemory
    <3>3. text \in DOMAIN verdicts' /\ verdicts'[text] = use
      BY <3>1, <3>2 DEF AsksJudge, Judged
    <3> QED BY <3>1, <3>2, <3>3 DEF AsksJudge, Judged
  <2>4. CASE JudgeFails
    BY <2>4 DEF JudgeFails, AsksJudge, Judged, Doubtful
  <2> QED BY <2>1, <2>2, <2>3, <2>4 DEF LoopStep
<1>7. ASSUME NEW i \in 1..Len(ranked'), i < next'
      PROVE  ranked'[i].memory \in Range(found') \/ DroppedFor(i)'
  <2>1. i < next \/ i = next
    BY <1>1, <1>2, <1>7
  <2>2. CASE i < next
    BY <1>1, <1>3, <1>5, <2>2 DEF LoopIsReasoned
  <2>3. CASE i = next
    BY <1>0, <1>1, <1>3, <1>6, <2>3
  <2> QED BY <2>1, <2>2, <2>3
<1>8. ASSUME NEW m \in Range(found')
      PROVE  \E i \in 1..Len(ranked') : i < next' /\ m = ranked'[i].memory /\ KeptFor(i)'
  <2>1. \A i \in 1..Len(ranked) : KeptFor(i)' <=> KeptFor(i)
    BY <1>1 DEF KeptFor, Doubtful
  <2>2. \A i \in 1..Len(ranked) : i < next => i < next'
    BY <1>1, <1>2
  <2>3. CASE m \in Range(found)
    BY <1>1, <2>1, <2>2, <2>3 DEF LoopIsReasoned
  <2>4. CASE m \notin Range(found)
    <3>1. m = Candidate.memory /\ found' # found
      BY <1>3, <2>4
    <3>2. KeptFor(at) /\ at < next' /\ m = ranked[at].memory
      BY <1>0, <1>1, <1>2, <1>6, <3>1
    <3> QED BY <1>1, <2>1, <3>2
  <2> QED BY <2>3, <2>4
<1> QED BY <1>7, <1>8 DEF LoopIsReasoned

(* A ranking stays as the search left it, and each step of the loop has    *)
(* its reason.                                                             *)
LEMMA RankingStands ==
    IInv /\ RankedByScore /\ LoopIsReasoned /\ [Next]_vars => RankedByScore' /\ LoopIsReasoned'
<1> SUFFICES ASSUME IInv, RankedByScore, LoopIsReasoned, [Next]_vars
             PROVE  RankedByScore' /\ LoopIsReasoned'
  OBVIOUS
<1>1. CASE Search
  <2>1. found' = <<>> /\ next' = 1
    BY <1>1 DEF IInv, Search, SearchOK
  <2>2. Range(found') = {}
    BY <2>1 DEF Range
  <2>3. LoopIsReasoned'
    BY <2>1, <2>2 DEF LoopIsReasoned
  <2> QED BY <1>1, <2>3, SearchFinds
<1>2. CASE LoopStep
  <2>1. UNCHANGED <<ranked, message>>
    BY <1>2, LoopGoes
  <2> QED BY <1>2, <2>1, LoopReasons DEF RankedByScore, BetterClaim
<1>3. CASE NoSearchLeft
  <2>1. Range(found') = {}
    BY <1>3 DEF NoSearchLeft, Range
  <2> QED BY <1>3, <2>1 DEF NoSearchLeft, LoopIsReasoned, RankedByScore
<1>4. CASE UNCHANGED <<searchVars, message, speaker, stage>>
  BY <1>4 DEF searchVars, RankedByScore, BetterClaim, LoopIsReasoned, KeptFor, DroppedFor,
              IsBehind, Doubtful, Judged
<1> QED BY <1>1, <1>2, <1>3, <1>4, SearchGoes

(* For any rows, similarities and verdicts: a memory that the loop drops   *)
(* while it keeps one of a lesser claim was refused by the judge, behind   *)
(* by the gap, a faint bad memory before a wish, or without a verdict when *)
(* its turn came.                                                          *)
THEOREM BetterClaimsPrevail == Spec => []BetterClaimPrevails
<1>1. Init => RankedByScore /\ LoopIsReasoned
  BY DEF Init, RetrievalInit, RankedByScore, LoopIsReasoned, Range
<1>2. IInv /\ RankedByScore /\ LoopIsReasoned => BetterClaimPrevails
  <2> SUFFICES ASSUME IInv, RankedByScore, LoopIsReasoned, next > Len(ranked),
                      NEW i \in DOMAIN ranked, NEW j \in DOMAIN ranked,
                      BetterClaim(ranked[i], ranked[j]),
                      ranked[j].memory \in Range(found), ranked[i].memory \notin Range(found)
               PROVE  LET c == ranked[i]
                          d == ranked[j]
                      IN  \/ Judged(c) /\ ~verdicts[c.memory.content]
                          \/ i = 2 /\ ranked[1].score - c.score >= GapScore
                          \/ message.benign /\ ShouldSkipTrauma(c.memory.row)
                          \/ /\ Doubtful(c) /\ (i < j \/ c.score = d.score)
                             /\ \/ ~Judged(c)
                                \/ \E k \in DOMAIN ranked :
                                      k > i /\ ranked[k].memory.content = c.memory.content
    BY DEF BetterClaimPrevails
  <2> DEFINE c == ranked[i]
             d == ranked[j]
  <2>1. /\ DOMAIN ranked = 1..Len(ranked) /\ Len(ranked) \in Nat /\ next \in Int
        /\ c \in Candidates /\ d \in Candidates
    BY DEF IInv, SearchOK
  <2>2. /\ c.memory \in memories /\ d.memory \in memories /\ c.score \in Int /\ d.score \in Int
        /\ c.similarity \in Int /\ d.similarity \in Int
    BY <2>1, SearchAssumption DEF Candidates
  <2>3. c.memory.at \in Int /\ d.memory.at \in Int
    BY <2>2, FS_CardinalityType DEF IInv, RowsOK
  <2>4. c.similarity >= d.similarity /\ i # j
    BY <2>3 DEF BetterClaim
  <2>5. DroppedFor(i)
    BY <2>1 DEF LoopIsReasoned
  <2>6. KeptFor(j)
    <3>1. PICK k \in 1..Len(ranked) : ranked[j].memory = ranked[k].memory /\ KeptFor(k)
      BY DEF LoopIsReasoned
    <3>2. k = j
      BY <2>1, <3>1 DEF RankedByScore
    <3> QED BY <3>1, <3>2
  <2>7. i < j \/ c.score = d.score
    <3>1. d.score <= c.score
      BY <2>1 DEF RankedByScore
    <3>2. j < i => c.score <= d.score
      BY <2>1 DEF RankedByScore
    <3> QED BY <2>1, <2>2, <2>4, <3>1, <3>2
  <2>8. c.similarity >= HardFloor
    BY <2>2, <2>4, <2>6 DEF KeptFor, Doubtful, HardFloor, UpperSimilarity
  <2>9. IsBehind(i) => i = 2 /\ ranked[1].score - c.score >= GapScore
    BY DEF IsBehind
  <2>10. c.similarity < HardFloor => FALSE
    BY <2>2, <2>8 DEF HardFloor
  <2> QED BY <2>1, <2>5, <2>7, <2>9, <2>10 DEF DroppedFor, IsBehind
<1> QED BY <1>1, <1>2, InvariantHolds, RankingStands, PTL DEF Spec

-----------------------------------------------------------------------------
(* The refinement.                                                         *)

(* The rules the loop is given by are those of this module.                *)
LEMMA RulesAgree ==
    /\ \A v, lo, hi : Loop!Clamp(v, lo, hi) = Clamp(v, lo, hi)
    /\ \A v : Loop!NormalizeIntensity(v) = NormalizeIntensity(v)
    /\ \A rows : Loop!Strongest(rows) = Strongest(rows)
    /\ \A row : Loop!LeavesResidue(row) <=> LeavesResidue(row)
    /\ \A bond, rows, top : Loop!HighTension(bond, rows, top) <=> HighTension(bond, rows, top)
    /\ \A row : Loop!IsHighImpact(row) <=> IsHighImpact(row)
    /\ \A S : Loop!Cardinality(S) = Cardinality(S)
<1>1. \A v, lo, hi : Loop!Clamp(v, lo, hi) = Clamp(v, lo, hi)
  BY DEF Loop!Clamp, Clamp
<1>2. \A v : Loop!NormalizeIntensity(v) = NormalizeIntensity(v)
  BY <1>1 DEF Loop!NormalizeIntensity, NormalizeIntensity
<1>3. \A rows : Loop!Strongest(rows) = Strongest(rows)
  BY <1>2 DEF Loop!Strongest, Strongest
<1>4. \A row : Loop!LeavesResidue(row) <=> LeavesResidue(row)
  BY <1>2 DEF Loop!LeavesResidue, LeavesResidue
<1>5. \A bond, rows, top : Loop!HighTension(bond, rows, top) <=> HighTension(bond, rows, top)
  BY <1>4 DEF Loop!HighTension, HighTension, Loop!SignalCategories, SignalCategories
<1>6. \A row : Loop!IsHighImpact(row) <=> IsHighImpact(row)
  BY DEF Loop!IsHighImpact, IsHighImpact
<1>7. \A S : Loop!Cardinality(S) = Cardinality(S)
  BY DEF Loop!Cardinality, Cardinality
<1> QED BY <1>1, <1>2, <1>3, <1>4, <1>5, <1>6, <1>7

(* The arithmetic the loop is given by is that of this module, too.        *)
LEMMA WeighingAgrees ==
    /\ \A b, raw, category :
          Loop!AnalyzeEmotion(b, raw, category) = AnalyzeEmotion(b, raw, category)
    /\ \A e, tense, b : Loop!IsRemembered(e, tense, b) <=> IsRemembered(e, tense, b)
    /\ \A msg, e, tense, b : Loop!FeltRow(msg, e, tense, b) = FeltRow(msg, e, tense, b)
    /\ \A i, w, c, sig : Loop!SeededRow(i, w, c, sig) = SeededRow(i, w, c, sig)
    /\ Loop!DefaultEmotion = DefaultEmotion
    /\ Loop!NoMessage = NoMessage
<1>1. \A v, lo, hi : Loop!Clamp(v, lo, hi) = Clamp(v, lo, hi)
  BY RulesAgree
<1>2. \A b : Loop!GetResilience(b) = GetResilience(b) /\ Loop!ResilienceUnit = ResilienceUnit
  BY DEF Loop!GetResilience, GetResilience, Loop!ResilienceUnit, ResilienceUnit
<1>3. \A num, den : Loop!Truncations(num, den) = Truncations(num, den)
  BY DEF Loop!Truncations, Truncations
<1>4. \A b, raw, category :
         Loop!AnalyzeEmotion(b, raw, category) = AnalyzeEmotion(b, raw, category)
  BY <1>2, <1>3 DEF Loop!AnalyzeEmotion, AnalyzeEmotion
<1>5. \A i, b : Loop!CalculateReaction(i, b) = CalculateReaction(i, b)
  BY <1>1 DEF Loop!CalculateReaction, CalculateReaction
<1>6. \A e : Loop!IsFaint(e) <=> IsFaint(e)
  BY DEF Loop!IsFaint, IsFaint, Loop!IsNegativeEmotion, IsNegativeEmotion,
         Loop!IsNeutralEmotion, IsNeutralEmotion
<1>7. \A e, tense : Loop!AttendedIntensity(e, tense) = AttendedIntensity(e, tense)
  BY <1>6 DEF Loop!AttendedIntensity, AttendedIntensity,
              Loop!TensionIntensityFloor, TensionIntensityFloor
<1>8. \A e, tense, b : Loop!EffectiveIntensity(e, tense, b) = EffectiveIntensity(e, tense, b)
  BY <1>5, <1>7 DEF Loop!EffectiveIntensity, EffectiveIntensity
<1>9. \A e, tense, b : Loop!IsTrivial(e, tense, b) <=> IsTrivial(e, tense, b)
  BY <1>2, <1>6, <1>8 DEF Loop!IsTrivial, IsTrivial
<1>10. \A e, tense, b : Loop!IsRemembered(e, tense, b) <=> IsRemembered(e, tense, b)
  BY <1>8, <1>9 DEF Loop!IsRemembered, IsRemembered
<1>11. \A v : Loop!StoredIntensity(v) = StoredIntensity(v)
  BY <1>1 DEF Loop!StoredIntensity, StoredIntensity
<1>12. \A e, tense, b : Loop!MemoryOf(e, tense, b) = MemoryOf(e, tense, b)
  BY <1>1, <1>8, <1>11 DEF Loop!MemoryOf, MemoryOf
<1>13. \A columns, sig, origin, raw :
          Loop!Row(columns, sig, origin, raw) = Row(columns, sig, origin, raw)
  BY DEF Loop!Row, Row
<1>14. \A msg, e, tense, b : Loop!FeltRow(msg, e, tense, b) = FeltRow(msg, e, tense, b)
  BY <1>7, <1>12, <1>13 DEF Loop!FeltRow, FeltRow
<1>15. \A i, w, c, sig : Loop!SeededRow(i, w, c, sig) = SeededRow(i, w, c, sig)
  BY <1>1, <1>11, <1>13 DEF Loop!SeededRow, SeededRow
<1>16. Loop!DefaultEmotion = DefaultEmotion /\ Loop!NoMessage = NoMessage
  BY DEF Loop!DefaultEmotion, DefaultEmotion, Loop!NoMessage, NoMessage
<1> QED BY <1>4, <1>10, <1>14, <1>15, <1>16

(* What the loop sees of the state.                                        *)
LoopRows     == {m.row : m \in memories}
LoopMessage  == IF LoopStage = "idle" THEN NoMessage
                ELSE [raw |-> message.raw, category |-> message.category,
                      signal |-> message.signal]
LoopRecalled == IF Weighing THEN {m.row : m \in narrative.recalled} ELSE {}
LoopTense    == Weighing /\ narrative.tense
LoopBond     == Weighing /\ narrative.tenseBond
LoopEmotion  == IF LoopStage = "idle" THEN DefaultEmotion ELSE emotion

(* Where the loop stands while a turn goes on.                             *)
LEMMA StageReads ==
    /\ stage \in {"received", "bonded", "ranked"} => LoopStage = "received" /\ ~Weighing
    /\ stage \in {"narrated", "sighted"} => LoopStage = "narrated" /\ Weighing
    /\ stage = "analyzed" => LoopStage = "analyzed" /\ Weighing
    /\ stage \in {"idle", "weighed", "prompted", "answered"} => LoopStage = "idle" /\ ~Weighing
    /\ stage' \in {"received", "bonded", "ranked"} => LoopStage' = "received" /\ ~Weighing'
    /\ stage' \in {"narrated", "sighted"} => LoopStage' = "narrated" /\ Weighing'
    /\ stage' = "analyzed" => LoopStage' = "analyzed" /\ Weighing'
    /\ stage' \in {"idle", "weighed", "prompted", "answered"} => LoopStage' = "idle" /\ ~Weighing'
BY DEF LoopStage, Weighing

LoopSees == <<LoopRows, LoopStage, LoopMessage, LoopRecalled, LoopTense, LoopBond, LoopEmotion, turns>>

(* A step the loop does not see.                                           *)
LEMMA LoopStutters ==
    ASSUME UNCHANGED LoopSees
    PROVE  UNCHANGED Loop!vars
BY DEF LoopSees, Loop!vars, Loop!turnVars, LoopRows, LoopMessage, LoopRecalled, LoopTense, LoopBond, LoopEmotion

(* Both begin with an empty table.                                         *)
LEMMA LoopStarts == Init => Loop!Init
<1> SUFFICES ASSUME Init PROVE Loop!Init
  OBVIOUS
<1> USE DEF Init, RetrievalInit
<1>1. LoopStage = "idle" /\ ~Weighing
  BY StageReads
<1>2. {m.row : m \in memories} = {}
  OBVIOUS
<1> QED BY <1>1, <1>2, WeighingAgrees DEF Loop!Init

(* A message comes in.                                                     *)
LEMMA LoopReceives ==
    ASSUME IInv, Receive, UNCHANGED turnVars
    PROVE  Loop!Receive
<1> USE DEF IInv, Receive, turnVars
<1>1. LoopStage = "idle" /\ ~Weighing /\ LoopStage' = "received" /\ ~Weighing'
  BY StageReads
<1>2. turns < MaxTurns
  <2>1. Cardinality(characters) \in Nat /\ turns \in Nat
    BY FS_CardinalityType, TurnsAssumption DEF BondsOK
  <2> QED BY <2>1, TurnsAssumption DEF InBounds
<1>3. LoopMessage' \in Loop!AnyMessages
  BY <1>1, MessagesAssumption DEF LoopMessage, Loop!AnyMessages
<1>4. emotion' = DefaultEmotion
  BY DEF TurnOK
<1>5. UNCHANGED memories /\ turns' = turns + 1
  BY DEF tables
<1> QED BY <1>1, <1>2, <1>3, <1>4, <1>5 DEF Loop!Receive, LoopMessage

(* A turn without a narrative is one that recalls nothing.                 *)
LEMMA LoopSkips ==
    ASSUME IInv, SkipNarrativeContext, UNCHANGED turnVars
    PROVE  Loop!SkipNarrativeContext
<1> USE DEF IInv, SkipNarrativeContext, turnVars
<1>1. LoopStage = "received" /\ ~Weighing /\ LoopStage' = "narrated" /\ Weighing'
  BY StageReads
<1>2. narrative' = NoNarrative
  BY DEF NarrativeOK, Told
<1>3. LoopRecalled' = {} /\ LoopRecalled = {}
  BY <1>1, <1>2 DEF LoopRecalled, NoNarrative
<1>4. ~narrative'.tense /\ ~narrative'.tenseBond
  BY <1>2 DEF NoNarrative
<1>5. UNCHANGED <<memories, message, emotion, turns>>
  BY DEF tables
<1> QED BY <1>1, <1>3, <1>4, <1>5 DEF Loop!SkipNarrativeContext, LoopRecalled

(* The working memory and what the search found are the two parts of what  *)
(* the loop recalls.                                                       *)
LEMMA LoopNarrates ==
    ASSUME IInv, BuildNarrativeContext, UNCHANGED turnVars
    PROVE  Loop!BuildNarrativeContext
<1> USE DEF IInv
<1> DEFINE recalled == Merged(WorkingMemories(speaker), found)
           works    == WorkingMemories(speaker)
<1>1. LoopStage = "received" /\ ~Weighing /\ LoopStage' = "narrated" /\ Weighing'
  BY StageReads DEF BuildNarrativeContext
<1>2. PICK picked \in SUBSET MemoriesOf(speaker) :
              /\ recalled = works \cup picked
              /\ IsFiniteSet(picked) /\ Cardinality(picked) <= SearchLimit
              /\ Cardinality(works) + Cardinality(picked) <= ContextLimit
  <2>1. /\ found \in Seq(memories) /\ Len(found) <= SearchLimit
        /\ \A i \in 1..Len(found) : found[i].clone = speaker
    BY LimitsAssumption DEF SearchOK
  <2> QED BY <2>1, MergedFits
<1>3. /\ works \subseteq memories /\ picked \subseteq memories
      /\ \A m \in works : IsHighImpact(m.row)
      /\ IsFiniteSet(works) /\ Cardinality(works) \in 0..WorkingMemoryLimit
  BY WorkingMemoryFits DEF MemoriesOf
<1>4. /\ narrative' = NarrativeOf(recalled, active)
      /\ UNCHANGED <<memories, message, turns, emotion>>
  BY DEF BuildNarrativeContext, tables, turnVars
<1> HIDE DEF recalled, works
<1> DEFINE rowOf   == [m \in memories |-> m.row]
           working == {m.row : m \in works}
           others  == {m.row : m \in picked}
           rows    == {m.row : m \in recalled}
<1>5. rows = working \cup others
  BY <1>2
<1>6. /\ IsFiniteSet(working) /\ Cardinality(working) <= Cardinality(works)
      /\ IsFiniteSet(others) /\ Cardinality(others) <= Cardinality(picked)
  <2> DEFINE f == [m \in works |-> m.row]
             g == [m \in picked |-> m.row]
  <2>1. working = {f[m] : m \in works} /\ others = {g[m] : m \in picked}
    OBVIOUS
  <2>2. DOMAIN f = works /\ DOMAIN g = picked
    OBVIOUS
  <2> HIDE DEF f, g, working, others
  <2> QED BY <1>2, <1>3, <2>1, <2>2, ImageIsSmaller
<1>7. working \subseteq LoopRows /\ others \subseteq LoopRows
      /\ \A r \in working : IsHighImpact(r)
  BY <1>3 DEF LoopRows
<1> HIDE DEF working, others
<1>8. /\ Cardinality(working) <= 3 /\ Cardinality(others) <= 5
      /\ Cardinality(working \cup others) <= 7
  <2>1. /\ Cardinality(working) \in Nat /\ Cardinality(others) \in Nat
        /\ Cardinality(works) \in Nat /\ Cardinality(picked) \in Nat
    BY <1>2, <1>3, <1>6, FS_CardinalityType
  <2>2. IsFiniteSet(working \cap others) /\ Cardinality(working \cap others) \in Nat
    BY <1>6, FS_Intersection, FS_CardinalityType
  <2>3. Cardinality(working \cup others) = Cardinality(working) + Cardinality(others)
                                             - Cardinality(working \cap others)
    BY <1>6, FS_Union
  <2> QED BY <1>2, <1>3, <1>6, <2>1, <2>2, <2>3, LimitsAssumption
<1>9. working \in Loop!WorkingMemories
  <2>1. \A r \in working : Loop!IsHighImpact(r)
    BY <1>7, RulesAgree
  <2>2. Loop!Cardinality(working) <= 3
    BY <1>8, RulesAgree
  <2> QED BY <1>7, <2>1, <2>2 DEF Loop!WorkingMemories, Loop!MaxWorking, LoopRows
<1>10. Loop!Cardinality(others) <= Loop!MaxFound
       /\ Loop!Cardinality(working \cup others) <= Loop!MaxRecalled
  BY <1>8, RulesAgree DEF Loop!MaxFound, Loop!MaxRecalled
<1>11. /\ narrative'.recalled = recalled
       /\ {narrative'.tenseBond, narrative'.tense} \subseteq BOOLEAN
       /\ \/ recalled = {} /\ narrative'.tense = narrative'.tenseBond
          \/ \E top \in Strongest(rows) :
                narrative'.tense = HighTension(narrative'.tenseBond, rows, top)
  <2>1. recalled \subseteq memories
    BY <1>2, <1>3
  <2> HIDE DEF rows
  <2>2. LET n == NarrativeOf(recalled, active)
        IN  /\ n.recalled = recalled /\ n.built = TRUE
            /\ {n.residue, n.tenseBond, n.tense} \subseteq BOOLEAN
            /\ n.residue => n.tense
            /\ \/ recalled = {} /\ n.tense = n.tenseBond
               \/ \E top \in Strongest(rows) :
                     n.tense = HighTension(n.tenseBond, rows, top)
    BY <2>1, NarrativeReads DEF CallOK, rows
  <2> QED BY <1>4, <2>2
<1> DEFINE bond  == narrative'.tenseBond
           tense == narrative'.tense
<1>12. (LoopBond' <=> bond) /\ (LoopTense' <=> tense) /\ LoopRecalled' = rows
  BY <1>1, <1>11 DEF LoopBond, LoopTense, LoopRecalled
<1>13. \/ rows = {} /\ (LoopTense' <=> LoopBond')
       \/ \E top \in Strongest(rows) : LoopTense' <=> HighTension(LoopBond', rows, top)
  <2>1. \A top : HighTension(bond, rows, top) <=> HighTension(LoopBond', rows, top)
    BY <1>12 DEF HighTension
  <2> HIDE DEF bond, tense, rows
  <2>2. CASE recalled = {} /\ tense = bond
    BY <1>12, <2>2 DEF rows
  <2>3. ASSUME NEW top \in Strongest(rows), tense = HighTension(bond, rows, top)
        PROVE  LoopTense' <=> HighTension(LoopBond', rows, top)
    BY <1>12, <2>1, <2>3
  <2> QED BY <1>11, <2>2, <2>3 DEF bond, tense
<1>14. LoopRecalled' = working \cup others
  BY <1>5, <1>12
<1>15. \E w \in Loop!WorkingMemories, f \in SUBSET LoopRows :
          /\ Loop!Cardinality(f) <= Loop!MaxFound
          /\ Loop!Cardinality(w \cup f) <= Loop!MaxRecalled
          /\ LoopRecalled' = w \cup f
  BY <1>7, <1>9, <1>10, <1>14
<1>16. \/ LoopRecalled' = {} /\ LoopTense' = LoopBond'
       \/ \E top \in Loop!Strongest(LoopRecalled') :
             LoopTense' = Loop!HighTension(LoopBond', LoopRecalled', top)
  <2>1. LoopTense' \in BOOLEAN /\ LoopBond' \in BOOLEAN
    BY DEF LoopTense, LoopBond
  <2>2. \A top : /\ Loop!HighTension(LoopBond', rows, top) \in BOOLEAN
                 /\ Loop!HighTension(LoopBond', rows, top) <=> HighTension(LoopBond', rows, top)
    BY RulesAgree DEF Loop!HighTension
  <2> HIDE DEF rows
  <2> QED BY <1>12, <1>13, <2>1, <2>2, RulesAgree
<1>17. LoopBond' \in BOOLEAN
  BY DEF LoopBond
<1>18. UNCHANGED <<LoopRows, LoopMessage, LoopEmotion, turns>>
  BY <1>1, <1>4 DEF LoopRows, LoopMessage, LoopEmotion
<1> HIDE DEF rows, bond, tense
<1> QED BY <1>1, <1>15, <1>16, <1>17, <1>18
        DEF Loop!BuildNarrativeContext, LoopRows, LoopMessage, LoopRecalled, LoopTense, LoopBond,
            LoopEmotion

(* The analysis, or the emotion Chat assumes without one.                  *)
LEMMA LoopAnalyzes ==
    ASSUME IInv, Analyze
    PROVE  Loop!Analyze \/ Loop!AnalyzeFails
<1> USE DEF IInv, Analyze
<1>1. LoopStage = "narrated" /\ Weighing /\ LoopStage' = "analyzed" /\ Weighing'
  BY StageReads
<1>2. UNCHANGED <<LoopRows, LoopMessage, LoopRecalled, LoopTense, LoopBond, turns>>
  BY <1>1 DEF tables, LoopRows, LoopMessage, LoopRecalled, LoopTense, LoopBond
<1>3. /\ LoopMessage.raw = message.raw /\ LoopMessage.category = message.category
      /\ LoopEmotion' = emotion'
  BY <1>1 DEF LoopMessage, LoopEmotion
<1>4. \/ LoopEmotion' \in Loop!AnalyzeEmotion(LoadedBig5, LoopMessage.raw, LoopMessage.category)
      \/ LoopEmotion' = Loop!DefaultEmotion
  BY <1>3, WeighingAgrees
<1> QED BY <1>1, <1>2, <1>4
        DEF Loop!Analyze, Loop!AnalyzeFails, LoopRows, LoopMessage, LoopRecalled, LoopTense,
            LoopBond, LoopEmotion

(* The loop is through with a turn when the turn no longer weighs.         *)
LEMMA LoopEnds ==
    ASSUME LoopStage' = "idle", ~Weighing'
    PROVE  Loop!EndTurn
BY WeighingAgrees DEF Loop!EndTurn

(* An inserted row is one more for the loop.                               *)
LEMMA LoopInserts ==
    ASSUME NEW clone, NEW content, NEW row, Insert(clone, content, row)
    PROVE  LoopRows' = LoopRows \cup {row}
<1> DEFINE new == [clone |-> clone, at |-> Cardinality(memories) + 1,
                   content |-> content, row |-> row]
<1>1. memories' = memories \cup {new} /\ new.row = row
  BY DEF Insert
<1> HIDE DEF new
<1> QED BY <1>1 DEF LoopRows

(* The message is stored as the loop would store it ...                    *)
LEMMA LoopRemembers ==
    ASSUME IInv, Remember
    PROVE  Loop!Remember
<1> USE DEF IInv, Remember, Weighed
<1>1. LoopStage = "analyzed" /\ Weighing /\ LoopStage' = "idle" /\ ~Weighing'
  BY StageReads
<1>2. LoopTense = narrative.tense /\ LoopEmotion = emotion /\ LoopMessage.raw = message.raw
      /\ LoopMessage.signal = message.signal
  BY <1>1 DEF LoopTense, LoopEmotion, LoopMessage, NarrativeOK
<1>3. Loop!IsRemembered(LoopEmotion, LoopTense, LoadedBig5)
  BY <1>2, WeighingAgrees
<1>4. LoopRows' = LoopRows \cup {FeltRow(message, emotion, narrative.tense, LoadedBig5)}
  BY LoopInserts
<1>5. FeltRow(message, emotion, narrative.tense, LoadedBig5)
        = Loop!FeltRow(LoopMessage, LoopEmotion, LoopTense, LoadedBig5)
  <2>1. FeltRow(LoopMessage, LoopEmotion, LoopTense, LoadedBig5)
          = FeltRow(message, emotion, narrative.tense, LoadedBig5)
    BY <1>2 DEF FeltRow
  <2> QED BY <2>1, WeighingAgrees
<1>6. Loop!EndTurn
  BY <1>1, LoopEnds
<1> QED BY <1>1, <1>3, <1>4, <1>5, <1>6
        DEF Loop!Remember, LoopRows, LoopMessage, LoopTense, LoopEmotion

(* ...  or not at all.                                                     *)
LEMMA LoopLetsPass ==
    ASSUME IInv, LetPass
    PROVE  Loop!LetPass \/ Loop!RememberFails
<1> USE DEF IInv, LetPass, Weighed
<1>1. LoopStage = "analyzed" /\ LoopStage' = "idle" /\ ~Weighing'
  BY StageReads
<1>2. Loop!EndTurn
  BY <1>1, LoopEnds
<1> QED BY <1>1, <1>2 DEF Loop!LetPass, Loop!RememberFails

(* The console seeds what the loop may be seeded with.                     *)
LEMMA LoopSeeds ==
    ASSUME IInv, SeedMemory, UNCHANGED turnVars
    PROVE  Loop!SeedMemory
<1> USE DEF IInv
<1>1. PICK clone \in Clones, s \in Scenes :
        Insert(clone, s.content, SeededRow(s.importance, s.weight, s.category, s.signal))
  BY DEF SeedMemory
<1>2. LoopRows' = LoopRows \cup {SeededRow(s.importance, s.weight, s.category, s.signal)}
  BY <1>1, LoopInserts
<1>3. turns < MaxTurns /\ turns' = turns + 1
  <2>1. Cardinality(characters) \in Nat /\ turns \in Nat
    BY FS_CardinalityType, TurnsAssumption DEF BondsOK
  <2> QED BY <2>1, TurnsAssumption DEF SeedMemory, InBounds
<1>4. UNCHANGED <<stage, message, narrative, emotion>>
  BY DEF SeedMemory, turnVars
<1>5. UNCHANGED Loop!turnVars
  BY <1>4 DEF Loop!turnVars, LoopStage, Weighing
<1>6. /\ s.category \in Categories \ {""} /\ s.signal \in BOOLEAN
  BY ScenesAssumption
<1>7. SeededRow(s.importance, s.weight, s.category, s.signal)
        = Loop!SeededRow(s.importance, s.weight, s.category, s.signal)
  BY WeighingAgrees
<1>8. \E importance, weight \in {r.importance : r \in Scenes} \cup {r.weight : r \in Scenes},
         category \in ({m.category : m \in Messages} \cup {r.category : r \in Scenes}) \ {""},
         signal \in BOOLEAN :
         LoopRows' = LoopRows \cup {Loop!SeededRow(importance, weight, category, signal)}
  BY <1>2, <1>6, <1>7
<1> QED BY <1>3, <1>5, <1>8 DEF Loop!SeedMemory, LoopRows

(* Every step of a turn is one of the loop, or none.                       *)
LEMMA LoopSteps == IInv /\ [Next]_vars => [Loop!Next]_(Loop!vars)
<1> SUFFICES ASSUME IInv, [Next]_vars PROVE Loop!Next \/ UNCHANGED Loop!vars
  OBVIOUS
<1> USE DEF IInv
<1>1. CASE Receive /\ UNCHANGED turnVars
  BY <1>1, LoopReceives DEF Loop!Next
<1>2. CASE RetrievalStep /\ UNCHANGED turnVars
  <2>1. CASE SkipNarrativeContext
    BY <1>2, <2>1, LoopSkips DEF Loop!Next
  <2>2. CASE BuildNarrativeContext
    BY <1>2, <2>2, LoopNarrates DEF Loop!Next
  <2>3. CASE ListCharacters \/ EvokeNothing \/ Search \/ LoopStep
    <3>1. /\ UNCHANGED <<memories, message, narrative, emotion, turns>>
          /\ stage \in {"received", "bonded", "ranked"}
          /\ stage' \in {"received", "bonded", "ranked"}
      BY <1>2, <2>3 DEF ListCharacters, EvokeNothing, Search, LoopStep, Keep, Drop, JudgeMemory,
                        JudgeFails, AtCandidate, Step, tables, turnVars
    <3>2. UNCHANGED LoopSees
      BY <3>1, StageReads DEF LoopSees, LoopRows, LoopMessage, LoopRecalled, LoopTense, LoopBond,
                              LoopEmotion
    <3> QED BY <3>2, LoopStutters
  <2> QED BY <1>2, <2>1, <2>2, <2>3 DEF RetrievalStep, LoopStep
<1>3. CASE SnapshotRelationship
  <2>1. LoopStage = "narrated" /\ LoopStage' = "narrated" /\ Weighing /\ Weighing'
    BY <1>3, StageReads DEF SnapshotRelationship
  <2>2. UNCHANGED LoopSees
    BY <1>3, <2>1 DEF SnapshotRelationship, tables, LoopSees, LoopRows, LoopMessage, LoopRecalled,
                      LoopTense, LoopBond, LoopEmotion
  <2> QED BY <2>2, LoopStutters
<1>4. CASE Analyze
  BY <1>4, LoopAnalyzes DEF Loop!Next
<1>5. CASE Remember
  BY <1>5, LoopRemembers DEF Loop!Next
<1>6. CASE LetPass
  BY <1>6, LoopLetsPass DEF Loop!Next
<1>7. CASE SendPrompt \/ ReceiveAnswer
  <2>1. LoopStage = "idle" /\ LoopStage' = "idle" /\ ~Weighing /\ ~Weighing'
    BY <1>7, StageReads DEF SendPrompt, ReceiveAnswer
  <2>2. UNCHANGED LoopSees
    BY <1>7, <2>1 DEF SendPrompt, ReceiveAnswer, tables, LoopSees, LoopRows, LoopMessage,
                      LoopRecalled, LoopTense, LoopBond, LoopEmotion
  <2> QED BY <2>2, LoopStutters
<1>8. CASE Finish
  <2>1. LoopStage' = "idle" /\ ~Weighing' /\ UNCHANGED <<LoopRows, turns>>
    BY <1>8, StageReads DEF Finish, EndTurn, tables, LoopRows
  <2>2. CASE LoopStage = "idle"
    <3>1. ~Weighing
      BY <2>2, StageReads DEF Weighing
    <3>2. UNCHANGED LoopSees
      BY <2>1, <2>2, <3>1 DEF LoopSees, LoopMessage, LoopRecalled, LoopTense, LoopBond, LoopEmotion
    <3> QED BY <3>2, LoopStutters
  <2>3. CASE LoopStage # "idle"
    <3>1. Loop!EndTurn
      BY <2>1, LoopEnds
    <3> QED BY <2>1, <2>3, <3>1 DEF Loop!Abandon, Loop!Next, LoopRows
  <2> QED BY <2>2, <2>3
<1>9. CASE SeedMemory /\ UNCHANGED turnVars
  BY <1>9, LoopSeeds DEF Loop!Next
<1>10. CASE (CreateRelation /\ UNCHANGED turnVars) \/ UNCHANGED vars
  <2>1. UNCHANGED <<memories, stage, message, narrative, emotion, turns>>
    BY <1>10 DEF CreateRelation, turnVars, vars, retrievalVars, tables
  <2>2. UNCHANGED LoopSees
    BY <2>1 DEF LoopSees, LoopRows, LoopStage, Weighing, LoopMessage, LoopRecalled, LoopTense,
                LoopBond, LoopEmotion
  <2> QED BY <2>2, LoopStutters
<1> QED BY <1>1, <1>2, <1>3, <1>4, <1>5, <1>6, <1>7, <1>8, <1>9, <1>10 DEF Next, DirectorStep

(* Whatever the tables, the search, the judge, the bonds and the prompt    *)
(* make of a turn, in whichever clone, it is a turn of EmotionalMemory.    *)
THEOREM TurnIsEmotionalLoop == Spec => ImplementsEmotionalLoop
<1> QED BY LoopStarts, LoopSteps, InvariantHolds, PTL DEF Spec, ImplementsEmotionalLoop, Loop!Spec
=============================================================================
