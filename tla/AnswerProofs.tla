----------------------------- MODULE AnswerProofs -----------------------------
(***************************************************************************)
(* A search and its answer, of any size and with any provider: requests    *)
(* for hotel details never outlive the wait for them, every listing keeps  *)
(* its verdicts through filters and sorts, and no requirement of the user  *)
(* disappears on the way to a card, a text or a reply.                     *)
(***************************************************************************)
EXTENDS Answer, DataLemmas

(* A details request is a record with a state.                             *)
DetailShape == \A h \in DOMAIN detail : "state" \in DOMAIN detail[h]

IInv ==
    /\ DetailShape
    /\ IsFiniteSet(Holding)
    /\ NoRequestOutlivesSearch

(* What a step outside the phase of the details does to them.              *)
Elsewhere ==
    /\ stage # "details" /\ stage' # "details"
    /\ detail' = detail \/ detail' = <<>>

Starts(S) ==
    /\ stage' = "details"
    /\ detail' = [h \in S |-> [state |-> "queued", attempt |-> 0, answer |-> "none"]]

Remains == stage' = stage /\ detail' = detail

DetailStep ==
    BeginDetail \/ EndDetails \/ \E h \in DOMAIN detail :
        DetailRetry(h) \/ (\E fault \in Faults : DetailFault(h, fault)) \/ \E a : DetailArrives(h, a)

LEMMA RetrievalSteps ==
    ASSUME RetrievalStep \/ DeadlinePasses \/ ProviderStep
    PROVE  Elsewhere \/ Remains \/ DetailStep \/ \E S : Starts(S)
<1>1. CASE Refuse \/ Misconfigured \/ AskRates \/ RatesTimeOut \/ RatesRetry
  BY <1>1 DEF Refuse, Misconfigured, AskRates, RatesTimeOut, RatesRetry, Fail, Elsewhere
<1>2. CASE CollectFails \/ Collect
  BY <1>2 DEF CollectFails, Collect, Fail, Elsewhere
<1>3. CASE DeadlinePasses
  BY <1>3 DEF DeadlinePasses, Remains
<1>4. ASSUME NEW fault, RatesFault(fault) PROVE Elsewhere \/ Remains
  BY <1>4 DEF RatesFault, Fail, Elsewhere, Remains
<1>5. ASSUME NEW code, RatesRejected(code) PROVE Elsewhere
  BY <1>5 DEF RatesRejected, Fail, Elsewhere
<1>6. ASSUME NEW reply, RatesArrive(reply) PROVE \E S : Starts(S)
  BY <1>6 DEF RatesArrive, Starts
<1> QED
  BY <1>1, <1>2, <1>3, <1>4, <1>5, <1>6 DEF RetrievalStep, ProviderStep, DetailStep

LEMMA ScrapingSteps ==
    ASSUME GetCandidates \/ ScrapingStep
    PROVE  Elsewhere \/ Remains
<1>1. CASE GetCandidates
  BY <1>1 DEF GetCandidates, Elsewhere
<1>2. CASE NoToken \/ MergeActors
  BY <1>2 DEF NoToken, MergeActors, Fail, Elsewhere
<1>3. ASSUME NEW i, NEW code, ActorFails(i, code) PROVE Elsewhere
  BY <1>3 DEF ActorFails, Fail, Elsewhere
<1>4. ASSUME NEW i, NEW reply, ActorReturns(i, reply) \/ ActorEndsLate(i) PROVE Remains
  BY <1>4 DEF ActorReturns, ActorEndsLate, retrievalVars, Remains
<1> QED
  BY <1>1, <1>2, <1>3, <1>4 DEF ScrapingStep, ActorStep

LEMMA EvaluationSteps ==
    ASSUME EvaluationStep \/ Tick
    PROVE  Elsewhere \/ Remains
<1>1. ASSUME NEW got, Convert(got) PROVE Remains
  BY <1>1 DEF Convert, retrievalVars, Remains
<1>2. CASE ConvertRaises
  BY <1>2 DEF ConvertRaises, Unconverted, Fail, Elsewhere
<1>3. CASE MatchListing
  BY <1>3 DEF MatchListing, Remains
<1>4. ASSUME NEW answer, Ask(answer) PROVE Remains
  BY <1>4 DEF Ask, retrievalVars, Remains
<1>5. CASE Tick
  BY <1>5 DEF Tick, retrievalVars, Remains
<1>6. CASE AskRaises
  BY <1>6 DEF AskRaises, Fail, Elsewhere
<1>7. CASE RankStructured \/ ScoreResolutions \/ FilterAndSort \/ GradeItems \/ SelectItems
  BY <1>7 DEF RankStructured, ScoreResolutions, FilterAndSort, GradeItems, SelectItems,
              retrievalVars, Elsewhere
<1> QED
  BY <1>1, <1>2, <1>3, <1>4, <1>5, <1>6, <1>7 DEF EvaluationStep

LEMMA AnswerSteps ==
    ASSUME AnswerStep \/ AskAboutShown
    PROVE  Elsewhere \/ Remains
<1>1. CASE ComposeAnswer
  BY <1>1 DEF ComposeAnswer, Elsewhere
<1>2. CASE WordAnswer \/ WordingFails \/ AnswerFailure
  BY <1>2 DEF WordAnswer, WordingFails, AnswerFailure, RetrievalFailed, retrievalVars, Elsewhere
<1>3. ASSUME NEW facts, ExtractFacts(facts) PROVE Elsewhere
  BY <1>3 DEF ExtractFacts, retrievalVars, Elsewhere
<1>4. CASE ExtractionFails \/ Reply \/ ReplyRaises
  BY <1>4 DEF ExtractionFails, Reply, ReplyRaises, Fail, retrievalVars, Elsewhere
<1>5. ASSUME NEW said, AskFact(said) PROVE Remains
  BY <1>5 DEF AskFact, searchVars, retrievalVars, Remains
<1>6. CASE QuestionRaises
  BY <1>6 DEF QuestionRaises, OpenTargets, Fail, Elsewhere
<1>7. CASE AskAboutShown
  BY <1>7 DEF AskAboutShown, retrievalVars, Elsewhere
<1> QED
  BY <1>1, <1>2, <1>3, <1>4, <1>5, <1>6, <1>7 DEF AnswerStep

LEMMA EveryStep ==
    ASSUME [Next]_vars
    PROVE  Elsewhere \/ Remains \/ DetailStep \/ \E S : Starts(S)
<1>1. CASE Next
  BY <1>1, RetrievalSteps, ScrapingSteps, EvaluationSteps, AnswerSteps
     DEF Next, Searching, SearchNext, Retrieving, FromLiteApi
<1>2. CASE UNCHANGED vars
  BY <1>2 DEF vars, searchVars, retrievalVars, Remains
<1> QED
  BY <1>1, <1>2

-----------------------------------------------------------------------------
(* In the phase of the details. *)

(* At most one request more holds the semaphore, and only when it is free. *)
LEMMA DetailSteps ==
    ASSUME DetailShape, DetailStep
    PROVE  /\ DetailShape'
           /\ stage = "details"
           /\ stage' = "details" \/ Unfinished' = {}
           /\ \/ Holding' \subseteq Holding
              \/ Cardinality(Holding) < DetailConcurrency /\ \E h : Holding' \subseteq Holding \cup {h}
<1>1. ASSUME NEW h, NEW d, "state" \in DOMAIN d, detail' = [detail EXCEPT ![h] = d]
      PROVE  /\ DetailShape'
             /\ Holding' \subseteq Holding \cup {h}
             /\ d.state = "ended" \/ h \in Holding => Holding' \subseteq Holding
  BY <1>1 DEF DetailShape, Holding
<1>2. CASE BeginDetail
  <2>1. PICK i \in Queued : detail' = [detail EXCEPT ![HotelIds[offers][i]] = Attempted(HotelIds[offers][i])]
    BY <1>2 DEF BeginDetail
  <2>2. CASE HotelIds[offers][i] \in DOMAIN detail
    <3>1. "state" \in DOMAIN Attempted(HotelIds[offers][i])
      BY <2>2 DEF Attempted, DetailShape
    <3> QED
      BY <1>1, <1>2, <2>1, <3>1 DEF BeginDetail
  <2>3. CASE HotelIds[offers][i] \notin DOMAIN detail
    <3>1. detail' = [h \in DOMAIN detail |-> detail[h]]
      BY <2>1, <2>3
    <3> QED
      BY <1>2, <3>1 DEF BeginDetail, DetailShape, Holding
  <2> QED
    BY <2>2, <2>3
<1>3. ASSUME NEW h \in DOMAIN detail, DetailRetry(h)
      PROVE  DetailShape' /\ stage = "details" /\ stage' = "details" /\ Holding' \subseteq Holding
  <2>1. "state" \in DOMAIN Attempted(h) /\ h \in Holding
    BY <1>3 DEF DetailRetry, Attempted, DetailShape, Holding
  <2> QED
    BY <1>1, <1>3, <2>1 DEF DetailRetry
<1>4. ASSUME NEW h \in DOMAIN detail, NEW fault, DetailFault(h, fault)
      PROVE  DetailShape' /\ stage = "details" /\ stage' = "details" /\ Holding' \subseteq Holding
  <2> DEFINE d == IF Retries(fault, detail[h].attempt)
                  THEN [detail[h] EXCEPT !.state = "backoff"] ELSE Ended(h, ErrorCode(fault))
  <2>1. "state" \in DOMAIN d /\ h \in Holding
    BY <1>4 DEF DetailFault, Ended, DetailShape, Holding
  <2> QED
    BY <1>1, <1>4, <2>1 DEF DetailFault
<1>5. ASSUME NEW h \in DOMAIN detail, NEW a, DetailArrives(h, a)
      PROVE  DetailShape' /\ stage = "details" /\ stage' = "details" /\ Holding' \subseteq Holding
  <2>1. "state" \in DOMAIN Ended(h, a) /\ h \in Holding
    BY <1>5 DEF DetailArrives, Ended, Holding
  <2> QED
    BY <1>1, <1>5, <2>1 DEF DetailArrives
<1>6. CASE EndDetails
  BY <1>6 DEF EndDetails, Unfinished, Ended, DetailShape, Holding
<1> QED
  BY <1>2, <1>3, <1>4, <1>5, <1>6 DEF DetailStep, BeginDetail

LEMMA NextIInv ==
    ASSUME IInv, [Next]_vars
    PROVE  IInv'
<1>1. DetailConcurrency \in Nat \ {0}
  BY LiteApiAssumption
<1>2. Cardinality(Holding) \in Nat /\ Cardinality(Holding) <= DetailConcurrency
  BY FS_CardinalityType DEF IInv, NoRequestOutlivesSearch
<1>3. ASSUME DetailShape', stage' # "details" => Unfinished' = {}, Holding' \subseteq Holding
      PROVE  IInv'
  <2>1. IsFiniteSet(Holding') /\ Cardinality(Holding') <= Cardinality(Holding)
    BY <1>3, FS_Subset DEF IInv
  <2>2. Cardinality(Holding') \in Nat
    BY <2>1, FS_CardinalityType
  <2> QED
    BY <1>1, <1>2, <1>3, <2>1, <2>2 DEF IInv, NoRequestOutlivesSearch
<1>4. CASE Elsewhere
  <2>1. CASE detail' = detail
    BY <1>3, <1>4, <2>1 DEF Elsewhere, IInv, NoRequestOutlivesSearch, DetailShape, Unfinished, Holding
  <2>2. CASE detail' = <<>>
    <3>1. DOMAIN detail' = {}
      BY <2>2
    <3> QED
      BY <1>3, <3>1 DEF DetailShape, Unfinished, Holding
  <2> QED
    BY <1>4, <2>1, <2>2 DEF Elsewhere
<1>5. CASE Remains
  BY <1>3, <1>5 DEF Remains, IInv, NoRequestOutlivesSearch, DetailShape, Unfinished, Holding
<1>6. ASSUME NEW S, Starts(S) PROVE IInv'
  BY <1>3, <1>6 DEF Starts, DetailShape, Holding
<1>7. CASE DetailStep
  <2>1. DetailShape' /\ (stage' # "details" => Unfinished' = {})
    BY <1>7, DetailSteps DEF IInv
  <2>2. CASE Holding' \subseteq Holding
    BY <1>3, <2>1, <2>2
  <2>3. ASSUME NEW h, Cardinality(Holding) < DetailConcurrency, Holding' \subseteq Holding \cup {h}
        PROVE  IInv'
    <3>1. IsFiniteSet(Holding \cup {h}) /\ Cardinality(Holding \cup {h}) <= Cardinality(Holding) + 1
      BY <1>2, FS_AddElement DEF IInv
    <3>2. IsFiniteSet(Holding') /\ Cardinality(Holding') <= Cardinality(Holding \cup {h})
      BY <2>3, <3>1, FS_Subset
    <3>3. Cardinality(Holding') \in Nat /\ Cardinality(Holding \cup {h}) \in Nat
      BY <3>1, <3>2, FS_CardinalityType
    <3>4. Cardinality(Holding') <= DetailConcurrency
      BY <1>1, <1>2, <2>3, <3>1, <3>2, <3>3
    <3> QED
      BY <2>1, <3>2, <3>4 DEF IInv, NoRequestOutlivesSearch
  <2> QED
    BY <1>7, <2>2, <2>3, DetailSteps DEF IInv
<1> QED
  BY <1>4, <1>5, <1>6, <1>7, EveryStep

(* No request for a hotel is left running, waiting its turn or between two *)
(* attempts once the search no longer waits for the details, and never     *)
(* more than detail_concurrency of them are under way (search_listings).   *)
THEOREM RequestsEndWithSearch == Spec => []NoRequestOutlivesSearch
<1>1. Init => IInv
  <2> SUFFICES ASSUME Init PROVE IInv
    OBVIOUS
  <2>1. DOMAIN detail = {} /\ stage = "choosing"
    BY DEF Init, InitSearch, InitRetrieval
  <2>2. Holding = {} /\ Unfinished = {}
    BY <2>1 DEF Holding, Unfinished
  <2> QED
    BY <2>1, <2>2, FS_EmptySet, LiteApiAssumption DEF IInv, DetailShape, NoRequestOutlivesSearch
<1>2. IInv /\ [Next]_vars => IInv'
  BY NextIInv
<1>3. IInv => NoRequestOutlivesSearch
  BY DEF IInv
<1> QED
  BY <1>1, <1>2, <1>3, PTL DEF Spec
-----------------------------------------------------------------------------
(* Sorting. *)

(* A sort by a strict order loses and adds nothing.                        *)
LEMMA ArrangedIsAList ==
    ASSUME NEW s, IsList(s), NEW R, StrictOrder(R, DOMAIN s)
    PROVE  IsList(Arranged(s, R)) /\ Len(Arranged(s, R)) = Len(s) /\ ToSet(Arranged(s, R)) = ToSet(s)
<1> DEFINE n == Len(s)
           r == Ranking(DOMAIN s, R)
           t == Arranged(s, R)
<1>1. n \in Nat /\ DOMAIN s = 1 .. n /\ IsFiniteSet(DOMAIN s)
  BY ListShape
<1>2. Cardinality(DOMAIN s) = n
  <2>1. 1 \in Int /\ n \in Int
    BY <1>1
  <2>2. Cardinality(1 .. n) = IF 1 > n THEN 0 ELSE n - 1 + 1
    BY <2>1, FS_Interval
  <2> QED
    BY <1>1, <2>2
<1>3. /\ r \in [1 .. n -> DOMAIN s]
      /\ \A i \in DOMAIN s : \E k \in 1 .. n : r[k] = i
  <2>1. /\ r \in [1 .. Cardinality(DOMAIN s) -> DOMAIN s]
        /\ \A i \in DOMAIN s : \E k \in 1 .. Cardinality(DOMAIN s) : r[k] = i
    BY <1>1, RankingIsAPermutation
  <2> QED
    BY <1>2, <2>1
<1>4. t = [k \in DOMAIN s |-> s[r[k]]]
  <2>1. \A i : {j \in DOMAIN s : <<j, i>> \in R} = Ahead(DOMAIN s, R, i)
    BY DEF Ahead
  <2>2. r = [k \in 1 .. n |-> CHOOSE i \in DOMAIN s : Cardinality(Ahead(DOMAIN s, R, i)) = k - 1]
    BY <1>2 DEF Ranking
  <2> HIDE DEF r
  <2>3. t = [k \in DOMAIN s |-> s[CHOOSE i \in DOMAIN s : Cardinality(Ahead(DOMAIN s, R, i)) = k - 1]]
    BY DEF Arranged, Ahead
  <2> QED
    BY <1>1, <2>2, <2>3
<1> HIDE DEF r, t
<1>5. IsList(t) /\ Len(t) = n
  <2>1. t = [k \in DOMAIN s |-> t[k]]
    BY <1>4
  <2> QED
    BY <2>1, SamePlacesIsList
<1>6. ToSet(t) = ToSet(s)
  <2>1. \A k \in 1 .. n : t[k] = s[r[k]] /\ r[k] \in DOMAIN s
    BY <1>1, <1>3, <1>4
  <2>2. DOMAIN t = 1 .. n
    BY <1>1, <1>4
  <2>3. \A x : x \in ToSet(t) => x \in ToSet(s)
    BY <2>1, <2>2 DEF ToSet
  <2>4. ASSUME NEW i \in DOMAIN s PROVE s[i] \in ToSet(t)
    <3>1. PICK k \in 1 .. n : r[k] = i
      BY <1>3
    <3>2. t[k] = s[i] /\ k \in DOMAIN t
      BY <2>1, <2>2, <3>1
    <3> QED
      BY <3>2 DEF ToSet
  <2>5. \A x : x \in ToSet(s) => x \in ToSet(t)
    BY <2>4 DEF ToSet
  <2> QED
    BY <2>3, <2>5
<1> QED
  BY <1>5, <1>6 DEF t

ScoresAreNumbers(s) == \A i \in DOMAIN s : s[i].score \in Int

LEMMA SortedIsAList ==
    ASSUME NEW s, IsList(s), ScoresAreNumbers(s)
    PROVE  IsList(SortedByScore(s)) /\ ToSet(SortedByScore(s)) = ToSet(s)
<1> DEFINE before(j, i) == s[j].score > s[i].score \/ (s[j].score = s[i].score /\ j < i)
           R == {p \in (DOMAIN s) \X (DOMAIN s) : before(p[1], p[2])}
<1>1. DOMAIN s \subseteq Int
  BY ListShape
<1>2. \A i, j \in DOMAIN s : <<j, i>> \in R <=> before(j, i)
  OBVIOUS
<1>3. StrictOrder(R, DOMAIN s)
  <2> HIDE DEF R
  <2>1. \A i \in DOMAIN s : ~before(i, i)
    BY <1>1 DEF ScoresAreNumbers
  <2>2. \A i, j, k \in DOMAIN s : before(i, j) /\ before(j, k) => before(i, k)
    BY <1>1 DEF ScoresAreNumbers
  <2>3. \A i, j \in DOMAIN s : i = j \/ before(i, j) \/ before(j, i)
    BY <1>1 DEF ScoresAreNumbers
  <2> HIDE DEF before
  <2> QED
    BY <1>2, <2>1, <2>2, <2>3 DEF StrictOrder
<1>4. SortedByScore(s) = Arranged(s, R)
  BY DEF SortedByScore
<1> HIDE DEF R
<1> QED
  BY <1>3, <1>4, ArrangedIsAList
TierNames == {"strong", "partial", "weak"}

TiersAreNamed(s) == \A i \in DOMAIN s : s[i].tier \in TierNames

(* The order of the selection is one: two items of a tier, score and type   *)
(* are of different rounds.                                                *)
LEMMA RankedIsAList ==
    ASSUME NEW r, r.types \in Seq(STRING), NEW s, IsList(s), ScoresAreNumbers(s), TiersAreNamed(s)
    PROVE  IsList(Ranked(r, s)) /\ Len(Ranked(r, s)) = Len(s) /\ ToSet(Ranked(r, s)) = ToSet(s)
<1> DEFINE tier(i) == TierOrder[s[i].tier]
           score(i) == s[i].score
           type(i) == TypePlace(r, s[i])
           equal(i, j) == tier(i) = tier(j) /\ score(i) = score(j)
           peers(i) == {j \in 1 .. (i - 1) : equal(i, j) /\ type(i) = type(j)}
           round(i) == Cardinality(peers(i))
           other(i) == type(i) > Len(r.types)
           diverse(i, j) ==
               IF other(i) \/ other(j) THEN (~other(i) /\ other(j)) \/ (other(i) /\ other(j) /\ i < j)
               ELSE round(i) < round(j) \/ (round(i) = round(j) /\ type(i) < type(j))
           before(i, j) ==
               \/ tier(i) < tier(j)
               \/ tier(i) = tier(j) /\ score(i) > score(j)
               \/ equal(i, j) /\ i # j /\ (IF Len(r.types) > 1 THEN diverse(i, j) ELSE i < j)
           R == {p \in (DOMAIN s) \X (DOMAIN s) : before(p[1], p[2])}
           L == Len(r.types)
<1>1. DOMAIN s \subseteq Int /\ L \in Nat /\ DOMAIN r.types = 1 .. L
  BY ListShape, LenProperties
<1>2. \A i \in DOMAIN s : tier(i) \in Int /\ score(i) \in Int
  BY DEF TierOrder, TierNames, TiersAreNamed, ScoresAreNumbers
<1>3. \A i \in DOMAIN s : type(i) \in Int
  <2> TAKE i \in DOMAIN s
  <2>1. CASE \E k \in DOMAIN r.types : r.types[k] = s[i].listing.type
    <3>1. type(i) \in DOMAIN r.types
      BY <2>1 DEF TypePlace
    <3> QED
      BY <1>1, <3>1
  <2>2. CASE ~\E k \in DOMAIN r.types : r.types[k] = s[i].listing.type
    BY <1>1, <2>2 DEF TypePlace
  <2> QED
    BY <2>1, <2>2
<1>4. \A i \in DOMAIN s : IsFiniteSet(peers(i)) /\ round(i) \in Int
  <2> TAKE i \in DOMAIN s
  <2>1. IsFiniteSet(1 .. (i - 1))
    BY <1>1, FS_Interval
  <2>2. peers(i) \in SUBSET (1 .. (i - 1))
    OBVIOUS
  <2>3. IsFiniteSet(peers(i))
    BY <2>1, <2>2, FS_Subset
  <2>4. round(i) \in Nat
    BY <2>3, FS_CardinalityType
  <2> QED
    BY <2>3, <2>4
<1>5. ASSUME NEW i \in DOMAIN s, NEW j \in DOMAIN s, equal(i, j), type(i) = type(j), i < j
      PROVE  round(i) < round(j)
  <2>1. i \in Int /\ j \in Int /\ i \in 1 .. (j - 1)
    <3>1. DOMAIN s = 1 .. Len(s) /\ Len(s) \in Nat
      BY ListShape
    <3> QED
      BY <1>5, <3>1
  <2>2. i \notin peers(i)
    BY <2>1
  <2>3. peers(i) \cup {i} \in SUBSET peers(j)
    BY <1>5, <2>1
  <2>4. IsFiniteSet(peers(i)) /\ IsFiniteSet(peers(j)) /\ round(i) \in Int /\ round(j) \in Int
    BY <1>4
  <2> HIDE DEF peers
  <2>5. Cardinality(peers(i) \cup {i}) = Cardinality(peers(i)) + 1
    BY <2>2, <2>4, FS_AddElement
  <2>6. Cardinality(peers(i) \cup {i}) <= Cardinality(peers(j))
    BY <2>3, <2>4, FS_Subset
  <2> QED
    BY <2>4, <2>5, <2>6
<1>6. \A i, j \in DOMAIN s : equal(i, j) /\ type(i) = type(j) /\ round(i) = round(j) => i = j
  <2> SUFFICES ASSUME NEW i \in DOMAIN s, NEW j \in DOMAIN s, equal(i, j), type(i) = type(j), round(i) = round(j)
               PROVE  i = j
    OBVIOUS
  <2>1. round(i) \in Int /\ i \in Int /\ j \in Int
    BY <1>1, <1>4
  <2>2. i < j => round(i) < round(j)
    BY <1>5
  <2>3. j < i => round(j) < round(i)
    BY <1>5
  <2> QED
    BY <2>1, <2>2, <2>3
<1>7. \A i, j \in DOMAIN s : <<i, j>> \in R <=> before(i, j)
  <2> HIDE DEF before
  <2> QED
    OBVIOUS
<1>8. StrictOrder(R, DOMAIN s)
  <2> HIDE DEF R, tier, score, type, round, L
  <2>1. \A i \in DOMAIN s : ~before(i, i)
    BY <1>1, <1>2, <1>3, <1>4
  <2>2. ASSUME NEW i \in DOMAIN s, NEW j \in DOMAIN s, NEW k \in DOMAIN s, before(i, j), before(j, k)
        PROVE  before(i, k)
    <3>1. \A x \in {i, j, k} : x \in Int /\ tier(x) \in Int /\ score(x) \in Int /\ type(x) \in Int /\ round(x) \in Int
      BY <1>1, <1>2, <1>3, <1>4
    <3>2. ~equal(i, j) \/ ~equal(j, k) => before(i, k)
      BY <2>2, <3>1
    <3>3. CASE equal(i, j) /\ equal(j, k)
      <4>1. i # j /\ j # k /\ equal(i, k)
        BY <2>2, <3>1, <3>3
      <4>2. CASE L > 1
        <5>1. diverse(i, j) /\ diverse(j, k)
          BY <2>2, <3>1, <3>3, <4>2 DEF L
        <5>2. diverse(i, k) /\ i # k
          BY <1>1, <3>1, <4>1, <5>1 DEF L
        <5> HIDE DEF diverse
        <5> QED
          BY <4>1, <4>2, <5>2 DEF L
      <4>3. CASE ~(L > 1)
        <5>1. i < j /\ j < k
          BY <2>2, <3>1, <3>3, <4>3 DEF L
        <5>2. i < k
          BY <3>1, <5>1
        <5> HIDE DEF diverse
        <5> QED
          BY <3>1, <4>1, <4>3, <5>2 DEF L
      <4> QED
        BY <4>2, <4>3
    <3> QED
      BY <3>2, <3>3
  <2>3. ASSUME NEW i \in DOMAIN s, NEW j \in DOMAIN s PROVE i = j \/ before(i, j) \/ before(j, i)
    <3>1. \A x \in {i, j} : x \in Int /\ tier(x) \in Int /\ score(x) \in Int /\ type(x) \in Int /\ round(x) \in Int
      BY <1>1, <1>2, <1>3, <1>4
    <3>2. equal(i, j) /\ type(i) = type(j) /\ round(i) = round(j) => i = j
      BY <1>6
    <3>3. ~equal(i, j) => before(i, j) \/ before(j, i)
      BY <3>1
    <3>4. equal(i, j) /\ i # j => diverse(i, j) \/ diverse(j, i)
      BY <1>1, <3>1, <3>2 DEF L
    <3>5. i < j \/ j < i \/ i = j
      BY <3>1
    <3> HIDE DEF diverse
    <3> QED
      BY <3>3, <3>4, <3>5
  <2> HIDE DEF before
  <2> QED
    BY <1>7, <2>1, <2>2, <2>3 DEF StrictOrder
<1>9. Ranked(r, s) = Arranged(s, R)
  BY DEF Ranked
<1> HIDE DEF R
<1> QED
  BY <1>8, <1>9, ArrangedIsAList
-----------------------------------------------------------------------------
(* What is known of every evaluated listing. *)

ItemFields == {"listing", "matches", "numeric", "results", "score", "tier", "said", "quotes"}

NumbersAsked(r) ==
    {a \in {"bedrooms", "bathrooms", "area_sqm"} : Asked(r.filters[a])}
        \cup {a \in {"price_total"} : r.price.min \cup r.price.max # {}}

IsItem(r, item) ==
    /\ DOMAIN item = ItemFields
    /\ item.matches \in [KnownFields(r, {"must", "nice", "forbidden"}) -> Ternary]
    /\ item.numeric \in [NumbersAsked(r) -> Ternary]
    /\ DOMAIN item.results \subseteq Positions(r)
    /\ \A c \in DOMAIN item.results : item.results[c] \in Ternary
    /\ DOMAIN item.said \subseteq DOMAIN item.results
    /\ item.score \in Int

LEMMA FieldsAreLists ==
    ASSUME NEW r, IsRequest(r), NEW c \in Positions(r)
    PROVE  r.constraints[c].fields \in Seq(STRING)
<1> DEFINE T == [priority : {"must", "nice", "forbidden"}, known : BOOLEAN, fields : Seq(STRING),
                 strategy : {"structured", "textual", "none"}, namesPart : BOOLEAN]
<1>1. IsList(r.constraints) /\ ToSet(r.constraints) \subseteq T
  <2>1. r.constraints \in Seq(T)
    BY DEF IsRequest
  <2> HIDE DEF T
  <2> QED
    BY <2>1, SeqIsList
<1>2. r.constraints[c] \in T
  BY <1>1, ListShape DEF Positions
<1> QED
  BY <1>2

LEMMA FieldsAreFinite ==
    ASSUME NEW r, IsRequest(r), NEW priorities
    PROVE  IsFiniteSet(KnownFields(r, priorities)) /\ IsFiniteSet(Positions(r)) /\ Positions(r) \subseteq Int
<1> DEFINE C == {d \in Positions(r) : r.constraints[d].known /\ r.constraints[d].priority \in priorities}
           fields == [c \in C |-> ToSet(r.constraints[c].fields)]
<1>1. IsList(r.constraints)
  BY SeqIsList DEF IsRequest
<1>2. IsFiniteSet(Positions(r)) /\ Positions(r) \subseteq Int
  BY <1>1, ListShape DEF Positions
<1>3. IsFiniteSet(C)
  <2>1. C \in SUBSET Positions(r)
    OBVIOUS
  <2> QED
    BY <1>2, <2>1, FS_Subset
<1>4. \A c \in C : IsFiniteSet(fields[c])
  <2> TAKE c \in C
  <2>1. r.constraints[c].fields \in Seq(STRING)
    BY FieldsAreLists
  <2>2. IsFiniteSet(ToSet(r.constraints[c].fields))
    BY <2>1, SeqIsList, ListHasFinitely
  <2> QED
    BY <2>2
<1>5. KnownFields(r, priorities) = UNION {fields[c] : c \in C}
  BY DEF KnownFields
<1> HIDE DEF fields, C
<1>6. IsFiniteSet({fields[c] : c \in C})
  BY <1>3, ImageIsFinite
<1>7. \A S \in {fields[c] : c \in C} : IsFiniteSet(S)
  BY <1>4
<1>8. IsFiniteSet(UNION {fields[c] : c \in C})
  BY <1>6, <1>7, FS_UNION
<1> QED
  BY <1>2, <1>5, <1>8

LEMMA CountsAreNumbers ==
    ASSUME NEW S, IsFiniteSet(S), NEW f, NEW value
    PROVE  Cardinality(Having(f, value, S)) \in Nat
<1>1. Having(f, value, S) \in SUBSET S
  BY DEF Having
<1> QED
  BY <1>1, FS_Subset, FS_CardinalityType

LEMMA ScoreIsANumber ==
    ASSUME NEW r, IsRequest(r), NEW item, IsItem(r, item)
    PROVE  StructuredScore(r, item) \in Int /\ ResolutionDelta(r, item) \in Int
<1>1. IsFiniteSet(DOMAIN item.numeric)
  <2>1. IsFiniteSet((({"bedrooms"} \cup {"bathrooms"}) \cup {"area_sqm"}) \cup {"price_total"})
    BY FS_Singleton, FS_Union
  <2>2. DOMAIN item.numeric \in SUBSET ((({"bedrooms"} \cup {"bathrooms"}) \cup {"area_sqm"}) \cup {"price_total"})
    BY DEF IsItem, NumbersAsked
  <2> QED
    BY <2>1, <2>2, FS_Subset
<1>2. StructuredScore(r, item) \in Int
  <2> DEFINE a == Cardinality(Having(item.matches, "YES", KnownFields(r, {"must"})))
             b == Cardinality(Having(item.matches, "NO", KnownFields(r, {"must"})))
             c == Cardinality(Having(item.matches, "YES", KnownFields(r, {"nice"})))
             d == Cardinality(Having(item.numeric, "YES", DOMAIN item.numeric))
             e == Cardinality(Having(item.numeric, "NO", DOMAIN item.numeric))
  <2>1. a \in Nat /\ b \in Nat /\ c \in Nat /\ d \in Nat /\ e \in Nat
    BY <1>1, FieldsAreFinite, CountsAreNumbers
  <2>2. StructuredScore(r, item) = 10 * a - 100 * b + c + 10 * d - 100 * e
    BY DEF StructuredScore
  <2> HIDE DEF a, b, c, d, e
  <2> QED
    BY <2>1, <2>2
<1>3. ResolutionDelta(r, item) \in Int
  <2> DEFINE of(priority, decision) ==
                 {c \in DOMAIN item.results :
                     r.constraints[c].priority = priority /\ item.results[c] = decision}
             decided(priority, decision) == Cardinality(of(priority, decision))
  <2>1. IsFiniteSet(Positions(r))
    BY FieldsAreFinite
  <2>2. ASSUME NEW priority, NEW decision PROVE decided(priority, decision) \in Nat
    <3>1. of(priority, decision) \in SUBSET Positions(r)
      BY DEF IsItem
    <3> QED
      BY <2>1, <3>1, FS_Subset, FS_CardinalityType
  <2>3. ResolutionDelta(r, item)
           = 3 * (decided("must", "YES") + decided("nice", "YES") + decided("forbidden", "NO"))
                 - 100 * (decided("must", "NO") + decided("forbidden", "YES"))
    BY DEF ResolutionDelta
  <2> HIDE DEF decided
  <2> QED
    BY <2>2, <2>3
<1> QED
  BY <1>2, <1>3

LEMMA MatchedIsAnItem ==
    ASSUME request \in Requests, NEW l
    PROVE  IsItem(request, Matched(l))
<1> DEFINE K == KnownFields(request, {"must", "nice", "forbidden"})
           matches == [f \in K |-> MatchField(l.signals, f)]
           sizes == MatchSizes(l, request.filters)
           side(s) == IF s \in DOMAIN quotes THEN {q.quote : q \in quotes[s]} ELSE {}
           verdict == MatchPrice(request.price, ExtractTotalPrice(l), request.nights, [s \in {"min", "max"} |-> side(s)])
           price == [a \in {"price_total" : s \in {t \in {"min", "max"} : request.price[t] # {}}} |-> verdict]
           numeric == Joined(sizes, price)
<1>1. matches \in [K -> Ternary]
  <2>1. \A f : MatchField(l.signals, f) \in Ternary
    BY DEF MatchField, Ternary
  <2> QED
    BY <2>1
<1>2. sizes \in [{a \in {"bedrooms", "bathrooms", "area_sqm"} : Asked(request.filters[a])} -> Ternary]
  <2>1. \A values, range : MatchRange(values, range) \in Ternary
    BY DEF MatchRange, Ternary
  <2> QED
    BY <2>1 DEF MatchSizes
<1>3. verdict \in Ternary
  <2>1. \A p, t, n, q : MatchPrice(p, t, n, q) \in Ternary
    BY DEF MatchPrice, Ternary
  <2> QED
    BY <2>1
<1>4. DOMAIN price = {a \in {"price_total"} : request.price.min \cup request.price.max # {}}
  OBVIOUS
<1>5. \A a \in DOMAIN price : price[a] \in Ternary
  BY <1>3
<1> HIDE DEF sizes, price
<1>6. numeric \in [NumbersAsked(request) -> Ternary]
  BY <1>2, <1>4, <1>5 DEF Joined, NumbersAsked
<1>7. Matched(l) = [listing |-> l, matches |-> matches, numeric |-> numeric, results |-> <<>>, score |-> 0,
                    tier |-> "none", said |-> <<>>, quotes |-> quotes]
  BY DEF Matched, sizes, price
<1> HIDE DEF matches, numeric
<1>8. DOMAIN <<>> = {} /\ 0 \in Int
  OBVIOUS
<1> QED
  BY <1>1, <1>6, <1>7, <1>8 DEF IsItem, ItemFields
-----------------------------------------------------------------------------
(* The types of the retrieval. *)

Stages ==
    {"choosing", "scraping", "checking", "rates", "details", "collecting", "retrieved", "asking", "scored",
     "ranked", "graded", "done", "wording", "answered", "extracting", "matching", "replied", "failed"}

Errors == ErrorCodes \cup {"none", "unsupported_destination", "unsupported_request",
                           "configuration_error", "broken", "raised"}

Scalars == request \in Requests /\ stage \in Stages /\ late \in BOOLEAN /\ error \in Errors /\ now \in 0 .. MaxNow

Failures == ErrorCodes \cup {"provider_error", "invalid_response", "broken", "raised"}

(* A request for details: it has room for another attempt when it waits    *)
(* for one, and an answer when it has ended.                               *)
IsDetail(d) ==
    /\ d \in [state : {"queued", "sent", "backoff", "ended"}, attempt : 0 .. MaxAttempts,
              answer : DOMAIN Hotels \cup Failures \cup {"none"}]
    /\ d.state = "queued" => d.attempt = 0
    /\ d.state = "backoff" => d.attempt < MaxAttempts
    /\ d.state = "ended" => d.answer \in DOMAIN Hotels \cup Failures

DetailInv ==
    /\ stage \in {"details", "collecting"} =>
          offers \in RatesReplies \cup {<<>>} /\ DOMAIN detail = ToSet(HotelIds[offers])
    /\ \A h \in DOMAIN detail : IsDetail(detail[h])
    /\ stage = "collecting" => \A h \in DOMAIN detail : detail[h].state = "ended"

RetrievalInv == Scalars /\ DetailInv

(* What a step does that has nothing to do with the details.               *)
Settled ==
    \/ UNCHANGED <<stage, offers, detail>>
    \/ stage' \notin {"details", "collecting"} /\ detail' \in {detail, <<>>}

LEMMA SettledKeepsDetails ==
    ASSUME DetailInv, Settled
    PROVE  DetailInv'
<1>1. CASE UNCHANGED <<stage, offers, detail>>
  BY <1>1 DEF DetailInv, IsDetail
<1>2. CASE stage' \notin {"details", "collecting"} /\ detail' = detail
  BY <1>2 DEF DetailInv, IsDetail
<1>3. CASE stage' \notin {"details", "collecting"} /\ detail' = <<>>
  <2>1. DOMAIN detail' = {}
    BY <1>3
  <2> QED
    BY <1>3, <2>1 DEF DetailInv
<1> QED
  BY <1>1, <1>2, <1>3 DEF Settled

LEMMA CodesAreKnown ==
    ASSUME NEW fault
    PROVE  ErrorCode(fault) \in ErrorCodes
BY DEF ErrorCode, ErrorCodes

LEMMA RatesKeepTypes ==
    ASSUME Scalars, UNCHANGED rateVars,
           \/ Refuse \/ Misconfigured \/ AskRates \/ RatesTimeOut \/ RatesRetry \/ DeadlinePasses
           \/ \E fault \in Faults : RatesFault(fault)
           \/ \E code \in {"provider_error", "configuration_error", "raised"} : RatesRejected(code)
    PROVE  Scalars' /\ Settled
<1>1. CASE Refuse
  <2>1. Refusal(request) \in Errors
    BY DEF Refusal, Errors
  <2> QED
    BY <1>1, <2>1 DEF Refuse, Fail, Scalars, Stages, Settled, rateVars
<1>2. CASE Misconfigured
  BY <1>2 DEF Misconfigured, Fail, Scalars, Stages, Errors, Settled, rateVars
<1>3. CASE AskRates \/ RatesRetry \/ DeadlinePasses
  BY <1>3 DEF AskRates, RatesRetry, DeadlinePasses, Scalars, Stages, Settled, rateVars
<1>4. CASE RatesTimeOut
  BY <1>4 DEF RatesTimeOut, Fail, Scalars, Stages, Errors, ErrorCodes, Settled, rateVars
<1>5. ASSUME NEW fault \in Faults, RatesFault(fault) PROVE Scalars' /\ Settled
  <2>1. ErrorCode(fault) \in Errors
    BY CodesAreKnown DEF Errors
  <2> QED
    BY <1>5, <2>1 DEF RatesFault, Fail, Scalars, Stages, Settled, rateVars
<1>6. ASSUME NEW code \in {"provider_error", "configuration_error", "raised"}, RatesRejected(code) PROVE Scalars' /\ Settled
  BY <1>6 DEF RatesRejected, Fail, Scalars, Stages, Errors, ErrorCodes, Settled, rateVars
<1> QED
  BY <1>1, <1>2, <1>3, <1>4, <1>5, <1>6

LEMMA ScrapingKeepsTypes ==
    ASSUME Scalars, UNCHANGED rateVars, GetCandidates \/ ScrapingStep
    PROVE  Scalars' /\ Settled
<1>1. CASE GetCandidates
  BY <1>1 DEF GetCandidates, Scalars, Stages, Settled, rateVars
<1>2. CASE NoToken \/ MergeActors
  BY <1>2 DEF NoToken, MergeActors, Fail, Scalars, Stages, Errors, Settled, rateVars
<1>3. ASSUME NEW i, NEW code \in Errors, ActorFails(i, code) PROVE Scalars' /\ Settled
  BY <1>3 DEF ActorFails, Fail, Scalars, Stages, Settled, rateVars
<1>4. ASSUME NEW i, NEW reply, ActorReturns(i, reply) \/ ActorEndsLate(i) PROVE Scalars' /\ Settled
  BY <1>4 DEF ActorReturns, ActorEndsLate, retrievalVars, Scalars, Settled, rateVars
<1>5. \A fault \in Faults : ErrorCode(fault) \in Errors
  BY CodesAreKnown DEF Errors
<1>6. \A code \in {"invalid_response", "raised"} : code \in Errors
  BY DEF Errors, ErrorCodes
<1> QED
  BY <1>1, <1>2, <1>3, <1>4, <1>5, <1>6 DEF ScrapingStep, ActorStep

LEMMA EvaluationKeepsTypes ==
    ASSUME Scalars, EvaluationStep \/ Tick
    PROVE  Scalars' /\ Settled
<1>1. ASSUME NEW got, Convert(got) PROVE Scalars' /\ Settled
  BY <1>1 DEF Convert, retrievalVars, Scalars, Settled
<1>2. CASE ConvertRaises
  BY <1>2 DEF ConvertRaises, Fail, Scalars, Stages, Errors, Settled
<1>3. CASE MatchListing
  BY <1>3 DEF MatchListing, Scalars, Settled, rateVars
<1>4. ASSUME NEW answer, Ask(answer) PROVE Scalars' /\ Settled
  BY <1>4 DEF Ask, retrievalVars, Scalars, Settled, rateVars
<1>5. CASE Tick
  <2>1. now' \in 0 .. MaxNow
    BY <1>5, SearchAssumption DEF Tick, Scalars
  <2> QED
    BY <1>5, <2>1 DEF Tick, retrievalVars, Scalars, Settled
<1>6. CASE AskRaises
  BY <1>6 DEF AskRaises, Fail, Scalars, Stages, Errors, Settled, rateVars
<1>7. CASE RankStructured \/ ScoreResolutions \/ FilterAndSort \/ GradeItems \/ SelectItems
  BY <1>7 DEF RankStructured, ScoreResolutions, FilterAndSort, GradeItems, SelectItems,
              retrievalVars, Scalars, Stages, Settled, rateVars
<1> QED
  BY <1>1, <1>2, <1>3, <1>4, <1>5, <1>6, <1>7 DEF EvaluationStep

LEMMA AnsweringKeepsTypes ==
    ASSUME Scalars, AnswerStep \/ AskAboutShown
    PROVE  Scalars' /\ Settled
<1>1. CASE ComposeAnswer
  <2>1. 0 \in 0 .. MaxNow
    BY SearchAssumption
  <2> QED
    BY <1>1, <2>1 DEF ComposeAnswer, Scalars, Stages, Settled
<1>2. CASE WordAnswer \/ WordingFails \/ AnswerFailure
  BY <1>2 DEF WordAnswer, WordingFails, AnswerFailure, retrievalVars, Scalars, Stages, Settled, rateVars
<1>3. ASSUME NEW facts, ExtractFacts(facts) PROVE Scalars' /\ Settled
  BY <1>3 DEF ExtractFacts, retrievalVars, Scalars, Stages, Settled, rateVars
<1>4. CASE ExtractionFails \/ Reply
  BY <1>4 DEF ExtractionFails, Reply, retrievalVars, Scalars, Stages, Settled, rateVars
<1>5. ASSUME NEW said, AskFact(said) PROVE Scalars' /\ Settled
  BY <1>5 DEF AskFact, searchVars, retrievalVars, Scalars, Settled, rateVars
<1>6. CASE QuestionRaises \/ ReplyRaises
  BY <1>6 DEF QuestionRaises, ReplyRaises, Fail, Scalars, Stages, Errors, Settled, rateVars
<1>7. CASE AskAboutShown
  BY <1>7 DEF AskAboutShown, retrievalVars, Scalars, Stages, Settled, rateVars
<1> QED
  BY <1>1, <1>2, <1>3, <1>4, <1>5, <1>6, <1>7 DEF AnswerStep
(* parse_rates_response gives a list of hotels.                            *)
LEMMA HotelIdsAreListed ==
    ASSUME NEW reply \in RatesReplies \cup {<<>>}
    PROVE  /\ DOMAIN HotelIds[reply] \subseteq Nat
           /\ \A k \in DOMAIN HotelIds[reply] : HotelIds[reply][k] \in ToSet(HotelIds[reply])
<1> DEFINE first == {i \in DOMAIN reply :
                       /\ reply[i].offers # <<>>
                       /\ \A j \in 1 .. (i - 1) : reply[j].hotel = reply[i].hotel => reply[j].offers = <<>>}
           place(i) == Cardinality({j \in first : j <= i})
           count == IF Cardinality(first) < MaxDetailCalls THEN Cardinality(first) ELSE MaxDetailCalls
           ids == [k \in 1 .. count |-> reply[CHOOSE i \in first : place(i) = k].hotel]
<1>1. IsList(reply)
  <2>1. CASE reply \in RatesReplies
    <3> DEFINE T == [hotel : STRING, offers : Seq(Rate)]
    <3>1. reply \in Seq(T)
      BY <2>1, LiteApiAssumption
    <3> HIDE DEF T
    <3> QED
      BY <3>1, SeqIsList
  <2>2. CASE reply = <<>>
    BY <2>2, EmptySeq DEF IsList
  <2> QED
    BY <2>1, <2>2
<1>2. first \in SUBSET DOMAIN reply
  OBVIOUS
<1> HIDE DEF first
<1>3. Cardinality(first) \in Nat
  BY <1>1, <1>2, ListShape, FS_Subset, FS_CardinalityType
<1>4. count \in Nat
  BY <1>3, LiteApiAssumption
<1>5. HotelIds[reply] = ids
  BY DEF HotelIds, first
<1> HIDE DEF count
<1>6. DOMAIN ids = 1 .. count
  OBVIOUS
<1> HIDE DEF ids
<1> QED
  BY <1>4, <1>5, <1>6 DEF ToSet

LEMMA ArrivalsStartDetails ==
    ASSUME RetrievalInv, UNCHANGED rateVars, NEW reply \in RatesReplies, RatesArrive(reply)
    PROVE  RetrievalInv'
<1>1. Scalars'
  BY DEF RatesArrive, RetrievalInv, Scalars, Stages, rateVars
<1>2. /\ stage' = "details" /\ offers' = reply
      /\ detail' = [h \in ToSet(HotelIds[reply]) |-> [state |-> "queued", attempt |-> 0, answer |-> "none"]]
  BY DEF RatesArrive
<1>3. \A h \in DOMAIN detail' : detail'[h] = [state |-> "queued", attempt |-> 0, answer |-> "none"]
  BY <1>2
<1>4. IsDetail([state |-> "queued", attempt |-> 0, answer |-> "none"])
  <2>1. 0 \in 0 .. MaxAttempts
    BY LiteApiAssumption
  <2> QED
    BY <2>1 DEF IsDetail
<1>5. DOMAIN detail' = ToSet(HotelIds[reply])
  BY <1>2
<1>6. DetailInv'
  <2>1. (\A h \in DOMAIN detail : IsDetail(detail[h]))'
    BY <1>3, <1>4 DEF IsDetail
  <2> QED
    BY <1>2, <1>5, <2>1 DEF DetailInv
<1> QED
  BY <1>1, <1>6 DEF RetrievalInv

(* One request for details changes, and stays one.                         *)
LEMMA DetailChangeKeepsTypes ==
    ASSUME RetrievalInv, stage = "details", NEW h, NEW d, IsDetail(d),
           detail' = [detail EXCEPT ![h] = d], UNCHANGED <<request, stage, late, offers, error, now>>
    PROVE  RetrievalInv'
<1>1. Scalars'
  BY DEF RetrievalInv, Scalars
<1>2. DOMAIN detail' = DOMAIN detail /\ \A g \in DOMAIN detail : detail'[g] \in {detail[g], d}
  OBVIOUS
<1>3. \A g \in DOMAIN detail' : IsDetail(detail'[g])
  BY <1>2 DEF RetrievalInv, DetailInv
<1>4. DetailInv'
  <2>1. (\A g \in DOMAIN detail : IsDetail(detail[g]))'
    BY <1>3 DEF IsDetail
  <2> QED
    BY <1>2, <2>1 DEF RetrievalInv, DetailInv
<1> QED
  BY <1>1, <1>4 DEF RetrievalInv

LEMMA DetailsKeepTypes ==
    ASSUME RetrievalInv, UNCHANGED rateVars,
           \/ BeginDetail \/ EndDetails
           \/ \E h \in DOMAIN detail :
                 \/ DetailRetry(h)
                 \/ \E fault \in Faults : DetailFault(h, fault)
                 \/ \E answer \in DOMAIN Hotels \cup {"provider_error", "invalid_response", "broken", "raised"} :
                       DetailArrives(h, answer)
    PROVE  RetrievalInv'
<1>1. MaxAttempts \in Nat \ {0}
  BY LiteApiAssumption
<1>2. \A h \in DOMAIN detail : IsDetail(detail[h])
  BY DEF RetrievalInv, DetailInv
<1>3. ASSUME NEW h \in DOMAIN detail, detail[h].attempt < MaxAttempts PROVE IsDetail(Attempted(h))
  <2> DEFINE d == detail[h]
  <2>1. /\ d \in [state : {"queued", "sent", "backoff", "ended"}, attempt : 0 .. MaxAttempts,
                  answer : DOMAIN Hotels \cup Failures \cup {"none"}]
        /\ d.attempt < MaxAttempts
    BY <1>2, <1>3 DEF IsDetail
  <2>2. Attempted(h) = [d EXCEPT !.state = "sent", !.attempt = d.attempt + 1]
    BY DEF Attempted
  <2> HIDE DEF d
  <2>3. d.attempt + 1 \in 0 .. MaxAttempts
    BY <1>1, <2>1
  <2>4. Attempted(h) = [state |-> "sent", attempt |-> d.attempt + 1, answer |-> d.answer]
    BY <2>1, <2>2
  <2> QED
    BY <2>1, <2>3, <2>4 DEF IsDetail
<1>4. ASSUME NEW h \in DOMAIN detail, NEW answer \in DOMAIN Hotels \cup Failures PROVE IsDetail(Ended(h, answer))
  BY <1>2 DEF IsDetail, Ended
<1>5. CASE BeginDetail
  <2>1. PICK i \in Queued : detail' = [detail EXCEPT ![HotelIds[offers][i]] = Attempted(HotelIds[offers][i])]
    BY <1>5 DEF BeginDetail
  <2> DEFINE h == HotelIds[offers][i]
  <2>2. stage = "details" /\ UNCHANGED <<request, stage, late, offers, error, now>>
    BY <1>5 DEF BeginDetail, rateVars
  <2>3. h \in DOMAIN detail /\ detail[h].state = "queued"
    BY <2>1, <2>2, HotelIdsAreListed DEF Queued, RetrievalInv, DetailInv
  <2>4. detail[h].attempt = 0
    BY <1>2, <2>3 DEF IsDetail
  <2>5. IsDetail(Attempted(h))
    BY <1>1, <1>3, <2>3, <2>4
  <2>6. detail' = [detail EXCEPT ![h] = Attempted(h)]
    BY <2>1
  <2> HIDE DEF h
  <2> QED
    BY <2>2, <2>5, <2>6, DetailChangeKeepsTypes
<1>6. ASSUME NEW h \in DOMAIN detail, DetailRetry(h) PROVE RetrievalInv'
  <2>1. IsDetail(Attempted(h))
    BY <1>2, <1>3, <1>6 DEF DetailRetry, IsDetail
  <2> QED
    BY <1>6, <2>1, DetailChangeKeepsTypes DEF DetailRetry, rateVars
<1>7. ASSUME NEW h \in DOMAIN detail, NEW fault \in Faults, DetailFault(h, fault) PROVE RetrievalInv'
  <2> DEFINE d == IF Retries(fault, detail[h].attempt)
                  THEN [detail[h] EXCEPT !.state = "backoff"] ELSE Ended(h, ErrorCode(fault))
  <2>1. IsDetail(Ended(h, ErrorCode(fault)))
    BY <1>4, CodesAreKnown DEF Failures
  <2>2. Retries(fault, detail[h].attempt) => IsDetail([detail[h] EXCEPT !.state = "backoff"])
    BY <1>2 DEF Retries, IsDetail
  <2>3. IsDetail(d)
    BY <2>1, <2>2
  <2>4. detail' = [detail EXCEPT ![h] = d]
    BY <1>7 DEF DetailFault
  <2> HIDE DEF d
  <2> QED
    BY <1>7, <2>3, <2>4, DetailChangeKeepsTypes DEF DetailFault, rateVars
<1>8. ASSUME NEW h \in DOMAIN detail, NEW answer \in DOMAIN Hotels \cup Failures, DetailArrives(h, answer)
      PROVE  RetrievalInv'
  <2>1. IsDetail(Ended(h, answer))
    BY <1>4
  <2> QED
    BY <1>8, <2>1, DetailChangeKeepsTypes DEF DetailArrives, rateVars
<1>9. CASE EndDetails
  <2>1. stage = "details" /\ stage' = "collecting" /\ UNCHANGED <<request, late, offers, error, now>>
    BY <1>9 DEF EndDetails, rateVars
  <2>2. DOMAIN detail' = DOMAIN detail
        /\ \A h \in DOMAIN detail : detail'[h] = IF h \in Unfinished THEN Ended(h, "timeout") ELSE detail[h]
    BY <1>9 DEF EndDetails
  <2>3. \A h \in DOMAIN detail : IsDetail(detail'[h]) /\ detail'[h].state = "ended"
    <3> TAKE h \in DOMAIN detail
    <3>1. IsDetail(Ended(h, "timeout")) /\ Ended(h, "timeout").state = "ended"
      <4>1. "timeout" \in DOMAIN Hotels \cup Failures
        BY DEF Failures, ErrorCodes
      <4> QED
        BY <1>4, <4>1 DEF Ended
    <3>2. h \notin Unfinished => detail[h].state = "ended"
      BY DEF Unfinished
    <3> QED
      BY <1>2, <2>2, <3>1, <3>2
  <2>4. Scalars'
    BY <2>1 DEF RetrievalInv, Scalars, Stages
  <2>5. (\A h \in DOMAIN detail : IsDetail(detail[h]) /\ detail[h].state = "ended")'
    BY <2>2, <2>3 DEF IsDetail
  <2>6. DetailInv'
    BY <2>1, <2>2, <2>5 DEF RetrievalInv, DetailInv
  <2> QED
    BY <2>4, <2>6 DEF RetrievalInv
<1>10. DOMAIN Hotels \cup {"provider_error", "invalid_response", "broken", "raised"} \subseteq DOMAIN Hotels \cup Failures
  BY DEF Failures
<1> QED
  BY <1>5, <1>6, <1>7, <1>8, <1>9, <1>10

(* A search that fails for want of a usable hotel fails with what became   *)
(* of one of them.                                                         *)
LEMMA CollectingKeepsTypes ==
    ASSUME RetrievalInv, UNCHANGED rateVars, Collect \/ CollectFails
    PROVE  RetrievalInv'
<1>1. CASE Collect
  <2>1. Scalars' /\ Settled
    BY <1>1 DEF Collect, RetrievalInv, Scalars, Stages, Settled, rateVars
  <2> QED
    BY <2>1, SettledKeepsDetails DEF RetrievalInv
<1>2. CASE CollectFails
  <2>1. stage = "collecting" /\ stage' = "failed" /\ detail' = <<>> /\ UNCHANGED <<request, late, now>>
    BY <1>2 DEF CollectFails, Fail, rateVars
  <2>2. error' \in Errors
    <3>1. CASE error' = "raised"
      BY <3>1 DEF Errors
    <3>2. CASE /\ Answers # <<>>
               /\ \A i \in DOMAIN Answers : ~IsListing(Answers[i]) /\ Answers[i] # "raised"
               /\ error' = NothingUsable
      <4> DEFINE broken == {i \in DOMAIN Answers : Answers[i] = "broken"}
                 S == IF broken # {} THEN broken ELSE DOMAIN Answers
                 i == CHOOSE j \in S : \A k \in S : j <= k
      <4>1. offers \in RatesReplies \cup {<<>>} /\ DOMAIN detail = ToSet(HotelIds[offers])
        BY <2>1 DEF RetrievalInv, DetailInv
      <4>2. DOMAIN Answers = DOMAIN HotelIds[offers] /\ DOMAIN Answers \subseteq Nat
        BY <4>1, HotelIdsAreListed DEF Answers
      <4>3. DOMAIN Answers # {}
        BY <3>2 DEF Answers
      <4>4. S \in SUBSET Nat /\ S # {} /\ S \subseteq DOMAIN Answers
        BY <4>2, <4>3
      <4> HIDE DEF S
      <4>5. i \in S
        BY <4>4, LeastExists
      <4>6. error' = Answers[i]
        BY <3>2 DEF NothingUsable, FirstOf, S
      <4> HIDE DEF i
      <4>7. HotelIds[offers][i] \in DOMAIN detail /\ Answers[i] = detail[HotelIds[offers][i]].answer
        BY <4>1, <4>2, <4>4, <4>5, HotelIdsAreListed DEF Answers
      <4>8. IsDetail(detail[HotelIds[offers][i]]) /\ detail[HotelIds[offers][i]].state = "ended"
        BY <2>1, <4>7 DEF RetrievalInv, DetailInv
      <4>9. Answers[i] \in DOMAIN Hotels \cup Failures
        BY <4>7, <4>8 DEF IsDetail
      <4>10. Answers[i] \in Failures
        BY <3>2, <4>4, <4>5, <4>9 DEF IsListing
      <4> QED
        BY <4>6, <4>10 DEF Failures, Errors, ErrorCodes
    <3> QED
      BY <1>2, <3>1, <3>2 DEF CollectFails, Fail
  <2>3. Scalars' /\ Settled
    BY <2>1, <2>2 DEF RetrievalInv, Scalars, Stages, Settled
  <2> QED
    BY <2>3, SettledKeepsDetails DEF RetrievalInv
<1> QED
  BY <1>1, <1>2

LEMMA StepKeepsRetrievalTypes ==
    ASSUME RetrievalInv, [Next]_vars
    PROVE  RetrievalInv'
<1>1. ASSUME Scalars' /\ Settled PROVE RetrievalInv'
  BY <1>1, SettledKeepsDetails DEF RetrievalInv
<1>2. Scalars
  BY DEF RetrievalInv
<1>3. ASSUME RetrievalStep \/ ProviderStep \/ DeadlinePasses, UNCHANGED rateVars PROVE RetrievalInv'
  BY <1>1, <1>2, <1>3, RatesKeepTypes, ArrivalsStartDetails, DetailsKeepTypes, CollectingKeepsTypes
     DEF RetrievalStep, ProviderStep
<1>4. ASSUME GetCandidates \/ ScrapingStep, UNCHANGED rateVars PROVE RetrievalInv'
  BY <1>1, <1>2, <1>4, ScrapingKeepsTypes
<1>5. CASE EvaluationStep \/ Tick
  BY <1>1, <1>2, <1>5, EvaluationKeepsTypes
<1>6. CASE AnswerStep \/ AskAboutShown
  BY <1>1, <1>2, <1>6, AnsweringKeepsTypes
<1>7. CASE UNCHANGED vars
  BY <1>1, <1>2, <1>7 DEF vars, searchVars, retrievalVars, rateVars, Scalars, Settled
<1> QED
  BY <1>3, <1>4, <1>5, <1>6, <1>7 DEF Next, Searching, SearchNext, Retrieving, FromLiteApi
-----------------------------------------------------------------------------
(* The evaluated, the rejected and the shown listings. *)

Represented(r, item) == \A c \in Positions(r) : Covered(r.constraints[c]) => c \in DOMAIN item.results

EvaluationInv ==
    /\ IsList(items) /\ IsList(shown)
    /\ \A x \in ToSet(items) :
          /\ IsItem(request, x)
          /\ stage \in {"scored", "ranked", "graded"} => Represented(request, x)
          /\ stage = "graded" => x.tier \in TierNames
    /\ \A x \in ToSet(shown) : IsItem(request, x) /\ Represented(request, x) /\ x.tier \in TierNames
    /\ \A x \in dropped : IsItem(request, x)

(* What a step does that evaluates nothing.                                *)
EvaluationRests ==
    /\ UNCHANGED <<request, items, dropped, shown>>
    /\ stage' = stage \/ stage' \notin {"scored", "ranked", "graded"}

LEMMA RestKeepsEvaluation ==
    ASSUME EvaluationInv, EvaluationRests
    PROVE  EvaluationInv'
BY DEF EvaluationInv, EvaluationRests, IsList, ToSet, IsItem, Represented

LEMMA NoListing ==
    IsList(<<>>) /\ ToSet(<<>>) = {}
<1>1. DOMAIN <<>> = {}
  OBVIOUS
<1> QED
  BY <1>1, EmptySeq DEF IsList, ToSet

LEMMA RetrievalEvaluatesNothing ==
    ASSUME RetrievalStep \/ DeadlinePasses \/ ProviderStep \/ GetCandidates \/ ScrapingStep, UNCHANGED evaluationVars
    PROVE  EvaluationRests
<1>1. CASE Refuse \/ Misconfigured \/ AskRates \/ RatesTimeOut \/ RatesRetry
  BY <1>1 DEF Refuse, Misconfigured, AskRates, RatesTimeOut, RatesRetry, Fail, EvaluationRests, evaluationVars
<1>2. CASE CollectFails \/ Collect
  BY <1>2 DEF CollectFails, Collect, Fail, EvaluationRests, evaluationVars
<1>3. CASE DeadlinePasses \/ BeginDetail \/ EndDetails
  BY <1>3 DEF DeadlinePasses, BeginDetail, EndDetails, EvaluationRests, evaluationVars
<1>4. ASSUME NEW fault, RatesFault(fault) PROVE EvaluationRests
  BY <1>4 DEF RatesFault, Fail, EvaluationRests, evaluationVars
<1>5. ASSUME NEW code, RatesRejected(code) PROVE EvaluationRests
  BY <1>5 DEF RatesRejected, Fail, EvaluationRests, evaluationVars
<1>6. ASSUME NEW reply, RatesArrive(reply) PROVE EvaluationRests
  BY <1>6 DEF RatesArrive, EvaluationRests, evaluationVars
<1>7. ASSUME NEW h, DetailRetry(h) PROVE EvaluationRests
  BY <1>7 DEF DetailRetry, EvaluationRests, evaluationVars
<1>8. ASSUME NEW h, NEW x, DetailFault(h, x) \/ DetailArrives(h, x) PROVE EvaluationRests
  BY <1>8 DEF DetailFault, DetailArrives, EvaluationRests, evaluationVars
<1>9. CASE GetCandidates \/ NoToken \/ MergeActors
  BY <1>9 DEF GetCandidates, NoToken, MergeActors, Fail, EvaluationRests, evaluationVars
<1>10. ASSUME NEW i, NEW code, ActorFails(i, code) PROVE EvaluationRests
  BY <1>10 DEF ActorFails, Fail, EvaluationRests, evaluationVars
<1>11. ASSUME NEW i, NEW reply, ActorReturns(i, reply) \/ ActorEndsLate(i) PROVE EvaluationRests
  BY <1>11 DEF ActorReturns, ActorEndsLate, retrievalVars, EvaluationRests, evaluationVars
<1> QED
  BY <1>1, <1>2, <1>3, <1>4, <1>5, <1>6, <1>7, <1>8, <1>9, <1>10, <1>11
     DEF RetrievalStep, ProviderStep, ScrapingStep, ActorStep

LEMMA AnswerEvaluatesNothing ==
    ASSUME AnswerStep, ~ComposeAnswer
    PROVE  EvaluationRests
<1>1. CASE WordAnswer \/ WordingFails \/ AnswerFailure
  BY <1>1 DEF WordAnswer, WordingFails, AnswerFailure, retrievalVars, evaluationVars, EvaluationRests
<1>2. ASSUME NEW facts, ExtractFacts(facts) PROVE EvaluationRests
  BY <1>2 DEF ExtractFacts, retrievalVars, evaluationVars, EvaluationRests
<1>3. CASE ExtractionFails \/ Reply
  BY <1>3 DEF ExtractionFails, Reply, retrievalVars, evaluationVars, EvaluationRests
<1>4. ASSUME NEW said, AskFact(said) PROVE EvaluationRests
  BY <1>4 DEF AskFact, searchVars, retrievalVars, evaluationVars, EvaluationRests
<1>5. CASE QuestionRaises \/ ReplyRaises
  BY <1>5 DEF QuestionRaises, ReplyRaises, Fail, evaluationVars, EvaluationRests
<1> QED
  BY <1>1, <1>2, <1>3, <1>4, <1>5 DEF AnswerStep

LEMMA MatchingKeepsEvaluation ==
    ASSUME EvaluationInv, Scalars, MatchListing
    PROVE  EvaluationInv'
<1> DEFINE item == Matched(Head(listings))
           scored == [item EXCEPT !.score = StructuredScore(request, item)]
<1>1. IsItem(request, item) /\ IsRequest(request)
  BY MatchedIsAnItem, SearchAssumption DEF Scalars
<1>2. /\ stage = "retrieved" /\ UNCHANGED <<request, stage, shown>>
      /\ \/ dropped' = dropped \cup {item} /\ items' = items
         \/ items' = Append(items, scored) /\ dropped' = dropped
  BY DEF MatchListing
<1> HIDE DEF item
<1>3. IsItem(request, scored)
  <2>1. StructuredScore(request, item) \in Int
    BY <1>1, ScoreIsANumber
  <2> QED
    BY <1>1, <2>1 DEF IsItem, ItemFields
<1> HIDE DEF scored
<1>4. CASE dropped' = dropped \cup {item} /\ items' = items
  BY <1>1, <1>2, <1>4 DEF EvaluationInv, IsList, ToSet, IsItem, Represented
<1>5. CASE items' = Append(items, scored) /\ dropped' = dropped
  <2>1. IsList(Append(items, scored)) /\ ToSet(Append(items, scored)) \subseteq ToSet(items) \cup {scored}
    BY AppendIsList DEF EvaluationInv
  <2>2. IsList(items') /\ \A x \in ToSet(items') : IsItem(request, x)
    BY <1>3, <1>5, <2>1 DEF EvaluationInv
  <2>3. IsList(shown') /\ ToSet(shown') = ToSet(shown)
    BY <1>2 DEF EvaluationInv
  <2> HIDE DEF IsList
  <2> QED
    BY <1>2, <1>5, <2>2, <2>3 DEF EvaluationInv
<1> QED
  BY <1>2, <1>4, <1>5
LEMMA NewItemsKeepEvaluation ==
    ASSUME EvaluationInv, UNCHANGED <<request, shown>>,
           IsList(items'), dropped' \subseteq dropped \cup ToSet(items),
           \A x \in ToSet(items') :
              /\ IsItem(request, x)
              /\ stage' \in {"scored", "ranked", "graded"} => Represented(request, x)
              /\ stage' = "graded" => x.tier \in TierNames
    PROVE  EvaluationInv'
<1>1. IsList(shown') /\ ToSet(shown') = ToSet(shown)
  BY DEF EvaluationInv
<1>2. \A x \in dropped' : IsItem(request, x)
  BY DEF EvaluationInv
<1> HIDE DEF IsList
<1> QED
  BY <1>1, <1>2 DEF EvaluationInv

LEMMA AskingKeepsEvaluation ==
    ASSUME EvaluationInv, NEW answer, Ask(answer)
    PROVE  EvaluationInv'
<1>1. PICK k \in OpenItems : \E c \in Questions(k) : \E decision \in Ternary :
          items' = [items EXCEPT ![k].results = Joined(@, [d \in {c} |-> decision]),
                                 ![k].said = Joined(@, [d \in {c} |-> answer])]
  <2>1. \A a, c, l : Resolve(a, c, l) \in Ternary
    BY DEF Resolve, DecideFromAnalysis, Ternary
  <2> QED
    BY <2>1 DEF Ask
<1>2. PICK c \in Questions(k) : \E decision \in Ternary :
          items' = [items EXCEPT ![k].results = Joined(@, [d \in {c} |-> decision]),
                                 ![k].said = Joined(@, [d \in {c} |-> answer])]
  BY <1>1
<1>3. PICK decision \in Ternary :
          items' = [items EXCEPT ![k].results = Joined(@, [d \in {c} |-> decision]),
                                 ![k].said = Joined(@, [d \in {c} |-> answer])]
  BY <1>2
<1> DEFINE results == Joined(items[k].results, [d \in {c} |-> decision])
           said == Joined(items[k].said, [d \in {c} |-> answer])
           asked == [items[k] EXCEPT !.results = results, !.said = said]
<1>4. stage = "asking" /\ UNCHANGED <<request, stage, shown, dropped>>
  BY DEF Ask, retrievalVars
<1>5. k \in DOMAIN items /\ c \in Positions(request) /\ IsList(items) /\ IsItem(request, items[k])
  BY DEF OpenItems, Questions, EvaluationInv, ToSet
<1>6. items' = [items EXCEPT ![k] = asked]
  BY <1>3, <1>5
<1>7. IsItem(request, asked)
  <2>1. DOMAIN results = DOMAIN items[k].results \cup {c} /\ \A d \in DOMAIN results : results[d] \in Ternary
    BY <1>5 DEF Joined, IsItem
  <2>2. DOMAIN said = DOMAIN items[k].said \cup {c}
    BY DEF Joined
  <2> HIDE DEF results, said
  <2> QED
    BY <1>5, <2>1, <2>2 DEF IsItem, ItemFields
<1> HIDE DEF asked
<1>8. IsList(items') /\ ToSet(items') \subseteq ToSet(items) \cup {asked}
  <2>1. items' = [j \in DOMAIN items |-> items'[j]]
    BY <1>6
  <2>2. IsList(items') /\ DOMAIN items' = DOMAIN items
    BY <1>5, <2>1, SamePlacesIsList
  <2>3. \A j \in DOMAIN items : items'[j] \in ToSet(items) \cup {asked}
    BY <1>6 DEF ToSet
  <2> QED
    BY <2>2, <2>3 DEF ToSet
<1>9. \A x \in ToSet(items') : IsItem(request, x)
  BY <1>7, <1>8 DEF EvaluationInv
<1> QED
  BY <1>4, <1>8, <1>9, NewItemsKeepEvaluation

LEMMA RankingKeepsEvaluation ==
    ASSUME EvaluationInv, RankStructured
    PROVE  EvaluationInv'
<1>1. stage' = "asking" /\ items' = SortedByScore(items) /\ UNCHANGED <<request, dropped, shown>>
  BY DEF RankStructured, retrievalVars
<1>2. IsList(items) /\ ScoresAreNumbers(items)
  BY DEF EvaluationInv, ScoresAreNumbers, ToSet, IsItem
<1>3. IsList(items') /\ ToSet(items') = ToSet(items)
  BY <1>1, <1>2, SortedIsAList
<1>4. \A x \in ToSet(items') : IsItem(request, x)
  BY <1>3 DEF EvaluationInv
<1> QED
  BY <1>1, <1>3, <1>4, NewItemsKeepEvaluation

(* Whatever the fallback left out is on record as uncertain.               *)
LEMMA EnsuredIsRepresented ==
    ASSUME NEW r, NEW item, IsItem(r, item)
    PROVE  IsItem(r, EnsureRepresented(r, item)) /\ Represented(r, EnsureRepresented(r, item))
<1> DEFINE missing == {c \in Positions(r) : Covered(r.constraints[c])} \ DOMAIN item.results
           results == Joined(item.results, [c \in missing |-> "UNCERTAIN"])
<1>1. /\ DOMAIN results = DOMAIN item.results \cup missing
      /\ \A c \in DOMAIN results : results[c] \in Ternary
  BY DEF Joined, IsItem, Ternary
<1>2. EnsureRepresented(r, item) = [item EXCEPT !.results = results]
  BY DEF EnsureRepresented
<1> HIDE DEF results
<1>3. IsItem(r, EnsureRepresented(r, item))
  BY <1>1, <1>2 DEF IsItem, ItemFields
<1>4. EnsureRepresented(r, item).results = results
  BY <1>2 DEF IsItem, ItemFields
<1> QED
  BY <1>1, <1>3, <1>4 DEF Represented

LEMMA ScoringKeepsEvaluation ==
    ASSUME EvaluationInv, Scalars, ScoreResolutions
    PROVE  EvaluationInv'
<1> DEFINE ensured(k) == EnsureRepresented(request, items[k])
           scored(item) == [item EXCEPT !.score = @ + ResolutionDelta(request, item)]
<1>1. /\ stage' = "scored" /\ UNCHANGED <<request, dropped, shown>>
      /\ items' = [k \in DOMAIN items |-> scored(ensured(k))]
  BY DEF ScoreResolutions, retrievalVars
<1>2. IsList(items) /\ IsRequest(request)
  BY SearchAssumption DEF EvaluationInv, Scalars
<1>3. \A k \in DOMAIN items : IsItem(request, items[k])
  BY DEF EvaluationInv, ToSet
<1>4. \A k \in DOMAIN items : IsItem(request, ensured(k)) /\ Represented(request, ensured(k))
  BY <1>3, EnsuredIsRepresented
<1>5. ASSUME NEW item, IsItem(request, item), Represented(request, item)
      PROVE  IsItem(request, scored(item)) /\ Represented(request, scored(item))
  <2>1. ResolutionDelta(request, item) \in Int /\ item.score \in Int
    BY <1>2, <1>5, ScoreIsANumber DEF IsItem
  <2>2. item.score + ResolutionDelta(request, item) \in Int
    BY <2>1
  <2> QED
    BY <1>5, <2>2 DEF IsItem, ItemFields, Represented
<1> HIDE DEF ensured, scored
<1>6. IsList(items') /\ DOMAIN items' = DOMAIN items
  <2>1. items' = [k \in DOMAIN items |-> items'[k]]
    BY <1>1
  <2> QED
    BY <1>2, <2>1, SamePlacesIsList
<1>7. \A k \in DOMAIN items : IsItem(request, items'[k]) /\ Represented(request, items'[k])
  BY <1>1, <1>4, <1>5
<1>8. \A x \in ToSet(items') : IsItem(request, x) /\ Represented(request, x)
  BY <1>6, <1>7 DEF ToSet
<1> QED
  BY <1>1, <1>6, <1>8, NewItemsKeepEvaluation

LEMMA FilteringKeepsEvaluation ==
    ASSUME EvaluationInv, FilterAndSort
    PROVE  EvaluationInv'
<1> DEFINE positions == {k \in DOMAIN items : ~Rejected(items[k])}
           kept == Kept(items, positions)
<1>1. /\ stage = "scored" /\ stage' = "ranked" /\ UNCHANGED <<request, shown>>
      /\ items' = SortedByScore(kept) /\ dropped' \subseteq dropped \cup ToSet(items)
  BY DEF FilterAndSort, retrievalVars
<1>2. IsList(items) /\ positions \in SUBSET DOMAIN items
  BY DEF EvaluationInv
<1> HIDE DEF positions
<1>3. IsList(kept) /\ ToSet(kept) \subseteq ToSet(items)
  BY <1>2, KeptIsList DEF ToSet
<1>4. ScoresAreNumbers(kept)
  BY <1>3 DEF ScoresAreNumbers, EvaluationInv, IsItem, ToSet
<1> HIDE DEF kept
<1>5. IsList(items') /\ ToSet(items') \subseteq ToSet(items)
  BY <1>1, <1>3, <1>4, SortedIsAList
<1>6. \A x \in ToSet(items') : IsItem(request, x) /\ Represented(request, x)
  BY <1>1, <1>5 DEF EvaluationInv
<1> QED
  BY <1>1, <1>5, <1>6, NewItemsKeepEvaluation

LEMMA GradingKeepsEvaluation ==
    ASSUME EvaluationInv, GradeItems
    PROVE  EvaluationInv'
<1> DEFINE positions == {k \in DOMAIN items : MatchTier(request, items[k]) # "ineligible"}
           kept == Kept(items, positions)
<1>1. /\ stage = "ranked" /\ stage' = "graded" /\ UNCHANGED <<request, shown>>
      /\ items' = [k \in DOMAIN kept |-> [kept[k] EXCEPT !.tier = MatchTier(request, kept[k])]]
      /\ dropped' \subseteq dropped \cup ToSet(items)
  BY DEF GradeItems, Graded, retrievalVars
<1>2. IsList(items) /\ positions \in SUBSET DOMAIN items
  BY DEF EvaluationInv
<1>3. ToSet(kept) = {items[k] : k \in positions} /\ IsList(kept)
  <2> HIDE DEF positions
  <2> QED
    BY <1>2, KeptIsList
<1> HIDE DEF kept
<1>4. \A k \in DOMAIN kept : /\ IsItem(request, kept[k]) /\ Represented(request, kept[k])
                             /\ MatchTier(request, kept[k]) # "ineligible"
  <2> TAKE k \in DOMAIN kept
  <2>1. kept[k] \in {items[j] : j \in positions}
    BY <1>3 DEF ToSet
  <2>2. PICK j \in DOMAIN items : kept[k] = items[j] /\ MatchTier(request, items[j]) # "ineligible"
    BY <2>1
  <2>3. items[j] \in ToSet(items)
    BY DEF ToSet
  <2> QED
    BY <1>1, <2>2, <2>3 DEF EvaluationInv
<1>5. \A item : MatchTier(request, item) # "ineligible" => MatchTier(request, item) \in TierNames
  BY DEF MatchTier, TierNames
<1>6. IsList(items') /\ DOMAIN items' = DOMAIN kept
  <2>1. items' = [k \in DOMAIN kept |-> items'[k]]
    BY <1>1
  <2> QED
    BY <1>3, <2>1, SamePlacesIsList
<1>7. ASSUME NEW item, IsItem(request, item), Represented(request, item), NEW tier \in TierNames
      PROVE  LET graded == [item EXCEPT !.tier = tier]
             IN  IsItem(request, graded) /\ Represented(request, graded) /\ graded.tier \in TierNames
  BY <1>7 DEF IsItem, ItemFields, Represented
<1>8. \A k \in DOMAIN kept : IsItem(request, items'[k]) /\ Represented(request, items'[k]) /\ items'[k].tier \in TierNames
  BY <1>1, <1>4, <1>5, <1>7
<1>9. \A x \in ToSet(items') : IsItem(request, x) /\ Represented(request, x) /\ x.tier \in TierNames
  BY <1>6, <1>8 DEF ToSet
<1> QED
  BY <1>1, <1>6, <1>9, NewItemsKeepEvaluation

LEMMA SelectingKeepsEvaluation ==
    ASSUME EvaluationInv, Scalars, SelectItems
    PROVE  EvaluationInv'
<1> DEFINE n == IF Len(items) < ResultLimit THEN Len(items) ELSE ResultLimit
<1>1. /\ stage = "graded" /\ stage' = "done" /\ UNCHANGED <<request, dropped>>
      /\ items' = <<>> /\ shown' = SubSeq(Ranked(request, items), 1, n)
  BY DEF SelectItems, Select, retrievalVars
<1>2. IsList(items) /\ ScoresAreNumbers(items) /\ TiersAreNamed(items)
  BY <1>1 DEF EvaluationInv, ScoresAreNumbers, TiersAreNamed, ToSet, IsItem
<1>3. request.types \in Seq(STRING)
  BY SearchAssumption DEF Scalars, IsRequest
<1>4. /\ IsList(Ranked(request, items)) /\ Len(Ranked(request, items)) = Len(items)
      /\ ToSet(Ranked(request, items)) = ToSet(items)
  BY <1>2, <1>3, RankedIsAList
<1>5. n \in 0 .. Len(Ranked(request, items))
  BY <1>2, <1>4, ListShape, SearchAssumption
<1> HIDE DEF n
<1>6. IsList(shown') /\ ToSet(shown') \subseteq ToSet(items)
  BY <1>1, <1>4, <1>5, PrefixIsList
<1>7. \A x \in ToSet(shown') : IsItem(request, x) /\ Represented(request, x) /\ x.tier \in TierNames
  BY <1>1, <1>6 DEF EvaluationInv
<1>8. IsList(items') /\ ToSet(items') = {}
  BY <1>1, NoListing
<1>9. \A x \in dropped' : IsItem(request, x)
  BY <1>1 DEF EvaluationInv
<1> HIDE DEF IsList
<1> QED
  BY <1>1, <1>6, <1>7, <1>8, <1>9 DEF EvaluationInv

LEMMA StepKeepsEvaluation ==
    ASSUME EvaluationInv, Scalars, [Next]_vars
    PROVE  EvaluationInv'
<1>1. ASSUME RetrievalStep \/ DeadlinePasses \/ ProviderStep \/ GetCandidates \/ ScrapingStep, UNCHANGED evaluationVars
      PROVE  EvaluationInv'
  BY <1>1, RetrievalEvaluatesNothing, RestKeepsEvaluation
<1>2. ASSUME NEW got, Convert(got) PROVE EvaluationInv'
  BY <1>2, RestKeepsEvaluation DEF Convert, retrievalVars, EvaluationRests
<1>3. CASE ConvertRaises \/ AskRaises \/ Tick
  BY <1>3, RestKeepsEvaluation DEF ConvertRaises, AskRaises, Tick, Fail, retrievalVars, evaluationVars, EvaluationRests
<1>4. CASE EvaluationStep \/ Tick
  BY <1>2, <1>3, <1>4, MatchingKeepsEvaluation, AskingKeepsEvaluation, RankingKeepsEvaluation, ScoringKeepsEvaluation,
     FilteringKeepsEvaluation, GradingKeepsEvaluation, SelectingKeepsEvaluation DEF EvaluationStep
<1>5. CASE ComposeAnswer
  BY <1>5 DEF ComposeAnswer, EvaluationInv, IsList, ToSet, IsItem, Represented
<1>6. CASE AskAboutShown
  <2>1. /\ shown' = <<>> /\ stage' = "extracting" /\ UNCHANGED <<request, items, dropped>>
    BY <1>6 DEF AskAboutShown, retrievalVars
  <2>2. IsList(shown') /\ ToSet(shown') = {}
    BY <2>1, NoListing
  <2>3. IsList(items')
    BY <2>1 DEF EvaluationInv
  <2> HIDE DEF IsList
  <2> QED
    BY <2>1, <2>2, <2>3 DEF EvaluationInv
<1>7. CASE AnswerStep
  BY <1>5, <1>7, AnswerEvaluatesNothing, RestKeepsEvaluation
<1>8. CASE UNCHANGED vars
  BY <1>8, RestKeepsEvaluation DEF vars, searchVars, retrievalVars, evaluationVars, EvaluationRests
<1> QED
  BY <1>1, <1>4, <1>6, <1>7, <1>8 DEF Next, Searching, SearchNext, Retrieving, FromLiteApi
-----------------------------------------------------------------------------
(* The answer and the reply. *)

SearchStages ==
    {"choosing", "scraping", "checking", "rates", "details", "collecting", "retrieved", "asking", "scored",
     "ranked", "graded"}

CardsOfShown == [k \in DOMAIN shown |-> AnswerCard(request, shown[k], k)]

(* A reply numbers each listing as it is shown and has a verdict per fact. *)
RepliedInFull ==
    /\ [t \in DOMAIN response.items |-> response.items[t].position] = question.targets
    /\ \A item \in ToSet(response.items) : DOMAIN item.verdicts = DOMAIN question.facts

AnswerInv ==
    /\ stage \in SearchStages \cup {"done"} =>
          cards = <<>> /\ response = NoResponse /\ question = NoQuestion /\ resolved = <<>>
    /\ cards = <<>> \/ cards = CardsOfShown
    /\ stage = "wording" => cards = CardsOfShown
    /\ stage \in {"wording", "answered", "extracting"} => resolved = <<>>
    /\ stage = "failed" => resolved = <<>> \/ error = "raised"
    /\ response.kind \in {"none", "search", "failure", "informational", "listing_query"}
    /\ response.source \in {"none", "llm", "deterministic", "deterministic_fallback"}
    /\ response.rows = IF response.source = "deterministic_fallback" THEN UserAnswer(cards) ELSE <<>>
    /\ response.source = "deterministic_fallback" => cards = CardsOfShown
    /\ DOMAIN shownSet \subseteq Nat
    /\ DOMAIN question = {"targets", "facts", "matches"}
    /\ question.targets = [t \in DOMAIN question.targets |-> question.targets[t]]
    /\ \A t \in DOMAIN question.targets : question.targets[t] \in DOMAIN shownSet
    /\ \A t \in DOMAIN resolved : \A i \in DOMAIN resolved[t] :
          i \in DOMAIN question.facts /\ resolved[t][i].value \in Ternary
    /\ response.kind = "listing_query" => stage = "replied" /\ RepliedInFull

SearchRuns == stage \in SearchStages /\ stage' \in SearchStages \cup {"done", "failed"}

LEMMA SearchingAnswersNothing ==
    ASSUME SearchNext
    PROVE  SearchRuns \/ UNCHANGED <<stage, shown, request, error>>
<1> USE DEF SearchRuns, SearchStages
<1>1. CASE Refuse \/ Misconfigured \/ AskRates \/ RatesTimeOut \/ RatesRetry
  BY <1>1 DEF Refuse, Misconfigured, AskRates, RatesTimeOut, RatesRetry, Fail
<1>2. CASE CollectFails \/ Collect
  BY <1>2 DEF CollectFails, Collect, Fail
<1>3. CASE DeadlinePasses \/ BeginDetail \/ EndDetails
  BY <1>3 DEF DeadlinePasses, BeginDetail, EndDetails
<1>4. ASSUME NEW fault, RatesFault(fault) PROVE SearchRuns
  BY <1>4 DEF RatesFault, Fail
<1>5. ASSUME NEW code, RatesRejected(code) PROVE SearchRuns
  BY <1>5 DEF RatesRejected, Fail
<1>6. ASSUME NEW reply, RatesArrive(reply) PROVE SearchRuns
  BY <1>6 DEF RatesArrive
<1>7. ASSUME NEW h, DetailRetry(h) PROVE SearchRuns
  BY <1>7 DEF DetailRetry
<1>8. ASSUME NEW h, NEW x, DetailFault(h, x) \/ DetailArrives(h, x) PROVE SearchRuns
  BY <1>8 DEF DetailFault, DetailArrives
<1>9. CASE GetCandidates \/ NoToken \/ MergeActors
  BY <1>9 DEF GetCandidates, NoToken, MergeActors, Fail
<1>10. ASSUME NEW i, NEW code, ActorFails(i, code) PROVE SearchRuns
  BY <1>10 DEF ActorFails, Fail
<1>11. ASSUME NEW i, NEW reply, ActorReturns(i, reply) PROVE SearchRuns
  BY <1>11 DEF ActorReturns
<1>12. ASSUME NEW i, ActorEndsLate(i), UNCHANGED evaluationVars PROVE UNCHANGED <<stage, shown, request, error>>
  BY <1>12 DEF ActorEndsLate, retrievalVars, evaluationVars
<1>13. ASSUME NEW got, Convert(got) PROVE SearchRuns
  BY <1>13 DEF Convert, Unconverted
<1>14. CASE ConvertRaises \/ Tick
  BY <1>14 DEF ConvertRaises, Tick, Unconverted, Fail
<1>15. CASE MatchListing \/ RankStructured \/ AskRaises
  BY <1>15 DEF MatchListing, RankStructured, AskRaises, Fail
<1>16. ASSUME NEW answer, Ask(answer) PROVE SearchRuns
  BY <1>16 DEF Ask
<1>17. CASE ScoreResolutions \/ FilterAndSort \/ GradeItems \/ SelectItems
  BY <1>17 DEF ScoreResolutions, FilterAndSort, GradeItems, SelectItems
<1> QED
  BY <1>1, <1>2, <1>3, <1>4, <1>5, <1>6, <1>7, <1>8, <1>9, <1>10, <1>11, <1>12, <1>13, <1>14, <1>15, <1>16, <1>17
     DEF SearchNext, Retrieving, FromLiteApi, RetrievalStep, ProviderStep, ScrapingStep, ActorStep, EvaluationStep

LEMMA SearchKeepsAnswer ==
    ASSUME AnswerInv, UNCHANGED answerVars, SearchRuns \/ UNCHANGED <<stage, shown, request, error>>
    PROVE  AnswerInv'
<1>1. CASE UNCHANGED <<stage, shown, request, error>>
  BY <1>1 DEF AnswerInv, answerVars, CardsOfShown, RepliedInFull
<1>2. CASE SearchRuns
  <2>1. /\ cards' = <<>> /\ response' = NoResponse /\ question' = NoQuestion /\ resolved' = <<>>
        /\ stage' \in SearchStages \cup {"done", "failed"}
    BY <1>2 DEF AnswerInv, answerVars, SearchRuns
  <2>2. stage' \notin {"wording", "answered", "extracting"}
    BY <2>1 DEF SearchStages
  <2>3. DOMAIN resolved' = {} /\ DOMAIN question'.targets = {} /\ question'.targets = <<>>
    BY <2>1 DEF NoQuestion
  <2>4. /\ question'.targets = [t \in DOMAIN question'.targets |-> question'.targets[t]]
        /\ DOMAIN question' = {"targets", "facts", "matches"} /\ DOMAIN shownSet' \subseteq Nat
    BY <2>1, <2>3 DEF NoQuestion, AnswerInv, answerVars
  <2>5. response'.kind = "none" /\ response'.source = "none" /\ response'.rows = <<>>
    BY <2>1 DEF NoResponse
  <2> QED
    BY <2>1, <2>2, <2>3, <2>4, <2>5 DEF AnswerInv
<1> QED
  BY <1>1, <1>2
LEMMA RespondedFields ==
    ASSUME NEW message, Respond(message)
    PROVE  \A f \in {"kind", "source", "code", "rows", "items"} :
               response'[f] = IF f \in DOMAIN message THEN message[f] ELSE NoResponse[f]
BY DEF Respond, Joined, NoResponse

LEMMA ComposingKeepsAnswer ==
    ASSUME AnswerInv, EvaluationInv, ComposeAnswer
    PROVE  AnswerInv'
<1>1. /\ stage = "done" /\ stage' = "wording" /\ UNCHANGED <<request, shown, response, question, resolved>>
      /\ cards' = CardsOfShown
  BY DEF ComposeAnswer, CardsOfShown
<1>2. response = NoResponse /\ question = NoQuestion /\ resolved = <<>>
  BY <1>1 DEF AnswerInv
<1>3. cards' = CardsOfShown'
  BY <1>1 DEF CardsOfShown
<1>4. DOMAIN resolved' = {} /\ DOMAIN question'.targets = {} /\ question'.targets = <<>>
  BY <1>1, <1>2 DEF NoQuestion
<1>5. response'.kind = "none" /\ response'.source = "none" /\ response'.rows = <<>>
  BY <1>1, <1>2 DEF NoResponse
<1>6. /\ question'.targets = [t \in DOMAIN question'.targets |-> question'.targets[t]]
      /\ DOMAIN question' = {"targets", "facts", "matches"}
  BY <1>1, <1>2, <1>4 DEF NoQuestion
<1>7. DOMAIN shownSet' \subseteq Nat
  <2>1. DOMAIN shown \subseteq Nat
    BY ListShape DEF EvaluationInv
  <2> QED
    BY <2>1 DEF ComposeAnswer
<1> QED
  BY <1>1, <1>2, <1>3, <1>4, <1>5, <1>6, <1>7 DEF AnswerInv, SearchStages

LEMMA WordingKeepsAnswer ==
    ASSUME AnswerInv, WordAnswer \/ WordingFails \/ AnswerFailure
    PROVE  AnswerInv'
<1>1. /\ stage' = "answered" /\ UNCHANGED <<request, shown, shownSet, cards, question, resolved>>
      /\ resolved = <<>>
  BY DEF WordAnswer, WordingFails, AnswerFailure, RetrievalFailed, retrievalVars, evaluationVars, AnswerInv
<1>2. CardsOfShown' = CardsOfShown
  BY <1>1 DEF CardsOfShown
<1>3. /\ response'.kind \in {"search", "failure"}
      /\ response'.source \in {"llm", "deterministic", "deterministic_fallback"}
      /\ response'.rows = IF response'.source = "deterministic_fallback" THEN UserAnswer(cards') ELSE <<>>
      /\ response'.source = "deterministic_fallback" => cards' = CardsOfShown
  <2>1. CASE WordAnswer
    BY <2>1, RespondedFields DEF WordAnswer, NoResponse
  <2>2. CASE WordingFails
    BY <1>1, <2>2, RespondedFields DEF WordingFails, NoResponse, AnswerInv
  <2>3. CASE AnswerFailure
    BY <2>3, RespondedFields DEF AnswerFailure, NoResponse
  <2> QED
    BY <2>1, <2>2, <2>3
<1> QED
  BY <1>1, <1>2, <1>3 DEF AnswerInv, SearchStages

LEMMA AskingAboutShownKeepsAnswer ==
    ASSUME AnswerInv, AskAboutShown
    PROVE  AnswerInv'
<1>1. PICK targets \in Candidates : question' = [NoQuestion EXCEPT !.targets = targets]
  BY DEF AskAboutShown
<1>2. /\ stage = "answered" /\ stage' = "extracting" /\ cards' = <<>> /\ response' = NoResponse
      /\ UNCHANGED <<shownSet, resolved>>
  BY DEF AskAboutShown
<1>3. question'.targets = targets /\ DOMAIN question' = {"targets", "facts", "matches"}
  BY <1>1 DEF NoQuestion
<1>4. targets = [t \in DOMAIN targets |-> targets[t]] /\ \A t \in DOMAIN targets : targets[t] \in DOMAIN shownSet
  <2> DEFINE same(k) == {j \in DOMAIN shownSet : shownSet[j].id = shownSet[k].id}
             first(k) == CHOOSE j \in same(k) : \A i \in same(k) : j <= i
  <2>1. CASE targets = [k \in DOMAIN shownSet |-> k]
    BY <2>1
  <2>2. ASSUME NEW k \in DOMAIN shownSet, targets = <<first(k)>>
        PROVE  targets = [t \in DOMAIN targets |-> targets[t]] /\ \A t \in DOMAIN targets : targets[t] \in DOMAIN shownSet
    <3>1. same(k) \in SUBSET Nat /\ same(k) # {} /\ same(k) \subseteq DOMAIN shownSet
      BY DEF AnswerInv
    <3> HIDE DEF same
    <3>2. first(k) \in DOMAIN shownSet
      BY <3>1, LeastExists
    <3> HIDE DEF first
    <3>3. DOMAIN targets = {1} /\ targets[1] = first(k)
      BY <2>2
    <3> QED
      BY <2>2, <3>2, <3>3
  <2> QED
    BY <2>1, <2>2 DEF Candidates
<1>5. response'.kind = "none" /\ response'.source = "none" /\ response'.rows = <<>>
  BY <1>2 DEF NoResponse
<1>6. resolved' = <<>> /\ DOMAIN resolved' = {}
  BY <1>2 DEF AnswerInv
<1> QED
  BY <1>2, <1>3, <1>4, <1>5, <1>6 DEF AnswerInv, SearchStages

LEMMA ExtractingKeepsAnswer ==
    ASSUME AnswerInv, NEW facts, ExtractFacts(facts)
    PROVE  AnswerInv'
<1>1. /\ stage = "extracting" /\ stage' \in {"replied", "matching"}
      /\ UNCHANGED <<request, shown, shownSet, cards>>
  BY DEF ExtractFacts, retrievalVars, evaluationVars
<1>2. question'.targets = question.targets /\ DOMAIN question' = {"targets", "facts", "matches"}
  BY DEF ExtractFacts, AnswerInv
<1>3. \A t \in DOMAIN resolved' : resolved'[t] = <<>>
  BY DEF ExtractFacts, AnswerInv
<1>4. \A t \in DOMAIN resolved' : DOMAIN resolved'[t] = {}
  BY <1>3
<1>5. CASE response' = response
  <2>1. CardsOfShown' = CardsOfShown
    BY <1>1 DEF CardsOfShown
  <2> QED
    BY <1>1, <1>2, <1>4, <1>5, <2>1 DEF AnswerInv, SearchStages
<1>6. CASE response'.kind = "informational" /\ response'.source = "deterministic" /\ response'.rows = <<>>
  <2>1. CardsOfShown' = CardsOfShown
    BY <1>1 DEF CardsOfShown
  <2> QED
    BY <1>1, <1>2, <1>4, <1>6, <2>1 DEF AnswerInv, SearchStages
<1>7. ASSUME Respond([kind |-> "informational", source |-> "deterministic", code |-> "listing_query_unsupported"])
      PROVE  response'.kind = "informational" /\ response'.source = "deterministic" /\ response'.rows = <<>>
  BY <1>7, RespondedFields DEF NoResponse
<1> QED
  BY <1>5, <1>6, <1>7 DEF ExtractFacts

LEMMA FailingKeepsAnswer ==
    ASSUME AnswerInv, ExtractionFails \/ QuestionRaises \/ ReplyRaises
    PROVE  AnswerInv'
<1>1. stage \in {"extracting", "matching"} /\ UNCHANGED <<request, shown, shownSet, cards, question, resolved>>
  BY DEF ExtractionFails, QuestionRaises, ReplyRaises, OpenTargets, answerVars, retrievalVars, evaluationVars
<1>2. CardsOfShown' = CardsOfShown
  BY <1>1 DEF CardsOfShown
<1>3. CASE ExtractionFails
  <2>1. stage' = "replied"
    BY <1>3 DEF ExtractionFails
  <2>2. response'.kind = "failure" /\ response'.source = "deterministic" /\ response'.rows = <<>>
    BY <1>3, RespondedFields DEF ExtractionFails, NoResponse
  <2> QED
    BY <1>1, <1>2, <2>1, <2>2 DEF AnswerInv, SearchStages
<1>4. CASE QuestionRaises \/ ReplyRaises
  <2>1. stage' = "failed" /\ error' = "raised" /\ response' = response
    BY <1>4 DEF QuestionRaises, ReplyRaises, Fail, answerVars
  <2> QED
    BY <1>1, <1>2, <2>1 DEF AnswerInv, SearchStages
<1> QED
  BY <1>3, <1>4

LEMMA AskingFactsKeepsAnswer ==
    ASSUME AnswerInv, NEW said, AskFact(said)
    PROVE  AnswerInv'
<1>1. /\ stage = "matching"
      /\ UNCHANGED <<request, stage, error, shown, shownSet, cards, response, question>>
  BY DEF AskFact, OpenTargets, searchVars, retrievalVars, evaluationVars
<1>2. CardsOfShown' = CardsOfShown
  BY <1>1 DEF CardsOfShown
<1>3. PICK t \in OpenTargets : \E i \in OpenFacts(t) :
          resolved' = [resolved EXCEPT ![t] = Joined(@, [j \in {i} |->
              [value |-> Resolve(Analyses[said], question.facts[i], Target(t)), said |-> said]])]
  BY DEF AskFact
<1>4. PICK i \in OpenFacts(t) :
          resolved' = [resolved EXCEPT ![t] = Joined(@, [j \in {i} |->
              [value |-> Resolve(Analyses[said], question.facts[i], Target(t)), said |-> said]])]
  BY <1>3
<1> DEFINE value == Resolve(Analyses[said], question.facts[i], Target(t))
<1>5. value \in Ternary /\ i \in DOMAIN question.facts
  <2>1. \A a, c, l : Resolve(a, c, l) \in Ternary
    BY DEF Resolve, DecideFromAnalysis, Ternary
  <2>2. i \in DOMAIN question.facts
    BY DEF OpenFacts, ForText
  <2> QED
    BY <2>1, <2>2
<1>6. resolved' = [resolved EXCEPT ![t] = Joined(@, [j \in {i} |-> [value |-> value, said |-> said]])]
  BY <1>4
<1> HIDE DEF value
<1>7. \A u \in DOMAIN resolved' : \A j \in DOMAIN resolved'[u] :
          j \in DOMAIN question.facts /\ resolved'[u][j].value \in Ternary
  <2> DEFINE new == [j \in {i} |-> [value |-> value, said |-> said]]
             joined == Joined(resolved[t], new)
  <2>1. \A u \in DOMAIN resolved' : u \in DOMAIN resolved /\ resolved'[u] = IF u = t THEN joined ELSE resolved[u]
    BY <1>6
  <2>2. ASSUME t \in DOMAIN resolved, NEW j \in DOMAIN joined
        PROVE  j \in DOMAIN question.facts /\ joined[j].value \in Ternary
    <3>1. DOMAIN new = {i} /\ new[i].value \in Ternary
      BY <1>5
    <3> HIDE DEF new
    <3> QED
      BY <1>5, <2>2, <3>1 DEF Joined, AnswerInv
  <2> HIDE DEF joined
  <2> QED
    BY <2>1, <2>2 DEF AnswerInv
<1> QED
  BY <1>1, <1>2, <1>7 DEF AnswerInv, SearchStages, RepliedInFull

LEMMA ReplyingKeepsAnswer ==
    ASSUME AnswerInv, Reply
    PROVE  AnswerInv'
<1>1. /\ stage = "matching" /\ stage' = "replied" /\ ~Ambiguous
      /\ UNCHANGED <<request, shown, shownSet, cards, question, resolved>>
  BY DEF Reply, retrievalVars, evaluationVars
<1>2. CardsOfShown' = CardsOfShown
  BY <1>1 DEF CardsOfShown
<1> DEFINE replies == [t \in DOMAIN question.targets |-> ReplyItem(t)]
<1>3. /\ response'.kind = "listing_query" /\ response'.source = "deterministic" /\ response'.rows = <<>>
      /\ response'.items = replies
  BY RespondedFields DEF Reply, NoResponse
<1>4. ASSUME NEW t \in DOMAIN question.targets PROVE PositionOf(t) = question.targets[t]
  <2> DEFINE k == question.targets[t]
  <2>1. k \in DOMAIN shownSet
    BY DEF AnswerInv
  <2>2. \A j \in DOMAIN shownSet : shownSet[j].id = shownSet[k].id => j = k
    BY <1>1, <2>1 DEF Ambiguous
  <2>3. PositionOf(t) = CHOOSE j \in DOMAIN shownSet : shownSet[j].id = shownSet[k].id
    BY DEF PositionOf, Target
  <2> HIDE DEF k
  <2>4. PositionOf(t) = k
    BY <2>1, <2>2, <2>3
  <2> QED
    BY <2>4 DEF k
<1>5. \A t \in DOMAIN question.targets :
          /\ replies[t].position = question.targets[t]
          /\ DOMAIN replies[t].verdicts = DOMAIN question.facts
  BY <1>4 DEF ReplyItem
<1>6. DOMAIN replies = DOMAIN question.targets
  OBVIOUS
<1> HIDE DEF replies
<1>7. [t \in DOMAIN replies |-> replies[t].position] = question.targets
  <2>1. [t \in DOMAIN replies |-> replies[t].position] = [t \in DOMAIN question.targets |-> question.targets[t]]
    BY <1>5, <1>6
  <2> QED
    BY <2>1 DEF AnswerInv
<1>8. \A item \in ToSet(replies) : DOMAIN item.verdicts = DOMAIN question.facts
  BY <1>5, <1>6 DEF ToSet
<1>9. RepliedInFull'
  BY <1>1, <1>3, <1>7, <1>8 DEF RepliedInFull
<1> QED
  BY <1>1, <1>2, <1>3, <1>9 DEF AnswerInv, SearchStages

LEMMA StepKeepsAnswer ==
    ASSUME AnswerInv, EvaluationInv, [Next]_vars
    PROVE  AnswerInv'
<1>1. CASE Searching(SearchNext)
  BY <1>1, SearchingAnswersNothing, SearchKeepsAnswer DEF Searching
<1>2. CASE AnswerStep
  BY <1>2, ComposingKeepsAnswer, WordingKeepsAnswer, ExtractingKeepsAnswer, FailingKeepsAnswer, AskingFactsKeepsAnswer,
     ReplyingKeepsAnswer DEF AnswerStep
<1>3. CASE AskAboutShown
  BY <1>3, AskingAboutShownKeepsAnswer
<1>4. CASE UNCHANGED vars
  BY <1>4, SearchKeepsAnswer DEF vars, searchVars, retrievalVars, evaluationVars, answerVars
<1> QED
  BY <1>1, <1>2, <1>3, <1>4 DEF Next
-----------------------------------------------------------------------------
(* What a card says of the request. *)

Owed(r, c) ==
    \/ r.constraints[c].priority = "nice"
    \/ r.constraints[c].priority = "must" /\ ByField(r.constraints[c])
    \/ Covered(r.constraints[c])

Overridden(r, c) ==
    \E d \in Positions(r) : d > c /\ ToSet(r.constraints[d].fields) \cap ToSet(r.constraints[c].fields) # {}

(* A field that no later constraint has speaks for this one. *)
LEMMA FieldSpeaksForLast ==
    ASSUME NEW r, IsRequest(r), NEW c \in Positions(r), ~Overridden(r, c), NEW f \in ToSet(r.constraints[c].fields)
    PROVE  Holder(r, f) = c
<1> DEFINE holders == {d \in Positions(r) : f \in ToSet(r.constraints[d].fields)}
<1>1. Positions(r) \subseteq Int
  BY FieldsAreFinite
<1>2. c \in holders
  OBVIOUS
<1>3. \A d \in holders : ~(d > c)
  BY DEF Overridden
<1>4. \A d \in holders : d \in Int /\ d <= c
  BY <1>1, <1>2, <1>3
<1>5. Holder(r, f) = CHOOSE b \in holders : \A d \in holders : d <= b
  BY DEF Holder
<1> HIDE DEF holders
<1>6. \A b \in holders : (\A d \in holders : d <= b) => b = c
  BY <1>2, <1>4
<1> QED
  BY <1>2, <1>4, <1>5, <1>6

LEMMA OwedIsShown ==
    ASSUME NEW r, IsRequest(r), NEW item, IsItem(r, item), Represented(r, item),
           NEW c \in Positions(r), Owed(r, c), ~Overridden(r, c)
    PROVE  ShownStatus(r, item, c) # {}
<1> DEFINE said == StatusesOf(r, item, c)
<1>1. CASE r.constraints[c].priority = "nice"
  BY <1>1 DEF ShownStatus
<1>2. ASSUME NEW s \in said PROVE ShownStatus(r, item, c) # {}
  <2>1. said \subseteq {"failed", "matched", "uncertain"}
    BY DEF StatusesOf, Status
  <2>2. said = {"uncertain"} \/ "failed" \in said \/ "matched" \in said
    BY <1>2, <2>1
  <2> HIDE DEF said
  <2>3. ShownStatus(r, item, c) =
            CASE "failed" \in said -> {"failed"}
              [] "failed" \notin said /\ "matched" \in said -> {"matched"}
              [] said = {"uncertain"} -> {"uncertain"}
              [] OTHER -> IF r.constraints[c].priority = "nice" THEN {"uncertain"} ELSE {}
    BY DEF ShownStatus, said
  <2> QED
    BY <2>2, <2>3
<1>3. CASE r.constraints[c].priority = "must" /\ ByField(r.constraints[c])
  <2> DEFINE f == Head(r.constraints[c].fields)
  <2>1. f \in ToSet(r.constraints[c].fields)
    <3>1. r.constraints[c].fields \in Seq(STRING) /\ r.constraints[c].fields # <<>>
      BY <1>3, FieldsAreLists DEF ByField
    <3> QED
      BY <3>1 DEF ToSet
  <2>2. f \in KnownFields(r, {"must", "nice"})
    BY <1>3, <2>1 DEF KnownFields, ByField
  <2>3. Holder(r, f) = c
    BY <2>1, FieldSpeaksForLast
  <2>4. Status(item.matches[f]) \in said
    BY <2>2, <2>3 DEF StatusesOf
  <2> QED
    BY <1>2, <2>4
<1>4. CASE Covered(r.constraints[c])
  <2>1. c \in DOMAIN item.results
    BY <1>4 DEF Represented
  <2>2. Status(item.results[c]) \in said
    BY <2>1 DEF StatusesOf
  <2> QED
    BY <1>2, <2>2
<1> QED
  BY <1>1, <1>3, <1>4 DEF Owed

(* The card of a listing has each requirement that is owed, each number    *)
(* that was asked for and the price if there is a budget.                  *)
LEMMA CardSaysEverything ==
    ASSUME NEW r, IsRequest(r), NEW item, IsItem(r, item), Represented(r, item), NEW k
    PROVE  /\ \A c \in Positions(r) : Owed(r, c) /\ ~Overridden(r, c) => c \in DOMAIN AnswerCard(r, item, k).requested
           /\ DOMAIN AnswerCard(r, item, k).derived = NumbersAsked(r)
<1>1. AnswerCard(r, item, k).requested = RequestedStatuses(r, item)
  BY DEF AnswerCard
<1>2. AnswerCard(r, item, k).derived = DerivedStatuses(item)
  BY DEF AnswerCard
<1>3. DOMAIN DerivedStatuses(item) = DOMAIN item.numeric
  BY DEF DerivedStatuses
<1>4. DOMAIN item.numeric = NumbersAsked(r)
  BY DEF IsItem
<1>5. DOMAIN RequestedStatuses(r, item) = {d \in Positions(r) : ShownStatus(r, item, d) # {}}
  BY DEF RequestedStatuses
<1> QED
  BY <1>1, <1>2, <1>3, <1>4, <1>5, OwedIsShown

TypeInv == RetrievalInv /\ EvaluationInv /\ AnswerInv

LEMMA CardsAreOfShown ==
    ASSUME AnswerInv
    PROVE  /\ \A card \in ToSet(cards) : \E k \in DOMAIN shown : card = AnswerCard(request, shown[k], k)
           /\ \A row \in ToSet(response.rows) : \E k \in DOMAIN shown :
                 row = FormatTopResult(AnswerCard(request, shown[k], k))
<1>1. \A card \in ToSet(CardsOfShown) : \E k \in DOMAIN shown : card = AnswerCard(request, shown[k], k)
  BY DEF CardsOfShown, ToSet
<1>2. ToSet(<<>>) = {}
  BY NoListing
<1>3. cards = <<>> \/ cards = CardsOfShown
  BY DEF AnswerInv
<1>4. \A row \in ToSet(UserAnswer(CardsOfShown)) : \E k \in DOMAIN shown :
          row = FormatTopResult(AnswerCard(request, shown[k], k))
  BY DEF UserAnswer, CardsOfShown, ToSet
<1>5. response.rows = <<>> \/ response.rows = UserAnswer(CardsOfShown)
  BY DEF AnswerInv
<1> QED
  BY <1>1, <1>2, <1>3, <1>4, <1>5

LEMMA NothingDisappears ==
    ASSUME TypeInv
    PROVE  NoRequirementDisappears
<1>1. IsRequest(request)
  BY SearchAssumption DEF TypeInv, RetrievalInv, Scalars
<1>2. AnswerInv
  BY DEF TypeInv
<1> DEFINE requirements == {c \in Positions(request) : Owed(request, c) /\ ~Overridden(request, c)}
           numbers == {a \in DOMAIN request.filters : Asked(request.filters[a])}
<1>3. numbers = NumbersAsked(request) \ {"price_total"} /\ numbers \subseteq NumbersAsked(request)
  BY <1>1 DEF IsRequest, NumbersAsked
<1>4. ASSUME NEW k \in DOMAIN shown
      PROVE  /\ requirements \subseteq DOMAIN AnswerCard(request, shown[k], k).requested
             /\ DOMAIN AnswerCard(request, shown[k], k).derived = NumbersAsked(request)
  <2>1. shown[k] \in ToSet(shown)
    BY DEF ToSet
  <2>2. IsItem(request, shown[k]) /\ Represented(request, shown[k])
    BY <2>1 DEF TypeInv, EvaluationInv
  <2> QED
    BY <1>1, <2>2, CardSaysEverything
<1> HIDE DEF requirements, numbers
<1>5. ASSUME NEW card \in ToSet(cards)
      PROVE  /\ requirements \subseteq DOMAIN card.requested /\ numbers \subseteq DOMAIN card.derived
             /\ request.price.min \cup request.price.max # {} => "price_total" \in DOMAIN card.derived
  <2>1. PICK k \in DOMAIN shown : card = AnswerCard(request, shown[k], k)
    BY <1>2, CardsAreOfShown
  <2>2. request.price.min \cup request.price.max # {} => "price_total" \in NumbersAsked(request)
    BY DEF NumbersAsked
  <2> QED
    BY <1>3, <1>4, <2>1, <2>2
<1>6. ASSUME NEW row \in ToSet(response.rows)
      PROVE  requirements \subseteq DOMAIN row.requested /\ numbers \subseteq DOMAIN row.derived
  <2>1. PICK k \in DOMAIN shown : row = FormatTopResult(AnswerCard(request, shown[k], k))
    BY <1>2, CardsAreOfShown
  <2> DEFINE card == AnswerCard(request, shown[k], k)
  <2>2. requirements \subseteq DOMAIN card.requested /\ DOMAIN card.derived = NumbersAsked(request)
    BY <1>4
  <2> HIDE DEF card
  <2>3. row.requested = card.requested /\ DOMAIN row.derived = DOMAIN card.derived \ {"price_total"}
    BY <2>1 DEF FormatTopResult, card
  <2> QED
    BY <1>3, <2>2, <2>3
<1>7. response.source = "deterministic_fallback" => Len(response.rows) = Len(shown)
  <2> SUFFICES ASSUME response.source = "deterministic_fallback" PROVE Len(response.rows) = Len(shown)
    OBVIOUS
  <2>1. IsList(shown)
    BY DEF TypeInv, EvaluationInv
  <2>2. response.rows = UserAnswer(CardsOfShown)
    BY <1>2 DEF AnswerInv
  <2>3. DOMAIN CardsOfShown = DOMAIN shown
    BY DEF CardsOfShown
  <2>4. response.rows = [k \in DOMAIN shown |-> FormatTopResult(CardsOfShown[k])]
    BY <2>2, <2>3 DEF UserAnswer
  <2>5. response.rows = [k \in DOMAIN shown |-> response.rows[k]]
    BY <2>4
  <2> QED
    BY <2>1, <2>5, SamePlacesIsList
<1>8. response.kind = "listing_query" => RepliedInFull
  BY <1>2 DEF AnswerInv
<1> QED
  BY <1>5, <1>6, <1>7, <1>8 DEF NoRequirementDisappears, requirements, numbers, Owed, Overridden, RepliedInFull

LEMMA TypesAreAsStated ==
    ASSUME TypeInv
    PROVE  TypeOK
<1>1. Scalars /\ DetailInv /\ EvaluationInv /\ AnswerInv
  BY DEF TypeInv, RetrievalInv
<1>2. request \in Requests /\ late \in BOOLEAN /\ now \in 0 .. MaxNow
  BY <1>1 DEF Scalars
<1>3. \A h \in DOMAIN detail : detail[h].attempt \in 0 .. MaxAttempts
  BY <1>1 DEF DetailInv, IsDetail
<1>4. ASSUME NEW item \in ToSet(items) \cup ToSet(shown) \cup dropped
      PROVE  /\ item.matches \in [KnownFields(request, {"must", "nice", "forbidden"}) -> Ternary]
             /\ \A a \in DOMAIN item.numeric : item.numeric[a] \in Ternary
             /\ DOMAIN item.said \subseteq DOMAIN item.results
             /\ \A c \in DOMAIN item.results : c \in Positions(request) /\ item.results[c] \in Ternary
  <2>1. IsItem(request, item)
    BY <1>1 DEF EvaluationInv
  <2> QED
    BY <2>1 DEF IsItem
<1>5. /\ response.kind \in {"none", "search", "failure", "informational", "listing_query"}
      /\ response.source \in {"none", "llm", "deterministic", "deterministic_fallback"}
      /\ \A t \in DOMAIN question.targets : question.targets[t] \in DOMAIN shownSet
      /\ \A t \in DOMAIN resolved : \A i \in DOMAIN resolved[t] :
            i \in DOMAIN question.facts /\ resolved[t][i].value \in Ternary
  BY <1>1 DEF AnswerInv
<1>6. stage \in Stages /\ error \in Errors
  BY <1>1 DEF Scalars
<1> QED
  BY <1>2, <1>3, <1>4, <1>5, <1>6 DEF TypeOK, Stages, Errors

LEMMA InitTypes ==
    ASSUME Init
    PROVE  TypeInv
<1>1. IsList(<<>>) /\ ToSet(<<>>) = {} /\ DOMAIN <<>> = {}
  BY NoListing DEF ToSet
<1>2. request \in Requests /\ stage = "choosing" /\ late = FALSE /\ detail = <<>> /\ error = "none" /\ now = 0
  BY DEF Init, InitSearch, InitRetrieval
<1>3. items = <<>> /\ dropped = {} /\ shown = <<>>
  BY DEF Init, InitSearch
<1>4. shownSet = <<>> /\ cards = <<>> /\ response = NoResponse /\ question = NoQuestion /\ resolved = <<>>
  BY DEF Init
<1>5. RetrievalInv
  <2>1. 0 \in 0 .. MaxNow
    BY SearchAssumption
  <2> QED
    BY <1>1, <1>2, <2>1 DEF RetrievalInv, Scalars, DetailInv, Stages, Errors
<1>6. EvaluationInv
  BY <1>1, <1>2, <1>3 DEF EvaluationInv
<1>7. AnswerInv
  <2>1. /\ response.kind = "none" /\ response.source = "none" /\ response.rows = <<>>
        /\ DOMAIN question = {"targets", "facts", "matches"} /\ question.targets = <<>>
    BY <1>4 DEF NoResponse, NoQuestion
  <2>2. <<>> = [t \in {} |-> <<>>[t]]
    BY <1>1
  <2> QED
    BY <1>1, <1>2, <1>4, <2>1, <2>2 DEF AnswerInv, SearchStages
<1> QED
  BY <1>5, <1>6, <1>7 DEF TypeInv

LEMMA NextTypes ==
    ASSUME TypeInv, [Next]_vars
    PROVE  TypeInv'
<1>1. RetrievalInv'
  BY StepKeepsRetrievalTypes DEF TypeInv
<1>2. EvaluationInv'
  BY StepKeepsEvaluation DEF TypeInv, RetrievalInv
<1>3. AnswerInv'
  BY StepKeepsAnswer DEF TypeInv
<1> QED
  BY <1>1, <1>2, <1>3 DEF TypeInv

(* Each card says of every must and nice requirement whether it is met, of *)
(* every textual one that blocks and of every number asked for; so does    *)
(* the deterministic text, for each shown listing; and a reply has a       *)
(* verdict on each fact of each listing asked about, under its number      *)
(* (normalize_search_response, build_answer_payload, build_user_answer,    *)
(* _build_listing_query_outcome): whatever the listings and the LLM say.   *)
THEOREM NothingIsLost == Spec => []NoRequirementDisappears
<1>1. Init => TypeInv
  BY InitTypes
<1>2. TypeInv /\ [Next]_vars => TypeInv'
  BY NextTypes
<1>3. TypeInv => NoRequirementDisappears
  BY NothingDisappears
<1> QED
  BY <1>1, <1>2, <1>3, PTL DEF Spec

(* The types: of the retrieval, of each evaluated, rejected and shown      *)
(* listing (a value per canonical field and attribute, a decision per      *)
(* resolved constraint), of the answer and of the question about it.       *)
THEOREM AnswerTypeOK == Spec => []TypeOK
<1>1. Init => TypeInv
  BY InitTypes
<1>2. TypeInv /\ [Next]_vars => TypeInv'
  BY NextTypes
<1>3. TypeInv => TypeOK
  BY TypesAreAsStated
<1> QED
  BY <1>1, <1>2, <1>3, PTL DEF Spec
=============================================================================
