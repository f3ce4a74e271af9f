---------------------------- MODULE RequestProofs ----------------------------
(***************************************************************************)
(* How a model's calls are retried and how long that takes, and the stay, *)
(* the requirements and the budget a search is left with, for any          *)
(* exceptions, any messages and any length of a year.                      *)
(***************************************************************************)
EXTENDS Request, DataLemmas

-----------------------------------------------------------------------------
(* Retries.  The codes that are retried are those of the passing failures. *)

LEMMA RetryableIsPassing == \A e : IsRetryable(e) <=> e \in Passing
BY DEF IsRetryable, Passing, RetryableErrorCodes, RetryableRouterErrorCodes, Classify,
       LitellmErrors, ApiErrors, ClassifyLitellmError, ClassifyApiError

LEMMA OnlyBugsAreUnclassified ==
    \A e \in Exceptions : Classify(e) = "none" <=> e = "bug"
BY DEF Exceptions, Classify, LitellmErrors, ApiErrors, ClassifyLitellmError, ClassifyApiError

LEMMA AttemptsAreMax == stage \in Calls => MaxAttempts = AttemptsOf(stage) /\ MaxAttempts \in Nat \ {0}
BY LlmCallsAssumption DEF MaxAttempts, AttemptsOf, Calls, Stages

Raised == [call : Calls, error : Exceptions]
Codes == {Classify(e) : e \in Exceptions} \cup {"unexpected_error"}

(* During a call its failures so far have all been passing ones, one for   *)
(* each attempt before the current one.                                    *)
AttemptsFollow ==
    stage \in Calls =>
        /\ attempt = Len(raised) + 1
        /\ attempt <= MaxAttempts
        /\ Len(recorded) = Len(raised)
        /\ \A i \in DOMAIN raised : raised[i].call = stage /\ raised[i].error \in Passing

RetryInv ==
    /\ raised \in Seq(Raised)
    /\ recorded \in Seq(Codes)
    /\ AttemptsFollow
    /\ RetriesFollowErrors

LEMMA StartRetryInv == ASSUME NEW next \in Calls, StartCall(next) PROVE RetryInv'
<1>1. MaxAttempts' \in Nat \ {0}
  BY LlmCallsAssumption DEF StartCall, MaxAttempts
<1> QED
  BY <1>1 DEF StartCall, RetryInv, AttemptsFollow, RetriesFollowErrors, Calls

LEMMA RecordedOnce ==
    ASSUME NEW e \in Exceptions
    PROVE  /\ ErrorsRecorded(e) \in Seq(Codes)
           /\ Unrecorded([call |-> stage, error |-> e]) => Len(ErrorsRecorded(e)) = 0
           /\ ~Unrecorded([call |-> stage, error |-> e]) => Len(ErrorsRecorded(e)) = 1
<1> USE DEF Unrecorded, ModelIsUnbuilt
<1>0. CASE ModelIsUnbuilt(e)
  <2>1. ErrorsRecorded(e) = <<>>
    BY <1>0 DEF ErrorsRecorded
  <2>2. <<>> \in Seq(Codes)
    OBVIOUS
  <2>3. Len(ErrorsRecorded(e)) = 0
    BY <2>1
  <2>4. Unrecorded([call |-> stage, error |-> e])
    BY <1>0
  <2>5. ErrorsRecorded(e) \in Seq(Codes)
    BY <2>1, <2>2
  <2> QED
    BY <2>3, <2>4, <2>5
<1>1. CASE e = "bug"
  <2>1. Classify(e) = "none"
    BY <1>1, OnlyBugsAreUnclassified
  <2>2. CASE stage \in Stages
    <3>1. ErrorsRecorded(e) = <<>>
      BY <2>1, <2>2 DEF ErrorsRecorded
    <3>2. <<>> \in Seq(Codes)
      OBVIOUS
    <3>3. Len(ErrorsRecorded(e)) = 0
      BY <3>1
    <3>4. ErrorsRecorded(e) \in Seq(Codes)
      BY <3>1, <3>2
    <3>5. Unrecorded([call |-> stage, error |-> e])
      BY <1>1, <2>2
    <3> QED
      BY <3>3, <3>4, <3>5
  <2>3. CASE stage \notin Stages
    <3>1. ErrorsRecorded(e) = <<"unexpected_error">> /\ "unexpected_error" \in Codes
      BY <1>1, <2>1, <2>3 DEF ErrorsRecorded, Codes
    <3>2. Len(ErrorsRecorded(e)) = 1
      BY <3>1
    <3>3. ErrorsRecorded(e) \in Seq(Codes)
      BY <3>1
    <3>4. ~Unrecorded([call |-> stage, error |-> e])
      BY <1>1, <2>3
    <3> QED
      BY <3>2, <3>3, <3>4
  <2> QED
    BY <2>2, <2>3
<1>2. CASE e # "bug" /\ ~ModelIsUnbuilt(e)
  <2>1. Classify(e) # "none"
    BY <1>2, OnlyBugsAreUnclassified
  <2>2. ErrorsRecorded(e) = <<Classify(e)>>
    BY <1>2, <2>1 DEF ErrorsRecorded
  <2> QED
    BY <1>2, <2>2 DEF Codes
<1> QED
  BY <1>0, <1>1, <1>2

LEMMA FailureRetryInv ==
    ASSUME RetryInv, NEW e \in Exceptions, AttemptFails(e) \/ CallFails(e)
    PROVE  RetryInv'
<1> DEFINE last == [call |-> stage, error |-> e]
           n == Len(raised)
<1>1. stage \in Calls /\ raised' = Append(raised, last) /\ recorded' = recorded \o ErrorsRecorded(e)
  BY DEF AttemptFails, CallFails, Failed
<1>2. /\ attempt = n + 1 /\ attempt <= MaxAttempts /\ Len(recorded) = n
      /\ \A i \in 1..n : raised[i].call = stage /\ raised[i].error \in Passing
  BY <1>1 DEF RetryInv, AttemptsFollow
<1>3. MaxAttempts = AttemptsOf(stage) /\ MaxAttempts \in Nat \ {0}
  BY <1>1, AttemptsAreMax
<1>4. last \in Raised /\ n \in Nat /\ raised \in Seq(Raised) /\ recorded \in Seq(Codes)
  BY <1>1 DEF Raised, RetryInv
<1>5. /\ raised' \in Seq(Raised) /\ Len(raised') = n + 1 /\ raised'[n + 1] = last
      /\ \A i \in 1..n : raised'[i] = raised[i]
  BY <1>1, <1>4
<1>6. /\ recorded' \in Seq(Codes)
      /\ Unrecorded(last) => Len(recorded') = n
      /\ ~Unrecorded(last) => Len(recorded') = n + 1
  <2>1. /\ ErrorsRecorded(e) \in Seq(Codes)
        /\ Unrecorded(last) => Len(ErrorsRecorded(e)) = 0
        /\ ~Unrecorded(last) => Len(ErrorsRecorded(e)) = 1
    BY RecordedOnce
  <2>2. /\ recorded' \in Seq(Codes)
        /\ Len(recorded') = Len(recorded) + Len(ErrorsRecorded(e))
    BY <1>1, <1>4, <2>1
  <2>3. Len(recorded) = n /\ n \in Nat
    BY <1>2, <1>4
  <2> HIDE DEF last, n
  <2>4. CASE Unrecorded(last)
    BY <2>1, <2>2, <2>3, <2>4
  <2>5. CASE ~Unrecorded(last)
    BY <2>1, <2>2, <2>3, <2>5
  <2> QED
    BY <2>4, <2>5
<1>7. /\ raised' # <<>> /\ raised'[Len(raised')].call = stage /\ raised'[Len(raised')].error = e
      /\ AttemptsOf(raised[Len(raised)].call)' = MaxAttempts
  <2>1. raised' # <<>> /\ raised'[Len(raised')].call = stage /\ raised'[Len(raised')].error = e
    BY <1>4, <1>5
  <2>2. AttemptsOf(raised[Len(raised)].call)' = AttemptsOf(stage)
    BY <2>1 DEF AttemptsOf
  <2> QED
    BY <1>3, <2>1, <2>2
<1>8. /\ \A i \in 1..(Len(raised') - 1) : raised'[i].error \in Passing
      /\ Len(raised') = attempt /\ Len(raised') <= MaxAttempts
      /\ Len(recorded') = Len(raised') - (IF Unrecorded(last) THEN 1 ELSE 0)
  <2> HIDE DEF last
  <2>1. n \in Nat /\ Len(raised') = n + 1
    BY <1>4, <1>5
  <2>2. Len(raised') = attempt /\ Len(raised') <= MaxAttempts
    BY <1>2, <2>1
  <2>3. \A i \in 1..(Len(raised') - 1) : raised'[i].error \in Passing
    <3> HIDE DEF n
    <3>1. Len(raised') - 1 = n
      BY <2>1
    <3> QED
      BY <1>2, <1>5, <3>1
  <2>4. Len(recorded') = Len(raised') - (IF Unrecorded(last) THEN 1 ELSE 0)
    <3> HIDE DEF n
    <3> QED
      BY <1>6, <2>1
  <2> QED
    BY <2>2, <2>3, <2>4
<1>9. ASSUME (stage' \in {"failed", "crashed"}) = (e \notin Passing \/ attempt = MaxAttempts)
      PROVE  RetriesFollowErrors'
  <2> HIDE DEF last, n
  <2> QED
    BY <1>3, <1>7, <1>8, <1>9 DEF RetriesFollowErrors, Unrecorded, last
<1>10. CASE AttemptFails(e)
  <2>1. e \in Passing /\ attempt < MaxAttempts /\ attempt' = attempt + 1 /\ stage' = stage
    BY <1>10, RetryableIsPassing DEF AttemptFails, Retries
  <2>2. MaxAttempts' = MaxAttempts
    BY <2>1 DEF MaxAttempts
  <2>3. ~Unrecorded(last)
    BY <2>1 DEF Passing, Unrecorded
  <2>4. AttemptsFollow'
    BY <1>2, <1>3, <1>4, <1>5, <1>6, <2>1, <2>2, <2>3 DEF AttemptsFollow
  <2>5. stage' \notin {"failed", "crashed"}
    BY <1>1, <2>1 DEF Calls, Stages
  <2>6. RetriesFollowErrors'
    <3>1. ~(e \notin Passing \/ attempt = MaxAttempts)
      BY <1>2, <1>3, <1>4, <2>1
    <3> QED
      BY <1>9, <2>5, <3>1
  <2> QED
    BY <1>5, <1>6, <2>4, <2>6 DEF RetryInv
<1>11. CASE CallFails(e)
  <2>1. (e \notin Passing \/ attempt = MaxAttempts) /\ stage' \in {"failed", "crashed"}
    BY <1>2, <1>3, <1>11, RetryableIsPassing DEF CallFails, Retries
  <2>2. AttemptsFollow'
    BY <2>1 DEF AttemptsFollow, Calls, Stages
  <2>3. RetriesFollowErrors'
    BY <1>9, <2>1
  <2> QED
    BY <1>5, <1>6, <2>2, <2>3 DEF RetryInv
<1> QED
  BY <1>10, <1>11

(* A call that has not failed for good stays so.                           *)
LEMMA QuietRetryInv ==
    ASSUME RetryInv, UNCHANGED <<attempt, raised, recorded>>,
           stage \in Calls => stage' \notin Calls \cup {"failed", "crashed"},
           stage \notin Calls => stage' = stage
    PROVE  RetryInv'
<1>1. (stage \in {"failed", "crashed"}) <=> (stage' \in {"failed", "crashed"})
  BY DEF Calls, Stages
<1>2. AttemptsFollow'
  BY DEF AttemptsFollow
<1>3. RetriesFollowErrors'
  BY <1>1 DEF RetryInv, RetriesFollowErrors, AttemptsOf
<1> QED
  BY <1>2, <1>3 DEF RetryInv

LEMMA ScenarioRaises ==
    ASSUME scenario \in Scenarios, NEW e \in Raises[scenario] PROVE e \in Exceptions
BY RequestAssumption

LEMMA NextRetryInv ==
    ASSUME scenario \in Scenarios, RetryInv, [Next]_vars
    PROVE  scenario' \in Scenarios /\ RetryInv'
<1> USE DEF Calls, Stages
<1>1. CASE UNCHANGED vars
  <2>1. UNCHANGED <<attempt, raised, recorded, stage, scenario>>
    BY <1>1 DEF vars, callVars
  <2> QED
    BY <2>1 DEF RetryInv, AttemptsFollow, RetriesFollowErrors, MaxAttempts, AttemptsOf
<1>2. CASE NextDay
  <2>1. UNCHANGED <<attempt, raised, recorded, stage, scenario>>
    BY <1>2 DEF NextDay, callVars
  <2> QED
    BY <2>1 DEF RetryInv, AttemptsFollow, RetriesFollowErrors, MaxAttempts, AttemptsOf
<1>3. CASE Receive
  BY <1>3, StartRetryInv DEF Receive
<1>4. CASE CallRaises
  BY <1>4, ScenarioRaises, FailureRetryInv DEF CallRaises
<1>5. CASE Route
  BY <1>5, StartRetryInv DEF Route
<1>6. CASE AnswerFacts
  BY <1>6, QuietRetryInv DEF AnswerFacts, Answered, CallAnswers
<1>7. CASE Extract
  <2>1. /\ UNCHANGED <<attempt, raised, recorded, scenario>>
        /\ stage \in Calls /\ stage' \in {"decided", "replying"}
    BY <1>7 DEF Extract, StartSearch, Update, Answered, CallAnswers, RefuseUpdate, UpdateSearch, UpdateClarified
  <2> QED
    BY <2>1, QuietRetryInv
<1>8. CASE ReplyToClarification
  BY <1>8, StartRetryInv DEF ReplyToClarification
<1>9. CASE EndTurn
  BY <1>9 DEF EndTurn, RetryInv, AttemptsFollow, RetriesFollowErrors
<1> QED
  BY <1>1, <1>2, <1>3, <1>4, <1>5, <1>6, <1>7, <1>8, <1>9 DEF Next

(* Whatever the providers raise: what will not pass is not tried again,    *)
(* what may pass is, until the attempts are used up, and every failure of  *)
(* an attempt is in the trace once (call_llm_stage, the router's loop).    *)
THEOREM RetriesAreBounded == Spec => []RetriesFollowErrors
<1> DEFINE RInv == scenario \in Scenarios /\ RetryInv
<1>1. Init => RInv
  BY DEF Init, RetryInv, AttemptsFollow, RetriesFollowErrors, Calls, Stages
<1>2. RInv /\ [Next]_vars => RInv'
  BY NextRetryInv
<1>3. RInv => RetriesFollowErrors
  BY DEF RetryInv
<1> QED
  BY <1>1, <1>2, <1>3, PTL DEF Spec

-----------------------------------------------------------------------------
(* Time.  What k attempts, each up to its limit, and the pauses after them *)
(* can have taken.                                                         *)
RoutingTime(k) == k * (RouterTimeout + RouterDelay)
StageTime(k) == k * StageTimeout + StageBaseDelay * (TwoTo[k] - 1)

LEMMA PowersOfTwo ==
    /\ TwoTo \in [Nat -> Nat]
    /\ TwoTo[0] = 1
    /\ \A n \in Nat : TwoTo[n + 1] = 2 * TwoTo[n] /\ TwoTo[n] >= 1
<1> DEFINE step == [p \in (Nat \ {0}) \X Nat |-> 2 * p[2]]
           is(f) == f = [n \in Nat |-> IF n = 0 THEN 1 ELSE 2 * f[n - 1]]
<1>1. PICK f \in [Nat -> Nat] : NatRecursion(1, step, f)
  <2>1. step \in [(Nat \ {0}) \X Nat -> Nat] /\ 1 \in Nat
    OBVIOUS
  <2> HIDE DEF step
  <2> QED
    BY <2>1, NatRecursionExists
<1>2. is(f)
  <2>1. \A n \in Nat : n # 0 => n - 1 \in Nat /\ f[n - 1] \in Nat
    OBVIOUS
  <2>2. \A n \in Nat : f[n] = IF n = 0 THEN 1 ELSE 2 * f[n - 1]
    BY <1>1, <2>1 DEF NatRecursion
  <2>3. f = [n \in Nat |-> f[n]]
    OBVIOUS
  <2> HIDE DEF step
  <2> QED
    BY <2>2, <2>3
<1>3. is(TwoTo)
  <2>1. TwoTo = CHOOSE g : is(g)
    BY DEF TwoTo
  <2> HIDE DEF is
  <2> QED
    BY <1>2, <2>1
<1>4. \A n \in Nat : TwoTo[n] = IF n = 0 THEN 1 ELSE 2 * TwoTo[n - 1]
  BY <1>3
<1>5. TwoTo[0] = 1
  BY <1>4
<1>6. ASSUME NEW n \in Nat PROVE TwoTo[n + 1] = 2 * TwoTo[n]
  <2>1. n + 1 \in Nat /\ n + 1 # 0 /\ (n + 1) - 1 = n
    OBVIOUS
  <2>2. TwoTo[n + 1] = 2 * TwoTo[(n + 1) - 1]
    BY <1>4, <2>1
  <2> QED
    BY <2>1, <2>2
<1> DEFINE T == {n \in Nat : TwoTo[n] \in Nat /\ TwoTo[n] >= 1}
<1>7. 0 \in T /\ \A n \in Nat : n \in T => n + 1 \in T
  BY <1>5, <1>6
<1>8. \A n \in Nat : TwoTo[n] \in Nat /\ TwoTo[n] >= 1
  <2>1. Nat \subseteq T
    <3> HIDE DEF T
    <3> QED
      BY <1>7, SetInduction
  <2> QED
    BY <2>1
<1>9. TwoTo = [n \in Nat |-> TwoTo[n]]
  <2>1. TwoTo = [n \in Nat |-> IF n = 0 THEN 1 ELSE 2 * TwoTo[n - 1]]
    BY <1>3
  <2> QED
    BY <1>4, <2>1
<1>10. TwoTo \in [Nat -> Nat]
  BY <1>8, <1>9
<1> QED
  BY <1>5, <1>6, <1>8, <1>10

LEMMA LongerByOne ==
    ASSUME NEW k \in Nat
    PROVE  /\ RoutingTime(k) \in Nat /\ StageTime(k) \in Nat
           /\ RoutingTime(k + 1) = RoutingTime(k) + RouterTimeout + RouterDelay
           /\ StageTime(k + 1) = StageTime(k) + StageTimeout + StageBaseDelay * TwoTo[k]
<1> DEFINE p == TwoTo[k]
           b == StageBaseDelay
<1>1. p \in Nat /\ p >= 1 /\ TwoTo[k + 1] = 2 * p
  BY PowersOfTwo
<1>2. b \in Nat /\ StageTimeout \in Nat /\ RouterTimeout \in Nat /\ RouterDelay \in Nat
  BY LlmCallsAssumption
<1> HIDE DEF p, b
<1>3. b * (p - 1) \in Nat /\ b * (2 * p - 1) = b * (p - 1) + b * p
  BY <1>1, <1>2
<1>4. k * StageTimeout \in Nat /\ (k + 1) * StageTimeout = k * StageTimeout + StageTimeout
  BY <1>2
<1>5. StageTime(k) = k * StageTimeout + b * (p - 1)
  BY DEF StageTime, p, b
<1>6. StageTime(k + 1) = (k + 1) * StageTimeout + b * (2 * p - 1)
  BY <1>1 DEF StageTime, b
<1>7. StageTime(k + 1) = StageTime(k) + StageTimeout + b * p /\ StageTime(k) \in Nat
  <2>1. b * p \in Nat
    BY <1>1, <1>2
  <2> QED
    BY <1>2, <1>3, <1>4, <1>5, <1>6, <2>1
<1>8. RoutingTime(k) \in Nat /\ RoutingTime(k + 1) = RoutingTime(k) + RouterTimeout + RouterDelay
  BY <1>2 DEF RoutingTime
<1> QED
  BY <1>7, <1>8 DEF p, b

LEMMA TimesAreNat ==
    ASSUME NEW k \in Nat
    PROVE  RoutingTime(k) \in Nat /\ StageTime(k) \in Nat
BY LongerByOne

LEMMA TimeGrows ==
    ASSUME NEW n \in Nat
    PROVE  \A k \in 0 .. n : RoutingTime(k) <= RoutingTime(n) /\ StageTime(k) <= StageTime(n)
<1> DEFINE T == {m \in Nat : m <= n =>
                    RoutingTime(n - m) <= RoutingTime(n) /\ StageTime(n - m) <= StageTime(n)}
<1>1. 0 \in T
  <2>1. n - 0 = n /\ RoutingTime(n) \in Nat /\ StageTime(n) \in Nat
    BY LongerByOne
  <2> QED
    BY <2>1
<1>2. ASSUME NEW m \in Nat, m \in T PROVE m + 1 \in T
  <2> SUFFICES ASSUME m + 1 <= n
               PROVE  RoutingTime(n - (m + 1)) <= RoutingTime(n) /\ StageTime(n - (m + 1)) <= StageTime(n)
    OBVIOUS
  <2> DEFINE k == n - (m + 1)
  <2>1. k \in Nat /\ k + 1 = n - m /\ m <= n
    OBVIOUS
  <2>2. RoutingTime(k + 1) <= RoutingTime(n) /\ StageTime(k + 1) <= StageTime(n)
    BY <1>2, <2>1
  <2> HIDE DEF k
  <2>3. /\ RoutingTime(n) \in Nat /\ StageTime(n) \in Nat /\ RoutingTime(k) \in Nat /\ StageTime(k) \in Nat
        /\ RoutingTime(k + 1) = RoutingTime(k) + RouterTimeout + RouterDelay
        /\ StageTime(k + 1) = StageTime(k) + StageTimeout + StageBaseDelay * TwoTo[k]
    BY <2>1, LongerByOne
  <2>4. StageBaseDelay * TwoTo[k] \in Nat /\ {StageTimeout, RouterTimeout, RouterDelay} \subseteq Nat
    <3>1. StageBaseDelay \in Nat /\ TwoTo[k] \in Nat
      BY <2>1, PowersOfTwo, LlmCallsAssumption
    <3> QED
      BY <3>1, LlmCallsAssumption
  <2>5. RoutingTime(k) <= RoutingTime(n) /\ StageTime(k) <= StageTime(n)
    <3> DEFINE pause == StageBaseDelay * TwoTo[k]
    <3>1. pause \in Nat /\ StageTime(k + 1) = StageTime(k) + StageTimeout + pause
      BY <2>3, <2>4
    <3> HIDE DEF pause
    <3> QED
      BY <2>2, <2>3, <2>4, <3>1
  <2> QED
    BY <2>5 DEF k
<1>3. Nat \subseteq T
  <2> HIDE DEF T
  <2> QED
    BY <1>1, <1>2, SetInduction
<1> SUFFICES ASSUME NEW k \in 0 .. n
             PROVE  RoutingTime(k) <= RoutingTime(n) /\ StageTime(k) <= StageTime(n)
  OBVIOUS
<1>4. n - k \in T /\ n - k <= n /\ n - (n - k) = k
  BY <1>3
<1> QED
  BY <1>4

LEMMA LastAttempt ==
    /\ LongestRouting \in Nat /\ LongestStage \in Nat
    /\ \A k \in 1 .. RouterAttempts : RoutingTime(k - 1) + RouterTimeout <= LongestRouting
    /\ \A k \in 1 .. AttemptsOf("search_state_update") : StageTime(k - 1) + StageTimeout <= LongestStage
<1> DEFINE r == RouterAttempts - 1
           s == AttemptsOf("search_state_update") - 1
<1>1. r \in Nat /\ r + 1 = RouterAttempts /\ s \in Nat /\ s + 1 = AttemptsOf("search_state_update")
  BY LlmCallsAssumption DEF AttemptsOf, Stages
<1>2. {RouterTimeout, RouterDelay, StageTimeout, StageBaseDelay} \subseteq Nat
  BY LlmCallsAssumption
<1>3. LongestRouting = RoutingTime(r) + RouterTimeout
  BY <1>1, <1>2 DEF LongestRouting, RoutingTime
<1>4. LongestStage = StageTime(s) + StageTimeout
  <2>1. LongestStage = (s + 1) * StageTimeout + StageBaseDelay * (TwoTo[(s + 1) - 1] - 1)
    BY <1>1 DEF LongestStage
  <2> HIDE DEF s
  <2>2. (s + 1) - 1 = s /\ (s + 1) * StageTimeout = s * StageTimeout + StageTimeout
    BY <1>1, <1>2
  <2>3. StageTime(s) = s * StageTimeout + StageBaseDelay * (TwoTo[s] - 1)
    BY DEF StageTime
  <2>4. StageBaseDelay * (TwoTo[s] - 1) \in Int /\ s * StageTimeout \in Int
    <3>1. TwoTo[s] \in Nat
      BY <1>1, PowersOfTwo
    <3> QED
      BY <1>1, <1>2, <3>1
  <2> DEFINE pause == StageBaseDelay * (TwoTo[s] - 1)
  <2>5. LongestStage = (s + 1) * StageTimeout + pause /\ StageTime(s) = s * StageTimeout + pause /\ pause \in Int
    BY <2>1, <2>2, <2>3, <2>4
  <2> HIDE DEF pause
  <2> QED
    BY <1>1, <1>2, <2>2, <2>4, <2>5
<1>5. /\ RoutingTime(r) \in Nat /\ StageTime(s) \in Nat
      /\ \A k \in 0 .. r : RoutingTime(k) \in Nat /\ RoutingTime(k) <= RoutingTime(r)
      /\ \A k \in 0 .. s : StageTime(k) \in Nat /\ StageTime(k) <= StageTime(s)
  <2> HIDE DEF r, s
  <2> QED
    BY <1>1, TimesAreNat, TimeGrows
<1>6. /\ \A k \in 1 .. RouterAttempts : k - 1 \in 0 .. r
      /\ \A k \in 1 .. AttemptsOf("search_state_update") : k - 1 \in 0 .. s
  <2> HIDE DEF r, s
  <2> QED
    BY <1>1
<1> HIDE DEF r, s
<1> QED
  BY <1>2, <1>3, <1>4, <1>5, <1>6

(* An update that follows a clarified message comes after one stage more.  *)
Earlier(call) ==
    CASE call = "conversation_routing" -> 0
      [] call = "search_state_update" -> LongestRouting + LongestStage
      [] OTHER -> LongestRouting

Tried(call, k) == Earlier(call) + (IF call \in Stages THEN StageTime(k) ELSE RoutingTime(k))

Limit(call) == IF call \in Stages THEN StageTimeout ELSE RouterTimeout

TimeInv ==
    /\ spent \in Nat
    /\ stage \in Calls => spent <= Tried(stage, attempt - 1)
    /\ stage = "replying" => spent <= LongestRouting + LongestStage
    /\ spent <= LongestRouting + 2 * LongestStage

(* The last attempt of a call ends within its time.                        *)
LEMMA CallEndsInTime ==
    ASSUME NEW call \in Calls, NEW n \in 1 .. AttemptsOf(call),
           NEW time \in Nat, time <= Tried(call, n - 1)
    PROVE  /\ time + Limit(call) \in Nat
           /\ time + Limit(call) <= LongestRouting + 2 * LongestStage
           /\ call = "conversation_routing" => time + Limit(call) <= LongestRouting
           /\ call # "search_state_update" => time + Limit(call) <= LongestRouting + LongestStage
<1> DEFINE k == n - 1
           LR == LongestRouting
           LS == LongestStage
<1>1. LR \in Nat /\ LS \in Nat /\ k \in Nat /\ time <= Tried(call, k)
  BY LastAttempt
<1>2. CASE call = "conversation_routing"
  <2>1. call \notin Stages
    BY <1>2 DEF Stages
  <2>2. AttemptsOf(call) = RouterAttempts /\ Limit(call) = RouterTimeout /\ Earlier(call) = 0
    BY <1>2, <2>1 DEF AttemptsOf, Limit, Earlier
  <2>3. RoutingTime(k) + RouterTimeout <= LR
    BY <2>2, LastAttempt
  <2>4. RoutingTime(k) \in Nat /\ RouterTimeout \in Nat
    BY <1>1, LongerByOne, LlmCallsAssumption
  <2>5. Tried(call, k) = RoutingTime(k)
    BY <2>1, <2>2, <2>4 DEF Tried
  <2> HIDE DEF LR, LS, k
  <2>6. time + RouterTimeout <= LR /\ time + RouterTimeout \in Nat
    BY <1>1, <2>3, <2>4, <2>5
  <2>7. time + RouterTimeout <= LR + 2 * LS /\ time + RouterTimeout <= LR + LS
    BY <1>1, <2>6
  <2> QED
    BY <2>2, <2>6, <2>7 DEF LR, LS
<1>3. CASE call \in Stages
  <2>1. call # "conversation_routing"
    BY <1>3 DEF Stages
  <2>2. /\ AttemptsOf(call) = AttemptsOf("search_state_update") /\ Limit(call) = StageTimeout
        /\ Earlier(call) = IF call = "search_state_update" THEN LR + LS ELSE LR
    BY <1>3, <2>1 DEF AttemptsOf, Limit, Earlier, Stages
  <2>3. StageTime(k) + StageTimeout <= LS
    BY <2>2, LastAttempt
  <2>4. StageTime(k) \in Nat /\ StageTimeout \in Nat
    BY <1>1, LongerByOne, LlmCallsAssumption
  <2>5. Tried(call, k) = Earlier(call) + StageTime(k)
    BY <1>3 DEF Tried
  <2> HIDE DEF LR, LS, k
  <2>6. time + StageTimeout <= Earlier(call) + LS /\ time + StageTimeout \in Nat /\ Earlier(call) \in Nat
    BY <1>1, <2>2, <2>3, <2>4, <2>5
  <2>7. time + StageTimeout <= LR + 2 * LS
    BY <1>1, <2>2, <2>6
  <2>8. call # "search_state_update" => time + StageTimeout <= LR + LS
    BY <1>1, <2>2, <2>6
  <2> QED
    BY <2>1, <2>2, <2>6, <2>7, <2>8 DEF LR, LS
<1> QED
  BY <1>2, <1>3 DEF Calls

LEMMA AttemptsSoFar ==
    ASSUME RetryInv, stage \in Calls
    PROVE  attempt \in 1 .. AttemptsOf(stage)
<1>1. attempt = Len(raised) + 1 /\ attempt <= MaxAttempts /\ Len(raised) \in Nat
  BY DEF RetryInv, AttemptsFollow
<1> QED
  BY <1>1, AttemptsAreMax

LEMMA EarlierCalls ==
    ASSUME NEW call \in Calls
    PROVE  Earlier(call) \in Nat /\ Tried(call, 0) \in Nat /\ Earlier(call) <= Tried(call, 0)
<1>1. LongestRouting \in Nat /\ LongestStage \in Nat
  BY LastAttempt
<1>2. Earlier(call) \in Nat
  BY <1>1 DEF Earlier, Calls, Stages
<1>3. RoutingTime(0) \in Nat /\ StageTime(0) \in Nat
  BY LongerByOne
<1> QED
  BY <1>2, <1>3 DEF Tried

LEMMA RepeatTimeInv ==
    ASSUME RetryInv, RetryInv', TimeInv, NEW e, AttemptFails(e)
    PROVE  TimeInv'
<1> DEFINE k == attempt - 1
           pause == RetryDelay(attempt)
<1>1. /\ stage \in Calls /\ stage' = stage /\ attempt' = attempt + 1
      /\ spent' = spent + Timeout + pause /\ spent \in Nat /\ spent <= Tried(stage, k)
  BY DEF AttemptFails, Failed, TimeInv
<1>2. attempt \in 1 .. AttemptsOf(stage)
  BY <1>1, AttemptsSoFar
<1>3. attempt' \in 1 .. AttemptsOf(stage)
  <2>1. attempt' = Len(raised') + 1 /\ attempt' <= MaxAttempts' /\ Len(raised') \in Nat
    BY <1>1 DEF RetryInv, AttemptsFollow
  <2>2. MaxAttempts' = MaxAttempts /\ MaxAttempts = AttemptsOf(stage) /\ MaxAttempts \in Nat
    BY <1>1, AttemptsAreMax DEF MaxAttempts
  <2> QED
    BY <2>1, <2>2
<1>4. k \in Nat /\ attempt = k + 1 /\ attempt' - 1 = k + 1
  BY <1>1, <1>2
<1>5. /\ RoutingTime(k) \in Nat /\ StageTime(k) \in Nat
      /\ RoutingTime(k + 1) = RoutingTime(k) + RouterTimeout + RouterDelay
      /\ StageTime(k + 1) = StageTime(k) + StageTimeout + StageBaseDelay * TwoTo[k]
  BY <1>4, LongerByOne
<1>6. Timeout \in Nat /\ pause \in Nat /\ Tried(stage, k + 1) = Tried(stage, k) + Timeout + pause
  <2>1. Earlier(stage) \in Nat
    BY <1>1, EarlierCalls
  <2>2. CASE stage \in Stages
    <3>1. pause = StageBaseDelay * TwoTo[k] /\ Timeout = StageTimeout
      BY <1>4, <2>2 DEF RetryDelay, Timeout
    <3>2. StageBaseDelay \in Nat /\ TwoTo[k] \in Nat /\ StageTimeout \in Nat
      BY <1>4, PowersOfTwo, LlmCallsAssumption
    <3>3. pause \in Nat
      BY <3>1, <3>2
    <3>4. Tried(stage, k) = Earlier(stage) + StageTime(k) /\ Tried(stage, k + 1) = Earlier(stage) + StageTime(k + 1)
      BY <2>2 DEF Tried
    <3>5. StageTime(k + 1) = StageTime(k) + StageTimeout + pause
      BY <1>5, <3>1
    <3> HIDE DEF pause, k
    <3> QED
      BY <1>5, <2>1, <3>1, <3>2, <3>3, <3>4, <3>5
  <2>3. CASE stage \notin Stages
    <3>1. pause = RouterDelay /\ Timeout = RouterTimeout
      BY <2>3 DEF RetryDelay, Timeout
    <3>2. RouterDelay \in Nat /\ RouterTimeout \in Nat
      BY LlmCallsAssumption
    <3>3. Tried(stage, k) = Earlier(stage) + RoutingTime(k) /\ Tried(stage, k + 1) = Earlier(stage) + RoutingTime(k + 1)
      BY <2>3 DEF Tried
    <3> HIDE DEF pause, k
    <3> QED
      BY <1>5, <2>1, <3>1, <3>2, <3>3
  <2> QED
    BY <2>2, <2>3
<1>7. Tried(stage, k) \in Nat
  <2>1. Earlier(stage) \in Nat
    BY <1>1, EarlierCalls
  <2> QED
    BY <1>5, <2>1 DEF Tried
<1> HIDE DEF pause, k
<1>8. spent' \in Nat /\ spent' <= Tried(stage, attempt' - 1)
  BY <1>1, <1>4, <1>6, <1>7
<1>9. /\ spent' + Limit(stage) \in Nat
      /\ spent' + Limit(stage) <= LongestRouting + 2 * LongestStage
  BY <1>1, <1>3, <1>8, CallEndsInTime
<1>10. Limit(stage) \in Nat /\ LongestRouting \in Nat /\ LongestStage \in Nat
  BY LlmCallsAssumption, LastAttempt DEF Limit
<1>11. spent' <= LongestRouting + 2 * LongestStage
  BY <1>8, <1>9, <1>10
<1>12. stage' # "replying"
  BY <1>1 DEF Calls, Stages
<1> QED
  BY <1>1, <1>8, <1>11, <1>12 DEF TimeInv

(* A call is over: with an answer, or for good.                            *)
LEMMA OverTimeInv ==
    ASSUME RetryInv, TimeInv, stage \in Calls, spent' = spent + Timeout,
           \/ stage' \notin Calls \cup {"replying"}
           \/ stage' = "replying" /\ stage = "clarification_update"
           \/ stage' \in Stages /\ attempt' = 1 /\ stage = "conversation_routing"
    PROVE  TimeInv'
<1>1. attempt \in 1 .. AttemptsOf(stage) /\ spent \in Nat /\ spent <= Tried(stage, attempt - 1)
  BY AttemptsSoFar DEF TimeInv
<1>2. Timeout = Limit(stage)
  BY DEF Timeout, Limit
<1>3. /\ spent' \in Nat
      /\ spent' <= LongestRouting + 2 * LongestStage
      /\ stage = "conversation_routing" => spent' <= LongestRouting
      /\ stage # "search_state_update" => spent' <= LongestRouting + LongestStage
  BY <1>1, <1>2, CallEndsInTime
<1>4. CASE stage' \notin Calls \cup {"replying"}
  BY <1>3, <1>4 DEF TimeInv
<1>5. CASE stage' = "replying" /\ stage = "clarification_update"
  BY <1>3, <1>5 DEF TimeInv, Calls, Stages
<1>6. CASE stage' \in Stages /\ attempt' = 1 /\ stage = "conversation_routing"
  <2>1. stage' \in Calls /\ stage' \notin {"replying", "conversation_routing"} /\ attempt' - 1 = 0
    BY <1>6 DEF Calls, Stages
  <2>2. /\ LongestRouting \in Nat /\ LongestStage \in Nat
        /\ Earlier(stage') \in Nat /\ Tried(stage', 0) \in Nat /\ Earlier(stage') <= Tried(stage', 0)
    BY <2>1, EarlierCalls, LastAttempt
  <2>3. LongestRouting <= Earlier(stage')
    BY <2>1, <2>2 DEF Earlier
  <2>4. spent' <= Tried(stage', attempt' - 1)
    BY <1>3, <1>6, <2>1, <2>2, <2>3
  <2> QED
    BY <1>3, <2>1, <2>4 DEF TimeInv
<1> QED
  BY <1>4, <1>5, <1>6

LEMMA NextTimeInv ==
    ASSUME scenario \in Scenarios, RetryInv, RetryInv', TimeInv, [Next]_vars
    PROVE  TimeInv'
<1>1. CASE UNCHANGED vars \/ NextDay
  <2>1. UNCHANGED <<stage, attempt, spent>>
    BY <1>1 DEF vars, callVars, NextDay
  <2> QED
    BY <2>1 DEF TimeInv
<1>2. CASE Receive
  <2>1. stage' = "conversation_routing" /\ attempt' = 1 /\ spent' = 0
    BY <1>2 DEF Receive, StartCall
  <2>2. Tried("conversation_routing", 0) \in Nat /\ LongestRouting \in Nat /\ LongestStage \in Nat
    BY EarlierCalls, LastAttempt DEF Calls
  <2>3. spent' <= Tried(stage', attempt' - 1) /\ spent' <= LongestRouting + 2 * LongestStage
    BY <2>1, <2>2
  <2> QED
    BY <2>1, <2>3 DEF TimeInv
<1>3. CASE CallRaises
  <2>1. PICK e \in Raises[scenario] : AttemptFails(e) \/ CallFails(e)
    BY <1>3 DEF CallRaises
  <2>2. CASE AttemptFails(e)
    BY <2>2, RepeatTimeInv
  <2>3. CASE CallFails(e)
    <3>1. stage \in Calls /\ stage' \notin Calls \cup {"replying"}
      BY <2>3 DEF CallFails, Failed, Calls, Stages
    <3>2. CASE ModelIsUnbuilt(e)
      <4>1. spent \in Nat /\ spent' = spent + 0
        BY <2>3, <3>2 DEF CallFails, TimeInv
      <4> QED
        BY <3>1, <4>1 DEF TimeInv
    <3>3. CASE ~ModelIsUnbuilt(e)
      <4>1. spent' = spent + Timeout
        BY <2>3, <3>3 DEF CallFails
      <4> QED
        BY <3>1, <4>1, OverTimeInv
    <3> QED
      BY <3>2, <3>3
  <2> QED
    BY <2>1, <2>2, <2>3
<1>4. CASE Route
  <2>1. stage = "conversation_routing" /\ spent' = spent + Timeout /\ stage' \in Stages /\ attempt' = 1
    BY <1>4 DEF Route, CallAnswers, StartCall
  <2> QED
    BY <2>1, OverTimeInv DEF Calls
<1>5. CASE AnswerFacts \/ Extract
  <2>1. stage \in Calls /\ spent' = spent + Timeout
    BY <1>5 DEF AnswerFacts, Extract, StartSearch, Update, Answered, CallAnswers
  <2>2. stage' = "decided" \/ (stage' = "replying" /\ stage = "clarification_update")
    BY <1>5 DEF AnswerFacts, Extract, StartSearch, Update, RefuseUpdate, UpdateSearch, UpdateClarified
  <2> QED
    BY <2>1, <2>2, OverTimeInv DEF Calls, Stages
<1>6. CASE ReplyToClarification
  <2>1. stage = "replying" /\ stage' = "search_state_update" /\ attempt' = 1 /\ spent' = spent
    BY <1>6 DEF ReplyToClarification, StartCall
  <2>2. Earlier(stage') = LongestRouting + LongestStage
    BY <2>1 DEF Earlier
  <2>3. Tried(stage', 0) \in Nat /\ Earlier(stage') \in Nat /\ Earlier(stage') <= Tried(stage', 0)
    BY <2>1, EarlierCalls DEF Calls, Stages
  <2>4. spent' \in Nat /\ spent' <= Earlier(stage') /\ spent' <= LongestRouting + 2 * LongestStage
    BY <2>1, <2>2 DEF TimeInv
  <2>5. spent' <= Tried(stage', attempt' - 1)
    BY <2>1, <2>3, <2>4
  <2> QED
    BY <2>1, <2>4, <2>5 DEF TimeInv
<1>7. CASE EndTurn
  <2>1. stage' = "idle" /\ spent' = 0
    BY <1>7 DEF EndTurn
  <2> QED
    BY <2>1, LastAttempt DEF TimeInv, Calls, Stages
<1> QED
  BY <1>1, <1>2, <1>3, <1>4, <1>5, <1>6, <1>7 DEF Next

LEMMA InitTimeInv == Init => scenario \in Scenarios /\ RetryInv /\ TimeInv
<1>1. Init => scenario \in Scenarios /\ RetryInv
  BY DEF Init, RetryInv, AttemptsFollow, RetriesFollowErrors, Calls, Stages
<1>2. Init => TimeInv
  BY LastAttempt DEF Init, TimeInv, Calls, Stages
<1> QED
  BY <1>1, <1>2

(* Whatever the providers raise, the router and the extraction calls of a  *)
(* turn are retried only for what may pass, and end within the time the    *)
(* configured attempts, limits and pauses allow, whatever these are        *)
(* (call_llm_stage, the router's loop, _apply_clarified_search_update).    *)
THEOREM TurnsEndInTime == Spec => []RetriedWhilePassing
<1> DEFINE TInv == scenario \in Scenarios /\ RetryInv /\ TimeInv
<1>1. Init => TInv
  BY InitTimeInv
<1>2. TInv /\ [Next]_vars => TInv'
  BY NextRetryInv, NextTimeInv
<1>3. TInv => RetriedWhilePassing
  BY DEF RetryInv, TimeInv, RetriedWhilePassing
<1> QED
  BY <1>1, <1>2, <1>3, PTL DEF Spec

-----------------------------------------------------------------------------
(* Days.  Every day is one place in one year.                              *)

LEMMA DayIsInYear ==
    \A a \in Int : /\ a = YearLength * YearOf(a) + DayOf(a)
                   /\ YearOf(a) \in Int /\ DayOf(a) \in 0..(YearLength - 1)
BY StayDatesAssumption DEF YearOf, DayOf

LEMMA AYearAtLeast == ASSUME NEW q \in Int, 0 < q PROVE YearLength * q >= YearLength
BY StayDatesAssumption

LEMMA ExactDay ==
    ASSUME NEW year \in Int, NEW day \in 0..(YearLength - 1)
    PROVE  YearOf(year * YearLength + day) = year /\ DayOf(year * YearLength + day) = day
<1> DEFINE a == year * YearLength + day
           q == YearOf(a)
           r == DayOf(a)
<1>1. a \in Int /\ a = YearLength * q + r /\ r \in 0..(YearLength - 1) /\ q \in Int
  BY DayIsInYear, StayDatesAssumption
<1> HIDE DEF q, r
<1>2. YearLength * (q - year) = day - r
  BY <1>1, StayDatesAssumption
<1>3. ~ (q - year > 0)
  <2> SUFFICES ASSUME q - year > 0 PROVE FALSE
    OBVIOUS
  <2>1. YearLength * (q - year) >= YearLength
    BY AYearAtLeast, <1>1
  <2> QED
    BY <1>1, <1>2, <2>1, StayDatesAssumption
<1>4. ~ (q - year < 0)
  <2> SUFFICES ASSUME q - year < 0 PROVE FALSE
    OBVIOUS
  <2>1. YearLength * (year - q) >= YearLength
    BY AYearAtLeast, <1>1
  <2>2. YearLength * (year - q) = -(YearLength * (q - year))
    BY <1>1, StayDatesAssumption
  <2> QED
    BY <1>1, <1>2, <2>1, <2>2, StayDatesAssumption
<1>5. q = year /\ r = day
  BY <1>1, <1>2, <1>3, <1>4, StayDatesAssumption
<1> QED
  BY <1>5 DEF q, r

LEMMA YearsFollowDays == ASSUME NEW a \in Int, NEW b \in Int, a <= b PROVE YearOf(a) <= YearOf(b)
<1> SUFFICES ASSUME YearOf(a) - YearOf(b) > 0 PROVE FALSE
  BY DayIsInYear
<1>1. YearLength * (YearOf(a) - YearOf(b)) >= YearLength
  BY AYearAtLeast, DayIsInYear
<1>2. YearLength * (YearOf(a) - YearOf(b)) = YearLength * YearOf(a) - YearLength * YearOf(b)
  BY DayIsInYear, StayDatesAssumption
<1> QED
  BY <1>1, <1>2, DayIsInYear, StayDatesAssumption

(* The next occurrence of a day is not before the day it is counted from,  *)
(* and keeps its place in the year.                                        *)
LEMMA NextOccurs ==
    ASSUME NEW day \in Nat, NEW from \in Int
    PROVE  /\ NextOccurrence(day, from) \in Int
           /\ day < YearLength => DayOf(NextOccurrence(day, from)) = day
<1> DEFINE date == YearOf(from) * YearLength + day
<1>1. date \in Int /\ YearOf(from) \in Int
  BY DayIsInYear, StayDatesAssumption
<1>2. date + YearLength = (YearOf(from) + 1) * YearLength + day
  BY <1>1, StayDatesAssumption
<1>3. day < YearLength => DayOf(date) = day /\ DayOf(date + YearLength) = day
  BY <1>1, <1>2, ExactDay, StayDatesAssumption
<1>4. NextOccurrence(day, from) \in {date, date + YearLength}
  BY DEF NextOccurrence
<1> HIDE DEF date
<1> QED
  BY <1>1, <1>3, <1>4, StayDatesAssumption

LEMMA TheIsMember == ASSUME NEW set, set # {} PROVE The(set) \in set
BY DEF The
-----------------------------------------------------------------------------
(* A stay that is not refused (resolve_stay_dates).                        *)
GoodStay(stay, said, now, anchor) ==
    /\ stay.check_in \subseteq Int /\ IsOptional(stay.check_in)
    /\ stay.check_out \subseteq Int /\ IsOptional(stay.check_out)
    /\ said.check_in = {} <=> stay.check_in = {}
    /\ said.check_out # {} => stay.check_out # {}
    /\ said.check_out = {} => stay.check_out = {day + n : day \in stay.check_in, n \in said.nights}
    /\ Honours(stay.check_in, said.check_in, CheckInYearStated(said))
    /\ Honours(stay.check_out, said.check_out, CheckOutYearStated(said))
    /\ \A day \in stay.check_in : now <= day
    /\ \A day \in stay.check_out : now < day
    /\ \A from \in Or(stay.check_in, anchor), to \in stay.check_out : from < to
    /\ said.check_out # {} /\ ~CheckOutYearStated(said) =>
          \A from \in Or(stay.check_in, anchor), to \in stay.check_out :
             YearOf(to) = YearOf(from) \/ to - from <= MaxInferred

LEMMA StayIsGood ==
    ASSUME NEW said, SaysAStay(said), NEW now \in Nat,
           NEW anchor, anchor \subseteq Int, IsOptional(anchor),
           ResolveStayDates(said, now, anchor).issue = "none"
    PROVE  GoodStay(ResolveStayDates(said, now, anchor), said, now, anchor)
<1> DEFINE ins == ResolvedCheckIn(said, now)
           start == Or(ins, anchor)
           resolved == ResolvedCheckOut(said, start, now)
           outs == Or(resolved, {day + n : day \in ins, n \in said.nights})
           nonsense == \E raw \in said.check_in \cup said.check_out : IsNonsense(raw)
           unending == \/ RolledOver(said, start, now)
                       \/ \E from \in start, to \in outs : to <= from
           past == (\E day \in ins : day < now) \/ (\E day \in outs : day <= now)
<1>1. /\ ResolveStayDates(said, now, anchor) = Stay(ins, outs)
      /\ ~nonsense /\ ~unending /\ ~past
  <2>1. ResolveStayDates(said, now, anchor) =
           IF nonsense THEN Refused("invalid_date")
           ELSE IF \E n \in said.nights : n <= 0 THEN Refused("non_positive_nights")
           ELSE IF unending THEN Refused("check_out_not_after_check_in")
           ELSE IF past THEN Refused("in_the_past")
           ELSE Stay(ins, outs)
    BY DEF ResolveStayDates
  <2>2. \A issue : Refused(issue).issue = issue
    BY DEF Refused
  <2> HIDE DEF nonsense, unending, past, ins, outs
  <2> QED
    BY <2>1, <2>2
<1>2. /\ ResolveStayDates(said, now, anchor).check_in = ins
      /\ ResolveStayDates(said, now, anchor).check_out = outs
  BY <1>1 DEF Stay
<1> HIDE DEF ins, start, resolved, outs, nonsense, unending, past
<1>3. \A raw \in said.check_in \cup said.check_out :
         raw.year \in Nat /\ raw.day \in Nat /\ raw.day \in 0..(YearLength - 1)
  BY <1>1 DEF SaysAStay, IsNonsense, nonsense
<1>4. ASSUME NEW raw \in said.check_in \cup said.check_out, NEW from \in Int
      PROVE  /\ ExactDate(raw) \in Int /\ YearOf(ExactDate(raw)) = raw.year /\ DayOf(ExactDate(raw)) = raw.day
             /\ NextOccurrence(raw.day, from) \in Int /\ DayOf(NextOccurrence(raw.day, from)) = raw.day
  <2>1. raw.year \in Nat /\ raw.day \in Nat /\ raw.day \in 0..(YearLength - 1) /\ raw.day < YearLength
    BY <1>3, StayDatesAssumption
  <2>2. YearOf(ExactDate(raw)) = raw.year /\ DayOf(ExactDate(raw)) = raw.day
    BY <2>1, ExactDay DEF ExactDate
  <2>3. ExactDate(raw) \in Int
    BY <2>1, StayDatesAssumption DEF ExactDate
  <2> QED
    BY <2>1, <2>2, <2>3, NextOccurs
<1>5. /\ ins \subseteq Int /\ IsOptional(ins) /\ (said.check_in = {} <=> ins = {})
      /\ Honours(ins, said.check_in, CheckInYearStated(said))
  <2> DEFINE D(raw) == IF CheckInYearStated(said) THEN ExactDate(raw) ELSE NextOccurrence(raw.day, now)
  <2>1. \A raw \in said.check_in :
           D(raw) \in Int /\ DayOf(D(raw)) = raw.day /\ (CheckInYearStated(said) => YearOf(D(raw)) = raw.year)
    BY <1>4
  <2>2. ins = {D(raw) : raw \in said.check_in} /\ IsOptional(said.check_in)
    BY DEF ins, ResolvedCheckIn, SaysAStay
  <2> HIDE DEF D
  <2> QED
    BY <2>1, <2>2 DEF IsOptional, Honours
<1>6. start \subseteq Int /\ IsOptional(start)
  BY <1>5 DEF Or, start
<1>7. The(Or(start, {now})) \in Int /\ (\A from \in start : The(Or(start, {now})) = from)
  <2>1. Or(start, {now}) # {} /\ Or(start, {now}) \subseteq Int
    BY <1>6 DEF Or
  <2>2. The(Or(start, {now})) \in Or(start, {now})
    BY <2>1, TheIsMember
  <2> QED
    BY <1>6, <2>1, <2>2 DEF Or, IsOptional
<1>8. /\ resolved \subseteq Int /\ IsOptional(resolved) /\ (said.check_out = {} <=> resolved = {})
      /\ Honours(resolved, said.check_out, CheckOutYearStated(said))
  <2> DEFINE D(raw) == IF CheckOutYearStated(said) THEN ExactDate(raw)
                       ELSE NextOccurrence(raw.day, The(Or(start, {now})))
  <2>1. \A raw \in said.check_out :
           D(raw) \in Int /\ DayOf(D(raw)) = raw.day /\ (CheckOutYearStated(said) => YearOf(D(raw)) = raw.year)
    BY <1>4, <1>7
  <2>2. resolved = {D(raw) : raw \in said.check_out} /\ IsOptional(said.check_out)
    BY DEF resolved, ResolvedCheckOut, SaysAStay
  <2> HIDE DEF D
  <2> QED
    BY <2>1, <2>2 DEF IsOptional, Honours
<1>9. /\ outs \subseteq Int /\ IsOptional(outs)
      /\ said.check_out # {} => outs = resolved /\ outs # {}
      /\ said.check_out = {} => outs = {day + n : day \in ins, n \in said.nights}
  <2> DEFINE after == {day + n : day \in ins, n \in said.nights}
  <2>1. outs = IF resolved # {} THEN resolved ELSE after
    BY DEF Or, outs
  <2>2. after \subseteq Int /\ IsOptional(after)
    <3>1. said.nights \subseteq Int /\ IsOptional(said.nights)
      BY DEF SaysAStay
    <3> HIDE DEF ins
    <3>2. ins \subseteq Int /\ IsOptional(ins)
      BY <1>5
    <3>3. after \subseteq Int
      BY <3>1, <3>2
    <3>4. ASSUME NEW x \in after, NEW y \in after PROVE x = y
      <4>1. PICK d1 \in ins, n1 \in said.nights : x = d1 + n1
        BY <3>4
      <4>2. PICK d2 \in ins, n2 \in said.nights : y = d2 + n2
        BY <3>4
      <4>3. d1 = d2 /\ n1 = n2
        BY <3>1, <3>2 DEF IsOptional
      <4> QED
        BY <4>1, <4>2, <4>3
    <3> QED
      BY <3>3, <3>4 DEF IsOptional
  <2> HIDE DEF outs, resolved, after
  <2>3. outs \subseteq Int /\ IsOptional(outs)
    BY <1>8, <2>1, <2>2
  <2>4. said.check_out # {} => outs = resolved /\ outs # {}
    BY <1>8, <2>1
  <2>5. said.check_out = {} => outs = after
    BY <1>8, <2>1
  <2> QED
    BY <2>3, <2>4, <2>5 DEF after
<1>10. Honours(outs, said.check_out, CheckOutYearStated(said))
  BY <1>8, <1>9 DEF Honours
<1>11. \A from \in start, to \in outs : from < to
  <2> SUFFICES ASSUME NEW from \in start, NEW to \in outs PROVE from < to
    OBVIOUS
  <2>1. ~(to <= from)
    BY <1>1 DEF unending
  <2> QED
    BY <1>6, <1>9, <2>1
<1>12. ASSUME said.check_out # {}, ~CheckOutYearStated(said), NEW from \in start, NEW to \in outs
       PROVE  YearOf(to) = YearOf(from) \/ to - from <= MaxInferred
  <2>1. to \in resolved /\ from \in Int /\ to \in Int /\ from < to
    BY <1>6, <1>9, <1>11, <1>12
  <2>2. ~ (YearOf(to) > YearOf(from) /\ to - from > MaxInferred)
    BY <1>1, <1>7, <1>12, <2>1 DEF RolledOver, resolved, unending
  <2>3. YearOf(from) <= YearOf(to) /\ YearOf(from) \in Int /\ YearOf(to) \in Int
    BY <2>1, YearsFollowDays, DayIsInYear
  <2>4. MaxInferred \in Int
    BY StayDatesAssumption
  <2> QED
    BY <2>1, <2>2, <2>3, <2>4
<1>13. (\A day \in ins : now <= day) /\ (\A day \in outs : now < day)
  BY <1>1, <1>5, <1>9 DEF past
<1> DEFINE stay == ResolveStayDates(said, now, anchor)
<1>14. stay.check_in = ins /\ stay.check_out = outs /\ start = Or(stay.check_in, anchor)
  BY <1>2 DEF start
<1> HIDE DEF stay
<1>15. GoodStay(stay, said, now, anchor)
  <2>1. \A from \in Or(stay.check_in, anchor), to \in stay.check_out : from < to
    BY <1>11, <1>14
  <2>2. said.check_out # {} /\ ~CheckOutYearStated(said) =>
           \A from \in Or(stay.check_in, anchor), to \in stay.check_out :
              YearOf(to) = YearOf(from) \/ to - from <= MaxInferred
    BY <1>12, <1>14
  <2>3. said.check_out = {} => stay.check_out = {day + n : day \in stay.check_in, n \in said.nights}
    BY <1>9, <1>14
  <2>4. /\ Honours(stay.check_in, said.check_in, CheckInYearStated(said))
        /\ Honours(stay.check_out, said.check_out, CheckOutYearStated(said))
    BY <1>5, <1>10, <1>14
  <2>5. /\ stay.check_in \subseteq Int /\ IsOptional(stay.check_in)
        /\ stay.check_out \subseteq Int /\ IsOptional(stay.check_out)
        /\ said.check_in = {} <=> stay.check_in = {}
        /\ said.check_out # {} => stay.check_out # {}
    BY <1>5, <1>9, <1>14
  <2>6. (\A day \in stay.check_in : now <= day) /\ (\A day \in stay.check_out : now < day)
    BY <1>13, <1>14
  <2> QED
    BY <2>1, <2>2, <2>3, <2>4, <2>5, <2>6 DEF GoodStay
<1> QED
  BY <1>15 DEF stay
-----------------------------------------------------------------------------
(* What a message makes of the stay of the search it is applied to.        *)
HasStay(s) == s.check_in \subseteq Int /\ IsOptional(s.check_in) /\ s.check_out \subseteq Int

StayFits(after, said, previous, now, starting) ==
    LET before == IF said.clear_dates THEN NoSearch ELSE previous IN
    /\ \A from \in after.check_in, to \in after.check_out : from < to
    /\ Honours(after.check_in, said.check_in, CheckInYearStated(said))
    /\ Honours(after.check_out, said.check_out, CheckOutYearStated(said))
    /\ said.check_in # {} => \A day \in after.check_in : now <= day
    /\ said.check_out # {} => \A day \in after.check_out : now < day
    /\ said.check_out # {} /\ ~CheckOutYearStated(said) =>
         \A from \in after.check_in, to \in after.check_out :
            YearOf(to) = YearOf(from) \/ to - from <= MaxInferred
    /\ said.nights # {} /\ said.check_out = {} /\ (InOnly(said) \/ ~starting) =>
         \A from \in after.check_in : after.check_out = {from + n : n \in said.nights}
    /\ said.check_in = {} => after.check_in = before.check_in
    /\ said.nights = {} /\ said.check_in = {} /\ said.check_out = {} =>
         after.check_out = before.check_out
    /\ starting /\ InOnly(said) /\ said.nights = {} => after.check_out = {}

LEMMA NoSearchHasNoStay == NoSearch.check_in = {} /\ NoSearch.check_out = {} /\ NoSearch.made = FALSE
BY DEF NoSearch

LEMMA StartedStay ==
    ASSUME NEW said, SaysAStay(said), NEW now \in Nat,
           NEW after, NEW stay, GoodStay(stay, said, now, {}),
           after.check_in = stay.check_in, after.check_out = stay.check_out
    PROVE  HasStay(after) /\ StayFits(after, said, NoSearch, now, TRUE)
<1>1. HasStay(after)
  BY DEF HasStay, GoodStay
<1>2. \A from \in after.check_in, to \in after.check_out : from < to
  BY DEF GoodStay, Or
<1>3. said.check_out # {} /\ ~CheckOutYearStated(said) =>
         \A from \in after.check_in, to \in after.check_out :
            YearOf(to) = YearOf(from) \/ to - from <= MaxInferred
  BY DEF GoodStay, Or
<1>4. said.check_out = {} =>
         \A from \in after.check_in : after.check_out = {from + n : n \in said.nights}
  BY DEF GoodStay, IsOptional
<1>5. said.check_in = {} => after.check_in = {}
  BY DEF GoodStay
<1>6. said.check_out = {} /\ (said.nights = {} \/ said.check_in = {}) => after.check_out = {}
  BY DEF GoodStay
<1>7. /\ Honours(after.check_in, said.check_in, CheckInYearStated(said))
      /\ Honours(after.check_out, said.check_out, CheckOutYearStated(said))
      /\ \A day \in after.check_in : now <= day
      /\ \A day \in after.check_out : now < day
  BY DEF GoodStay
<1> QED
  BY <1>1, <1>2, <1>3, <1>4, <1>5, <1>6, <1>7, NoSearchHasNoStay DEF StayFits, InOnly

LEMMA UpdatedStay ==
    ASSUME NEW said, SaysAStay(said), NEW now \in Nat, NEW state, HasStay(state),
           NEW stay, GoodStay(stay, said, now, IF said.check_in # {} THEN {} ELSE state.check_in),
           NEW after,
           after.check_in = ApplyDates(state, said, stay).check_in,
           after.check_out = ApplyDates(state, said, stay).check_out,
           ~Reversed(after)
    PROVE  HasStay(after) /\ StayFits(after, said, state, now, FALSE)
<1> DEFINE before == IF said.clear_dates THEN NoSearch ELSE state
           anchor == IF said.check_in # {} THEN {} ELSE state.check_in
<1>1. /\ before.check_in \subseteq state.check_in /\ IsOptional(before.check_in)
      /\ before.check_in \subseteq Int /\ before.check_out \subseteq Int
  BY NoSearchHasNoStay DEF HasStay, IsOptional
<1>2. /\ after.check_in = Or(stay.check_in, before.check_in)
      /\ after.check_out =
            IF stay.check_out # {} THEN stay.check_out
            ELSE IF stay.check_in # {} THEN {day + 1 : day \in after.check_in}
            ELSE IF said.nights # {} /\ after.check_in # {}
                 THEN {day + n : day \in after.check_in, n \in said.nights}
            ELSE before.check_out
  BY DEF ApplyDates
<1> HIDE DEF before
<1>3. /\ stay.check_in \subseteq Int /\ IsOptional(stay.check_in) /\ stay.check_out \subseteq Int
      /\ said.check_in = {} <=> stay.check_in = {}
      /\ said.check_out # {} => stay.check_out # {}
      /\ said.check_out = {} => stay.check_out = {day + n : day \in stay.check_in, n \in said.nights}
  BY DEF GoodStay
<1>4. after.check_in \subseteq Int /\ IsOptional(after.check_in)
  BY <1>1, <1>2, <1>3 DEF Or
<1>5. after.check_out \subseteq Int
  BY <1>1, <1>2, <1>3, <1>4 DEF SaysAStay
<1>6. \A from \in after.check_in, to \in after.check_out : from < to
  BY <1>4, <1>5 DEF Reversed
<1>7. /\ said.check_in # {} => after.check_in = stay.check_in
      /\ said.check_in = {} => after.check_in = before.check_in
      /\ said.check_out # {} => after.check_out = stay.check_out
  BY <1>2, <1>3 DEF Or
<1>8. /\ Honours(after.check_in, said.check_in, CheckInYearStated(said))
      /\ Honours(after.check_out, said.check_out, CheckOutYearStated(said))
  BY <1>7 DEF GoodStay, Honours
<1>9. /\ said.check_in # {} => \A day \in after.check_in : now <= day
      /\ said.check_out # {} => \A day \in after.check_out : now < day
  BY <1>7 DEF GoodStay
<1>10. said.check_out # {} /\ ~CheckOutYearStated(said) =>
          \A from \in after.check_in, to \in after.check_out :
             YearOf(to) = YearOf(from) \/ to - from <= MaxInferred
  <2>1. after.check_in \subseteq Or(stay.check_in, anchor)
    BY <1>1, <1>3, <1>7 DEF Or
  <2> QED
    BY <1>7, <2>1 DEF GoodStay
<1>11. said.nights # {} /\ said.check_out = {} =>
          \A from \in after.check_in : after.check_out = {from + n : n \in said.nights}
  <2> SUFFICES ASSUME said.nights # {}, said.check_out = {}, NEW from \in after.check_in
               PROVE  after.check_out = {from + n : n \in said.nights}
    OBVIOUS
  <2>1. after.check_out = {day + n : day \in after.check_in, n \in said.nights}
    <3>1. CASE said.check_in # {}
      <4>1. after.check_in = stay.check_in /\ stay.check_in # {}
        BY <1>3, <1>7, <3>1
      <4>2. stay.check_out = {day + n : day \in stay.check_in, n \in said.nights} /\ stay.check_out # {}
        BY <1>3, <4>1
      <4> QED
        BY <1>2, <4>1, <4>2
    <3>2. CASE said.check_in = {}
      <4>1. stay.check_in = {} /\ stay.check_out = {}
        BY <1>3, <3>2
      <4> QED
        BY <1>2, <4>1
    <3> QED
      BY <3>1, <3>2
  <2>2. after.check_in = {from}
    BY <1>4 DEF IsOptional
  <2> QED
    BY <2>1, <2>2
<1>12. said.nights = {} /\ said.check_in = {} /\ said.check_out = {} =>
          after.check_out = before.check_out
  BY <1>2, <1>3
<1> QED
  BY <1>4, <1>5, <1>6, <1>7, <1>8, <1>9, <1>10, <1>11, <1>12 DEF HasStay, StayFits, before
-----------------------------------------------------------------------------
(* The guard of the budget leaves the stay alone.                          *)
LEMMA GuardKeepsStay ==
    ASSUME NEW state, {"made", "check_in", "check_out"} \subseteq DOMAIN state,
           NEW said, NEW price, NEW after, after = GuardPeriodBudget(state, said, price)
    PROVE  /\ after.made = state.made
           /\ after.check_in = state.check_in /\ after.check_out = state.check_out
BY DEF GuardPeriodBudget

(* Every search and draft has a stay, an update is applied to a search     *)
(* that there is, and a draft that is to be stored says what was said.     *)
StayInv ==
    /\ scenario \in Scenarios /\ today \in Nat
    /\ HasStay(search) /\ HasStay(base) /\ HasStay(draft)
    /\ stage = "conversation_routing" => base = search
    /\ stage \in {"search_state_update", "clarification_update"} => base # NoSearch
    /\ stage = "replying" => draft # NoSearch
    /\ Applied => StayFits(draft, heard, base, today, base = NoSearch)

LEMMA FitsIsStated ==
    StayAsStated <=> (Applied => StayFits(draft, heard, base, today, base = NoSearch))
BY DEF StayAsStated, StayFits

LEMMA NoSearchHasStay == HasStay(NoSearch)
BY NoSearchHasNoStay DEF HasStay, IsOptional

LEMMA RefusedHasNoStay ==
    ASSUME NEW said, NEW now, NEW anchor, ResolveStayDates(said, now, anchor).issue # "none"
    PROVE  /\ ResolveStayDates(said, now, anchor).check_in = {}
           /\ ResolveStayDates(said, now, anchor).check_out = {}
<1> DEFINE stay == ResolveStayDates(said, now, anchor)
           ins == ResolvedCheckIn(said, now)
           start == Or(ins, anchor)
           outs == Or(ResolvedCheckOut(said, start, now), {day + n : day \in ins, n \in said.nights})
           nonsense == \E raw \in said.check_in \cup said.check_out : IsNonsense(raw)
           unending == \/ RolledOver(said, start, now)
                       \/ \E from \in start, to \in outs : to <= from
           past == (\E day \in ins : day < now) \/ (\E day \in outs : day <= now)
<1>1. (\E issue : stay = Refused(issue)) \/ stay = Stay(ins, outs)
  <2>1. stay = IF nonsense THEN Refused("invalid_date")
               ELSE IF \E n \in said.nights : n <= 0 THEN Refused("non_positive_nights")
               ELSE IF unending THEN Refused("check_out_not_after_check_in")
               ELSE IF past THEN Refused("in_the_past")
               ELSE Stay(ins, outs)
    BY DEF ResolveStayDates
  <2> HIDE DEF stay, nonsense, unending, past, ins, outs
  <2> QED
    BY <2>1
<1>2. \A issue : Refused(issue).check_in = {} /\ Refused(issue).check_out = {}
  BY DEF Refused
<1>3. \A from, to : Stay(from, to).issue = "none"
  BY DEF Stay
<1> HIDE DEF stay
<1>4. stay.issue # "none"
  BY DEF stay
<1>5. stay.check_in = {} /\ stay.check_out = {}
  BY <1>1, <1>2, <1>3, <1>4
<1> QED
  BY <1>5 DEF stay

LEMMA StartSearchStayInv ==
    ASSUME StayInv, NEW said \in Intents[scenario], StartSearch(said), scenario' = scenario
    PROVE  StayInv'
<1> DEFINE stay == ResolveStayDates(said, today, {})
           intent == [made |-> TRUE, city |-> said.city, check_in |-> stay.check_in, check_out |-> stay.check_out,
                      filters |-> said.filters, types |-> said.add_types,
                      constraints |-> Honest(said.add_constraints)]
<1>1. /\ base' = NoSearch /\ heard' = said /\ today' = today /\ search' = search /\ stage' = "decided"
      /\ draft' = GuardPeriodBudget(intent, said, NoPrice)
      /\ stay.issue # "none" => outcome' = "dates_refused"
  <2> DEFINE request == GuardPeriodBudget(intent, said, NoPrice)
  <2>1. /\ base' = NoSearch /\ heard' = said /\ today' = today /\ search' = search /\ stage' = "decided"
        /\ draft' = request
        /\ outcome' = IF stay.issue # "none" THEN "dates_refused"
                      ELSE IF NeedClarification(request) THEN "asked" ELSE "searched"
    BY DEF StartSearch, Answered
  <2> HIDE DEF stay, request
  <2>2. stay.issue # "none" => outcome' = "dates_refused"
    BY <2>1
  <2> QED
    BY <2>1, <2>2 DEF request
<1>2. draft'.check_in = stay.check_in /\ draft'.check_out = stay.check_out
  <2>1. /\ {"made", "check_in", "check_out"} \subseteq DOMAIN intent
        /\ intent.check_in = stay.check_in /\ intent.check_out = stay.check_out
    OBVIOUS
  <2> HIDE DEF intent, stay
  <2> QED
    BY <1>1, <2>1, GuardKeepsStay
<1>3. SaysAStay(said) /\ today \in Nat
  BY RequestAssumption DEF StayInv, IsMessage
<1>4. CASE stay.issue # "none"
  <2>1. stay.check_in = {} /\ stay.check_out = {}
    BY <1>4, RefusedHasNoStay
  <2>2. HasStay(draft')
    BY <1>2, <2>1 DEF HasStay, IsOptional
  <2>3. ~Applied'
    BY <1>1, <1>4 DEF Applied
  <2> QED
    BY <1>1, <2>2, <2>3, NoSearchHasStay DEF StayInv
<1>5. CASE stay.issue = "none"
  <2>1. GoodStay(stay, said, today, {})
    BY <1>3, <1>5, StayIsGood DEF IsOptional
  <2>2. HasStay(draft') /\ StayFits(draft', said, NoSearch, today, TRUE)
    BY <1>2, <1>3, <2>1, StartedStay
  <2>3. StayFits(draft', heard', base', today', (base = NoSearch)')
    BY <1>1, <2>2
  <2> QED
    BY <1>1, <1>3, <2>2, <2>3, NoSearchHasStay DEF StayInv
<1> QED
  BY <1>4, <1>5

LEMMA UpdateStayInv ==
    ASSUME StayInv, NEW said \in Messages[scenario], Update(said), scenario' = scenario,
           stage \in {"search_state_update", "clarification_update"}
    PROVE  StayInv'
<1> DEFINE stay == PatchStay(said)
           anchor == IF said.check_in # {} THEN {} ELSE base.check_in
           patched == ApplyIntentPatch(base, said, stay)
           request == GuardPeriodBudget(patched, said, base.filters.price)
<1>1. /\ base' = base /\ heard' = said /\ today' = today /\ search' = search
      /\ \/ RefuseUpdate
         \/ /\ stay.issue = "none" /\ ~Reversed(request)
            /\ UpdateSearch(request) \/ UpdateClarified(request)
  BY DEF Update, Answered
<1>2. SaysAStay(said) /\ today \in Nat /\ HasStay(base) /\ HasStay(search) /\ base # NoSearch
  BY RequestAssumption DEF StayInv, IsMessage
<1>3. CASE RefuseUpdate
  <2>1. draft' = search /\ outcome' = "dates_refused" /\ stage' = "decided"
    BY <1>3 DEF RefuseUpdate
  <2>2. ~Applied'
    BY <2>1 DEF Applied
  <2> QED
    BY <1>1, <1>2, <2>1, <2>2 DEF StayInv
<1>4. CASE stay.issue = "none" /\ ~Reversed(request) /\ (UpdateSearch(request) \/ UpdateClarified(request))
  <2>1. draft' = request /\ stage' \in {"decided", "replying"}
    BY <1>4 DEF UpdateSearch, UpdateClarified
  <2>2. GoodStay(stay, said, today, anchor)
    <3>1. anchor \subseteq Int /\ IsOptional(anchor)
      BY <1>2 DEF HasStay, IsOptional
    <3>2. stay = ResolveStayDates(said, today, anchor)
      BY DEF PatchStay
    <3> HIDE DEF anchor, stay
    <3> QED
      BY <1>2, <1>4, <3>1, <3>2, StayIsGood
  <2>3. /\ {"made", "check_in", "check_out"} \subseteq DOMAIN patched /\ patched.made = TRUE
        /\ patched.check_in = ApplyDates(base, said, stay).check_in
        /\ patched.check_out = ApplyDates(base, said, stay).check_out
    BY DEF ApplyIntentPatch
  <2>4. /\ request.made = TRUE
        /\ request.check_in = ApplyDates(base, said, stay).check_in
        /\ request.check_out = ApplyDates(base, said, stay).check_out
    <3> HIDE DEF patched, stay
    <3> QED
      BY <2>3, GuardKeepsStay
  <2>5. HasStay(request) /\ StayFits(request, said, base, today, FALSE)
    <3> HIDE DEF stay, request
    <3> QED
      BY <1>2, <1>4, <2>2, <2>4, UpdatedStay
  <2>6. request # NoSearch
    BY <2>4, NoSearchHasNoStay
  <2> HIDE DEF request
  <2>7. (base = NoSearch)' = FALSE
    BY <1>1, <1>2
  <2>8. StayFits(draft', heard', base', today', (base = NoSearch)')
    BY <1>1, <2>1, <2>5, <2>7
  <2> QED
    BY <1>1, <1>2, <2>1, <2>5, <2>6, <2>8 DEF StayInv
<1> QED
  BY <1>1, <1>3, <1>4

LEMMA NextStayInv ==
    ASSUME StayInv, [Next]_vars
    PROVE  StayInv'
<1>1. CASE UNCHANGED vars
  BY <1>1 DEF vars, callVars, StayInv, Applied
<1>2. CASE NextDay
  <2>1. /\ UNCHANGED <<stage, scenario, search, base, heard, draft, outcome>>
        /\ today' \in Nat /\ stage = "idle"
    BY <1>2 DEF NextDay, callVars, StayInv
  <2> QED
    BY <2>1 DEF StayInv, Applied
<1>3. CASE Receive
  BY <1>3 DEF Receive, StartCall, StayInv, Applied
<1>4. CASE CallRaises
  <2>1. /\ UNCHANGED <<scenario, today, search, base, heard, draft>>
        /\ stage' \in {stage, "failed", "crashed"} /\ stage \in Calls
    BY <1>4 DEF CallRaises, AttemptFails, CallFails, Failed
  <2> QED
    BY <2>1 DEF StayInv, Applied, Calls, Stages
<1>5. CASE Route
  BY <1>5 DEF Route, StartCall, StayInv, Applied, Stages
<1>6. CASE AnswerFacts
  BY <1>6 DEF AnswerFacts, Answered, StayInv, Applied
<1>7. CASE Extract
  <2>1. scenario' = scenario
    BY <1>7 DEF Extract, StartSearch, Update, Answered
  <2>2. CASE stage = "search_intent_extraction"
    BY <1>7, <2>1, <2>2, StartSearchStayInv DEF Extract
  <2>3. CASE stage \in {"search_state_update", "clarification_update"}
    BY <1>7, <2>1, <2>3, UpdateStayInv DEF Extract
  <2> QED
    BY <1>7, <2>2, <2>3 DEF Extract
<1>8. CASE ReplyToClarification
  BY <1>8, NoSearchHasStay DEF ReplyToClarification, StartCall, StayInv, Applied
<1>9. CASE EndTurn
  BY <1>9, NoSearchHasStay DEF EndTurn, StayInv, Applied
<1> QED
  BY <1>1, <1>2, <1>3, <1>4, <1>5, <1>6, <1>7, <1>8, <1>9 DEF Next

(* Whatever the user and the model say, the stay of a search is the one    *)
(* the user gave (resolve_stay_dates, normalize_patch_dates,               *)
(* apply_intent_patch).                                                    *)
THEOREM StaysAreAsStated == Spec => []StayAsStated
<1>1. Init => StayInv
  BY RequestAssumption, NoSearchHasStay DEF Init, StayInv, Applied
<1>2. StayInv /\ [Next]_vars => StayInv'
  BY NextStayInv
<1>3. StayInv => StayAsStated
  BY FitsIsStated DEF StayInv
<1> QED
  BY <1>1, <1>2, <1>3, PTL DEF Spec
-----------------------------------------------------------------------------
(* Requirements.  A list in which each meaning stands once.                *)
Distinct(list) ==
    \A i, j \in DOMAIN list : SemanticKey(list[i]) = SemanticKey(list[j]) => i = j

Checkable(c) == c.known /\ c.fields # {}

LEMMA NormalizedIsSame ==
    ASSUME NEW c \in Constraint
    PROVE  /\ NormalizeConsistency(c) \in Constraint
           /\ SemanticKey(NormalizeConsistency(c)) = SemanticKey(c)
           /\ NormalizeConsistency(c).priority = c.priority
           /\ Checkable(NormalizeConsistency(c)) <=> Checkable(c)
           /\ NormalizeConsistency(c).known <=> Checkable(c)
BY DEF NormalizeConsistency, Unresolved, Constraint, SemanticKey, Checkable

LEMMA HonestIsConstraint ==
    ASSUME NEW c \in Constraint
    PROVE  KeepMappingHonest(c) \in Constraint
BY DEF KeepMappingHonest, Unresolved, Constraint

LEMMA HonestAreConstraints ==
    ASSUME NEW list \in Seq(Constraint)
    PROVE  Honest(list) \in Seq(Constraint)
<1> DEFINE n == Len(list)
           honest == Honest(list)
<1>1. n \in Nat /\ DOMAIN list = 1 .. n /\ \A i \in 1 .. n : list[i] \in Constraint
  BY LenProperties, ElementOfSeq
<1>2. \A i \in 1 .. n : KeepMappingHonest(list[i]) \in Constraint
  BY <1>1, HonestIsConstraint
<1>3. honest = [i \in 1 .. n |-> KeepMappingHonest(list[i])]
  BY <1>1 DEF Honest
<1> HIDE DEF n, honest
<1>4. honest \in Seq(Constraint)
  BY <1>1, <1>2, <1>3
<1> QED
  BY <1>4 DEF honest

LEMMA StrongerIsOne ==
    ASSUME NEW p \in {"must", "nice", "forbidden"}, NEW q \in {"must", "nice", "forbidden"}
    PROVE  /\ Stronger(p, q) \in {p, q}
           /\ PriorityRank(p) <= PriorityRank(Stronger(p, q))
           /\ PriorityRank(q) <= PriorityRank(Stronger(p, q))
           /\ PriorityRank(p) \in Nat
           /\ PriorityRank(p) = PriorityRank(q) => p = q
BY DEF Stronger, PriorityRank

LEMMA MergedHasBoth ==
    ASSUME NEW c \in Constraint, NEW d \in Constraint, NEW sets \in BOOLEAN
    PROVE  /\ MergeDuplicate(c, d, sets) \in Constraint
           /\ SemanticKey(MergeDuplicate(c, d, sets)) = SemanticKey(c)
           /\ MergeDuplicate(c, d, sets).priority = IF sets THEN d.priority ELSE Stronger(c.priority, d.priority)
           /\ Checkable(MergeDuplicate(c, d, sets)) <=> Checkable(c) \/ Checkable(d)
<1> DEFINE mapping == IF NormalizeConsistency(d).known THEN d
                      ELSE IF NormalizeConsistency(c).known THEN c ELSE Unresolved(c)
           priority == IF sets THEN d.priority ELSE Stronger(c.priority, d.priority)
           m == MergeDuplicate(c, d, sets)
<1>1. m = [c EXCEPT !.raw = d.raw, !.priority = priority,
                    !.known = mapping.known, !.fields = mapping.fields, !.strategy = mapping.strategy]
  BY DEF MergeDuplicate, Constraint
<1>2. Unresolved(c) \in Constraint /\ ~Checkable(Unresolved(c))
  BY DEF Unresolved, Constraint, Checkable
<1>3. mapping \in Constraint /\ (Checkable(mapping) <=> Checkable(c) \/ Checkable(d))
  BY <1>2, NormalizedIsSame
<1>4. priority \in {"must", "nice", "forbidden"}
  BY StrongerIsOne DEF Constraint
<1> HIDE DEF mapping, priority, m
<1>5. m \in Constraint /\ m.text = c.text /\ m.category = c.category /\ m.priority = priority
      /\ m.known = mapping.known /\ m.fields = mapping.fields
  BY <1>1, <1>3, <1>4 DEF Constraint
<1>6. SemanticKey(m) = SemanticKey(c) /\ (Checkable(m) <=> Checkable(mapping))
  BY <1>5 DEF SemanticKey, Checkable
<1> QED
  BY <1>3, <1>5, <1>6 DEF m, priority

LEMMA MergedOver ==
    ASSUME NEW c \in Constraint, NEW d \in Constraint
    PROVE  LET m == MergeDuplicate(c, d, TRUE)
           IN  m.priority = d.priority /\ (Checkable(m) <=> Checkable(c) \/ Checkable(d))
<1>1. MergeDuplicate(c, d, TRUE).priority = d.priority
  BY MergedHasBoth
<1>2. Checkable(MergeDuplicate(c, d, TRUE)) <=> Checkable(c) \/ Checkable(d)
  BY MergedHasBoth
<1> QED
  BY <1>1, <1>2

(* The constraint that joins is in the list, in the place of the one it    *)
(* restates; the others stay.                                              *)
Joins(new, list, c, sets) ==
    /\ \A i \in DOMAIN new : SemanticKey(new[i]) # SemanticKey(c) => i \in DOMAIN list /\ new[i] = list[i]
    /\ \A i \in DOMAIN list : SemanticKey(list[i]) # SemanticKey(c) => i \in DOMAIN new /\ new[i] = list[i]
    /\ \E i \in DOMAIN new : SemanticKey(new[i]) = SemanticKey(c)
    /\ \A i \in DOMAIN new : SemanticKey(new[i]) = SemanticKey(c) =>
          \/ /\ i \in DOMAIN list /\ SemanticKey(list[i]) = SemanticKey(c)
             /\ new[i] = MergeDuplicate(list[i], c, sets)
          \/ /\ \A j \in DOMAIN list : SemanticKey(list[j]) # SemanticKey(c)
             /\ new[i] = c

LEMMA PutJoins ==
    ASSUME NEW list \in Seq(Constraint), Distinct(list), NEW c \in Constraint, NEW sets \in BOOLEAN
    PROVE  LET new == Put(list, c, sets) IN new \in Seq(Constraint) /\ Distinct(new) /\ Joins(new, list, c, sets)
<1> DEFINE new == Put(list, c, sets)
           N == Len(list)
<1>1. N \in Nat /\ DOMAIN list = 1 .. N /\ \A i \in 1 .. N : list[i] \in Constraint
  BY LenProperties, ElementOfSeq
<1>2. CASE \E i \in DOMAIN list : SemanticKey(list[i]) = SemanticKey(c)
  <2> DEFINE at(i) == IF SemanticKey(list[i]) = SemanticKey(c) THEN MergeDuplicate(list[i], c, sets) ELSE list[i]
  <2>1. new = [i \in 1 .. N |-> at(i)]
    BY <1>1, <1>2 DEF Put
  <2>2. \A i \in 1 .. N : at(i) \in Constraint /\ SemanticKey(at(i)) = SemanticKey(list[i])
    BY <1>1, MergedHasBoth
  <2>3. /\ DOMAIN new = 1 .. N
        /\ \A i \in 1 .. N : new[i] = at(i) /\ new[i] \in Constraint /\ SemanticKey(new[i]) = SemanticKey(list[i])
    <3> HIDE DEF at
    <3> QED
      BY <2>1, <2>2
  <2>4. new \in Seq(Constraint)
    <3> HIDE DEF at, N
    <3> QED
      BY <1>1, <2>1, <2>2
  <2> HIDE DEF new
  <2>5. Distinct(new)
    BY <1>1, <2>3 DEF Distinct
  <2>6. \A i \in 1 .. N : SemanticKey(new[i]) # SemanticKey(c) => new[i] = list[i]
    BY <2>3
  <2>7. \A i \in 1 .. N : SemanticKey(list[i]) # SemanticKey(c) => new[i] = list[i]
    BY <2>3
  <2>8. \A i \in 1 .. N : SemanticKey(new[i]) = SemanticKey(c) =>
           SemanticKey(list[i]) = SemanticKey(c) /\ new[i] = MergeDuplicate(list[i], c, sets)
    BY <2>3
  <2>9. \E i \in 1 .. N : SemanticKey(new[i]) = SemanticKey(c)
    BY <1>1, <1>2, <2>3
  <2> HIDE DEF N
  <2> QED
    BY <1>1, <2>3, <2>4, <2>5, <2>6, <2>7, <2>8, <2>9 DEF new, Joins
<1>3. CASE ~ \E i \in DOMAIN list : SemanticKey(list[i]) = SemanticKey(c)
  <2>1. new = Append(list, c)
    BY <1>3 DEF Put
  <2>2. /\ new \in Seq(Constraint) /\ DOMAIN new = 1 .. N + 1 /\ new[N + 1] = c
        /\ \A i \in 1 .. N : new[i] = list[i] /\ i \in 1 .. N + 1
    BY <1>1, <2>1, AppendProperties
  <2> HIDE DEF new, N
  <2>3. \A i \in 1 .. N + 1 : i \in 1 .. N \/ i = N + 1
    BY <1>1
  <2>4. \A i \in 1 .. N : SemanticKey(new[i]) # SemanticKey(c)
    BY <1>1, <1>3, <2>2
  <2>5. Distinct(new)
    <3>1. \A i, j \in 1 .. N : SemanticKey(list[i]) = SemanticKey(list[j]) => i = j
      BY <1>1 DEF Distinct
    <3> QED
      BY <2>2, <2>3, <2>4, <3>1 DEF Distinct
  <2>6. N + 1 \in 1 .. N + 1
    BY <1>1
  <2> QED
    BY <1>1, <1>3, <2>2, <2>3, <2>4, <2>5, <2>6 DEF new, Joins
<1> QED
  BY <1>2, <1>3

(* A list is put into another one constraint at a time.                    *)
LEMMA PutByPrefix ==
    ASSUME NEW list \in Seq(Constraint), Distinct(list), NEW added \in Seq(Constraint), NEW sets \in BOOLEAN
    PROVE  \E f \in [0 .. Len(added) -> {out \in Seq(Constraint) : Distinct(out)}] :
              /\ f[0] = list
              /\ \A n \in 0 .. Len(added) - 1 : f[n + 1] = Put(f[n], added[n + 1], sets)
              /\ PutAll(list, added, sets) = f[Len(added)]
<1> DEFINE N == Len(added)
           S == {out \in Seq(Constraint) : Distinct(out)}
           step == [p \in (1 .. N) \X S |-> Put(p[2], added[p[1]], sets)]
           is(f) == f = [n \in 0 .. N |-> IF n = 0 THEN list ELSE Put(f[n - 1], added[n], sets)]
           put == CHOOSE f : is(f)
<1>1. N \in Nat /\ \A n \in 1 .. N : added[n] \in Constraint
  BY LenProperties, ElementOfSeq
<1>2. step \in [(1 .. N) \X S -> S]
  <2>1. \A n \in 1 .. N : \A out \in S : Put(out, added[n], sets) \in S
    BY <1>1, PutJoins
  <2> HIDE DEF S, N
  <2> QED
    BY <2>1
<1>3. PICK f \in [0 .. N -> S] : Recursion(N, list, step, f)
  <2>1. list \in S
    OBVIOUS
  <2> HIDE DEF S, N, step
  <2> QED
    BY <1>1, <1>2, <2>1, RecursionExists
<1>4. is(f)
  <2>1. \A n \in 0 .. N : n # 0 => n \in 1 .. N /\ n - 1 \in 0 .. N
    BY <1>1
  <2>2. \A n \in 1 .. N : \A out \in S : step[<<n, out>>] = Put(out, added[n], sets)
    <3> HIDE DEF S, N
    <3> QED
      OBVIOUS
  <2>3. f = [n \in 0 .. N |-> IF n = 0 THEN list ELSE step[<<n, f[n - 1]>>]]
    BY <1>3 DEF Recursion
  <2> HIDE DEF S, N, step
  <2>4. \A n \in 0 .. N : n # 0 => f[n - 1] \in S
    BY <1>3, <2>1
  <2>5. \A n \in 0 .. N : f[n] = IF n = 0 THEN list ELSE Put(f[n - 1], added[n], sets)
    <3> TAKE n \in 0 .. N
    <3>1. f[n] = IF n = 0 THEN list ELSE step[<<n, f[n - 1]>>]
      BY <2>3
    <3>2. n # 0 => step[<<n, f[n - 1]>>] = Put(f[n - 1], added[n], sets)
      BY <2>1, <2>2, <2>4
    <3> QED
      BY <3>1, <3>2
  <2>6. f = [n \in 0 .. N |-> f[n]]
    BY <1>3
  <2> QED
    BY <2>5, <2>6
<1>5. is(put)
  <2> HIDE DEF is
  <2> QED
    BY <1>4
<1>6. PutAll(list, added, sets) = put[N]
  BY DEF PutAll
<1>7. put = f
  <2> DEFINE T == {n \in 0 .. N : put[n] = f[n]}
  <2>1. /\ \A n \in 0 .. N : put[n] = IF n = 0 THEN list ELSE Put(put[n - 1], added[n], sets)
        /\ put = [n \in 0 .. N |-> put[n]]
    <3> HIDE DEF put
    <3>1. \A n \in 0 .. N : put[n] = IF n = 0 THEN list ELSE Put(put[n - 1], added[n], sets)
      BY <1>5
    <3>2. put = [n \in 0 .. N |-> put[n]]
      BY <1>5, <3>1
    <3> QED
      BY <3>1, <3>2
  <2>2. /\ \A n \in 0 .. N : f[n] = IF n = 0 THEN list ELSE Put(f[n - 1], added[n], sets)
        /\ f = [n \in 0 .. N |-> f[n]]
    BY <1>3, <1>4
  <2> HIDE DEF put, N, S
  <2>3. 0 \in T
    <3>1. 0 \in 0 .. N
      BY <1>1
    <3> QED
      BY <2>1, <2>2, <3>1
  <2>4. ASSUME NEW n \in 0 .. N - 1, n \in T PROVE n + 1 \in T
    <3>1. n + 1 \in 0 .. N /\ n + 1 # 0 /\ (n + 1) - 1 = n /\ put[n] = f[n]
      BY <1>1, <2>4
    <3>2. put[n + 1] = Put(put[(n + 1) - 1], added[n + 1], sets)
      BY <2>1, <3>1
    <3>3. f[n + 1] = Put(f[(n + 1) - 1], added[n + 1], sets)
      BY <2>2, <3>1
    <3> QED
      BY <3>1, <3>2, <3>3
  <2>5. 0 .. N \subseteq T
    <3> HIDE DEF T
    <3> QED
      BY <1>1, <2>3, <2>4, UpToInduction
  <2> QED
    BY <2>1, <2>2, <2>5
<1>8. \A n \in 0 .. N - 1 : f[n + 1] = Put(f[n], added[n + 1], sets)
  <2> TAKE n \in 0 .. N - 1
  <2>1. n + 1 \in 0 .. N /\ n + 1 # 0 /\ (n + 1) - 1 = n
    BY <1>1
  <2>2. f[n + 1] = Put(f[(n + 1) - 1], added[n + 1], sets)
    BY <1>4, <2>1
  <2> QED
    BY <2>1, <2>2
<1>9. f[0] = list
  <2>1. 0 \in 0 .. N
    BY <1>1
  <2> QED
    BY <1>4, <2>1
<1> HIDE DEF put
<1> QED
  BY <1>3, <1>6, <1>7, <1>8, <1>9

(* What a list asks for under one meaning: the strongest priority, and a   *)
(* field to check if some wording has one.                                 *)
SumsUp(c, set) ==
    /\ \E d \in set : d.priority = c.priority
    /\ \A d \in set : PriorityRank(d.priority) <= PriorityRank(c.priority)
    /\ Checkable(c) <=> \E d \in set : Checkable(d)

(* The first n of a list that have a key.                                  *)
FirstHaving(list, key, n) == {list[i] : i \in {i \in 1 .. n : SemanticKey(list[i]) = key}}

LEMMA OneMoreSumsUp ==
    ASSUME NEW list \in Seq(Constraint), NEW n \in Nat, n + 1 \in DOMAIN list,
           NEW c \in Constraint, NEW key, SumsUp(c, FirstHaving(list, key, n)),
           SemanticKey(list[n + 1]) = key
    PROVE  SumsUp(MergeDuplicate(c, list[n + 1], FALSE), FirstHaving(list, key, n + 1))
<1> DEFINE d == list[n + 1]
           m == MergeDuplicate(c, d, FALSE)
           before == FirstHaving(list, key, n)
           after == FirstHaving(list, key, n + 1)
<1>1. d \in Constraint /\ DOMAIN list = 1 .. Len(list) /\ Len(list) \in Nat
  BY LenProperties, ElementOfSeq
<1>2. before \subseteq Constraint
  <2>1. \A i \in 1 .. n : list[i] \in Constraint
    BY <1>1, ElementOfSeq
  <2> QED
    BY <2>1 DEF FirstHaving
<1>3. after = before \cup {d}
  <2>1. \A i : i \in 1 .. n + 1 <=> i \in 1 .. n \/ i = n + 1
    OBVIOUS
  <2> QED
    BY <2>1 DEF FirstHaving
<1>4. m.priority = Stronger(c.priority, d.priority) /\ (Checkable(m) <=> Checkable(c) \/ Checkable(d))
  BY <1>1, MergedHasBoth
<1>5. /\ \E e \in before : e.priority = c.priority
      /\ \A e \in before : PriorityRank(e.priority) <= PriorityRank(c.priority)
      /\ Checkable(c) <=> \E e \in before : Checkable(e)
  BY DEF SumsUp
<1>6. /\ m.priority \in {c.priority, d.priority}
      /\ PriorityRank(c.priority) <= PriorityRank(m.priority)
      /\ PriorityRank(d.priority) <= PriorityRank(m.priority)
      /\ PriorityRank(c.priority) \in Nat /\ PriorityRank(m.priority) \in Nat
      /\ \A e \in before : PriorityRank(e.priority) \in Nat
  <2>1. \A e \in Constraint : e.priority \in {"must", "nice", "forbidden"}
    BY DEF Constraint
  <2> HIDE DEF m, before, d
  <2> QED
    <3> DEFINE p == c.priority
               q == d.priority
    <3>1. p \in {"must", "nice", "forbidden"} /\ q \in {"must", "nice", "forbidden"}
      BY <1>1, <2>1
    <3>2. \A e \in before : e.priority \in {"must", "nice", "forbidden"}
      BY <1>2, <2>1
    <3>3. m.priority = Stronger(p, q)
      BY <1>4
    <3> HIDE DEF p, q
    <3>4. /\ Stronger(p, q) \in {p, q}
          /\ PriorityRank(p) <= PriorityRank(Stronger(p, q)) /\ PriorityRank(q) <= PriorityRank(Stronger(p, q))
          /\ PriorityRank(p) \in Nat /\ PriorityRank(Stronger(p, q)) \in Nat
      BY <3>1 DEF Stronger, PriorityRank
    <3>5. \A e \in before : PriorityRank(e.priority) \in Nat
      BY <3>2 DEF PriorityRank
    <3> QED
      BY <3>3, <3>4, <3>5 DEF p, q
<1> HIDE DEF m, before, after, d
<1>7. \A e \in after : PriorityRank(e.priority) <= PriorityRank(m.priority)
  <2> SUFFICES ASSUME NEW e \in after PROVE PriorityRank(e.priority) <= PriorityRank(m.priority)
    OBVIOUS
  <2>1. CASE e = d
    BY <1>6, <2>1
  <2>2. CASE e \in before
    BY <1>5, <1>6, <2>2
  <2> QED
    BY <1>3, <2>1, <2>2
<1>8. \E e \in after : e.priority = m.priority
  BY <1>3, <1>5, <1>6
<1>9. Checkable(m) <=> \E e \in after : Checkable(e)
  BY <1>3, <1>4, <1>5
<1>10. SumsUp(m, after)
  BY <1>7, <1>8, <1>9 DEF SumsUp
<1> QED
  BY <1>10 DEF m, after, d

LEMMA NoMoreOfKey ==
    ASSUME NEW list, NEW n \in Nat, NEW key, SemanticKey(list[n + 1]) # key
    PROVE  FirstHaving(list, key, n + 1) = FirstHaving(list, key, n)
<1>1. \A i : i \in 1 .. n + 1 <=> i \in 1 .. n \/ i = n + 1
  OBVIOUS
<1> QED
  BY <1>1 DEF FirstHaving

LEMMA FirstOfKey ==
    ASSUME NEW list \in Seq(Constraint), NEW n \in Nat, n + 1 \in DOMAIN list,
           \A i \in 1 .. n : SemanticKey(list[i]) # SemanticKey(list[n + 1])
    PROVE  SumsUp(list[n + 1], FirstHaving(list, SemanticKey(list[n + 1]), n + 1))
<1> DEFINE d == list[n + 1]
<1>1. FirstHaving(list, SemanticKey(d), n + 1) = {d}
  <2>1. \A i : i \in 1 .. n + 1 <=> i \in 1 .. n \/ i = n + 1
    OBVIOUS
  <2> QED
    BY <2>1 DEF FirstHaving
<1>2. d \in Constraint
  BY ElementOfSeq, LenProperties
<1>3. PriorityRank(d.priority) \in Nat
  <2>1. d.priority \in {"must", "nice", "forbidden"}
    BY <1>2 DEF Constraint
  <2> QED
    BY <2>1, StrongerIsOne
<1> HIDE DEF d
<1>4. SumsUp(d, {d})
  BY <1>3 DEF SumsUp
<1> QED
  BY <1>1, <1>4 DEF d

(* Put one by one into an empty list, constraints stand once, summed up.   *)
LEMMA GatheredSumUp ==
    ASSUME NEW added \in Seq(Constraint)
    PROVE  LET out == PutAll(<<>>, added, FALSE)
           IN  /\ out \in Seq(Constraint) /\ Distinct(out)
               /\ \A i \in DOMAIN out :
                     SumsUp(out[i], FirstHaving(added, SemanticKey(out[i]), Len(added)))
               /\ \A m \in DOMAIN added : \E i \in DOMAIN out : SemanticKey(out[i]) = SemanticKey(added[m])
<1> DEFINE N == Len(added)
           S == {out \in Seq(Constraint) : Distinct(out)}
<1>1. <<>> \in Seq(Constraint) /\ Distinct(<<>>) /\ DOMAIN <<>> = {}
  BY DEF Distinct
<1>2. PICK f \in [0 .. N -> S] :
         /\ f[0] = <<>>
         /\ \A n \in 0 .. N - 1 : f[n + 1] = Put(f[n], added[n + 1], FALSE)
         /\ PutAll(<<>>, added, FALSE) = f[N]
  BY <1>1, PutByPrefix
<1>3. N \in Nat /\ DOMAIN added = 1 .. N /\ \A n \in 1 .. N : added[n] \in Constraint
  BY LenProperties, ElementOfSeq
<1> DEFINE Good(out, n) ==
              /\ \A i \in DOMAIN out : SumsUp(out[i], FirstHaving(added, SemanticKey(out[i]), n))
              /\ \A m \in 1 .. n : \E i \in DOMAIN out : SemanticKey(out[i]) = SemanticKey(added[m])
           T == {n \in 0 .. N : Good(f[n], n)}
<1>4. 0 \in T
  <2>1. 0 \in 0 .. N /\ 1 .. 0 = {}
    BY <1>3
  <2> QED
    BY <1>1, <1>2, <2>1
<1>5. ASSUME NEW n \in 0 .. N - 1, n \in T PROVE n + 1 \in T
  <2> DEFINE out == f[n]
             new == f[n + 1]
             c == added[n + 1]
  <2>1. n \in Nat /\ n + 1 \in DOMAIN added /\ n \in 0 .. N /\ n + 1 \in 0 .. N /\ c \in Constraint
    BY <1>3
  <2>2. out \in Seq(Constraint) /\ Distinct(out) /\ new = Put(out, c, FALSE) /\ Good(out, n)
    BY <1>2, <1>5, <2>1
  <2>3. \A i \in DOMAIN out : out[i] \in Constraint
    BY <2>2, LenProperties, ElementOfSeq
  <2> HIDE DEF out, new, c
  <2>4. /\ \A i \in DOMAIN new : SemanticKey(new[i]) # SemanticKey(c) => i \in DOMAIN out /\ new[i] = out[i]
        /\ \A i \in DOMAIN out : SemanticKey(out[i]) # SemanticKey(c) => i \in DOMAIN new /\ new[i] = out[i]
        /\ \E i \in DOMAIN new : SemanticKey(new[i]) = SemanticKey(c)
        /\ \A i \in DOMAIN new : SemanticKey(new[i]) = SemanticKey(c) =>
              \/ /\ i \in DOMAIN out /\ SemanticKey(out[i]) = SemanticKey(c)
                 /\ new[i] = MergeDuplicate(out[i], c, FALSE)
              \/ /\ \A j \in DOMAIN out : SemanticKey(out[j]) # SemanticKey(c)
                 /\ new[i] = c
    <3>1. Joins(new, out, c, FALSE)
      BY <2>1, <2>2, PutJoins
    <3> QED
      BY <3>1 DEF Joins
  <2>5. ASSUME NEW i \in DOMAIN new
        PROVE  SumsUp(new[i], FirstHaving(added, SemanticKey(new[i]), n + 1))
    <3>1. CASE SemanticKey(new[i]) # SemanticKey(c)
      <4>1. i \in DOMAIN out /\ new[i] = out[i]
        BY <2>4, <3>1
      <4>2. SumsUp(out[i], FirstHaving(added, SemanticKey(out[i]), n))
        BY <2>2, <4>1
      <4>3. FirstHaving(added, SemanticKey(out[i]), n + 1) = FirstHaving(added, SemanticKey(out[i]), n)
        BY <2>1, <3>1, <4>1, NoMoreOfKey DEF c
      <4> QED
        BY <4>1, <4>2, <4>3
    <3>2. CASE /\ SemanticKey(new[i]) = SemanticKey(c)
               /\ i \in DOMAIN out /\ SemanticKey(out[i]) = SemanticKey(c)
               /\ new[i] = MergeDuplicate(out[i], c, FALSE)
      <4>1. SumsUp(out[i], FirstHaving(added, SemanticKey(c), n)) /\ out[i] \in Constraint
        BY <2>2, <2>3, <3>2
      <4>2. SumsUp(MergeDuplicate(out[i], c, FALSE), FirstHaving(added, SemanticKey(c), n + 1))
        BY <2>1, <4>1, OneMoreSumsUp DEF c
      <4> QED
        BY <3>2, <4>2
    <3>3. CASE /\ SemanticKey(new[i]) = SemanticKey(c)
               /\ \A j \in DOMAIN out : SemanticKey(out[j]) # SemanticKey(c)
               /\ new[i] = c
      <4>1. \A m \in 1 .. n : SemanticKey(added[m]) # SemanticKey(c)
        BY <2>2, <3>3
      <4>2. SumsUp(c, FirstHaving(added, SemanticKey(c), n + 1))
        BY <2>1, <4>1, FirstOfKey DEF c
      <4> QED
        BY <3>3, <4>2
    <3> QED
      BY <2>4, <3>1, <3>2, <3>3
  <2>6. ASSUME NEW m \in 1 .. n + 1
        PROVE  \E i \in DOMAIN new : SemanticKey(new[i]) = SemanticKey(added[m])
    <3>1. CASE SemanticKey(added[m]) = SemanticKey(c)
      BY <2>4, <3>1
    <3>2. CASE SemanticKey(added[m]) # SemanticKey(c)
      <4>1. m \in 1 .. n
        <5>1. m # n + 1
          BY <3>2 DEF c
        <5> QED
          BY <2>1, <5>1
      <4>2. PICK i \in DOMAIN out : SemanticKey(out[i]) = SemanticKey(added[m])
        BY <2>2, <4>1
      <4> QED
        BY <2>4, <3>2, <4>2
    <3> QED
      BY <3>1, <3>2
  <2>7. Good(new, n + 1)
    BY <2>5, <2>6
  <2> HIDE DEF Good
  <2> QED
    BY <2>1, <2>7 DEF new
<1>6. N \in T
  <2>1. 0 .. N \subseteq T
    <3> HIDE DEF T
    <3> QED
      BY <1>3, <1>4, <1>5, UpToInduction
  <2> QED
    BY <1>3, <2>1
<1>7. Good(f[N], N) /\ f[N] \in S
  BY <1>2, <1>3, <1>6
<1> QED
  BY <1>2, <1>3, <1>7

(* A list without the duplicates asks for what the list asked for.         *)
LEMMA DedupedSumsUp ==
    ASSUME NEW list \in Seq(Constraint)
    PROVE  /\ Dedupe(list) \in Seq(Constraint) /\ Distinct(Dedupe(list))
           /\ \A i \in DOMAIN Dedupe(list) :
                 SumsUp(Dedupe(list)[i], Having(list, SemanticKey(Dedupe(list)[i])))
           /\ \A m \in DOMAIN list : \E i \in DOMAIN Dedupe(list) :
                 SemanticKey(Dedupe(list)[i]) = SemanticKey(list[m])
<1> DEFINE N == Len(list)
           normal == [i \in DOMAIN list |-> NormalizeConsistency(list[i])]
           out == Dedupe(list)
<1>1. N \in Nat /\ DOMAIN list = 1 .. N /\ \A n \in 1 .. N : list[n] \in Constraint
  BY LenProperties, ElementOfSeq
<1>2. \A i \in 1 .. N : /\ NormalizeConsistency(list[i]) \in Constraint
                        /\ SemanticKey(NormalizeConsistency(list[i])) = SemanticKey(list[i])
                        /\ NormalizeConsistency(list[i]).priority = list[i].priority
                        /\ Checkable(NormalizeConsistency(list[i])) <=> Checkable(list[i])
  BY <1>1, NormalizedIsSame
<1>3. /\ normal = [i \in 1 .. N |-> NormalizeConsistency(list[i])]
      /\ \A i \in 1 .. N : normal[i] = NormalizeConsistency(list[i])
  BY <1>1
<1>4. normal \in Seq(Constraint) /\ Len(normal) = N /\ DOMAIN normal = 1 .. N
  <2> HIDE DEF N
  <2>1. normal \in [1 .. N -> Constraint]
    BY <1>2, <1>3
  <2> QED
    BY <1>1, <2>1
<1> HIDE DEF normal
<1>5. out = PutAll(<<>>, normal, FALSE)
  BY DEF Dedupe, normal
<1>6. /\ out \in Seq(Constraint) /\ Distinct(out)
      /\ \A i \in DOMAIN out : SumsUp(out[i], FirstHaving(normal, SemanticKey(out[i]), N))
      /\ \A m \in DOMAIN normal : \E i \in DOMAIN out : SemanticKey(out[i]) = SemanticKey(normal[m])
  BY <1>4, <1>5, GatheredSumUp
<1> HIDE DEF out, N
<1>7. ASSUME NEW i \in DOMAIN out PROVE SumsUp(out[i], Having(list, SemanticKey(out[i])))
  <2> DEFINE key == SemanticKey(out[i])
             old == Having(list, key)
             new == FirstHaving(normal, key, N)
             c == out[i]
  <2>1. SumsUp(c, new)
    BY <1>6
  <2>2. \A d \in old : \E e \in new : d.priority = e.priority /\ (Checkable(d) <=> Checkable(e))
    BY <1>1, <1>2, <1>3 DEF Having, FirstHaving
  <2>3. \A e \in new : \E d \in old : d.priority = e.priority /\ (Checkable(d) <=> Checkable(e))
    BY <1>1, <1>2, <1>3 DEF Having, FirstHaving
  <2> HIDE DEF key, old, new, c
  <2>4. SumsUp(c, old)
    <3>1. /\ \E d \in new : d.priority = c.priority
          /\ \A d \in new : PriorityRank(d.priority) <= PriorityRank(c.priority)
          /\ Checkable(c) <=> \E d \in new : Checkable(d)
      BY <2>1 DEF SumsUp
    <3>2. \E d \in old : d.priority = c.priority
      BY <2>3, <3>1
    <3>3. \A d \in old : PriorityRank(d.priority) <= PriorityRank(c.priority)
      BY <2>2, <3>1
    <3>4. Checkable(c) <=> \E d \in old : Checkable(d)
      BY <2>2, <2>3, <3>1
    <3> QED
      BY <3>2, <3>3, <3>4 DEF SumsUp
  <2> QED
    BY <2>4 DEF key, old, c
<1>8. \A m \in DOMAIN list : \E i \in DOMAIN out : SemanticKey(out[i]) = SemanticKey(list[m])
  BY <1>1, <1>2, <1>3, <1>4, <1>6
<1> QED
  BY <1>6, <1>7, <1>8 DEF out

(* What a constraint of an updated list has from the list before (a) and   *)
(* from the first n of what was said (b).                                  *)
Updates(c, a, b, n) ==
    \/ \E m \in 1 .. n :
          /\ SemanticKey(b[m]) = SemanticKey(c) /\ c.priority = b[m].priority
          /\ Checkable(c) <=> \/ Checkable(b[m])
                              \/ \E j \in DOMAIN a : SemanticKey(a[j]) = SemanticKey(c) /\ Checkable(a[j])
    \/ /\ \A m \in 1 .. n : SemanticKey(b[m]) # SemanticKey(c)
       /\ \E j \in DOMAIN a : c = a[j]

LEMMA UpdatedHasBoth ==
    ASSUME NEW a \in Seq(Constraint), Distinct(a), NEW b \in Seq(Constraint), Distinct(b)
    PROVE  LET out == PutAll(a, b, TRUE)
           IN  /\ out \in Seq(Constraint) /\ Distinct(out)
               /\ \A i \in DOMAIN out : Updates(out[i], a, b, Len(b))
               /\ \A m \in DOMAIN b : \E i \in DOMAIN out : SemanticKey(out[i]) = SemanticKey(b[m])
               /\ \A j \in DOMAIN a : \E i \in DOMAIN out : SemanticKey(out[i]) = SemanticKey(a[j])
<1> DEFINE N == Len(b)
           S == {out \in Seq(Constraint) : Distinct(out)}
<1>1. PICK f \in [0 .. N -> S] :
         /\ f[0] = a
         /\ \A n \in 0 .. N - 1 : f[n + 1] = Put(f[n], b[n + 1], TRUE)
         /\ PutAll(a, b, TRUE) = f[N]
  BY PutByPrefix
<1>2. N \in Nat /\ DOMAIN b = 1 .. N /\ \A n \in 1 .. N : b[n] \in Constraint
  BY LenProperties, ElementOfSeq
<1> DEFINE Good(out, n) ==
              /\ \A i \in DOMAIN out : Updates(out[i], a, b, n)
              /\ \A m \in 1 .. n : \E i \in DOMAIN out : SemanticKey(out[i]) = SemanticKey(b[m])
              /\ \A j \in DOMAIN a : \E i \in DOMAIN out : SemanticKey(out[i]) = SemanticKey(a[j])
           T == {n \in 0 .. N : Good(f[n], n)}
<1>3. 0 \in T
  <2>1. 0 \in 0 .. N /\ 1 .. 0 = {}
    BY <1>2
  <2>2. \A j \in DOMAIN a : Updates(a[j], a, b, 0)
    BY <2>1 DEF Updates
  <2> QED
    BY <1>1, <2>1, <2>2
<1>4. ASSUME NEW n \in 0 .. N - 1, n \in T PROVE n + 1 \in T
  <2> DEFINE out == f[n]
             new == f[n + 1]
             c == b[n + 1]
  <2>1. n \in Nat /\ n + 1 \in DOMAIN b /\ n \in 0 .. N /\ n + 1 \in 0 .. N /\ c \in Constraint
    BY <1>2
  <2>2. out \in Seq(Constraint) /\ Distinct(out) /\ new = Put(out, c, TRUE) /\ Good(out, n)
    BY <1>1, <1>4, <2>1
  <2>3. \A i \in DOMAIN out : out[i] \in Constraint
    BY <2>2, LenProperties, ElementOfSeq
  <2>4. \A m \in 1 .. n : SemanticKey(b[m]) # SemanticKey(c)
    BY <1>2, <2>1 DEF Distinct
  <2>5. 1 .. n + 1 = 1 .. n \cup {n + 1} /\ n + 1 \in 1 .. n + 1
    BY <2>1
  <2> HIDE DEF out, new, S
  <2>6. /\ \A i \in DOMAIN new : SemanticKey(new[i]) # SemanticKey(c) => i \in DOMAIN out /\ new[i] = out[i]
        /\ \A i \in DOMAIN out : SemanticKey(out[i]) # SemanticKey(c) => i \in DOMAIN new /\ new[i] = out[i]
        /\ \E i \in DOMAIN new : SemanticKey(new[i]) = SemanticKey(c)
        /\ \A i \in DOMAIN new : SemanticKey(new[i]) = SemanticKey(c) =>
              \/ /\ i \in DOMAIN out /\ SemanticKey(out[i]) = SemanticKey(c)
                 /\ new[i] = MergeDuplicate(out[i], c, TRUE)
              \/ /\ \A j \in DOMAIN out : SemanticKey(out[j]) # SemanticKey(c)
                 /\ new[i] = c
    <3> HIDE DEF c
    <3>1. Joins(new, out, c, TRUE)
      BY <2>1, <2>2, PutJoins
    <3> QED
      BY <3>1 DEF Joins
  <2>7. ASSUME NEW i \in DOMAIN new
        PROVE  Updates(new[i], a, b, n + 1)
    <3>1. CASE SemanticKey(new[i]) # SemanticKey(c)
      <4>1. i \in DOMAIN out /\ new[i] = out[i] /\ Updates(new[i], a, b, n)
        BY <2>2, <2>6, <3>1
      <4>2. CASE \E m \in 1 .. n :
                    /\ SemanticKey(b[m]) = SemanticKey(new[i]) /\ new[i].priority = b[m].priority
                    /\ Checkable(new[i]) <=> \/ Checkable(b[m])
                          \/ \E j \in DOMAIN a : SemanticKey(a[j]) = SemanticKey(new[i]) /\ Checkable(a[j])
        BY <2>5, <4>2 DEF Updates
      <4>3. CASE /\ \A m \in 1 .. n : SemanticKey(b[m]) # SemanticKey(new[i])
                 /\ \E j \in DOMAIN a : new[i] = a[j]
        BY <2>5, <3>1, <4>3 DEF Updates
      <4> QED
        BY <4>1, <4>2, <4>3 DEF Updates
    <3>2. CASE /\ SemanticKey(new[i]) = SemanticKey(c)
               /\ i \in DOMAIN out /\ SemanticKey(out[i]) = SemanticKey(c)
               /\ new[i] = MergeDuplicate(out[i], c, TRUE)
      <4>1. PICK j \in DOMAIN a : out[i] = a[j]
        BY <2>2, <2>4, <3>2 DEF Updates
      <4>2. new[i].priority = c.priority /\ (Checkable(new[i]) <=> Checkable(a[j]) \/ Checkable(c))
        <5>1. c \in Constraint /\ out[i] \in Constraint
          BY <2>1, <2>3, <3>2
        <5> HIDE DEF c
        <5> QED
          <6> DEFINE o == out[i]
          <6>1. o \in Constraint /\ new[i] = MergeDuplicate(o, c, TRUE)
            BY <3>2, <5>1
          <6> HIDE DEF o
          <6>2. new[i].priority = c.priority
            BY <5>1, <6>1, MergedOver
          <6>3. Checkable(new[i]) <=> Checkable(o) \/ Checkable(c)
            BY <5>1, <6>1, MergedOver
          <6> QED
            BY <4>1, <6>2, <6>3 DEF o
      <4>3. \A k \in DOMAIN a : SemanticKey(a[k]) = SemanticKey(new[i]) <=> k = j
        BY <3>2, <4>1 DEF Distinct
      <4>4. Checkable(new[i]) <=> \/ Checkable(c)
                                  \/ \E k \in DOMAIN a : SemanticKey(a[k]) = SemanticKey(new[i]) /\ Checkable(a[k])
        BY <4>2, <4>3
      <4> QED
        BY <2>5, <3>2, <4>2, <4>4 DEF Updates
    <3>3. CASE /\ SemanticKey(new[i]) = SemanticKey(c)
               /\ \A j \in DOMAIN out : SemanticKey(out[j]) # SemanticKey(c)
               /\ new[i] = c
      <4>1. \A k \in DOMAIN a : SemanticKey(a[k]) # SemanticKey(c)
        BY <2>2, <3>3
      <4>2. Checkable(new[i]) <=> \/ Checkable(c)
                                  \/ \E k \in DOMAIN a : SemanticKey(a[k]) = SemanticKey(new[i]) /\ Checkable(a[k])
        BY <3>3, <4>1
      <4> QED
        BY <2>5, <3>3, <4>2 DEF Updates
    <3> QED
      BY <2>6, <3>1, <3>2, <3>3
  <2>8. \A j \in DOMAIN out : \E i \in DOMAIN new : SemanticKey(new[i]) = SemanticKey(out[j])
    <3> HIDE DEF c
    <3> SUFFICES ASSUME NEW j \in DOMAIN out
                 PROVE  \E i \in DOMAIN new : SemanticKey(new[i]) = SemanticKey(out[j])
      OBVIOUS
    <3>1. CASE SemanticKey(out[j]) = SemanticKey(c)
      BY <2>6, <3>1
    <3>2. CASE SemanticKey(out[j]) # SemanticKey(c)
      BY <2>6, <3>2
    <3> QED
      BY <3>1, <3>2
  <2>9. \A m \in 1 .. n + 1 : \E i \in DOMAIN new : SemanticKey(new[i]) = SemanticKey(b[m])
    <3> SUFFICES ASSUME NEW m \in 1 .. n + 1
                 PROVE  \E i \in DOMAIN new : SemanticKey(new[i]) = SemanticKey(b[m])
      OBVIOUS
    <3>1. CASE m = n + 1
      BY <2>6, <3>1
    <3>2. CASE m \in 1 .. n
      <4>1. PICK j \in DOMAIN out : SemanticKey(out[j]) = SemanticKey(b[m])
        BY <2>2, <3>2
      <4> QED
        BY <2>8, <4>1
    <3> QED
      BY <2>5, <3>1, <3>2
  <2>10. \A j \in DOMAIN a : \E i \in DOMAIN new : SemanticKey(new[i]) = SemanticKey(a[j])
    <3> SUFFICES ASSUME NEW j \in DOMAIN a
                 PROVE  \E i \in DOMAIN new : SemanticKey(new[i]) = SemanticKey(a[j])
      OBVIOUS
    <3>1. PICK k \in DOMAIN out : SemanticKey(out[k]) = SemanticKey(a[j])
      BY <2>2
    <3> QED
      BY <2>8, <3>1
  <2>11. Good(new, n + 1)
    BY <2>7, <2>9, <2>10
  <2> HIDE DEF Good
  <2> QED
    BY <2>1, <2>11 DEF new
<1>5. N \in T
  <2>1. 0 .. N \subseteq T
    <3> HIDE DEF T
    <3> QED
      BY <1>2, <1>3, <1>4, UpToInduction
  <2> QED
    BY <1>2, <2>1
<1>6. Good(f[N], N) /\ f[N] \in S
  BY <1>1, <1>2, <1>5
<1> QED
  BY <1>1, <1>2, <1>6

LEMMA StrongestIsMost ==
    ASSUME NEW set \in SUBSET Constraint, NEW c, SumsUp(c, set)
    PROVE  c.priority = Strongest(set)
<1> DEFINE most(p) == \A d \in set : PriorityRank(d.priority) <= PriorityRank(p)
           priorities == {d.priority : d \in set}
<1>1. \A d \in set : d.priority \in {"must", "nice", "forbidden"}
  BY DEF Constraint
<1>2. c.priority \in priorities /\ most(c.priority)
  BY DEF SumsUp
<1>3. Strongest(set) = CHOOSE p \in priorities : most(p)
  BY DEF Strongest
<1>4. Strongest(set) \in priorities /\ most(Strongest(set))
  <2> HIDE DEF most, priorities
  <2> QED
    BY <1>2, <1>3
<1>5. /\ PriorityRank(Strongest(set)) <= PriorityRank(c.priority)
      /\ PriorityRank(c.priority) <= PriorityRank(Strongest(set))
  <2>1. PICK d \in set : d.priority = Strongest(set)
    BY <1>4
  <2>2. PICK e \in set : e.priority = c.priority
    BY <1>2
  <2> QED
    BY <1>2, <1>4, <2>1, <2>2
<1>6. Strongest(set) \in {"must", "nice", "forbidden"} /\ c.priority \in {"must", "nice", "forbidden"}
  BY <1>1, <1>2, <1>4
<1> QED
  BY <1>5, <1>6, StrongerIsOne

LEMMA HavingAreConstraints ==
    ASSUME NEW list \in Seq(Constraint), NEW key
    PROVE  Having(list, key) \subseteq Constraint
<1>1. \A i \in DOMAIN list : list[i] \in Constraint
  BY LenProperties, ElementOfSeq
<1> QED
  BY <1>1 DEF Having

(* Of what was kept and what was said, under every meaning.                *)
StatesBoth(list, kept, said) ==
    /\ list \in Seq(Constraint) /\ Distinct(list)
    /\ \A i \in DOMAIN list : SemanticKey(list[i]) \in Keys(kept) \cup Keys(said)
    /\ \A key \in Keys(kept) \cup Keys(said) :
          LET latest == IF key \in Keys(said) THEN Having(said, key) ELSE Having(kept, key) IN
          \E c \in Having(list, key) :
             /\ c.priority = Strongest(latest)
             /\ CanBeChecked(Having(kept, key) \cup Having(said, key)) => CanBeChecked({c})

LEMMA UpdateStatesBoth ==
    ASSUME NEW kept \in Seq(Constraint), NEW said \in Seq(Constraint)
    PROVE  StatesBoth(ApplyConstraintUpdates(kept, said), kept, said)
<1> DEFINE a == Dedupe(kept)
           b == Dedupe(said)
           out == ApplyConstraintUpdates(kept, said)
           N == Len(b)
<1>1. /\ a \in Seq(Constraint) /\ Distinct(a)
      /\ \A j \in DOMAIN a : SumsUp(a[j], Having(kept, SemanticKey(a[j])))
      /\ \A m \in DOMAIN kept : \E j \in DOMAIN a : SemanticKey(a[j]) = SemanticKey(kept[m])
  BY DedupedSumsUp
<1>2. /\ b \in Seq(Constraint) /\ Distinct(b)
      /\ \A j \in DOMAIN b : SumsUp(b[j], Having(said, SemanticKey(b[j])))
      /\ \A m \in DOMAIN said : \E j \in DOMAIN b : SemanticKey(b[j]) = SemanticKey(said[m])
  BY DedupedSumsUp
<1>3. out = PutAll(a, b, TRUE)
  BY DEF ApplyConstraintUpdates
<1> HIDE DEF a, b, out
<1>4. /\ out \in Seq(Constraint) /\ Distinct(out)
      /\ \A i \in DOMAIN out : Updates(out[i], a, b, N)
      /\ \A m \in DOMAIN b : \E i \in DOMAIN out : SemanticKey(out[i]) = SemanticKey(b[m])
      /\ \A j \in DOMAIN a : \E i \in DOMAIN out : SemanticKey(out[i]) = SemanticKey(a[j])
  <2>1. /\ PutAll(a, b, TRUE) \in Seq(Constraint) /\ Distinct(PutAll(a, b, TRUE))
        /\ \A i \in DOMAIN PutAll(a, b, TRUE) : Updates(PutAll(a, b, TRUE)[i], a, b, N)
        /\ \A m \in DOMAIN b : \E i \in DOMAIN PutAll(a, b, TRUE) :
              SemanticKey(PutAll(a, b, TRUE)[i]) = SemanticKey(b[m])
        /\ \A j \in DOMAIN a : \E i \in DOMAIN PutAll(a, b, TRUE) :
              SemanticKey(PutAll(a, b, TRUE)[i]) = SemanticKey(a[j])
    BY <1>1, <1>2, UpdatedHasBoth
  <2> QED
    BY <1>3, <2>1
<1>5. N \in Nat /\ DOMAIN b = 1 .. N
  BY <1>2, LenProperties
<1>6. /\ \A j \in DOMAIN a : SemanticKey(a[j]) \in Keys(kept)
      /\ \A j \in DOMAIN b : SemanticKey(b[j]) \in Keys(said)
  BY <1>1, <1>2 DEF SumsUp, Having, Keys
<1>7. ASSUME NEW i \in DOMAIN out PROVE SemanticKey(out[i]) \in Keys(kept) \cup Keys(said)
  BY <1>4, <1>5, <1>6 DEF Updates
<1>8. ASSUME NEW key \in Keys(kept) \cup Keys(said)
      PROVE  LET latest == IF key \in Keys(said) THEN Having(said, key) ELSE Having(kept, key) IN
             \E c \in Having(out, key) :
                /\ c.priority = Strongest(latest)
                /\ CanBeChecked(Having(kept, key) \cup Having(said, key)) => CanBeChecked({c})
  <2> DEFINE latest == IF key \in Keys(said) THEN Having(said, key) ELSE Having(kept, key)
  <2>1. Having(said, key) \subseteq Constraint /\ Having(kept, key) \subseteq Constraint
    BY HavingAreConstraints
  <2>2. PICK i \in DOMAIN out : SemanticKey(out[i]) = key
    BY <1>1, <1>2, <1>4 DEF Keys
  <2> DEFINE c == out[i]
  <2>3. c \in Having(out, key)
    BY <2>2 DEF Having
  <2>4. \A set : CanBeChecked(set) <=> \E d \in set : Checkable(d)
    BY DEF CanBeChecked, Checkable
  <2>5. ASSUME NEW set, NEW d, SumsUp(d, set) PROVE CanBeChecked(set) <=> Checkable(d)
    BY <2>4, <2>5 DEF SumsUp
  <2>6. /\ \A d \in Having(kept, key) : Checkable(d) => \E j \in DOMAIN a : SemanticKey(a[j]) = key /\ Checkable(a[j])
        /\ \A d \in Having(said, key) : Checkable(d) => \E j \in DOMAIN b : SemanticKey(b[j]) = key /\ Checkable(b[j])
    <3>1. ASSUME NEW d \in Having(kept, key), Checkable(d)
          PROVE  \E j \in DOMAIN a : SemanticKey(a[j]) = key /\ Checkable(a[j])
      <4>1. PICK j \in DOMAIN a : SemanticKey(a[j]) = key
        BY <1>1 DEF Having
      <4> QED
        BY <1>1, <3>1, <4>1 DEF SumsUp
    <3>2. ASSUME NEW d \in Having(said, key), Checkable(d)
          PROVE  \E j \in DOMAIN b : SemanticKey(b[j]) = key /\ Checkable(b[j])
      <4>1. PICK j \in DOMAIN b : SemanticKey(b[j]) = key
        BY <1>2 DEF Having
      <4> QED
        BY <1>2, <3>2, <4>1 DEF SumsUp
    <3> QED
      BY <3>1, <3>2
  <2> HIDE DEF c
  <2>7. Updates(c, a, b, N) /\ SemanticKey(c) = key
    BY <1>4, <2>2 DEF c
  <2>8. CASE \E m \in 1 .. N :
                /\ SemanticKey(b[m]) = SemanticKey(c) /\ c.priority = b[m].priority
                /\ Checkable(c) <=> \/ Checkable(b[m])
                                    \/ \E j \in DOMAIN a : SemanticKey(a[j]) = SemanticKey(c) /\ Checkable(a[j])
    <3>1. PICK m \in DOMAIN b :
             /\ SemanticKey(b[m]) = key /\ c.priority = b[m].priority
             /\ Checkable(c) <=> \/ Checkable(b[m])
                                 \/ \E j \in DOMAIN a : SemanticKey(a[j]) = key /\ Checkable(a[j])
      BY <1>5, <2>7, <2>8
    <3>2. key \in Keys(said) /\ SumsUp(b[m], Having(said, key))
      BY <1>2, <1>6, <3>1
    <3>3. c.priority = Strongest(latest)
      BY <2>1, <3>1, <3>2, StrongestIsMost
    <3>4. \A j \in DOMAIN b : SemanticKey(b[j]) = key => j = m
      BY <1>2, <3>1 DEF Distinct
    <3>5. CanBeChecked(Having(kept, key) \cup Having(said, key)) => CanBeChecked({c})
      BY <2>4, <2>6, <3>1, <3>4
    <3> QED
      BY <2>3, <3>3, <3>5
  <2>9. CASE /\ \A m \in 1 .. N : SemanticKey(b[m]) # SemanticKey(c)
             /\ \E j \in DOMAIN a : c = a[j]
    <3>1. PICK j \in DOMAIN a : c = a[j]
      BY <2>9
    <3>2. \A m \in DOMAIN b : SemanticKey(b[m]) # key
      BY <1>5, <2>7, <2>9
    <3>3. key \notin Keys(said)
      BY <1>2, <3>2 DEF Keys
    <3>4. SumsUp(c, Having(kept, key))
      BY <1>1, <2>7, <3>1
    <3>5. c.priority = Strongest(latest)
      BY <2>1, <3>3, <3>4, StrongestIsMost
    <3>6. CanBeChecked(Having(kept, key) \cup Having(said, key)) => CanBeChecked({c})
      BY <2>4, <2>6, <3>2, <3>4 DEF SumsUp
    <3> QED
      BY <2>3, <3>5, <3>6
  <2> QED
    BY <2>7, <2>8, <2>9 DEF Updates
<1>9. StatesBoth(out, kept, said)
  BY <1>4, <1>7, <1>8 DEF StatesBoth
<1> QED
  BY <1>9 DEF out

-----------------------------------------------------------------------------
(* A message leaves a search a search (schemas/query.py).                  *)
LEMMA EmptyIsSearch == IsSearch(NoSearch) /\ NoPrice \in Budget
BY DEF IsSearch, NoSearch, NoFilters, NoPrice, HasFilters, Budget, IsOptional

LEMMA MergedBudget ==
    ASSUME NEW p \in Budget, NEW q \in Budget,
           \A side \in {"min", "max", "scope"} : IsOptional(p[side]) /\ IsOptional(q[side])
    PROVE  /\ MergePrice(p, q) \in Budget
           /\ DOMAIN MergePrice(p, q) = {"min", "max", "scope"}
           /\ \A side \in {"min", "max", "scope"} :
                 /\ MergePrice(p, q)[side] = Or(q[side], p[side])
                 /\ IsOptional(MergePrice(p, q)[side])
<1> DEFINE m == MergePrice(p, q)
<1>1. DOMAIN p = {"min", "max", "scope"}
  BY DEF Budget
<1>2. DOMAIN m = {"min", "max", "scope"} /\ \A side \in {"min", "max", "scope"} : m[side] = Or(q[side], p[side])
  BY <1>1 DEF MergePrice
<1>3. /\ m.min \in SUBSET Int /\ m.max \in SUBSET Int /\ m.scope \in SUBSET {"per_night", "total_stay"}
  BY <1>2 DEF Budget, Or
<1>4. m = [min |-> m.min, max |-> m.max, scope |-> m.scope]
  <2>1. m = [side \in {"min", "max", "scope"} |-> Or(q[side], p[side])]
    BY <1>1 DEF MergePrice
  <2> QED
    BY <1>2, <2>1
<1> HIDE DEF m
<1>5. m \in Budget
  BY <1>3, <1>4 DEF Budget
<1>6. \A side \in {"min", "max", "scope"} : IsOptional(m[side])
  BY <1>2 DEF Or
<1> QED
  BY <1>2, <1>5, <1>6 DEF m

LEMMA MergedFilters ==
    ASSUME NEW p, HasFilters(p), NEW q, HasFilters(q)
    PROVE  HasFilters(MergeFilters(p, q)) /\ MergeFilters(p, q).price = MergePrice(p.price, q.price)
<1> DEFINE price == MergePrice(p.price, q.price)
           rooms == Or(q.bedrooms_min, p.bedrooms_min)
<1>1. price \in Budget /\ \A side \in {"min", "max", "scope"} : IsOptional(price[side])
  BY MergedBudget DEF HasFilters
<1>2. rooms \in SUBSET Int /\ IsOptional(rooms)
  BY DEF HasFilters, Or
<1>3. MergeFilters(p, q) = [bedrooms_min |-> rooms, price |-> price]
  BY DEF MergeFilters
<1> HIDE DEF price, rooms
<1>4. HasFilters(MergeFilters(p, q)) /\ MergeFilters(p, q).price = price
  BY <1>1, <1>2, <1>3 DEF HasFilters
<1> QED
  BY <1>4 DEF price

LEMMA MarkerIsConstraint ==
    ASSUME NEW rate \in PeriodTexts
    PROVE  Marker(rate) \in Constraint /\ IsPeriodBudget(Marker(rate)) /\ Marker(rate).text = rate
<1>1. rate \in STRING
  BY RequestAssumption
<1>2. Marker(rate).text = rate /\ Marker(rate).raw = rate
  BY DEF Marker
<1>3. Marker(rate) \in Constraint
  BY <1>1 DEF Marker, Constraint
<1>4. IsPeriodBudget(Marker(rate))
  BY <1>2 DEF IsPeriodBudget
<1> QED
  BY <1>2, <1>3, <1>4

IsMarked(list) == \E i \in DOMAIN list : IsPeriodBudget(list[i])

(* What the guard of the budget may change.                                *)
Guarded(request, state, said, previous) ==
    LET price == request.filters.price IN
    /\ IsSearch(request) /\ request.made = TRUE
    /\ said.period = {} => request = state
    /\ said.period # {} => price \in {NoPrice, previous} \/ Amounts(price) \subseteq said.numbers
    /\ said.period # {} /\ Amounts(price) = {} => IsMarked(request.constraints)
    /\ \/ request.constraints = state.constraints
       \/ /\ said.period # {} /\ ~IsMarked(state.constraints)
          /\ request.constraints = Append(state.constraints, Marker(The(said.period)))

LEMMA GuardGuards ==
    ASSUME NEW state, IsSearch(state), state.made = TRUE, NEW said, IsMessage(said), NEW previous
    PROVE  Guarded(GuardPeriodBudget(state, said, previous), state, said, previous)
<1> DEFINE request == GuardPeriodBudget(state, said, previous)
<1>1. CASE said.period = {}
  <2>1. request = state
    BY <1>1 DEF GuardPeriodBudget
  <2> HIDE DEF request
  <2>2. Guarded(request, state, said, previous)
    BY <1>1, <2>1 DEF Guarded
  <2> QED
    BY <2>2 DEF request
<1>2. CASE said.period # {}
  <2> DEFINE old == state.filters.price
             price == IF DropsPrice(old, said, previous) THEN NoPrice ELSE old
             marked == IsMarked(state.constraints)
             marker == Marker(The(said.period))
             list == IF Amounts(price) = {} /\ ~marked THEN Append(state.constraints, marker) ELSE state.constraints
             filters == [state.filters EXCEPT !.price = price]
  <2>1. request = [state EXCEPT !.filters = filters, !.constraints = list]
    BY <1>2 DEF GuardPeriodBudget, IsMarked
  <2>2. marker \in Constraint /\ IsPeriodBudget(marker)
    BY <1>2, TheIsMember, MarkerIsConstraint DEF IsMessage
  <2>3. HasFilters(filters) /\ filters.price = price
    <3>1. HasFilters(state.filters)
      BY DEF IsSearch
    <3>2. price \in Budget /\ \A side \in {"min", "max", "scope"} : IsOptional(price[side])
      BY <3>1, EmptyIsSearch DEF HasFilters, NoPrice, IsOptional
    <3> HIDE DEF price
    <3> QED
      BY <3>1, <3>2 DEF HasFilters
  <2>4. list \in Seq(Constraint)
    BY <2>2, AppendProperties DEF IsSearch
  <2>5. Amounts(price) = {} => IsMarked(list)
    <3>1. CASE marked
      BY <3>1
    <3>2. CASE Amounts(price) = {} /\ ~marked
      <4>1. list = Append(state.constraints, marker) /\ state.constraints \in Seq(Constraint)
        BY <3>2 DEF IsSearch
      <4> HIDE DEF list, marker
      <4>2. Len(list) \in DOMAIN list /\ list[Len(list)] = marker
        BY <2>2, <4>1, AppendProperties, LenProperties
      <4> QED
        BY <2>2, <4>2 DEF IsMarked
    <3> QED
      BY <3>1, <3>2
  <2>6. price \in {NoPrice, previous} \/ Amounts(price) \subseteq said.numbers
    BY DEF DropsPrice
  <2>7. \/ list = state.constraints
        \/ /\ ~IsMarked(state.constraints)
           /\ list = Append(state.constraints, Marker(The(said.period)))
    OBVIOUS
  <2> HIDE DEF price, marked, marker, list, filters, request
  <2>8. /\ DOMAIN state = DOMAIN NoSearch
        /\ IsOptional(state.city) /\ IsOptional(state.check_in) /\ IsOptional(state.check_out)
        /\ state.check_in \cup state.check_out \subseteq Nat
    BY DEF IsSearch
  <2>9. DOMAIN NoSearch = {"made", "city", "check_in", "check_out", "filters", "types", "constraints"}
    BY DEF NoSearch
  <2>10. /\ DOMAIN request = DOMAIN NoSearch /\ request.made = TRUE
         /\ request.city = state.city /\ request.check_in = state.check_in /\ request.check_out = state.check_out
         /\ request.filters = filters /\ request.constraints = list
    BY <2>1, <2>8, <2>9
  <2>11. IsSearch(request)
    BY <2>3, <2>4, <2>8, <2>10 DEF IsSearch
  <2>12. Guarded(request, state, said, previous)
    BY <1>2, <2>3, <2>5, <2>6, <2>7, <2>10, <2>11 DEF Guarded
  <2> QED
    BY <2>12 DEF request
<1> QED
  BY <1>1, <1>2

LEMMA NightsArePositive ==
    ASSUME NEW said, NEW now, NEW anchor, ResolveStayDates(said, now, anchor).issue = "none"
    PROVE  \A n \in said.nights : ~(n <= 0)
<1> DEFINE stay == ResolveStayDates(said, now, anchor)
           nonsense == \E raw \in said.check_in \cup said.check_out : IsNonsense(raw)
           negative == \E n \in said.nights : n <= 0
<1>1. ~nonsense /\ negative => stay = Refused("non_positive_nights")
  BY DEF ResolveStayDates
<1>2. nonsense => stay = Refused("invalid_date")
  BY DEF ResolveStayDates
<1>3. stay.issue = "none"
  OBVIOUS
<1> HIDE DEF stay
<1>4. \A issue : Refused(issue).issue = issue
  BY DEF Refused
<1>5. ~negative
  BY <1>1, <1>2, <1>3, <1>4
<1> QED
  BY <1>5

IsStay(stay) ==
    /\ stay.check_in \cup stay.check_out \subseteq Nat
    /\ IsOptional(stay.check_in) /\ IsOptional(stay.check_out)

LEMMA ResolvedIsStay ==
    ASSUME NEW said, SaysAStay(said), NEW now \in Nat, NEW anchor, anchor \subseteq Int, IsOptional(anchor)
    PROVE  IsStay(ResolveStayDates(said, now, anchor))
<1> DEFINE stay == ResolveStayDates(said, now, anchor)
<1>1. CASE stay.issue # "none"
  <2>1. stay.check_in = {} /\ stay.check_out = {}
    BY <1>1, RefusedHasNoStay
  <2> QED
    BY <2>1 DEF IsStay, IsOptional
<1>2. CASE stay.issue = "none"
  <2>1. GoodStay(stay, said, now, anchor)
    BY <1>2, StayIsGood
  <2> HIDE DEF stay
  <2>2. IsStay(stay)
    BY <2>1 DEF GoodStay, IsStay
  <2> QED
    BY <2>2 DEF stay
<1> QED
  BY <1>1, <1>2

LEMMA SumIsOptional ==
    ASSUME NEW S \in SUBSET Nat, NEW N \in SUBSET Int, \A n \in N : ~(n <= 0), IsOptional(S), IsOptional(N)
    PROVE  {day + n : day \in S, n \in N} \subseteq Nat /\ IsOptional({day + n : day \in S, n \in N})
<1> DEFINE sum == {day + n : day \in S, n \in N}
<1>1. sum \subseteq Nat
  OBVIOUS
<1>2. ASSUME NEW x \in sum, NEW y \in sum PROVE x = y
  <2>1. PICK d1 \in S, n1 \in N : x = d1 + n1
    OBVIOUS
  <2>2. PICK d2 \in S, n2 \in N : y = d2 + n2
    OBVIOUS
  <2>3. d1 = d2 /\ n1 = n2
    BY DEF IsOptional
  <2> QED
    BY <2>1, <2>2, <2>3
<1> QED
  BY <1>1, <1>2 DEF IsOptional

LEMMA AppliedIsStay ==
    ASSUME NEW state, IsStay(state), NEW said, SaysAStay(said), NEW stay, IsStay(stay),
           \A n \in said.nights : ~(n <= 0)
    PROVE  IsStay(ApplyDates(state, said, stay))
<1> DEFINE before == IF said.clear_dates THEN NoSearch ELSE state
           ins == Or(stay.check_in, before.check_in)
           outs == IF stay.check_out # {} THEN stay.check_out
                   ELSE IF stay.check_in # {} THEN {day + 1 : day \in ins}
                   ELSE IF said.nights # {} /\ ins # {} THEN {day + n : day \in ins, n \in said.nights}
                   ELSE before.check_out
<1>1. IsStay(before)
  BY NoSearchHasNoStay DEF IsStay, IsOptional
<1>2. ApplyDates(state, said, stay).check_in = ins /\ ApplyDates(state, said, stay).check_out = outs
  BY DEF ApplyDates
<1> HIDE DEF before
<1>3. ins \subseteq Nat /\ IsOptional(ins)
  BY <1>1 DEF IsStay, Or
<1> HIDE DEF ins
<1>4. {day + 1 : day \in ins} \subseteq Nat /\ IsOptional({day + 1 : day \in ins})
  BY <1>3 DEF IsOptional
<1>5. /\ {day + n : day \in ins, n \in said.nights} \subseteq Nat
      /\ IsOptional({day + n : day \in ins, n \in said.nights})
  BY <1>3, SumIsOptional DEF SaysAStay
<1>6. outs \subseteq Nat /\ IsOptional(outs)
  BY <1>1, <1>4, <1>5 DEF IsStay
<1> HIDE DEF outs
<1> QED
  BY <1>2, <1>3, <1>6 DEF IsStay

(* The budget that a message adds to.                                      *)
PriceBefore(state, said) == IF said.clear_filters THEN NoPrice ELSE state.filters.price

LEMMA PatchedIsSearch ==
    ASSUME NEW state, IsSearch(state), NEW said, IsMessage(said), NEW stay, IsStay(stay),
           \A n \in said.nights : ~(n <= 0)
    PROVE  LET patched == ApplyIntentPatch(state, said, stay)
               kept == RemoveByText(state.constraints, said.remove_texts)
               honest == Honest(said.add_constraints)
           IN  /\ IsSearch(patched) /\ patched.made = TRUE
               /\ StatesBoth(patched.constraints, kept, honest)
               /\ patched.filters.price = MergePrice(PriceBefore(state, said), said.filters.price)
<1> DEFINE patched == ApplyIntentPatch(state, said, stay)
           dates == ApplyDates(state, said, stay)
           kept == RemoveByText(state.constraints, said.remove_texts)
           honest == Honest(said.add_constraints)
           earlier == IF said.clear_filters THEN NoFilters ELSE state.filters
           city == IF said.city # {} THEN said.city ELSE IF said.clear_city THEN {} ELSE state.city
           types == (state.types \ said.remove_types) \cup said.add_types
<1>1. patched = [made |-> TRUE, city |-> city, check_in |-> dates.check_in, check_out |-> dates.check_out,
                 filters |-> MergeFilters(earlier, said.filters), types |-> types,
                 constraints |-> ApplyConstraintUpdates(kept, honest)]
  BY DEF ApplyIntentPatch
<1>2. IsStay(state) /\ HasFilters(state.filters) /\ state.constraints \in Seq(Constraint) /\ IsOptional(state.city)
  BY DEF IsSearch, IsStay
<1>3. IsStay(dates)
  BY <1>2, AppliedIsStay DEF IsMessage
<1>4. HasFilters(earlier) /\ earlier.price = PriceBefore(state, said)
  BY <1>2, EmptyIsSearch DEF NoFilters, IsSearch, NoSearch, PriceBefore
<1>5. kept \in Seq(Constraint)
  <2> DEFINE spared == {i \in DOMAIN state.constraints :
                           {state.constraints[i].raw, state.constraints[i].text} \cap said.remove_texts = {}}
  <2>1. kept = Kept(state.constraints, spared) /\ spared \in SUBSET DOMAIN state.constraints
    BY DEF RemoveByText
  <2> HIDE DEF spared, kept
  <2> QED
    BY <1>2, <2>1, KeptIsAPart
<1>6. honest \in Seq(Constraint)
  BY HonestAreConstraints DEF IsMessage
<1>7. StatesBoth(ApplyConstraintUpdates(kept, honest), kept, honest)
  BY <1>5, <1>6, UpdateStatesBoth
<1>8. IsOptional(city)
  BY <1>2 DEF IsMessage, IsOptional
<1>9. /\ HasFilters(MergeFilters(earlier, said.filters))
      /\ MergeFilters(earlier, said.filters).price = MergePrice(earlier.price, said.filters.price)
  BY <1>4, MergedFilters DEF IsMessage
<1> HIDE DEF patched, dates, kept, honest, earlier, city, types
<1>10. DOMAIN patched = DOMAIN NoSearch
  BY <1>1 DEF NoSearch
<1>11. ApplyConstraintUpdates(kept, honest) \in Seq(Constraint)
  BY <1>7 DEF StatesBoth
<1>12. IsSearch(patched)
  BY <1>1, <1>3, <1>8, <1>9, <1>10, <1>11 DEF IsSearch, IsStay
<1> QED
  BY <1>1, <1>4, <1>7, <1>9, <1>12 DEF patched, kept, honest
-----------------------------------------------------------------------------
(* What the update of the requirements leaves, and the marker of a rate    *)
(* that may follow it, is what the property asks of a draft.               *)
StatesMarked(list, kept, said, period) ==
    /\ Distinct(list)
    /\ \A key \in Keys(kept) \cup Keys(said) :
          LET latest == IF key \in Keys(said) THEN Having(said, key) ELSE Having(kept, key) IN
          \E c \in Having(list, key) :
             /\ c.priority = Strongest(latest)
             /\ CanBeChecked(Having(kept, key) \cup Having(said, key)) => CanBeChecked({c})
    /\ \A i \in DOMAIN list :
          SemanticKey(list[i]) \in Keys(kept) \cup Keys(said) \/ list[i].text \in period

LEMMA MarkedStatesBoth ==
    ASSUME NEW U, NEW kept, NEW said, StatesBoth(U, kept, said), NEW period, period \subseteq PeriodTexts,
           NEW list, \/ list = U
                     \/ /\ period # {} /\ ~IsMarked(U)
                        /\ list = Append(U, Marker(The(period)))
    PROVE  StatesMarked(list, kept, said, period)
<1>1. CASE list = U
  BY <1>1 DEF StatesBoth, StatesMarked
<1>2. CASE period # {} /\ ~IsMarked(U) /\ list = Append(U, Marker(The(period)))
  <2> DEFINE marker == Marker(The(period))
             n == Len(U)
  <2>1. marker.text \in period /\ marker.text \in PeriodTexts /\ marker \in Constraint
    BY <1>2, TheIsMember, MarkerIsConstraint
  <2>2. U \in Seq(Constraint) /\ n \in Nat /\ DOMAIN U = 1 .. n
    BY LenProperties DEF StatesBoth
  <2>3. /\ DOMAIN list = 1 .. (n + 1) /\ list[n + 1] = marker
        /\ \A i \in 1 .. n : list[i] = U[i]
    <3> HIDE DEF marker
    <3>1. list = Append(U, marker)
      BY <1>2 DEF marker
    <3>2. U \in Seq(Constraint) /\ marker \in Constraint
      BY <2>1, <2>2
    <3>3. /\ Len(list) = Len(U) + 1 /\ list \in Seq(Constraint) /\ list[Len(U) + 1] = marker
          /\ \A i \in 1 .. Len(U) : list[i] = U[i]
      BY <3>1, <3>2, AppendProperties
    <3>4. DOMAIN list = 1 .. Len(list)
      BY <3>3, LenProperties
    <3> QED
      BY <3>3, <3>4
  <2> HIDE DEF n
  <2>4. \A i \in 1 .. n : U[i].text # marker.text
    BY <1>2, <2>1, <2>2 DEF IsMarked, IsPeriodBudget
  <2>5. \A i \in 1 .. n : SemanticKey(U[i]) # SemanticKey(marker)
    BY <2>4 DEF SemanticKey
  <2> HIDE DEF marker
  <2>6. Distinct(list)
    <3>1. \A i \in 1 .. (n + 1) : i \in 1 .. n \/ i = n + 1
      BY <2>2
    <3> QED
      BY <2>2, <2>3, <2>5, <3>1 DEF StatesBoth, Distinct
  <2>7. \A key : Having(U, key) \subseteq Having(list, key)
    <3>1. DOMAIN U \subseteq DOMAIN list /\ \A i \in DOMAIN U : list[i] = U[i]
      BY <2>2, <2>3
    <3> QED
      BY <3>1 DEF Having
  <2>8. \A i \in DOMAIN list : SemanticKey(list[i]) \in Keys(kept) \cup Keys(said) \/ list[i].text \in period
    BY <2>1, <2>2, <2>3 DEF StatesBoth
  <2> QED
    BY <2>6, <2>7, <2>8 DEF StatesBoth, StatesMarked
<1> QED
  BY <1>1, <1>2

(* A budget in a rate without an amount is asked for.                      *)
LEMMA RatesAreAskedFor ==
    ASSUME NEW request, Amounts(request.filters.price) = {}, IsMarked(request.constraints)
    PROVE  NeedClarification(request)
BY DEF NeedClarification, AskBudget, IsMarked

(* What was said of the budget, on top of what there was.                  *)
Budgeted(now, said, earlier, previous) ==
    /\ said.period # {} => now \in {earlier, previous} \/ Amounts(now) \subseteq said.numbers
    /\ said.period = {} =>
         \A side \in DOMAIN now :
            now[side] = IF said.filters.price[side] = {} THEN earlier[side]
                        ELSE said.filters.price[side]

LEMMA GuardedIsBudgeted ==
    ASSUME NEW said, HasFilters(said.filters),
           NEW state, NEW previous \in Budget, NEW earlier \in Budget,
           \A side \in {"min", "max", "scope"} : IsOptional(earlier[side]),
           state.filters.price = MergePrice(earlier, said.filters.price),
           NEW request, Guarded(request, state, said, previous)
    PROVE  Budgeted(request.filters.price, said, earlier, previous)
<1> DEFINE now == request.filters.price
<1>1. CASE said.period # {}
  <2>1. Amounts(NoPrice) = {}
    BY DEF Amounts, NoPrice
  <2> QED
    BY <1>1, <2>1 DEF Guarded, Budgeted
<1>2. CASE said.period = {}
  <2>1. now = MergePrice(earlier, said.filters.price)
    BY <1>2 DEF Guarded
  <2>2. said.filters.price \in Budget /\ \A side \in {"min", "max", "scope"} : IsOptional(said.filters.price[side])
    BY DEF HasFilters
  <2>3. /\ DOMAIN now = {"min", "max", "scope"}
        /\ \A side \in {"min", "max", "scope"} : now[side] = Or(said.filters.price[side], earlier[side])
    BY <2>1, <2>2, MergedBudget
  <2> HIDE DEF now
  <2>4. Budgeted(now, said, earlier, previous)
    BY <1>2, <2>3 DEF Budgeted, Or
  <2> QED
    BY <2>4 DEF now
<1> QED
  BY <1>1, <1>2

(* Every request is a search, and a draft that is to be stored says what   *)
(* was required.                                                           *)
ReqInv ==
    /\ scenario \in Scenarios /\ today \in Days[scenario]
    /\ turn \in 0 .. MaxTurns /\ attempt \in Nat
    /\ stage \in Calls \cup {"idle", "decided", "replying", "failed", "crashed"}
    /\ outcome \in {"none", "answered", "dates_refused", "asked", "searched", "no_op"}
    /\ IsSearch(search) /\ IsSearch(base) /\ IsSearch(draft)
    /\ RequirementsAsStated

LEMMA MessagesAreMessages ==
    ASSUME ReqInv
    PROVE  /\ today \in Nat /\ MaxTurns \in Nat
           /\ \A said \in Intents[scenario] \cup Messages[scenario] : IsMessage(said)
BY RequestAssumption DEF ReqInv

LEMMA StartSearchReqInv ==
    ASSUME ReqInv, NEW said \in Intents[scenario], StartSearch(said), scenario' = scenario, turn' = turn
    PROVE  ReqInv'
<1> DEFINE stay == ResolveStayDates(said, today, {})
           intent == [made |-> TRUE, city |-> said.city, check_in |-> stay.check_in, check_out |-> stay.check_out,
                      filters |-> said.filters, types |-> said.add_types,
                      constraints |-> Honest(said.add_constraints)]
           request == GuardPeriodBudget(intent, said, NoPrice)
<1>1. /\ base' = NoSearch /\ heard' = said /\ today' = today /\ search' = search
      /\ stage' = "decided" /\ attempt' = attempt /\ draft' = request
      /\ outcome' = IF stay.issue # "none" THEN "dates_refused"
                    ELSE IF NeedClarification(request) THEN "asked" ELSE "searched"
  BY DEF StartSearch, Answered
<1>2. IsMessage(said) /\ today \in Nat
  BY MessagesAreMessages
<1>3. IsStay(stay)
  <2>1. SaysAStay(said) /\ IsOptional({})
    BY <1>2 DEF IsMessage, IsOptional
  <2> QED
    BY <1>2, <2>1, ResolvedIsStay
<1>4. Honest(said.add_constraints) \in Seq(Constraint)
  BY <1>2, HonestAreConstraints DEF IsMessage
<1> HIDE DEF stay
<1>5. IsSearch(intent) /\ intent.made = TRUE /\ intent.filters = said.filters
  <2>1. DOMAIN intent = DOMAIN NoSearch
    BY DEF NoSearch
  <2> QED
    BY <1>2, <1>3, <1>4, <2>1 DEF IsSearch, IsStay, IsMessage
<1> HIDE DEF intent
<1>6. Guarded(request, intent, said, NoPrice)
  BY <1>2, <1>5, GuardGuards
<1> HIDE DEF request
<1>7. outcome' \in {"dates_refused", "asked", "searched"} /\ (NeedClarification(request) => outcome' # "searched")
  BY <1>1
<1>8. Budgeted(draft'.filters.price, said, NoPrice, NoPrice)
  <2>1. HasFilters(said.filters) /\ NoPrice \in Budget
    BY <1>2, EmptyIsSearch DEF IsMessage
  <2>2. \A side \in {"min", "max", "scope"} : NoPrice[side] = {}
    BY DEF NoPrice
  <2>3. /\ said.period # {} => draft'.filters.price = NoPrice \/ Amounts(draft'.filters.price) \subseteq said.numbers
        /\ said.period = {} => draft'.filters.price = said.filters.price
    BY <1>1, <1>5, <1>6 DEF Guarded
  <2>4. DOMAIN said.filters.price = {"min", "max", "scope"}
    BY <2>1 DEF HasFilters, Budget
  <2> QED
    BY <2>2, <2>3, <2>4 DEF Budgeted
<1>9. NoSearch.filters.price = NoPrice
  BY DEF NoSearch, NoFilters
<1>10. said.period # {} /\ Amounts(draft'.filters.price) = {} => outcome' # "searched"
  BY <1>1, <1>6, <1>7, RatesAreAskedFor DEF Guarded
<1>11. RequirementsAsStated'
  BY <1>1, <1>8, <1>9, <1>10 DEF RequirementsAsStated, BudgetAsStated, Budgeted
<1>12. IsSearch(search') /\ IsSearch(base') /\ IsSearch(draft')
  BY <1>1, <1>6, EmptyIsSearch DEF ReqInv, Guarded
<1> QED
  BY <1>1, <1>7, <1>11, <1>12 DEF ReqInv

LEMMA UpdateReqInv ==
    ASSUME ReqInv, NEW said \in Messages[scenario], Update(said), scenario' = scenario, turn' = turn
    PROVE  ReqInv'
<1> DEFINE stay == PatchStay(said)
           patched == ApplyIntentPatch(base, said, stay)
           request == GuardPeriodBudget(patched, said, base.filters.price)
           kept == RemoveByText(base.constraints, said.remove_texts)
           honest == Honest(said.add_constraints)
           earlier == PriceBefore(base, said)
<1>1. /\ base' = base /\ heard' = said /\ today' = today /\ search' = search /\ attempt' = attempt
      /\ \/ RefuseUpdate
         \/ /\ stay.issue = "none"
            /\ UpdateSearch(request) \/ UpdateClarified(request)
  BY DEF Update, Answered
<1>2. IsMessage(said) /\ today \in Nat /\ IsSearch(base) /\ IsSearch(search)
  BY MessagesAreMessages DEF ReqInv
<1>3. CASE RefuseUpdate
  <2>1. draft' = search /\ outcome' = "dates_refused" /\ stage' = "decided"
    BY <1>3 DEF RefuseUpdate
  <2>2. RequirementsAsStated'
    BY <2>1 DEF RequirementsAsStated, Applied
  <2> QED
    BY <1>1, <1>2, <2>1, <2>2 DEF ReqInv
<1>4. CASE stay.issue = "none" /\ (UpdateSearch(request) \/ UpdateClarified(request))
  <2>1. IsStay(stay) /\ \A n \in said.nights : ~(n <= 0)
    <3> DEFINE anchor == IF said.check_in # {} THEN {} ELSE base.check_in
    <3>1. stay = ResolveStayDates(said, today, anchor)
      BY DEF PatchStay
    <3>2. anchor \subseteq Int /\ IsOptional(anchor) /\ SaysAStay(said)
      BY <1>2 DEF IsSearch, IsMessage, IsOptional
    <3> HIDE DEF anchor, stay
    <3> QED
      BY <1>2, <1>4, <3>1, <3>2, ResolvedIsStay, NightsArePositive
  <2> HIDE DEF stay
  <2>2. /\ IsSearch(patched) /\ patched.made = TRUE
        /\ StatesBoth(patched.constraints, kept, honest)
        /\ patched.filters.price = MergePrice(earlier, said.filters.price)
    <3>1. IsSearch(base) /\ IsMessage(said) /\ IsStay(stay) /\ \A n \in said.nights : ~(n <= 0)
      BY <1>2, <2>1
    <3>2. IsSearch(patched) /\ patched.made = TRUE
      BY <3>1, PatchedIsSearch
    <3>3. StatesBoth(patched.constraints, kept, honest)
      BY <3>1, PatchedIsSearch
    <3>4. patched.filters.price = MergePrice(earlier, said.filters.price)
      BY <3>1, PatchedIsSearch
    <3> QED
      BY <3>2, <3>3, <3>4
  <2>3. /\ HasFilters(said.filters) /\ base.filters.price \in Budget /\ earlier \in Budget
        /\ \A side \in {"min", "max", "scope"} : IsOptional(earlier[side])
    BY <1>2, EmptyIsSearch DEF IsSearch, IsMessage, HasFilters, NoPrice, IsOptional, PriceBefore
  <2> HIDE DEF patched, kept, honest, earlier
  <2>4. Guarded(request, patched, said, base.filters.price)
    BY <1>2, <2>2, GuardGuards
  <2> HIDE DEF request
  <2>5. Budgeted(request.filters.price, said, earlier, base.filters.price)
    BY <2>2, <2>3, <2>4, GuardedIsBudgeted
  <2>6. /\ Distinct(request.constraints)
        /\ \A key \in Keys(kept) \cup Keys(honest) :
              LET latest == IF key \in Keys(honest) THEN Having(honest, key) ELSE Having(kept, key) IN
              \E c \in Having(request.constraints, key) :
                 /\ c.priority = Strongest(latest)
                 /\ CanBeChecked(Having(kept, key) \cup Having(honest, key)) => CanBeChecked({c})
        /\ \A i \in DOMAIN request.constraints :
              \/ SemanticKey(request.constraints[i]) \in Keys(kept) \cup Keys(honest)
              \/ request.constraints[i].text \in said.period
    <3>1. said.period \subseteq PeriodTexts
      BY <1>2 DEF IsMessage
    <3>2. \/ request.constraints = patched.constraints
          \/ /\ said.period # {} /\ ~IsMarked(patched.constraints)
             /\ request.constraints = Append(patched.constraints, Marker(The(said.period)))
      BY <2>4 DEF Guarded
    <3>3. StatesMarked(request.constraints, kept, honest, said.period)
      BY <2>2, <3>1, <3>2, MarkedStatesBoth
    <3> QED
      BY <3>3 DEF StatesMarked
  <2>7. /\ draft' = request /\ stage' \in {"decided", "replying"}
        /\ outcome' \in {"no_op", "asked", "searched", "none"}
        /\ outcome' = "searched" => ~NeedClarification(request)
    BY <1>4 DEF UpdateSearch, UpdateClarified
  <2>8. said.period # {} /\ Amounts(request.filters.price) = {} => outcome' # "searched"
    BY <2>4, <2>7, RatesAreAskedFor DEF Guarded
  <2>9. BudgetAsStated'
    BY <1>1, <2>5, <2>7, <2>8 DEF BudgetAsStated, Budgeted, earlier, PriceBefore
  <2>10. ConstraintsAsStated(kept, honest)'
    BY <1>1, <2>6, <2>7 DEF ConstraintsAsStated, Distinct, kept, honest
  <2>11. RequirementsAsStated'
    BY <1>1, <2>9, <2>10 DEF RequirementsAsStated, kept, honest
  <2>12. IsSearch(draft')
    BY <2>4, <2>7 DEF Guarded
  <2> QED
    BY <1>1, <1>2, <2>7, <2>11, <2>12 DEF ReqInv
<1> QED
  BY <1>1, <1>3, <1>4

LEMMA NextReqInv ==
    ASSUME ReqInv, [Next]_vars
    PROVE  ReqInv'
<1>1. CASE UNCHANGED vars
  BY <1>1 DEF vars, callVars, ReqInv, RequirementsAsStated, BudgetAsStated, ConstraintsAsStated, Applied
<1>2. CASE NextDay
  <2>1. /\ UNCHANGED <<stage, attempt, scenario, turn, search, base, draft, outcome>>
        /\ today' \in Days[scenario] /\ stage = "idle"
    BY <1>2 DEF NextDay, callVars
  <2> QED
    BY <2>1 DEF ReqInv, RequirementsAsStated, Applied
<1>3. CASE Receive
  <2>1. /\ UNCHANGED <<scenario, today, search, draft, outcome>> /\ base' = search
        /\ turn' = turn + 1 /\ turn < MaxTurns /\ stage' = "conversation_routing" /\ attempt' = 1
    BY <1>3 DEF Receive, StartCall
  <2>2. turn' \in 0 .. MaxTurns
    BY <2>1, MessagesAreMessages DEF ReqInv
  <2> QED
    BY <2>1, <2>2 DEF ReqInv, RequirementsAsStated, Applied, Calls
<1>4. CASE CallRaises
  <2>1. /\ UNCHANGED <<scenario, today, turn, search, base, draft, outcome>>
        /\ stage' \in {stage, "failed", "crashed"} /\ stage \in Calls /\ attempt' \in {attempt, attempt + 1}
    BY <1>4 DEF CallRaises, AttemptFails, CallFails, Failed
  <2> QED
    BY <2>1 DEF ReqInv, RequirementsAsStated, Applied, Calls, Stages
<1>5. CASE Route
  <2>1. /\ UNCHANGED <<scenario, today, turn, search, base, draft, outcome>>
        /\ stage' \in Stages /\ attempt' = 1
    BY <1>5 DEF Route, StartCall
  <2> QED
    BY <2>1 DEF ReqInv, RequirementsAsStated, Applied, Calls, Stages
<1>6. CASE AnswerFacts
  <2>1. /\ UNCHANGED <<scenario, today, turn, search, base, attempt>>
        /\ draft' = search /\ outcome' = "answered" /\ stage' = "decided"
    BY <1>6 DEF AnswerFacts, Answered
  <2> QED
    BY <2>1 DEF ReqInv, RequirementsAsStated, Applied
<1>7. CASE Extract
  <2>1. scenario' = scenario /\ turn' = turn
    BY <1>7 DEF Extract, StartSearch, Update, Answered
  <2> QED
    BY <1>7, <2>1, StartSearchReqInv, UpdateReqInv DEF Extract
<1>8. CASE ReplyToClarification
  <2>1. /\ UNCHANGED <<scenario, today, turn, search, outcome>> /\ base' = draft /\ draft' = NoSearch
        /\ stage' = "search_state_update" /\ attempt' = 1
    BY <1>8 DEF ReplyToClarification, StartCall
  <2> QED
    BY <2>1, EmptyIsSearch DEF ReqInv, RequirementsAsStated, Applied, Calls, Stages
<1>9. CASE EndTurn
  <2>1. /\ UNCHANGED <<scenario, today, turn>> /\ search' \in {search, draft}
        /\ base' = NoSearch /\ draft' = NoSearch /\ outcome' = "none"
        /\ stage' = "idle" /\ attempt' = 0
    BY <1>9 DEF EndTurn
  <2> QED
    BY <2>1, EmptyIsSearch DEF ReqInv, RequirementsAsStated, Applied
<1> QED
  BY <1>1, <1>2, <1>3, <1>4, <1>5, <1>6, <1>7, <1>8, <1>9 DEF Next

LEMMA InitReqInv == Init => ReqInv
<1>1. MaxTurns \in Nat
  BY RequestAssumption
<1> QED
  BY <1>1, EmptyIsSearch DEF Init, ReqInv, RequirementsAsStated, Applied

(* Whatever a conversation says, in however many messages: what is         *)
(* required after an update is what the user said last, one requirement    *)
(* per meaning, none lost and none made up, and so for the budget          *)
(* (apply_intent_patch, guard_period_budget, resolve_required_search_      *)
(* context).                                                               *)
THEOREM RequirementsAreAsStated == Spec => []RequirementsAsStated
<1>1. ReqInv => RequirementsAsStated
  BY DEF ReqInv
<1> QED
  BY <1>1, InitReqInv, NextReqInv, PTL DEF Spec

(* Every request a conversation makes is one the schema allows, and its    *)
(* counters are numbers (SearchRequest, schemas/query.py).                 *)
THEOREM RequestTypeOK == Spec => []TypeOK
<1> DEFINE TInv == scenario \in Scenarios /\ RetryInv /\ TimeInv
<1>1. Init => TInv
  BY InitTimeInv
<1>2. TInv /\ [Next]_vars => TInv'
  BY NextRetryInv, NextTimeInv
<1>3. TInv /\ ReqInv => TypeOK
  BY DEF ReqInv, TimeInv, TypeOK
<1> QED
  BY <1>1, <1>2, <1>3, InitReqInv, NextReqInv, PTL DEF Spec
=============================================================================
