------------------------------- MODULE LlmCalls -------------------------------
(***************************************************************************)
(* One call of a model at a time under the two failure policies: the       *)
(* router's (src/app/logic/conversation_router.py) and the one the other   *)
(* stages share (src/app/llm/call_policy.py).  An attempt answers or       *)
(* raises; asyncio.timeout cancels one that takes longer than its limit,   *)
(* so that a timed-out attempt never answers late.  A failed attempt is    *)
(* recorded, and repeated after a pause when its error is a passing one    *)
(* and attempts are left.                                                  *)
(***************************************************************************)
EXTENDS Integers, Sequences

CONSTANTS
    RouterAttempts,     \* CONVERSATION_ROUTER_MAX_ATTEMPTS
    RouterTimeout,      \* CONVERSATION_ROUTER_TIMEOUT_SECONDS
    RouterDelay,        \* CONVERSATION_ROUTER_RETRY_DELAY_SECONDS
    StageAttempts,      \* LLM_STAGE_MAX_ATTEMPTS, as configured
    StageTimeout,       \* LLM_STAGE_TIMEOUT_SECONDS
    StageBaseDelay      \* LLM_STAGE_RETRY_BASE_DELAY_SECONDS

ASSUME LlmCallsAssumption ==
    /\ RouterAttempts \in Nat \ {0}
    /\ {StageAttempts, RouterDelay, StageBaseDelay} \subseteq Nat
    /\ {RouterTimeout, StageTimeout} \subseteq Nat \ {0}

VARIABLES
    stage,      \* the call that is awaited, or what the turn does instead
    attempt,    \* the number of its current attempt
    raised,     \* history: what the call and its attempts raised so far
    recorded,   \* the error codes the trace has of this call
    spent       \* history: the time this turn's calls can have taken

callVars == <<stage, attempt, raised, recorded, spent>>
-----------------------------------------------------------------------------
(* What an attempt can raise, by class; "bug" stands for every exception   *)
(* that is not a provider's, and the last two for an answer of no use.     *)
LitellmErrors == {"litellm.Timeout", "litellm.RateLimitError",
    "litellm.AuthenticationError", "litellm.PermissionDeniedError",
    "litellm.ServiceUnavailableError", "litellm.InternalServerError",
    "litellm.APIConnectionError", "litellm.BadRequestError",
    "litellm.NotFoundError", "litellm.APIError"}
ApiErrors == {"api 401", "api 403", "api 404", "api 429", "api 500", "api 503"}
Exceptions == LitellmErrors \cup ApiErrors \cup
    {"TimeoutError", "httpx.TimeoutException", "httpx.TransportError",
     "aiohttp.ClientConnectionError", "UnknownApiResponseError",
     "LlmModelConfigurationError", "bug", "empty answer", "invalid answer"}

RetryableErrorCodes == {"rate_limited", "provider_unavailable"}
RetryableRouterErrorCodes == {"rate_limited", "provider_unavailable"}

ClassifyApiError(e) ==
    CASE e = "api 429" -> "rate_limited"
      [] e \in {"api 401", "api 403"} -> "authentication_error"
      [] e \in {"api 500", "api 503"} -> "provider_unavailable"
      [] OTHER -> "provider_error"

(* Mutant: every error class litellm has is the provider's fault.          *)
ClassifyLitellmErrorAll(e) ==
    IF e = "litellm.RateLimitError" THEN "rate_limited" ELSE "provider_unavailable"

ClassifyLitellmError(e) ==
    CASE e = "litellm.Timeout" -> "timeout"
      [] e = "litellm.RateLimitError" -> "rate_limited"
      [] e \in {"litellm.AuthenticationError", "litellm.PermissionDeniedError"}
            -> "authentication_error"
      [] e \in {"litellm.ServiceUnavailableError", "litellm.InternalServerError",
                "litellm.APIConnectionError"} -> "provider_unavailable"
      [] OTHER -> "provider_error"

(* classify_provider_exception; "none" for an exception that is not one.   *)
Classify(e) ==
    CASE e = "empty answer" -> "empty_response"
      [] e = "invalid answer" -> "invalid_response"
      [] e \in {"TimeoutError", "httpx.TimeoutException"} -> "timeout"
      [] e \in LitellmErrors -> ClassifyLitellmError(e)
      [] e = "UnknownApiResponseError" -> "invalid_response"
      [] e \in ApiErrors -> ClassifyApiError(e)
      [] e \in {"httpx.TransportError", "aiohttp.ClientConnectionError"}
            -> "provider_unavailable"
      [] e = "LlmModelConfigurationError" -> "configuration_error"
      [] OTHER -> "none"
-----------------------------------------------------------------------------
Stages == {"search_intent_extraction", "search_state_update", "clarification_update",
           "factual_question_extraction"}
Calls == {"conversation_routing"} \cup Stages

MaxAttempts == IF stage \in Stages THEN IF StageAttempts > 1 THEN StageAttempts ELSE 1
               ELSE RouterAttempts
Timeout == IF stage \in Stages THEN StageTimeout ELSE RouterTimeout

TwoTo[n \in Nat] == IF n = 0 THEN 1 ELSE 2 * TwoTo[n - 1]

RetryDelay(n) == IF stage \in Stages THEN StageBaseDelay * TwoTo[n - 1] ELSE RouterDelay

IsRetryable(e) ==
    Classify(e) \in (IF stage \in Stages THEN RetryableErrorCodes ELSE RetryableRouterErrorCodes)

(* The router builds its model before its attempts, outside their try; the *)
(* stages do whatever they do in an attempt.                               *)
ModelIsUnbuilt(e) == stage = "conversation_routing" /\ e = "LlmModelConfigurationError"

(* A stage lets a programming error pass unrecorded; the router's finally  *)
(* records every attempt.                                                  *)
ErrorsRecorded(e) ==
    IF ModelIsUnbuilt(e) \/ (Classify(e) = "none" /\ stage \in Stages) THEN <<>>
    ELSE IF Classify(e) = "none" THEN <<"unexpected_error">> ELSE <<Classify(e)>>

StartCall(next) ==
    /\ stage' = next
    /\ attempt' = 1
    /\ raised' = <<>>
    /\ recorded' = <<>>

Failed(e) ==
    /\ stage \in Calls
    /\ ModelIsUnbuilt(e) => attempt = 1
    /\ raised' = Append(raised, [call |-> stage, error |-> e])
    /\ recorded' = recorded \o ErrorsRecorded(e)

Retries(e) == IsRetryable(e) /\ attempt < MaxAttempts

(* The pause is outside the timeout, and ends in the next attempt.         *)
AttemptFails(e) ==
    /\ Failed(e) /\ Retries(e)
    /\ attempt' = attempt + 1
    /\ spent' = spent + Timeout + RetryDelay(attempt)
    /\ UNCHANGED stage

(* The call raises: LlmCallError or ConversationRoutingError, with its     *)
(* code, or as it is a programming error or what kept the router from      *)
(* making an attempt.                                                      *)
CallFails(e) ==
    /\ Failed(e) /\ ~Retries(e)
    /\ stage' = IF Classify(e) = "none" \/ ModelIsUnbuilt(e) THEN "crashed" ELSE "failed"
    /\ spent' = spent + (IF ModelIsUnbuilt(e) THEN 0 ELSE Timeout)
    /\ UNCHANGED attempt

CallAnswers == stage \in Calls /\ spent' = spent + Timeout
-----------------------------------------------------------------------------
(* The passing failures of a provider, which another attempt may not meet. *)
Passing == {"litellm.RateLimitError", "litellm.ServiceUnavailableError",
    "litellm.InternalServerError", "litellm.APIConnectionError", "api 429", "api 500",
    "api 503", "httpx.TransportError", "aiohttp.ClientConnectionError"}

AttemptsOf(call) ==
    IF call \in Stages THEN IF StageAttempts > 0 THEN StageAttempts ELSE 1
    ELSE RouterAttempts

(* All attempts of a call run into the limit, and the pauses between them. *)
LongestRouting == RouterAttempts * RouterTimeout + (RouterAttempts - 1) * RouterDelay
LongestStage ==
    LET n == AttemptsOf("search_state_update")
    IN  n * StageTimeout + StageBaseDelay * (TwoTo[n - 1] - 1)

(* What no attempt of the call puts in the trace. *)
Unrecorded(failure) ==
    \/ failure.error = "bug" /\ failure.call \in Stages
    \/ failure.error = "LlmModelConfigurationError" /\ failure.call = "conversation_routing"

(* A failure that will not pass is never tried again, a passing one until  *)
(* the attempts are used up and no more; every provider failure of an      *)
(* attempt is in the trace once, whatever became of the call.              *)
RetriesFollowErrors ==
    /\ \A i \in 1..(Len(raised) - 1) : raised[i].error \in Passing
    /\ raised # <<>> =>
         LET last == raised[Len(raised)] IN
         /\ Len(raised) <= AttemptsOf(last.call)
         /\ (stage \in {"failed", "crashed"}) =
              (last.error \notin Passing \/ Len(raised) = AttemptsOf(last.call))
         /\ Len(recorded) = Len(raised) - (IF Unrecorded(last) THEN 1 ELSE 0)

(* Retries follow the errors, and the router and the extraction stages of  *)
(* a turn, even of one with two updates, end within the time their calls   *)
(* are allowed (call_llm_stage, the router); the search and the wording of *)
(* the answer come after them and have limits of their own.                *)
RetriedWhilePassing ==
    /\ RetriesFollowErrors
    /\ spent <= LongestRouting + 2 * LongestStage
===============================================================================
