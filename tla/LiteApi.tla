------------------------------ MODULE LiteApi -------------------------------
(***************************************************************************)
(* Retrieval from LiteAPI (retrieval/liteapi.py, liteapi_client.py): one   *)
(* request for rates, then one for the details of each of the first hotels *)
(* that have offers, a few at a time, all under one deadline.  A request   *)
(* is retried when the provider was busy or unreachable; a hotel whose     *)
(* details cannot be had is left out, unless no hotel is left.             *)
(*                                                                         *)
(* A rates reply is a sequence of [hotel, offers].                         *)
(***************************************************************************)
EXTENDS LiteApiHotel

CONSTANTS
    Requests,            \* searches: [city, adults, children, rooms, ...]
    SupportedCities,     \* LITEAPI_SUPPORTED_CITIES
    RequiredAdults,      \* REQUIRED_ADULTS
    RatesReplies,        \* rates payloads that carry data
    Hotels,              \* [name -> what the details of a hotel may say]
    Faults,              \* ways an HTTP attempt may end without a payload
    MaxAttempts,         \* LITEAPI_MAX_ATTEMPTS
    MaxDetailCalls,      \* LITEAPI_MAX_DETAIL_CALLS, at least 0, and max_items
    DetailConcurrency    \* detail_concurrency

ASSUME LiteApiAssumption ==
    /\ {MaxAttempts, DetailConcurrency} \subseteq Nat \ {0}
    /\ MaxDetailCalls \in Nat
    /\ Faults \subseteq {"429", "401", "5xx", "404", "not_json", "timed_out", "transport"}
    /\ \A name \in DOMAIN Hotels : IsHotel(Hotels[name])
    /\ \A reply \in RatesReplies : reply \in Seq([hotel : STRING, offers : Seq(Rate)])

VARIABLES
    request,     \* the search under way
    stage,       \* "choosing", "checking", "rates", "details", "collecting", ...
    late,        \* the deadline of the whole retrieval has passed
    rates,       \* the rates request: [state, attempt]
    offers,      \* the rates reply, until the listings are built
    detail,      \* [hotel -> its details request: [state, attempt, answer]]
    listings,    \* the candidates, in the provider's order
    error        \* code of the RetrievalError, or the exception, that ended the search

retrievalVars == <<request, late, rates, offers, detail, listings, error>>

-----------------------------------------------------------------------------
(* The HTTP client *)

(* classify_liteapi_http_status and the except clauses of _request. *)
ErrorCode(fault) ==
    CASE fault = "429" -> "rate_limited"
      [] fault = "401" -> "authentication_error"
      [] fault \in {"5xx", "transport"} -> "provider_unavailable"
      [] fault = "not_json" -> "invalid_response"
      [] fault = "timed_out" -> "timeout"
      [] OTHER -> "provider_error"

RetryableCodes == {"rate_limited", "provider_unavailable"}

ErrorCodes == {"rate_limited", "authentication_error", "provider_unavailable", "invalid_response",
               "timeout", "provider_error"}

(* Mutant: MaxAttempts counts the retries. *)
RetriesOneMore(fault, attempt) == ErrorCode(fault) \in RetryableCodes /\ attempt <= MaxAttempts

Retries(fault, attempt) == ErrorCode(fault) \in RetryableCodes /\ attempt < MaxAttempts

-----------------------------------------------------------------------------
(* Offers *)

OffersOf(reply, h) == FlattenSeq([i \in DOMAIN reply |-> IF reply[i].hotel = h THEN reply[i].offers ELSE <<>>])

(* parse_rates_response, cut to the hotels whose details are asked for.    *)
HotelIds ==
  [reply \in RatesReplies \cup {<<>>} |->
    LET first == {i \in DOMAIN reply :
                    /\ reply[i].offers # <<>>
                    /\ \A j \in 1 .. (i - 1) : reply[j].hotel = reply[i].hotel => reply[j].offers = <<>>}
        place(i) == Cardinality({j \in first : j <= i})
        count == IF Cardinality(first) < MaxDetailCalls THEN Cardinality(first) ELSE MaxDetailCalls
    IN  [k \in 1 .. count |-> reply[CHOOSE i \in first : place(i) = k].hotel]]

OfferLists == UNION {{OffersOf(reply, reply[i].hotel) : i \in DOMAIN reply} : reply \in RatesReplies}

(* A hotel with a list of offers.  The id is the payload's own, for which  *)
(* its name stands, whatever hotel was asked for; a payload without one    *)
(* is a "broken" answer.                                                   *)
Described(name, set) ==
    [of |-> name, offers |-> set,
     listing |-> Candidate(NormalizeLiteApiListing(<<"id", name>>, Hotels[name], set), name,
                           {[room |-> o.room, board |-> o.board] : o \in ToSet(set)})]

Normalized == {Described(name, set) : name \in DOMAIN Hotels, set \in OfferLists}

NormalizeListing(h, name) ==
    (CHOOSE n \in Normalized : n.of = name /\ n.offers = OffersOf(offers, h)).listing

-----------------------------------------------------------------------------
(* Actions *)

Idle == [state |-> "idle", attempt |-> 0]

Sent(attempt) == [state |-> "sent", attempt |-> attempt]

InitRetrieval ==
    /\ request \in Requests
    /\ stage = "choosing"
    /\ late = FALSE
    /\ rates = Idle
    /\ offers = <<>>
    /\ detail = <<>>
    /\ listings = <<>>
    /\ error = "none"

Fail(code) ==
    /\ stage' = "failed"
    /\ error' = code

(* _check_supported *)
Refusal(r) ==
    CASE r.city \notin SupportedCities -> "unsupported_destination"
      [] r.city \in SupportedCities /\ (r.children > 0 \/ r.rooms # 1 \/ r.adults # RequiredAdults)
            -> "unsupported_request"
      [] OTHER -> "none"

Refuse ==
    /\ stage = "checking"
    /\ Refusal(request) # "none"
    /\ Fail(Refusal(request))
    /\ UNCHANGED <<request, late, rates, offers, detail, listings>>

(* The client has no usable key. *)
Misconfigured ==
    /\ stage = "checking"
    /\ Refusal(request) = "none"
    /\ Fail("configuration_error")
    /\ UNCHANGED <<request, late, rates, offers, detail, listings>>

AskRates ==
    /\ stage = "checking"
    /\ Refusal(request) = "none"
    /\ stage' = "rates"
    /\ rates' = Sent(1)
    /\ UNCHANGED <<request, late, offers, detail, listings, error>>

(* search_deadline_seconds after the start; both phases look at it. *)
DeadlinePasses ==
    /\ stage \in {"rates", "details"}
    /\ ~late
    /\ late' = TRUE
    /\ UNCHANGED <<request, stage, rates, offers, detail, listings, error>>

RatesTimeOut ==
    /\ stage = "rates"
    /\ late
    /\ Fail("timeout")
    /\ rates' = Idle
    /\ UNCHANGED <<request, late, offers, detail, listings>>

RatesFault(fault) ==
    /\ stage = "rates"
    /\ rates.state = "sent"
    /\ \/ /\ Retries(fault, rates.attempt)
          /\ rates' = [rates EXCEPT !.state = "backoff"]
          /\ UNCHANGED <<stage, error>>
       \/ /\ ~Retries(fault, rates.attempt)
          /\ rates' = Idle
          /\ Fail(ErrorCode(fault))
    /\ UNCHANGED <<request, late, offers, detail, listings>>

RatesRetry ==
    /\ stage = "rates"
    /\ rates.state = "backoff"
    /\ rates' = Sent(rates.attempt + 1)
    /\ UNCHANGED <<request, stage, late, offers, detail, listings, error>>

(* A payload that is an error object, live rates for a sandbox client, or  *)
(* an exception that is no RetrievalError, of the client or the parser.    *)
RatesRejected(code) ==
    /\ stage = "rates"
    /\ rates.state = "sent"
    /\ rates' = Idle
    /\ Fail(code)
    /\ UNCHANGED <<request, late, offers, detail, listings>>

RatesArrive(reply) ==
    /\ stage = "rates"
    /\ rates.state = "sent"
    /\ rates' = Idle
    /\ offers' = reply
    /\ detail' = [h \in ToSet(HotelIds[reply]) |-> [state |-> "queued", attempt |-> 0, answer |-> "none"]]
    /\ stage' = "details"
    /\ UNCHANGED <<request, late, listings, error>>

Attempted(h) == [detail[h] EXCEPT !.state = "sent", !.attempt = @ + 1]

Ended(h, answer) == [state |-> "ended", attempt |-> detail[h].attempt, answer |-> answer]

(* The semaphore is held from the first attempt to the last, and waiters   *)
(* get it in the order of the hotels.                                      *)
Holding == {h \in DOMAIN detail : detail[h].state \in {"sent", "backoff"}}

Queued == {i \in DOMAIN HotelIds[offers] : detail[HotelIds[offers][i]].state = "queued"}

BeginDetail ==
    /\ stage = "details"
    /\ Cardinality(Holding) < DetailConcurrency
    /\ \E i \in Queued :
          /\ \A j \in Queued : i <= j
          /\ detail' = [detail EXCEPT ![HotelIds[offers][i]] = Attempted(HotelIds[offers][i])]
    /\ UNCHANGED <<request, stage, late, rates, offers, listings, error>>

DetailFault(h, fault) ==
    /\ stage = "details"
    /\ detail[h].state = "sent"
    /\ detail' = [detail EXCEPT ![h] = IF Retries(fault, detail[h].attempt)
                                       THEN [detail[h] EXCEPT !.state = "backoff"]
                                       ELSE Ended(h, ErrorCode(fault))]
    /\ UNCHANGED <<request, stage, late, rates, offers, listings, error>>

DetailRetry(h) ==
    /\ stage = "details"
    /\ detail[h].state = "backoff"
    /\ detail' = [detail EXCEPT ![h] = Attempted(h)]
    /\ UNCHANGED <<request, stage, late, rates, offers, listings, error>>

(* An error object, a reply without content, a hotel that cannot be        *)
(* normalized, an exception that is a bug; or what the hotel says.         *)
DetailArrives(h, answer) ==
    /\ stage = "details"
    /\ detail[h].state = "sent"
    /\ detail' = [detail EXCEPT ![h] = Ended(h, answer)]
    /\ UNCHANGED <<request, stage, late, rates, offers, listings, error>>

Unfinished == {h \in DOMAIN detail : detail[h].state # "ended"}

(* Mutant: the wait for the details has no timeout. *)
WaitForAll == Unfinished = {}

WaitIsOver == Unfinished = {} \/ late

(* Mutant: the tasks that missed the deadline are left alone. *)
EndDetailsUncancelled ==
    /\ stage = "details"
    /\ WaitIsOver
    /\ stage' = "collecting"
    /\ UNCHANGED retrievalVars

EndDetails ==
    /\ stage = "details"
    /\ WaitIsOver
    /\ detail' = [h \in DOMAIN detail |-> IF h \in Unfinished THEN Ended(h, "timeout") ELSE detail[h]]
    /\ stage' = "collecting"
    /\ UNCHANGED <<request, late, rates, offers, listings, error>>

Answers == [i \in DOMAIN HotelIds[offers] |-> detail[HotelIds[offers][i]].answer]

IsListing(answer) == answer \in DOMAIN Hotels

FirstOf(set) == Answers[CHOOSE i \in set : \A j \in set : i <= j]

(* What ends the search when no hotel is usable: a broken hotel before a   *)
(* provider failure.                                                       *)
NothingUsable ==
    LET broken == {i \in DOMAIN Answers : Answers[i] = "broken"}
    IN  FirstOf(IF broken # {} THEN broken ELSE DOMAIN Answers)

(* Mutant: no usable hotel is an empty result. *)
CollectAnyway ==
    /\ stage = "collecting"
    /\ listings' = <<>>
    /\ stage' = "retrieved"
    /\ offers' = <<>>
    /\ detail' = <<>>
    /\ UNCHANGED <<request, late, rates, error>>

CollectFails ==
    /\ stage = "collecting"
    /\ \/ /\ \E i \in DOMAIN Answers : Answers[i] = "raised"
          /\ Fail("raised")
       \/ /\ Answers # <<>>
          /\ \A i \in DOMAIN Answers : ~IsListing(Answers[i]) /\ Answers[i] # "raised"
          /\ Fail(NothingUsable)
    /\ offers' = <<>>
    /\ detail' = <<>>
    /\ UNCHANGED <<request, late, rates, listings>>

Collect ==
    /\ stage = "collecting"
    /\ \A i \in DOMAIN Answers : Answers[i] # "raised"
    /\ Answers = <<>> \/ \E i \in DOMAIN Answers : IsListing(Answers[i])
    /\ LET hotels == HotelIds[offers]
           usable == {k \in DOMAIN hotels : IsListing(detail[hotels[k]].answer)}
           named == Kept(hotels, usable)
       IN  listings' = [k \in DOMAIN named |-> NormalizeListing(named[k], detail[named[k]].answer)]
    /\ stage' = "retrieved"
    /\ late' = FALSE
    /\ offers' = <<>>
    /\ detail' = <<>>
    /\ UNCHANGED <<request, rates, error>>

(* The provider may answer, or not. *)
ProviderStep ==
    \/ \E fault \in Faults : RatesFault(fault)
    \/ \E code \in {"provider_error", "configuration_error", "raised"} : RatesRejected(code)
    \/ \E reply \in RatesReplies : RatesArrive(reply)
    \/ \E h \in DOMAIN detail, fault \in Faults : DetailFault(h, fault)
    \/ \E h \in DOMAIN detail, answer \in DOMAIN Hotels \cup {"provider_error", "invalid_response", "broken", "raised"} :
          DetailArrives(h, answer)

(* The event loop runs what can run. *)
RetrievalStep ==
    \/ Refuse
    \/ Misconfigured
    \/ AskRates
    \/ RatesTimeOut
    \/ RatesRetry
    \/ BeginDetail
    \/ \E h \in DOMAIN detail : DetailRetry(h)
    \/ EndDetails
    \/ CollectFails
    \/ Collect
=============================================================================
