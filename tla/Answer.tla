------------------------------- MODULE Answer -------------------------------
(***************************************************************************)
(* One search and what the user is told of it: the cards and the text of   *)
(* the answer (services/conversation_service.py,                           *)
(* logic/conversation_response_llm.py), the message when the retrieval     *)
(* failed, and then a question about the shown listings                    *)
(* (conversation_flow._answer_listing_query), answered from what they say  *)
(* and not from the search.  Conversation models which turns do this;      *)
(* here is what they say.                                                  *)
(***************************************************************************)
EXTENDS Search

CONSTANT
    Queries    \* what may be extracted from a question: sequences of facts

VARIABLES
    shownSet,    \* ShownResultSet: the shown listings
    cards,       \* the cards of the answer
    response,    \* the assistant's message: [kind, source, code, rows, items]
    question,    \* the question under way: [targets, facts, matches]
    resolved     \* for each target, by fact: [value, said] of the fallback

answerVars == <<shownSet, cards, response, question, resolved>>

vars == <<searchVars, answerVars>>

NoResponse == [kind |-> "none", source |-> "none", code |-> "none", rows |-> <<>>, items |-> <<>>]

NoQuestion == [targets |-> <<>>, facts |-> <<>>, matches |-> <<>>]

Init ==
    /\ InitSearch
    /\ shownSet = <<>>
    /\ cards = <<>>
    /\ response = NoResponse
    /\ question = NoQuestion
    /\ resolved = <<>>

Respond(message) == response' = Joined(message, NoResponse)

-----------------------------------------------------------------------------
(* The answer to a search *)

(* orchestrate_search_request returns the normalized results and the shown *)
(* set; handle_user_message's result becomes cards.  The histories and the *)
(* clock of the search end here.                                           *)
ComposeAnswer ==
    /\ stage = "done"
    /\ cards' = [k \in DOMAIN shown |-> AnswerCard(request, shown[k], k)]
    /\ shownSet' = [k \in DOMAIN shown |-> shown[k].listing]
    /\ stage' = "wording"
    /\ late' = FALSE
    /\ detail' = <<>>
    /\ dropped' = {}
    /\ now' = 0
    /\ cache' = {}
    /\ UNCHANGED <<request, rates, offers, listings, error, actors, quotes, items, shown, response, question, resolved>>

(* generate_conversation_response_with_llm: the LLM's text if it comes in  *)
(* time and is not blank.                                                  *)
WordAnswer ==
    /\ stage = "wording"
    /\ Respond([kind |-> "search", source |-> "llm"])
    /\ stage' = "answered"
    /\ UNCHANGED <<retrievalVars, actors, evaluationVars, rateVars, shownSet, cards, question, resolved>>

(* Blank, late or any exception: the deterministic text. *)
WordingFails ==
    /\ stage = "wording"
    /\ Respond([kind |-> "search", source |-> "deterministic_fallback", rows |-> UserAnswer(cards)])
    /\ stage' = "answered"
    /\ UNCHANGED <<retrievalVars, actors, evaluationVars, rateVars, shownSet, cards, question, resolved>>

(* A RetrievalError is answered; any other exception is not.               *)
RetrievalFailed == stage = "failed" /\ error \notin {"raised", "broken"}

AnswerFailure ==
    /\ RetrievalFailed
    /\ Respond([kind |-> "failure", source |-> "deterministic", code |-> StageFailureAnswer(error)])
    /\ stage' = "answered"
    /\ UNCHANGED <<retrievalVars, actors, evaluationVars, rateVars, shownSet, cards, question, resolved>>

-----------------------------------------------------------------------------
(* A question about what is shown *)

(* select_shown_candidates: all that are shown, or the first with the id.  *)
Candidates ==
    LET same(k) == {j \in DOMAIN shownSet : shownSet[j].id = shownSet[k].id}
    IN  {[k \in DOMAIN shownSet |-> k]}
            \cup {<<CHOOSE j \in same(k) : \A i \in same(k) : j <= i>> : k \in DOMAIN shownSet}

(* The user's next turn: of the search, only the shown set is left. *)
AskAboutShown ==
    /\ stage = "answered"
    /\ shownSet # <<>>
    /\ \E targets \in Candidates : question' = [NoQuestion EXCEPT !.targets = targets]
    /\ shown' = <<>>
    /\ cards' = <<>>
    /\ response' = NoResponse
    /\ stage' = "extracting"
    /\ UNCHANGED <<retrievalVars, actors, quotes, items, dropped, rateVars, shownSet, resolved>>

(* extract_factual_constraints_async *)
ExtractFacts(facts) ==
    /\ stage = "extracting"
    /\ question' = [question EXCEPT !.facts = facts,
                                    !.matches = [t \in DOMAIN question.targets |-> FactMatches(shownSet[question.targets[t]], facts)]]
    /\ IF facts = <<>>
       THEN /\ Respond([kind |-> "informational", source |-> "deterministic", code |-> "listing_query_unsupported"])
            /\ stage' = "replied"
            /\ UNCHANGED resolved
       ELSE /\ resolved' = [t \in DOMAIN question.targets |-> <<>>]
            /\ stage' = "matching"
            /\ UNCHANGED response
    /\ UNCHANGED <<retrievalVars, actors, evaluationVars, rateVars, shownSet, cards>>

(* An LlmCallError. *)
ExtractionFails ==
    /\ stage = "extracting"
    /\ Respond([kind |-> "failure", source |-> "deterministic", code |-> "processing_unavailable"])
    /\ stage' = "replied"
    /\ UNCHANGED <<retrievalVars, actors, evaluationVars, rateVars, shownSet, cards, question, resolved>>

Target(t) == shownSet[question.targets[t]]

OpenFacts(t) == ForText(question.facts, question.matches[t], MaxConstraints) \ DOMAIN resolved[t]

OpenTargets == IF stage = "matching" THEN {t \in DOMAIN question.targets : OpenFacts(t) # {}} ELSE {}

(* match_result_query_against_candidates: listing by listing, fact by fact. *)
AskFact(said) ==
    \E t \in OpenTargets : \E i \in OpenFacts(t) :
        /\ \A u \in OpenTargets : t <= u
        /\ \A j \in OpenFacts(t) : i <= j
        /\ LET value == Resolve(Analyses[said], question.facts[i], Target(t))
           IN  resolved' = [resolved EXCEPT ![t] = Joined(@, [j \in {i} |-> [value |-> value, said |-> said]])]
        /\ UNCHANGED <<searchVars, shownSet, cards, response, question>>

(* An exception that is not an LlmCallError, here or in the extraction. *)
QuestionRaises ==
    /\ stage = "extracting" \/ OpenTargets # {}
    /\ Fail("raised")
    /\ UNCHANGED <<request, late, rates, offers, detail, listings, actors, evaluationVars, rateVars, answerVars>>

(* _build_listing_query_outcome joins verdicts and positions by result id. *)
Ambiguous == \E j, k \in DOMAIN shownSet : j # k /\ shownSet[j].id = shownSet[k].id

(* Mutant: the listings of the reply are numbered as they are asked. *)
PositionAsAsked(t) == t

PositionOf(t) == CHOOSE k \in DOMAIN shownSet : shownSet[k].id = Target(t).id

ReplyItem(t) ==
    LET decisions(i) == {resolved[t][j].value : j \in DOMAIN resolved[t] \cap {i}}
        verdict(i) == FactVerdict(question.facts[i], question.matches[t], decisions(i))
    IN  [position |-> PositionOf(t),
         verdicts |-> [i \in DOMAIN question.facts |-> VerdictSentence(verdict(i))]]

Reply ==
    /\ stage = "matching"
    /\ OpenTargets = {}
    /\ ~Ambiguous
    /\ Respond([kind |-> "listing_query", source |-> "deterministic",
                items |-> [t \in DOMAIN question.targets |-> ReplyItem(t)]])
    /\ stage' = "replied"
    /\ UNCHANGED <<retrievalVars, actors, evaluationVars, rateVars, shownSet, cards, question, resolved>>

(* "Duplicate presentation entry": a ValueError. *)
ReplyRaises ==
    /\ stage = "matching"
    /\ OpenTargets = {}
    /\ Ambiguous
    /\ Fail("raised")
    /\ UNCHANGED <<request, late, rates, offers, detail, listings, actors, evaluationVars, rateVars, answerVars>>

AnswerStep ==
    \/ ComposeAnswer
    \/ WordAnswer
    \/ WordingFails
    \/ AnswerFailure
    \/ \E facts \in Queries : ExtractFacts(facts)
    \/ ExtractionFails
    \/ \E said \in DOMAIN Analyses : AskFact(said)
    \/ QuestionRaises
    \/ Reply
    \/ ReplyRaises

Searching(step) == step /\ UNCHANGED answerVars

Next ==
    \/ Searching(SearchNext)
    \/ AnswerStep
    \/ AskAboutShown

(* The event loop runs what can run, the timer fires, a run of the scraper *)
(* and each call of an LLM or for the rates has a timeout of its own.      *)
(* LiteAPI owes nothing, nor does the user.                                *)
Spec ==
    /\ Init
    /\ [][Next]_vars
    /\ WF_vars(Searching(Retrieving(GetCandidates)))
    /\ WF_vars(Searching(FromLiteApi(RetrievalStep)))
    /\ WF_vars(Searching(FromLiteApi(DeadlinePasses)))
    /\ WF_vars(Searching(Retrieving(ScrapingStep)))
    /\ WF_vars(Searching(EvaluationStep))
    /\ WF_vars(AnswerStep)

-----------------------------------------------------------------------------
(* Properties *)

(* The items carry one value per asked field and attribute, and a decision *)
(* per resolved constraint.                                                *)
TypeOK ==
    /\ request \in Requests
    /\ stage \in {"choosing", "scraping", "checking", "rates", "details", "collecting", "retrieved", "asking", "scored",
                  "ranked", "graded", "done", "wording", "answered", "extracting", "matching", "replied", "failed"}
    /\ late \in BOOLEAN
    /\ error \in ErrorCodes \cup {"none", "unsupported_destination", "unsupported_request",
                                  "configuration_error", "broken", "raised"}
    /\ \A h \in DOMAIN detail : detail[h].attempt \in 0 .. MaxAttempts
    /\ \A item \in ToSet(items) \cup ToSet(shown) \cup dropped :
          /\ item.matches \in [KnownFields(request, {"must", "nice", "forbidden"}) -> Ternary]
          /\ \A a \in DOMAIN item.numeric : item.numeric[a] \in Ternary
          /\ DOMAIN item.said \subseteq DOMAIN item.results
          /\ \A c \in DOMAIN item.results : c \in Positions(request) /\ item.results[c] \in Ternary
    /\ now \in 0 .. MaxNow
    /\ response.kind \in {"none", "search", "failure", "informational", "listing_query"}
    /\ response.source \in {"none", "llm", "deterministic", "deterministic_fallback"}
    /\ \A t \in DOMAIN question.targets : question.targets[t] \in DOMAIN shownSet
    /\ \A t \in DOMAIN resolved : \A i \in DOMAIN resolved[t] : i \in DOMAIN question.facts /\ resolved[t][i].value \in Ternary

(* liteapi.py:777 "cancelled - and awaited": when the wait for the details is over,   *)
(* no request for a hotel is left running, waiting its turn or between two *)
(* attempts, and while it lasts no more run than detail_concurrency.       *)
NoRequestOutlivesSearch ==
    /\ stage # "details" => Unfinished = {}
    /\ Cardinality(Holding) <= DetailConcurrency

CollectedFromHotels ==
    stage = "collecting" =>
        /\ stage' = "retrieved" =>
              listings' # <<>> \/ MaxDetailCalls = 0 \/ \A i \in DOMAIN offers : offers[i].offers = <<>>
        /\ stage' = "failed" => \E h \in DOMAIN detail : detail[h].answer = error'

MergedFromRuns ==
    LET found == UNION {ToSet(actors[i].items) : i \in DOMAIN actors}
        held(name) == {k \in DOMAIN listings' : listings'[k].id = Items[name].key}
    IN  stage = "scraping" /\ stage' = "retrieved" =>
            /\ \A i \in DOMAIN actors : actors[i].state = "ended"
            /\ \A name \in found :
                  held(name) # {} /\ (Items[name].key[1] # "gen" => Cardinality(held(name)) = 1)

TakenFromSamples ==
    LET samples == {x \in ToSet(Samples) : x.city = request.city /\ Available(x, request.checkIn, request.nights)}
        listed(x) == {k \in DOMAIN listings' : listings'[k].id = x.listing.id}
        count == IF Cardinality(samples) < MaxItems THEN Cardinality(samples) ELSE MaxItems
    IN  stage = "choosing" /\ stage' = "retrieved" =>
            /\ Cardinality({x \in samples : listed(x) # {}}) = count
            /\ Len(listings') = count
            /\ \A x \in samples : \A k \in listed(x) :
                  /\ SameNightlyRate(x, listings'[k].total, request.nights)
                  /\ x.window = {} => listings'[k].total = {}

(* The candidates are what the provider offers, and a failure is no empty  *)
(* market.  LiteAPI: a search goes on without listings only if no hotel    *)
(* has offers, or the configuration lets no hotel be asked for details     *)
(* (liteapi.py:629, MaxDetailCalls = 0), and one that fails does so with   *)
(* the code of some hotel's failure.  Apify: only if every run succeeded;  *)
(* an accommodation that two runs found is a candidate once, and none is   *)
(* lost.  Fixtures: those that are available on every night of the stay in *)
(* some year of the window, at the nightly rate of the window, up to       *)
(* MaxItems.                                                               *)
CandidatesAreWhatIsOffered == [][CollectedFromHotels /\ MergedFromRuns /\ TakenFromSamples]_vars

(* The verdicts of a reply: what was worded of which fact of which listing. *)
Said(word) ==
    UNION {{[l |-> shownSet[item.position], fact |-> i, t |-> CHOOSE t \in DOMAIN question.targets : question.targets[t] = item.position] :
                i \in {j \in DOMAIN item.verdicts : item.verdicts[j] = word}} : item \in ToSet(response.items)}

FactOf(v) == question.facts[v.fact]

ByQuote(v, relations) ==
    /\ v.fact \in DOMAIN resolved[v.t]
    /\ QuotedIn(request, v.l, FactOf(v), resolved[v.t][v.fact].said, relations)

(* Unknown is never a no.  A listing is dropped only when a text of it     *)
(* denies what is required or states what is forbidden, when the numbers   *)
(* it gives miss the range, when its price is outside the budget however    *)
(* the budget is read, when the LLM quoted it against a requirement or for *)
(* a forbidden one, or when it is of another type; a question is answered  *)
(* with a no only when a text of the listing denies the fact or the LLM    *)
(* quoted one that does.  (What a NO for a forbidden requirement does is   *)
(* ConfirmedSafeIsKept's.)                                                 *)
RejectedOnlyOnEvidence ==
    /\ \A item \in dropped :
          \/ \E b \in BlockingFields(request) : Contrary(request, item.listing, b[1], b[2])
          \/ \E a \in {"bedrooms", "bathrooms", "area_sqm"} : Misses(request, item, a)
          \/ OverBudget(request, item)
          \/ \E c \in DOMAIN item.results : Quoted(request, item, c, Against \cup {"supports"})
          \/ request.types # <<>> /\ item.listing.type \notin ToSet(request.types) \cup {"none"}
    /\ \A v \in Said("has not") : (ByField(FactOf(v)) /\ Denied(request, v.l, Head(FactOf(v).fields))) \/ ByQuote(v, Against)

(* A shown listing has nothing known against it: no required field that a  *)
(* text denies while no other text names it, no forbidden one that texts   *)
(* only state, with the polarity of the field, no decision against a must, *)
(* no price (without a total, the first price of a room option) outside a  *)
(* budget of known scope in a currency it can be compared with, no range   *)
(* that every number misses; and no card calls it over budget, unless      *)
(* amounts of two currencies are compared.                                 *)
NoKnownViolationShown ==
    /\ \A item \in ToSet(shown) :
          /\ \A b \in BlockingFields(request) : Contrary(request, item.listing, b[1], b[2]) => Disputed(request, item.listing, b[1], b[2])
          /\ \A c \in DOMAIN item.results : item.results[c] # ViolatingDecision(request.constraints[c])
          /\ OverBudget(request, item) =>
                \/ request.price.scope = "none" /\ request.nights > 1
                \/ \E side \in DOMAIN item.quotes : item.quotes[side] = {}
                \/ OtherCurrency(request.price, ExtractTotalPrice(item.listing))
          /\ \A a \in {"bedrooms", "bathrooms"} :
                Mentions(item, a) # {} => \E x \in Mentions(item, a) : InRange(x, request.filters[a])
    /\ \A card \in ToSet(cards) :
          card.budget = "over_budget" => \E t \in card.total : t.currency # request.price.currency

(* What a card labelled "fully confirmed" owes beyond its tier. *)
FullyConfirmed(r, item) ==
    /\ \A c \in Positions(r) : r.constraints[c].priority = "nice" =>
          \E f \in ToSet(r.constraints[c].fields) : Affirmed(r, item.listing, f)
    /\ \A a \in {b \in DOMAIN r.filters : Asked(r.filters[b])} :
          \E x \in Mentions(item, a) : InRange(x, r.filters[a])
    /\ r.price.min \cup r.price.max # {} =>
          ExtractTotalPrice(item.listing) # {} /\ \A scope \in Scopes(r) : ~OutsideAs(r, item, scope)

(* Confirmation rests on the listing.  "Strong": every required field is   *)
(* stated by a text of the listing, the type is one that was asked for,    *)
(* and each required text an LLM had to judge was quoted in the listing's  *)
(* favour.  "Fully confirmed": also every optional requirement, number and *)
(* the budget.  A yes to a question: a text that states the fact, or one   *)
(* the LLM quoted.                                                         *)
ConfirmedOnEvidence ==
    /\ \A item \in ToSet(shown) : item.tier = "strong" =>
          /\ \A f \in KnownFields(request, {"must"}) : Affirmed(request, item.listing, f)
          /\ request.types # <<>> => item.listing.type \in ToSet(request.types)
          /\ \A c \in Positions(request) :
                Covered(request.constraints[c]) /\ request.constraints[c].priority = "must"
                    => Quoted(request, item, c, {"supports"})
    /\ \A k \in DOMAIN cards : cards[k].label = "fully_confirmed_match" => shown[k].tier = "strong" /\ FullyConfirmed(request, shown[k])
    /\ \A v \in Said("has") : (ByField(FactOf(v)) /\ Affirmed(request, v.l, Head(FactOf(v).fields))) \/ ByQuote(v, {"supports"})

(* No requirement disappears on the way.  Each card says of every must and *)
(* nice requirement whether it is met, of every textual one that blocks,   *)
(* and of every number asked for, however many there were and whether or   *)
(* not the LLM was asked; so does the deterministic text, but for the      *)
(* price.  A reply has a verdict on each fact of each listing asked about, *)
(* under its number.  (A field two constraints share speaks for the later  *)
(* one, and a number or a type for the constraint it was said with.)       *)
NoRequirementDisappears ==
    LET overridden(c) ==
            \E d \in Positions(request) :
                d > c /\ ToSet(request.constraints[d].fields) \cap ToSet(request.constraints[c].fields) # {}
        owed(c) == LET constraint == request.constraints[c]
                   IN  \/ constraint.priority = "nice"
                       \/ constraint.priority = "must" /\ ByField(constraint)
                       \/ Covered(constraint)
        requirements == {c \in Positions(request) : owed(c) /\ ~overridden(c)}
        numbers == {a \in DOMAIN request.filters : Asked(request.filters[a])}
    IN  /\ \A card \in ToSet(cards) \cup ToSet(response.rows) :
              requirements \subseteq DOMAIN card.requested /\ numbers \subseteq DOMAIN card.derived
        /\ response.source = "deterministic_fallback" => Len(response.rows) = Len(shown)
        /\ \A card \in ToSet(cards) :
              request.price.min \cup request.price.max # {} => "price_total" \in DOMAIN card.derived
        /\ response.kind = "listing_query" =>
              /\ [t \in DOMAIN response.items |-> response.items[t].position] = question.targets
              /\ \A item \in ToSet(response.items) : DOMAIN item.verdicts = DOMAIN question.facts

(* A forbidden requirement the evidence shows absent is a point in favour: *)
(* tests/test_soft_constraint_forbidden_downstream.py:114 "Listing stays   *)
(* eligible and is rewarded as safe".  A listing that survives the filters *)
(* and whose only NO is such a one is not dropped by the selection.        *)
ConfirmedSafeIsKept ==
    [][stage = "ranked" =>
          \A item \in ToSet(items) :
              /\ ~TypeMismatch(request, item)
              /\ \A c \in DOMAIN item.results :
                    item.results[c] = "NO" => request.constraints[c].priority = "forbidden"
              => item \notin dropped']_vars

(* Every message is answered, or ends with an exception nobody catches,    *)
(* whatever the provider and the LLM do: the deadline bounds the           *)
(* retrieval, and each later step ends by itself.                          *)
EveryMessageIsAnswered ==
    []<>(stage \in {"answered", "replied"} \/ (stage = "failed" /\ ~RetrievalFailed))
=============================================================================
