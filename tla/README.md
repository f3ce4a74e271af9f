# Formal model of the booking assistant

TLA+ modules for the parts of this repository that decide something: the HTTP
endpoint with its sessions and limits, the conversation a session carries from turn
to turn, how a search request comes to be, how listings are retrieved, evaluated and
selected, and what the user is told of them.  TLC checks them on small instances,
TLAPS proves the theorems listed below for every value of the constants.  Paths are
relative to the repository's root.

## The system

A user sends messages to `POST /api/chat` (or to the Streamlit UI).  The endpoint
finds or creates a session, admits the turn (a concurrency slot, then one turn of
quota in SQLite), and calls `process_turn`.  That routes the message with an LLM,
carries out the decision (extract or patch a search, ask something back, answer a
question about shown listings), retrieves and evaluates listings when there is a
search to run, words the answer, and returns the next session, which the endpoint
stores.

| Component | State it keeps | Operations | Correct when | Modules |
| --- | --- | --- | --- | --- |
| HTTP endpoint `app/api/main.py` | none of its own | `chat`, `admitted`, `run_turn` | a refused request creates, evicts and changes no session, a failed turn stores nothing; what it took is given back | `ChatApi` |
| Session store `app/api/session_store.py` | ordered entries with session, last use, lock | `create`, `checkout`, `_get`, `_expire` | turns of a session are serial, none is lost; nothing in use is dropped | `ChatApi` |
| Usage ledger `app/api/usage_limits.py` | a row per accepted turn | `try_record_turn` | never more turns than the limits, never a refusal without need | `UsageLedger`, `TurnQuota` |
| Concurrency gate `app/api/usage_limits.py` | number of turns in flight | `try_acquire`, `release` | counts exactly the turns in flight | `ChatApi` |
| Turn service `app/services/conversation_service.py` | `ConversationSession` | `process_turn`, `_build_updated_session` | a turn is stored as a whole or not at all | `Conversation`, `TurnContract` |
| Conversation flow `app/logic/conversation_flow.py` | search, shown results, pending clarification, discourse context | one branch per routing decision and per failing stage | search and results belong together; questions are about what is shown | `Conversation`, `Answer` |
| Clarification `app/logic/clarification_continuation.py` | (pending clarification) | open, keep, continue, cancel, supersede | decided once; applied only when chosen | `Conversation` |
| Candidate selection `app/logic/result_candidate_selection.py` | none | `select_shown_candidates` | only listings that are shown | `Conversation` |
| LLM call policy and router `app/llm/call_policy.py`, `app/logic/conversation_router.py` | attempts | timeout, classification, pause, retry | bounded attempts, only of what can pass | `LlmCalls`, `Request` |
| Intent `app/logic/intent_*.py`, `apply_intent_patch.py`, `date_normalization.py`, `budget_period.py` | none (a search request in, one out) | extract, patch, dedupe, stay dates | what is not mentioned stays; dates and amounts are never invented | `StayDates`, `IntentPatch`, `Request` |
| Retrieval `app/retrieval/*` | requests and scraper runs in flight | LiteAPI, Apify, fixtures | what is offered becomes a candidate; a failure is no empty market; nothing is left running | `LiteApi`, `LiteApiHotel`, `Apify`, `Fixtures`, `Listing` |
| Listing evaluation `app/logic/listing_evaluation.py`, `matcher_structured.py`, `numeric_filters.py`, `constraint_evidence_resolution.py` | none | evidence per requirement, hard filters, score | unknown is never turned into yes or no | `ListingMatch`, `TextEvidence`, `ListingPolicy`, `Search` |
| Ranking `app/logic/result_selection.py` | none | tiers, order, limit | nothing known to violate the request is shown | `ListingPolicy`, `Search` |
| Currency rates `app/services/currency_rates.py` | snapshot file | read, refresh, fall back | a missing rate decides nothing | `CurrencyRates`, `Search` |
| Soft evidence `app/logic/soft_evidence_*.py` (off by default) | calls in flight, their results | planning, bounded concurrent calls, policy, integration | bounded, in place, a failure is no verdict | `SoftPool`, `SoftPolicy`, `SoftEvidence` |
| Answers `app/logic/normalize_search_response.py`, `build_answer_payload.py`, `answer_generation.py`, `conversation_response_*.py` | none | statuses, cards, wording and its fallback | no requirement disappears; confirmed only on evidence | `ListingPolicy`, `AnswerPolicy`, `Answer` |
| Questions about shown listings `app/logic/result_query_matching.py` | none | facts, matching, reply | a verdict on each fact of each listing, on evidence | `AnswerPolicy`, `Answer` |
| Observability, evaluation, scripts, dashboards, front ends | logs, reports, a browser tab | | | not modelled |

Interactions: the endpoint calls the store, gate and ledger (shared state, one event
loop; the ledger in threads and possibly several processes); it passes the session to
`process_turn` and stores the session that comes back.  The flow calls the LLM stages
and retrieval one after the other and awaits each.  Retrieval starts requests or
threads of its own; evaluation calls the LLM and, in its experiment, a thread pool.

Hard behaviours: awaits while holding a session lock or a slot; a session that leaves
the store while requests wait for it; a clock read before a write lock; deletion of
rows that a limit counts; restarts; stages that fail in every combination; LLM output
that is well formed and wrong; a question left open over several turns; requests under
one deadline; threads that outlive the search; results that come in any order; three
values through five layers of merging; years a model makes up; amounts in two
currencies.  `PROJECT.json` lists each of them under `hazards`, with its line and the
properties that cover it.

## Modules

### Endpoint and conversation

`UsageLedger` models `try_record_turn` as two steps, because the code reads
`self._clock()` before `BEGIN IMMEDIATE` and may wait for SQLite's write lock for
`timeout=5`: `ReadClock`, and then `RejectGlobal`, `RejectVisitor`, `Record` (insert,
delete old rows, commit) or `Abort` (locked database, exception, kill).  `Tick` lets
no call wait longer than `BusyTimeout`.  Time is in ticks, `TicksPerSecond` to a
second, to show the rounding of Retry-After.  `accepted` is a history variable.

`TurnQuota` is the abstract quota: it remembers every turn and decides by it.
`UsageLedger` implements it (`ImplementsQuota`); `ChatApi` uses its `Charge` as the
ledger call.

`ChatApi` models the request handler, session store and gate.  All runs on one event
loop, so what lies between two awaits is one action: arriving (`Open` without a
session, `NotFound`, `Queue`, `Continue` with one), `Wake` of the first waiter,
`Record` (the ledger thread), `Begin` (create the session if there is none, call
`process_turn`), and one of `Limit`, `Fail`, `Finish`.  `Restart` may come at any
time.  `stored` and `before` are the `OrderedDict`'s keys and order, `entry` the
`_Entry` objects - kept apart because a request can hold an entry that is stored no
more.  A session is named by the request that created it, and what it holds is the
sequence of turns that built it: `base` is what `process_turn` was given.

`Conversation` models one session over many messages.  A turn goes through the stages
the code awaits (`routing`, `extracting`, `starting`, `updating_original`, `updating`,
`searching`, `responding`), one action per outcome of a stage; nothing is stored before
`Commit` (`_build_updated_session`), and `Raise` is an unexpected exception at any
stage.  The router's decision is any value its output schema admits, including
invented result ids.  A search request is abstracted to the set of messages whose
requirements it carries and whether `resolve_required_search_context` has anything to
ask about it; a result set to its id, its listings and the request it answers.  The
discourse-context experiment is on or off for the whole conversation.

`TurnContract` is what a whole turn may do to search, results and open question:
read, open a question, ask about an incomplete search, or replace search and results
together.  `Conversation` implements it (`ImplementsContract`).

### From messages to a search request

`Request` composes the next three over a few messages: `Receive`, `Route`, and one
action per LLM stage (`AnswerFacts`, `Extract`, with `StartSearch` and `Update` for
what becomes of the answer), `CallRaises` for each exception of each attempt,
`ReplyToClarification` (the second update of a clarified one), `EndTurn`, and `NextDay`
while the user thinks.  `Conversation` has the rest of such a turn and takes this part
of it for any outcome.

`LlmCalls` is one call under the two retry policies: `AttemptFails` (recorded, paused,
tried again), `CallFails`, `CallAnswers`.  Exceptions are named by class and classified
as `classify_provider_exception` does.  A timed-out attempt is cancelled and never
answers late.

`StayDates` is `resolve_stay_dates`: a model always writes a year, and only the user's
text tells whether it was stated.  Days are numbers, a year has `YearLength` of them.

`IntentPatch` is `apply_intent_patch` with the duplicates and mappings of constraints,
the merge of filters, the guard of period budgets and what
`resolve_required_search_context` then asks.

### From a search request to an answer

`Answer` is one search and what the user is told of it, then a question about the shown
listings.  It extends `Search` (the stages of `orchestrate_search_request`: candidates,
evaluation, conversion, LLM fallback, selection), which extends the modules below; each
state variable belongs to one of them.

`LiteApi` has the rates request with its retries and then one record per hotel in
`detail`: queued, running, waiting to be retried, done or cancelled.  Requests share
`DetailConcurrency` slots and one deadline (`DeadlinePasses` may come at any point of
the phase; `EndDetails` is what the code does then).  `Faults` is what an HTTP call can
meet.  `LiteApiHotel` makes a listing of a hotel, from its content and that of the rooms
on offer; a provider flag that is false or missing says nothing.

`Apify` has one scraper run per property type in threads of its own, with no common
deadline: `ActorReturns`, `ActorFails`, `ActorEndsLate` for those that outlive a failed
search, `MergeActors`.  `Fixtures` is the sample source of the public demo.

`Listing` is the provider-independent record and the texts matching reads from it.  A
text is a set of phrases, and `Phrases` gives what the aliases and regular expressions
of `field_rules.py` and `numeric_filters.py` find in each.

`ListingMatch` is `match_field`, the sizes and the price, each to one of three values;
`TextEvidence` is what is made of the LLM's quotations; `ListingPolicy` is hard filters,
score, tier, order, limit and the status of each requirement; `AnswerPolicy` is the card
of a listing, the rows of the deterministic text, the message after a failure and the
verdict on a fact.  They are operators only.  `CurrencyRates` is the snapshot file.

### Soft evidence

`SoftEvidence` is a run of the pipeline: retrieval (`Retrieve`, batches embedded by
`Begin`/`Embed`), cleanup and ranking, `PlanVerification`, verification calls
(`Begin`/`Verify`), decisions, and the two ways to use them
(`ApplyAuthoritative`, `AttachShadow`).  Calls of a phase run on `MaxConcurrency` threads
and end in any order; any may fail or raise, and `run_bounded` waits for all.  `SoftPool`
is the evidence of a listing in the order of collection; `SoftPolicy` the decision
policy.  The similarity of texts is a constant.  The HTTP path never turns the
pipeline on; `evaluate_listings` does for its other callers, so it is a module of its
own and not a stage of `Search`.

`Selection` is what a list comprehension with a condition keeps of a list, for the modules
that filter.  `MC*` modules only give constants values for TLC.  Definitions marked "Mutant" are
faulty variants of the definition that follows them; `PROJECT.json` says which
property notices each.

## Runs

| Run | Bounds | Shows |
| --- | --- | --- |
| `UsageLedger.cfg` | 2 visitors, 2 workers, 8 instants, day 3, window 5, retention 6, lock wait 1, 2 turns per visitor, 3 per day | both limits hold in every interleaving; no needed row is deleted; Retry-After plus the second it is rounded down by is enough; the abstract quota is implemented |
| `UsageLedgerLongWindow.cfg` | window 8, retention 6 | violated: `OldRowsNotNeeded`, see Findings |
| `ChatApi.cfg` | 4 requests, 1 stored session, 2 slots, 3 turns in a window of 2, TTL 1, clock to 2, 1 restart | slots are counted, turns serial, updates kept, quota charged once, requests leave no more behind than they were charged for, eviction is safe |
| `ChatApiLive.cfg` | 3 requests, 2 turns per visitor, clock to 1, a prompt event loop, turns that may hang | only a turn that hangs keeps a request unanswered: its own, or one that waits for its session |
| `ChatApiDetached.cfg`, `ChatApiFull.cfg` | as above without restart | violated, see Findings |
| `Conversation.cfg` | 2 listings, 4 messages | all invariants, the discourse context, the two clarification properties, and the turn contract |
| `ConversationLiteral.cfg` | 3 messages | violated, see Findings |
| `Request.cfg` | 5 scenarios of 2 messages; 2 router and 3 stage attempts; 3 days over New Year of a year of 4 | what is retried and how long a turn takes; the stay, requirements and budget are what was stated |
| `Search.cfg` | 11 requests, 3 providers; 3 hotels, 3 items, 4 samples; 2 attempts, 2 details one at a time, top-k 1, 2 results | what is offered, rejected, shown, confirmed and told; every message is answered |
| `SearchSafe.cfg` | as above | violated, see Findings |
| `SoftEvidence.cfg` | 3 listings, 2 in scope, 4 requests; batches of 3, top-k 3, 2 threads, 2 calls per hotel, 4 per request | nothing is orphaned, results stay in place, budgets are fair, verdicts have grounds, only a hung call blocks the run |

The bounds are the smallest in which the interesting cases happen.  Ledger: the window
spans two days, the clock goes beyond retention, two workers can pass each other
between clock and commit, and three rows a day are more than one visitor may have.
Chat: a session capacity of one makes every creation evict, a TTL of one with a clock
to two makes sessions expire while in use, two slots and four requests give a holder,
a waiter, a newcomer and one in another session.  Conversation: search, question,
unclear answer, decision, and in other orders, need four messages; two listings tell
"this one" from "all".

Request: what is said in a scenario varies in one respect (calls, dates, requirements,
budget, the rest) and is fixed in the others, because the code treats them one after the
other; the second message sees all searches the first can leave.  A year of four days
and messages on three of them give dates before and after today, stays over New Year,
and an end found only a year later.  Constraint lists have up to two of six constraints
with equal texts, meanings or categories.

Search: three hotels of which two are asked for, and one asked for first without offers;
an offer whose total is not the sum of its rates; a catalog room twice and one not on
offer; flags true, false and missing; texts that affirm, deny and do both; one request per
kind of requirement, and some where they meet.  One slot and two details make a request
wait; two attempts make it retry.  Two rate tables (one with a zero quote) and a TTL of
one give a snapshot that is fresh, old or missing.  An LLM returns silence, support, a
hint or a denial, quoting this listing or another.

Soft evidence: a pool of two batches can be embedded in part, by a failure or a short response; ceilings of 2 and 4
stop the second round of a listing and the first round of a request.

`CHECK_DEADLOCK FALSE` is set wherever requests, messages and the clock are bounded, so
that the model stops when they are used up.  That nothing stops early is
`OnlyTurnsBlock` for `ChatApi`, `EveryMessageIsAnswered` for `Answer`; a turn of
`Conversation` can always `Raise`.  `SoftEvidence` is checked for deadlock: it ends in a
stuttering step.

Fairness.  `ChatApi`: weak fairness of each request's `Prompt` steps only (waking up with a
free lock, the ledger call, which ends by its busy timeout, and what follows it): the event
loop runs ready callbacks in turn.  A turn need not end.  Its LLM stages run under a timeout
with a bounded number of attempts (`Request`), but its soft-evidence calls, where they are
turned on, do not.  `SoftEvidence`: weak fairness of what asyncio runs (`Proceed`), none of
the calls' own ends: both clients are built as `Client(api_key=...)` without a timeout
(`semantic_evidence_verification.py:115`, `soft_evidence_retrieval.py:79`) and `run_bounded`
has no deadline, so a hung call holds its phase for good.  `OnlyHungCallsBlock` says that
nothing else does.  `Answer`: weak fairness of the code's own steps and of the deadline
(`asyncio.timeout` in `liteapi.py`), none of LiteAPI's replies, so that a provider that
never answers is covered; a scraper run ends, because `urlopen` has a timeout (of each
socket operation: a server that sends a byte now and then is not covered).  None is assumed
of arrivals, the clock or restarts.

## Proofs

`ChatApiProofs`: `TypeCorrect` (`Spec => []TypeOK`) and `TurnsAreSerial`
(`Spec => []SerialTurns`), for any number of requests, sessions, slots and restarts.
`SerialTurns` is not inductive: nothing in it forbids a new session to be one that
somebody already holds, or an admitted request to have lost its lock.  `IInv` adds
`SessionsAreMade` (a request refers to no session before it looked one up or made one,
and only to one that its creator made) and `LockIsHeld` (from admission to answer the
lock of the session is held).  Admission and answering are one lemma each
(`AdmitIInv`, `AnswerIInv`), used by the actions that end in them.

On top of it: `SlotsComeBackOnce` (`SlotsAreCounted`), `TurnsAreChargedOnce`
(`ChargedTurns`) and `NoUpdateIsLost` (`NoLostUpdate`), under `FinitelyMany`: the requests of a behaviour are finitely many, without which counting
them means nothing.  Each is a lemma that says in how few ways a step can move what is
counted (for the gate: one request through it, one back, all out, or none) and one that
each of these keeps the count.  The two action properties need no such hypothesis.
`RejectionsLeaveNoTrace` (`RejectedLeaveNoTrace`) is about the whole life of a request: what
its steps do to the store before the ledger has charged it (`UnchargedLeaveStore`), which
step may create (`ChargedCreate`) or touch a session (`AnsweredTouch`), and that a session
whose first turn fails stays empty.  The last needs `RejectIInv`: until its maker is
answered, nobody else refers to a session, as its id was never told.
`EvictionTakesTheOldest` (`EvictionIsSafe`) needs `StoreInv`: `before` orders the stored
sessions strictly and totally, the least recently used first, and the one that is dropped
for space is the first of those not in use.

`UsageLedgerProofs`: `TypeCorrect`; `RetentionSuffices` (`Spec => []OldRowsNotNeeded`),
`LedgerImplementsQuota` (`Spec => Quota!Spec`), `VisitorsAreLimited` (`VisitorLimit`) and
`DaysAreLimited` (`GlobalLimit`), under `RetentionCovers`: retention is at least the
window, and the day, plus the time a call may wait for the lock.  With the defaults (24 h,
24 h, 5 s, 48 h) that holds.  The inductive invariant says that a call's clock is at most
`BusyTimeout` old (`CallsAreFresh`) and that a deleted row is past retention
(`DeletedAreOld`); so no deleted row is in the window or on the day of a call in progress,
the counts over the table are the counts over all turns, and each step of the ledger is
the step of the quota with the same verdict.  `RetryAfterSuffices` (`RetryAfterIsEnough`)
follows from `VisitorLimit`: whoever is refused meets, when told to come back, none of the
rows as old as the oldest that refused him, so fewer than a full window of those up to his
refusal - although the table may by then hold rows of calls that read a later clock.

`ConversationProofs`: every safety property the `conversation` run checks, for any number
of messages and listings: `TypeCorrect`, `OpenQuestionsAreAnswerable`,
`ContextsAreCurrent`, `ResultsBelongToSearch`, `QuestionsTargetShownListings`,
`ConversationImplementsContract`, `DecidedQuestionsStayClosed`,
`OriginalsAreAppliedByChoice`.  The session changes in `Commit` only, so the invariant
says of a result that waits to be stored what it may be: `Fits` (it reads, opens a
question, asks, or has run - one disjunct per action of `TurnContract`), `ContextFits`,
and, if the turn failed or asked back, `KeepsContext`; `StagesFollow` says what each awaited stage may rely on.  `Reply`,
`Await` and `Resolve` are what every action of a turn ends in, and have one lemma each
(`ReplyIInv`, `AwaitIInv`, `ResolveIInv`).  The two properties about the original
message of a clarification need `MessagesFollow` on top: closed messages are older than
the turn, a request under construction carries only `MayCarry`, and a question in a
result is new or undecided.

`RequestProofs`: every safety property the `request` run checks, for any messages, any
exceptions and any length of a year.  `StaysAreAsStated` (`StayAsStated`): the arithmetic is
in `ExactDay` (a day has one year and one place in it) and `NextOccurs`; `StayIsGood` says
what `resolve_stay_dates` guarantees of a stay it does not refuse, `StartedStay` and
`UpdatedStay` what becomes of it in a new search and in an update.  The invariant `StayInv`
adds that every search, base and draft has at most one check-in, and that an update has a
search to change.  `TurnsEndInTime` (`RetriedWhilePassing`): every error class there is
gets retried exactly if it is one that passes (`RetryableIsPassing`), during a call every
failure so far was such a one, one per attempt (`AttemptsFollow`), and `TimeInv` bounds the
time spent by what the attempts so far may have taken, where the doubling delays are the
recursive function `TwoTo`.  The bound covers the router and the extraction stages; the
search and the wording come after them.  What the router raises before its attempts
(`LlmModelConfigurationError`, `conversation_router.py:362`) is neither recorded nor made a
`ConversationRoutingError`: the turn ends as it does for a programming error.  `RequirementsAreAsStated` (`RequirementsAsStated`): `ReqInv`
says that every draft is a well-formed search and the property holds of it; the lemmas
underneath treat the update one rule after the other - identity keys and merged
duplicates (lists kept, replaced and appended to by position), mappings, filters, and the
guard of period budgets (`GuardedIsBudgeted`).  `RequestTypeOK` (`TypeOK`) comes with it.

`SoftEvidenceProofs`: every invariant the `soft_evidence` run checks, for any listings,
requests, scores and number of threads.  `NothingIsOrphaned` (`NoOrphanedCalls`) and
`ConcurrencyIsBounded` follow from the calls alone.  `ResultsKeepTheirPlace`
(`ResultsStayInPlace`) needs that a plan names no call twice (`PlanIsInjective`), which is
shown of the concatenated batches and of the rounds of verification; `TheBudgetIsFair`
(`BudgetIsFair`) that candidates come in the order of their rank, one round after the
other; `SoftEvidenceTypeOK` (`TypeOK`) that the number of finished calls is that of those
that have ended.  `VerdictsAreGrounded` (`VerdictsHaveGrounds`) rests on
`DecisionsHaveGrounds`, a fact about `Decide` alone (whatever the claims' results, the
policy says yes only on a supporting claim whose retrieval was complete and no only on a
contradicting one whose retrieval did not fail), and on what pools, batches and candidates
keep of the texts they come from.

`AnswerProofs`: `RequestsEndWithSearch` (`NoRequestOutlivesSearch`), for any provider and
number of hotels: only the phase of the details has requests, and a step of it lets one
begin while a slot is free, or ends all.  `AnswerTypeOK` (`TypeOK`) and `NothingIsLost`
(`NoRequirementDisappears`), for listings and requests of any number and size.  Their
invariant is `TypeInv`, one part per module: `RetrievalInv` (stages, error codes, details),
`EvaluationInv` (every item is an `IsItem` of the request, with values for its fields and
decisions on its constraints, and from `ScoreResolutions` on each blocking textual
requirement is `Represented` - so that what the fallback never reached still has a status)
and `AnswerInv` (cards are `CardsOfShown`, a fallback text has their rows, and a reply is
`RepliedInFull`).  That filters, sorting, grading and the limit lose nothing an item
carries is a lemma about each of them.

`EvidenceProofs`: `UnknownIsNoRejection` (`RejectedOnlyOnEvidence`) and
`ConfirmationHasEvidence` (`ConfirmedOnEvidence`), for any payloads of the three providers,
phrases, requests, rates and answers of an LLM.  The way is long, from a payload to a
sentence of a reply, and each stretch has its own part.  `GroundedIn`: every text a listing
is matched by is made of phrases that its payload states; shown of LiteAPI's hotels with
any list of offers (`NormalizedIsTold`), of scraped items (`ScrapedIsTold`) and of samples
(`SamplesAreTold`), each normalizer step by step.  `CandidatesInv`: a stage belongs to its
provider, runs of scrapers return items of theirs, and all listings that wait are grounded.
`EvidenceInv`: of every evaluated listing a YES or NO of a field, number, budget and quoted
constraint is `Told`, whatever is rejected is `Justified`, and a tier is the one its values
give.  `QuestionInv`: a question's verdicts are those of the listings it is about, which it
asks about once each.  None is inductive without the others and the types, so
`EvidenceIInv` is their conjunction with `TypeInv`.

On top of it `WhatIsOfferedIsTaken` (`CandidatesAreWhatIsOffered`), which is about the
steps that end a retrieval; that these are the only ones is `CandidatesAreFound`.  LiteAPI:
a search that goes on without listings had no hotel with offers, or `MaxDetailCalls` is 0
(`HotelsWithOffersAreNamed`);
the hotels collected from are those whose details were asked for, and the failure reported
is an answer of one of them (`CollectedListings`, `CollectedFailure`).  Scraping: `RunsInv`
says that each run has a share of its own and no more items than that, and `RunsFit` that
the shares make `MaxItems`, so cutting the merged items to it cuts nothing: every item has
a number up to `MaxItems` of its own, n (k - 1) + p for the k-th item of the p-th of n
runs.  What deduplication keeps is the first item with each id (`DeduplicationKeepsOne`).
Samples: a window holds the stay in the year of the check-in or the one before exactly if
it does in some year (`CoversIsAvailable`), and the rounded price is the window's to half a
cent a night (`RoundedIsNear`).

`NothingKnownAgainstShown` (`NoKnownViolationShown`) is the converse of the first two: not
that what is decided was told, but that what is told is decided.  It is told by the payload
(`StatedPhrases`, `ItemPhrases`, `ListingPhrases`), so every stretch is walked once more,
looking for what may get lost: each normalizer keeps each phrase it is said to state, with
its signal (`HotelIsHeard`, `ScrapedIsHeard`, `SampledIsHeard`), a merge keeps the items
themselves (`MergedAreItems`), and the matcher sees what any signal says (`ToldIsMatched`,
`CountsAreMatched`, `PriceIsTold`).  A text is overruled only by another one
(`OnePhraseOneSignal`: if one phrase alone names a field for and against it, both sides find
the same signal, and the code takes that for a denial).  The invariant
is `ShownIInv`: `EvidenceIInv`, `ListedInv` (nothing told of a waiting candidate is missing
from its signals) and `ShownInv` (an item's fields are settled, its numbers are settled or
the numeric filter rejects it, and from the filter on nothing that is ranked or shown is
rejected).  `ShownInv` alone is not inductive, as it says nothing of a candidate yet to be
matched, and `NoKnownViolationShown` neither, as it says nothing of an item yet to be shown.

`DataLemmas` holds what these proofs need of lists of any length, over `Selection` (the
part of a list at given positions): induction over the natural numbers, stated of a set of
them; functions defined by recursion; that ordering a finite set by the number of elements
ahead is a permutation; that a part of a list keeps order and has only what it should;
where an element of a concatenation comes from.

Assumed, besides `ChatAssumption`, `LedgerAssumption` and `ConversationAssumption`:
`RequestAssumption`, `StayDatesAssumption`, `LlmCallsAssumption`; `SearchAssumption`,
`LiteApiAssumption`, `ApifyAssumption`, `FixturesAssumption`, `ListingAssumption`,
`HeadingsAssumption`, `CurrencyAssumption`; `ScoreAssumption`, `SoftEvidenceAssumption`.
They give the ranges of the constants and the shape of requests, payloads and messages, that
`NoSearch` and `NoResults` are no search and no results, and that a message says at most one
date of each kind; that counts, amounts and limits are integers, in whatever unit, where
the code has floats; that every field a phrase names has a rule (`SearchAssumption`; the
aliases are in `FIELD_RULES`); `FixturesAssumption` that no two samples have one id, as in the bundled
file; `HeadingsAssumption` that the headings the LiteAPI normalizer writes are
not phrases of a field.  `RetentionCovers` and `FinitelyMany` are hypotheses of their
theorems, not assumptions of the modules.

Only model-checked: all liveness (`OnlyTurnsBlock`, `OnlyHungCallsBlock`,
`EveryMessageIsAnswered`), since the prover has no rules for `ENABLED`.  Every invariant and
every action property of the passing runs is proved.

## Findings

1. `app/api/usage_limits.py:148` deletes rows older than two days, while
   `BOOKING_API_VISITOR_WINDOW_HOURS` has a minimum and no maximum: the comment on
   `RETENTION_SECONDS`, "Rows older than this are no longer needed by either limit", does not
   hold for windows of more than 48 hours.
2. `app/api/session_store.py:66`: a waiter goes on with an entry that may have left the
   store between the lock's release and its wake-up; the turn is answered with 200 and
   lost (module docstring: "no lost update").  It takes a full store, or a turn longer
   than the TTL that fails.
3. `app/api/session_store.py:53`: with the oldest session in use nothing is dropped,
   against "beyond `max_sessions` the least recently used one is dropped".
4. `app/logic/conversation_flow.py:1500`: an incomplete search is stored while older
   results stay shown, against "so the persisted search always matches the shown
   results" (line 1530).  `ShownBelongToSearch` states what does hold.
5. `app/logic/result_selection.py:166`: a forbidden requirement that the LLM finds
   contradicted, that is, confirmed absent, makes a listing ineligible, against
   `tests/test_soft_constraint_forbidden_downstream.py:114`, "Listing stays eligible and
   is rewarded as safe".

## Observations

What the models also show, where nothing in the repository says otherwise or the
disagreement is one of words only.

Endpoint.  "Nothing is created or changed for a rejected request" (`main.py:155`) is true of
sessions and their contents, not of the store: a request that is refused as busy or over its
limit has made its session the most recently used one (`session_store.py:76`), and any
lookup drops what has expired.  A first turn that fails leaves an empty session whose id
nobody knows, and another one may have been evicted for it (`main.py:163-165`).
Retry-After is rounded down, so a client that waits exactly as long may be refused once
more (`usage_limits.py:145`).  A turn whose soft-evidence calls hang keeps its slot and its
session, and nothing ends it.

Requests.  The first message after a budget in a weekly or monthly rate turns its marker
into an unresolved textual requirement.  The guard keeps a price the model made up if the
same number stands elsewhere in the message, and drops an earlier stated side of the
price together with it.  A new check-in alone makes a stay of one night
(`apply_intent_patch.py:306`).  A check-in that has passed is not looked at again when
only the nights change.  The same text under another category is a second requirement.
A relation outside the schema raises a `ValidationError`, not an `LlmCallError`.

Retrieval.  With `LITEAPI_MAX_DETAIL_CALLS=0` (`liteapi.py:629`) every market is an empty
one, without an error (`liteapi.py:757`: "Nothing usable is a failure, never an empty
result").  A listing has the id of the hotel's payload, whatever hotel was asked for.  Scraper
threads outlive a search that failed.  With more property types than
`max_items` some type is never asked for.  A facility group whose items all lack a name
loses its overview, and one with facilities of its own loses its name.  A room or policy
flag of LiteAPI that is true and has no sentence is dropped, and so is free parking where
neither kind of parking is offered.  Socket errors other than `URLError`, and errors of the debug file,
escape as they are.

Evaluation.  Two texts that both deny a field, in words of different aliases ("No WiFi" in
one room, "WiFi not available" in another), are taken for a conflict
(`matcher_structured.py:243`), and a listing without it is shown as uncertain (`Disputed`).
The two sides of a budget may be converted with different snapshots.  An
unwritable rates file ends the turn with an exception, and so does one that is JSON and no
object.  Without a total the budget is compared with the first price of a room option,
which the card does not show.  A required textual requirement
beyond `top_k` of a structured strategy is never represented.  No listing can be "strong"
next to a textual forbidden requirement.  A forbidden field of inverted polarity that is
present costs 100 points.  In the authoritative soft mode a contradicted wish ("nice")
makes a listing ineligible as well.  The docstring of
`soft_constraint_decision_adapter.py` says the direction of a preference was applied by
`decide_constraint`; it is not, on purpose (`soft_constraint_decision_policy.py:459`).
A response with fewer embeddings than texts counts as a success: the
last texts are never found, and the claims' status does not show it; if it is the queries'
response, the run raises a `KeyError`.  LiteAPI's review summary is no soft evidence: only `raw["reviewSummary"]` is read.

Answers.  Two requirements on one field share a status, the later one's.  The budget line
of a card compares amounts without their currencies.  An unknown price does not keep a
card from the best bucket.  The deterministic text has no row for the price.  A search
whose listings are all ineligible is answered as one with results, without cards.  Two
listings without id and URL share a result id, and a question about them raises
(`ReplyRaises`).

## Not modelled

Client disconnects (the handler is not cancelled by them), several API workers (the
code rules them out), the HMAC of addresses.  Wall clocks do not go backwards in
`UsageLedger`.  The threads that hung soft-evidence calls keep of the default executor, which
the ledger uses too, and an embedding response with more vectors than texts.

Abstracted: the strings themselves.  The aliases and regular expressions of field and
number matching are the constant `Phrases`; the similarity of texts is `Score`; prompts,
labels, notes and phrases are left out.  So are guests, currency and all size bounds but
one in a request, photos and coordinates of a listing, limits on the length of texts, and
February 29 (`StayDates`, `Fixtures`).

Code no part of the running program calls: `logic/property_semantics.py`,
`logic/answer_generation_llm.py`, `logic/occupancy.py` (its test only),
`retrieval/apify_fast.py`, `retrieval/apify_booking.py` (a smoke script), the legacy
functions of `matcher_structured.py` (59-147), `build_answer_payload.py` (107-189,
430-542) and `answer_generation.py` (55-99), `_answer_listing_question`.

Observability (no decision reads it), `src/evaluation` and `scripts/` (offline
measurement of the above), prompts of the agents, the Streamlit page (one user who calls
`process_turn`) and the web client, whose state is one tab's session id and messages and
which sends one request at a time; its end of the protocol is any request of `ChatApi`.

## Plan

Done: everything above.  Left, most important first:

1. `DemoClient`: the web client's session id against `ChatApi`'s answers (a 404 after a
   restart, an answer after a reset).
2. The refinement of `Conversation`'s free choices by `Request` and `Answer`, which now
   share stages by name only.
