------------------------------- MODULE Search --------------------------------
(***************************************************************************)
(* One search (tools/orchestrate_search_tool.py): candidates are retrieved *)
(* (LiteApi), matched against the request with budgets converted at the    *)
(* day's rates (ListingMatch, CurrencyRates), the first few are put before *)
(* an LLM for what their structured data leaves open, and the rest of the  *)
(* policy decides what is shown (ListingPolicy).  The evaluation runs with *)
(* soft evidence off, as orchestrate_search_request calls it.              *)
(***************************************************************************)
EXTENDS Apify, AnswerPolicy, TextEvidence, CurrencyRates

CONSTANTS
    Analyses,         \* [name -> what the LLM may say of one requirement]
    TopK,             \* fallback_top_k
    MaxConstraints,   \* max_constraints_per_listing
    ResultLimit,      \* result_limit
    MaxNow            \* bound on time while budgets are converted

(* SearchRequest, as far as the evaluation reads it.                       *)
IsRequest(r) ==
    /\ r.constraints \in Seq([priority : {"must", "nice", "forbidden"}, known : BOOLEAN, fields : Seq(STRING),
                             strategy : {"structured", "textual", "none"}, namesPart : BOOLEAN])
    /\ r.types \in Seq(STRING)
    /\ DOMAIN r.filters = {"bedrooms", "bathrooms", "area_sqm"}
    /\ r.checkIn \in Int /\ r.nights \in Nat \ {0}
    /\ r.price.min \cup r.price.max \subseteq Int

(* The aliases of a field are in its rule: without one, no text names it.  *)
ASSUME SearchAssumption ==
    /\ {TopK, MaxConstraints, ResultLimit, MaxNow} \subseteq Nat \ {0}
    /\ \A r \in Requests : IsRequest(r)
    /\ \A p \in DOMAIN Phrases : \A h \in Phrases[p].says : h.field \in DOMAIN PreferredPlaces
    /\ \A said \in DOMAIN Analyses :
          /\ {"signals", "support", "contradiction", "conflict", "condition"} \subseteq DOMAIN Analyses[said]
          /\ \A s \in Analyses[said].signals : s.snippet \subseteq DOMAIN Phrases /\ \A p, q \in s.snippet : p = q

VARIABLES
    quotes,    \* for the listing at hand: [side of the budget -> its quotes]
    items,     \* the evaluated listings
    dropped,   \* history: the listings rejected on the way
    shown      \* the selected items

evaluationVars == <<quotes, items, dropped, shown>>

searchVars == <<stage, retrievalVars, actors, evaluationVars, rateVars>>

-----------------------------------------------------------------------------
(* The rates file may be missing, malformed, current or old; a search      *)
(* without a budget does not read it, and one content stands for all.      *)
InitSearch ==
    /\ InitRetrieval
    /\ actors = <<>>
    /\ now = 0
    /\ cache \in {{}, {Malformed}} \cup {{[at |-> t, rates |-> table]} : t \in {-TTL, 0}, table \in RateTables}
    /\ request.price.currency = "none" => cache = {}
    /\ quotes = <<>>
    /\ items = <<>>
    /\ dropped = {}
    /\ shown = <<>>

(* The sides of the budget whose rate the listing at hand still needs. *)
Unconverted ==
    {side \in {"min", "max"} \ DOMAIN quotes :
        /\ stage = "retrieved"
        /\ listings # <<>>
        /\ request.price[side] # {}
        /\ NeedsRate(request.price, ExtractTotalPrice(Head(listings)))}

Convert(got) ==
    LET side == IF "min" \in Unconverted THEN "min" ELSE "max"
    IN  /\ Unconverted # {}
        /\ quotes' = Joined(quotes, [s \in {side} |-> QuotesOf(got.snapshot, request.price.currency)])
        /\ cache' = got.file
        /\ UNCHANGED <<stage, retrievalVars, actors, items, dropped, shown, now>>

ConvertRaises ==
    /\ Unconverted # {}
    /\ SnapshotRaises
    /\ Fail("raised")
    /\ UNCHANGED <<actors, request, late, rates, offers, detail, listings, evaluationVars, now>>

Tick ==
    /\ Unconverted # {}
    /\ now < MaxNow
    /\ now' = now + 1
    /\ UNCHANGED <<stage, retrievalVars, actors, evaluationVars, cache>>

(* match_listing_structured, match_forbidden_fields, and                   *)
(* evaluate_numeric_filters, whose price verdict comes last.               *)
Matched(l) ==
    LET side(s) == IF s \in DOMAIN quotes THEN {q.quote : q \in quotes[s]} ELSE {}
        price == MatchPrice(request.price, ExtractTotalPrice(l), request.nights,
                            [s \in {"min", "max"} |-> side(s)])
    IN  [listing |-> l,
         matches |-> [f \in KnownFields(request, {"must", "nice", "forbidden"}) |-> MatchField(l.signals, f)],
         numeric |-> Joined(MatchSizes(l, request.filters),
                            [a \in {"price_total" : s \in {t \in {"min", "max"} : request.price[t] # {}}} |-> price]),
         results |-> <<>>,
         score   |-> 0,
         tier    |-> "none",
         said    |-> <<>>,
         quotes  |-> quotes]

(* The loop of _rank_structured. *)
MatchListing ==
    /\ stage = "retrieved"
    /\ listings # <<>>
    /\ Unconverted = {}
    /\ LET item == Matched(Head(listings))
       IN  IF FailsMust(request, item) \/ FailsForbidden(request, item)
           THEN dropped' = dropped \cup {item} /\ UNCHANGED items
           ELSE items' = Append(items, [item EXCEPT !.score = StructuredScore(request, item)]) /\ UNCHANGED dropped
    /\ listings' = Tail(listings)
    /\ quotes' = <<>>
    /\ UNCHANGED <<actors, stage, request, late, rates, offers, detail, error, shown, rateVars>>

RankStructured ==
    /\ stage = "retrieved"
    /\ listings = <<>>
    /\ items' = SortedByScore(items)
    /\ stage' = "asking"
    /\ UNCHANGED <<retrievalVars, actors, quotes, dropped, shown, rateVars>>

(* resolve_listing_constraints_with_fallback: item by item, constraint by  *)
(* constraint, until the listing has MaxConstraints results.               *)
Questions(k) ==
    LET eligible == {c \in Positions(request) : FallbackEligible(request.constraints[c], items[k])}
    IN  {c \in eligible : Cardinality({d \in eligible : d < c}) < MaxConstraints} \ DOMAIN items[k].results

OpenItems == {k \in DOMAIN items : k <= TopK /\ Questions(k) # {}}

Ask(answer) ==
    /\ stage = "asking"
    /\ \E k \in OpenItems : \E c \in Questions(k) :
          /\ \A j \in OpenItems : k <= j
          /\ \A d \in Questions(k) : c <= d
          /\ LET decision == Resolve(Analyses[answer], request.constraints[c], items[k].listing)
             IN  items' = [items EXCEPT ![k].results = Joined(@, [d \in {c} |-> decision]),
                                        ![k].said = Joined(@, [d \in {c} |-> answer])]
    /\ UNCHANGED <<stage, retrievalVars, actors, quotes, dropped, shown, rateVars>>

(* An exception that is not an LlmCallError. *)
AskRaises ==
    /\ stage = "asking"
    /\ OpenItems # {}
    /\ Fail("raised")
    /\ UNCHANGED <<actors, request, late, rates, offers, detail, listings, evaluationVars, rateVars>>

(* Coverage, then the scores of what was resolved. *)
ScoreResolutions ==
    LET scored(item) == [item EXCEPT !.score = @ + ResolutionDelta(request, item)]
    IN  /\ stage = "asking"
        /\ OpenItems = {}
        /\ items' = [k \in DOMAIN items |-> scored(EnsureRepresented(request, items[k]))]
        /\ stage' = "scored"
        /\ UNCHANGED <<retrievalVars, actors, quotes, dropped, shown, rateVars>>

Rejected(item) == FailsNumericFilters(item) \/ FailsConstraintResolution(request, item)

(* The final filters and order of evaluate_listings. *)
FilterAndSort ==
    /\ stage = "scored"
    /\ items' = SortedByScore(Kept(items, {k \in DOMAIN items : ~Rejected(items[k])}))
    /\ dropped' = dropped \cup {item \in ToSet(items) : Rejected(item)}
    /\ stage' = "ranked"
    /\ UNCHANGED <<retrievalVars, actors, quotes, shown, rateVars>>

GradeItems ==
    /\ stage = "ranked"
    /\ items' = Graded(request, items)
    /\ dropped' = dropped \cup {item \in ToSet(items) : MatchTier(request, item) = "ineligible"}
    /\ stage' = "graded"
    /\ UNCHANGED <<retrievalVars, actors, quotes, shown, rateVars>>

SelectItems ==
    /\ stage = "graded"
    /\ shown' = Select(request, items, ResultLimit)
    /\ items' = <<>>
    /\ stage' = "done"
    /\ UNCHANGED <<retrievalVars, actors, quotes, dropped, rateVars>>

EvaluationStep ==
    \/ \E got \in Cached : Convert(got)
    \/ \E got \in Fetched : Convert(got)
    \/ \E got \in Unreachable : Convert(got)
    \/ ConvertRaises
    \/ MatchListing
    \/ RankStructured
    \/ \E answer \in DOMAIN Analyses : Ask(answer)
    \/ AskRaises
    \/ ScoreResolutions
    \/ FilterAndSort
    \/ GradeItems
    \/ SelectItems

(* What the retrieval leaves alone. *)
Retrieving(step) == step /\ UNCHANGED <<evaluationVars, rateVars>>

FromLiteApi(step) == Retrieving(step /\ UNCHANGED actors)

SearchNext ==
    \/ Retrieving(GetCandidates)
    \/ FromLiteApi(RetrievalStep)
    \/ FromLiteApi(DeadlinePasses)
    \/ FromLiteApi(ProviderStep)
    \/ Retrieving(ScrapingStep)
    \/ EvaluationStep
    \/ Tick

-----------------------------------------------------------------------------
(* What a listing's payload says, independently of how it is read and      *)
(* matched                                                                 *)

ToldPhrases(r, l) ==
    DOMAIN Phrases \cap
        CASE r.source = "liteapi" -> StatedPhrases(Hotels[l.of], l.offered)
          [] r.source = "apify" -> ItemPhrases(Items[l.of])
          [] OTHER -> ListingPhrases(Samples[l.of].listing)

Affirmed(r, l, f) == \E p \in ToldPhrases(r, l) : Hits(Phrases[p], f, "yes") # {} /\ Hits(Phrases[p], f, "no") = {}

Denied(r, l, f) == \E p \in ToldPhrases(r, l) : Hits(Phrases[p], f, "no") # {}

(* A text contrary to the requirement, for a field that is required or     *)
(* forbidden.                                                              *)
Contrary(r, l, f, priority) ==
    IF priority = "must" \/ f \in InvertedPolarityForbiddenFields THEN Denied(r, l, f) ELSE Affirmed(r, l, f)

(* What else its texts say of the field.  A second denial is one such      *)
(* thing: in other words it is found by other aliases, perhaps in another  *)
(* text, and two texts are taken for a conflict.                           *)
Disputed(r, l, f, priority) ==
    LET hits(p, side) == Hits(Phrases[p], f, side)
        naming == {p \in ToldPhrases(r, l) : hits(p, "yes") \cup hits(p, "no") # {}}
    IN  IF priority = "must" \/ f \in InvertedPolarityForbiddenFields
        THEN \E p, q \in naming : p # q /\ hits(p, "yes") # {}
        ELSE Denied(r, l, f)

BlockingFields(r) == UNION {KnownFields(r, {p}) \X {p} : p \in {"must", "forbidden"}}

Mentions(item, a) ==
    CASE a = "bedrooms" -> {m.count : m \in item.listing.bedrooms}
      [] a = "bathrooms" -> item.listing.bathrooms
      [] OTHER -> ExtractAreaCandidates(item.listing)

(* The counts speak by their largest, the sizes together. *)
Misses(r, item, a) ==
    LET fits == {x \in Mentions(item, a) : InRange(x, r.filters[a])}
    IN  IF a = "area_sqm" THEN Mentions(item, a) # {} /\ fits = {} ELSE fits # Mentions(item, a)

(* The stay's price is outside the budget, read per night or for the whole *)
(* stay, at rates that are current or the last ones known.                 *)
OutsideAs(r, item, scope) ==
    \E t \in ExtractTotalPrice(item.listing) :
        LET factor == IF scope = "per_night" THEN r.nights ELSE 1
            current(side) == IF NeedsRate(r.price, ExtractTotalPrice(item.listing))
                            THEN {q.quote : q \in {p \in item.quotes[side] : p.stale \/ p.age < TTL}}
                            ELSE {1}
        IN  \/ \E low \in r.price.min : \E q \in current("min") : t.amount * q < low * factor
            \/ \E high \in r.price.max : \E q \in current("max") : t.amount * q > high * factor

Scopes(r) == IF r.price.scope = "none" THEN {"per_night", "total_stay"} ELSE {r.price.scope}

OverBudget(r, item) == \A scope \in Scopes(r) : OutsideAs(r, item, scope)

(* The LLM was right to quote: a phrase the listing has, which is not the  *)
(* size of another part nor a feature merely seen with the requested one.  *)
QuotedIn(r, l, constraint, said, relations) ==
    \E s \in Analyses[said].signals :
        /\ s.relation \in relations
        /\ s.snippet # {}
        /\ s.snippet \subseteq ToldPhrases(r, l)
        /\ s.type # "associated_feature"
        /\ s.type = "measurement" =>
              \/ constraint.namesPart
              \/ \A p \in s.snippet : Phrases[p].areas = {} \/ \E a \in Phrases[p].areas : a.scope # "other"

Quoted(r, item, c, relations) ==
    c \in DOMAIN item.said /\ QuotedIn(r, item.listing, r.constraints[c], item.said[c], relations)

Against == {"contradicts", "weakly_contradicts"}
=============================================================================
