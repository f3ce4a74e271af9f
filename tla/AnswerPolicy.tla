---------------------------- MODULE AnswerPolicy ----------------------------
(***************************************************************************)
(* What the user is told: of a shown item, its card                        *)
(* (normalize_search_response.py, build_answer_payload.py) and the rows of *)
(* the deterministic text (answer_generation.py); of a failure, the fixed  *)
(* message (conversation_flow.py); of a question about shown listings, the *)
(* verdict on each fact (result_query_matching.py).                        *)
(***************************************************************************)
EXTENDS ListingPolicy

-----------------------------------------------------------------------------
(* Cards *)

(* Mutant: the limit of a budget per night is compared as it is. *)
BudgetTotalPerNight(price, nights) == price.max

(* _collect_facts: budget_total_derived; without a scope there is none. *)
BudgetTotal(price, nights) ==
    CASE price.scope = "per_night" -> {high * nights : high \in price.max}
      [] price.scope = "total_stay" -> price.max
      [] OTHER -> {}

(* _build_budget_summary: the amounts are compared without their           *)
(* currencies.                                                             *)
BudgetStatus(price, nights, total) ==
    LET limits == BudgetTotal(price, nights)
    IN  CASE limits = {} \/ total = {} \/ price.currency = "none" -> "none"
          [] OTHER -> IF \E limit \in limits, t \in total : t.amount > limit
                      THEN "over_budget" ELSE "within_budget"

(* _split_requested_vs_derived: a status of a constraint is requested, one *)
(* of a number derived.                                                    *)
RequestedStatuses(r, item) ==
    [c \in {d \in Positions(r) : ShownStatus(r, item, d) # {}} |-> CHOOSE s \in ShownStatus(r, item, c) : TRUE]

DerivedStatuses(item) == [a \in DOMAIN item.numeric |-> Status(item.numeric[a])]

(* _build_answer_constraint_sections: those with an entry. *)
AnswerSections(requested, derived) == {requested[c] : c \in DOMAIN requested} \cup {derived[a] : a \in DOMAIN derived}

(* Mutant: what needs confirmation does not count against the label. *)
VerdictOfFailures(tier, statuses) ==
    CASE tier = "strong" -> IF "failed" \in statuses THEN "strong_match_with_caveats" ELSE "fully_confirmed_match"
      [] tier = "partial" -> "partially_confirmed_match"
      [] OTHER -> "relevant_option"

(* _build_result_verdict *)
ResultVerdict(tier, statuses) ==
    CASE tier = "strong" -> IF statuses \subseteq {"matched"} THEN "fully_confirmed_match" ELSE "strong_match_with_caveats"
      [] tier = "partial" -> "partially_confirmed_match"
      [] OTHER -> "relevant_option"

(* The k-th of top_results, the card made of it. *)
AnswerCard(r, item, k) ==
    LET requested == RequestedStatuses(r, item)
        derived == DerivedStatuses(item)
    IN  [result_id |-> item.listing.id,
         position  |-> k,
         label     |-> ResultVerdict(item.tier, AnswerSections(requested, derived)),
         requested |-> requested,
         derived   |-> derived,
         total     |-> item.listing.total,
         budget    |-> BudgetStatus(r.price, r.nights, item.listing.total)]

-----------------------------------------------------------------------------
(* Texts *)

(* Mutant: the text stops at what is confirmed. *)
FormatTopResultConfirmed(card) ==
    [label |-> card.label, total |-> card.total,
     requested |-> [c \in {d \in DOMAIN card.requested : card.requested[d] = "matched"} |-> card.requested[c]],
     derived |-> card.derived]

(* _format_top_result: the budget has no row of its own. *)
FormatTopResult(card) ==
    [label |-> card.label, total |-> card.total, requested |-> card.requested,
     derived |-> [a \in DOMAIN card.derived \ {"price_total"} |-> card.derived[a]]]

(* build_user_answer: no row at all for "couldn't find suitable options". *)
UserAnswer(top) == [k \in DOMAIN top |-> FormatTopResult(top[k])]

(* _stage_failure_answer of the retrieval: the retriever's own message     *)
(* where it has one, and no invitation to try again where it cannot help.  *)
StageFailureAnswer(code) ==
    CASE code \in {"unsupported_destination", "unsupported_request"} -> code
      [] code \in {"configuration_error", "authentication_error"} -> "not_configured"
      [] OTHER -> "retrieval_unavailable"

-----------------------------------------------------------------------------
(* Facts asked about a listing.  A fact is a constraint. *)

ByField(fact) == fact.known /\ fact.fields # <<>>

(* The structured matches of _match_candidate_constraints. *)
FactMatches(l, facts) ==
    [f \in {Head(facts[i].fields) : i \in {j \in DOMAIN facts : ByField(facts[j])}} |-> MatchField(l.signals, f)]

(* What goes to the fallback, whatever its priority (must_only is off). *)
ForText(facts, matches, limit) ==
    LET open == {i \in DOMAIN facts : OpenForText(facts[i], matches)}
    IN  {i \in open : Cardinality({j \in open : j < i}) < limit}

(* The fallback's verdict where there is one. *)
FactVerdict(fact, matches, decisions) ==
    CASE decisions # {} -> CHOOSE d \in decisions : TRUE
      [] decisions = {} /\ ByField(fact) -> matches[Head(fact.fields)]
      [] OTHER -> "UNCERTAIN"

(* _verdict_sentence, _SHORT_VERDICT *)
VerdictSentence(value) == CASE value = "YES" -> "has" [] value = "NO" -> "has not" [] OTHER -> "not confirmed"
=============================================================================
