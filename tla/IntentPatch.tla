----------------------------- MODULE IntentPatch -----------------------------
(***************************************************************************)
(* What a message changes in a SearchRequest: apply_intent_patch.py with   *)
(* the guard of budget_period.py, and what request_resolution.py then has  *)
(* to ask.                                                                 *)
(*                                                                         *)
(* A search: [made, city, check_in, check_out,                             *)
(* filters: [bedrooms_min, price], types, constraints], made unless there  *)
(* is none; a constraint:                                                  *)
(*   [text, raw, category, priority, known, fields, strategy],             *)
(* where `text` is its normalized text and `raw` the user's words.  An     *)
(* optional value is a set with at most one element; filters without a     *)
(* value are those of None.  bedrooms_min stands for the bounds on size    *)
(* and `types` for the property and the occupancy types; the guests and    *)
(* the currency are left out, and the order of types, which no one reads   *)
(* here.                                                                   *)
(***************************************************************************)
EXTENDS StayDates, Selection

CONSTANTS
    MealPlans,      \* normalized texts that name a meal plan
    PeriodTexts     \* PERIOD_BUDGET_TEXTS: the texts of a rate's marker

NoPrice == [min |-> {}, max |-> {}, scope |-> {}]
NoFilters == [bedrooms_min |-> {}, price |-> NoPrice]
NoSearch == [made |-> FALSE, city |-> {}, check_in |-> {}, check_out |-> {},
             filters |-> NoFilters, types |-> {}, constraints |-> <<>>]
-----------------------------------------------------------------------------
(* Constraints.                                                            *)

SlotBacked == {"property_type", "occupancy", "numeric"}

Unresolved(c) == [c EXCEPT !.known = FALSE, !.fields = {}, !.strategy = "textual"]

(* UserConstraint._keep_mapping_honest, on every constraint a model gives. *)
KeepMappingHonest(c) ==
    IF c.category \in SlotBacked THEN c
    ELSE IF \/ c.fields # {} /\ c.text \in MealPlans
            \/ c.known /\ c.fields = {}
         THEN Unresolved(c) ELSE c

(* _semantic_constraint_key, by which duplicates are found.                *)
SemanticKey(c) == <<c.text, c.category>>

NormalizeConsistency(c) ==
    IF c.known /\ c.fields = {} THEN Unresolved(c) ELSE c

PriorityRank(priority) ==
    CASE priority = "forbidden" -> 3 [] priority = "must" -> 2 [] priority = "nice" -> 1

Stronger(p, q) == IF PriorityRank(q) >= PriorityRank(p) THEN q ELSE p

(* Mutant: the stronger of the two priorities, also for a restatement.     *)
MergeDuplicateStronger(current, incoming, setsPriority) ==
    [current EXCEPT !.raw = incoming.raw,
                    !.priority = Stronger(@, incoming.priority)]

(* _merge_duplicate_constraint: a mapping that says which fields it means  *)
(* wins, the newer one first.                                              *)
MergeDuplicate(current, incoming, setsPriority) ==
    LET Mapped(c) == NormalizeConsistency(c).known
        mapping == IF Mapped(incoming) THEN incoming
                   ELSE IF Mapped(current) THEN current ELSE Unresolved(current)
    IN [current EXCEPT
          !.raw = incoming.raw,
          !.priority = IF setsPriority THEN incoming.priority
                       ELSE Stronger(@, incoming.priority),
          !.known = mapping.known, !.fields = mapping.fields, !.strategy = mapping.strategy]

(* One constraint joins a list: in the place of the one it restates, or    *)
(* at the end.                                                             *)
Put(list, c, setsPriority) ==
    IF \E i \in DOMAIN list : SemanticKey(list[i]) = SemanticKey(c)
    THEN [i \in DOMAIN list |-> IF SemanticKey(list[i]) = SemanticKey(c)
                                THEN MergeDuplicate(list[i], c, setsPriority) ELSE list[i]]
    ELSE Append(list, c)

PutAll(list, added, setsPriority) ==
    LET put[n \in 0 .. Len(added)] ==
            IF n = 0 THEN list ELSE Put(put[n - 1], added[n], setsPriority)
    IN  put[Len(added)]

(* _dedupe_constraints                                                     *)
Dedupe(list) ==
    PutAll(<<>>, [i \in DOMAIN list |-> NormalizeConsistency(list[i])], FALSE)

(* _apply_constraint_updates                                               *)
ApplyConstraintUpdates(current, incoming) ==
    PutAll(Dedupe(current), Dedupe(incoming), TRUE)

(* _remove_constraints_by_text                                             *)
RemoveByText(list, texts) ==
    Kept(list, {i \in DOMAIN list : {list[i].raw, list[i].text} \cap texts = {}})
-----------------------------------------------------------------------------
(* Filters.  Each value that was said replaces the one before it.          *)

(* Mutant: the amounts there were stay beside the new ones.                *)
MergePriceBoth(current, incoming) ==
    [side \in DOMAIN current |-> current[side] \cup incoming[side]]

MergePrice(current, incoming) ==
    [side \in DOMAIN current |-> Or(incoming[side], current[side])]

MergeFilters(current, incoming) ==
    [bedrooms_min |-> Or(incoming.bedrooms_min, current.bedrooms_min),
     price |-> MergePrice(current.price, incoming.price)]

Amounts(price) == price.min \cup price.max

(* The words of a weekly or monthly rate, or a marker left for one.        *)
IsPeriodBudget(c) == {c.text, c.raw} \cap PeriodTexts # {}

Marker(rate) ==
    [text |-> rate, raw |-> rate, category |-> "numeric", priority |-> "must",
     known |-> TRUE, fields |-> {}, strategy |-> "none"]

(* Of a price that is new: an amount the user did not write outside the    *)
(* rate, or none at all.                                                   *)
DropsPrice(price, said, previous) ==
    /\ price # NoPrice /\ price # previous
    /\ Amounts(price) = {} \/ ~ (Amounts(price) \subseteq said.numbers)

(* guard_period_budget; said.period is the marker's text of a rate the     *)
(* message has, said.numbers the numbers it has elsewhere.                 *)
GuardPeriodBudget(state, said, previous) ==
    LET price == IF DropsPrice(state.filters.price, said, previous) THEN NoPrice
                 ELSE state.filters.price
        marked == \E i \in DOMAIN state.constraints : IsPeriodBudget(state.constraints[i])
    IN IF said.period = {} THEN state
       ELSE [state EXCEPT
               !.filters.price = price,
               !.constraints = IF Amounts(price) = {} /\ ~marked
                               THEN Append(@, Marker(The(said.period))) ELSE @]
-----------------------------------------------------------------------------
(* apply_intent_patch                                                      *)

(* Mutant: nights alone are added to the stay there is.                    *)
ApplyDatesExtending(state, said, stay) ==
    [check_in |-> Or(stay.check_in, state.check_in),
     check_out |-> IF stay.check_out # {} THEN stay.check_out
                   ELSE {day + n : day \in state.check_out, n \in said.nights}]

(* The dates of the search after `stay`, the dates of the message as       *)
(* normalize_patch_dates leaves them: a new check-in without an end is a   *)
(* stay of one night, and a number of nights alone counts from the         *)
(* check-in there is.                                                      *)
ApplyDates(state, said, stay) ==
    LET before == IF said.clear_dates THEN NoSearch ELSE state
        check_in == Or(stay.check_in, before.check_in)
    IN [check_in |-> check_in,
        check_out |->
            IF stay.check_out # {} THEN stay.check_out
            ELSE IF stay.check_in # {} THEN {day + 1 : day \in check_in}
            ELSE IF said.nights # {} /\ check_in # {}
                 THEN {day + n : day \in check_in, n \in said.nights}
            ELSE before.check_out]

(* What a model may list is what the schema makes of it.                   *)
Honest(list) == [i \in DOMAIN list |-> KeepMappingHonest(list[i])]

ApplyIntentPatch(state, said, stay) ==
    LET dates == ApplyDates(state, said, stay) IN
    [made |-> TRUE,
     city |-> IF said.city # {} THEN said.city
              ELSE IF said.clear_city THEN {} ELSE state.city,
     check_in |-> dates.check_in,
     check_out |-> dates.check_out,
     filters |-> MergeFilters(IF said.clear_filters THEN NoFilters ELSE state.filters,
                              said.filters),
     types |-> (state.types \ said.remove_types) \cup said.add_types,
     constraints |-> ApplyConstraintUpdates(
                         RemoveByText(state.constraints, said.remove_texts),
                         Honest(said.add_constraints))]
-----------------------------------------------------------------------------
(* resolve_required_search_context: what has to be asked before a search.  *)

AskDates(state) ==
    \/ state.check_in = {} \/ state.check_out = {}
    \/ The(state.check_out) <= The(state.check_in)

(* _ambiguous_budget_question                                              *)
AskBudget(state) ==
    LET price == state.filters.price
        nights == The(state.check_out) - The(state.check_in)
        marked == \E i \in DOMAIN state.constraints : IsPeriodBudget(state.constraints[i])
    IN IF Amounts(price) = {} THEN marked ELSE price.scope = {} /\ nights > 1

NeedClarification(state) == state.city = {} \/ AskDates(state) \/ AskBudget(state)
===============================================================================
