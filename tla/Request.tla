------------------------------- MODULE Request -------------------------------
(***************************************************************************)
(* How the SearchRequest of a session comes to be, message by message: the *)
(* router's call, the call that extracts a new search                      *)
(* (src/app/logic/intent_router.py), a change of it (intent_update.py) or  *)
(* a question of fact (factual_question_extraction.py), and the dates,     *)
(* requirements and budget the session is left with.  Calls fail as in     *)
(* LlmCalls, and the day changes while the user thinks.  Conversation has  *)
(* the rest of the turn, with this part of it chosen freely.               *)
(*                                                                         *)
(* A model gets what the user wants right except for what the code does    *)
(* not trust it with: the year of a date, the mapping of a requirement and *)
(* the price of a weekly or monthly rate.                                  *)
(***************************************************************************)
EXTENDS LlmCalls, IntentPatch

CONSTANTS
    Scenarios,      \* what a conversation is about: bounds what is said
    Raises,         \* [Scenarios -> sets of exceptions]
    Intents,        \* [Scenarios -> what a first message can say]
    Messages,       \* [Scenarios -> what a later message can say]
    Days,           \* [Scenarios -> bound: the days on which messages are sent]
    MaxTurns        \* bound: messages of a conversation

(* Of each date and of the number of nights a message has at most one.     *)
IsOptional(set) == \A x, y \in set : x = y

SaysAStay(said) ==
    /\ said.check_in \cup said.check_out \subseteq [year : Nat, day : Nat]
    /\ said.nights \subseteq Int
    /\ IsOptional(said.check_in) /\ IsOptional(said.check_out) /\ IsOptional(said.nights)

(* UserConstraint *)
Constraint == [text : STRING, raw : STRING,
               category : {"amenity", "policy", "location", "layout", "numeric", "property_type",
                           "occupancy", "other"},
               priority : {"must", "nice", "forbidden"}, known : BOOLEAN,
               fields : SUBSET STRING, strategy : {"structured", "textual", "none"}]

(* PriceConstraint *)
Budget == [min : SUBSET Int, max : SUBSET Int, scope : SUBSET {"per_night", "total_stay"}]

(* SearchFilters *)
HasFilters(filters) ==
    /\ filters \in [bedrooms_min : SUBSET Int, price : Budget]
    /\ IsOptional(filters.bedrooms_min)
    /\ \A side \in {"min", "max", "scope"} : IsOptional(filters.price[side])

(* What the schemas let a model say, and the marker of the rate it said it in. *)
IsMessage(said) ==
    /\ SaysAStay(said)
    /\ IsOptional(said.city)
    /\ HasFilters(said.filters)
    /\ said.add_constraints \in Seq(Constraint)
    /\ said.period \subseteq PeriodTexts

ASSUME RequestAssumption ==
    /\ Days \in [Scenarios -> SUBSET Nat] /\ MaxTurns \in Nat
    /\ Raises \in [Scenarios -> SUBSET Exceptions]
    /\ PeriodTexts \subseteq STRING
    /\ \A s \in Scenarios : \A said \in Intents[s] \cup Messages[s] : IsMessage(said)

VARIABLES
    scenario,   \* fixed in a behaviour
    today,      \* clock.today()
    turn,       \* messages so far
    search,     \* session.search_request; NoSearch before there is one
    base,       \* the request a message is applied to
    heard,      \* what the model took from the message, Nothing before that
    draft,      \* the request it became
    outcome     \* what becomes of the draft

vars == <<callVars, scenario, today, turn, search, base, heard, draft, outcome>>

Nothing == [check_in |-> {}, check_out |-> {}, nights |-> {}, written |-> [y \in {} |-> 0],
            clear_dates |-> FALSE, city |-> {}, clear_city |-> FALSE,
            filters |-> NoFilters, clear_filters |-> FALSE, period |-> {}, numbers |-> {},
            add_types |-> {}, remove_types |-> {}, add_constraints |-> <<>>, remove_texts |-> {}]
-----------------------------------------------------------------------------
Init ==
    /\ scenario \in Scenarios
    /\ today \in Days[scenario]
    /\ turn = 0
    /\ search = NoSearch /\ base = NoSearch /\ draft = NoSearch
    /\ heard = Nothing /\ outcome = "none"
    /\ stage = "idle" /\ attempt = 0 /\ raised = <<>> /\ recorded = <<>> /\ spent = 0

NextDay ==
    /\ stage = "idle"
    /\ today + 1 \in Days[scenario]
    /\ today' = today + 1
    /\ UNCHANGED <<callVars, scenario, turn, search, base, heard, draft, outcome>>

Receive ==
    /\ stage = "idle" /\ turn < MaxTurns
    /\ turn' = turn + 1
    /\ base' = search
    /\ StartCall("conversation_routing")
    /\ spent' = 0
    /\ UNCHANGED <<scenario, today, search, heard, draft, outcome>>

CallRaises ==
    /\ \E e \in Raises[scenario] : AttemptFails(e) \/ CallFails(e)
    /\ UNCHANGED <<scenario, today, turn, search, base, heard, draft, outcome>>

(* The router answers; a change or a question needs a search.              *)
Route ==
    /\ stage = "conversation_routing"
    /\ CallAnswers
    /\ \E next \in Stages :
         /\ next # "search_intent_extraction" => search # NoSearch
         /\ StartCall(next)
    /\ UNCHANGED <<scenario, today, turn, search, base, heard, draft, outcome>>

(* A call of the turn is answered, with `said`, and the turn goes on.      *)
Answered(said) ==
    /\ CallAnswers
    /\ heard' = said
    /\ UNCHANGED <<attempt, raised, recorded, scenario, today, turn, search>>

(* extract_factual_constraints_async: the facts never reach the search.    *)
AnswerFacts ==
    /\ stage = "factual_question_extraction"
    /\ Answered(Nothing)
    /\ draft' = search
    /\ outcome' = "answered"
    /\ stage' = "decided"
    /\ UNCHANGED base

(* build_search_request_adk_async: a stay that cannot be is left out of    *)
(* the request, and asked for.                                             *)
StartSearch(said) ==
    LET stay == ResolveStayDates(said, today, {})
        intent == [made |-> TRUE, city |-> said.city, check_in |-> stay.check_in, check_out |-> stay.check_out,
                   filters |-> said.filters, types |-> said.add_types,
                   constraints |-> Honest(said.add_constraints)]
        request == GuardPeriodBudget(intent, said, NoPrice)
    IN /\ Answered(said)
       /\ base' = NoSearch
       /\ draft' = request
       /\ outcome' = IF stay.issue # "none" THEN "dates_refused"
                     ELSE IF NeedClarification(request) THEN "asked" ELSE "searched"
       /\ stage' = "decided"

(* normalize_patch_dates                                                   *)
PatchStay(said) ==
    ResolveStayDates(said, today, IF said.check_in # {} THEN {} ELSE base.check_in)

(* apply_intent_patch does not validate.                                   *)
Reversed(state) ==
    \E from \in state.check_in, to \in state.check_out : to <= from

(* The whole message is refused, and the search stays what it was.         *)
RefuseUpdate ==
    /\ draft' = search
    /\ outcome' = "dates_refused"
    /\ stage' = "decided"

UpdateSearch(request) ==
    /\ stage = "search_state_update"
    /\ draft' = request
    /\ outcome' = IF request = search THEN "no_op"
                  ELSE IF NeedClarification(request) THEN "asked" ELSE "searched"
    /\ stage' = "decided"

(* _apply_clarified_search_update: the message that was asked about first, *)
(* then the user's reply as an update on top of it.                        *)
UpdateClarified(request) ==
    /\ stage = "clarification_update"
    /\ draft' = request
    /\ outcome' = "none"
    /\ stage' = "replying"

(* update_search_state_async on `base`                                     *)
Update(said) ==
    LET stay == PatchStay(said)
        request == GuardPeriodBudget(ApplyIntentPatch(base, said, stay), said, base.filters.price)
    IN /\ Answered(said)
       /\ UNCHANGED base
       /\ IF stay.issue # "none" \/ Reversed(request) THEN RefuseUpdate
          ELSE UpdateSearch(request) \/ UpdateClarified(request)

(* The call that extracts something answers.                               *)
Extract ==
    \/ stage = "search_intent_extraction" /\ \E said \in Intents[scenario] : StartSearch(said)
    \/ /\ stage \in {"search_state_update", "clarification_update"}
       /\ \E said \in Messages[scenario] : Update(said)

ReplyToClarification ==
    /\ stage = "replying"
    /\ base' = draft
    /\ StartCall("search_state_update")
    /\ heard' = Nothing /\ draft' = NoSearch
    /\ UNCHANGED <<spent, scenario, today, turn, search, outcome>>

(* The session keeps the request; the one before when a call failed, or    *)
(* the retrieval of a request that was searched.                           *)
EndTurn ==
    /\ stage \in {"decided", "failed", "crashed"}
    /\ \/ stage = "decided" /\ search' = draft
       \/ (stage # "decided" \/ outcome = "searched") /\ search' = search
    /\ stage' = "idle" /\ attempt' = 0 /\ raised' = <<>> /\ recorded' = <<>> /\ spent' = 0
    /\ base' = NoSearch /\ draft' = NoSearch /\ heard' = Nothing /\ outcome' = "none"
    /\ UNCHANGED <<scenario, today, turn>>

Next == NextDay \/ Receive \/ CallRaises \/ Route \/ AnswerFacts \/ Extract
        \/ ReplyToClarification \/ EndTurn

Spec == Init /\ [][Next]_vars
-----------------------------------------------------------------------------
(* Type invariant.                                                         *)
IsSearch(s) ==
    /\ DOMAIN s = DOMAIN NoSearch
    /\ ~s.made => s = NoSearch
    /\ IsOptional(s.city) /\ IsOptional(s.check_in) /\ IsOptional(s.check_out)
    /\ s.check_in \cup s.check_out \subseteq Nat
    /\ HasFilters(s.filters)
    /\ s.constraints \in Seq(Constraint)

(* Every request is a SearchRequest: its optional parts have one value or  *)
(* none, its dates are days, and its constraints the schema's.             *)
TypeOK ==
    /\ stage \in Calls \cup {"idle", "decided", "replying", "failed", "crashed"}
    /\ today \in Days[scenario] /\ turn \in 0..MaxTurns
    /\ \A s \in {search, base, draft} : IsSearch(s)
    /\ outcome \in {"none", "answered", "dates_refused", "asked", "searched", "no_op"}
    /\ attempt \in Nat /\ spent \in Nat

(* A message has just been applied to `base`.                              *)
Applied ==
    /\ stage \in {"decided", "replying"}
    /\ outcome \notin {"answered", "dates_refused"}
-----------------------------------------------------------------------------
InOnly(said) == said.check_in # {} /\ said.check_out = {}

Honours(date, said, stated) ==
    \A raw \in said : \E day \in date : DayOf(day) = raw.day /\ (stated => YearOf(day) = raw.year)

(* The stay of the request is the one the user gave, whatever year the     *)
(* model wrote: each date keeps its place in the year and a year the user  *)
(* wrote; a date without one is the next such day, within a season of the  *)
(* check-in; it is not in the past and ends after it starts; nights count  *)
(* when no check-out is given; what was not mentioned is not moved, except *)
(* for the end of a stay whose start moves; and a new search never assumes *)
(* how long the stay is.                                                   *)
StayAsStated ==
    Applied =>
      LET before == IF heard.clear_dates THEN NoSearch ELSE base
          starting == base = NoSearch
      IN /\ \A from \in draft.check_in, to \in draft.check_out : from < to
         /\ Honours(draft.check_in, heard.check_in, CheckInYearStated(heard))
         /\ Honours(draft.check_out, heard.check_out, CheckOutYearStated(heard))
         /\ heard.check_in # {} => \A day \in draft.check_in : today <= day
         /\ heard.check_out # {} => \A day \in draft.check_out : today < day
         /\ heard.check_out # {} /\ ~CheckOutYearStated(heard) =>
              \A from \in draft.check_in, to \in draft.check_out :
                 YearOf(to) = YearOf(from) \/ to - from <= MaxInferred
         /\ heard.nights # {} /\ heard.check_out = {} /\ (InOnly(heard) \/ ~starting) =>
              \A from \in draft.check_in : draft.check_out = {from + n : n \in heard.nights}
         /\ heard.check_in = {} => draft.check_in = before.check_in
         /\ heard.nights = {} /\ heard.check_in = {} /\ heard.check_out = {} =>
              draft.check_out = before.check_out
         /\ starting /\ InOnly(heard) /\ heard.nights = {} => draft.check_out = {}
-----------------------------------------------------------------------------
Keys(list) == {SemanticKey(list[i]) : i \in DOMAIN list}
Having(list, key) == {list[i] : i \in {i \in DOMAIN list : SemanticKey(list[i]) = key}}
Strongest(set) == CHOOSE p \in {c.priority : c \in set} :
                     \A c \in set : PriorityRank(c.priority) <= PriorityRank(p)
CanBeChecked(set) == \E c \in set : c.known /\ c.fields # {}

ConstraintsAsStated(kept, said) ==
    /\ \A i, j \in DOMAIN draft.constraints :
         SemanticKey(draft.constraints[i]) = SemanticKey(draft.constraints[j]) => i = j
    /\ \A key \in Keys(kept) \cup Keys(said) :
         LET latest == IF key \in Keys(said) THEN Having(said, key) ELSE Having(kept, key) IN
         \E c \in Having(draft.constraints, key) :
            /\ c.priority = Strongest(latest)
            /\ CanBeChecked(Having(kept, key) \cup Having(said, key)) => CanBeChecked({c})
    /\ \A i \in DOMAIN draft.constraints :
         \/ SemanticKey(draft.constraints[i]) \in Keys(kept) \cup Keys(said)
         \/ draft.constraints[i].text \in heard.period

(* No amount comes from a weekly or monthly rate, a budget given in one is *)
(* asked for before anything is searched, and an amount or a scope stated  *)
(* before is not lost to a message that does not change it.                *)
BudgetAsStated ==
    LET now == draft.filters.price
        earlier == IF heard.clear_filters THEN NoPrice ELSE base.filters.price
    IN /\ heard.period # {} =>
            /\ now \in {earlier, base.filters.price} \/ Amounts(now) \subseteq heard.numbers
            /\ Amounts(now) = {} => outcome # "searched"
       /\ heard.period = {} =>
            \A side \in DOMAIN now :
               now[side] = IF heard.filters.price[side] = {} THEN earlier[side]
                           ELSE heard.filters.price[side]

(* What is required after an update is what the user last said: one        *)
(* requirement per meaning, with the priority of the latest wording, be it *)
(* stronger or weaker; what was neither taken back nor restated is still   *)
(* there, and a requirement that could be checked against a field still    *)
(* can; nothing else has appeared; and so for the budget.                  *)
RequirementsAsStated ==
    Applied =>
      /\ base # NoSearch =>
           ConstraintsAsStated(RemoveByText(base.constraints, heard.remove_texts),
                               Honest(heard.add_constraints))
      /\ BudgetAsStated
===============================================================================
