---------------------------- MODULE Conversation ----------------------------
(***************************************************************************)
(* One conversation: what handle_user_message                              *)
(* (src/app/logic/conversation_flow.py) does to a session with one message *)
(* after another, and when conversation_service.py stores it.  A turn is   *)
(* several steps, one per awaited stage; each stage can fail in the ways   *)
(* the code tells apart, and an unexpected exception ends the turn at any  *)
(* of them.  ChatApi shows that turns of one session do not overlap.       *)
(*                                                                         *)
(* What models answer is chosen freely: any routing decision the output    *)
(* schema admits, any outcome of an extraction.  A message is its number;  *)
(* a SearchRequest is the set of messages whose requirements it carries    *)
(* and whether resolve_required_search_context has nothing to ask about it.*)
(***************************************************************************)
EXTENDS Integers, FiniteSets

CONSTANTS
    Listings,       \* listings a search can show
    Unknown,        \* a result_id of no listing: what a model may invent
    MaxTurns,       \* bound: messages the user sends
    NoSearch, NoResults, NoPending, NoContext, NoTarget, NoDraft, NoResult

Messages == 1..MaxTurns

ASSUME ConversationAssumption ==
    /\ MaxTurns \in Nat
    /\ Unknown \notin Listings /\ NoTarget \notin Listings
    /\ NoSearch \notin [from: SUBSET Messages, complete: BOOLEAN]
    /\ NoResults \notin [id: Messages, items: SUBSET Listings,
                         of: [from: SUBSET Messages, complete: BOOLEAN]]

VARIABLES
    search,      \* session.search_request
    shown,       \* session.shown_result_set
    pending,     \* session.pending_clarification
    context,     \* session.discourse_context
    discourse,   \* TurnConfig.discourse_context, the experiment's flag
    turn,        \* the message being processed, or the last one that was
    stage,       \* what the turn awaits
    resolved,    \* what became of the pending clarification this turn
    targets,     \* the shown listings a listing question is about
    draft,       \* the SearchRequest being built
    result,      \* what handle_user_message returns
    closed       \* history: messages whose pending clarification was decided

session == <<search, shown, pending, context>>
vars == <<session, discourse, turn, stage, resolved, targets, draft, result,
          closed>>
-----------------------------------------------------------------------------
Contract == INSTANCE TurnContract

Search == Contract!Search
Results == Contract!Results
Question == Contract!Question
Context == [set: Messages, ids: SUBSET Listings]

(* A decision of the router; "none" stands for an output without           *)
(* pending_resolution.                                                     *)
Actions == {"start_search", "update_search", "listing_question", "general_chat"}
Decision ==
    [action: Actions,
     status: {"resolved", "needs_clarification"},
     reason: {"none", "ambiguous_action", "ambiguous_reference"},
     scope: {"not_applicable", "current_results", "specific_result"},
     target: Listings \cup {Unknown, NoTarget},
     resolution: {"none", "continue_pending", "cancel_pending", "unresolved",
                  "new_request"}]

Failure == {"routing_unavailable", "processing_unavailable"}
Kinds == Failure \cup {"clarification", "cancelled", "general_chat",
                       "listing_query_result", "listing_query_unsupported",
                       "update_no_op", "search"}
Result == [kind: Kinds, state: Search \cup {NoSearch},
           shown: Results \cup {NoResults},
           pending: Question \cup {NoPending}, context: Context \cup {NoContext}]

ShownItems == IF shown = NoResults THEN {} ELSE shown.items
-----------------------------------------------------------------------------
(* clarification_continuation.py                                           *)

(* build_pending_clarification                                             *)
NewPending(reason, withReference) ==
    LET asked == [kind |-> reason, message |-> turn, set |-> shown.id] IN
    IF ShownItems = {} THEN NoPending
    ELSE IF reason = "ambiguous_reference" /\ withReference THEN asked
    ELSE IF reason = "ambiguous_action" /\ search # NoSearch THEN asked
    ELSE NoPending

PossibleActions(q) ==
    IF q.kind = "ambiguous_reference" THEN {"listing_question"}
    ELSE {"update_search", "listing_question"}

(* The router says the message answers the question: the decision has to   *)
(* be one that an answer can be.                                           *)
Continues(d) ==
    /\ d.status = "resolved"
    /\ d.action \in PossibleActions(pending)
    /\ pending.kind = "ambiguous_reference" => d.scope # "not_applicable"

(* resolve_reference_transition for an open reference in the experiment,   *)
(* resolve_pending_transition otherwise.                                   *)
Transition(d) ==
    CASE d.resolution = "new_request" -> "supersede"
      [] d.resolution = "cancel_pending" ->
            IF d.action = "general_chat" /\ d.status = "resolved"
            THEN "cancel" ELSE "keep"
      [] d.resolution = "unresolved" -> "keep"
      [] d.resolution = "continue_pending" ->
            IF pending.kind = "ambiguous_reference" /\ ~discourse
            THEN "supersede"
            ELSE IF Continues(d) THEN "continue" ELSE "keep"
-----------------------------------------------------------------------------
(* The discourse context a turn may use, and the one it leaves.            *)
ValidContext ==
    IF /\ discourse /\ context # NoContext /\ shown # NoResults
       /\ context.set = shown.id /\ context.ids \subseteq shown.items
    THEN context ELSE NoContext

(* Mutant: every turn keeps the context.                                   *)
NextContextKept(kind, state) == IF discourse THEN context ELSE NoContext

(* Mutant: a failed turn drops the context, as a new task does.            *)
NextContextCleared(kind, state) ==
    IF /\ discourse /\ state = search
       /\ kind \in {"clarification", "listing_query_unsupported"}
    THEN ValidContext ELSE NoContext

NextContext(kind, state) ==
    IF ~discourse THEN NoContext
    ELSE IF \/ kind \in Failure
            \/ /\ kind \in {"clarification", "listing_query_unsupported"}
               /\ state = search
    THEN ValidContext
    ELSE NoContext

(* handle_user_message returns: `results` is the stored set when the       *)
(* result has no "shown_result_set".                                       *)
Reply(kind, state, results, question) ==
    /\ stage' = "responding"
    /\ result' = [kind |-> kind, state |-> state, shown |-> results,
                  pending |-> question, context |-> NextContext(kind, state)]
    /\ UNCHANGED <<session, discourse, turn, closed>>

(* A turn that leaves search and results alone.                            *)
ReplyReadOnly(kind, question) == Reply(kind, search, shown, question)

(* The first awaited stage of a decision that is carried out.              *)
Await(next) ==
    /\ stage' = next
    /\ UNCHANGED <<session, discourse, turn, result, closed>>
-----------------------------------------------------------------------------
Init ==
    /\ search = NoSearch
    /\ shown = NoResults
    /\ pending = NoPending
    /\ context = NoContext
    /\ discourse \in BOOLEAN
    /\ turn = 0
    /\ stage = "idle"
    /\ resolved = "none"
    /\ targets = {}
    /\ draft = NoDraft
    /\ result = NoResult
    /\ closed = {}

Begin ==
    /\ stage = "idle"
    /\ turn < MaxTurns
    /\ turn' = turn + 1
    /\ stage' = "routing"
    /\ UNCHANGED <<session, discourse, resolved, targets, draft, result, closed>>

(* ConversationRoutingError, or a decision that does not say what becomes  *)
(* of the open question: nothing was decided, and the question stays open. *)
RoutingUnavailable ==
    /\ stage = "routing"
    /\ ReplyReadOnly("routing_unavailable", pending)
    /\ UNCHANGED <<resolved, targets, draft>>

Routed(d) ==
    /\ stage = "routing"
    /\ d.resolution = "none" <=> pending = NoPending

Cancel(d) ==
    /\ Routed(d) /\ pending # NoPending
    /\ Transition(d) = "cancel"
    /\ resolved' = "cancel"
    /\ ReplyReadOnly("cancelled", NoPending)
    /\ UNCHANGED <<targets, draft>>

Keep(d) ==
    /\ Routed(d) /\ pending # NoPending
    /\ Transition(d) = "keep"
    /\ resolved' = "keep"
    /\ ReplyReadOnly("clarification", pending)
    /\ UNCHANGED <<targets, draft>>

(* _resolve_target_reference does not believe the router.                  *)
Unresolvable(d) ==
    d.scope = "specific_result" /\ d.target \notin ShownItems

(* The results the question was about are not the stored ones.             *)
Stale == shown = NoResults \/ ShownItems = {} \/ shown.id # pending.set

(* The answer picks the shown listings, but not the ones that were asked   *)
(* about (the question is dropped), or one that is not there (it is asked  *)
(* which one, and the question stays open).                                *)
CannotContinue(d) ==
    /\ Routed(d) /\ pending # NoPending
    /\ Transition(d) = "continue"
    /\ d.action = "listing_question"
    /\ Stale \/ Unresolvable(d)
    /\ resolved' = IF Stale THEN "continue" ELSE "keep"
    /\ ReplyReadOnly("clarification", IF Stale THEN NoPending ELSE pending)
    /\ UNCHANGED <<targets, draft>>

How(d) == IF pending = NoPending THEN "none" ELSE Transition(d)

(* The decision goes to _execute_decision.                                 *)
Executes(d) ==
    /\ Routed(d)
    /\ How(d) \in {"none", "supersede", "continue"}
    /\ (How(d) = "continue" /\ d.action = "listing_question")
            => ~Stale /\ ~Unresolvable(d)
    /\ resolved' = How(d)

(* _continuation_decision                                                  *)
Scope(d) ==
    IF How(d) = "continue" /\ d.scope = "not_applicable" THEN "current_results"
    ELSE d.scope

Abstain(d) ==
    /\ Executes(d)
    /\ d.status = "needs_clarification"
    /\ ReplyReadOnly("clarification",
            NewPending(IF d.reason = "none" THEN "ambiguous_action" ELSE d.reason,
                       discourse /\ d.action = "listing_question"))
    /\ UNCHANGED <<targets, draft>>

(* The router resolved the message to a listing that is not shown.         *)
WhichListing(d) ==
    /\ Executes(d)
    /\ d.status = "resolved" /\ d.action = "listing_question"
    /\ Unresolvable(d)
    /\ ReplyReadOnly("clarification",
            NewPending("ambiguous_reference", discourse /\ How(d) # "continue"))
    /\ UNCHANGED <<targets, draft>>

(* select_shown_candidates                                                 *)
Candidates(d) ==
    CASE Scope(d) = "current_results" -> ShownItems
      [] Scope(d) = "specific_result" -> {d.target} \cap ShownItems
      [] Scope(d) = "not_applicable" -> {}

NothingToCheck(d) ==
    /\ Executes(d)
    /\ d.status = "resolved" /\ d.action = "listing_question"
    /\ ~Unresolvable(d)
    /\ Candidates(d) = {}
    /\ ReplyReadOnly("clarification", NoPending)
    /\ UNCHANGED <<targets, draft>>

(* Mutant: nothing to check is not noticed.                                *)
AskNoListings(d) ==
    /\ Executes(d)
    /\ d.status = "resolved" /\ d.action = "listing_question"
    /\ ~Unresolvable(d)
    /\ targets' = Candidates(d)
    /\ Await("extracting")
    /\ UNCHANGED draft

AskListings(d) ==
    /\ Executes(d)
    /\ d.status = "resolved" /\ d.action = "listing_question"
    /\ ~Unresolvable(d)
    /\ Candidates(d) # {}
    /\ targets' = Candidates(d)
    /\ Await("extracting")
    /\ UNCHANGED draft

Chat(d) ==
    /\ Executes(d)
    /\ d.status = "resolved" /\ d.action = "general_chat"
    /\ ReplyReadOnly("general_chat", NoPending)
    /\ UNCHANGED <<targets, draft>>

(* An update without a search to update starts one.                        *)
StartSearch(d) ==
    /\ Executes(d)
    /\ d.status = "resolved"
    /\ \/ d.action = "start_search"
       \/ d.action = "update_search" /\ search = NoSearch
    /\ Await("starting")
    /\ UNCHANGED <<targets, draft>>

(* Mutant: a superseded request is replayed like a continued one.          *)
UpdateSearchReplaying(d) ==
    /\ Executes(d)
    /\ d.status = "resolved" /\ d.action = "update_search"
    /\ search # NoSearch
    /\ draft' = search
    /\ Await(IF pending # NoPending THEN "updating_original" ELSE "updating")
    /\ UNCHANGED targets

UpdateSearch(d) ==
    /\ Executes(d)
    /\ d.status = "resolved" /\ d.action = "update_search"
    /\ search # NoSearch
    /\ draft' = search
    /\ Await(IF How(d) = "continue" THEN "updating_original" ELSE "updating")
    /\ UNCHANGED targets
-----------------------------------------------------------------------------
(* Mutant: a failed turn keeps the question open.                          *)
ExtractionFailsPending ==
    /\ stage \in {"extracting", "starting", "updating_original", "updating"}
    /\ ReplyReadOnly("processing_unavailable", pending)
    /\ UNCHANGED <<resolved, targets, draft>>

(* LlmCallError of any extraction: the turn fails, nothing is changed, and *)
(* a decided clarification is not asked again.                             *)
ExtractionFails ==
    /\ stage \in {"extracting", "starting", "updating_original", "updating"}
    /\ ReplyReadOnly("processing_unavailable", NoPending)
    /\ UNCHANGED <<resolved, targets, draft>>

(* The question names no fact that could be checked.                       *)
Unsupported ==
    /\ stage = "extracting"
    /\ ReplyReadOnly("listing_query_unsupported", NoPending)
    /\ UNCHANGED <<resolved, targets, draft>>

(* The listings were checked; an answered question becomes the context,    *)
(* unless none of its facts has a text.                                    *)
AnswerListings ==
    /\ stage = "extracting"
    /\ stage' = "responding"
    /\ \E next \in {ValidContext, [set |-> shown.id, ids |-> targets]} :
        result' = [kind |-> "listing_query_result", state |-> search,
                   shown |-> shown, pending |-> NoPending,
                   context |-> IF discourse THEN next ELSE NoContext]
    /\ UNCHANGED <<session, discourse, turn, closed, resolved, targets, draft>>

(* resolve_required_search_context: ask for what is missing, or search.    *)
Resolve(s) ==
    IF s.complete
    THEN /\ draft' = s
         /\ Await("searching")
    ELSE /\ Reply("clarification", s, shown, NoPending)
         /\ UNCHANGED draft

(* A new search carries what its message says, which may be what the       *)
(* stored one says already.                                                *)
BuildSearch ==
    /\ stage = "starting"
    /\ \E s \in [from: {{turn}}, complete: BOOLEAN] \cup ({search} \ {NoSearch}) :
        Resolve(s)
    /\ UNCHANGED <<resolved, targets>>

(* InvalidStayDatesError: the new search is kept without its dates.        *)
StartWithInvalidDates ==
    /\ stage = "starting"
    /\ Reply("clarification", [from |-> {turn}, complete |-> FALSE], shown,
             NoPending)
    /\ UNCHANGED <<resolved, targets, draft>>

(* What update_search_state_async can make of s and message m.             *)
Updated(s, m) == {s} \cup [from: {s.from \cup {m}}, complete: BOOLEAN]

(* A continued request is two updates, the original message first; nothing *)
(* is stored in between.                                                   *)
UpdateOriginal ==
    /\ stage = "updating_original"
    /\ draft' \in Updated(draft, pending.message)
    /\ Await("updating")
    /\ UNCHANGED <<resolved, targets>>

UpdateDone ==
    /\ stage = "updating"
    /\ \E s \in Updated(draft, turn) :
        IF s = search
        THEN ReplyReadOnly("update_no_op", NoPending) /\ UNCHANGED draft
        ELSE Resolve(s)
    /\ UNCHANGED <<resolved, targets>>

(* InvalidStayDatesError of either update rejects both.                    *)
UpdateWithInvalidDates ==
    /\ stage \in {"updating_original", "updating"}
    /\ ReplyReadOnly("clarification", NoPending)
    /\ UNCHANGED <<resolved, targets, draft>>

(* Mutant: the search that failed is stored.                               *)
RetrievalFailsStored ==
    /\ stage = "searching"
    /\ Reply("processing_unavailable", draft, shown, NoPending)
    /\ UNCHANGED <<resolved, targets, draft>>

(* RetrievalError: the previous search and results stay.                   *)
RetrievalFails ==
    /\ stage = "searching"
    /\ ReplyReadOnly("processing_unavailable", NoPending)
    /\ UNCHANGED <<resolved, targets, draft>>

(* Mutant: an open question survives a new search.                         *)
SearchDonePending ==
    /\ stage = "searching"
    /\ \E items \in SUBSET Listings :
        Reply("search", draft, [id |-> turn, items |-> items, of |-> draft],
              pending)
    /\ UNCHANGED <<resolved, targets, draft>>

(* orchestrate_search_request; there may be nothing to show.               *)
SearchDone ==
    /\ stage = "searching"
    /\ \E items \in SUBSET Listings :
        Reply("search", draft, [id |-> turn, items |-> items, of |-> draft],
              NoPending)
    /\ UNCHANGED <<resolved, targets, draft>>
-----------------------------------------------------------------------------
EndTurn ==
    /\ stage' = "idle"
    /\ resolved' = "none"
    /\ targets' = {}
    /\ draft' = NoDraft
    /\ result' = NoResult
    /\ UNCHANGED <<discourse, turn>>

(* Mutant: the request being built is stored, not the one returned.        *)
CommitDraft ==
    /\ stage = "responding"
    /\ search' = draft
    /\ shown' = result.shown
    /\ pending' = result.pending
    /\ context' = result.context
    /\ closed' = IF resolved \in {"cancel", "supersede", "continue"}
                 THEN closed \cup {pending.message} ELSE closed
    /\ EndTurn

(* _build_updated_session, after the response was worded (which cannot     *)
(* fail: there is a fallback text).                                        *)
Commit ==
    /\ stage = "responding"
    /\ search' = result.state
    /\ shown' = result.shown
    /\ pending' = result.pending
    /\ context' = result.context
    /\ closed' = IF resolved \in {"cancel", "supersede", "continue"}
                 THEN closed \cup {pending.message} ELSE closed
    /\ EndTurn

(* Mutant: the search is stored before what can still raise.               *)
RaiseHalfStored ==
    /\ stage = "responding"
    /\ search' = result.state
    /\ UNCHANGED <<shown, pending, context, closed>>
    /\ EndTurn

(* An unexpected exception: process_turn raises, and nothing is stored.    *)
Raise ==
    /\ stage # "idle"
    /\ UNCHANGED <<session, closed>>
    /\ EndTurn

Dispatch(d) ==
    \/ Cancel(d)
    \/ Keep(d)
    \/ CannotContinue(d)
    \/ Abstain(d)
    \/ WhichListing(d)
    \/ NothingToCheck(d)
    \/ AskListings(d)
    \/ Chat(d)
    \/ StartSearch(d)
    \/ UpdateSearch(d)

Next ==
    \/ Begin
    \/ RoutingUnavailable
    \/ \E d \in Decision : Dispatch(d)
    \/ ExtractionFails
    \/ Unsupported
    \/ AnswerListings
    \/ BuildSearch
    \/ StartWithInvalidDates
    \/ UpdateOriginal
    \/ UpdateDone
    \/ UpdateWithInvalidDates
    \/ RetrievalFails
    \/ SearchDone
    \/ Commit
    \/ Raise

Spec == Init /\ [][Next]_vars
-----------------------------------------------------------------------------
TypeOK ==
    /\ search \in Search \cup {NoSearch}
    /\ shown \in Results \cup {NoResults}
    /\ pending \in Question \cup {NoPending}
    /\ context \in Context \cup {NoContext}
    /\ discourse \in BOOLEAN
    /\ turn \in 0..MaxTurns
    /\ stage \in {"idle", "routing", "extracting", "starting",
                  "updating_original", "updating", "searching", "responding"}
    /\ resolved \in {"none", "cancel", "keep", "supersede", "continue"}
    /\ targets \subseteq Listings
    /\ draft \in Search \cup {NoDraft}
    /\ result \in Result \cup {NoResult}
    /\ closed \subseteq Messages

(* An open clarification can always be answered either way: the results it *)
(* was asked about are the stored ones and not empty, and there is a       *)
(* search to change - however many failed, kept or cancelled turns lie in  *)
(* between (PendingClarification, build_pending_clarification).  So the    *)
(* stale-results answer of _process_message is never given.                *)
PendingIsAnswerable ==
    pending # NoPending =>
        /\ ~Stale
        /\ "update_search" \in PossibleActions(pending) => search # NoSearch
        /\ pending.kind = "ambiguous_reference" => discourse

ContextMatchesResults ==
    context # NoContext =>
        /\ discourse
        /\ ValidContext = context
        /\ context.ids # {}

(* The discourse context is stored only in the experiment, never outlives  *)
(* the results it speaks of, and is not lost while it is still good: a     *)
(* turn that fails, asks back, cannot be answered or raises leaves it as   *)
(* it was, unless the search changed under it (_next_discourse_context).   *)
ContextIsCurrent ==
    /\ []ContextMatchesResults
    /\ [][context' # context =>
            \/ search' # search
            \/ result.kind \notin Failure \cup
                    {"clarification", "listing_query_unsupported"}]_vars

(* What "the persisted search always matches the shown results"            *)
(* (conversation_flow.py:1530) amounts to: a stored search that could run  *)
(* is the one whose results are shown, whatever failed on the way; only a  *)
(* search that still lacks something differs from what is shown.           *)
ShownBelongToSearch ==
    /\ search # NoSearch /\ search.complete =>
            shown # NoResults /\ shown.of = search
    /\ search = NoSearch => shown = NoResults

(* That comment taken at its word.                                         *)
SearchMatchesShown ==
    shown # NoResults => search = shown.of

(* A clarification is decided once: when the user has cancelled it, moved  *)
(* on, or answered it, the question is closed, and its original message    *)
(* reaches the search in that very turn or never - not after a failed      *)
(* execution, nor with a later "yes" (handle_user_message, docstring).     *)
NeverRevived ==
    [][/\ pending' # NoPending => pending'.message \notin closed'
       /\ (search' # search /\ search' # NoSearch) =>
            \A m \in closed : m \in search'.from =>
                search # NoSearch /\ m \in search.from]_vars

(* The message that opened a clarification is applied only when the user   *)
(* chose to: as long as the question is open nothing of it is in the       *)
(* search, and a turn that supersedes or cancels it does not put it there  *)
(* (clarification_continuation.py, PendingTransition).                     *)
AppliedOnlyWhenChosen ==
    [][(pending # NoPending /\ search' # search /\ search' # NoSearch
            /\ pending.message \in search'.from)
        => resolved = "continue" \/ pending.message \in search.from]_vars

(* A listing question is only ever run against listings the user sees now, *)
(* whatever ids the router invents, and a continued one only against the   *)
(* results it was asked about (_resolve_target_reference).                 *)
TargetsAreShown ==
    stage = "extracting" =>
        /\ targets # {} /\ targets \subseteq ShownItems
        /\ resolved = "continue" => pending.set = shown.id

(* A turn as a whole is one of the four things TurnContract allows         *)
(* (_build_updated_session, docstring), failures and exceptions included.  *)
ImplementsContract == Contract!Spec
=============================================================================
