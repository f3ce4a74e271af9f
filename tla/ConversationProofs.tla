-------------------------- MODULE ConversationProofs --------------------------
(***************************************************************************)
(* Theorems about Conversation, for any number of messages and listings:   *)
(* its types, what is stored between turns, and that it implements         *)
(* TurnContract.  The session changes in one action only, Commit, so the   *)
(* inductive invariant says of every result that is ready to be stored     *)
(* what it may be (Fits), and of every awaited stage what the steps before *)
(* it have made sure of (StagesFollow).                                    *)
(***************************************************************************)
EXTENDS Conversation, TLAPS

(* What a turn may leave behind, in terms of what it started from.         *)
Reads(state, results, question) ==
    /\ state = search /\ results = shown
    /\ question \in {pending, NoPending}

Opens(state, results, question) ==
    /\ state = search /\ results = shown
    /\ shown # NoResults /\ shown.items # {}
    /\ question \in Question
    /\ question.set = shown.id
    /\ question.kind = "ambiguous_action" => search # NoSearch
    /\ question.kind = "ambiguous_reference" => discourse

Asks(state, results, question) ==
    /\ state \in Search /\ ~state.complete
    /\ results = shown
    /\ question = NoPending

Runs(state, results, question) ==
    /\ state \in Search /\ state.complete
    /\ results \in Results /\ results.of = state
    /\ question = NoPending

Fits(state, results, question) ==
    \/ Reads(state, results, question)
    \/ Opens(state, results, question)
    \/ Asks(state, results, question)
    \/ Runs(state, results, question)

OutcomeFits ==
    stage = "responding" =>
        /\ result \in Result
        /\ Fits(result.state, result.shown, result.pending)

(* The context that is going to be stored speaks of the results that are,  *)
(* and is the stored one unless the turn did something else.               *)
ContextFits(results, next) ==
    next # NoContext =>
        /\ discourse
        /\ results # NoResults
        /\ next.set = results.id
        /\ next.ids \subseteq results.items
        /\ next.ids # {}

KeepsContext(kind, state) ==
    /\ kind \in Failure \cup {"clarification", "listing_query_unsupported"}
    /\ state = search

ContextOutcomeFits ==
    stage = "responding" =>
        /\ ContextFits(result.shown, result.context)
        /\ KeepsContext(result.kind, result.state) => result.context = context

StagesFollow ==
    /\ stage # "idle" => turn \in Messages
    /\ resolved # "none" => pending # NoPending
    /\ stage = "updating_original" => pending # NoPending
    /\ stage \in {"updating_original", "updating", "searching"} =>
            draft \in Search
    /\ stage = "searching" => draft.complete

IInv ==
    /\ TypeOK
    /\ PendingIsAnswerable
    /\ ContextMatchesResults
    /\ ShownBelongToSearch
    /\ TargetsAreShown
    /\ StagesFollow
    /\ OutcomeFits
    /\ ContextOutcomeFits

-----------------------------------------------------------------------------
LEMMA InitIInv == Init => IInv
<1> SUFFICES ASSUME Init PROVE IInv
  OBVIOUS
<1>1. TypeOK
  BY ConversationAssumption DEF Init, TypeOK
<1>2. ShownBelongToSearch /\ PendingIsAnswerable /\ ContextMatchesResults
  BY DEF Init, ShownBelongToSearch, PendingIsAnswerable, ContextMatchesResults
<1>3. TargetsAreShown /\ StagesFollow /\ OutcomeFits /\ ContextOutcomeFits
  BY DEF Init, TargetsAreShown, StagesFollow, OutcomeFits, ContextOutcomeFits
<1> QED
  BY <1>1, <1>2, <1>3 DEF IInv

(* A context that may still be used is a context, of the shown results.    *)
LEMMA ValidContextFits ==
    ASSUME IInv
    PROVE  /\ ValidContext \in Context \cup {NoContext}
           /\ ContextFits(shown, ValidContext)
BY DEF IInv, TypeOK, ContextMatchesResults, ValidContext, ContextFits

(* The context is kept only by a turn that keeps the results, and by every *)
(* turn that failed or asked back.                                         *)
LEMMA NextContextFits ==
    ASSUME IInv, NEW kind \in Kinds, NEW state, NEW results,
           kind # "search" => results = shown
    PROVE  /\ NextContext(kind, state) \in Context \cup {NoContext}
           /\ ContextFits(results, NextContext(kind, state))
           /\ KeepsContext(kind, state) => NextContext(kind, state) = context
<1>0. KeepsContext(kind, state) => NextContext(kind, state) = context
  <2>1. context = NoContext => ValidContext = NoContext
    BY DEF ValidContext
  <2>2. context # NoContext => ValidContext = context /\ discourse
    BY DEF IInv, ContextMatchesResults
  <2>3. KeepsContext(kind, state) =>
            NextContext(kind, state) =
                IF discourse THEN ValidContext ELSE NoContext
    BY DEF KeepsContext, NextContext
  <2> QED
    BY <2>1, <2>2, <2>3
<1>1. CASE NextContext(kind, state) = NoContext
  BY <1>0, <1>1 DEF ContextFits
<1>2. CASE NextContext(kind, state) # NoContext
  <2>1. NextContext(kind, state) = ValidContext /\ kind # "search"
    BY <1>2 DEF NextContext, Failure
  <2> QED
    BY <1>0, <2>1, ValidContextFits
<1> QED
  BY <1>1, <1>2

(* An action that replies leaves everything in order when what it replies  *)
(* fits.                                                                   *)
LEMMA ReplyIInv ==
    ASSUME IInv,
           NEW kind \in Kinds, NEW state \in Search \cup {NoSearch},
           NEW results \in Results \cup {NoResults},
           NEW question \in Question \cup {NoPending},
           Reply(kind, state, results, question),
           Fits(state, results, question),
           kind # "search" => results = shown,
           stage # "idle",
           targets' = targets, draft' = draft,
           resolved' \in {"none", "cancel", "keep", "supersede", "continue"},
           resolved' # "none" => pending # NoPending
    PROVE  IInv'
<1> DEFINE next == NextContext(kind, state)
<1>1. /\ next \in Context \cup {NoContext}
      /\ ContextFits(results, next)
      /\ KeepsContext(kind, state) => next = context
  BY NextContextFits
<1>2. /\ stage' = "responding"
      /\ result' = [kind |-> kind, state |-> state, shown |-> results,
                    pending |-> question, context |-> next]
      /\ UNCHANGED <<search, shown, pending, context, discourse, turn, closed>>
  BY DEF Reply, session
<1> HIDE DEF next
<1>3. result' \in Result
  BY <1>1, <1>2 DEF Result
<1>4. TypeOK'
  BY <1>2, <1>3 DEF IInv, TypeOK
<1>5. PendingIsAnswerable' /\ ContextMatchesResults' /\ ShownBelongToSearch'
  BY <1>2 DEF IInv, PendingIsAnswerable, Stale, ShownItems, PossibleActions,
              ContextMatchesResults, ValidContext, ShownBelongToSearch
<1>6. TargetsAreShown' /\ StagesFollow'
  BY <1>2 DEF IInv, TargetsAreShown, StagesFollow
<1>7. OutcomeFits'
  <2>1. Fits(state, results, question)'
    BY <1>2 DEF Fits, Reads, Opens, Asks, Runs
  <2> QED
    BY <1>2, <1>3 DEF OutcomeFits, Fits, Reads, Opens, Asks, Runs
<1>8. ContextOutcomeFits'
  BY <1>1, <1>2 DEF ContextOutcomeFits, ContextFits, KeepsContext
<1> QED
  BY <1>4, <1>5, <1>6, <1>7, <1>8 DEF IInv

(* The same for an action that changes neither the search nor what is      *)
(* shown, and keeps or closes the open question.                           *)
LEMMA ReadOnlyIInv ==
    ASSUME IInv, NEW kind \in Kinds, kind # "search",
           NEW question \in {pending, NoPending},
           ReplyReadOnly(kind, question),
           stage # "idle",
           targets' = targets, draft' = draft,
           resolved' \in {"none", "cancel", "keep", "supersede", "continue"},
           resolved' # "none" => pending # NoPending
    PROVE  IInv'
<1>1. /\ search \in Search \cup {NoSearch}
      /\ shown \in Results \cup {NoResults}
      /\ question \in Question \cup {NoPending}
  BY DEF IInv, TypeOK
<1>2. Fits(search, shown, question)
  BY DEF Fits, Reads
<1> QED
  BY <1>1, <1>2, ReplyIInv DEF ReplyReadOnly
-----------------------------------------------------------------------------
(* Routing an open question has one of four outcomes.                      *)
LEMMA TransitionType ==
    ASSUME NEW d \in Decision, Routed(d), pending # NoPending
    PROVE  Transition(d) \in {"cancel", "keep", "supersede", "continue"}
BY DEF Decision, Routed, Transition

LEMMA ExecutesType ==
    ASSUME NEW d \in Decision, Executes(d)
    PROVE  /\ stage = "routing"
           /\ resolved' \in {"none", "supersede", "continue"}
           /\ resolved' # "none" => pending # NoPending
BY TransitionType DEF Executes, Routed, How

(* A question that is opened is about the results that are shown.          *)
LEMMA NewPendingFits ==
    ASSUME IInv, stage = "routing",
           NEW reason \in {"ambiguous_action", "ambiguous_reference"},
           NEW withReference \in BOOLEAN, withReference => discourse
    PROVE  /\ NewPending(reason, withReference) \in Question \cup {NoPending}
           /\ Fits(search, shown, NewPending(reason, withReference))
<1> DEFINE asked == [kind |-> reason, message |-> turn, set |-> shown.id]
<1>1. CASE NewPending(reason, withReference) = NoPending
  BY <1>1 DEF Fits, Reads
<1>2. CASE NewPending(reason, withReference) # NoPending
  <2>1. /\ NewPending(reason, withReference) = asked
        /\ ShownItems # {}
        /\ \/ reason = "ambiguous_reference" /\ discourse
           \/ reason = "ambiguous_action" /\ search # NoSearch
    BY <1>2 DEF NewPending
  <2>2. shown # NoResults /\ shown \in Results /\ shown.items # {}
    BY <2>1 DEF ShownItems, IInv, TypeOK
  <2>3. shown.id \in Messages /\ turn \in Messages
    BY <2>2 DEF IInv, StagesFollow, Results, Contract!Results
  <2>4. asked \in Question
    BY <2>3 DEF Question, Contract!Question
  <2>5. Opens(search, shown, asked)
    BY <2>1, <2>2, <2>4 DEF Opens
  <2> QED
    BY <2>1, <2>4, <2>5 DEF Fits
<1> QED
  BY <1>1, <1>2

(* Opening a question.                                                     *)
LEMMA AskBackIInv ==
    ASSUME IInv, NEW d \in Decision, Executes(d),
           NEW reason \in {"ambiguous_action", "ambiguous_reference"},
           NEW withReference \in BOOLEAN, withReference => discourse,
           ReplyReadOnly("clarification", NewPending(reason, withReference)),
           UNCHANGED <<targets, draft>>
    PROVE  IInv'
<1>1. stage = "routing"
  BY ExecutesType
<1>2. /\ NewPending(reason, withReference) \in Question \cup {NoPending}
      /\ Fits(search, shown, NewPending(reason, withReference))
  BY <1>1, NewPendingFits
<1>3. search \in Search \cup {NoSearch} /\ shown \in Results \cup {NoResults}
  BY DEF IInv, TypeOK
<1>4. "clarification" \in Kinds
  BY DEF Kinds
<1> QED
  BY <1>1, <1>2, <1>3, <1>4, ExecutesType, ReplyIInv DEF ReplyReadOnly

(* A decision whose first awaited stage begins.                            *)
LEMMA AwaitIInv ==
    ASSUME IInv, stage = "routing",
           NEW next \in {"starting", "updating_original", "updating"},
           Await(next), targets' = targets,
           draft' \in Search \cup {NoDraft},
           next # "starting" => draft' \in Search,
           next = "updating_original" => pending # NoPending,
           resolved' \in {"none", "supersede", "continue"},
           resolved' # "none" => pending # NoPending
    PROVE  IInv'
<1>1. /\ stage' = next
      /\ UNCHANGED <<search, shown, pending, context, discourse, turn, result,
                     closed>>
  BY DEF Await, session
<1>2. TypeOK'
  BY <1>1 DEF IInv, TypeOK
<1>3. PendingIsAnswerable' /\ ContextMatchesResults' /\ ShownBelongToSearch'
  BY <1>1 DEF IInv, PendingIsAnswerable, Stale, ShownItems, PossibleActions,
              ContextMatchesResults, ValidContext, ShownBelongToSearch
<1>4. TargetsAreShown' /\ OutcomeFits' /\ ContextOutcomeFits'
  BY <1>1 DEF TargetsAreShown, OutcomeFits, ContextOutcomeFits
<1>5. StagesFollow'
  BY <1>1 DEF IInv, StagesFollow
<1> QED
  BY <1>2, <1>3, <1>4, <1>5 DEF IInv

LEMMA AskListingsIInv ==
    ASSUME IInv, NEW d \in Decision, AskListings(d)
    PROVE  IInv'
<1>1. /\ stage = "routing" /\ stage' = "extracting"
      /\ resolved' \in {"none", "supersede", "continue"}
      /\ resolved' # "none" => pending # NoPending
      /\ draft' = draft
      /\ UNCHANGED <<search, shown, pending, context, discourse, turn, result,
                     closed>>
  BY ExecutesType DEF AskListings, Await, session
<1>2. targets' # {} /\ targets' \subseteq ShownItems
  BY DEF AskListings, Candidates, Scope, Decision
<1>3. ShownItems \subseteq Listings
  BY DEF IInv, TypeOK, ShownItems, Results, Contract!Results
<1>4. resolved' = "continue" => pending.set = shown.id
  BY DEF AskListings, Executes, Stale
<1>5. TypeOK'
  BY <1>1, <1>2, <1>3 DEF IInv, TypeOK
<1>6. PendingIsAnswerable' /\ ContextMatchesResults' /\ ShownBelongToSearch'
  BY <1>1 DEF IInv, PendingIsAnswerable, Stale, ShownItems, PossibleActions,
              ContextMatchesResults, ValidContext, ShownBelongToSearch
<1>7. TargetsAreShown'
  BY <1>1, <1>2, <1>4 DEF TargetsAreShown, ShownItems
<1>8. OutcomeFits' /\ ContextOutcomeFits' /\ StagesFollow'
  BY <1>1 DEF IInv, OutcomeFits, ContextOutcomeFits, StagesFollow
<1> QED
  BY <1>5, <1>6, <1>7, <1>8 DEF IInv

(* What the router decides.                                                *)
LEMMA DispatchIInv ==
    ASSUME IInv, NEW d \in Decision, Dispatch(d)
    PROVE  IInv'
<1>0. \A k \in {"cancelled", "clarification", "general_chat"} :
        k \in Kinds /\ k # "search"
  BY DEF Kinds
<1>1. CASE Cancel(d)
  BY <1>0, <1>1, ReadOnlyIInv DEF Cancel, Routed
<1>2. CASE Keep(d)
  BY <1>0, <1>2, ReadOnlyIInv DEF Keep, Routed
<1>3. CASE CannotContinue(d)
  BY <1>0, <1>3, ReadOnlyIInv DEF CannotContinue, Routed
<1>4. CASE Abstain(d)
  <2> DEFINE reason == IF d.reason = "none" THEN "ambiguous_action" ELSE d.reason
  <2>1. reason \in {"ambiguous_action", "ambiguous_reference"}
    BY DEF Decision
  <2>2. (discourse /\ d.action = "listing_question") \in BOOLEAN
    OBVIOUS
  <2>3. ReplyReadOnly("clarification",
            NewPending(reason, discourse /\ d.action = "listing_question"))
    BY <1>4 DEF Abstain
  <2> HIDE DEF reason
  <2> QED
    BY <1>4, <2>1, <2>2, <2>3, AskBackIInv DEF Abstain
<1>5. CASE WhichListing(d)
  BY <1>5, AskBackIInv DEF WhichListing
<1>6. CASE NothingToCheck(d)
  BY <1>0, <1>6, ExecutesType, ReadOnlyIInv DEF NothingToCheck
<1>7. CASE AskListings(d)
  BY <1>7, AskListingsIInv
<1>8. CASE Chat(d)
  BY <1>0, <1>8, ExecutesType, ReadOnlyIInv DEF Chat
<1>9. CASE StartSearch(d)
  <2>1. draft' \in Search \cup {NoDraft}
    BY <1>9 DEF StartSearch, IInv, TypeOK
  <2> QED
    BY <1>9, <2>1, ExecutesType, AwaitIInv DEF StartSearch
<1>10. CASE UpdateSearch(d)
  <2>1. draft' \in Search
    BY <1>10 DEF UpdateSearch, IInv, TypeOK
  <2>2. How(d) = "continue" => pending # NoPending
    BY DEF How
  <2>3. CASE How(d) = "continue"
    BY <1>10, <2>1, <2>2, <2>3, ExecutesType, AwaitIInv DEF UpdateSearch
  <2>4. CASE How(d) # "continue"
    BY <1>10, <2>1, <2>4, ExecutesType, AwaitIInv DEF UpdateSearch
  <2> QED
    BY <2>3, <2>4
<1> QED
  BY <1>1, <1>2, <1>3, <1>4, <1>5, <1>6, <1>7, <1>8, <1>9, <1>10 DEF Dispatch
-----------------------------------------------------------------------------
(* Both ways a search is built: ask for what is missing, or go and search. *)
LEMMA ResolveIInv ==
    ASSUME IInv, stage # "idle", NEW s \in Search, Resolve(s),
           UNCHANGED <<resolved, targets>>
    PROVE  IInv'
<1>1. CASE s.complete
  <2>1. /\ stage' = "searching" /\ draft' = s
        /\ UNCHANGED <<search, shown, pending, context, discourse, turn,
                       result, closed>>
    BY <1>1 DEF Resolve, Await, session
  <2>2. TypeOK'
    BY <2>1 DEF IInv, TypeOK
  <2>3. PendingIsAnswerable' /\ ContextMatchesResults' /\ ShownBelongToSearch'
    BY <2>1 DEF IInv, PendingIsAnswerable, Stale, ShownItems, PossibleActions,
                ContextMatchesResults, ValidContext, ShownBelongToSearch
  <2>4. TargetsAreShown' /\ OutcomeFits' /\ ContextOutcomeFits'
    BY <2>1 DEF TargetsAreShown, OutcomeFits, ContextOutcomeFits
  <2>5. StagesFollow'
    BY <1>1, <2>1 DEF IInv, StagesFollow
  <2> QED
    BY <2>2, <2>3, <2>4, <2>5 DEF IInv
<1>2. CASE ~s.complete
  <2>1. Reply("clarification", s, shown, NoPending) /\ draft' = draft
    BY <1>2 DEF Resolve
  <2>2. Fits(s, shown, NoPending)
    BY <1>2 DEF Fits, Asks
  <2>3. shown \in Results \cup {NoResults} /\ "clarification" \in Kinds
    BY DEF IInv, TypeOK, Kinds
  <2> QED
    BY <2>1, <2>2, <2>3, ReplyIInv DEF IInv, TypeOK, StagesFollow
<1> QED
  BY <1>1, <1>2

LEMMA UpdatedType ==
    ASSUME NEW s \in Search, NEW m \in Messages
    PROVE  Updated(s, m) \subseteq Search
BY DEF Updated, Search, Contract!Search

(* The actions of the extraction and search stages.                        *)
LEMMA ExtractionIInv ==
    ASSUME IInv,
           \/ ExtractionFails
           \/ Unsupported
           \/ UpdateWithInvalidDates
           \/ RetrievalFails
           \/ RoutingUnavailable
    PROVE  IInv'
<1>1. /\ \E kind \in Kinds \ {"search"}, question \in {pending, NoPending} :
            ReplyReadOnly(kind, question)
      /\ stage # "idle"
      /\ UNCHANGED <<resolved, targets, draft>>
  BY DEF ExtractionFails, Unsupported, UpdateWithInvalidDates, RetrievalFails,
         RoutingUnavailable, Kinds, Failure
<1> QED
  BY <1>1, ReadOnlyIInv DEF IInv, TypeOK, StagesFollow

LEMMA AnswerListingsIInv ==
    ASSUME IInv, AnswerListings
    PROVE  IInv'
<1>1. PICK next \in {ValidContext, [set |-> shown.id, ids |-> targets]} :
        result' = [kind |-> "listing_query_result", state |-> search,
                   shown |-> shown, pending |-> NoPending,
                   context |-> IF discourse THEN next ELSE NoContext]
  BY DEF AnswerListings
<1>2. /\ stage = "extracting" /\ stage' = "responding"
      /\ UNCHANGED <<search, shown, pending, context, discourse, turn, closed,
                     resolved, targets, draft>>
  BY DEF AnswerListings, session
<1> DEFINE kept == IF discourse THEN next ELSE NoContext
<1>3. /\ kept \in Context \cup {NoContext}
      /\ ContextFits(shown, kept)
  <2>1. CASE next = ValidContext
    BY <2>1, ValidContextFits DEF ContextFits
  <2>2. CASE next = [set |-> shown.id, ids |-> targets]
    <3>1. /\ targets # {} /\ targets \subseteq ShownItems
          /\ targets \subseteq Listings
      BY <1>2 DEF IInv, TargetsAreShown, TypeOK
    <3>2. shown # NoResults /\ shown.id \in Messages /\ ShownItems = shown.items
      BY <3>1 DEF ShownItems, IInv, TypeOK, Results, Contract!Results
    <3> QED
      BY <2>2, <3>1, <3>2 DEF Context, ContextFits
  <2> QED
    BY <2>1, <2>2
<1>4. result' = [kind |-> "listing_query_result", state |-> search,
                 shown |-> shown, pending |-> NoPending, context |-> kept]
  BY <1>1
<1> HIDE DEF kept
<1>5. result' \in Result
  BY <1>3, <1>4 DEF IInv, TypeOK, Result, Kinds
<1>6. TypeOK'
  BY <1>2, <1>5 DEF IInv, TypeOK
<1>7. PendingIsAnswerable' /\ ContextMatchesResults' /\ ShownBelongToSearch'
  BY <1>2 DEF IInv, PendingIsAnswerable, Stale, ShownItems, PossibleActions,
              ContextMatchesResults, ValidContext, ShownBelongToSearch
<1>8. TargetsAreShown' /\ StagesFollow'
  BY <1>2 DEF IInv, TargetsAreShown, StagesFollow
<1>9. OutcomeFits'
  BY <1>2, <1>4, <1>5 DEF OutcomeFits, Fits, Reads
<1>10. ContextOutcomeFits'
  BY <1>2, <1>3, <1>4
     DEF ContextOutcomeFits, ContextFits, KeepsContext, Failure
<1> QED
  BY <1>6, <1>7, <1>8, <1>9, <1>10 DEF IInv

LEMMA SearchIInv ==
    ASSUME IInv, BuildSearch \/ StartWithInvalidDates \/ UpdateDone
    PROVE  IInv'
<1>0. /\ turn \in Messages \/ stage = "idle"
      /\ search \in Search \cup {NoSearch} /\ shown \in Results \cup {NoResults}
  BY DEF IInv, TypeOK, StagesFollow
<1>1. CASE BuildSearch
  <2>1. PICK s \in [from: {{turn}}, complete: BOOLEAN]
                     \cup ({search} \ {NoSearch}) : Resolve(s)
    BY <1>1 DEF BuildSearch
  <2>2. s \in Search
    BY <1>0, <1>1, <2>1 DEF BuildSearch, Search, Contract!Search
  <2> QED
    BY <1>1, <2>1, <2>2, ResolveIInv DEF BuildSearch
<1>2. CASE StartWithInvalidDates
  <2> DEFINE s == [from |-> {turn}, complete |-> FALSE]
  <2>1. s \in Search /\ ~s.complete
    BY <1>0, <1>2 DEF StartWithInvalidDates, Search, Contract!Search
  <2>2. Reply("clarification", s, shown, NoPending)
    BY <1>2 DEF StartWithInvalidDates
  <2> HIDE DEF s
  <2>3. Fits(s, shown, NoPending)
    BY <2>1 DEF Fits, Asks
  <2>4. "clarification" \in Kinds
    BY DEF Kinds
  <2> QED
    BY <1>0, <1>2, <2>1, <2>2, <2>3, <2>4, ReplyIInv
       DEF StartWithInvalidDates, IInv, TypeOK, StagesFollow
<1>3. CASE UpdateDone
  <2>1. PICK s \in Updated(draft, turn) :
            IF s = search
            THEN ReplyReadOnly("update_no_op", NoPending) /\ UNCHANGED draft
            ELSE Resolve(s)
    BY <1>3 DEF UpdateDone
  <2>2. s \in Search
    BY <1>0, <1>3, <2>1, UpdatedType DEF UpdateDone, IInv, StagesFollow
  <2>3. "update_no_op" \in Kinds
    BY DEF Kinds
  <2>4. CASE s = search
    BY <1>3, <2>1, <2>3, <2>4, ReadOnlyIInv
       DEF UpdateDone, IInv, TypeOK, StagesFollow
  <2>5. CASE s # search
    BY <1>3, <2>1, <2>2, <2>5, ResolveIInv DEF UpdateDone
  <2> QED
    BY <2>4, <2>5
<1> QED
  BY <1>1, <1>2, <1>3

LEMMA SearchDoneIInv ==
    ASSUME IInv, SearchDone
    PROVE  IInv'
<1>1. PICK items \in SUBSET Listings :
        Reply("search", draft, [id |-> turn, items |-> items, of |-> draft],
              NoPending)
  BY DEF SearchDone
<1> DEFINE found == [id |-> turn, items |-> items, of |-> draft]
<1>2. draft \in Search /\ draft.complete /\ turn \in Messages
  BY DEF SearchDone, IInv, StagesFollow
<1>3. found \in Results
  BY <1>2 DEF Search, Results, Contract!Results
<1>4. found.of = draft
  OBVIOUS
<1>5. Reply("search", draft, found, NoPending)
  BY <1>1
<1> HIDE DEF found
<1>6. Fits(draft, found, NoPending)
  BY <1>2, <1>3, <1>4 DEF Fits, Runs
<1>7. "search" \in Kinds
  BY DEF Kinds
<1> QED
  BY <1>2, <1>3, <1>5, <1>6, <1>7, ReplyIInv
     DEF SearchDone, IInv, TypeOK, StagesFollow

LEMMA UpdateOriginalIInv ==
    ASSUME IInv, UpdateOriginal
    PROVE  IInv'
<1>1. /\ stage = "updating_original" /\ stage' = "updating"
      /\ UNCHANGED <<search, shown, pending, context, discourse, turn, result,
                     closed, resolved, targets>>
  BY DEF UpdateOriginal, Await, session
<1>2. draft' \in Search
  <2>1. pending.message \in Messages /\ draft \in Search
    BY <1>1 DEF IInv, StagesFollow, TypeOK, Question, Contract!Question
  <2> QED
    BY <2>1, UpdatedType DEF UpdateOriginal
<1>3. TypeOK'
  BY <1>1, <1>2 DEF IInv, TypeOK
<1>4. PendingIsAnswerable' /\ ContextMatchesResults' /\ ShownBelongToSearch'
  BY <1>1 DEF IInv, PendingIsAnswerable, Stale, ShownItems, PossibleActions,
              ContextMatchesResults, ValidContext, ShownBelongToSearch
<1>5. /\ TargetsAreShown' /\ OutcomeFits' /\ ContextOutcomeFits'
      /\ StagesFollow'
  BY <1>1, <1>2 DEF IInv, TargetsAreShown, OutcomeFits, ContextOutcomeFits,
                    StagesFollow
<1> QED
  BY <1>3, <1>4, <1>5 DEF IInv

LEMMA BeginIInv ==
    ASSUME IInv, Begin
    PROVE  IInv'
<1>1. /\ stage = "idle" /\ stage' = "routing" /\ turn' \in Messages
      /\ UNCHANGED <<search, shown, pending, context, discourse, resolved,
                     targets, draft, result, closed>>
  BY ConversationAssumption DEF Begin, session, IInv, TypeOK, Messages
<1>2. TypeOK'
  BY <1>1 DEF IInv, TypeOK, Messages
<1>3. PendingIsAnswerable' /\ ContextMatchesResults' /\ ShownBelongToSearch'
  BY <1>1 DEF IInv, PendingIsAnswerable, Stale, ShownItems, PossibleActions,
              ContextMatchesResults, ValidContext, ShownBelongToSearch
<1>4. /\ TargetsAreShown' /\ OutcomeFits' /\ ContextOutcomeFits'
      /\ StagesFollow'
  BY <1>1 DEF IInv, TargetsAreShown, OutcomeFits, ContextOutcomeFits,
              StagesFollow
<1> QED
  BY <1>2, <1>3, <1>4 DEF IInv

(* A turn that raises stores nothing.                                      *)
LEMMA RaiseIInv ==
    ASSUME IInv, Raise
    PROVE  IInv'
<1>1. /\ stage' = "idle" /\ resolved' = "none" /\ targets' = {}
      /\ draft' = NoDraft /\ result' = NoResult
      /\ UNCHANGED <<search, shown, pending, context, discourse, turn, closed>>
  BY DEF Raise, EndTurn, session
<1>2. TypeOK'
  BY <1>1 DEF IInv, TypeOK
<1>3. PendingIsAnswerable' /\ ContextMatchesResults' /\ ShownBelongToSearch'
  BY <1>1 DEF IInv, PendingIsAnswerable, Stale, ShownItems, PossibleActions,
              ContextMatchesResults, ValidContext, ShownBelongToSearch
<1>4. /\ TargetsAreShown' /\ OutcomeFits' /\ ContextOutcomeFits'
      /\ StagesFollow'
  BY <1>1 DEF TargetsAreShown, OutcomeFits, ContextOutcomeFits, StagesFollow
<1> QED
  BY <1>2, <1>3, <1>4 DEF IInv

(* What is stored is what fits.                                            *)
LEMMA CommitFits ==
    ASSUME IInv, Commit
    PROVE  /\ Fits(search', shown', pending')
           /\ ContextFits(shown', context')
           /\ result \in Result
BY DEF IInv, Commit, OutcomeFits, ContextOutcomeFits

LEMMA CommitIInv ==
    ASSUME IInv, Commit
    PROVE  IInv'
<1>1. /\ stage' = "idle" /\ resolved' = "none" /\ targets' = {}
      /\ draft' = NoDraft /\ result' = NoResult
      /\ search' = result.state /\ shown' = result.shown
      /\ pending' = result.pending /\ context' = result.context
      /\ UNCHANGED <<discourse, turn>>
  BY DEF Commit, EndTurn
<1>2. TypeOK'
  <2>1. result \in Result
    BY CommitFits
  <2>2. closed' \subseteq Messages
    <3>1. resolved # "none" => pending.message \in Messages
      BY DEF IInv, StagesFollow, TypeOK, Question, Contract!Question
    <3> QED
      BY <3>1 DEF Commit, IInv, TypeOK
  <2> QED
    BY <1>1, <2>1, <2>2 DEF IInv, TypeOK, Result
<1>3. PendingIsAnswerable'
  <2>1. CASE Reads(search', shown', pending')
    BY <1>1, <2>1 DEF Reads, IInv, PendingIsAnswerable, Stale, ShownItems,
                      PossibleActions
  <2>2. CASE Opens(search', shown', pending')
    BY <1>1, <2>2 DEF Opens, Question, Contract!Question, PendingIsAnswerable,
                      Stale, ShownItems, PossibleActions
  <2>3. CASE pending' = NoPending
    BY <2>3 DEF PendingIsAnswerable
  <2> QED
    BY <2>1, <2>2, <2>3, CommitFits DEF Fits, Asks, Runs
<1>4. ContextMatchesResults'
  BY <1>1, CommitFits DEF ContextFits, ContextMatchesResults, ValidContext
<1>5. ShownBelongToSearch'
  <2>1. CASE search' = search /\ shown' = shown
    BY <2>1 DEF IInv, ShownBelongToSearch
  <2>2. CASE Asks(search', shown', pending')
    BY <2>2, ConversationAssumption
       DEF Asks, ShownBelongToSearch, Search, Contract!Search
  <2>3. CASE Runs(search', shown', pending')
    <3>1. search' # NoSearch
      BY <2>3, ConversationAssumption DEF Runs, Search, Contract!Search
    <3>2. shown' # NoResults
      BY <2>3, ConversationAssumption
         DEF Runs, Results, Contract!Results, Contract!Search
    <3> QED
      BY <2>3, <3>1, <3>2 DEF Runs, ShownBelongToSearch
  <2> QED
    BY <2>1, <2>2, <2>3, CommitFits DEF Fits, Reads, Opens
<1>6. /\ TargetsAreShown' /\ OutcomeFits' /\ ContextOutcomeFits'
      /\ StagesFollow'
  BY <1>1 DEF TargetsAreShown, OutcomeFits, ContextOutcomeFits, StagesFollow
<1> QED
  BY <1>2, <1>3, <1>4, <1>5, <1>6 DEF IInv

LEMMA StutterIInv ==
    ASSUME IInv, UNCHANGED vars
    PROVE  IInv'
<1>1. UNCHANGED <<search, shown, pending, context, discourse, turn, stage,
                  resolved, targets, draft, result, closed>>
  BY DEF vars, session
<1>2. TypeOK' /\ TargetsAreShown' /\ StagesFollow'
  BY <1>1 DEF IInv, TypeOK, TargetsAreShown, ShownItems, StagesFollow
<1>3. PendingIsAnswerable' /\ ContextMatchesResults' /\ ShownBelongToSearch'
  BY <1>1 DEF IInv, PendingIsAnswerable, Stale, ShownItems, PossibleActions,
              ContextMatchesResults, ValidContext, ShownBelongToSearch
<1>4. OutcomeFits' /\ ContextOutcomeFits'
  BY <1>1 DEF IInv, OutcomeFits, ContextOutcomeFits, ContextFits, KeepsContext,
              Fits, Reads, Opens, Asks, Runs
<1> QED
  BY <1>2, <1>3, <1>4 DEF IInv

LEMMA NextIInv == IInv /\ [Next]_vars => IInv'
<1> SUFFICES ASSUME IInv, [Next]_vars PROVE IInv'
  OBVIOUS
<1>1. ASSUME NEW d \in Decision, Dispatch(d) PROVE IInv'
  BY <1>1, DispatchIInv
<1>2. CASE \/ ExtractionFails \/ Unsupported \/ UpdateWithInvalidDates
           \/ RetrievalFails \/ RoutingUnavailable
  BY <1>2, ExtractionIInv
<1>3. CASE BuildSearch \/ StartWithInvalidDates \/ UpdateDone
  BY <1>3, SearchIInv
<1> QED
  BY <1>1, <1>2, <1>3, BeginIInv, AnswerListingsIInv, SearchDoneIInv,
     UpdateOriginalIInv, CommitIInv, RaiseIInv, StutterIInv DEF Next

(* The session changes in one action only.                                 *)
LEMMA OnlyCommitStores ==
    ASSUME [Next]_vars, ~Commit
    PROVE  UNCHANGED <<search, shown, pending, context>>
<1>1. ASSUME NEW d \in Decision, Dispatch(d)
      PROVE  UNCHANGED <<search, shown, pending, context>>
  BY <1>1 DEF Dispatch, Cancel, Keep, CannotContinue, Abstain, WhichListing,
              NothingToCheck, AskListings, Chat, StartSearch, UpdateSearch,
              ReplyReadOnly, Reply, Await, session
<1>2. CASE BuildSearch \/ UpdateDone
  BY <1>2 DEF BuildSearch, UpdateDone, Resolve, ReplyReadOnly, Reply, Await,
              session
<1>3. CASE Raise \/ Begin \/ AnswerListings \/ UpdateOriginal
  BY <1>3 DEF Raise, Begin, AnswerListings, UpdateOriginal, Await, session
<1>4. CASE \/ RoutingUnavailable \/ ExtractionFails \/ Unsupported
           \/ StartWithInvalidDates \/ UpdateWithInvalidDates
           \/ RetrievalFails \/ SearchDone
  BY <1>4 DEF RoutingUnavailable, ExtractionFails, Unsupported,
              StartWithInvalidDates, UpdateWithInvalidDates, RetrievalFails,
              SearchDone, ReplyReadOnly, Reply, session
<1>5. CASE UNCHANGED vars
  BY <1>5 DEF vars, session
<1> QED
  BY <1>1, <1>2, <1>3, <1>4, <1>5 DEF Next

LEMMA Invariant == Spec => []IInv
BY InitIInv, NextIInv, PTL DEF Spec
-----------------------------------------------------------------------------
(* Every reachable state has the type TypeOK states.                       *)
THEOREM TypeCorrect == Spec => []TypeOK
BY Invariant, PTL DEF IInv

(* An open clarification can be answered either way, after any sequence of *)
(* turns that failed, were kept open, or raised.                           *)
THEOREM OpenQuestionsAreAnswerable == Spec => []PendingIsAnswerable
BY Invariant, PTL DEF IInv

(* The discourse context never outlives the results it speaks of, and a    *)
(* turn that fails, asks back, cannot be answered or raises loses none     *)
(* that is still good.                                                     *)
THEOREM ContextsAreCurrent == Spec => ContextIsCurrent
<1> DEFINE Lost == context' # context =>
        \/ search' # search
        \/ result.kind \notin Failure \cup
                {"clarification", "listing_query_unsupported"}
<1>1. IInv => ContextMatchesResults
  BY DEF IInv
<1>2. IInv /\ [Next]_vars => [Lost]_vars
  <2> SUFFICES ASSUME IInv, [Next]_vars PROVE Lost
    OBVIOUS
  <2>1. CASE Commit
    <3>1. search' = result.state /\ context' = result.context
      BY <2>1 DEF Commit
    <3>2. KeepsContext(result.kind, result.state) => result.context = context
      BY <2>1 DEF IInv, ContextOutcomeFits, Commit
    <3> QED
      BY <3>1, <3>2 DEF KeepsContext
  <2>2. CASE ~Commit
    BY <2>2, OnlyCommitStores
  <2> QED
    BY <2>1, <2>2
<1> QED
  BY <1>1, <1>2, Invariant, PTL DEF Spec, ContextIsCurrent

(* A stored search that could run is the one whose results are shown.      *)
THEOREM ResultsBelongToSearch == Spec => []ShownBelongToSearch
BY Invariant, PTL DEF IInv

(* A listing question is only run against listings the user sees.          *)
THEOREM QuestionsTargetShownListings == Spec => []TargetsAreShown
BY Invariant, PTL DEF IInv

(* Whatever a turn goes through, seen between turns it is one of the four  *)
(* things TurnContract allows.                                             *)
THEOREM ConversationImplementsContract == Spec => ImplementsContract
<1>1. Init => Contract!Init
  BY DEF Init, Contract!Init
<1>2. IInv /\ [Next]_vars => [Contract!Next]_<<search, shown, pending>>
  <2> SUFFICES ASSUME IInv, [Next]_vars
               PROVE  [Contract!Next]_<<search, shown, pending>>
    OBVIOUS
  <2>1. CASE Commit
    <3>1. CASE Reads(search', shown', pending')
      BY <3>1 DEF Reads, Contract!Next, Contract!Read
    <3>2. CASE Opens(search', shown', pending')
      BY <3>2 DEF Opens, Question, Contract!Next, Contract!Open
    <3>3. CASE Asks(search', shown', pending')
      BY <3>3 DEF Asks, Search, Contract!Next, Contract!Ask
    <3>4. CASE Runs(search', shown', pending')
      BY <3>4 DEF Runs, Search, Results, Contract!Next, Contract!Run
    <3> QED
      BY <2>1, <3>1, <3>2, <3>3, <3>4, CommitFits DEF Fits
  <2>2. CASE ~Commit
    BY <2>2, OnlyCommitStores
  <2> QED
    BY <2>1, <2>2
<1> QED
  BY <1>1, <1>2, Invariant, PTL DEF Spec, ImplementsContract, Contract!Spec
-----------------------------------------------------------------------------
(* For the two properties about what becomes of a clarification's original *)
(* message the invariant has to follow the messages: those a request may   *)
(* carry, and those that are closed, which are all older than the turn.    *)
MayCarry(how) ==
    {turn} \cup (IF search = NoSearch THEN {} ELSE search.from)
           \cup (IF how = "continue" THEN {pending.message} ELSE {})

(* A question that is in the result is new, or the old one undecided.      *)
MayAsk(how, question) ==
    question # NoPending =>
        \/ question = pending /\ how \in {"none", "keep"}
        \/ question.message = turn

MessagesFollow ==
    /\ stage \in {"idle", "routing"} => resolved = "none"
    /\ stage = "updating_original" => resolved = "continue"
    /\ \A m \in closed : m <= turn /\ (stage # "idle" => m < turn)
    /\ pending # NoPending =>
            /\ pending.message <= turn
            /\ stage # "idle" => pending.message < turn
            /\ pending.message \notin closed
    /\ stage \in {"updating_original", "updating", "searching"} =>
            draft.from \subseteq MayCarry(resolved)
    /\ stage = "responding" =>
            /\ result.state # NoSearch =>
                    result.state.from \subseteq MayCarry(resolved)
            /\ MayAsk(resolved, result.pending)

HInv == IInv /\ MessagesFollow

LEMMA InitMessages == Init => MessagesFollow
BY DEF Init, MessagesFollow

(* Every reply: what it carries and what it asks has to be allowed.        *)
LEMMA ReplyMessages ==
    ASSUME HInv, NEW kind, NEW state, NEW results, NEW question,
           Reply(kind, state, results, question), stage # "idle",
           state # NoSearch => state.from \subseteq MayCarry(resolved'),
           MayAsk(resolved', question)
    PROVE  MessagesFollow'
<1>1. /\ stage' = "responding"
      /\ result'.state = state /\ result'.pending = question
      /\ UNCHANGED <<search, pending, turn, closed>>
  BY DEF Reply, session
<1> QED
  BY <1>1 DEF HInv, MessagesFollow, MayCarry, MayAsk

LEMMA ReadOnlyMessages ==
    ASSUME HInv, NEW kind, NEW question, ReplyReadOnly(kind, question),
           stage # "idle", MayAsk(resolved', question)
    PROVE  MessagesFollow'
<1>1. search # NoSearch => search.from \subseteq MayCarry(resolved')
  BY DEF MayCarry
<1> QED
  BY <1>1, ReplyMessages DEF ReplyReadOnly

(* A question the router or the domain opens is this turn's.               *)
LEMMA NewPendingIsNew ==
    ASSUME NEW reason, NEW withReference, NEW how
    PROVE  MayAsk(how, NewPending(reason, withReference))
BY DEF MayAsk, NewPending

(* Every stage that is entered: what its draft carries has to be allowed.  *)
LEMMA AwaitMessages ==
    ASSUME HInv, NEW next \in {"extracting", "starting", "updating_original",
                               "updating", "searching"},
           Await(next), stage # "idle",
           next = "updating_original" => resolved' = "continue",
           next \in {"updating_original", "updating", "searching"} =>
                draft'.from \subseteq MayCarry(resolved')
    PROVE  MessagesFollow'
<1>1. stage' = next /\ UNCHANGED <<search, pending, turn, closed>>
  BY DEF Await, session
<1> QED
  BY <1>1 DEF HInv, MessagesFollow, MayCarry

LEMMA DispatchMessages ==
    ASSUME HInv, NEW d \in Decision, Dispatch(d)
    PROVE  MessagesFollow'
<1>1. CASE Cancel(d) \/ NothingToCheck(d) \/ Chat(d)
  <2>1. /\ \E kind : ReplyReadOnly(kind, NoPending)
        /\ stage # "idle"
    BY <1>1, ExecutesType DEF Cancel, Routed, NothingToCheck, Chat
  <2> QED
    BY <2>1, ReadOnlyMessages DEF MayAsk
<1>2. CASE Keep(d)
  BY <1>2, ReadOnlyMessages DEF Keep, Routed, MayAsk
<1>3. CASE CannotContinue(d)
  BY <1>3, ReadOnlyMessages DEF CannotContinue, Routed, MayAsk
<1>4. CASE Abstain(d) \/ WhichListing(d)
  <2>1. /\ \E reason, withReference :
            ReplyReadOnly("clarification", NewPending(reason, withReference))
        /\ stage # "idle"
    BY <1>4, ExecutesType DEF Abstain, WhichListing
  <2> QED
    BY <2>1, ReadOnlyMessages, NewPendingIsNew
<1>5. CASE AskListings(d) \/ StartSearch(d)
  BY <1>5, ExecutesType, AwaitMessages DEF AskListings, StartSearch
<1>6. CASE UpdateSearch(d)
  <2>1. draft'.from \subseteq MayCarry(resolved')
    BY <1>6 DEF UpdateSearch, MayCarry
  <2>2. resolved' = How(d) /\ stage # "idle"
    BY <1>6, ExecutesType DEF UpdateSearch, Executes
  <2>3. CASE How(d) = "continue"
    BY <1>6, <2>1, <2>2, <2>3, AwaitMessages DEF UpdateSearch
  <2>4. CASE How(d) # "continue"
    BY <1>6, <2>1, <2>2, <2>4, AwaitMessages DEF UpdateSearch
  <2> QED
    BY <2>3, <2>4
<1> QED
  BY <1>1, <1>2, <1>3, <1>4, <1>5, <1>6 DEF Dispatch

LEMMA ResolveMessages ==
    ASSUME HInv, NEW s, Resolve(s), stage # "idle", UNCHANGED resolved,
           s.from \subseteq MayCarry(resolved)
    PROVE  MessagesFollow'
<1>1. CASE s.complete
  BY <1>1, AwaitMessages DEF Resolve
<1>2. CASE ~s.complete
  BY <1>2, ReplyMessages DEF Resolve, MayAsk
<1> QED
  BY <1>1, <1>2

(* What a step of a turn that has been routed may add to the request.      *)
LEMMA UpdatedCarries ==
    ASSUME HInv, NEW m, m \in MayCarry(resolved),
           stage \in {"updating_original", "updating"},
           NEW s \in Updated(draft, m)
    PROVE  s.from \subseteq MayCarry(resolved)
BY DEF HInv, MessagesFollow, Updated

LEMMA StageMessages ==
    ASSUME HInv,
           \/ ExtractionFails
           \/ Unsupported
           \/ AnswerListings
           \/ BuildSearch
           \/ StartWithInvalidDates
           \/ UpdateOriginal
           \/ UpdateDone
           \/ UpdateWithInvalidDates
           \/ RetrievalFails
           \/ SearchDone
           \/ RoutingUnavailable
    PROVE  MessagesFollow'
<1>1. CASE RoutingUnavailable
  BY <1>1, ReadOnlyMessages
     DEF RoutingUnavailable, MayAsk, HInv, MessagesFollow
<1>2. CASE \/ ExtractionFails \/ Unsupported \/ UpdateWithInvalidDates
           \/ RetrievalFails
  <2>1. /\ \E kind : ReplyReadOnly(kind, NoPending)
        /\ stage # "idle"
    BY <1>2 DEF ExtractionFails, Unsupported, UpdateWithInvalidDates,
                RetrievalFails
  <2> QED
    BY <2>1, ReadOnlyMessages DEF MayAsk
<1>3. CASE AnswerListings
  <2>1. /\ stage' = "responding" /\ stage = "extracting"
        /\ result'.state = search /\ result'.pending = NoPending
        /\ UNCHANGED <<search, pending, turn, closed, resolved>>
    BY <1>3 DEF AnswerListings, session
  <2> QED
    BY <2>1 DEF HInv, MessagesFollow, MayCarry, MayAsk
<1>4. CASE BuildSearch
  <2>1. PICK s \in [from: {{turn}}, complete: BOOLEAN]
                     \cup ({search} \ {NoSearch}) : Resolve(s)
    BY <1>4 DEF BuildSearch
  <2>2. s.from \subseteq MayCarry(resolved)
    BY <2>1 DEF MayCarry
  <2> QED
    BY <1>4, <2>1, <2>2, ResolveMessages DEF BuildSearch
<1>5. CASE StartWithInvalidDates
  <2> DEFINE s == [from |-> {turn}, complete |-> FALSE]
  <2>1. Reply("clarification", s, shown, NoPending) /\ UNCHANGED resolved
    BY <1>5 DEF StartWithInvalidDates
  <2>2. s.from \subseteq MayCarry(resolved)
    BY DEF MayCarry
  <2> HIDE DEF s
  <2> QED
    BY <1>5, <2>1, <2>2, ReplyMessages DEF StartWithInvalidDates, MayAsk
<1>6. CASE UpdateOriginal
  <2>1. resolved = "continue" /\ stage = "updating_original"
    BY <1>6 DEF UpdateOriginal, HInv, MessagesFollow
  <2>2. pending.message \in MayCarry(resolved)
    BY <2>1 DEF MayCarry
  <2>3. draft'.from \subseteq MayCarry(resolved)
    BY <1>6, <2>1, <2>2, UpdatedCarries DEF UpdateOriginal
  <2> QED
    BY <1>6, <2>1, <2>3, AwaitMessages DEF UpdateOriginal
<1>7. CASE UpdateDone
  <2>1. PICK s \in Updated(draft, turn) :
            IF s = search
            THEN ReplyReadOnly("update_no_op", NoPending) /\ UNCHANGED draft
            ELSE Resolve(s)
    BY <1>7 DEF UpdateDone
  <2>2. stage = "updating" /\ UNCHANGED resolved
    BY <1>7 DEF UpdateDone
  <2>3. s.from \subseteq MayCarry(resolved)
    <3>1. turn \in MayCarry(resolved)
      BY DEF MayCarry
    <3> QED
      BY <2>1, <2>2, <3>1, UpdatedCarries
  <2>4. CASE s = search
    BY <2>1, <2>2, <2>4, ReadOnlyMessages DEF MayAsk
  <2>5. CASE s # search
    BY <2>1, <2>2, <2>3, <2>5, ResolveMessages
  <2> QED
    BY <2>4, <2>5
<1>8. CASE SearchDone
  <2>1. /\ \E results : Reply("search", draft, results, NoPending)
        /\ stage = "searching" /\ UNCHANGED resolved
    BY <1>8 DEF SearchDone
  <2>2. draft.from \subseteq MayCarry(resolved)
    BY <2>1 DEF HInv, MessagesFollow
  <2> QED
    BY <2>1, <2>2, ReplyMessages DEF MayAsk
<1> QED
  BY <1>1, <1>2, <1>3, <1>4, <1>5, <1>6, <1>7, <1>8

LEMMA BeginMessages ==
    ASSUME HInv, Begin
    PROVE  MessagesFollow'
<1>1. /\ stage = "idle" /\ stage' = "routing" /\ turn' = turn + 1
      /\ UNCHANGED <<search, pending, resolved, closed>>
  BY DEF Begin, session
<1>2. turn \in Int /\ closed \subseteq Int
  BY ConversationAssumption DEF HInv, IInv, TypeOK, Messages
<1>3. pending # NoPending => pending.message \in Int
  BY DEF HInv, IInv, TypeOK, Question, Contract!Question, Messages
<1> QED
  BY <1>1, <1>2, <1>3 DEF HInv, MessagesFollow

(* Between turns only order remains: what was decided is closed, and a     *)
(* question that is stored is either the undecided one or this turn's.     *)
LEMMA EndMessages ==
    ASSUME HInv, Commit \/ Raise
    PROVE  MessagesFollow'
<1>1. /\ stage # "idle" /\ stage' = "idle" /\ resolved' = "none"
      /\ turn' = turn /\ turn \in Int /\ closed \subseteq Int
  BY ConversationAssumption
     DEF Commit, Raise, EndTurn, HInv, IInv, TypeOK, Messages
<1>2. /\ pending # NoPending => pending.message \in Int /\ pending.message < turn
      /\ resolved # "none" => pending # NoPending
  BY <1>1 DEF HInv, IInv, TypeOK, Question, Contract!Question, Messages,
              MessagesFollow, StagesFollow
<1>3. CASE Raise
  BY <1>1, <1>2, <1>3 DEF Raise, session, HInv, MessagesFollow
<1>4. CASE Commit
  <2>1. /\ pending' = result.pending
        /\ closed' = IF resolved \in {"cancel", "supersede", "continue"}
                     THEN closed \cup {pending.message} ELSE closed
        /\ MayAsk(resolved, result.pending)
    BY <1>4 DEF Commit, HInv, MessagesFollow
  <2>2. \A m \in closed' : m \in Int /\ m < turn
    BY <1>1, <1>2, <2>1 DEF HInv, MessagesFollow
  <2>3. pending' # NoPending =>
            pending'.message <= turn /\ pending'.message \notin closed'
    BY <1>1, <1>2, <2>1, <2>2 DEF MayAsk, HInv, MessagesFollow
  <2> QED
    BY <1>1, <2>2, <2>3 DEF MessagesFollow
<1> QED
  BY <1>3, <1>4

LEMMA NextHInv == HInv /\ [Next]_vars => HInv'
<1> SUFFICES ASSUME HInv, [Next]_vars PROVE MessagesFollow'
  BY NextIInv DEF HInv
<1>1. ASSUME NEW d \in Decision, Dispatch(d) PROVE MessagesFollow'
  BY <1>1, DispatchMessages
<1>2. CASE UNCHANGED vars
  BY <1>2 DEF HInv, MessagesFollow, MayCarry, MayAsk, vars, session
<1> QED
  BY <1>1, <1>2, BeginMessages, StageMessages, EndMessages DEF Next

LEMMA HistoryInvariant == Spec => []HInv
<1>1. Init => HInv
  BY InitIInv, InitMessages DEF HInv
<1> QED
  BY <1>1, NextHInv, PTL DEF Spec

(* The search changes in a Commit only, and by what it may carry.          *)
LEMMA StoredSearchCarries ==
    ASSUME HInv, [Next]_vars, search' # search, search' # NoSearch
    PROVE  /\ search'.from \subseteq MayCarry(resolved)
           /\ stage = "responding"
<1>1. Commit
  <2>1. ASSUME NEW d \in Decision, Dispatch(d) PROVE search' = search
    BY <2>1 DEF Dispatch, Cancel, Keep, CannotContinue, Abstain, WhichListing,
                NothingToCheck, AskListings, Chat, StartSearch, UpdateSearch,
                ReplyReadOnly, Reply, Await, session
  <2>2. CASE BuildSearch \/ UpdateDone
    BY <2>2 DEF BuildSearch, UpdateDone, Resolve, ReplyReadOnly, Reply, Await,
                session
  <2>3. CASE Raise \/ Begin \/ AnswerListings \/ UpdateOriginal
    BY <2>3 DEF Raise, Begin, AnswerListings, UpdateOriginal, Await, session
  <2>4. CASE \/ RoutingUnavailable \/ ExtractionFails \/ Unsupported
             \/ StartWithInvalidDates \/ UpdateWithInvalidDates
             \/ RetrievalFails \/ SearchDone
    BY <2>4 DEF RoutingUnavailable, ExtractionFails, Unsupported,
                StartWithInvalidDates, UpdateWithInvalidDates, RetrievalFails,
                SearchDone, ReplyReadOnly, Reply, session
  <2>5. CASE UNCHANGED vars
    BY <2>5 DEF vars, session
  <2> QED
    BY <2>1, <2>2, <2>3, <2>4, <2>5 DEF Next
<1> QED
  BY <1>1 DEF Commit, HInv, MessagesFollow

(* A clarification that was decided never comes back, and its original     *)
(* message does not reach the search in a later turn.                      *)
THEOREM DecidedQuestionsStayClosed == Spec => NeverRevived
<1>1. ASSUME HInv, HInv', [Next]_vars
      PROVE  /\ pending' # NoPending => pending'.message \notin closed'
             /\ (search' # search /\ search' # NoSearch) =>
                    \A m \in closed : m \in search'.from =>
                        search # NoSearch /\ m \in search.from
  <2>1. pending' # NoPending => pending'.message \notin closed'
    BY <1>1 DEF HInv, MessagesFollow
  <2>2. ASSUME search' # search, search' # NoSearch,
               NEW m \in closed, m \in search'.from
        PROVE  search # NoSearch /\ m \in search.from
    <3>1. m \in MayCarry(resolved) /\ stage = "responding"
      BY <1>1, <2>2, StoredSearchCarries
    <3>2. m # turn
      <4>1. m < turn /\ m \in Int /\ turn \in Int
        BY <1>1, <2>2, <3>1, ConversationAssumption
           DEF HInv, MessagesFollow, IInv, TypeOK, Messages
      <4> QED
        BY <4>1
    <3>3. resolved = "continue" => m # pending.message
      BY <1>1, <2>2 DEF HInv, MessagesFollow, IInv, StagesFollow
    <3> QED
      BY <3>1, <3>2, <3>3 DEF MayCarry
  <2> QED
    BY <2>1, <2>2
<1> QED
  BY <1>1, HistoryInvariant, PTL DEF Spec, NeverRevived

(* The message that opened a clarification reaches the search only in a    *)
(* turn that answers it.                                                   *)
THEOREM OriginalsAreAppliedByChoice == Spec => AppliedOnlyWhenChosen
<1>1. ASSUME HInv, [Next]_vars,
             pending # NoPending, search' # search, search' # NoSearch,
             pending.message \in search'.from
      PROVE  resolved = "continue" \/ pending.message \in search.from
  <2>1. pending.message \in MayCarry(resolved) /\ stage = "responding"
    BY <1>1, StoredSearchCarries
  <2>2. pending.message # turn
    <3>1. pending.message < turn /\ pending.message \in Int /\ turn \in Int
      BY <1>1, <2>1, ConversationAssumption
         DEF HInv, MessagesFollow, IInv, TypeOK, Question, Contract!Question,
             Messages
    <3> QED
      BY <3>1
  <2> QED
    BY <2>1, <2>2 DEF MayCarry
<1> QED
  BY <1>1, HistoryInvariant, PTL DEF Spec, AppliedOnlyWhenChosen
===============================================================================
