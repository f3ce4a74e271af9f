----------------------------- MODULE TurnContract -----------------------------
(***************************************************************************)
(* What a conversation promises about the three things it carries from     *)
(* turn to turn, seen only between turns.  A turn does one of four things: *)
(* it reads, it asks about a search that is not complete yet, it replaces  *)
(* search and results together, or it opens a question on what is shown.   *)
(* Conversation, which takes a turn through routing, extraction, retrieval *)
(* and every way they fail, implements this.                               *)
(***************************************************************************)
EXTENDS Integers

CONSTANTS
    Listings,     \* listings a search can show
    Messages,     \* user messages, numbered in the order they are sent
    NoSearch, NoResults, NoPending

VARIABLES search, shown, pending

Search == [from: SUBSET Messages, complete: BOOLEAN]
Results == [id: Messages, items: SUBSET Listings, of: Search]
Question == [kind: {"ambiguous_action", "ambiguous_reference"},
             message: Messages, set: Messages]

Init ==
    /\ search = NoSearch
    /\ shown = NoResults
    /\ pending = NoPending

(* Nothing the user sees changes; an open question is closed or kept.      *)
Read ==
    /\ UNCHANGED <<search, shown>>
    /\ pending' \in {pending, NoPending}

(* A question is opened only about results that are there to be looked at, *)
(* and only instead of one that is closed.                                 *)
Open ==
    /\ shown # NoResults /\ shown.items # {}
    /\ pending' \in Question
    /\ pending'.set = shown.id
    /\ pending'.kind = "ambiguous_action" => search # NoSearch
    /\ UNCHANGED <<search, shown>>

(* The search becomes one that cannot run yet; what is shown stays.        *)
Ask ==
    /\ search' \in Search
    /\ ~search'.complete
    /\ pending' = NoPending
    /\ UNCHANGED shown

(* A search ran: the request and its results replace the old ones at once. *)
Run ==
    /\ search' \in Search
    /\ search'.complete
    /\ shown' \in Results
    /\ shown'.of = search'
    /\ pending' = NoPending

Next == Read \/ Open \/ Ask \/ Run

Spec == Init /\ [][Next]_<<search, shown, pending>>
=============================================================================
