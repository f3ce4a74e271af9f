---------------------------- MODULE ListingMatch ----------------------------
(***************************************************************************)
(* What one listing says about one requirement, as a value of three: the   *)
(* structured match of a canonical field (matcher_structured.py), the      *)
(* numeric filters and the price (numeric_filters.py).                     *)
(*                                                                         *)
(* A listing's text is a sequence of signals [place, says], in the order   *)
(* of collect_listing_signals; says holds [field, side, length]: aliases   *)
(* (side "yes") and negative aliases (side "no") of the field found in     *)
(* that text.  Optional values are sets of at most one element.            *)
(***************************************************************************)
EXTENDS Integers, FiniteSets, Sequences, Selection

Ternary == {"YES", "NO", "UNCERTAIN"}

-----------------------------------------------------------------------------
(* Structured fields *)

RoomFirst == <<"rooms", "facilities", "description">>
PoliciesFirst == <<"policies", "description">>

(* FIELD_RULES: the places each field prefers its evidence from. *)
PreferredPlaces ==
    Joined([f \in {"kitchen", "wifi", "air_conditioning", "washing_machine", "oven", "microwave",
                   "refrigerator", "kettle", "coffee_machine"} |-> RoomFirst],
    Joined([f \in {"non_smoking", "smoking_allowed", "parties_allowed", "children_allowed"} |-> PoliciesFirst],
           [private_bathroom  |-> <<"rooms", "description">>,
            balcony           |-> <<"rooms", "highlights", "description">>,
            free_cancellation |-> <<"rooms", "policies", "highlights">>,
            pet_friendly      |-> <<"policies", "description", "highlights">>,
            parking           |-> <<"highlights", "facilities", "description">>]))

(* Fields whose aliases name the safe state: forbidden, they are violated  *)
(* by a NO.                                                                *)
InvertedPolarityForbiddenFields == {"non_smoking", "free_cancellation"}

Hits(s, f, side) == {h \in s.says : h.field = f /\ h.side = side}

(* By preferred place, then the longer alias, then the earlier signal. *)
PathRank(s, f) ==
    LET places == PreferredPlaces[f]
        found == {i \in DOMAIN places : places[i] = s.place}
    IN  IF found = {} THEN Len(places) + 1 ELSE CHOOSE i \in found : \A j \in found : i <= j

FindBestSignal(signals, f, side) ==
    LET candidates == {i \in DOMAIN signals : Hits(signals[i], f, side) # {}}
        length(i) == LET lengths == {h.length : h \in Hits(signals[i], f, side)}
                     IN  CHOOSE n \in lengths : \A m \in lengths : m <= n
        rank(i) == PathRank(signals[i], f)
        before(i, j) == \/ rank(i) < rank(j)
                        \/ rank(i) = rank(j) /\ length(i) > length(j)
                        \/ rank(i) = rank(j) /\ length(i) = length(j) /\ i <= j
    IN  {i \in candidates : \A j \in candidates : before(i, j)}

(* The same text for both sides is a denial; two texts are a conflict. *)
MatchField(signals, f) ==
    LET positive == FindBestSignal(signals, f, "yes")
        negative == FindBestSignal(signals, f, "no")
    IN  CASE f \notin DOMAIN PreferredPlaces -> "UNCERTAIN"
          [] f \in DOMAIN PreferredPlaces /\ positive # {} /\ negative = {} -> "YES"
          [] f \in DOMAIN PreferredPlaces /\ negative # {} /\ positive \in {{}, negative} -> "NO"
          [] OTHER -> "UNCERTAIN"

-----------------------------------------------------------------------------
(* Numeric filters: a range is [min, max], an unset side is {}. *)

Asked(range) == range.min \cup range.max # {}

InRange(x, range) == (\A low \in range.min : x >= low) /\ (\A high \in range.max : x <= high)

Largest(values) == {x \in values : \A y \in values : y <= x}

(* Room texts and the name first, then the largest mention. *)
ExtractBedroomCount(listing) ==
    LET rooms == {m.count : m \in {n \in listing.bedrooms : n.inRoom}}
    IN  Largest(IF rooms = {} THEN {m.count : m \in listing.bedrooms} ELSE rooms)

ExtractBathroomCount(listing) == Largest(listing.bathrooms)

(* A size counts when it is the unit's: in a room's text or the name it is *)
(* unless it is said to be another part's, in the description only when it *)
(* is said to be the unit's.                                               *)
ExtractAreaCandidates(listing) ==
    {m.sqm : m \in {n \in listing.areas : n.scope = "unit" \/ (n.inRoom /\ n.scope = "unknown")}}

(* Mutant: some size that does not fit is enough to reject. *)
MatchRangeAny(values, range) ==
    IF values = {} THEN "UNCERTAIN"
    ELSE IF \A x \in values : InRange(x, range) THEN "YES" ELSE "NO"

(* Several sizes count only if they agree. *)
MatchRange(values, range) ==
    CASE values # {} /\ (\A x \in values : InRange(x, range)) -> "YES"
      [] values # {} /\ (\A x \in values : ~InRange(x, range)) -> "NO"
      [] OTHER -> "UNCERTAIN"

(* evaluate_numeric_filters without the price: the verdicts asked for. *)
MatchSizes(listing, filters) ==
    [a \in {b \in {"bedrooms", "bathrooms", "area_sqm"} : Asked(filters[b])} |->
        MatchRange(CASE a = "bedrooms" -> ExtractBedroomCount(listing)
                     [] a = "bathrooms" -> ExtractBathroomCount(listing)
                     [] OTHER -> ExtractAreaCandidates(listing), filters[a])]

-----------------------------------------------------------------------------
(* Price: [min, max, currency, scope].  The listing's total is in its      *)
(* currency; a limit in another currency is converted to USD by dividing   *)
(* by its quote, so that total < limit / quote is total * quote < limit.   *)

(* extract_total_price: without a total, what an option of a room costs.   *)
ExtractTotalPrice(listing) == IF listing.total # {} THEN listing.total ELSE listing.optionPrice

NeedsRate(price, total) ==
    /\ \E t \in total : t.currency = "USD"
    /\ price.currency \notin {"none", "USD"}

OtherCurrency(price, total) ==
    /\ ~NeedsRate(price, total)
    /\ \E t \in total : t.currency # "none" /\ price.currency \notin {"none", t.currency}

(* Mutant: a budget of unknown scope is taken for the whole stay. *)
AmbiguousNever(price, nights) == FALSE

AmbiguousScope(price, nights) == price.scope = "none" /\ nights > 1

(* quotes gives each limit its quotes: {} where a rate could not be found. *)
MatchPrice(price, total, nights, quotes) ==
    LET known(side) == price[side] = {} \/ ~NeedsRate(price, total) \/ quotes[side] # {}
        quote(side) == IF NeedsRate(price, total) THEN CHOOSE q \in quotes[side] : TRUE ELSE 1
        stay == IF price.scope = "per_night" THEN nights ELSE 1
        below == \E t \in total, low \in price.min : t.amount * quote("min") < low * stay
        above == \E t \in total, high \in price.max : t.amount * quote("max") > high * stay
    IN  CASE \/ total = {}
             \/ ~known("min")
             \/ ~known("max")
             \/ OtherCurrency(price, total)
             \/ AmbiguousScope(price, nights) -> "UNCERTAIN"
          [] OTHER -> IF below \/ above THEN "NO" ELSE "YES"
=============================================================================
