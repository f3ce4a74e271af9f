--------------------------- MODULE ListingPolicy ----------------------------
(***************************************************************************)
(* What happens to an evaluated listing: scoring and hard filters          *)
(* (listing_evaluation.py), tier, order and limit (result_selection.py),   *)
(* and the status of every requirement in the answer                       *)
(* (normalize_search_response.py).                                         *)
(*                                                                         *)
(* A request r has constraints, a sequence of [priority, known, fields,    *)
(* strategy] with distinct ids and texts, and types, the requested         *)
(* property types in order.  An item is [listing, matches, numeric,        *)
(* results, score, tier]: the values of its canonical fields and numeric   *)
(* filters, by constraint (its place in the request) the resolved          *)
(* decision, and what the code sorts by.                                   *)
(***************************************************************************)
EXTENDS ListingMatch

Positions(r) == DOMAIN r.constraints

(* _known_mapped_fields *)
KnownFields(r, priorities) ==
    UNION {ToSet(r.constraints[c].fields) :
              c \in {d \in Positions(r) : r.constraints[d].known /\ r.constraints[d].priority \in priorities}}

Having(f, value, fields) == {x \in fields : f[x] = value}

-----------------------------------------------------------------------------
(* Hard filters *)

FailsMust(r, item) == Having(item.matches, "NO", KnownFields(r, {"must"})) # {}

(* Mutant: a forbidden field is violated by a YES, whatever it names. *)
FailsForbiddenYes(r, item) ==
    \E f \in KnownFields(r, {"forbidden"}) : item.matches[f] = "YES"

FailsForbidden(r, item) ==
    \E f \in KnownFields(r, {"forbidden"}) :
        item.matches[f] = IF f \in InvertedPolarityForbiddenFields THEN "NO" ELSE "YES"

FailsNumericFilters(item) == Having(item.numeric, "NO", DOMAIN item.numeric) # {}

ViolatingDecision(constraint) ==
    CASE constraint.priority = "must" -> "NO"
      [] constraint.priority = "forbidden" ->
            IF ToSet(constraint.fields) \cap InvertedPolarityForbiddenFields # {} THEN "NO" ELSE "YES"
      [] OTHER -> "never"

FailsConstraintResolution(r, item) ==
    \E c \in DOMAIN item.results : item.results[c] = ViolatingDecision(r.constraints[c])

-----------------------------------------------------------------------------
(* Coverage: a blocking textual requirement nothing resolved is uncertain. *)

Blocking(constraint) == constraint.priority \in {"must", "forbidden"}

Covered(constraint) ==
    Blocking(constraint) /\ ~constraint.known /\ constraint.strategy \in {"textual", "none"}

(* Mutant: nothing stands for what the fallback did not reach. *)
RepresentedOnlyAsked(r, item) == item

EnsureRepresented(r, item) ==
    LET missing == {c \in Positions(r) : Covered(r.constraints[c])} \ DOMAIN item.results
    IN  [item EXCEPT !.results = Joined(@, [c \in missing |-> "UNCERTAIN"])]

(* is_constraint_fallback_eligible, with both kinds of input on: what has  *)
(* no field, or is uncertain by its first one.                             *)
OpenForText(constraint, matches) ==
    \/ ~constraint.known
    \/ constraint.fields # <<>> /\ matches[Head(constraint.fields)] = "UNCERTAIN"

(* must_only, as a search sets it. *)
FallbackEligible(constraint, item) == Blocking(constraint) /\ OpenForText(constraint, item.matches)

-----------------------------------------------------------------------------
(* Scores *)

StructuredScore(r, item) ==
    LET musts == KnownFields(r, {"must"})
        count(value) == Cardinality(Having(item.numeric, value, DOMAIN item.numeric))
    IN    10 * Cardinality(Having(item.matches, "YES", musts))
        - 100 * Cardinality(Having(item.matches, "NO", musts))
        + Cardinality(Having(item.matches, "YES", KnownFields(r, {"nice"})))
        + 10 * count("YES") - 100 * count("NO")

(* _apply_constraint_resolution_scoring knows no inverted polarity. *)
ResolutionDelta(r, item) ==
    LET decided(priority, decision) ==
            Cardinality({c \in DOMAIN item.results :
                            r.constraints[c].priority = priority /\ item.results[c] = decision})
    IN    3 * (decided("must", "YES") + decided("nice", "YES") + decided("forbidden", "NO"))
        - 100 * (decided("must", "NO") + decided("forbidden", "YES"))

(* A stable sort: the elements of s by their rank, the pairs <<j, i>> of   *)
(* ahead being the indices of which j goes first.                          *)
Arranged(s, ahead) ==
    [k \in DOMAIN s |->
        s[CHOOSE i \in DOMAIN s : Cardinality({j \in DOMAIN s : <<j, i>> \in ahead}) = k - 1]]

SortedByScore(s) ==
    LET before(j, i) == s[j].score > s[i].score \/ (s[j].score = s[i].score /\ j < i)
    IN  Arranged(s, {p \in (DOMAIN s) \X (DOMAIN s) : before(p[1], p[2])})

-----------------------------------------------------------------------------
(* Selection *)

TypeMismatch(r, item) ==
    r.types # <<>> /\ item.listing.type \notin {"none"} \cup ToSet(r.types)

(* classify_ranked_item.  A resolution NO is "failed" and an explicit      *)
(* negative; the buckets derived from matches are always empty, for they   *)
(* compare "YES" with "yes".                                               *)
Blocked(r, item) ==
    \/ \E c \in DOMAIN item.results : item.results[c] = "NO"
    \/ TypeMismatch(r, item)

MustTotal(r) == Cardinality(KnownFields(r, {"must"})) + (IF r.types # <<>> THEN 1 ELSE 0)

MustMatched(r, item) ==
    Cardinality(Having(item.matches, "YES", KnownFields(r, {"must"})))
        + (IF item.listing.type \in ToSet(r.types) THEN 1 ELSE 0)

(* Mutant: what was not confirmed does not count against a strong match. *)
UncertaintyIgnored(item) == FALSE

Uncertainty(item) == \E c \in DOMAIN item.results : item.results[c] = "UNCERTAIN"

MatchTier(r, item) ==
    CASE Blocked(r, item) -> "ineligible"
      [] /\ ~Blocked(r, item)
         /\ MustTotal(r) > 0
         /\ MustMatched(r, item) = MustTotal(r)
         /\ ~Uncertainty(item) -> "strong"
      [] ~Blocked(r, item) /\ MustTotal(r) > 0 /\ MustMatched(r, item) = 0 -> "weak"
      [] OTHER -> "partial"

TierOrder == [t \in {"strong", "partial", "weak"} |->
                 CASE t = "strong" -> 1 [] t = "partial" -> 2 [] OTHER -> 3]

(* The first loop of select_ranked_items: the eligible items, by tier. *)
Graded(r, items) ==
    LET s == Kept(items, {k \in DOMAIN items : MatchTier(r, items[k]) # "ineligible"})
    IN  [k \in DOMAIN s |-> [s[k] EXCEPT !.tier = MatchTier(r, s[k])]]

(* _diversify_equal_score_items: with several requested types, equal       *)
(* scores of a tier are taken in rounds of one listing of each type.       *)
TypePlace(r, item) ==
    IF \E k \in DOMAIN r.types : r.types[k] = item.listing.type
    THEN CHOOSE k \in DOMAIN r.types : r.types[k] = item.listing.type
    ELSE Len(r.types) + 1

(* The rest of it: tier by tier, best score first. *)
Ranked(r, s) ==
    LET tier(i) == TierOrder[s[i].tier]
        score(i) == s[i].score
        type(i) == TypePlace(r, s[i])
        equal(i, j) == tier(i) = tier(j) /\ score(i) = score(j)
        round(i) == Cardinality({j \in 1 .. (i - 1) : equal(i, j) /\ type(i) = type(j)})
        other(i) == type(i) > Len(r.types)
        diverse(i, j) ==
            IF other(i) \/ other(j) THEN (~other(i) /\ other(j)) \/ (other(i) /\ other(j) /\ i < j)
            ELSE round(i) < round(j) \/ (round(i) = round(j) /\ type(i) < type(j))
        before(i, j) ==
            \/ tier(i) < tier(j)
            \/ tier(i) = tier(j) /\ score(i) > score(j)
            \/ equal(i, j) /\ i # j /\ (IF Len(r.types) > 1 THEN diverse(i, j) ELSE i < j)
    IN  Arranged(s, {p \in (DOMAIN s) \X (DOMAIN s) : before(p[1], p[2])})

Select(r, graded, limit) ==
    SubSeq(Ranked(r, graded), 1, IF Len(graded) < limit THEN Len(graded) ELSE limit)

-----------------------------------------------------------------------------
(* Statuses of a shown result *)

Status(value) ==
    CASE value = "YES" -> "matched" [] value = "NO" -> "failed" [] OTHER -> "uncertain"

(* _build_constraint_lookup: of the constraints with a field, the last.    *)
Holder(r, f) ==
    LET holders == {c \in Positions(r) : f \in ToSet(r.constraints[c].fields)}
    IN  CHOOSE c \in holders : \A d \in holders : d <= c

(* _collect_constraint_statuses: what the must and nice fields and the     *)
(* resolutions say of each constraint.                                     *)
StatusesOf(r, item, c) ==
    {Status(item.matches[f]) : f \in {g \in KnownFields(r, {"must", "nice"}) : Holder(r, g) = c}}
        \cup {Status(item.results[d]) : d \in DOMAIN item.results \cap {c}}

(* _merge_same_constraint_statuses, _with_unchecked_optional_requirements; *)
(* {} when the result does not mention the constraint.                     *)
ShownStatus(r, item, c) ==
    LET said == StatusesOf(r, item, c)
    IN  CASE "failed" \in said -> {"failed"}
          [] "failed" \notin said /\ "matched" \in said -> {"matched"}
          [] said = {"uncertain"} -> {"uncertain"}
          [] OTHER -> IF r.constraints[c].priority = "nice" THEN {"uncertain"} ELSE {}
=============================================================================
