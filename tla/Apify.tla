-------------------------------- MODULE Apify --------------------------------
(***************************************************************************)
(* Retrieval from Apify (retrieval/apify.py): one run of the scraper per   *)
(* requested property type, each for its share of the items, all at once   *)
(* in threads.  There is no retry and no common deadline; the first run to *)
(* fail fails the search, and the others are not stopped.                  *)
(*                                                                         *)
(* An item of a run is a name of Items, or "junk" when it is no object or  *)
(* cannot be normalized.  Items[name] is [key, name, type, description,    *)
(* finePrint, groups, rooms, highlights, policies, total, optionPrice],    *)
(* its key the result id (result_ids.py); a group of facilities [name,     *)
(* overview, nested].                                                      *)
(***************************************************************************)
EXTENDS LiteApi, Fixtures

CONSTANTS
    Items,           \* [name -> a scraped item]
    ActorReplies     \* what a run may return: sequences of items

ASSUME ApifyAssumption ==
    /\ \A name \in DOMAIN Items :
          /\ IsList(Items[name].groups) /\ \A g \in ToSet(Items[name].groups) : IsList(g.nested)
          /\ IsNormalized(Joined([facilities |-> <<>>], Items[name]))
          /\ \A price \in Items[name].total : price.amount \in Int
    /\ \A reply \in ActorReplies : IsList(reply)

VARIABLE actors      \* the runs: <<[type, budget, state, items]>>

-----------------------------------------------------------------------------
(* An item as a listing *)

(* Mutant: a group without facilities of its own is left out. *)
NestedFacilities(groups) ==
    FlattenSeq([i \in DOMAIN groups |-> Facilities(Given(groups[i].nested), groups[i].overview)])

(* A group stands for its facilities; without any, for itself, so that     *)
(* "No parking available." is not lost.                                    *)
ListingFacilities(groups) ==
    LET of(g) == Facilities(Given(IF g.nested # <<>> THEN g.nested ELSE <<g.name>>), g.overview)
    IN  FlattenSeq([i \in DOMAIN groups |-> of(groups[i])])

(* _normalize_rooms: what has no name is no facility. *)
NormalizeRooms(rooms) ==
    LET named(facilities) == Kept(facilities, {i \in DOMAIN facilities : facilities[i].name # {}})
    IN  [i \in DOMAIN rooms |-> [rooms[i] EXCEPT !.facilities = named(@)]]

NormalizeApifyListing(item) ==
    [id |-> item.key, name |-> item.name, type |-> item.type, description |-> item.description,
     finePrint |-> item.finePrint, facilities |-> ListingFacilities(item.groups), rooms |-> NormalizeRooms(item.rooms),
     highlights |-> item.highlights, policies |-> item.policies, total |-> item.total,
     optionPrice |-> item.optionPrice]

Scrapings == [name \in DOMAIN Items |-> Candidate(NormalizeApifyListing(Items[name]), name, {})]

(* The phrases of an item, told from all at once: of what becomes the      *)
(* listing, of the facilities that have a name, and of the groups.  The    *)
(* name of a group of facilities is a heading, and an overview is one of   *)
(* the facilities.                                                         *)
ItemPhrases(item) ==
    LET bare(room) == [room EXCEPT !.facilities = <<>>]
        furnished(room) == UNION {f.name \cup f.overview : f \in {x \in ToSet(room.facilities) : x.name # {}}}
        facilities(g) == IF g.nested = <<>> THEN g.name ELSE UNION ToSet(g.nested)
    IN  ListingPhrases(Joined([facilities |-> <<>>, rooms |-> [i \in DOMAIN item.rooms |-> bare(item.rooms[i])]], item))
            \cup (UNION {furnished(room) : room \in ToSet(item.rooms)})
            \cup (UNION {facilities(g) \cup g.overview : g \in {x \in ToSet(item.groups) : facilities(x) # {}}})

-----------------------------------------------------------------------------
(* The runs *)

(* APIFY_PROPERTY_TYPES; the others are searched without a type. *)
SearchableTypes ==
    {"hotel", "apartment", "hostel", "guest_house", "homestay", "bed_and_breakfast", "holiday_home", "villa",
     "resort", "campsite", "motel", "boat", "holiday_park", "luxury_tent"}

ActorTypes(types) ==
    LET mapped == [i \in DOMAIN types |-> IF types[i] \in SearchableTypes THEN types[i] ELSE "none"]
        first(i) == \A j \in 1 .. (i - 1) : mapped[j] # mapped[i]
    IN  IF types = <<>> THEN <<"none">> ELSE Kept(mapped, {i \in DOMAIN types : first(i)})

(* _split_max_items *)
Share(i, count) == (MaxItems \div count) + (IF i <= MaxItems % count THEN 1 ELSE 0)

(* With more types than items, the last types are not searched. *)
PlannedActors(types) ==
    LET asked == ActorTypes(types)
        plan == [i \in DOMAIN asked |->
                    [type |-> asked[i], budget |-> Share(i, Len(asked)), state |-> "running", items |-> <<>>]]
    IN  Kept(plan, {i \in DOMAIN plan : plan[i].budget > 0})

(* Mutant: two items with the same id are both kept. *)
KeepAll(names) == names

(* _deduplicate_listings: by id or URL; an item with neither is kept. *)
Deduplicated(names) ==
    LET same(i, j) == Items[names[i]].key = Items[names[j]].key /\ Items[names[i]].key[1] # "gen"
        first(i) == \A j \in 1 .. (i - 1) : ~same(i, j)
    IN  Kept(names, {i \in DOMAIN names : first(i)})

Merged == FirstItems(Deduplicated(FlattenSeq([i \in DOMAIN actors |-> actors[i].items])), MaxItems)

-----------------------------------------------------------------------------
(* get_candidates of the package: by source *)

GetCandidates ==
    /\ stage = "choosing"
    /\ \/ /\ request.source = "liteapi"
          /\ stage' = "checking"
          /\ UNCHANGED <<listings, actors>>
       \/ /\ request.source = "fixtures"
          /\ listings' = FixtureCandidates(request.city, request.checkIn, request.nights)
          /\ stage' = "retrieved"
          /\ UNCHANGED actors
       \/ /\ request.source = "apify"
          /\ actors' = PlannedActors(request.types)
          /\ stage' = "scraping"
          /\ UNCHANGED listings
    /\ UNCHANGED <<request, late, rates, offers, detail, error>>

(* No APIFY_TOKEN: the first run finds out before it calls anyone. *)
NoToken ==
    /\ stage = "choosing"
    /\ request.source = "apify"
    /\ Fail("configuration_error")
    /\ UNCHANGED <<request, late, rates, offers, detail, listings, actors>>

(* Mutant: a run that failed is a run without items. *)
ActorFailsQuietly(i, code) ==
    /\ stage = "scraping"
    /\ actors[i].state = "running"
    /\ actors' = [actors EXCEPT ![i].state = "failed"]
    /\ UNCHANGED <<stage, retrievalVars>>

(* gather raises the first failure and leaves the other runs alone. *)
ActorFails(i, code) ==
    /\ stage = "scraping"
    /\ actors[i].state = "running"
    /\ actors' = [actors EXCEPT ![i].state = "failed"]
    /\ Fail(code)
    /\ UNCHANGED <<request, late, rates, offers, detail, listings>>

UsableItems(names) == Kept(names, {i \in DOMAIN names : names[i] \in DOMAIN Items})

(* The first `budget` items; what is unusable among them is skipped. *)
ActorReturns(i, reply) ==
    /\ stage = "scraping"
    /\ actors[i].state = "running"
    /\ actors' = [actors EXCEPT ![i].state = "ended", ![i].items = UsableItems(FirstItems(reply, actors[i].budget))]
    /\ UNCHANGED <<stage, retrievalVars>>

(* A thread that nobody waits for any more. *)
ActorEndsLate(i) ==
    /\ stage \notin {"choosing", "scraping"}
    /\ actors[i].state = "running"
    /\ actors' = [actors EXCEPT ![i].state = "ended"]
    /\ UNCHANGED <<stage, retrievalVars>>

MergeActors ==
    /\ stage = "scraping"
    /\ \A i \in DOMAIN actors : actors[i].state # "running"
    /\ listings' = [k \in DOMAIN Merged |-> Scrapings[Merged[k]]]
    /\ actors' = <<>>
    /\ stage' = "retrieved"
    /\ UNCHANGED <<request, late, rates, offers, detail, error>>

(* A run ends: its socket has a timeout. *)
ActorStep ==
    \E i \in DOMAIN actors :
        \/ \E fault \in Faults : ActorFails(i, ErrorCode(fault))
        \/ \E code \in {"invalid_response", "raised"} : ActorFails(i, code)
        \/ \E reply \in ActorReplies : ActorReturns(i, reply)
        \/ ActorEndsLate(i)

ScrapingStep == NoToken \/ ActorStep \/ MergeActors
=============================================================================
