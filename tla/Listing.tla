------------------------------- MODULE Listing -------------------------------
(***************************************************************************)
(* The provider-independent listing (schemas/listing.py) and what matching *)
(* reads of it: the signals of listing_signals.py and the text candidates  *)
(* of numeric_filters.py.                                                  *)
(*                                                                         *)
(* A text is the set of the phrases in it, {} when it is missing.  Phrases *)
(* gives, for those that matter to a requirement, what the aliases and     *)
(* regular expressions of the code find in them.  A listing is             *)
(*   [id, name, type, description, finePrint, facilities, rooms,           *)
(*    highlights, policies, total, optionPrice]                            *)
(* description a sequence of sentences; a facility [name, overview]; a     *)
(* room [name, beds, facilities, options]; an option [name, choices,       *)
(* free]; a highlight a sequence of texts; a policy [title, content]; and  *)
(* optionPrice the price of the first option of a room that has one.       *)
(* Optional values are sets of at most one element.                        *)
(***************************************************************************)
EXTENDS Integers, Sequences, FiniteSets, Selection

CONSTANTS
    Phrases,       \* [phrase -> [says, bedrooms, bathrooms, areas]]
    MaxEvidence    \* how many texts are put before an LLM at most

ASSUME ListingAssumption ==
    /\ MaxEvidence \in Nat \ {0}
    /\ IsFiniteSet(DOMAIN Phrases)
    /\ \A p \in DOMAIN Phrases : IsFiniteSet(Phrases[p].says) /\ \A h \in Phrases[p].says : h.length \in Nat
    /\ \A p \in DOMAIN Phrases : \A counts \in {Phrases[p].bedrooms, Phrases[p].bathrooms} :
          IsFiniteSet(counts) /\ counts \subseteq Int

IsRoom(room) ==
    /\ {"name", "beds", "facilities", "options"} \subseteq DOMAIN room
    /\ IsList(room.beds) /\ IsList(room.facilities)
    /\ IsList(room.options) /\ \A option \in ToSet(room.options) : IsList(option.choices)

IsNormalized(listing) ==
    /\ {"name", "type", "description", "finePrint", "facilities", "rooms", "highlights", "policies", "optionPrice"}
          \subseteq DOMAIN listing
    /\ \A price \in listing.optionPrice : price.amount \in Int
    /\ IsList(listing.description) /\ IsList(listing.facilities) /\ IsList(listing.policies)
    /\ IsList(listing.rooms) /\ \A room \in ToSet(listing.rooms) : IsRoom(room)
    /\ IsList(listing.highlights) /\ \A highlight \in ToSet(listing.highlights) : IsList(highlight)

Among(text) == text \cap DOMAIN Phrases

Says(text) == UNION {Phrases[p].says : p \in Among(text)}

(* The texts that are not missing. *)
Given(texts) == Kept(texts, {i \in DOMAIN texts : texts[i] # {}})

Facilities(names, overview) == [i \in DOMAIN names |-> [name |-> names[i], overview |-> overview]]

-----------------------------------------------------------------------------
(* Signals *)

(* _add_signal: a missing text is no signal. *)
Worded(signals) == Kept(signals, {i \in DOMAIN signals : signals[i].text # {}})

Signals(place, texts) == Worded([i \in DOMAIN texts |-> [place |-> place, text |-> texts[i], says |-> Says(texts[i])]])

(* _add_facility_signals *)
FacilityTexts(facilities) == FlattenSeq([i \in DOMAIN facilities |-> <<facilities[i].name, facilities[i].overview>>])

OptionTexts(option) == <<option.name>> \o option.choices \o IF option.free THEN <<{"free cancellation"}>> ELSE <<>>

RoomTexts(room) ==
    <<room.name>> \o room.beds \o FacilityTexts(room.facilities)
        \o FlattenSeq([j \in DOMAIN room.options |-> OptionTexts(room.options[j])])

CollectListingSignals(listing) ==
    Signals("name", <<listing.name>>)
        \o Signals("description", listing.description)
        \o Signals("fine_print", <<listing.finePrint>>)
        \o Signals("facilities", FacilityTexts(listing.facilities))
        \o FlattenSeq([i \in DOMAIN listing.rooms |-> Signals("rooms", RoomTexts(listing.rooms[i]))])
        \o Signals("highlights", FlattenSeq(listing.highlights))
        \o Signals("policies", FlattenSeq([i \in DOMAIN listing.policies |->
                                              <<listing.policies[i].title, listing.policies[i].content>>]))

(* Every phrase of the listing. *)
ListingPhrases(listing) ==
    UNION ({listing.name, listing.finePrint} \cup ToSet(listing.description)
           \cup ToSet(FacilityTexts(listing.facilities)) \cup (UNION {ToSet(h) : h \in ToSet(listing.highlights)})
           \cup (UNION {{p.title, p.content} : p \in ToSet(listing.policies)})
           \cup (UNION {ToSet(RoomTexts(r)) : r \in ToSet(listing.rooms)}))

-----------------------------------------------------------------------------
(* Numbers *)

(* _collect_text_candidates: names, the description, rooms and their       *)
(* facilities.  Beds are left out: a bed is not a bedroom.                 *)
UnitTexts(listing) ==
    LET facilities(room) == UNION {{f.name, f.overview} : f \in ToSet(room.facilities)}
    IN  {listing.name} \cup (UNION {{r.name} \cup facilities(r) : r \in ToSet(listing.rooms)})

BedroomMentions(listing) ==
    LET found(texts, inRoom) ==
            {[count |-> n, inRoom |-> inRoom] : n \in UNION {Phrases[p].bedrooms : p \in Among(UNION texts)}}
    IN  found(UnitTexts(listing), TRUE) \cup found(ToSet(listing.description), FALSE)

BathroomMentions(listing) ==
    UNION {Phrases[p].bathrooms : p \in Among(UNION (UnitTexts(listing) \cup ToSet(listing.description)))}

AreaMentions(listing) ==
    LET found(texts, inRoom) ==
            {[sqm |-> a.sqm, scope |-> a.scope, inRoom |-> inRoom] :
                a \in UNION {Phrases[p].areas : p \in Among(UNION texts)}}
    IN  found(UnitTexts(listing), TRUE) \cup found(ToSet(listing.description), FALSE)

-----------------------------------------------------------------------------
(* What is put before an LLM: the property type, the repetitions of a     *)
(* text and the length limits are left out.                                *)

(* _source_from_path and source_rank: the fine print is "other". *)
SourceRank ==
    [facilities |-> 0, rooms |-> 1, policies |-> 2, highlights |-> 3, description |-> 4, name |-> 5, fine_print |-> 7]

(* _prepare_listing_evidence: by source, then the shorter text, then the order of the listing. *)
PrepareListingEvidence(signals) ==
    LET rank(i) == SourceRank[signals[i].place]
        size(i) == Cardinality(signals[i].text)
        before(i, j) == \/ rank(i) < rank(j)
                        \/ rank(i) = rank(j) /\ size(i) < size(j)
                        \/ rank(i) = rank(j) /\ size(i) = size(j) /\ i < j
        sent == {j \in DOMAIN signals : Cardinality({i \in DOMAIN signals : before(i, j)}) < MaxEvidence}
    IN  {signals[j].text : j \in sent}

-----------------------------------------------------------------------------
(* What the evaluation keeps of a listing.  `of` names the payload it was  *)
(* built from and `offered` the rooms on offer: no definition of the       *)
(* program reads them.                                                     *)
Candidate(listing, of, offered) ==
    LET signals == CollectListingSignals(listing)
    IN  [id |-> listing.id, type |-> listing.type, signals |-> signals, evidence |-> PrepareListingEvidence(signals),
         bedrooms |-> BedroomMentions(listing), bathrooms |-> BathroomMentions(listing),
         areas |-> AreaMentions(listing), total |-> listing.total, optionPrice |-> listing.optionPrice,
         of |-> of, offered |-> offered]
=============================================================================
