------------------------------ MODULE SoftPool -------------------------------
(***************************************************************************)
(* The evidence pool of a listing (soft_evidence_collection.py): every     *)
(* text that listing_signals.py finds, in its order, then what guests      *)
(* wrote, each with the source its path stands for.                        *)
(*                                                                         *)
(* A listing is                                                            *)
(*   [name, type, description, finePrint, facilities, rooms, highlights,   *)
(*    policies, pros, cons]                                                *)
(* with a facility [name, overview]; a room [name, beds, facilities,       *)
(* options], its options a sequence of texts; a highlight [header,         *)
(* contents]; a policy [title, content].  A text that is missing, blank or *)
(* nothing but markup is "".                                               *)
(***************************************************************************)
EXTENDS Selection

IsRoom(room) == IsList(room.beds) /\ IsList(room.facilities) /\ IsList(room.options)

IsListing(listing) ==
    /\ IsList(listing.description) /\ IsList(listing.facilities)
    /\ IsList(listing.rooms) /\ \A room \in ToSet(listing.rooms) : IsRoom(room)
    /\ IsList(listing.highlights) /\ \A title \in ToSet(listing.highlights) : IsList(title.contents)
    /\ IsList(listing.policies) /\ IsList(listing.pros) /\ IsList(listing.cons)

Evidence(text, source, tag, heading) == [text |-> text, source |-> source, tag |-> tag, heading |-> heading]

Texts(source, texts) == [i \in DOMAIN texts |-> Evidence(texts[i], source, FALSE, FALSE)]

Heading(source, text) == <<Evidence(text, source, FALSE, TRUE)>>

(* Only the name of a facility is a tag, never what is said about it. *)
FacilityEvidence(source, facilities) ==
    FlattenSeq([i \in DOMAIN facilities |->
        <<Evidence(facilities[i].name, source, TRUE, FALSE), Evidence(facilities[i].overview, source, FALSE, FALSE)>>])

(* Whatever stands in a room has the room's source. *)
RoomEvidence(room) ==
    Texts("room_facilities", <<room.name>> \o room.beds)
        \o FacilityEvidence("room_facilities", room.facilities)
        \o Texts("room_facilities", room.options)

(* The praise and the complaints are not told apart. *)
ReviewEvidence(listing) == Texts("review_summary", listing.pros \o listing.cons)

(* Neither a signal nor a review that says nothing is a candidate. *)
Stated(s) == Kept(s, {i \in DOMAIN s : s[i].text # ""})

CollectSoftEvidencePool(listing) ==
    LET of(i) == Heading("highlights", listing.highlights[i].header)
                     \o Texts("highlights", listing.highlights[i].contents)
        policy(i) == Heading("policies", listing.policies[i].title) \o Texts("policies", <<listing.policies[i].content>>)
    IN  Stated(Texts("title", <<listing.name>>)
                         \o Texts("property_type", <<listing.type>>)
                         \o Texts("description", listing.description)
                         \o Texts("other", <<listing.finePrint>>)
                         \o FacilityEvidence("facilities", listing.facilities)
                         \o FlattenSeq([i \in DOMAIN listing.rooms |-> RoomEvidence(listing.rooms[i])])
                         \o FlattenSeq([i \in DOMAIN listing.highlights |-> of(i)])
                         \o FlattenSeq([i \in DOMAIN listing.policies |-> policy(i)])
                         \o ReviewEvidence(listing))
=============================================================================
