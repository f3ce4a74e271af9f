---------------------------- MODULE LiteApiHotel ----------------------------
(***************************************************************************)
(* A LiteAPI hotel as a listing (retrieval/liteapi.py): content of the     *)
(* hotel, and of the rooms on offer only.  A flag of the provider is TRUE, *)
(* FALSE or missing, and only TRUE is ever stated.                         *)
(*                                                                         *)
(* A hotel is [type, name, description, information, facilities, flags,    *)
(* places, rooms]; flags a function from the flags it has; a catalog room  *)
(* [name, amenities, flags, views, size, beds].  An offer is [room, board, *)
(* ssp, rates], ssp {} or {[amount, currency]}, rates a sequence of such   *)
(* sets.                                                                   *)
(***************************************************************************)
EXTENDS Listing, TLC

CONSTANT Currency    \* SearchRequest.currency, never set by the code: USD

(* What the code writes of its own accord names no feature. *)
ASSUME HeadingsAssumption == {"Currently closed", "Nearby places"} \cap DOMAIN Phrases = {}

(* The details of a hotel, as far as its lists go. *)
IsHotel(hotel) ==
    /\ IsList(hotel.description) /\ IsList(hotel.facilities) /\ IsList(hotel.places)
    /\ IsList(hotel.rooms)
    /\ \A room \in ToSet(hotel.rooms) : IsList(room.amenities) /\ IsList(room.views) /\ IsList(room.beds)

(* Mutant: a flag that is there is a flag that is true. *)
IsPresent(flags, f) == f \in DOMAIN flags

IsSet(flags, f) == f \in DOMAIN flags /\ flags[f]

(* The flags of policyAttributes, in the order they are read. *)
PropertyFlags ==
    <<"elevator", "fitnessCenter", "pool", "hotTub", "spaServices", "sauna", "nonSmokingProperty",
      "restaurant", "bar", "roomService", "breakfastAvailable">>

CurrentlyClosed == [pool |-> "poolCurrentlyClosed", sauna |-> "saunaCurrentlyClosed"]

RoomFlags ==
    <<"television", "airConditioner", "hairDryer", "iron", "hangers", "coffeeMaker", "crib",
      "laptopFriendlyWorkplace", "kitchen", "smokeDetector", "carbonMonoxideDetector">>

Named(texts) ==
    LET first(i) == texts[i] # {} /\ \A j \in 1 .. (i - 1) : texts[j] # texts[i]
    IN  Facilities(Kept(texts, {i \in DOMAIN texts : first(i)}), {})

(* A flag's phrase is the flag itself; one that is already named is not    *)
(* named again, unless it is closed.                                       *)
HotelFacilities(hotel) ==
    LET closed(f) == f \in DOMAIN CurrentlyClosed /\ IsSet(hotel.flags, CurrentlyClosed[f])
        stated(f) == IsSet(hotel.flags, f) /\ ({f} \notin ToSet(hotel.facilities) \/ closed(f))
        as(f) == [name |-> {f}, overview |-> IF closed(f) THEN {"Currently closed"} ELSE {}]
    IN  Named(hotel.facilities)
            \o Kept([k \in DOMAIN PropertyFlags |-> as(PropertyFlags[k])],
                    {k \in DOMAIN PropertyFlags : stated(PropertyFlags[k])})

(* A policy is stated when one of its flags is; free parking only beside   *)
(* parking.  (The times of arrival and departure say nothing a requirement *)
(* asks for.)                                                              *)
PolicyFlags ==
    [Parking  |-> {"selfParking", "valet", "freeParking", "chargesApply", "evCharger"},
     WiFi     |-> {"wifiInRoom", "freeWifi", "freeWifiInPublicAreas"},
     Pets     |-> {"petsAllowed"},
     Children |-> {"childrenAllowed", "cribAvailable"}]

PolicyTitles == <<"Parking", "WiFi", "Pets", "Children">>

PolicyContent(flags, title) ==
    LET parking == IsSet(flags, "selfParking") \/ IsSet(flags, "valet")
    IN  {f \in PolicyFlags[title] : IsSet(flags, f) /\ (f = "freeParking" => parking)}

HotelPolicies(hotel) ==
    LET policy(title) == [title |-> {title}, content |-> PolicyContent(hotel.flags, title)]
    IN  Kept([k \in DOMAIN PolicyTitles |-> policy(PolicyTitles[k])],
             {k \in DOMAIN PolicyTitles : PolicyContent(hotel.flags, PolicyTitles[k]) # {}})

NearbyPlaces(hotel) == IF hotel.places = <<>> THEN <<>> ELSE <<<<{"Nearby places"}>> \o hotel.places>>

ContentRoom(room) ==
    LET stated(f) == IsSet(room.flags, f) /\ {f} \notin ToSet(room.amenities)
        flags == Kept([k \in DOMAIN RoomFlags |-> {RoomFlags[k]}], {k \in DOMAIN RoomFlags : stated(RoomFlags[k])})
    IN  [name |-> room.name, beds |-> room.beds,
         facilities |-> Named(room.amenities) \o Facilities(flags \o Given(room.views \o <<room.size>>), {})]

(* Refundability is never put into a text. *)
OfferOption(offer) ==
    [name |-> offer.room, choices |-> IF offer.board = {} THEN <<>> ELSE <<offer.board>>, free |-> FALSE]

-----------------------------------------------------------------------------
(* Offers *)

Prices == [amount : Int, currency : STRING]

(* An offer of a rates reply, of a room with the phrases of its name.      *)
Rate == [room : SUBSET STRING, board : SUBSET STRING, ssp : SUBSET Prices, rates : Seq(SUBSET Prices)]

(* _public_total: the offer's price, when it is positive, in the currency  *)
(* asked for and the sum of its rates.                                     *)
PublicTotal(offer) ==
    LET stated(price) == {p \in price : p.currency = Currency}
        amount(price) == (CHOOSE p \in price : TRUE).amount
        add(sum, price) == sum + amount(price)
    IN  {p \in stated(offer.ssp) :
            /\ p.amount > 0
            /\ \A i \in DOMAIN offer.rates : stated(offer.rates[i]) # {}
            /\ p.amount = FoldLeft(add, 0, offer.rates)}

BestPrice(onOffer) ==
    LET totals == UNION {PublicTotal(o) : o \in ToSet(onOffer)}
    IN  {p \in totals : \A q \in totals : p.amount <= q.amount}

(* Mutant: every room of the catalog is listed. *)
RoomsOfCatalog(hotel, onOffer) == [i \in DOMAIN hotel.rooms |-> Joined(ContentRoom(hotel.rooms[i]), [options |-> <<>>])]

(* One room per name on offer, and one per offer without a name, in the    *)
(* order of the offers; described by the catalog when exactly one room of  *)
(* it has the name.                                                        *)
RoomsWithOffers(hotel, onOffer) ==
    LET catalog(name) == {i \in DOMAIN hotel.rooms : name # {} /\ hotel.rooms[i].name = name}
        content(name) == IF Cardinality(catalog(name)) = 1
                         THEN ContentRoom(hotel.rooms[CHOOSE i \in catalog(name) : TRUE])
                         ELSE [name |-> name, beds |-> <<>>, facilities |-> <<>>]
        same(i) == {j \in DOMAIN onOffer : j = i \/ (onOffer[i].room # {} /\ onOffer[j].room = onOffer[i].room)}
        room(i) == Joined(content(onOffer[i].room),
                          [options |-> Kept([j \in DOMAIN onOffer |-> OfferOption(onOffer[j])], same(i))])
    IN  Kept([i \in DOMAIN onOffer |-> room(i)], {i \in DOMAIN onOffer : \A j \in same(i) : i <= j})

(* Hotel types whose meaning is unambiguous; the others are left unset. *)
CanonicalTypes ==
    {"hotel", "apartment", "aparthotel", "hostel", "guest_house", "bed_and_breakfast", "resort", "villa",
     "holiday_home", "homestay", "ryokan", "capsule_hotel"}

(* An option has the total of its offer: without a best price none has one. *)
NormalizeLiteApiListing(id, hotel, onOffer) ==
    [id |-> id, name |-> hotel.name, type |-> IF hotel.type \in CanonicalTypes THEN hotel.type ELSE "none",
     description |-> hotel.description,
     finePrint |-> hotel.information, facilities |-> HotelFacilities(hotel),
     rooms |-> RoomsWithOffers(hotel, onOffer), highlights |-> NearbyPlaces(hotel),
     policies |-> HotelPolicies(hotel), total |-> BestPrice(onOffer), optionPrice |-> {}]

(* What a hotel's payload says of itself and of the rooms on offer, told   *)
(* from all phrases at once and without regard to the listing built.  Of   *)
(* its flags, the code has a sentence for those it names, and for free     *)
(* parking only where there is parking.                                    *)
StatedPhrases(hotel, offered) ==
    LET true(flags, among) == {f \in DOMAIN flags \cap among : flags[f]}
        idle == IF true(hotel.flags, {"selfParking", "valet"}) = {} THEN {"freeParking"} ELSE {}
        named == (ToSet(PropertyFlags) \cup (UNION {PolicyFlags[title] : title \in ToSet(PolicyTitles)})) \ idle
        described(i) == /\ hotel.rooms[i].name # {}
                        /\ \E o \in offered : o.room = hotel.rooms[i].name
                        /\ \A j \in DOMAIN hotel.rooms \ {i} : hotel.rooms[j].name # hotel.rooms[i].name
        texts(room) == UNION ({room.name, room.size} \cup ToSet(room.amenities \o room.views \o room.beds))
    IN  (UNION ({hotel.name, hotel.information} \cup ToSet(hotel.description \o hotel.facilities \o hotel.places)))
            \cup (UNION {o.room \cup o.board : o \in offered})
            \cup true(hotel.flags, named) \cup {title \in ToSet(PolicyTitles) : PolicyContent(hotel.flags, title) # {}}
            \cup (UNION {texts(hotel.rooms[i]) \cup true(hotel.rooms[i].flags, ToSet(RoomFlags)) :
                             i \in {j \in DOMAIN hotel.rooms : described(j)}})
=============================================================================
