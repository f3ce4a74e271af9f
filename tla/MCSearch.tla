------------------------------ MODULE MCSearch -------------------------------
(* Three LiteAPI hotels of which two are asked for, three items and three  *)
(* samples; a room that is not on offer, two catalog rooms of one name.    *)
EXTENDS Answer

Hit(field, side, length) == [field |-> field, side |-> side, length |-> length]
Mute == [says |-> {}, bedrooms |-> {}, bathrooms |-> {}, areas |-> {}]
Stating(field) == [Mute EXCEPT !.says = {Hit(field, "yes", 7)}]
Denying(field) == [Mute EXCEPT !.says = {Hit(field, "yes", 7), Hit(field, "no", 10)}]

MCPhrases ==
    [kitchen            |-> Stating("kitchen"),
     balcony            |-> Stating("balcony"),
     nonSmokingProperty |-> Stating("non_smoking"),
     selfParking        |-> Stating("parking"),
     noKitchen          |-> Denying("kitchen"),
     kitchenless        |-> [Mute EXCEPT !.says = {Hit("kitchen", "yes", 7), Hit("kitchen", "no", 11)}],
     noParking          |-> Denying("parking"),
     smokingPermitted   |-> [Mute EXCEPT !.says = {Hit("non_smoking", "no", 15)}],
     oneBathroom        |-> [Mute EXCEPT !.bathrooms = {1}],
     twoBathrooms       |-> [Mute EXCEPT !.bathrooms = {2}],
     twoBedrooms        |-> [Mute EXCEPT !.bedrooms = {2}],
     fourBedrooms       |-> [Mute EXCEPT !.bedrooms = {4}],
     ninetySqm          |-> [Mute EXCEPT !.areas = {[sqm |-> 90, scope |-> "unit"]}],
     fortySqm           |-> [Mute EXCEPT !.areas = {[sqm |-> 40, scope |-> "unit"]}],
     eighteenSqm        |-> [Mute EXCEPT !.areas = {[sqm |-> 18, scope |-> "unit"]}],
     sixtySqm           |-> [Mute EXCEPT !.areas = {[sqm |-> 60, scope |-> "unknown"]}],
     bigTerrace         |-> [Mute EXCEPT !.areas = {[sqm |-> 30, scope |-> "other"]}]]

CatalogRoom(name, amenities, flags, size) ==
    [name |-> {name}, amenities |-> amenities, flags |-> flags, views |-> <<>>, size |-> {size}, beds |-> <<>>]
Unsaid == [ff \in {} |-> TRUE]
Hotel(type, description, information, flags, rooms) ==
    [type |-> type, name |-> {"name"}, description |-> description, information |-> information,
     facilities |-> <<>>, flags |-> flags, places |-> <<>>, rooms |-> rooms]

MCHotels ==
    [flat   |-> Hotel("apartment", <<{"fourBedrooms"}, {"twoBathrooms"}>>, {}, [nonSmokingProperty |-> TRUE],
                      <<CatalogRoom("suite", <<{"twoBedrooms", "oneBathroom"}>>, [kitchen |-> TRUE], "fortySqm"),
                        CatalogRoom("loft", <<>>, [balcony |-> TRUE], "ninetySqm"),
                        CatalogRoom("loft", <<{"balcony"}>>, Unsaid, "ninetySqm")>>),
     hotel  |-> Hotel("hotel", <<{"noKitchen"}>>, {"smokingPermitted"}, [selfParking |-> FALSE],
                      <<CatalogRoom("suite", <<{"balcony"}, {"oneBathroom"}, {"bigTerrace"}>>, [kitchen |-> FALSE], "eighteenSqm")>>),
     silent |-> Hotel("castle", <<{"eighteenSqm"}>>, {}, [sauna |-> TRUE, saunaCurrentlyClosed |-> TRUE],
                      <<CatalogRoom("suite", <<>>, [kitchen |-> FALSE], "sixtySqm"),
                        CatalogRoom("penthouse", <<{"kitchen"}>>, Unsaid, "ninetySqm")>>)]

Price(amount) == {[amount |-> amount, currency |-> "USD"]}
Offer(room, amount, parts) == [room |-> {room}, board |-> {}, ssp |-> Price(amount), rates |-> parts]

(* The second hotel's cheaper offer is not the sum of its rates.           *)
MCRatesReplies ==
    {<<[hotel |-> "h0", offers |-> <<>>],
       [hotel |-> "h1", offers |-> <<Offer("suite", 200, <<Price(200)>>)>>],
       [hotel |-> "h2", offers |-> <<Offer("suite", 300, <<Price(100), Price(100)>>),
                                     Offer("loft", 400, <<Price(400)>>)>>],
       [hotel |-> "h1", offers |-> <<Offer("suite", 250, <<Price(250)>>)>>],
       [hotel |-> "h3", offers |-> <<Offer("suite", 100, <<Price(100)>>)>>]>>,
     <<>>}

Plain(id, type) ==
    [id |-> id, name |-> {"name"}, type |-> type, description |-> <<>>, finePrint |-> {}, facilities |-> <<>>,
     rooms |-> <<>>, highlights |-> <<>>, policies |-> <<>>, optionPrice |-> {}]
Scraped(key, type, groups, total) == [key |-> key, groups |-> groups, total |-> total] @@ Plain(key, type)
Group(name, overview, nested) == [name |-> name, overview |-> overview, nested |-> nested]

(* The second item is the first once more, with a price for a room only;   *)
(* the last has no id and no URL.                                          *)
MCItems ==
    [a1    |-> [Scraped(<<"id", "a1">>, "apartment",
                        <<Group({"kitchens"}, {}, <<{"kitchen"}, {}>>), Group({"parking"}, {"noParking"}, <<>>)>>,
                        Price(200)) EXCEPT
                   !.rooms = <<[name |-> {"suite"}, beds |-> <<{"twoBedrooms"}>>, options |-> <<>>,
                                facilities |-> <<[name |-> {}, overview |-> {}], [name |-> {"balcony"}, overview |-> {}]>>]>>],
     again |-> [Scraped(<<"id", "a1">>, "hotel", <<>>, {}) EXCEPT !.optionPrice = Price(600)],
     anon  |-> Scraped(<<"gen", {"name"}, <<>>>>, "none", <<Group({"selfParking"}, {}, <<>>)>>, Price(600))]

MCActorReplies == {<<"a1", "again">>, <<"again", "anon">>, <<"anon", "a1">>, <<"junk", "a1">>, <<>>}

(* The first window spans New Year; the last sample has none, and the      *)
(* price of a room that is out of the budget.                              *)
MCSamples ==
    <<[city |-> "Rome", window |-> {[from |-> 8, to |-> 13]}, price |-> {502}, currency |-> "USD",
       listing |-> [Plain(<<"id", "f1">>, "apartment") EXCEPT
                       !.rooms = <<[name |-> {"suite"}, beds |-> <<{"twoBedrooms"}>>,
                                    facilities |-> <<[name |-> {"kitchen"}, overview |-> {}]>>,
                                    options |-> <<[name |-> {"flexible"}, choices |-> <<>>, free |-> TRUE]>>]>>]],
      [city |-> "Oslo", window |-> {}, price |-> {}, currency |-> "none", listing |-> Plain(<<"id", "f2">>, "none")],
      [city |-> "Rome", window |-> {[from |-> 2, to |-> 6]}, price |-> {400}, currency |-> "USD",
       listing |-> [Plain(<<"id", "f3">>, "hotel") EXCEPT !.description = <<{"noKitchen"}, {"balcony"}>>]],
      [city |-> "Rome", window |-> {}, price |-> {300}, currency |-> "USD",
       listing |-> [Plain(<<"id", "f4">>, "hotel") EXCEPT !.description = <<{"noKitchen"}, {"kitchenless"}>>,
                                                           !.optionPrice = Price(400)]]>>

Constraint(priority, fields) == [priority |-> priority, known |-> TRUE, fields |-> fields, strategy |-> "structured", namesPart |-> FALSE]
Wish(priority) == [priority |-> priority, known |-> FALSE, fields |-> <<>>, strategy |-> "textual", namesPart |-> FALSE]

Open == [min |-> {}, max |-> {}]
NoPrice == [min |-> {}, max |-> {}, currency |-> "none", scope |-> "none"]
AnySize == [bedrooms |-> Open, bathrooms |-> Open, area_sqm |-> Open]

Ordinary ==
    [source |-> "liteapi", checkIn |-> 21, city |-> "Rome", adults |-> 2, children |-> 0, rooms |-> 1, nights |-> 2,
     constraints |-> <<Constraint("must", <<"kitchen">>)>>, types |-> <<>>, price |-> NoPrice, filters |-> AnySize]

MCRequests ==
    {[Ordinary EXCEPT !.city = "Oslo"],
     [Ordinary EXCEPT !.adults = 3],
     [Ordinary EXCEPT !.types = <<"apartment", "hotel">>, !.constraints = @ \o <<Constraint("must", <<>>)>>,
                      !.price = [min |-> {50}, max |-> {250}, currency |-> "EUR", scope |-> "per_night"],
                      !.filters = [AnySize EXCEPT !.area_sqm = [min |-> {20}, max |-> {}]]],
     [Ordinary EXCEPT !.constraints = <<Constraint("forbidden", <<"non_smoking">>), Constraint("nice", <<"balcony">>)>>],
     [Ordinary EXCEPT !.constraints = <<Constraint("must", <<"kitchen">>), Wish("must")>>,
                      !.price = [min |-> {}, max |-> {250}, currency |-> "EUR", scope |-> "none"]],
     [Ordinary EXCEPT !.constraints = <<Wish("must"), Wish("must"), Wish("must")>>],
     [Ordinary EXCEPT !.constraints = <<Wish("forbidden"), Wish("nice")>>, !.types = <<"apartment">>,
                      !.filters = [AnySize EXCEPT !.bedrooms = [min |-> {2}, max |-> {3}],
                                                  !.bathrooms = [min |-> {2}, max |-> {}]]],
     [Ordinary EXCEPT !.source = "fixtures", !.constraints = <<Constraint("must", <<"kitchen">>), Wish("nice")>>,
                      !.filters = [AnySize EXCEPT !.bedrooms = [min |-> {2}, max |-> {}]]],
     [Ordinary EXCEPT !.source = "fixtures", !.checkIn = 13, !.nights = 3, !.constraints = <<>>,
                      !.price = [min |-> {}, max |-> {120}, currency |-> "USD", scope |-> "per_night"]],
     [Ordinary EXCEPT !.source = "apify", !.types = <<"apartment", "ryokan", "hotel">>,
                      !.constraints = <<Constraint("must", <<"parking">>)>>],
     [Ordinary EXCEPT !.source = "apify", !.constraints = <<Constraint("nice", <<"kitchen">>)>>]}

MCRateTables == {[EUR |-> 2], [EUR |-> 0]}

Quote(relation, type, phrase) == [relation |-> relation, strength |-> "strong", type |-> type, snippet |-> {phrase}]
Analysis(set, supports, contradicts) ==
    [signals |-> set, support |-> supports, contradiction |-> contradicts, conflict |-> FALSE, condition |-> FALSE]

(* Silence stands for a failed call and for invalid JSON too; what is      *)
(* quoted may be in the listing at hand or not.                            *)
MCAnalyses ==
    [silence |-> Analysis({}, FALSE, FALSE),
     support |-> Analysis({Quote("supports", "direct_statement", "balcony")}, TRUE, FALSE),
     hint    |-> Analysis({Quote("supports", "measurement", "bigTerrace"),
                           Quote("supports", "associated_feature", "balcony")}, TRUE, FALSE),
     denial  |-> Analysis({Quote("contradicts", "direct_statement", "nonSmokingProperty")}, FALSE, TRUE)]

Fact(fields) == [priority |-> "must", known |-> fields # <<>>, fields |-> fields, strategy |-> "textual", namesPart |-> FALSE]

MCQueries ==
    {<<>>,
     <<Fact(<<"kitchen">>)>>,
     <<Fact(<<"parking">>), Fact(<<>>)>>,
     <<Fact(<<>>), Fact(<<>>), Fact(<<"balcony">>)>>}
=============================================================================
