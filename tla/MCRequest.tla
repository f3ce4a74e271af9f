------------------------------ MODULE MCRequest -------------------------------
(* Five conversations: about the calls themselves, about dates, about      *)
(* requirements, about the budget, and about the rest of a search.         *)
EXTENDS Request

MCScenarios == {"calls", "dates", "requirements", "budget", "slots"}

MCRaises == [s \in MCScenarios |-> IF s = "calls" THEN Exceptions ELSE {}]

MCDays == [s \in MCScenarios |-> IF s = "dates" THEN {2, 3, 4} ELSE {3}]

Written(first, second) == [year \in 0..1 |-> IF year = 0 THEN first ELSE second]
Date(year, day) == [year |-> year, day |-> day]

(* In the first year the days from today on, in the second all of them.    *)
City == [Nothing EXCEPT !.city = {"Rome"}, !.written = Written(0, 0)]
ForNights(n) == [City EXCEPT !.check_in = {Date(0, 3)}, !.nights = {n}]
-----------------------------------------------------------------------------
Undated == {{Date(0, day)} : day \in 0..3}
Dated == {{Date(year, day)} : year \in 0..1, day \in {1, 3}}

(* Without a year; with one written once or twice; nights; nonsense.       *)
SaidDates ==
    {[Nothing EXCEPT !.check_in = from, !.check_out = to, !.written = Written(0, 0)] :
        from \in Undated \cup {{}}, to \in Undated \cup {{}, {Date(0, 9)}}}
    \cup {[Nothing EXCEPT !.check_in = from, !.check_out = to, !.written = w] :
        from \in Dated \cup {{}}, to \in Dated \cup {{}},
        w \in {Written(1, 0), Written(0, 1), Written(0, 2), Written(1, 1)}}
    \cup {[Nothing EXCEPT !.check_in = from, !.nights = {n}, !.written = Written(0, 0)] :
        from \in Undated \cup {{}}, n \in {0, 1, 2}}
    \cup {[Nothing EXCEPT !.check_out = {Date(0, 1)}, !.nights = {2}, !.written = Written(0, 0)]}

Cleared(messages) == messages \cup {[said EXCEPT !.clear_dates = TRUE] : said \in messages}
InRome(messages) == {[said EXCEPT !.city = {"Rome"}] : said \in messages}
-----------------------------------------------------------------------------
Requirement(text, raw, category, priority, fields) ==
    [text |-> text, raw |-> raw, category |-> category, priority |-> priority,
     known |-> fields # {}, fields |-> fields,
     strategy |-> IF fields = {} THEN "textual" ELSE "structured"]

Parking(priority, fields) == Requirement("parking", "a garage", "amenity", priority, fields)

Offered ==
    {Parking("must", {"parking"}), Parking("nice", {}), Parking("forbidden", {}),
     Requirement("parking", "parking", "other", "must", {}),
     Requirement("breakfast", "breakfast", "amenity", "must", {"coffee_machine"}),
     [Requirement("quiet", "quiet", "other", "nice", {}) EXCEPT !.known = TRUE]}

Lists == {<<>>} \cup {<<c>> : c \in Offered} \cup {<<c, d>> : c, d \in Offered}

Requirements(dates) ==
    {[dates EXCEPT !.add_constraints = list, !.remove_texts = texts] :
        list \in Lists, texts \in {{}, {"parking"}, {"a garage"}, {"quiet", "breakfast"}}}
-----------------------------------------------------------------------------
Price(min, max, scope) == [min |-> min, max |-> max, scope |-> scope]

(* 90 a month, which the model may make a price of 90 or of 3 a night.     *)
Prices == {NoPrice, Price({}, {}, {"per_night"}), Price({}, {5}, {}), Price({}, {5}, {"total_stay"}),
           Price({5}, {90}, {"per_night"}), Price({}, {3}, {"per_night"}), Price({2}, {}, {})}

Budgets(dates) ==
    {[dates EXCEPT !.filters = [bedrooms_min |-> {}, price |-> price], !.period = period,
                   !.numbers = numbers, !.clear_filters = clear, !.remove_texts = texts] :
        price \in Prices, period \in {{}, {"budget per month"}},
        numbers \in {{}, {5}, {2, 5}}, clear \in BOOLEAN, texts \in {{}, {"budget per month"}}}

Slots(dates) ==
    {[dates EXCEPT !.city = city, !.clear_city = clear, !.add_types = add, !.remove_types = remove,
                   !.filters = [bedrooms_min |-> bedrooms, price |-> NoPrice],
                   !.clear_filters = clear] :
        city \in {{}, {"Rome"}, {"Oslo"}}, clear \in BOOLEAN, bedrooms \in {{}, {1}, {2}},
        add \in {{}, {"flat"}}, remove \in {{}, {"flat"}, {"hotel"}}}
-----------------------------------------------------------------------------
Longer == [Nothing EXCEPT !.nights = {2}, !.written = Written(0, 0)]

MCIntents ==
    [calls |-> {ForNights(1)},
     dates |-> InRome(SaidDates),
     requirements |-> Requirements(ForNights(1)),
     budget |-> Budgets(ForNights(1)) \cup Budgets(ForNights(2)),
     slots |-> {said \in Slots(ForNights(1)) : said.remove_types = {}}]

MCMessages ==
    [calls |-> {Longer},
     dates |-> Cleared(SaidDates),
     requirements |-> Requirements(Nothing),
     budget |-> Budgets(Nothing) \cup {Longer},
     slots |-> Slots(Nothing)]
===============================================================================
