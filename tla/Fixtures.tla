------------------------------ MODULE Fixtures ------------------------------
(***************************************************************************)
(* The bundled sample listings (retrieval/fixtures.py), the public demo's  *)
(* only source.  A listing has a window of dates that recurs every year    *)
(* and the price of the whole window; a search gets the listings of the    *)
(* city whose window holds the stay, priced for its nights.                *)
(*                                                                         *)
(* A day is a number, a year YearLength of them: a leap day is left out.   *)
(* A sample is [city, window, price, currency, listing], window {} or      *)
(* {[from, to]}, price {} or {cents}.                                      *)
(***************************************************************************)
EXTENDS Listing

CONSTANTS
    Samples,       \* the listings of the file, in its order
    YearLength,    \* days in a year
    MaxItems       \* candidate_pool_size

ASSUME FixturesAssumption ==
    /\ {YearLength, MaxItems} \subseteq Nat \ {0}
    /\ IsList(Samples)
    /\ \A i, j \in DOMAIN Samples : Samples[i].listing.id = Samples[j].listing.id => i = j
    /\ \A x \in ToSet(Samples) :
          /\ "id" \in DOMAIN x.listing /\ IsNormalized(x.listing)
          /\ x.price \subseteq Int /\ \A p, q \in x.price : p = q
          /\ \A w \in x.window : w.from \in Int /\ w.to \in Int
          /\ \A v, w \in x.window : v = w

Year(day) == day \div YearLength

(* Mutant: a window across New Year is looked for in the stay's year only. *)
CoversDatesThisYear(window, checkIn, checkOut) ==
    \A w \in window :
        LET days == (Year(checkIn) - Year(w.from)) * YearLength
        IN  w.from + days <= checkIn /\ checkOut <= w.to + days

(* _covers_dates: the window of the stay's year, or of the year before. *)
CoversDates(window, checkIn, checkOut) ==
    \A w \in window :
        \E shift \in {Year(checkIn) - Year(w.from), Year(checkIn) - Year(w.from) - 1} :
            /\ w.from + shift * YearLength <= checkIn
            /\ checkOut <= w.to + shift * YearLength

Rounded(a, b) == (2 * a + b) \div (2 * b)

(* Mutant: the price of the window is the price of the stay. *)
PriceOfWindow(sample, nights) ==
    {[amount |-> p, currency |-> sample.currency] : p \in IF sample.window = {} THEN {} ELSE sample.price}

(* _price_for_requested_stay: no window, no price. *)
PriceForStay(sample, nights) ==
    LET priced == {x \in sample.price \X sample.window : x[2].to > x[2].from}
    IN  {[amount |-> Rounded(x[1] * nights, x[2].to - x[2].from), currency |-> sample.currency] : x \in priced}

Sampled == [i \in DOMAIN Samples |-> Candidate(Joined([total |-> {}], Samples[i].listing), i, {})]

FixtureCandidates(city, checkIn, nights) ==
    LET fits(i) == Samples[i].city = city /\ CoversDates(Samples[i].window, checkIn, checkIn + nights)
        priced(i) == [Sampled[i] EXCEPT !.total = PriceForStay(Samples[i], nights)]
    IN  FirstItems(Kept([i \in DOMAIN Samples |-> priced(i)], {i \in DOMAIN Samples : fits(i)}), MaxItems)

-----------------------------------------------------------------------------
(* For reference *)

(* Some yearly recurrence of the window holds every night of the stay. *)
Available(sample, checkIn, nights) ==
    \A w \in sample.window :
        \E year \in (Year(checkIn) - Year(w.from) - 2) .. (Year(checkIn) - Year(w.from) + 2) :
            \A night \in checkIn .. (checkIn + nights - 1) :
                night - year * YearLength \in w.from .. (w.to - 1)

(* The stay's price is the window's, night by night, to the cent. *)
SameNightlyRate(sample, total, nights) ==
    \A p \in sample.price, w \in sample.window, t \in total :
        LET off == 2 * (t.amount * (w.to - w.from) - p * nights)
        IN  off \in -(w.to - w.from) .. (w.to - w.from)
=============================================================================
