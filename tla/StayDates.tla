------------------------------ MODULE StayDates -------------------------------
(***************************************************************************)
(* How the dates a model reads from a message become a stay                *)
(* (src/app/logic/date_normalization.py).  A model always writes a year,   *)
(* whether the user did or not; which of the two dates really has one is   *)
(* decided from how often that year stands in the user's own text.         *)
(*                                                                         *)
(* A day is a number; a year has YearLength of them, each with its place   *)
(* in the year (every place exists in every year: February 29 is left      *)
(* out).  What was said of the dates is                                    *)
(*   [check_in, check_out, nights, written],                               *)
(* where a date is [year, day], and nonsense when no year has that day,    *)
(* and `written` is how often the text has each year.  An optional date or *)
(* number is a set with at most one element.                               *)
(***************************************************************************)
EXTENDS Integers, FiniteSets

CONSTANTS
    YearLength,     \* days of a year
    MaxInferred     \* MAX_INFERRED_STAY_NIGHTS

ASSUME StayDatesAssumption ==
    /\ YearLength \in Nat \ {0}
    /\ MaxInferred \in 1..YearLength

YearOf(date) == date \div YearLength
DayOf(date) == date % YearLength
The(set) == CHOOSE x \in set : TRUE

ExactDate(raw) == raw.year * YearLength + raw.day

NextOccurrence(day, from) ==
    LET date == YearOf(from) * YearLength + day IN
    IF date >= from THEN date ELSE date + YearLength

IsNonsense(raw) == raw.day \notin 0..(YearLength - 1)

CheckInYearStated(said) == \E raw \in said.check_in : said.written[raw.year] > 0

(* A year written once and copied onto both dates belongs to check-in.     *)
CheckOutYearStated(said) ==
    \E raw \in said.check_out :
        LET count == said.written[raw.year] IN
        /\ count > 0
        /\ (\E from \in said.check_in : from.year = raw.year) => count >= 2

Stay(check_in, check_out) ==
    [issue |-> "none", check_in |-> check_in, check_out |-> check_out]
Refused(issue) == [issue |-> issue, check_in |-> {}, check_out |-> {}]

ResolvedCheckIn(said, today) ==
    {IF CheckInYearStated(said) THEN ExactDate(raw) ELSE NextOccurrence(raw.day, today) :
        raw \in said.check_in}

(* The first of two optional dates that is there.                          *)
Or(date, other) == IF date # {} THEN date ELSE other

(* The check-out of a stay that starts at `start` (the check-in, or that   *)
(* of the search being changed), or today when nobody said.                *)
ResolvedCheckOut(said, start, today) ==
    {IF CheckOutYearStated(said) THEN ExactDate(raw)
     ELSE NextOccurrence(raw.day, The(Or(start, {today}))) : raw \in said.check_out}

(* "April 15 to April 10": the check-out was found only a year later.      *)
RolledOver(said, start, today) ==
    /\ ~CheckOutYearStated(said)
    /\ \E to \in ResolvedCheckOut(said, start, today) :
         LET from == The(Or(start, {today})) IN
         YearOf(to) > YearOf(from) /\ to - from > MaxInferred

(* resolve_stay_dates                                                      *)
ResolveStayDates(said, today, anchor) ==
    LET check_in == ResolvedCheckIn(said, today)
        start == Or(check_in, anchor)
        check_out == Or(ResolvedCheckOut(said, start, today),
                        {day + n : day \in check_in, n \in said.nights})
    IN IF \E raw \in said.check_in \cup said.check_out : IsNonsense(raw) THEN Refused("invalid_date")
       ELSE IF \E n \in said.nights : n <= 0 THEN Refused("non_positive_nights")
       ELSE IF \/ RolledOver(said, start, today)
               \/ \E from \in start, to \in check_out : to <= from
            THEN Refused("check_out_not_after_check_in")
       ELSE IF (\E day \in check_in : day < today) \/ (\E day \in check_out : day <= today)
            THEN Refused("in_the_past")
       ELSE Stay(check_in, check_out)
===============================================================================
