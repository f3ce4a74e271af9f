------------------------------ MODULE TurnQuota ------------------------------
(***************************************************************************)
(* What the usage limits promise, without saying how counts are stored:    *)
(* every turn ever accepted is remembered, and a turn asked for at time t  *)
(* is accepted exactly when neither the visitor's rolling window nor the   *)
(* UTC day of t is full.  UsageLedger, which deletes old rows and reads    *)
(* its clock before it opens its transaction, implements this.             *)
(***************************************************************************)
EXTENDS Integers, FiniteSets

CONSTANTS
    Visitors,             \* visitor identities (HMACs of client addresses)
    Workers,              \* threads and processes that ask for a turn
    Times,                \* the instants a clock can show
    VisitorTurns,         \* turns per visitor in a rolling window
    VisitorWindow,        \* length of the rolling window
    GlobalTurnsPerDay,    \* turns of all visitors per UTC day
    DayLength,            \* length of a UTC day
    NoDecision,           \* a worker that has not been answered
    NoCall                \* a worker that is not asking

VARIABLES
    accepted,   \* the turns accepted so far
    call,       \* for whom and for when each worker is asking
    decision    \* the last answer each worker was given

vars == <<accepted, call, decision>>

Day(t) == t \div DayLength

Turn == [id: Nat, visitor: Visitors, ts: Times]

(* Two turns of one visitor in the same instant differ in their id.        *)
NewTurn(turns, v, t) ==
    [id |-> Cardinality({a \in turns : a.visitor = v /\ a.ts = t}),
     visitor |-> v, ts |-> t]

OnDay(turns, d) == {a \in turns : Day(a.ts) = d}

(* Counted from the start of v's window onwards: a turn accepted by a      *)
(* worker whose clock is ahead counts as well.                             *)
Since(turns, v, t) == {a \in turns : a.visitor = v /\ a.ts > t - VisitorWindow}

Verdict(turns, v, t) ==
    IF Cardinality(OnDay(turns, Day(t))) >= GlobalTurnsPerDay THEN "global"
    ELSE IF Cardinality(Since(turns, v, t)) >= VisitorTurns THEN "visitor"
    ELSE "allowed"

Init ==
    /\ accepted = {}
    /\ call = [w \in Workers |-> NoCall]
    /\ decision = [w \in Workers |-> NoDecision]

Ask(w, v, t) ==
    /\ call[w] = NoCall
    /\ call' = [call EXCEPT ![w] = [visitor |-> v, ts |-> t]]
    /\ decision' = [decision EXCEPT ![w] = NoDecision]
    /\ UNCHANGED accepted

Charge(w, v, t) ==
    LET verdict == Verdict(accepted, v, t) IN
    /\ decision' = [decision EXCEPT ![w] = verdict]
    /\ accepted' = IF verdict = "allowed"
                   THEN accepted \cup {NewTurn(accepted, v, t)}
                   ELSE accepted

Decide(w) ==
    /\ call[w] # NoCall
    /\ Charge(w, call[w].visitor, call[w].ts)
    /\ call' = [call EXCEPT ![w] = NoCall]

GiveUp(w) ==
    /\ call[w] # NoCall
    /\ call' = [call EXCEPT ![w] = NoCall]
    /\ UNCHANGED <<accepted, decision>>

Next ==
    \E w \in Workers :
        \/ \E v \in Visitors, t \in Times : Ask(w, v, t)
        \/ Decide(w)
        \/ GiveUp(w)

Spec == Init /\ [][Next]_vars
=============================================================================
