----------------------------- MODULE UsageLedger -----------------------------
(***************************************************************************)
(* src/app/api/usage_limits.py, class UsageLedger: the SQLite table that   *)
(* charges one row per accepted chat turn.  Workers are the threads of     *)
(* run_in_thread and the processes that share the database file.  A call   *)
(* of try_record_turn is two steps, because the code reads its clock       *)
(* before BEGIN IMMEDIATE and may then wait for the write lock: ReadClock, *)
(* and one action per way the transaction ends.                            *)
(*                                                                         *)
(* Time is counted in ticks, TicksPerSecond to a second, so that the       *)
(* rounding of Retry-After to whole seconds is visible.                    *)
(***************************************************************************)
EXTENDS Integers, FiniteSets

CONSTANTS
    Visitors, Workers,
    VisitorTurns,        \* config.visitor_turns
    VisitorWindow,       \* config.visitor_window_seconds
    GlobalTurnsPerDay,   \* config.global_turns_per_day
    DayLength,           \* DAY_SECONDS
    Retention,           \* RETENTION_SECONDS
    BusyTimeout,         \* sqlite3.connect(timeout=5)
    TicksPerSecond,
    MaxTime,             \* bound: the clock stops here
    NoDecision, NoCall

Times == 0..MaxTime

ASSUME LedgerAssumption ==
    /\ VisitorTurns \in Nat
    /\ VisitorWindow \in Nat \ {0}
    /\ GlobalTurnsPerDay \in Nat
    /\ DayLength \in Nat \ {0}
    /\ Retention \in Nat
    /\ BusyTimeout \in Nat
    /\ TicksPerSecond \in Nat \ {0}
    /\ MaxTime \in Nat
    /\ NoDecision \notin {"allowed", "global", "visitor"}
    /\ NoCall \notin [visitor: Visitors, ts: Times]

VARIABLES
    now,        \* time.time()
    turns,      \* the rows of table turns
    accepted,   \* history: every row ever inserted
    call,       \* the try_record_turn each worker is in: for whom, and the
                \* local `now` it read; NoCall outside one
    decision    \* the scope of the LimitDecision last returned

vars == <<now, turns, accepted, call, decision>>
-----------------------------------------------------------------------------
Call == [visitor: Visitors, ts: Times]

Day(t) == t \div DayLength

Row == [id: Nat, visitor: Visitors, ts: Times]

OnDay(rows, d) == {r \in rows : Day(r.ts) = d}
(* Mutant: the window includes its first instant.                          *)
InWindowInclusive(rows, v, t) ==
    {r \in rows : r.visitor = v /\ r.ts >= t - VisitorWindow}

InWindow(rows, v, t) ==
    {r \in rows : r.visitor = v /\ r.ts > t - VisitorWindow}

(* Mutant: one turn too many per day.                                      *)
GlobalFullLate(t) ==
    Cardinality(OnDay(turns, Day(t))) > GlobalTurnsPerDay

GlobalFull(t) == Cardinality(OnDay(turns, Day(t))) >= GlobalTurnsPerDay
(* Mutant: one turn too many per window.                                   *)
VisitorFullLate(v, t) == Cardinality(InWindow(turns, v, t)) > VisitorTurns

VisitorFull(v, t) == Cardinality(InWindow(turns, v, t)) >= VisitorTurns

(* Mutant: one day of rows is kept.                                        *)
KeptOneDay(rows, t) == {r \in rows : r.ts >= t - DayLength}

Kept(rows, t) == {r \in rows : r.ts >= t - Retention}

(* max(1, int(...)) of the code, in ticks.                                 *)
WholeSeconds(ticks) ==
    IF ticks < 2 * TicksPerSecond THEN TicksPerSecond
    ELSE (ticks \div TicksPerSecond) * TicksPerSecond

UntilMidnight(t) == (Day(t) + 1) * DayLength - t

Oldest(rows, t) ==
    IF rows = {} THEN t
    ELSE CHOOSE ts \in Times : /\ \E r \in rows : r.ts = ts
                               /\ \A r \in rows : ts <= r.ts

(* Mutant: every refusal says to wait until midnight.                      *)
RetryAtMidnight(scope, v, t) == WholeSeconds(UntilMidnight(t))

RetryAfter(scope, v, t) ==
    IF scope = "global" THEN WholeSeconds(UntilMidnight(t))
    ELSE WholeSeconds(Oldest(InWindow(turns, v, t), t) + VisitorWindow - t)
-----------------------------------------------------------------------------
Init ==
    /\ now = 0
    /\ turns = {}
    /\ accepted = {}
    /\ call = [w \in Workers |-> NoCall]
    /\ decision = [w \in Workers |-> NoDecision]

(* The clock moves on, but a call that waits for the write lock longer     *)
(* than BusyTimeout does not see it: it fails first.                       *)
Tick ==
    /\ now < MaxTime
    /\ \A w \in Workers : call[w] # NoCall => now - call[w].ts < BusyTimeout
    /\ now' = now + 1
    /\ UNCHANGED <<turns, accepted, call, decision>>

(* Mutant: the clock is rounded up.                                        *)
ReadClockRoundedUp(w, v) ==
    /\ call[w] = NoCall
    /\ call' = [call EXCEPT ![w] = [visitor |-> v, ts |-> now + 1]]
    /\ decision' = [decision EXCEPT ![w] = NoDecision]
    /\ UNCHANGED <<now, turns, accepted>>

(* try_record_turn up to BEGIN IMMEDIATE.                                  *)
ReadClock(w, v) ==
    /\ call[w] = NoCall
    /\ call' = [call EXCEPT ![w] = [visitor |-> v, ts |-> now]]
    /\ decision' = [decision EXCEPT ![w] = NoDecision]
    /\ UNCHANGED <<now, turns, accepted>>

Answer(w, scope) ==
    /\ call' = [call EXCEPT ![w] = NoCall]
    /\ decision' = [decision EXCEPT ![w] = scope]
    /\ UNCHANGED now

(* The global count comes first, so a turn both limits refuse is "global". *)
RejectGlobal(w) ==
    /\ call[w] # NoCall
    /\ GlobalFull(call[w].ts)
    /\ Answer(w, "global")
    /\ UNCHANGED <<turns, accepted>>

RejectVisitor(w) ==
    /\ call[w] # NoCall
    /\ ~GlobalFull(call[w].ts)
    /\ VisitorFull(call[w].visitor, call[w].ts)
    /\ Answer(w, "visitor")
    /\ UNCHANGED <<turns, accepted>>

NewRow(v, t) ==
    [id |-> Cardinality({r \in accepted : r.visitor = v /\ r.ts = t}),
     visitor |-> v, ts |-> t]

(* INSERT, DELETE of the rows past retention, COMMIT.                      *)
Record(w) ==
    /\ call[w] # NoCall
    /\ ~GlobalFull(call[w].ts)
    /\ ~VisitorFull(call[w].visitor, call[w].ts)
    /\ LET row == NewRow(call[w].visitor, call[w].ts) IN
        /\ turns' = Kept(turns \cup {row}, call[w].ts)
        /\ accepted' = accepted \cup {row}
    /\ Answer(w, "allowed")

(* "database is locked" after BusyTimeout, any other exception (ROLLBACK), *)
(* or the process killed before COMMIT: the call leaves no trace.          *)
Abort(w) ==
    /\ call[w] # NoCall
    /\ call' = [call EXCEPT ![w] = NoCall]
    /\ UNCHANGED <<now, turns, accepted, decision>>

Next ==
    \/ Tick
    \/ \E w \in Workers :
        \/ \E v \in Visitors : ReadClock(w, v)
        \/ RejectGlobal(w)
        \/ RejectVisitor(w)
        \/ Record(w)
        \/ Abort(w)

Spec == Init /\ [][Next]_vars
-----------------------------------------------------------------------------
TypeOK ==
    /\ now \in Times
    /\ turns \in SUBSET Row /\ IsFiniteSet(turns)
    /\ accepted \in SUBSET Row /\ IsFiniteSet(accepted)
    /\ call \in [Workers -> Call \cup {NoCall}]
    /\ \A w \in Workers : call[w] # NoCall => call[w].ts <= now
    /\ decision \in [Workers -> {NoDecision, "allowed", "global", "visitor"}]

(* A visitor never has more than VisitorTurns accepted turns in any        *)
(* rolling window, whatever was deleted from the table, whatever the order *)
(* in which concurrent calls read their clocks and committed, and however  *)
(* many calls failed in between (usage_limits.py, module docstring).       *)
VisitorLimit ==
    \A v \in Visitors, t \in Times :
        Cardinality({r \in accepted : /\ r.visitor = v
                                      /\ r.ts > t - VisitorWindow
                                      /\ r.ts <= t}) <= VisitorTurns

(* No UTC day ever has more than GlobalTurnsPerDay accepted turns of all   *)
(* visitors together, concurrent calls around midnight included.           *)
GlobalLimit ==
    \A t \in Times :
        Cardinality(OnDay(accepted, Day(t))) <= GlobalTurnsPerDay

(* Retry-After is honest: whoever is refused, waits as long as told and    *)
(* one second more (the code rounds down) and meets no new turn, is not    *)
(* refused for the same reason again (usage_limits.py, the two LimitDecision *)
(* refusals of try_record_turn).                                           *)
RefusalEnds(c, scope) ==
    LET back == c.ts + RetryAfter(scope, c.visitor, c.ts) + TicksPerSecond
    IN  IF scope = "global" THEN Day(back) > Day(c.ts)
        ELSE VisitorTurns > 0 =>
                Cardinality({r \in InWindow(turns, c.visitor, back) :
                                r.ts <= c.ts}) < VisitorTurns
RetryAfterIsEnough ==
    [][\A w \in Workers :
        (call[w] # NoCall /\ decision'[w] \in {"global", "visitor"})
            => RefusalEnds(call[w], decision'[w])]_vars

(* The comment on RETENTION_SECONDS: "Rows older than this are no longer   *)
(* needed by either limit" - every accepted turn that a call in progress   *)
(* may have to count is still in the table.                                *)
OldRowsNotNeeded ==
    \A w \in Workers : call[w] # NoCall =>
        /\ OnDay(turns, Day(call[w].ts)) = OnDay(accepted, Day(call[w].ts))
        /\ \A v \in Visitors :
            InWindow(turns, v, call[w].ts) = InWindow(accepted, v, call[w].ts)

(* The ledger with its deletions and its early clock decides exactly as    *)
(* one that remembers every turn: it never accepts what the limits forbid  *)
(* and never refuses what they allow (try_record_turn).                    *)
Quota == INSTANCE TurnQuota
ImplementsQuota == Quota!Spec
=============================================================================
