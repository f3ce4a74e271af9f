-------------------------- MODULE UsageLedgerProofs --------------------------
(***************************************************************************)
(* The rows the ledger deletes are never missed, and so it decides as the  *)
(* abstract quota does and says truly when a refusal ends, as long as      *)
(* retention covers the window and the day and the time a call may wait    *)
(* for the write lock.                                                     *)
(***************************************************************************)
EXTENDS UsageLedger, TLAPS, FiniteSetTheorems, WellFoundedInduction

(* What RETENTION_SECONDS = 2 * DAY_SECONDS has to be enough for.          *)
RetentionCovers ==
    /\ VisitorWindow + BusyTimeout <= Retention
    /\ DayLength + BusyTimeout <= Retention

(* A call has not waited longer than the database lets it.                 *)
CallsAreFresh ==
    \A w \in Workers : call[w] # NoCall => now - call[w].ts <= BusyTimeout

(* What is no longer in the table is past retention by now.                *)
DeletedAreOld ==
    /\ turns \subseteq accepted
    /\ \A r \in accepted \ turns : r.ts < now - Retention

IInv == CallsAreFresh /\ DeletedAreOld

LEMMA NewRowType ==
    ASSUME TypeOK, NEW v \in Visitors, NEW t \in Times
    PROVE  NewRow(v, t) \in Row
<1>1. IsFiniteSet({r \in accepted : r.visitor = v /\ r.ts = t})
  BY FS_Subset DEF TypeOK
<1>2. Cardinality({r \in accepted : r.visitor = v /\ r.ts = t}) \in Nat
  BY <1>1, FS_CardinalityType
<1> QED
  BY <1>2 DEF NewRow, Row

LEMMA NextTypeOK == TypeOK /\ [Next]_vars => TypeOK'
<1> SUFFICES ASSUME TypeOK, [Next]_vars PROVE TypeOK'
  OBVIOUS
<1> USE LedgerAssumption
<1>1. CASE Tick
  BY <1>1 DEF Tick, TypeOK, Times, Call
<1>2. ASSUME NEW w \in Workers, NEW v \in Visitors, ReadClock(w, v)
      PROVE  TypeOK'
  BY <1>2 DEF ReadClock, TypeOK, Times, Call
<1>3. ASSUME NEW w \in Workers, NEW scope \in {"global", "visitor"},
             Answer(w, scope), UNCHANGED <<turns, accepted>>
      PROVE  TypeOK'
  BY <1>3 DEF Answer, TypeOK
<1>4. ASSUME NEW w \in Workers, Record(w) PROVE TypeOK'
  <2> DEFINE row == NewRow(call[w].visitor, call[w].ts)
  <2>1. row \in Row
    BY <1>4, NewRowType DEF Record, TypeOK, Call
  <2>2. /\ turns' = Kept(turns \cup {row}, call[w].ts)
        /\ accepted' = accepted \cup {row}
        /\ Answer(w, "allowed")
    BY <1>4 DEF Record
  <2>3. IsFiniteSet(accepted \cup {row}) /\ IsFiniteSet(turns \cup {row})
    BY FS_AddElement DEF TypeOK
  <2>4. turns' \in SUBSET Row /\ IsFiniteSet(turns')
    BY <2>1, <2>2, <2>3, FS_Subset DEF Kept, TypeOK
  <2>5. accepted' \in SUBSET Row /\ IsFiniteSet(accepted')
    BY <2>1, <2>2, <2>3 DEF TypeOK
  <2> QED
    BY <2>2, <2>4, <2>5 DEF Answer, TypeOK
<1>5. ASSUME NEW w \in Workers, Abort(w) PROVE TypeOK'
  BY <1>5 DEF Abort, TypeOK
<1>6. CASE UNCHANGED vars
  BY <1>6 DEF vars, TypeOK
<1> QED
  BY <1>1, <1>2, <1>3, <1>4, <1>5, <1>6 DEF Next, RejectGlobal, RejectVisitor

(* Every reachable state of the ledger has the type TypeOK states, with    *)
(* finitely many rows and no call from the future.                         *)
THEOREM TypeCorrect == Spec => []TypeOK
<1>1. Init => TypeOK
  BY LedgerAssumption, FS_EmptySet DEF Init, TypeOK, Times
<1> QED
  BY <1>1, NextTypeOK, PTL DEF Spec

LEMMA NextIInv == TypeOK /\ IInv /\ [Next]_vars => IInv'
<1> SUFFICES ASSUME TypeOK, IInv, [Next]_vars PROVE IInv'
  OBVIOUS
<1> USE LedgerAssumption DEF IInv, CallsAreFresh, DeletedAreOld
<1>1. CASE Tick
  BY <1>1 DEF Tick, TypeOK, Times, Call, Row
<1>2. ASSUME NEW w \in Workers, NEW v \in Visitors, ReadClock(w, v)
      PROVE  IInv'
  BY <1>2 DEF ReadClock, TypeOK, Times
<1>3. ASSUME NEW w \in Workers, NEW scope, Answer(w, scope),
             UNCHANGED <<turns, accepted>>
      PROVE  IInv'
  BY <1>3 DEF Answer, TypeOK
<1>4. ASSUME NEW w \in Workers, Record(w) PROVE IInv'
  <2> DEFINE row == NewRow(call[w].visitor, call[w].ts)
  <2>1. row \in Row /\ call[w] \in Call /\ call[w].ts <= now
    BY <1>4, NewRowType DEF Record, TypeOK, Call
  <2>2. /\ turns' = Kept(turns \cup {row}, call[w].ts)
        /\ accepted' = accepted \cup {row}
        /\ Answer(w, "allowed")
    BY <1>4 DEF Record
  <2>3. CallsAreFresh'
    BY <2>2 DEF Answer, TypeOK
  <2>4. turns' \subseteq accepted'
    BY <2>2 DEF Kept
  <2>5. ASSUME NEW r \in accepted' \ turns'
        PROVE  r.ts < now' - Retention
    <3>1. r \in Row
      BY <2>1, <2>2 DEF TypeOK
    <3>2. r.ts < call[w].ts - Retention \/ r \in accepted \ turns
      BY <2>1, <2>2, <3>1 DEF Kept, Row, Call, Times
    <3> QED
      BY <2>1, <2>2, <3>1, <3>2 DEF Answer, Row, Call, Times, TypeOK
  <2> QED
    BY <2>3, <2>4, <2>5
<1>5. ASSUME NEW w \in Workers, Abort(w) PROVE IInv'
  BY <1>5 DEF Abort, TypeOK
<1>6. CASE UNCHANGED vars
  BY <1>6 DEF vars
<1> QED
  BY <1>1, <1>2, <1>3, <1>4, <1>5, <1>6 DEF Next, RejectGlobal, RejectVisitor

LEMMA DivBounds ==
    ASSUME NEW a \in Nat, NEW d \in Nat \ {0}
    PROVE  /\ a \div d \in Nat
           /\ d * (a \div d) <= a
           /\ a < d * (a \div d) + d
OBVIOUS

(* Two instants a whole day apart are not on one day.                      *)
LEMMA DaysApart ==
    ASSUME NEW a \in Nat, NEW b \in Nat, a + DayLength <= b
    PROVE  Day(a) # Day(b)
<1>1. DayLength \in Nat \ {0}
  BY LedgerAssumption
<1> QED
  BY <1>1, DivBounds DEF Day

LEMMA NothingMissing ==
    ASSUME TypeOK, IInv, RetentionCovers, NEW w \in Workers, call[w] # NoCall
    PROVE  /\ OnDay(turns, Day(call[w].ts)) = OnDay(accepted, Day(call[w].ts))
           /\ \A v \in Visitors :
                InWindow(turns, v, call[w].ts) = InWindow(accepted, v, call[w].ts)
<1> DEFINE t == call[w].ts
<1>1. t \in Times /\ t <= now /\ now - t <= BusyTimeout /\ now \in Times
  BY DEF TypeOK, Call, IInv, CallsAreFresh
<1>2. ASSUME NEW r \in accepted \ turns
      PROVE  r.ts \in Nat /\ r.ts + DayLength <= t /\ r.ts <= t - VisitorWindow
  <2>1. r.ts < now - Retention
    BY <1>2 DEF IInv, DeletedAreOld
  <2>2. r.ts \in Times
    BY <1>2 DEF TypeOK, Row
  <2> QED
    BY <1>1, <2>1, <2>2, LedgerAssumption DEF RetentionCovers, Times
<1>3. \A r \in accepted \ turns : Day(r.ts) # Day(t)
  BY <1>1, <1>2, DaysApart DEF Times
<1>4. turns \subseteq accepted
  BY DEF IInv, DeletedAreOld
<1>5. OnDay(turns, Day(t)) = OnDay(accepted, Day(t))
  BY <1>3, <1>4 DEF OnDay
<1>6. \A r \in accepted \ turns : ~(r.ts > t - VisitorWindow)
  BY <1>1, <1>2, LedgerAssumption DEF Times
<1>7. \A v \in Visitors : InWindow(turns, v, t) = InWindow(accepted, v, t)
  BY <1>4, <1>6 DEF InWindow
<1> QED
  BY <1>5, <1>7

LEMMA InitIInv == Init => IInv
BY DEF Init, IInv, CallsAreFresh, DeletedAreOld

(* The comment on RETENTION_SECONDS is right while it covers the window    *)
(* and the day: no row is deleted that a call in progress has to count.    *)
THEOREM RetentionSuffices ==
    ASSUME RetentionCovers
    PROVE  Spec => []OldRowsNotNeeded
<1>1. TypeOK /\ IInv => OldRowsNotNeeded
  BY NothingMissing DEF OldRowsNotNeeded
<1> QED
  BY <1>1, InitIInv, NextIInv, TypeCorrect, PTL DEF Spec

-----------------------------------------------------------------------------
(* The limits themselves.  What a call counts may be more than the window  *)
(* that ends with its own turn: calls commit in another order than they    *)
(* read their clocks.                                                      *)

VisitorWindowAt(rows, v, t) ==
    {r \in rows : r.visitor = v /\ r.ts > t - VisitorWindow /\ r.ts <= t}

LEMMA OneMoreFits ==
    ASSUME NEW S, IsFiniteSet(S), NEW x, NEW n \in Nat, Cardinality(S) < n
    PROVE  Cardinality(S \cup {x}) <= n
<1>1. Cardinality(S) \in Nat
  BY FS_CardinalityType
<1>2. Cardinality(S \cup {x}) = IF x \in S THEN Cardinality(S) ELSE Cardinality(S) + 1
  BY FS_AddElement
<1> QED
  BY <1>1, <1>2

LEMMA RecordKeepsGlobalLimit ==
    ASSUME TypeOK, IInv, RetentionCovers, GlobalLimit, NEW w \in Workers, Record(w)
    PROVE  GlobalLimit'
<1> DEFINE row == NewRow(call[w].visitor, call[w].ts)
           d == Day(call[w].ts)
<1>1. row.ts = call[w].ts /\ accepted' = accepted \cup {row}
  BY DEF Record, NewRow
<1>2. IsFiniteSet(OnDay(accepted, d))
  BY FS_Subset DEF OnDay, TypeOK
<1>3. Cardinality(OnDay(accepted, d)) < GlobalTurnsPerDay
  <2>1. OnDay(turns, d) = OnDay(accepted, d)
    BY NothingMissing DEF Record
  <2>2. Cardinality(OnDay(accepted, d)) \in Nat
    BY <1>2, FS_CardinalityType
  <2>3. ~(Cardinality(OnDay(turns, d)) >= GlobalTurnsPerDay)
    BY DEF Record, GlobalFull
  <2> QED
    BY <2>1, <2>2, <2>3, LedgerAssumption
<1> SUFFICES ASSUME NEW t \in Times
             PROVE  Cardinality(OnDay(accepted', Day(t))) <= GlobalTurnsPerDay
  BY DEF GlobalLimit
<1>4. CASE Day(t) = d
  <2>1. OnDay(accepted', Day(t)) = OnDay(accepted, d) \cup {row}
    BY <1>1, <1>4 DEF OnDay
  <2> QED
    BY <1>2, <1>3, <2>1, OneMoreFits, LedgerAssumption
<1>5. CASE Day(t) # d
  <2>1. OnDay(accepted', Day(t)) = OnDay(accepted, Day(t))
    BY <1>1, <1>5 DEF OnDay
  <2> QED
    BY <2>1 DEF GlobalLimit
<1> QED
  BY <1>4, <1>5

LEMMA RecordKeepsVisitorLimit ==
    ASSUME TypeOK, IInv, RetentionCovers, VisitorLimit, NEW w \in Workers, Record(w)
    PROVE  VisitorLimit'
<1> DEFINE u == call[w].visitor
           s == call[w].ts
           row == NewRow(u, s)
<1>1. /\ row.visitor = u /\ row.ts = s
      /\ accepted' = accepted \cup {row}
      /\ u \in Visitors /\ s \in Times
  BY DEF Record, NewRow, TypeOK, Call
<1>2. IsFiniteSet(InWindow(accepted, u, s))
  BY FS_Subset DEF InWindow, TypeOK
<1>3. Cardinality(InWindow(accepted, u, s)) < VisitorTurns
  <2>1. InWindow(turns, u, s) = InWindow(accepted, u, s)
    BY <1>1, NothingMissing DEF Record
  <2>2. Cardinality(InWindow(accepted, u, s)) \in Nat
    BY <1>2, FS_CardinalityType
  <2>3. ~(Cardinality(InWindow(turns, u, s)) >= VisitorTurns)
    BY DEF Record, VisitorFull
  <2> QED
    BY <2>1, <2>2, <2>3, LedgerAssumption
<1> SUFFICES ASSUME NEW v \in Visitors, NEW t \in Times
             PROVE  Cardinality(VisitorWindowAt(accepted', v, t)) <= VisitorTurns
  BY DEF VisitorLimit, VisitorWindowAt
<1>4. CASE row \in VisitorWindowAt(accepted', v, t)
  <2>1. v = u /\ s > t - VisitorWindow /\ s <= t
    BY <1>1, <1>4 DEF VisitorWindowAt
  <2>2. VisitorWindowAt(accepted, v, t) \subseteq InWindow(accepted, u, s)
    <3>1. ASSUME NEW r \in accepted, r.ts > t - VisitorWindow
          PROVE  r.ts > s - VisitorWindow
      <4>1. r.ts \in Int
        BY <3>1 DEF TypeOK, Row, Times
      <4> QED
        BY <1>1, <2>1, <3>1, <4>1, LedgerAssumption DEF Times
    <3> QED
      BY <2>1, <3>1 DEF VisitorWindowAt, InWindow
  <2>3. /\ IsFiniteSet(VisitorWindowAt(accepted, v, t))
        /\ Cardinality(VisitorWindowAt(accepted, v, t)) <= Cardinality(InWindow(accepted, u, s))
    BY <1>2, <2>2, FS_Subset
  <2>4. Cardinality(VisitorWindowAt(accepted, v, t)) < VisitorTurns
    BY <1>2, <1>3, <2>3, FS_CardinalityType, LedgerAssumption
  <2>5. VisitorWindowAt(accepted', v, t) = VisitorWindowAt(accepted, v, t) \cup {row}
    BY <1>1, <1>4 DEF VisitorWindowAt
  <2> QED
    BY <2>3, <2>4, <2>5, OneMoreFits, LedgerAssumption
<1>5. CASE row \notin VisitorWindowAt(accepted', v, t)
  <2>1. VisitorWindowAt(accepted', v, t) = VisitorWindowAt(accepted, v, t)
    BY <1>1, <1>5 DEF VisitorWindowAt
  <2> QED
    BY <2>1 DEF VisitorLimit, VisitorWindowAt
<1> QED
  BY <1>4, <1>5

LEMMA NextLimits ==
    ASSUME TypeOK, IInv, RetentionCovers, GlobalLimit, VisitorLimit, [Next]_vars
    PROVE  GlobalLimit' /\ VisitorLimit'
<1>1. ASSUME NEW w \in Workers, Record(w) PROVE GlobalLimit' /\ VisitorLimit'
  BY <1>1, RecordKeepsGlobalLimit, RecordKeepsVisitorLimit
<1>2. CASE UNCHANGED accepted
  BY <1>2 DEF GlobalLimit, VisitorLimit, OnDay
<1> QED
  BY <1>1, <1>2 DEF Next, vars, Tick, ReadClock, RejectGlobal, RejectVisitor, Answer, Abort

LEMMA InitLimits == Init => GlobalLimit /\ VisitorLimit
<1> SUFFICES ASSUME Init PROVE GlobalLimit /\ VisitorLimit
  OBVIOUS
<1>1. accepted = {}
  BY DEF Init
<1>2. Cardinality({}) = 0 /\ 0 <= GlobalTurnsPerDay /\ 0 <= VisitorTurns
  BY FS_EmptySet, LedgerAssumption
<1>3. \A t \in Times : OnDay(accepted, Day(t)) = {}
  BY <1>1 DEF OnDay
<1>4. \A v \in Visitors, t \in Times : VisitorWindowAt(accepted, v, t) = {}
  BY <1>1 DEF VisitorWindowAt
<1> QED
  BY <1>2, <1>3, <1>4 DEF GlobalLimit, VisitorLimit, VisitorWindowAt

(* While retention suffices no visitor has more turns than allowed in any  *)
(* rolling window, whatever commits in which order (try_record_turn).      *)
THEOREM VisitorsAreLimited ==
    ASSUME RetentionCovers
    PROVE  Spec => []VisitorLimit
<1>1. TypeOK /\ IInv /\ GlobalLimit /\ VisitorLimit /\ [Next]_vars
        => GlobalLimit' /\ VisitorLimit'
  BY NextLimits
<1> QED
  BY <1>1, InitLimits, InitIInv, NextIInv, TypeCorrect, PTL DEF Spec

(* Nor do all visitors together on any day (try_record_turn).              *)
THEOREM DaysAreLimited ==
    ASSUME RetentionCovers
    PROVE  Spec => []GlobalLimit
<1>1. TypeOK /\ IInv /\ GlobalLimit /\ VisitorLimit /\ [Next]_vars
        => GlobalLimit' /\ VisitorLimit'
  BY NextLimits
<1> QED
  BY <1>1, InitLimits, InitIInv, NextIInv, TypeCorrect, PTL DEF Spec

-----------------------------------------------------------------------------
(* The instance counts as this module does.                                *)
LEMMA SameCardinality == \A S : Quota!Cardinality(S) = Cardinality(S)
BY DEF Quota!Cardinality, Cardinality, Quota!IsFiniteSet, IsFiniteSet

(* Each step of the ledger is the step of the abstract quota it stands for. *)
LEMMA StepRefines ==
    ASSUME TypeOK, IInv, RetentionCovers, [Next]_vars
    PROVE  [Quota!Next]_(Quota!vars)
<1> USE DEF Quota!vars
<1>1. CASE Tick
  BY <1>1 DEF Tick
<1>2. ASSUME NEW w \in Workers, NEW v \in Visitors, ReadClock(w, v)
      PROVE  Quota!Next
  <2>1. now \in Times
    BY DEF TypeOK
  <2>2. Quota!Ask(w, v, now)
    BY <1>2 DEF ReadClock, Quota!Ask
  <2> QED
    BY <2>1, <2>2 DEF Quota!Next
<1>3. ASSUME NEW w \in Workers, call[w] # NoCall
      PROVE  Quota!Verdict(accepted, call[w].visitor, call[w].ts) =
                IF GlobalFull(call[w].ts) THEN "global"
                ELSE IF VisitorFull(call[w].visitor, call[w].ts) THEN "visitor"
                ELSE "allowed"
  <2>1. call[w].visitor \in Visitors
    BY <1>3 DEF TypeOK, Call
  <2>2. Quota!OnDay(accepted, Quota!Day(call[w].ts))
            = OnDay(accepted, Day(call[w].ts))
    BY DEF Quota!OnDay, Quota!Day, OnDay, Day
  <2>3. Quota!Since(accepted, call[w].visitor, call[w].ts)
            = InWindow(accepted, call[w].visitor, call[w].ts)
    BY DEF Quota!Since, InWindow
  <2>4. /\ Cardinality(Quota!OnDay(accepted, Quota!Day(call[w].ts)))
                >= GlobalTurnsPerDay <=> GlobalFull(call[w].ts)
        /\ Cardinality(Quota!Since(accepted, call[w].visitor, call[w].ts))
                >= VisitorTurns <=> VisitorFull(call[w].visitor, call[w].ts)
    BY <1>3, <2>1, <2>2, <2>3, NothingMissing DEF GlobalFull, VisitorFull
  <2> QED
    BY <2>4, SameCardinality DEF Quota!Verdict
<1>4. ASSUME NEW w \in Workers, RejectGlobal(w) PROVE Quota!Next
  <2>1. Quota!Verdict(accepted, call[w].visitor, call[w].ts) = "global"
    BY <1>3, <1>4 DEF RejectGlobal
  <2>2. Quota!Decide(w)
    BY <1>4, <2>1 DEF RejectGlobal, Answer, Quota!Decide, Quota!Charge
  <2> QED
    BY <2>2 DEF Quota!Next
<1>5. ASSUME NEW w \in Workers, RejectVisitor(w) PROVE Quota!Next
  <2>1. Quota!Verdict(accepted, call[w].visitor, call[w].ts) = "visitor"
    BY <1>3, <1>5 DEF RejectVisitor
  <2>2. Quota!Decide(w)
    BY <1>5, <2>1 DEF RejectVisitor, Answer, Quota!Decide, Quota!Charge
  <2> QED
    BY <2>2 DEF Quota!Next
<1>6. ASSUME NEW w \in Workers, Record(w) PROVE Quota!Next
  <2>1. Quota!Verdict(accepted, call[w].visitor, call[w].ts) = "allowed"
    BY <1>3, <1>6 DEF Record
  <2>2. NewRow(call[w].visitor, call[w].ts)
            = Quota!NewTurn(accepted, call[w].visitor, call[w].ts)
    <3>1. {a \in accepted : a.visitor = call[w].visitor /\ a.ts = call[w].ts}
            = {r \in accepted : r.visitor = call[w].visitor /\ r.ts = call[w].ts}
      OBVIOUS
    <3> QED
      BY <3>1, SameCardinality DEF NewRow, Quota!NewTurn
  <2>3. Quota!Decide(w)
    BY <1>6, <2>1, <2>2 DEF Record, Answer, Quota!Decide, Quota!Charge
  <2> QED
    BY <2>3 DEF Quota!Next
<1>7. ASSUME NEW w \in Workers, Abort(w) PROVE Quota!Next
  <2>1. Quota!GiveUp(w)
    BY <1>7 DEF Abort, Quota!GiveUp
  <2> QED
    BY <2>1 DEF Quota!Next
<1>8. CASE UNCHANGED vars
  BY <1>8 DEF vars
<1> QED
  BY <1>1, <1>2, <1>4, <1>5, <1>6, <1>7, <1>8 DEF Next

(* The ledger implements the abstract quota: deleting rows, and reading    *)
(* the clock before waiting for the lock, change no decision.              *)
THEOREM LedgerImplementsQuota ==
    ASSUME RetentionCovers
    PROVE  Spec => ImplementsQuota
<1>1. Init => Quota!Init
  BY DEF Init, Quota!Init
<1>2. TypeOK /\ IInv /\ [Next]_vars => [Quota!Next]_(Quota!vars)
  BY StepRefines
<1> QED
  BY <1>1, <1>2, InitIInv, NextIInv, TypeCorrect, PTL
     DEF Spec, ImplementsQuota, Quota!Spec, Quota!vars
-----------------------------------------------------------------------------
(* Retry-After.  A call in progress has no decision yet, so a step that    *)
(* leaves a refusal behind is the refusal of that very call.               *)
Undecided == \A w \in Workers : call[w] # NoCall => decision[w] = NoDecision

LEMMA NextUndecided == TypeOK /\ Undecided /\ [Next]_vars => Undecided'
<1> SUFFICES ASSUME TypeOK, Undecided, [Next]_vars PROVE Undecided'
  OBVIOUS
<1>1. ASSUME NEW w \in Workers, NEW v \in Visitors, ReadClock(w, v)
      PROVE  Undecided'
  BY <1>1 DEF ReadClock, Undecided, TypeOK
<1>2. ASSUME NEW w \in Workers, NEW scope, Answer(w, scope)
      PROVE  Undecided'
  BY <1>2 DEF Answer, Undecided, TypeOK
<1>3. ASSUME NEW w \in Workers, Abort(w) PROVE Undecided'
  BY <1>3 DEF Abort, Undecided, TypeOK
<1>4. CASE Tick \/ UNCHANGED vars
  BY <1>4 DEF Tick, vars, Undecided
<1> QED
  BY <1>1, <1>2, <1>3, <1>4 DEF Next, RejectGlobal, RejectVisitor, Record

(* The code rounds a wait down to whole seconds, but never by a second.    *)
LEMMA RoundingLosesASecond ==
    ASSUME NEW x \in Nat \ {0}
    PROVE  WholeSeconds(x) \in Nat /\ WholeSeconds(x) + TicksPerSecond > x
<1>1. TicksPerSecond \in Nat \ {0}
  BY LedgerAssumption
<1>2. CASE x < 2 * TicksPerSecond
  BY <1>1, <1>2 DEF WholeSeconds
<1>3. CASE ~(x < 2 * TicksPerSecond)
  <2>1. WholeSeconds(x) = TicksPerSecond * (x \div TicksPerSecond)
    BY <1>1, <1>3 DEF WholeSeconds
  <2>2. /\ x \div TicksPerSecond \in Nat
        /\ x < TicksPerSecond * (x \div TicksPerSecond) + TicksPerSecond
    BY <1>1, DivBounds
  <2> QED
    BY <1>1, <2>1, <2>2
<1> QED
  BY <1>2, <1>3

(* Midnight lies ahead, and with it another day begins.                    *)
LEMMA MidnightComes ==
    ASSUME NEW t \in Nat
    PROVE  /\ UntilMidnight(t) \in Nat \ {0}
           /\ \A back \in Nat : back >= t + UntilMidnight(t) => Day(back) > Day(t)
<1>1. DayLength \in Nat \ {0}
  BY LedgerAssumption
<1> DEFINE d == Day(t)
<1>2. d \in Nat /\ DayLength * d <= t /\ t < DayLength * d + DayLength
  BY <1>1, DivBounds DEF Day
<1>3. (d + 1) * DayLength = DayLength * d + DayLength /\ DayLength * d \in Nat
  BY <1>1, <1>2
<1>4. UntilMidnight(t) = DayLength * d + DayLength - t
  BY <1>1, <1>2, <1>3 DEF UntilMidnight
<1>5. ASSUME NEW back \in Nat, back >= t + UntilMidnight(t)
      PROVE  Day(back) > d
  <2> DEFINE e == Day(back)
  <2>1. e \in Nat /\ DayLength * e <= back /\ back < DayLength * e + DayLength
    BY <1>1, DivBounds DEF Day
  <2>2. ASSUME e <= d PROVE DayLength * e <= DayLength * d
    BY <1>1, <1>2, <2>1, <2>2
  <2>3. DayLength * e \in Nat
    BY <1>1, <2>1
  <2>4. back >= DayLength * d + DayLength
    BY <1>1, <1>2, <1>3, <1>4, <1>5
  <2> QED
    BY <1>1, <1>2, <1>3, <2>1, <2>2, <2>3, <2>4
<1> QED
  BY <1>1, <1>2, <1>3, <1>4, <1>5

(* Rows have an oldest one.                                                *)
LEMMA OldestIsFirst ==
    ASSUME NEW rows \in SUBSET Row, rows # {}, NEW t
    PROVE  /\ \E r \in rows : r.ts = Oldest(rows, t)
           /\ \A r \in rows : Oldest(rows, t) <= r.ts
<1> DEFINE stamps == {r.ts : r \in rows}
<1>1. stamps \subseteq Nat /\ stamps \subseteq Times /\ stamps # {}
  BY LedgerAssumption DEF Row, Times
<1>2. PICK ts \in stamps : \A s \in stamps : ts <= s
  <2> DEFINE R == OpToRel(<, Nat)
  <2>1. \A m, n \in Nat : m < n => <<m, n>> \in R
    BY DEF OpToRel
  <2>2. IsWellFoundedOn(R, Nat)
    BY NatLessThanWellFounded
  <2> HIDE DEF R, stamps
  <2>3. PICK ts \in stamps : \A s \in stamps : ~(<<s, ts>> \in R)
    BY <1>1, <2>2, WFMin
  <2>4. \A s \in stamps : <<s, ts>> \notin R /\ s \in Nat /\ ts \in Nat
    BY <1>1, <2>3
  <2>5. \A s \in stamps : ~(s < ts) /\ s \in Nat /\ ts \in Nat
    BY <2>1, <2>4
  <2>6. \A s \in stamps : ts <= s
    BY <2>5
  <2> QED
    BY <2>6
<1>4. ts \in Times /\ (\E r \in rows : r.ts = ts) /\ (\A r \in rows : ts <= r.ts)
  BY <1>1, <1>2
<1>5. Oldest(rows, t) = CHOOSE s \in Times : /\ \E r \in rows : r.ts = s
                                             /\ \A r \in rows : s <= r.ts
  BY DEF Oldest
<1> QED
  BY <1>4, <1>5

LEMMA FewerWithoutOne ==
    ASSUME NEW S, IsFiniteSet(S), NEW x \in S, NEW T, T \subseteq S, x \notin T
    PROVE  IsFiniteSet(T) /\ Cardinality(T) < Cardinality(S)
<1>1. IsFiniteSet(S \ {x}) /\ Cardinality(S \ {x}) = Cardinality(S) - 1
  BY FS_RemoveElement
<1>2. T \subseteq S \ {x}
  OBVIOUS
<1>3. IsFiniteSet(T) /\ Cardinality(T) <= Cardinality(S \ {x})
  BY <1>1, <1>2, FS_Subset
<1>4. Cardinality(S) \in Nat /\ Cardinality(T) \in Nat
  BY <1>3, FS_CardinalityType
<1> QED
  BY <1>1, <1>3, <1>4

(* Whoever comes back when told does not meet the oldest turn that refused *)
(* him, and of the others there are fewer than allowed.                    *)
LEMMA VisitorMayComeBack ==
    ASSUME TypeOK, IInv, VisitorLimit, NEW c \in Call, VisitorTurns > 0,
           VisitorFull(c.visitor, c.ts)
    PROVE  RefusalEnds(c, "visitor")
<1> DEFINE v == c.visitor
           ts == c.ts
           rows == InWindow(turns, v, ts)
           first == Oldest(rows, ts)
           wait == first + VisitorWindow - ts
           back == ts + WholeSeconds(wait) + TicksPerSecond
           met == {r \in InWindow(turns, v, back) : r.ts <= ts}
           before == VisitorWindowAt(accepted, v, ts)
<1>1. /\ v \in Visitors /\ ts \in Times /\ Times \subseteq Nat
      /\ VisitorTurns \in Nat /\ VisitorWindow \in Nat \ {0}
      /\ TicksPerSecond \in Nat \ {0}
  BY LedgerAssumption DEF Call, Times
<1>2. rows \in SUBSET Row /\ IsFiniteSet(rows) /\ rows # {}
  <2>1. rows \in SUBSET Row /\ IsFiniteSet(rows)
    BY FS_Subset DEF TypeOK, InWindow
  <2>2. Cardinality(rows) >= VisitorTurns
    BY DEF VisitorFull
  <2> QED
    BY <1>1, <2>1, <2>2, FS_EmptySet
<1>3. PICK r0 \in rows : r0.ts = first /\ \A r \in rows : first <= r.ts
  BY <1>2, OldestIsFirst
<1>4. first \in Nat /\ first > ts - VisitorWindow /\ ts \in Nat
  BY <1>1, <1>2, <1>3 DEF InWindow, Row
<1>5. RefusalEnds(c, "visitor") <=> (VisitorTurns > 0 => Cardinality(met) < VisitorTurns)
  BY DEF RefusalEnds, RetryAfter
<1>6. /\ r0 \in turns /\ r0.visitor = v /\ r0.ts = first
      /\ \A r \in turns : r.ts \in Nat
  BY <1>1, <1>3 DEF InWindow, TypeOK, Row
<1> HIDE DEF first, ts
<1>7. wait \in Nat \ {0} /\ wait = first + VisitorWindow - ts
  BY <1>1, <1>4
<1> HIDE DEF wait
<1>8. WholeSeconds(wait) \in Nat /\ WholeSeconds(wait) + TicksPerSecond > wait
  BY <1>7, RoundingLosesASecond
<1>9. back \in Nat /\ back - VisitorWindow > first
  BY <1>1, <1>4, <1>7, <1>8
<1> HIDE DEF back
<1>10. \A r \in met : r \in turns /\ r.visitor = v /\ r.ts > first /\ r.ts <= ts
  <2>1. \A r \in met : /\ r \in turns /\ r.visitor = v /\ r.ts \in Nat
                       /\ r.ts > back - VisitorWindow /\ r.ts <= ts
    BY <1>6 DEF InWindow
  <2> QED
    BY <1>1, <1>4, <1>9, <2>1
<1>11. turns \subseteq accepted
  BY DEF IInv, DeletedAreOld
<1> HIDE DEF met, v
<1>12. CASE first > ts
  <2>1. met = {}
    BY <1>4, <1>6, <1>10, <1>12
  <2> QED
    BY <1>1, <1>5, <2>1, FS_EmptySet
<1>13. CASE first <= ts
  <2>1. ASSUME NEW r \in met PROVE r \in before
    <3>1. r \in accepted /\ r.visitor = v /\ r.ts \in Nat /\ r.ts > first /\ r.ts <= ts
      BY <1>6, <1>10, <1>11
    <3>2. r.ts > ts - VisitorWindow
      BY <1>1, <1>4, <3>1
    <3> QED
      BY <3>1, <3>2 DEF VisitorWindowAt
  <2>2. r0 \in before
    BY <1>4, <1>6, <1>11, <1>13 DEF VisitorWindowAt
  <2>3. r0 \notin met
    BY <1>4, <1>6, <1>10
  <2>4. IsFiniteSet(before)
    BY FS_Subset DEF TypeOK, VisitorWindowAt
  <2>5. Cardinality(before) <= VisitorTurns
    BY <1>1 DEF VisitorLimit, VisitorWindowAt
  <2> HIDE DEF before
  <2>6. IsFiniteSet(met) /\ Cardinality(met) < Cardinality(before)
    BY <2>1, <2>2, <2>3, <2>4, FewerWithoutOne
  <2>7. Cardinality(met) \in Nat /\ Cardinality(before) \in Nat
    BY <2>4, <2>6, FS_CardinalityType
  <2> QED
    BY <1>1, <1>5, <2>5, <2>6, <2>7
<1> QED
  BY <1>4, <1>12, <1>13

LEMMA TheDayIsOver ==
    ASSUME NEW c \in Call
    PROVE  RefusalEnds(c, "global")
<1> DEFINE wait == UntilMidnight(c.ts)
           back == c.ts + WholeSeconds(wait) + TicksPerSecond
<1>1. c.ts \in Nat /\ TicksPerSecond \in Nat
  BY LedgerAssumption DEF Call, Times
<1>2. wait \in Nat \ {0}
  BY <1>1, MidnightComes
<1>3. WholeSeconds(wait) \in Nat /\ WholeSeconds(wait) + TicksPerSecond > wait
  BY <1>2, RoundingLosesASecond
<1>4. back \in Nat /\ back >= c.ts + wait
  BY <1>1, <1>2, <1>3
<1>5. Day(back) > Day(c.ts)
  BY <1>1, <1>4, MidnightComes
<1> QED
  BY <1>5 DEF RefusalEnds, RetryAfter

(* While retention suffices, who waits as long as Retry-After says, and    *)
(* the second more that it was rounded down by, is not refused again by    *)
(* the turns that refused him (the LimitDecisions of try_record_turn).     *)
THEOREM RetryAfterSuffices ==
    ASSUME RetentionCovers
    PROVE  Spec => RetryAfterIsEnough
<1>1. ASSUME TypeOK, IInv, VisitorLimit, Undecided, [Next]_vars, ~UNCHANGED vars,
             NEW w \in Workers, call[w] # NoCall, decision'[w] \in {"global", "visitor"}
      PROVE  RefusalEnds(call[w], decision'[w])
  <2>1. call[w] \in Call /\ decision[w] = NoDecision
    BY <1>1 DEF TypeOK, Undecided
  <2>2. decision[w] # decision'[w]
    BY <1>1, <2>1, LedgerAssumption
  <2>3. \/ decision'[w] = "global"
        \/ decision'[w] = "visitor" /\ RejectVisitor(w)
    BY <1>1, <2>2 DEF Next, Tick, ReadClock, RejectGlobal, RejectVisitor, Record,
                      Answer, Abort, TypeOK
  <2>4. CASE decision'[w] = "global"
    BY <2>1, <2>4, TheDayIsOver
  <2>5. CASE decision'[w] = "visitor" /\ RejectVisitor(w)
    <3>1. VisitorFull(call[w].visitor, call[w].ts)
      BY <2>5 DEF RejectVisitor
    <3>2. CASE VisitorTurns > 0
      BY <1>1, <2>1, <2>5, <3>1, <3>2, VisitorMayComeBack
    <3>3. CASE ~(VisitorTurns > 0)
      BY <2>5, <3>3 DEF RefusalEnds
    <3> QED
      BY <3>2, <3>3
  <2> QED
    BY <2>3, <2>4, <2>5
<1>2. TypeOK /\ IInv /\ VisitorLimit /\ Undecided /\ [Next]_vars
        => [\A w \in Workers :
              (call[w] # NoCall /\ decision'[w] \in {"global", "visitor"})
                  => RefusalEnds(call[w], decision'[w])]_vars
  BY <1>1
<1>3. Init => Undecided
  BY DEF Init, Undecided
<1>4. Spec => []Undecided
  BY <1>3, NextUndecided, TypeCorrect, PTL DEF Spec
<1>5. Spec => []IInv
  BY InitIInv, NextIInv, TypeCorrect, PTL DEF Spec
<1> QED
  BY <1>2, <1>4, <1>5, VisitorsAreLimited, TypeCorrect, PTL DEF Spec, RetryAfterIsEnough
=============================================================================
