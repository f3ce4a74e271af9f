---------------------------- MODULE ChatApiProofs ----------------------------
(***************************************************************************)
(* Turns of one session are serial, whatever the number of requests,       *)
(* sessions and restarts.  And what the endpoint counts and keeps is right *)
(* for any finite number of requests: slots of the gate, turns of the      *)
(* ledger, turns of a session; for any number at all, a refusal changes    *)
(* nothing and what is dropped from the store is its oldest.               *)
(***************************************************************************)
EXTENDS ChatApi, TLAPS, SequenceTheorems, FiniteSetTheorems

(* A request refers to no session before it looked one up or made one, and *)
(* to none that was not made by the request it is named after: so a fresh  *)
(* session is nobody else's.                                               *)
SessionsAreMade ==
    /\ \A r \in Requests : pc[r] = "new" => sess[r] = NoSession
    /\ \A r \in Requests :
            pc[r] \in {"waiting", "turn", "ok"} => sess[r] # NoSession
    /\ \A r \in Requests : sess[r] # NoSession => sess[sess[r]] = sess[r]

(* From admission to answer a request holds the lock of its session.       *)
LockIsHeld ==
    \A r \in Requests : (pc[r] \in InSlot /\ sess[r] # NoSession)
                            => entry[sess[r]].holder = r

IInv == SessionsAreMade /\ LockIsHeld /\ SerialTurns

LEMMA BlankIsEntry == BlankEntry \in Entry
<1>1. <<>> \in Seq(Requests)
  BY EmptySeq
<1>2. 0 \in Times
  BY ChatAssumption DEF Times
<1> QED
  BY <1>1, <1>2 DEF BlankEntry, Entry

LEMMA VerdictType ==
    ASSUME NEW r \in Requests, TypeOK, Quota!Charge(r, VisitorOf[r], now)
    PROVE  decision' \in [Requests -> {NoDecision, "allowed", "global", "visitor"}]
BY DEF TypeOK, Quota!Charge, Quota!Verdict

LEMMA OrderType ==
    ASSUME NEW U, NEW order \in SUBSET (U \X U), NEW kept, NEW s \in kept
    PROVE  /\ Only(order, kept) \subseteq kept \X kept
           /\ ToEnd(order, kept, s) \subseteq kept \X kept
<1>1. Only(order, kept) \subseteq kept \X kept
  BY DEF Only
<1>2. Only(order, kept \ {s}) \subseteq kept \X kept
  BY DEF Only
<1> QED
  BY <1>1, <1>2 DEF ToEnd

LEMMA AdmitType ==
    ASSUME TypeOK, NEW r \in Requests, NEW s \in Requests,
           NEW w \in Seq(Requests), Admit(r, s, w)
    PROVE  /\ entry' \in [Requests -> Entry]
           /\ active' \in Nat
           /\ pc' \in [Requests -> {"new", "waiting"} \cup InSlot \cup Answered]
<1>1. CASE active < MaxConcurrentTurns
  <2>1. entry' \in [Requests -> Entry]
    <3>1. [entry[s] EXCEPT !.holder = r, !.waiters = w] \in Entry
      BY DEF TypeOK, Entry
    <3>2. entry' = [entry EXCEPT ![s] =
                      [entry[s] EXCEPT !.holder = r, !.waiters = w]]
      BY <1>1 DEF Admit, TypeOK
    <3> QED
      BY <3>1, <3>2 DEF TypeOK
  <2>2. active' \in Nat
    BY <1>1 DEF TypeOK, Admit
  <2>3. pc' \in [Requests -> {"new", "waiting"} \cup InSlot \cup Answered]
    BY <1>1 DEF TypeOK, Admit, InSlot
  <2> QED
    BY <2>1, <2>2, <2>3
<1>2. CASE ~(active < MaxConcurrentTurns)
  <2>1. entry' \in [Requests -> Entry]
    <3>1. entry' = [entry EXCEPT ![s].waiters = w]
      BY <1>2 DEF Admit
    <3> QED
      BY <3>1 DEF TypeOK, Entry
  <2> QED
    BY <1>2, <2>1 DEF TypeOK, Admit, InSlot, Answered, Refused
<1> QED
  BY <1>1, <1>2

LEMMA ReleaseType ==
    ASSUME TypeOK, NEW r \in Requests, Release(r)
    PROVE  entry' \in [Requests -> Entry] /\ active' \in Nat
<1>1. active' \in Nat
  BY DEF TypeOK, Release
<1>2. CASE sess[r] = NoSession
  BY <1>1, <1>2 DEF TypeOK, Release
<1>3. CASE sess[r] # NoSession
  <2>1. entry' = [entry EXCEPT ![sess[r]].holder = NoRequest]
    BY <1>3 DEF Release
  <2> QED
    BY <1>1, <2>1 DEF TypeOK, Entry
<1> QED
  BY <1>2, <1>3

LEMMA NewSessionType ==
    ASSUME TypeOK, NEW r \in Requests, NewSession(r)
    PROVE  /\ stored' \subseteq Requests
           /\ before' \subseteq stored' \X stored'
           /\ entry' \in [Requests -> Entry]
           /\ sess' \in [Requests -> Requests \cup {NoSession}]
<1>1. stored' \subseteq Requests /\ r \in stored'
  BY DEF TypeOK, NewSession, Live
<1>2. before' \subseteq stored' \X stored'
  BY <1>1, OrderType DEF TypeOK, NewSession
<1>3. entry' \in [Requests -> Entry]
  BY BlankIsEntry DEF TypeOK, NewSession, Entry
<1> QED
  BY <1>1, <1>2, <1>3 DEF TypeOK, NewSession

(* What Finish writes into the session it held is an entry.                *)
LEMMA FinishedEntryType ==
    ASSUME NEW e \in Entry, NEW turns \in Seq(Requests), NEW t \in Times
    PROVE  [e EXCEPT !.turns = turns, !.touched = t, !.holder = NoRequest]
             \in Entry
BY DEF Entry

LEMMA NextTypeOK == TypeOK /\ [Next]_vars => TypeOK'
<1> SUFFICES ASSUME TypeOK, [Next]_vars PROVE TypeOK'
  OBVIOUS
<1> USE DEF InSlot, Answered, Refused
<1>1. CASE Tick
  BY <1>1, ChatAssumption DEF Tick, TypeOK, Times, store, ledger
<1>2. CASE Restart
  <2>1. entry' \in [Requests -> Entry]
    BY <1>2, BlankIsEntry DEF Restart
  <2>2. restarts' \in 0..MaxRestarts
    BY <1>2, ChatAssumption DEF Restart, TypeOK
  <2> QED
    BY <1>2, <2>1, <2>2 DEF Restart, TypeOK, ledger
<1>3. ASSUME NEW r \in Requests, Open(r) PROVE TypeOK'
  <2>1. active' \in Nat
    BY <1>3 DEF Open, TypeOK
  <2>2. pc' \in [Requests -> {"new", "waiting"} \cup InSlot \cup Answered]
    BY <1>3 DEF Open, TypeOK
  <2> QED
    BY <1>3, <2>1, <2>2 DEF Open, TypeOK, store, ledger
<1>4. ASSUME NEW r \in Requests, NEW s \in Requests, NotFound(r, s)
      PROVE  TypeOK'
  <2>1. before' \subseteq stored' \X stored'
    BY <1>4 DEF NotFound, TypeOK, Only
  <2> QED
    BY <1>4, <2>1 DEF NotFound, TypeOK, Live, ledger
<1>5. ASSUME NEW r \in Requests, NEW s \in Requests, Queue(r, s)
      PROVE  TypeOK'
  <2>1. entry[s].waiters \in Seq(Requests)
    BY DEF TypeOK, Entry
  <2>2. Append(entry[s].waiters, r) \in Seq(Requests)
    BY <2>1, AppendProperties
  <2>3. entry' \in [Requests -> Entry]
    BY <1>5, <2>2 DEF Queue, TypeOK, Entry
  <2>4. before' \subseteq stored' \X stored'
    BY <1>5, OrderType DEF Queue, Get, TypeOK
  <2> QED
    BY <1>5, <2>3, <2>4 DEF Queue, Get, TypeOK, Live, ledger
<1>6. ASSUME NEW r \in Requests, NEW s \in Requests, Continue(r, s)
      PROVE  TypeOK'
  <2>1. entry[s].waiters \in Seq(Requests)
    BY DEF TypeOK, Entry
  <2>2. /\ entry' \in [Requests -> Entry]
        /\ active' \in Nat
        /\ pc' \in [Requests -> {"new", "waiting"} \cup InSlot \cup Answered]
    BY <1>6, <2>1, AdmitType DEF Continue
  <2>3. before' \subseteq stored' \X stored'
    BY <1>6, OrderType DEF Continue, Get, TypeOK
  <2> QED
    BY <1>6, <2>2, <2>3 DEF Continue, Get, TypeOK, Live, ledger
<1>7. ASSUME NEW r \in Requests, Wake(r) PROVE TypeOK'
  <2> DEFINE s == sess[r]
  <2>1. s \in Requests \cup {NoSession}
    BY DEF TypeOK
  <2>2. CASE s \in Requests
    <3>1. entry[s].waiters \in Seq(Requests) /\ entry[s].waiters # <<>>
      BY <1>7, <2>2 DEF TypeOK, Entry, Wake
    <3>2. Tail(entry[s].waiters) \in Seq(Requests)
      BY <3>1, HeadTailProperties
    <3>3. /\ entry' \in [Requests -> Entry]
          /\ active' \in Nat
          /\ pc' \in [Requests -> {"new", "waiting"} \cup InSlot \cup Answered]
      BY <1>7, <2>2, <3>2, AdmitType DEF Wake
    <3> QED
      BY <1>7, <3>3 DEF Wake, TypeOK, ledger
  <2>3. CASE s = NoSession
    <3>1. entry' = entry
      BY <1>7, <2>3, ChatAssumption DEF Wake, Admit, TypeOK
    <3>2. active' \in Nat
      BY <1>7 DEF Wake, Admit, TypeOK
    <3>3. pc' \in [Requests -> {"new", "waiting"} \cup InSlot \cup Answered]
      BY <1>7 DEF Wake, Admit, TypeOK
    <3> QED
      BY <1>7, <3>1, <3>2, <3>3 DEF Wake, TypeOK, ledger
  <2> QED
    BY <2>1, <2>2, <2>3
<1>8. ASSUME NEW r \in Requests, Record(r) PROVE TypeOK'
  BY <1>8, VerdictType DEF Record, TypeOK, store
<1>9. ASSUME NEW r \in Requests, Begin(r) PROVE TypeOK'
  <2>1. /\ stored' \subseteq Requests
        /\ before' \subseteq stored' \X stored'
        /\ entry' \in [Requests -> Entry]
        /\ sess' \in [Requests -> Requests \cup {NoSession}]
        /\ sess'[r] \in Requests
    <3>1. CASE sess[r] = NoSession
      <4>1. sess'[r] = r
        BY <1>9, <3>1 DEF Begin, NewSession, TypeOK
      <4> QED
        BY <1>9, <3>1, <4>1, NewSessionType DEF Begin
    <3>2. CASE sess[r] # NoSession
      BY <1>9, <3>2 DEF Begin, TypeOK, store
    <3> QED
      BY <3>1, <3>2
  <2>2. base' \in [Requests -> Seq(Requests)]
    BY <1>9, <2>1 DEF Begin, TypeOK, Entry
  <2> QED
    BY <1>9, <2>1, <2>2 DEF Begin, TypeOK, ledger
<1>10. ASSUME NEW r \in Requests, Limit(r) PROVE TypeOK'
  BY <1>10, ReleaseType DEF Limit, TypeOK, ledger
<1>11. ASSUME NEW r \in Requests, Fail(r) PROVE TypeOK'
  BY <1>11, ReleaseType DEF Fail, TypeOK, ledger
<1>12. ASSUME NEW r \in Requests, Finish(r) PROVE TypeOK'
  <2>1. Append(base[r], r) \in Seq(Requests)
    BY AppendProperties DEF TypeOK
  <2>2. entry' \in [Requests -> Entry]
    <3> DEFINE x == [entry[sess[r]] EXCEPT !.turns = Append(base[r], r),
                                           !.touched = now,
                                           !.holder = NoRequest]
    <3>1. entry' = [entry EXCEPT ![sess[r]] = x]
      BY <1>12 DEF Finish, TypeOK
    <3>2. sess[r] \in Requests => x \in Entry
      <4> HAVE sess[r] \in Requests
      <4>1. entry[sess[r]] \in Entry /\ now \in Times
        BY DEF TypeOK
      <4> QED
        BY <2>1, <4>1, FinishedEntryType
    <3> QED
      BY <3>1, <3>2 DEF TypeOK
  <2>3. active' \in Nat
    BY <1>12 DEF Finish, TypeOK
  <2> QED
    BY <1>12, <2>2, <2>3 DEF Finish, TypeOK, ledger
<1>13. CASE UNCHANGED vars
  BY <1>13 DEF vars, store, ledger, TypeOK
<1> QED
  BY <1>1, <1>2, <1>3, <1>4, <1>5, <1>6, <1>7, <1>8, <1>9, <1>10, <1>11,
     <1>12, <1>13 DEF Next, Arrive, Handle

(* Every reachable state has the type TypeOK states.                       *)
THEOREM TypeCorrect == Spec => []TypeOK
<1>1. Init => TypeOK
  <2> SUFFICES ASSUME Init PROVE TypeOK
    OBVIOUS
  <2>1. <<>> \in Seq(Requests)
    BY EmptySeq
  <2>2. entry \in [Requests -> Entry]
    BY BlankIsEntry DEF Init
  <2> QED
    BY <2>1, <2>2, ChatAssumption DEF Init, TypeOK, Times
<1> QED
  BY <1>1, NextTypeOK, PTL DEF Spec

LEMMA InitIInv == Init => IInv
BY DEF Init, IInv, SessionsAreMade, LockIsHeld, SerialTurns, InSlot

(* What admission does to the requests and to the locks, in either case.   *)
LEMMA AdmitFrame ==
    ASSUME TypeOK, NEW r \in Requests, NEW s \in Requests, NEW w, Admit(r, s, w)
    PROVE  /\ \E x \in {"recording", "busy"} :
                /\ pc' = [pc EXCEPT ![r] = x]
                /\ x = "recording" => entry'[s].holder = r
           /\ \A q \in Requests \ {s} : entry'[q] = entry[q]
           /\ entry'[s].turns = entry[s].turns
<1>1. entry[s] \in Entry /\ entry \in [Requests -> Entry]
  BY DEF TypeOK
<1>2. CASE active < MaxConcurrentTurns
  <2>1. /\ pc' = [pc EXCEPT ![r] = "recording"]
        /\ entry' = [entry EXCEPT ![s] =
                        [@ EXCEPT !.holder = r, !.waiters = w]]
    BY <1>2 DEF Admit
  <2>2. /\ \A q \in Requests \ {s} : entry'[q] = entry[q]
        /\ entry'[s].turns = entry[s].turns
        /\ entry'[s].holder = r
    BY <1>1, <2>1 DEF Entry
  <2> QED
    BY <2>1, <2>2
<1>3. CASE ~(active < MaxConcurrentTurns)
  <2>1. /\ pc' = [pc EXCEPT ![r] = "busy"]
        /\ entry' = [entry EXCEPT ![s].waiters = w]
    BY <1>3 DEF Admit
  <2>2. /\ \A q \in Requests \ {s} : entry'[q] = entry[q]
        /\ entry'[s].turns = entry[s].turns
    BY <1>1, <2>1 DEF Entry
  <2> QED
    BY <2>1, <2>2
<1> QED
  BY <1>2, <1>3

(* A request that is admitted, or refused, with the lock of s free.        *)
LEMMA AdmitIInv ==
    ASSUME IInv, TypeOK, NEW r \in Requests, NEW s \in Requests,
           NEW w \in Seq(Requests),
           pc[r] \in {"new", "waiting"}, sess[s] = s, ~Locked(s),
           sess[r] \in {NoSession, s},
           Admit(r, s, w), sess' = [sess EXCEPT ![r] = s], UNCHANGED base
    PROVE  IInv'
<1>1. PICK x \in {"recording", "busy"} :
        /\ pc' = [pc EXCEPT ![r] = x]
        /\ x = "recording" => entry'[s].holder = r
  BY AdmitFrame
<1>2. /\ \A q \in Requests \ {s} : entry'[q] = entry[q]
      /\ entry'[s].turns = entry[s].turns
  BY AdmitFrame
<1>3. \A q \in Requests : pc[q] \in InSlot => sess[q] # s
  BY ChatAssumption DEF Locked, IInv, LockIsHeld
<1>4. SessionsAreMade'
  <2>1. \A q \in Requests : pc'[q] = "new" => sess'[q] = NoSession
    BY <1>1 DEF IInv, SessionsAreMade, TypeOK
  <2>2. \A q \in Requests :
          pc'[q] \in {"waiting", "turn", "ok"} => sess'[q] # NoSession
    BY <1>1, ChatAssumption DEF IInv, SessionsAreMade, TypeOK
  <2>3. \A q \in Requests :
          sess'[q] # NoSession => sess'[sess'[q]] = sess'[q]
    <3> SUFFICES ASSUME NEW q \in Requests, sess'[q] # NoSession
                 PROVE  sess'[sess'[q]] = sess'[q]
      OBVIOUS
    <3>1. sess'[s] = s
      BY DEF TypeOK
    <3>2. CASE q = r
      BY <3>1, <3>2 DEF TypeOK
    <3>3. CASE q # r
      <4>1. sess'[q] = sess[q] /\ sess[q] \in Requests
        BY <3>3 DEF TypeOK
      <4>2. sess[sess[q]] = sess[q]
        BY <4>1 DEF IInv, SessionsAreMade
      <4>3. CASE sess[q] = r
        BY <4>1, <4>2, <4>3, <3>1, ChatAssumption
      <4> QED
        BY <4>1, <4>2, <4>3 DEF TypeOK
    <3> QED
      BY <3>2, <3>3
  <2> QED
    BY <2>1, <2>2, <2>3 DEF SessionsAreMade
<1>5. LockIsHeld'
  <2> SUFFICES ASSUME NEW q \in Requests, pc'[q] \in InSlot,
                      sess'[q] # NoSession
               PROVE  entry'[sess'[q]].holder = q
    BY DEF LockIsHeld
  <2>1. CASE q = r
    BY <2>1, <1>1 DEF TypeOK, InSlot
  <2>2. CASE q # r
    <3>1. pc[q] \in InSlot /\ sess'[q] = sess[q]
      BY <2>2, <1>1 DEF TypeOK
    <3>2. sess[q] \in Requests \ {s}
      BY <3>1, <1>3 DEF TypeOK
    <3> QED
      BY <3>1, <3>2, <1>2 DEF IInv, LockIsHeld
  <2> QED
    BY <2>1, <2>2
<1>6. SerialTurns'
  <2> SUFFICES ASSUME NEW q \in Requests, pc'[q] = "turn"
               PROVE  /\ entry'[sess'[q]].holder = q
                      /\ base'[q] = entry'[sess'[q]].turns
    BY DEF SerialTurns
  <2>1. q # r /\ pc[q] = "turn" /\ sess'[q] = sess[q]
    BY <1>1 DEF TypeOK
  <2>2. sess[q] \in Requests \ {s}
    BY <2>1, <1>3 DEF IInv, SessionsAreMade, InSlot, TypeOK
  <2> QED
    BY <2>1, <2>2, <1>2 DEF IInv, SerialTurns
<1> QED
  BY <1>4, <1>5, <1>6 DEF IInv

(* A request that is past the gate is answered, and gives back its lock.   *)
LEMMA AnswerIInv ==
    ASSUME IInv, TypeOK, NEW r \in Requests, pc[r] \in InSlot,
           NEW a \in Answered, pc' = [pc EXCEPT ![r] = a],
           UNCHANGED <<sess, base>>, a = "ok" => pc[r] = "turn",
           \A q \in Requests \ {sess[r]} : entry'[q] = entry[q]
    PROVE  IInv'
<1>1. \A q \in Requests \ {r} :
        pc[q] \in InSlot /\ sess[q] # NoSession => sess[q] # sess[r]
  BY DEF IInv, LockIsHeld
<1>2. a \notin {"new", "waiting"} \cup InSlot
  BY DEF Answered, Refused, InSlot
<1>3. SessionsAreMade'
  BY <1>2 DEF IInv, SessionsAreMade, InSlot, TypeOK
<1>4. LockIsHeld'
  <2> SUFFICES ASSUME NEW q \in Requests, pc'[q] \in InSlot,
                      sess[q] # NoSession
               PROVE  entry'[sess[q]].holder = q
    BY DEF LockIsHeld
  <2>1. q # r /\ pc[q] \in InSlot
    BY <1>2 DEF TypeOK
  <2>2. sess[q] \in Requests \ {sess[r]}
    BY <2>1, <1>1 DEF TypeOK
  <2> QED
    BY <2>1, <2>2 DEF IInv, LockIsHeld
<1>5. SerialTurns'
  <2> SUFFICES ASSUME NEW q \in Requests, pc'[q] = "turn"
               PROVE  /\ entry'[sess[q]].holder = q
                      /\ base[q] = entry'[sess[q]].turns
    BY DEF SerialTurns
  <2>1. q # r /\ pc[q] = "turn"
    BY <1>2 DEF TypeOK, InSlot
  <2>2. sess[q] \in Requests \ {sess[r]}
    BY <2>1, <1>1 DEF IInv, SessionsAreMade, InSlot, TypeOK
  <2> QED
    BY <2>1, <2>2 DEF IInv, SerialTurns
<1> QED
  BY <1>3, <1>4, <1>5 DEF IInv

LEMMA NextIInv == IInv /\ TypeOK /\ [Next]_vars => IInv'
<1> SUFFICES ASSUME IInv, TypeOK, [Next]_vars PROVE IInv'
  OBVIOUS
<1>1. CASE Tick
  BY <1>1 DEF Tick, store, IInv, SessionsAreMade, LockIsHeld,
     SerialTurns, InSlot
<1>2. CASE Restart
  <2>1. \A q \in Requests :
          /\ pc'[q] \notin {"waiting"} \cup InSlot
          /\ pc'[q] \in {"new", "ok"} => pc[q] = pc'[q]
    BY <1>2 DEF Restart, Answered, Refused, InSlot
  <2> QED
    BY <1>2, <2>1 DEF Restart, IInv, SessionsAreMade, LockIsHeld,
     SerialTurns, InSlot
<1>3. ASSUME NEW r \in Requests, Open(r) PROVE IInv'
  BY <1>3 DEF Open, TypeOK, store, IInv, SessionsAreMade, LockIsHeld,
     SerialTurns, InSlot
<1>4. ASSUME NEW r \in Requests, NEW s \in Requests, NotFound(r, s)
      PROVE  IInv'
  BY <1>4 DEF NotFound, TypeOK, IInv, SessionsAreMade, LockIsHeld,
     SerialTurns, InSlot
<1>5. ASSUME NEW r \in Requests, NEW s \in Requests, Queue(r, s)
      PROVE  IInv'
  <2>1. sess[s] = s /\ s # r
    BY <1>5, ChatAssumption DEF Queue, Known, TypeOK, IInv, SessionsAreMade
  <2>2. SessionsAreMade'
    BY <1>5, <2>1, ChatAssumption DEF Queue, TypeOK, IInv, SessionsAreMade
  <2>3. \A q \in Requests : /\ entry'[q].holder = entry[q].holder
                            /\ entry'[q].turns = entry[q].turns
    <3>1. entry' = [entry EXCEPT ![s].waiters = Append(@, r)]
      BY <1>5 DEF Queue
    <3>2. entry[s] \in Entry /\ entry \in [Requests -> Entry]
      BY DEF TypeOK
    <3> QED
      BY <3>1, <3>2 DEF Entry
  <2>4. LockIsHeld'
    BY <1>5, <2>3 DEF Queue, TypeOK, IInv, LockIsHeld, InSlot
  <2>5. SerialTurns'
    BY <1>5, <2>3 DEF Queue, TypeOK, IInv, SessionsAreMade, SerialTurns
  <2> QED
    BY <2>2, <2>4, <2>5 DEF IInv
<1>6. ASSUME NEW r \in Requests, NEW s \in Requests, Continue(r, s)
      PROVE  IInv'
  <2>1. sess[s] = s /\ sess[r] = NoSession
    BY <1>6, ChatAssumption DEF Continue, Known, TypeOK, IInv, SessionsAreMade
  <2> QED
    <3>1. pc[r] \in {"new", "waiting"} /\ ~Locked(s)
      BY <1>6 DEF Continue, Free
    <3>2. /\ Admit(r, s, entry[s].waiters)
          /\ sess' = [sess EXCEPT ![r] = s]
          /\ UNCHANGED base
      BY <1>6 DEF Continue
    <3>3. entry[s].waiters \in Seq(Requests)
      BY DEF TypeOK, Entry
    <3> QED
      BY <2>1, <3>1, <3>2, <3>3, AdmitIInv
<1>7. ASSUME NEW r \in Requests, Wake(r) PROVE IInv'
  <2>1. sess[r] \in Requests /\ sess[sess[r]] = sess[r]
    BY <1>7 DEF Wake, TypeOK, IInv, SessionsAreMade
  <2>2. sess' = [sess EXCEPT ![r] = sess[r]]
    BY <1>7 DEF Wake, TypeOK
  <2> QED
    <3>1. /\ pc[r] = "waiting" /\ ~Locked(sess[r])
          /\ Admit(r, sess[r], Tail(entry[sess[r]].waiters))
          /\ UNCHANGED base
      BY <1>7 DEF Wake
    <3>2. Tail(entry[sess[r]].waiters) \in Seq(Requests)
      BY <1>7, <2>1, HeadTailProperties DEF Wake, TypeOK, Entry
    <3> QED
      BY <2>1, <2>2, <3>1, <3>2, AdmitIInv
<1>8. ASSUME NEW r \in Requests, Record(r) PROVE IInv'
  BY <1>8 DEF Record, TypeOK, store, IInv, SessionsAreMade, LockIsHeld,
     SerialTurns, InSlot
<1>9. ASSUME NEW r \in Requests, Begin(r) PROVE IInv'
  <2>1. CASE sess[r] = NoSession
    <3>1. \A q \in Requests : sess[q] # r
      BY <2>1, ChatAssumption DEF TypeOK, IInv, SessionsAreMade
    <3>2. /\ sess' = [sess EXCEPT ![r] = r]
          /\ entry' = [entry EXCEPT ![r] =
                        [BlankEntry EXCEPT !.touched = now, !.holder = r]]
          /\ pc' = [pc EXCEPT ![r] = "turn"]
          /\ base' = [base EXCEPT ![r] = entry'[sess'[r]].turns]
      BY <1>9, <2>1 DEF Begin, NewSession
    <3>3. /\ entry'[r].holder = r
          /\ \A q \in Requests \ {r} : entry'[q] = entry[q]
      BY <3>2 DEF TypeOK, BlankEntry
    <3>4. SessionsAreMade'
      BY <3>1, <3>2, ChatAssumption DEF TypeOK, IInv, SessionsAreMade
    <3>5. LockIsHeld'
      BY <3>1, <3>2, <3>3 DEF TypeOK, IInv, LockIsHeld, InSlot
    <3>6. SerialTurns'
      BY <3>1, <3>2, <3>3, <1>9 DEF TypeOK, IInv, SessionsAreMade,
         SerialTurns
    <3> QED
      BY <3>4, <3>5, <3>6 DEF IInv
  <2>2. CASE sess[r] # NoSession
    BY <1>9, <2>2 DEF Begin, TypeOK, store, IInv, SessionsAreMade, LockIsHeld,
       SerialTurns, InSlot
  <2> QED
    BY <2>1, <2>2
<1>10. ASSUME NEW r \in Requests, Limit(r) PROVE IInv'
  BY <1>10, AnswerIInv DEF Limit, Release, TypeOK, Answered, Refused, InSlot
<1>11. ASSUME NEW r \in Requests, Fail(r) PROVE IInv'
  BY <1>11, AnswerIInv DEF Fail, Release, TypeOK, Answered, Refused, InSlot
<1>12. ASSUME NEW r \in Requests, Finish(r) PROVE IInv'
  BY <1>12, AnswerIInv DEF Finish, TypeOK, Answered, InSlot
<1>13. CASE UNCHANGED vars
  BY <1>13 DEF vars, store, IInv, SessionsAreMade, LockIsHeld,
     SerialTurns, InSlot
<1> QED
  BY <1>1, <1>2, <1>3, <1>4, <1>5, <1>6, <1>7, <1>8, <1>9, <1>10, <1>11,
     <1>12, <1>13 DEF Next, Arrive, Handle

(* Two turns of one session never overlap, and a turn is computed from     *)
(* what is stored when it ends: session locks as run_turn and checkout use *)
(* them, with sessions that expire, are evicted, or vanish in a restart    *)
(* while requests wait for them.                                           *)
THEOREM TurnsAreSerial == Spec => []SerialTurns
<1>1. IInv => SerialTurns
  BY DEF IInv
<1> QED
  BY <1>1, InitIInv, NextIInv, TypeCorrect, PTL DEF Spec

FinitelyMany == IsFiniteSet(Requests)

-----------------------------------------------------------------------------
(* The gate. *)

InGate == {r \in Requests : pc[r] \in InSlot}

(* The ways a step can change who is past the gate and what it counts.     *)
Through(r) ==
    /\ r \notin InGate /\ InGate' = InGate \cup {r}
    /\ active < MaxConcurrentTurns /\ active' = active + 1

Back(r) ==
    /\ r \in InGate /\ InGate' = InGate \ {r}
    /\ active' = IF active > 0 THEN active - 1 ELSE 0

Emptied == InGate' = {} /\ active' = 0

Unmoved == InGate' = InGate /\ active' = active

GateStep == Unmoved \/ Emptied \/ \E r \in Requests : Through(r) \/ Back(r)

LEMMA AdmitMovesOne ==
    ASSUME TypeOK, NEW r \in Requests, NEW s, NEW w,
           pc[r] \in {"new", "waiting"}, Admit(r, s, w)
    PROVE  Through(r) \/ Unmoved
<1>1. CASE active < MaxConcurrentTurns
  BY <1>1 DEF Admit, Through, InGate, InSlot, TypeOK
<1>2. CASE ~(active < MaxConcurrentTurns)
  BY <1>2 DEF Admit, Unmoved, InGate, InSlot, TypeOK
<1> QED
  BY <1>1, <1>2

LEMMA AnswerMovesOne ==
    ASSUME TypeOK, NEW r \in Requests, pc[r] \in InSlot, NEW a \in Answered,
           pc' = [pc EXCEPT ![r] = a],
           active' = IF active > 0 THEN active - 1 ELSE 0
    PROVE  Back(r)
BY DEF Back, InGate, InSlot, Answered, Refused, TypeOK

LEMMA EveryStepIsGateStep == TypeOK /\ [Next]_vars => GateStep
<1> SUFFICES ASSUME TypeOK, [Next]_vars PROVE GateStep
  OBVIOUS
<1> USE DEF GateStep
<1>1. CASE Tick
  BY <1>1 DEF Tick, Unmoved, InGate
<1>2. CASE Restart
  BY <1>2 DEF Restart, Emptied, InGate, InSlot, Answered, Refused
<1>3. ASSUME NEW r \in Requests, Open(r) PROVE GateStep
  <2>1. CASE active < MaxConcurrentTurns
    BY <1>3, <2>1 DEF Open, Through, InGate, InSlot, TypeOK
  <2>2. CASE ~(active < MaxConcurrentTurns)
    BY <1>3, <2>2 DEF Open, Unmoved, InGate, InSlot, TypeOK
  <2> QED
    BY <2>1, <2>2
<1>4. ASSUME NEW r \in Requests, NEW s \in Requests, NotFound(r, s) \/ Queue(r, s)
      PROVE  GateStep
  BY <1>4 DEF NotFound, Queue, Unmoved, InGate, InSlot, TypeOK
<1>5. ASSUME NEW r \in Requests, NEW s \in Requests, Continue(r, s)
      PROVE  GateStep
  BY <1>5, AdmitMovesOne DEF Continue
<1>6. ASSUME NEW r \in Requests, Wake(r) PROVE GateStep
  <2>1. pc[r] = "waiting" /\ Admit(r, sess[r], Tail(entry[sess[r]].waiters))
    BY <1>6 DEF Wake
  <2> QED
    BY <2>1, AdmitMovesOne
<1>7. ASSUME NEW r \in Requests, Record(r) \/ Begin(r) PROVE GateStep
  BY <1>7 DEF Record, Begin, Unmoved, InGate, InSlot, TypeOK
<1>8. ASSUME NEW r \in Requests, Limit(r) \/ Fail(r) \/ Finish(r) PROVE GateStep
  <2>1. pc[r] \in InSlot
    BY <1>8 DEF Limit, Fail, Finish, InSlot
  <2>2. PICK a \in Answered : pc' = [pc EXCEPT ![r] = a]
    BY <1>8 DEF Limit, Fail, Finish, Answered, Refused
  <2>3. active' = IF active > 0 THEN active - 1 ELSE 0
    BY <1>8 DEF Limit, Fail, Finish, Release
  <2> QED
    BY <2>1, <2>2, <2>3, AnswerMovesOne
<1>9. CASE UNCHANGED vars
  BY <1>9 DEF vars, Unmoved, InGate
<1> QED
  BY <1>1, <1>2, <1>3, <1>4, <1>5, <1>6, <1>7, <1>8, <1>9 DEF Next, Arrive, Handle

LEMMA GateStepKeepsCount ==
    ASSUME FinitelyMany, TypeOK, SlotsAreCounted, GateStep
    PROVE  SlotsAreCounted'
<1>1. active = Cardinality(InGate) /\ active <= MaxConcurrentTurns
  BY DEF SlotsAreCounted, InGate
<1>2. IsFiniteSet(InGate) /\ Cardinality(InGate) \in Nat
  BY FS_Subset, FS_CardinalityType DEF InGate, FinitelyMany
<1>3. MaxConcurrentTurns \in Nat \ {0}
  BY ChatAssumption
<1> SUFFICES active' = Cardinality(InGate') /\ active' <= MaxConcurrentTurns
  BY DEF SlotsAreCounted, InGate
<1>4. CASE Unmoved
  BY <1>1, <1>4 DEF Unmoved
<1>5. CASE Emptied
  BY <1>3, <1>5, FS_EmptySet DEF Emptied
<1>6. ASSUME NEW r \in Requests, Through(r)
      PROVE  active' = Cardinality(InGate') /\ active' <= MaxConcurrentTurns
  <2>1. Cardinality(InGate \cup {r}) = Cardinality(InGate) + 1
    BY <1>2, <1>6, FS_AddElement DEF Through
  <2> QED
    BY <1>1, <1>2, <1>3, <1>6, <2>1 DEF Through
<1>7. ASSUME NEW r \in Requests, Back(r)
      PROVE  active' = Cardinality(InGate') /\ active' <= MaxConcurrentTurns
  <2>1. Cardinality(InGate \ {r}) = Cardinality(InGate) - 1
    BY <1>2, <1>7, FS_RemoveElement DEF Back
  <2>2. Cardinality(InGate) > 0
    BY <1>2, <1>7, FS_EmptySet DEF Back
  <2> QED
    BY <1>1, <1>2, <1>3, <1>7, <2>1, <2>2 DEF Back
<1> QED
  BY <1>4, <1>5, <1>6, <1>7 DEF GateStep

(* The gate counts exactly who is past it, and lets no more through than   *)
(* the limit, whatever is refused, fails, raises or restarts (admitted,    *)
(* ConcurrencyGate).                                                       *)
THEOREM SlotsComeBackOnce ==
    ASSUME FinitelyMany
    PROVE  Spec => []SlotsAreCounted
<1>1. Init => SlotsAreCounted
  <2> SUFFICES ASSUME Init PROVE SlotsAreCounted
    OBVIOUS
  <2>1. {r \in Requests : pc[r] \in InSlot} = {} /\ active = 0
    BY DEF Init, InSlot
  <2> QED
    BY <2>1, FS_EmptySet, ChatAssumption DEF SlotsAreCounted
<1>2. TypeOK /\ SlotsAreCounted /\ [Next]_vars => SlotsAreCounted'
  BY EveryStepIsGateStep, GateStepKeepsCount
<1> QED
  BY <1>1, <1>2, TypeCorrect, PTL DEF Spec

-----------------------------------------------------------------------------
(* The quota. *)

Charged == {r \in Requests : decision[r] = "allowed"}

Alike(rows, v, t) == {a \in rows : a.visitor = v /\ a.ts = t}

(* Turns of one visitor in one instant are numbered from zero.             *)
Numbered ==
    /\ IsFiniteSet(accepted)
    /\ \A a \in accepted :
          a.id \in Nat /\ a.id < Cardinality(Alike(accepted, a.visitor, a.ts))

(* Nobody is decided about before asking, or refused before or after a     *)
(* turn was charged for it.                                                *)
DecidedInTime ==
    \A r \in Requests :
        /\ pc[r] \in {"new", "waiting", "recording", "not_found", "busy"} =>
              decision[r] = NoDecision
        /\ pc[r] = "limited" => decision[r] # "allowed"
        /\ pc[r] \in {"turn", "ok"} => decision[r] = "allowed"

ChargedOnce == Cardinality(accepted) = Cardinality(Charged)

ChargeIInv == Numbered /\ DecidedInTime /\ ChargedOnce

LEMMA SameCount == \A S : Quota!Cardinality(S) = Cardinality(S)
BY DEF Quota!Cardinality, Cardinality, Quota!IsFiniteSet, IsFiniteSet

LEMMA NewTurnIsNew ==
    ASSUME Numbered, NEW v, NEW t
    PROVE  LET turn == Quota!NewTurn(accepted, v, t) IN
           /\ turn \notin accepted
           /\ turn.visitor = v /\ turn.ts = t
           /\ turn.id = Cardinality(Alike(accepted, v, t))
           /\ turn.id \in Nat
<1> DEFINE turn == Quota!NewTurn(accepted, v, t)
<1>1. turn.visitor = v /\ turn.ts = t /\ turn.id = Cardinality(Alike(accepted, v, t))
  BY SameCount DEF Quota!NewTurn, Alike
<1>2. Cardinality(Alike(accepted, v, t)) \in Nat
  BY FS_Subset, FS_CardinalityType DEF Numbered, Alike
<1>3. ASSUME turn \in accepted PROVE FALSE
  <2>1. turn.id < Cardinality(Alike(accepted, turn.visitor, turn.ts))
    BY <1>3 DEF Numbered
  <2> QED
    BY <1>1, <1>2, <2>1
<1> QED
  BY <1>1, <1>2, <1>3

LEMMA NewTurnIsNumbered ==
    ASSUME Numbered, NEW v, NEW t,
           accepted' = accepted \cup {Quota!NewTurn(accepted, v, t)}
    PROVE  Numbered'
<1> DEFINE turn == Quota!NewTurn(accepted, v, t)
<1>1. IsFiniteSet(accepted')
  BY FS_AddElement DEF Numbered
<1>2. ASSUME NEW u, NEW x
      PROVE  /\ IsFiniteSet(Alike(accepted, u, x)) /\ IsFiniteSet(Alike(accepted', u, x))
             /\ Cardinality(Alike(accepted, u, x)) \in Nat
             /\ Cardinality(Alike(accepted', u, x)) \in Nat
             /\ Cardinality(Alike(accepted, u, x)) <= Cardinality(Alike(accepted', u, x))
  <2>1. IsFiniteSet(Alike(accepted, u, x)) /\ IsFiniteSet(Alike(accepted', u, x))
    BY <1>1, FS_Subset DEF Numbered, Alike
  <2>2. Alike(accepted, u, x) \subseteq Alike(accepted', u, x)
    BY DEF Alike
  <2> QED
    BY <2>1, <2>2, FS_Subset, FS_CardinalityType
<1>3. ASSUME NEW a \in accepted
      PROVE  a.id \in Nat /\ a.id < Cardinality(Alike(accepted', a.visitor, a.ts))
  <2>1. a.id \in Nat /\ a.id < Cardinality(Alike(accepted, a.visitor, a.ts))
    BY DEF Numbered
  <2> QED
    BY <1>2, <2>1
<1>4. turn.id \in Nat /\ turn.id < Cardinality(Alike(accepted', turn.visitor, turn.ts))
  <2>1. /\ turn \notin accepted /\ turn.visitor = v /\ turn.ts = t
        /\ turn.id = Cardinality(Alike(accepted, v, t)) /\ turn.id \in Nat
    BY NewTurnIsNew
  <2>2. Alike(accepted', v, t) = Alike(accepted, v, t) \cup {turn}
    BY <2>1 DEF Alike
  <2>3. Cardinality(Alike(accepted', v, t)) = Cardinality(Alike(accepted, v, t)) + 1
    <3>1. turn \notin Alike(accepted, v, t) /\ IsFiniteSet(Alike(accepted, v, t))
      BY <1>2, <2>1 DEF Alike
    <3> HIDE DEF turn
    <3>2. Cardinality(Alike(accepted, v, t) \cup {turn}) = Cardinality(Alike(accepted, v, t)) + 1
      BY <3>1, FS_AddElement
    <3> QED
      BY <2>2, <3>2
  <2> HIDE DEF turn
  <2> QED
    BY <1>2, <2>1, <2>3
<1>5. ASSUME NEW a \in accepted'
      PROVE  a.id \in Nat /\ a.id < Cardinality(Alike(accepted', a.visitor, a.ts))
  <2>1. a \in accepted \/ a = turn
    OBVIOUS
  <2> HIDE DEF turn
  <2> QED
    BY <1>3, <1>4, <2>1
<1> QED
  BY <1>1, <1>5 DEF Numbered

LEMMA RecordCharges ==
    ASSUME FinitelyMany, TypeOK, ChargeIInv, NEW r \in Requests, Record(r)
    PROVE  ChargeIInv'
<1> DEFINE verdict == Quota!Verdict(accepted, VisitorOf[r], now)
           turn == Quota!NewTurn(accepted, VisitorOf[r], now)
<1>1. /\ pc[r] = "recording" /\ pc' = [pc EXCEPT ![r] = "recorded"]
      /\ decision' = [decision EXCEPT ![r] = verdict]
      /\ accepted' = IF verdict = "allowed" THEN accepted \cup {turn} ELSE accepted
  BY DEF Record, Quota!Charge
<1>2. decision[r] = NoDecision /\ NoDecision # "allowed"
  BY <1>1, ChatAssumption DEF ChargeIInv, DecidedInTime
<1>3. DecidedInTime'
  BY <1>1 DEF ChargeIInv, DecidedInTime, TypeOK
<1>4. CASE verdict = "allowed"
  <2>1. Numbered'
    BY <1>1, <1>4, NewTurnIsNumbered DEF ChargeIInv
  <2>2. turn \notin accepted
    BY NewTurnIsNew DEF ChargeIInv
  <2>3. Cardinality(accepted') = Cardinality(accepted) + 1
    BY <1>1, <1>4, <2>2, FS_AddElement DEF ChargeIInv, Numbered
  <2>4. r \notin Charged /\ Charged' = Charged \cup {r}
    BY <1>1, <1>2, <1>4 DEF Charged, TypeOK
  <2>5. Cardinality(Charged') = Cardinality(Charged) + 1
    BY <2>4, FS_AddElement, FS_Subset DEF Charged, FinitelyMany
  <2> QED
    BY <1>3, <2>1, <2>3, <2>5 DEF ChargeIInv, ChargedOnce
<1>5. CASE verdict # "allowed"
  <2>1. accepted' = accepted
    BY <1>1, <1>5
  <2>2. Charged' = Charged
    BY <1>1, <1>2, <1>5 DEF Charged, TypeOK
  <2> QED
    BY <1>3, <2>1, <2>2 DEF ChargeIInv, ChargedOnce, Numbered
<1> QED
  BY <1>4, <1>5

(* Every other step leaves the ledger alone.                               *)
LEMMA OthersDoNotCharge ==
    ASSUME ChargeIInv, UNCHANGED ledger, DecidedInTime'
    PROVE  ChargeIInv'
BY DEF ledger, ChargeIInv, Numbered, ChargedOnce, Charged

LEMMA NextChargeIInv ==
    ASSUME FinitelyMany, TypeOK, ChargeIInv, [Next]_vars
    PROVE  ChargeIInv'
<1>1. DecidedInTime
  BY DEF ChargeIInv
<1>2. ASSUME NEW r \in Requests, Record(r) PROVE ChargeIInv'
  BY <1>2, RecordCharges
<1>3. CASE Tick
  BY <1>1, <1>3, OthersDoNotCharge DEF Tick, ledger, DecidedInTime
<1>4. CASE Restart
  <2>1. DecidedInTime'
    BY <1>1, <1>4 DEF Restart, ledger, DecidedInTime, Answered, Refused
  <2> QED
    BY <1>4, <2>1, OthersDoNotCharge DEF Restart
<1>5. ASSUME NEW r \in Requests, NEW x \in {"waiting", "recording", "not_found", "busy"},
             pc[r] \in {"new", "waiting"}, pc' = [pc EXCEPT ![r] = x], UNCHANGED ledger
      PROVE  ChargeIInv'
  <2>1. DecidedInTime'
    BY <1>1, <1>5 DEF ledger, DecidedInTime, TypeOK
  <2> QED
    BY <1>5, <2>1, OthersDoNotCharge
<1>6. ASSUME NEW r \in Requests, Open(r) PROVE ChargeIInv'
  BY <1>5, <1>6 DEF Open
<1>7. ASSUME NEW r \in Requests, NEW s \in Requests,
             NotFound(r, s) \/ Queue(r, s) \/ Continue(r, s)
      PROVE  ChargeIInv'
  BY <1>5, <1>7 DEF NotFound, Queue, Continue, Admit
<1>8. ASSUME NEW r \in Requests, Wake(r) PROVE ChargeIInv'
  <2>1. pc[r] = "waiting" /\ Admit(r, sess[r], Tail(entry[sess[r]].waiters)) /\ UNCHANGED ledger
    BY <1>8 DEF Wake
  <2> QED
    BY <1>5, <2>1 DEF Admit
<1>9. ASSUME NEW r \in Requests, Begin(r) \/ Limit(r) \/ Fail(r) \/ Finish(r)
      PROVE  ChargeIInv'
  <2>1. DecidedInTime'
    BY <1>1, <1>9 DEF Begin, Limit, Fail, Finish, ledger, DecidedInTime, TypeOK
  <2>2. UNCHANGED ledger
    BY <1>9 DEF Begin, Limit, Fail, Finish
  <2> QED
    BY <2>1, <2>2, OthersDoNotCharge
<1>10. CASE UNCHANGED vars
  BY <1>1, <1>10, OthersDoNotCharge DEF vars, ledger, DecidedInTime
<1> QED
  BY <1>2, <1>3, <1>4, <1>6, <1>7, <1>8, <1>9, <1>10 DEF Next, Arrive, Handle

LEMMA InitChargeIInv == Init => ChargeIInv
<1> SUFFICES ASSUME Init PROVE ChargeIInv
  OBVIOUS
<1>1. Charged = {} /\ accepted = {}
  BY ChatAssumption DEF Init, Charged
<1> QED
  BY <1>1, FS_EmptySet DEF Init, ChargeIInv, Numbered, DecidedInTime, ChargedOnce

(* A turn is charged once and before it is worked on, and a request that   *)
(* is refused is not charged; restarts change nothing of it (run_turn).    *)
THEOREM TurnsAreChargedOnce ==
    ASSUME FinitelyMany
    PROVE  Spec => []ChargedTurns
<1>1. ChargeIInv => ChargedTurns
  BY ChatAssumption DEF ChargeIInv, DecidedInTime, ChargedOnce, ChargedTurns, Charged
<1>2. TypeOK /\ ChargeIInv /\ [Next]_vars => ChargeIInv'
  BY NextChargeIInv
<1> QED
  BY <1>1, <1>2, InitChargeIInv, TypeCorrect, PTL DEF Spec

-----------------------------------------------------------------------------
(* The sessions. *)

Done(s) == {r \in Requests : pc[r] = "ok" /\ sess[r] = s}

Holds(s) ==
    /\ {entry[s].turns[i] : i \in DOMAIN entry[s].turns} = Done(s)
    /\ Len(entry[s].turns) = Cardinality(Done(s))

LEMMA NoLostUpdateHolds ==
    /\ NoLostUpdate <=> \A s \in stored : Holds(s)
    /\ NoLostUpdate' <=> \A s \in stored' : Holds(s)'
BY DEF NoLostUpdate, Holds, Done

(* A request that moves on without being answered with 200 changes nothing *)
(* of what a session holds.                                                *)
LEMMA OthersKeepSessions ==
    ASSUME TypeOK, NoLostUpdate, stored' \subseteq stored,
           \A s \in Requests : entry'[s].turns = entry[s].turns,
           NEW r \in Requests, pc[r] # "ok", NEW x, x # "ok",
           pc' = [pc EXCEPT ![r] = x],
           \A q \in Requests \ {r} : sess'[q] = sess[q]
    PROVE  NoLostUpdate'
<1> SUFFICES ASSUME NEW s \in stored' PROVE Holds(s)'
  BY NoLostUpdateHolds
<1>1. s \in stored /\ s \in Requests /\ Holds(s)
  BY NoLostUpdateHolds DEF TypeOK
<1>2. Done(s)' = Done(s)
  BY DEF Done, TypeOK
<1>3. entry'[s].turns = entry[s].turns
  BY <1>1
<1> QED
  BY <1>1, <1>2, <1>3 DEF Holds

LEMMA AppendHolds ==
    ASSUME NEW turns \in Seq(Requests), NEW r \in Requests,
           NEW longer, longer = Append(turns, r)
    PROVE  /\ {longer[i] : i \in DOMAIN longer} = {turns[i] : i \in DOMAIN turns} \cup {r}
           /\ Len(longer) = Len(turns) + 1
<1>1. /\ longer \in Seq(Requests) /\ Len(longer) = Len(turns) + 1
      /\ Len(turns) \in Nat /\ DOMAIN turns = 1 .. Len(turns)
      /\ DOMAIN longer = 1 .. Len(turns) + 1
      /\ \A i \in 1 .. Len(turns) : longer[i] = turns[i]
      /\ longer[Len(turns) + 1] = r
  BY AppendProperties, LenProperties
<1>2. 1 .. Len(turns) + 1 = (1 .. Len(turns)) \cup {Len(turns) + 1}
  BY <1>1
<1>3. {longer[i] : i \in DOMAIN longer} = {turns[i] : i \in DOMAIN turns} \cup {r}
  BY <1>1, <1>2
<1> QED
  BY <1>1, <1>3

LEMMA FinishKeeps ==
    ASSUME FinitelyMany, TypeOK, IInv, NoLostUpdate, NEW r \in Requests, Finish(r)
    PROVE  NoLostUpdate'
<1> SUFFICES ASSUME NEW s \in stored' PROVE Holds(s)'
  BY NoLostUpdateHolds
<1>1. s \in stored /\ s \in Requests /\ Holds(s)
  BY NoLostUpdateHolds DEF TypeOK, Finish
<1>2. /\ pc[r] = "turn" /\ pc' = [pc EXCEPT ![r] = "ok"] /\ sess' = sess
      /\ entry' = [entry EXCEPT ![sess[r]] =
                      [@ EXCEPT !.turns = Append(base[r], r), !.touched = now, !.holder = NoRequest]]
  BY DEF Finish
<1>3. sess[r] \in Requests /\ base[r] = entry[sess[r]].turns
  BY <1>2 DEF IInv, SessionsAreMade, SerialTurns, TypeOK
<1>4. CASE s # sess[r]
  <2>1. entry'[s] = entry[s]
    BY <1>1, <1>2, <1>4 DEF TypeOK
  <2>2. Done(s)' = Done(s)
    BY <1>2, <1>4 DEF Done, TypeOK
  <2> QED
    BY <1>1, <2>1, <2>2 DEF Holds
<1>5. CASE s = sess[r]
  <2>1. entry'[s].turns = Append(entry[s].turns, r)
    BY <1>1, <1>2, <1>3, <1>5 DEF TypeOK, Entry
  <2>2. entry[s].turns \in Seq(Requests)
    BY <1>1 DEF TypeOK, Entry
  <2>3. r \notin Done(s) /\ Done(s)' = Done(s) \cup {r}
    BY <1>2, <1>5 DEF Done, TypeOK
  <2>4. Cardinality(Done(s)') = Cardinality(Done(s)) + 1
    BY <2>3, FS_AddElement, FS_Subset DEF Done, FinitelyMany
  <2> QED
    <3>1. /\ {entry'[s].turns[i] : i \in DOMAIN entry'[s].turns}
                = {entry[s].turns[i] : i \in DOMAIN entry[s].turns} \cup {r}
          /\ Len(entry'[s].turns) = Len(entry[s].turns) + 1
      BY <2>1, <2>2, AppendHolds
    <3>2. /\ {entry[s].turns[i] : i \in DOMAIN entry[s].turns} = Done(s)
          /\ Len(entry[s].turns) = Cardinality(Done(s))
      BY <1>1 DEF Holds
    <3>3. {entry'[s].turns[i] : i \in DOMAIN entry'[s].turns} = Done(s)'
      BY <2>3, <3>1, <3>2, Zenon
    <3>4. Len(entry'[s].turns) = Cardinality(Done(s)')
      BY <2>4, <3>1, <3>2
    <3> QED
      BY <3>3, <3>4, Zenon DEF Holds
<1> QED
  BY <1>4, <1>5

LEMMA BeginKeeps ==
    ASSUME TypeOK, IInv, NoLostUpdate, NEW r \in Requests, Begin(r)
    PROVE  NoLostUpdate'
<1>1. pc[r] = "recorded" /\ pc' = [pc EXCEPT ![r] = "turn"]
  BY DEF Begin
<1>2. CASE sess[r] # NoSession
  <2>1. stored' = stored /\ entry' = entry /\ sess' = sess
    BY <1>2 DEF Begin, store
  <2> QED
    BY <1>1, <2>1, OthersKeepSessions
<1>3. CASE sess[r] = NoSession
  <2>1. /\ sess' = [sess EXCEPT ![r] = r]
        /\ stored' \subseteq stored \cup {r}
        /\ entry' = [entry EXCEPT ![r] = [BlankEntry EXCEPT !.touched = now, !.holder = r]]
    BY <1>3 DEF Begin, NewSession, Live
  <2>2. \A q \in Requests : sess[q] # r
    BY <1>3, ChatAssumption DEF TypeOK, IInv, SessionsAreMade
  <2> SUFFICES ASSUME NEW s \in stored' PROVE Holds(s)'
    BY NoLostUpdateHolds
  <2>3. CASE s # r
    <3>1. s \in stored /\ entry'[s] = entry[s]
      BY <2>1, <2>3 DEF TypeOK
    <3>2. Done(s)' = Done(s)
      BY <1>1, <2>1, <2>3 DEF Done, TypeOK
    <3> QED
      BY <3>1, <3>2, NoLostUpdateHolds DEF Holds
  <2>4. CASE s = r
    <3>1. entry'[s].turns = <<>>
      BY <2>1, <2>4 DEF BlankEntry, TypeOK
    <3>2. Done(s)' = {}
      BY <1>1, <2>1, <2>2, <2>4 DEF Done, TypeOK
    <3> QED
      BY <3>1, <3>2, FS_EmptySet DEF Holds
  <2> QED
    BY <2>3, <2>4
<1> QED
  BY <1>2, <1>3

LEMMA NextNoLostUpdate ==
    ASSUME FinitelyMany, TypeOK, IInv, NoLostUpdate, [Next]_vars
    PROVE  NoLostUpdate'
<1>1. CASE UNCHANGED <<stored, entry, pc, sess>>
  <2>1. \A s \in stored : Holds(s)' <=> Holds(s)
    BY <1>1 DEF Holds, Done
  <2> QED
    BY <1>1, <2>1, NoLostUpdateHolds
<1>2. CASE Restart
  BY <1>2 DEF Restart, NoLostUpdate
<1>3. ASSUME NEW r \in Requests, Open(r) \/ Record(r) PROVE NoLostUpdate'
  <2>1. stored' = stored /\ entry' = entry /\ sess' = sess /\ pc[r] # "ok"
    BY <1>3 DEF Open, Record, store
  <2>2. PICK x \in {"recording", "busy", "recorded"} : pc' = [pc EXCEPT ![r] = x]
    BY <1>3 DEF Open, Record
  <2> QED
    BY <2>1, <2>2, OthersKeepSessions
<1>4. ASSUME NEW r \in Requests, NEW s \in Requests, NotFound(r, s)
      PROVE  NoLostUpdate'
  BY <1>4, OthersKeepSessions DEF NotFound, Live
<1>5. ASSUME NEW r \in Requests, NEW s \in Requests, Queue(r, s)
      PROVE  NoLostUpdate'
  <2>1. \A q \in Requests : entry'[q].turns = entry[q].turns
    BY <1>5 DEF Queue, TypeOK, Entry
  <2> QED
    BY <1>5, <2>1, OthersKeepSessions DEF Queue, Get, Live, TypeOK
<1>6. ASSUME NEW r \in Requests, NEW s \in Requests, NEW w,
             Admit(r, s, w), pc[r] \in {"new", "waiting"}, stored' \subseteq stored,
             \A q \in Requests \ {r} : sess'[q] = sess[q]
      PROVE  NoLostUpdate'
  <2>1. \A q \in Requests : entry'[q].turns = entry[q].turns
    BY <1>6, AdmitFrame
  <2>2. PICK x \in {"recording", "busy"} : pc' = [pc EXCEPT ![r] = x]
    BY <1>6, AdmitFrame
  <2> QED
    BY <1>6, <2>1, <2>2, OthersKeepSessions
<1>7. ASSUME NEW r \in Requests, NEW s \in Requests, Continue(r, s)
      PROVE  NoLostUpdate'
  BY <1>6, <1>7 DEF Continue, Get, Live, TypeOK
<1>8. ASSUME NEW r \in Requests, Wake(r) PROVE NoLostUpdate'
  <2>1. sess[r] \in Requests
    BY <1>8 DEF Wake, IInv, SessionsAreMade, TypeOK
  <2>2. /\ pc[r] = "waiting" /\ Admit(r, sess[r], Tail(entry[sess[r]].waiters))
        /\ stored' = stored /\ sess' = sess
    BY <1>8 DEF Wake
  <2> QED
    BY <1>6, <2>1, <2>2
<1>9. ASSUME NEW r \in Requests, Begin(r) PROVE NoLostUpdate'
  BY <1>9, BeginKeeps
<1>10. ASSUME NEW r \in Requests, Limit(r) \/ Fail(r) PROVE NoLostUpdate'
  <2>1. \A q \in Requests : entry'[q].turns = entry[q].turns
    <3>1. CASE sess[r] = NoSession
      BY <1>10, <3>1 DEF Limit, Fail, Release
    <3>2. CASE sess[r] # NoSession
      <4>1. entry' = [entry EXCEPT ![sess[r]].holder = NoRequest]
        BY <1>10, <3>2 DEF Limit, Fail, Release
      <4>2. entry[sess[r]] \in Entry /\ entry \in [Requests -> Entry]
        BY <3>2 DEF TypeOK
      <4> QED
        BY <4>1, <4>2 DEF Entry
    <3> QED
      BY <3>1, <3>2
  <2>2. stored' = stored /\ sess' = sess /\ pc[r] # "ok"
    BY <1>10 DEF Limit, Fail
  <2>3. PICK x \in {"limited", "failed"} : pc' = [pc EXCEPT ![r] = x]
    BY <1>10 DEF Limit, Fail
  <2> QED
    BY <2>1, <2>2, <2>3, OthersKeepSessions
<1>11. ASSUME NEW r \in Requests, Finish(r) PROVE NoLostUpdate'
  BY <1>11, FinishKeeps
<1> QED
  BY <1>1, <1>2, <1>3, <1>4, <1>5, <1>7, <1>8, <1>9, <1>10, <1>11
     DEF Next, Arrive, Handle, Tick, vars, store

(* A stored session holds each turn answered with 200 in it once, and no   *)
(* other: nothing is overwritten, however requests of it are interleaved,  *)
(* fail, or are refused (run_turn, checkout).                              *)
THEOREM NoUpdateIsLost ==
    ASSUME FinitelyMany
    PROVE  Spec => []NoLostUpdate
<1>1. Init => NoLostUpdate
  BY DEF Init, NoLostUpdate
<1>2. TypeOK /\ IInv /\ NoLostUpdate /\ [Next]_vars => NoLostUpdate'
  BY NextNoLostUpdate
<1> QED
  BY <1>1, <1>2, InitIInv, NextIInv, TypeCorrect, PTL DEF Spec
-----------------------------------------------------------------------------
(* The order of the store. *)

IsOrder(order, S) ==
    /\ order \subseteq S \X S
    /\ \A a \in S : <<a, a>> \notin order
    /\ \A a, b \in S : a # b => <<a, b>> \in order \/ <<b, a>> \in order
    /\ \A a, b, c \in S : <<a, b>> \in order /\ <<b, c>> \in order => <<a, c>> \in order

LEMMA OnlyIsOrder ==
    ASSUME NEW S, NEW order, IsOrder(order, S), NEW kept, kept \subseteq S
    PROVE  IsOrder(Only(order, kept), kept)
<1>1. \A a, b \in kept : <<a, b>> \in Only(order, kept) <=> <<a, b>> \in order
  BY DEF Only
<1>2. Only(order, kept) \subseteq kept \X kept
  BY DEF Only, IsOrder
<1> QED
  BY <1>1, <1>2 DEF IsOrder

LEMMA ToEndIsOrder ==
    ASSUME NEW S, NEW order, IsOrder(order, S), NEW kept, NEW s \in kept, kept \ {s} \subseteq S
    PROVE  IsOrder(ToEnd(order, kept, s), kept)
<1> DEFINE rest == Only(order, kept \ {s})
           O == ToEnd(order, kept, s)
<1>1. IsOrder(rest, kept \ {s})
  BY OnlyIsOrder
<1>2. O = rest \cup ((kept \ {s}) \X {s})
  BY DEF ToEnd
<1> HIDE DEF rest, O
<1>3. \A a, b \in kept \ {s} : <<a, b>> \in O <=> <<a, b>> \in rest
  BY <1>2
<1>4. \A a \in kept \ {s} : <<a, s>> \in O
  BY <1>2
<1>5. \A a \in kept : <<s, a>> \notin O
  BY <1>1, <1>2 DEF IsOrder
<1>6. O \subseteq kept \X kept
  BY <1>1, <1>2 DEF IsOrder
<1>7. \A a, b \in kept : a # b => <<a, b>> \in O \/ <<b, a>> \in O
  BY <1>1, <1>3, <1>4 DEF IsOrder
<1>8. ASSUME NEW a \in kept, NEW b \in kept, NEW c \in kept, <<a, b>> \in O, <<b, c>> \in O
      PROVE  <<a, c>> \in O
  <2>1. a # s /\ b # s
    BY <1>5, <1>8
  <2>2. CASE c = s
    BY <1>4, <2>1, <2>2
  <2>3. CASE c # s
    BY <1>1, <1>3, <1>8, <2>1, <2>3 DEF IsOrder
  <2> QED
    BY <2>2, <2>3
<1>9. \A a \in kept : <<a, a>> \notin O
  BY <1>1, <1>3, <1>5 DEF IsOrder
<1> QED
  BY <1>6, <1>7, <1>8, <1>9 DEF IsOrder, O

(* The store holds finitely many sessions, each made by its own request,   *)
(* and in an order.                                                        *)
StoreInv ==
    /\ IsFiniteSet(stored)
    /\ \A s \in stored : sess[s] = s
    /\ IsOrder(before, stored)

LEMMA LooksUpKeepStore ==
    ASSUME StoreInv, stored' = Live, before' = Only(before, Live) \/ \E s \in Live : before' = ToEnd(before, Live, s)
    PROVE  IsFiniteSet(stored') /\ IsOrder(before', stored')
<1>1. Live \in SUBSET stored
  BY DEF Live
<1>2. IsFiniteSet(Live)
  BY <1>1, FS_Subset DEF StoreInv
<1>3. IsOrder(before', Live)
  BY <1>1, OnlyIsOrder, ToEndIsOrder DEF StoreInv
<1> QED
  BY <1>2, <1>3

LEMMA NewSessionKeepsStore ==
    ASSUME StoreInv, NEW r \in Requests, NewSession(r)
    PROVE  IsFiniteSet(stored') /\ IsOrder(before', stored')
<1> DEFINE kept == Live \ Dropped
<1>1. kept \in SUBSET stored
  BY DEF Live
<1>2. stored' = kept \cup {r} /\ before' = ToEnd(before, kept \cup {r}, r)
  BY DEF NewSession
<1> HIDE DEF kept
<1>3. IsFiniteSet(kept)
  BY <1>1, FS_Subset DEF StoreInv
<1>4. IsFiniteSet(kept \cup {r})
  BY <1>3, FS_AddElement
<1>5. IsOrder(ToEnd(before, kept \cup {r}, r), kept \cup {r})
  BY <1>1, ToEndIsOrder DEF StoreInv
<1> QED
  BY <1>2, <1>4, <1>5

(* What a step does to the store.                                          *)
StoreStep ==
    \/ UNCHANGED <<stored, before>>
    \/ restarts' # restarts /\ stored' = {} /\ before' = {}
    \/ stored' = Live /\ before' = Only(before, Live)
    \/ \E s \in Live : stored' = Live /\ before' = ToEnd(before, Live, s)
    \/ \E r \in Requests : sess[r] = NoSession /\ sess'[r] = r /\ NewSession(r)

LEMMA StoreSteps == ASSUME TypeOK, [Next]_vars PROVE StoreStep
<1> USE DEF StoreStep
<1>1. CASE Tick \/ UNCHANGED vars
  BY <1>1 DEF Tick, vars, store
<1>2. CASE Restart
  <2>1. restarts' # restarts
    BY <1>2 DEF Restart, TypeOK
  <2> QED
    BY <1>2, <2>1 DEF Restart
<1>3. ASSUME NEW q \in Requests, Open(q) \/ Wake(q) \/ Record(q) \/ Limit(q) \/ Fail(q) \/ Finish(q) PROVE StoreStep
  BY <1>3 DEF Open, Wake, Record, Limit, Fail, Finish, store
<1>4. ASSUME NEW q \in Requests, NEW s \in Requests, NotFound(q, s) \/ Queue(q, s) \/ Continue(q, s)
      PROVE  StoreStep
  BY <1>4 DEF NotFound, Queue, Continue, Get
<1>5. ASSUME NEW q \in Requests, Begin(q) PROVE StoreStep
  <2>1. CASE sess[q] = NoSession
    BY <1>5, <2>1 DEF Begin, NewSession, TypeOK
  <2>2. CASE sess[q] # NoSession
    BY <1>5, <2>2 DEF Begin, store
  <2> QED
    BY <2>1, <2>2
<1> QED
  BY <1>1, <1>2, <1>3, <1>4, <1>5 DEF Next, Arrive, Handle

LEMMA SessionsStay ==
    ASSUME TypeOK, IInv, [Next]_vars, NEW q \in Requests, sess[q] # NoSession
    PROVE  sess'[q] = sess[q]
<1>1. CASE Tick \/ Restart \/ UNCHANGED vars
  BY <1>1 DEF Tick, Restart, vars
<1>2. ASSUME NEW r \in Requests, NEW s \in Requests, NotFound(r, s) \/ Queue(r, s) \/ Continue(r, s)
      PROVE  sess'[q] = sess[q]
  BY <1>2 DEF NotFound, Queue, Continue, IInv, SessionsAreMade, TypeOK
<1>3. ASSUME NEW r \in Requests, Begin(r) PROVE sess'[q] = sess[q]
  BY <1>3 DEF Begin, NewSession, TypeOK
<1>4. ASSUME NEW r \in Requests, Open(r) \/ Wake(r) \/ Record(r) \/ Limit(r) \/ Fail(r) \/ Finish(r)
      PROVE  sess'[q] = sess[q]
  BY <1>4 DEF Open, Wake, Record, Limit, Fail, Finish
<1> QED
  BY <1>1, <1>2, <1>3, <1>4 DEF Next, Arrive, Handle

LEMMA NextStoreInv == ASSUME TypeOK, IInv, StoreInv, [Next]_vars PROVE StoreInv'
<1>1. \A s \in stored : sess[s] = s /\ sess'[s] = s
  BY SessionsStay, ChatAssumption DEF StoreInv, TypeOK
<1>2. StoreStep
  BY StoreSteps
<1>3. CASE UNCHANGED <<stored, before>>
  BY <1>1, <1>3 DEF StoreInv
<1>4. CASE stored' = {} /\ before' = {}
  BY <1>4, FS_EmptySet DEF StoreInv, IsOrder
<1>5. CASE stored' = Live /\ (before' = Only(before, Live) \/ \E s \in Live : before' = ToEnd(before, Live, s))
  BY <1>1, <1>5, LooksUpKeepStore DEF StoreInv, Live
<1>6. ASSUME NEW r \in Requests, sess'[r] = r, NewSession(r) PROVE StoreInv'
  <2>1. stored' \subseteq stored \cup {r}
    BY <1>6 DEF NewSession, Live
  <2> QED
    BY <1>1, <1>6, <2>1, NewSessionKeepsStore DEF StoreInv
<1> QED
  BY <1>2, <1>3, <1>4, <1>5, <1>6 DEF StoreStep

(* What create drops for space is unlocked and in front of all it keeps.   *)
LEMMA DroppedAreOldest ==
    ASSUME TypeOK, StoreInv, NEW s \in Dropped, NEW x \in Live \ Dropped
    PROVE  ~Locked(s) /\ <<s, x>> \in before
<1>1. /\ s \in Live /\ Cardinality(Live) - Cardinality(InFront(s)) >= MaxSessions
      /\ \A y \in InFront(s) \cup {s} : ~Locked(y)
  BY DEF Dropped
<1>2. s \in stored /\ x \in stored /\ x # s
  BY <1>1 DEF Live
<1> SUFFICES ASSUME <<s, x>> \notin before PROVE FALSE
  BY <1>1
<1>3. <<x, s>> \in before
  BY <1>2 DEF StoreInv, IsOrder
<1>4. x \in InFront(s)
  BY <1>3 DEF InFront
<1>5. InFront(x) \subseteq InFront(s)
  BY <1>2, <1>3 DEF InFront, StoreInv, IsOrder, Live
<1>6. /\ IsFiniteSet(Live)
      /\ Cardinality(Live) \in Nat /\ Cardinality(InFront(s)) \in Nat /\ Cardinality(InFront(x)) \in Nat
      /\ Cardinality(InFront(x)) <= Cardinality(InFront(s))
  <2>1. Live \in SUBSET stored /\ InFront(s) \in SUBSET stored /\ InFront(x) \in SUBSET stored
    BY DEF Live, InFront
  <2>2. IsFiniteSet(Live) /\ IsFiniteSet(InFront(s)) /\ IsFiniteSet(InFront(x))
    BY <2>1, FS_Subset DEF StoreInv
  <2> QED
    BY <1>5, <2>2, FS_Subset, FS_CardinalityType
<1>7. Cardinality(Live) - Cardinality(InFront(x)) >= MaxSessions
  BY <1>1, <1>6, ChatAssumption
<1>8. \A y \in InFront(x) \cup {x} : ~Locked(y)
  BY <1>1, <1>4, <1>5
<1> QED
  BY <1>7, <1>8 DEF Dropped

LEMMA StoreStepIsSafe ==
    ASSUME TypeOK, StoreInv, StoreStep, restarts' = restarts, NEW s \in stored \ stored'
    PROVE  /\ ~Locked(s)
           /\ \/ now - entry[s].touched > Ttl
              \/ \A x \in stored' \cap stored : <<s, x>> \in before
<1>1. CASE s \in Expired
  BY <1>1 DEF Expired
<1>2. CASE s \in Live
  <2>1. PICK r \in Requests : sess[r] = NoSession /\ NewSession(r)
    BY <1>2 DEF StoreStep
  <2>2. r \notin stored
    BY <2>1, ChatAssumption DEF StoreInv
  <2>3. stored' = (Live \ Dropped) \cup {r}
    BY <2>1 DEF NewSession
  <2>4. s \in Dropped /\ \A x \in stored' \cap stored : x \in Live \ Dropped
    BY <1>2, <2>2, <2>3
  <2>5. ~Locked(s)
    BY <2>4 DEF Dropped
  <2> QED
    BY <2>4, <2>5, DroppedAreOldest
<1> QED
  BY <1>1, <1>2 DEF Live

(* Expiry and eviction take no session with a turn in progress, and for    *)
(* space only those used least recently of all there are (create, _expire, *)
(* _oldest_locked), in a store of any size.                                *)
THEOREM EvictionTakesTheOldest == Spec => EvictionIsSafe
<1>1. Init => StoreInv
  BY FS_EmptySet DEF Init, StoreInv, IsOrder
<1>2. TypeOK /\ IInv /\ StoreInv /\ [Next]_vars => StoreInv'
  BY NextStoreInv
<1>3. TypeOK /\ StoreInv /\ [Next]_vars =>
        [restarts' = restarts =>
            \A s \in stored \ stored' :
                /\ ~Locked(s)
                /\ \/ now - entry[s].touched > Ttl
                   \/ \A x \in stored' \cap stored : <<s, x>> \in before]_vars
  BY StoreSteps, StoreStepIsSafe
<1> QED
  BY <1>1, <1>2, <1>3, InitIInv, NextIInv, TypeCorrect, PTL DEF Spec, EvictionIsSafe
-----------------------------------------------------------------------------
(* What rejected requests leave behind. *)

(* A request runs in the session it made, or in one whose first turn was   *)
(* answered.                                                               *)
SessionsAreTold ==
    \A q \in Requests :
        sess[q] # NoSession => q = sess[q] \/ pc[sess[q]] = "ok"

(* Until then only its maker has the session.                              *)
UntoldAreEmpty ==
    \A s \in Requests : sess[s] = s /\ pc[s] # "ok" =>
        /\ entry[s].turns = <<>> /\ entry[s].waiters = <<>>
        /\ pc[s] = "failed" => entry[s].holder = NoRequest

RejectIInv == SessionsAreTold /\ UntoldAreEmpty

LEMMA KnownAreTold ==
    ASSUME TypeOK, IInv, RejectIInv, NEW s \in Requests, s \in Known
    PROVE  pc[s] = "ok" /\ sess[s] = s
<1>1. PICK q \in Requests : pc[q] = "ok" /\ sess[q] = s
  BY DEF Known
<1>2. sess[s] = s
  BY <1>1, ChatAssumption DEF IInv, SessionsAreMade, TypeOK
<1>3. pc[s] = "ok"
  BY <1>1, ChatAssumption DEF RejectIInv, SessionsAreTold
<1> QED
  BY <1>2, <1>3

(* No session gets a message or a longer life.                             *)
EntriesRest ==
    \A s \in Requests : /\ entry'[s].turns = entry[s].turns
                        /\ entry'[s].touched = entry[s].touched

LEMMA AdmitLeavesEntries ==
    ASSUME TypeOK, NEW r \in Requests, NEW s \in Requests, NEW w, Admit(r, s, w)
    PROVE  EntriesRest
<1>1. entry[s] \in Entry /\ entry \in [Requests -> Entry]
  BY DEF TypeOK
<1>2. CASE active < MaxConcurrentTurns
  <2>1. entry' = [entry EXCEPT ![s] = [@ EXCEPT !.holder = r, !.waiters = w]]
    BY <1>2 DEF Admit
  <2> QED
    BY <1>1, <2>1 DEF EntriesRest, Entry
<1>3. CASE ~(active < MaxConcurrentTurns)
  <2>1. entry' = [entry EXCEPT ![s].waiters = w]
    BY <1>3 DEF Admit
  <2> QED
    BY <1>1, <2>1 DEF EntriesRest, Entry
<1> QED
  BY <1>2, <1>3

LEMMA ReleaseLeavesEntries ==
    ASSUME TypeOK, NEW r \in Requests, Release(r)
    PROVE  /\ EntriesRest
           /\ \A s \in Requests : /\ entry'[s].waiters = entry[s].waiters
                                   /\ entry'[s].holder \in {entry[s].holder, NoRequest}
           /\ sess[r] # NoSession => entry'[sess[r]].holder = NoRequest
<1>1. CASE sess[r] = NoSession
  BY <1>1 DEF Release, EntriesRest
<1>2. CASE sess[r] # NoSession
  <2>1. entry' = [entry EXCEPT ![sess[r]].holder = NoRequest]
    BY <1>2 DEF Release
  <2>2. entry[sess[r]] \in Entry /\ entry \in [Requests -> Entry] /\ sess[r] \in Requests
    BY <1>2 DEF TypeOK
  <2> QED
    BY <2>1, <2>2 DEF EntriesRest, Entry
<1> QED
  BY <1>1, <1>2

(* A request that is answered without a 200, or only moved on, leaves      *)
(* untold sessions as they were.                                           *)
LEMMA OthersKeepUntold ==
    ASSUME TypeOK, RejectIInv, NEW r \in Requests, NEW x, x # "ok",
           pc' = [pc EXCEPT ![r] = x], pc[r] # "ok", sess' = sess, EntriesRest,
           \A s \in Requests : entry'[s].waiters = entry[s].waiters,
           \A s \in Requests : entry'[s].holder \in {entry[s].holder, NoRequest},
           x = "failed" /\ sess[r] = r => entry'[r].holder = NoRequest
    PROVE  RejectIInv'
<1>1. SessionsAreTold'
  BY DEF RejectIInv, SessionsAreTold, TypeOK
<1>2. ASSUME NEW s \in Requests, sess[s] = s, pc'[s] # "ok"
      PROVE  /\ entry'[s].turns = <<>> /\ entry'[s].waiters = <<>>
             /\ pc'[s] = "failed" => entry'[s].holder = NoRequest
  <2>1. pc[s] # "ok"
    BY <1>2 DEF TypeOK
  <2>2. /\ entry[s].turns = <<>> /\ entry[s].waiters = <<>>
        /\ pc[s] = "failed" => entry[s].holder = NoRequest
    BY <1>2, <2>1 DEF RejectIInv, UntoldAreEmpty
  <2>3. entry'[s].turns = <<>> /\ entry'[s].waiters = <<>>
    BY <2>2 DEF EntriesRest
  <2>4. ASSUME pc'[s] = "failed" PROVE entry'[s].holder = NoRequest
    <3>1. CASE s = r
      BY <1>2, <2>4, <3>1 DEF TypeOK
    <3>2. CASE s # r
      BY <2>2, <2>4, <3>2 DEF TypeOK
    <3> QED
      BY <3>1, <3>2
  <2> QED
    BY <2>3, <2>4
<1> QED
  BY <1>1, <1>2 DEF RejectIInv, UntoldAreEmpty

(* A request that enters a told session leaves untold ones alone.          *)
LEMMA EnteringKeepsUntold ==
    ASSUME TypeOK, RejectIInv, NEW r \in Requests, NEW s \in Requests, NEW x,
           x # "ok", pc[r] \in {"new", "waiting"}, pc[s] = "ok", sess[s] = s,
           sess[r] \in {NoSession, s},
           pc' = [pc EXCEPT ![r] = x], sess' = [sess EXCEPT ![r] = s],
           \A q \in Requests \ {s} : entry'[q] = entry[q]
    PROVE  RejectIInv'
<1>1. r # s
  OBVIOUS
<1>2. SessionsAreTold'
  BY <1>1 DEF RejectIInv, SessionsAreTold, TypeOK
<1>3. ASSUME NEW q \in Requests, sess'[q] = q, pc'[q] # "ok"
      PROVE  /\ entry'[q].turns = <<>> /\ entry'[q].waiters = <<>>
             /\ pc'[q] = "failed" => entry'[q].holder = NoRequest
  <2>1. q # r /\ q # s
    BY <1>1, <1>3 DEF TypeOK
  <2>2. sess[q] = q /\ pc[q] = pc'[q] /\ entry'[q] = entry[q]
    BY <1>3, <2>1 DEF TypeOK
  <2> QED
    BY <1>3, <2>2 DEF RejectIInv, UntoldAreEmpty
<1> QED
  BY <1>2, <1>3 DEF RejectIInv, UntoldAreEmpty

LEMMA NextRejectIInv == ASSUME TypeOK, IInv, RejectIInv, [Next]_vars PROVE RejectIInv'
<1>1. CASE Tick \/ UNCHANGED vars
  BY <1>1 DEF Tick, vars, store, RejectIInv, SessionsAreTold, UntoldAreEmpty
<1>2. CASE Restart
  <2>1. \A q \in Requests : pc[q] = "ok" <=> pc'[q] = "ok"
    BY <1>2 DEF Restart, Answered, Refused, TypeOK
  <2>2. sess' = sess /\ \A s \in Requests : entry'[s] = BlankEntry
    BY <1>2 DEF Restart
  <2>3. SessionsAreTold'
    BY <2>1, <2>2 DEF RejectIInv, SessionsAreTold, TypeOK
  <2>4. UntoldAreEmpty'
    BY <2>2 DEF UntoldAreEmpty, BlankEntry
  <2> QED
    BY <2>3, <2>4 DEF RejectIInv
<1>3. ASSUME NEW r \in Requests, Open(r) \/ Record(r) PROVE RejectIInv'
  <2>1. PICK x \in {"recording", "busy", "recorded"} : pc' = [pc EXCEPT ![r] = x]
    BY <1>3 DEF Open, Record
  <2>2. entry' = entry /\ sess' = sess /\ pc[r] \in {"new", "recording"}
    BY <1>3 DEF Open, Record, store
  <2> QED
    BY <2>1, <2>2, OthersKeepUntold DEF EntriesRest
<1>4. ASSUME NEW r \in Requests, NEW s \in Requests, NotFound(r, s) PROVE RejectIInv'
  BY <1>4, OthersKeepUntold DEF NotFound, EntriesRest
<1>5. ASSUME NEW r \in Requests, NEW s \in Requests, Queue(r, s) PROVE RejectIInv'
  <2>1. pc[s] = "ok" /\ sess[s] = s
    BY <1>5, KnownAreTold DEF Queue
  <2>2. \A q \in Requests \ {s} : entry'[q] = entry[q]
    BY <1>5 DEF Queue, TypeOK
  <2>3. sess[r] = NoSession
    BY <1>5 DEF Queue, IInv, SessionsAreMade
  <2> QED
    BY <1>5, <2>1, <2>2, <2>3, EnteringKeepsUntold DEF Queue
<1>6. ASSUME NEW r \in Requests, NEW s \in Requests, Continue(r, s) PROVE RejectIInv'
  <2>1. pc[s] = "ok" /\ sess[s] = s
    BY <1>6, KnownAreTold DEF Continue
  <2>2. sess[r] = NoSession
    BY <1>6 DEF Continue, IInv, SessionsAreMade
  <2>3. /\ Admit(r, s, entry[s].waiters) /\ pc[r] = "new"
        /\ sess' = [sess EXCEPT ![r] = s]
    BY <1>6 DEF Continue
  <2>4. PICK x \in {"recording", "busy"} : pc' = [pc EXCEPT ![r] = x]
    BY <2>3, AdmitFrame
  <2>5. \A q \in Requests \ {s} : entry'[q] = entry[q]
    BY <2>3, AdmitFrame
  <2> QED
    BY <2>1, <2>2, <2>3, <2>4, <2>5, EnteringKeepsUntold
<1>7. ASSUME NEW r \in Requests, Wake(r) PROVE RejectIInv'
  <2> DEFINE s == sess[r]
  <2>1. /\ pc[r] = "waiting" /\ entry[s].waiters # <<>>
        /\ Admit(r, s, Tail(entry[s].waiters)) /\ sess' = sess
    BY <1>7 DEF Wake
  <2>2. s \in Requests /\ s # NoSession /\ sess[s] = s
    BY <2>1 DEF IInv, SessionsAreMade, TypeOK
  <2>3. pc[s] = "ok"
    <3>1. r = s \/ pc[s] = "ok"
      BY <2>2 DEF RejectIInv, SessionsAreTold
    <3> QED
      BY <2>1, <2>2, <3>1 DEF RejectIInv, UntoldAreEmpty
  <2>4. sess' = [sess EXCEPT ![r] = s]
    BY <2>1 DEF TypeOK
  <2>5. PICK x \in {"recording", "busy"} : pc' = [pc EXCEPT ![r] = x]
    BY <2>1, <2>2, AdmitFrame
  <2>6. \A q \in Requests \ {s} : entry'[q] = entry[q]
    BY <2>1, <2>2, AdmitFrame
  <2> HIDE DEF s
  <2> QED
    BY <2>1, <2>2, <2>3, <2>4, <2>5, <2>6, EnteringKeepsUntold DEF s
<1>8. ASSUME NEW r \in Requests, Begin(r) PROVE RejectIInv'
  <2>1. pc[r] = "recorded" /\ pc' = [pc EXCEPT ![r] = "turn"]
    BY <1>8 DEF Begin
  <2>2. CASE sess[r] = NoSession
    <3>1. /\ sess' = [sess EXCEPT ![r] = r]
          /\ entry' = [entry EXCEPT ![r] =
                        [BlankEntry EXCEPT !.touched = now, !.holder = r]]
      BY <1>8, <2>2 DEF Begin, NewSession
    <3>2. /\ entry'[r].turns = <<>> /\ entry'[r].waiters = <<>>
          /\ \A q \in Requests \ {r} : entry'[q] = entry[q]
      BY <3>1 DEF TypeOK, BlankEntry
    <3>3. SessionsAreTold'
      BY <2>1, <3>1 DEF RejectIInv, SessionsAreTold, TypeOK
    <3>4. UntoldAreEmpty'
      BY <2>1, <3>1, <3>2 DEF RejectIInv, UntoldAreEmpty, TypeOK
    <3> QED
      BY <3>3, <3>4 DEF RejectIInv
  <2>3. CASE sess[r] # NoSession
    <3>1. entry' = entry /\ sess' = sess
      BY <1>8, <2>3 DEF Begin, store
    <3> QED
      BY <2>1, <3>1, OthersKeepUntold DEF EntriesRest
  <2> QED
    BY <2>2, <2>3
<1>9. ASSUME NEW r \in Requests, Limit(r) \/ Fail(r) PROVE RejectIInv'
  <2>1. PICK x \in {"limited", "failed"} : pc' = [pc EXCEPT ![r] = x]
    BY <1>9 DEF Limit, Fail
  <2>2. Release(r) /\ sess' = sess /\ pc[r] # "ok"
    BY <1>9 DEF Limit, Fail
  <2>3. sess[r] = r => entry'[r].holder = NoRequest
    BY <2>2, ReleaseLeavesEntries, ChatAssumption
  <2> QED
    BY <2>1, <2>2, <2>3, ReleaseLeavesEntries, OthersKeepUntold
<1>10. ASSUME NEW r \in Requests, Finish(r) PROVE RejectIInv'
  <2>1. pc[r] = "turn" /\ pc' = [pc EXCEPT ![r] = "ok"] /\ sess' = sess
    BY <1>10 DEF Finish
  <2>2. sess[r] \in Requests /\ sess[r] # NoSession
    BY <2>1 DEF IInv, SessionsAreMade, TypeOK
  <2>3. \A q \in Requests \ {sess[r]} : entry'[q] = entry[q]
    BY <1>10 DEF Finish, TypeOK
  <2>4. pc'[sess[r]] = "ok"
    BY <2>1, <2>2 DEF RejectIInv, SessionsAreTold, TypeOK
  <2>5. SessionsAreTold'
    BY <2>1 DEF RejectIInv, SessionsAreTold, TypeOK
  <2>6. UntoldAreEmpty'
    BY <2>1, <2>3, <2>4 DEF RejectIInv, UntoldAreEmpty, TypeOK
  <2> QED
    BY <2>5, <2>6 DEF RejectIInv
<1> QED
  BY <1>1, <1>2, <1>3, <1>4, <1>5, <1>6, <1>7, <1>8, <1>9, <1>10
     DEF Next, Arrive, Handle

(* The three parts of what a step may do to the store and the sessions.    *)
UnchargedLeaveStore ==
    \A r \in Requests :
        pc'[r] # pc[r] /\ decision'[r] # "allowed" =>
            /\ stored' \in {stored, Live}
            /\ \A a, b \in stored' \ {sess'[r]} :
                  <<a, b>> \in before' <=> <<a, b>> \in before

ChargedCreate == \A s \in stored' \ stored : decision[s] = "allowed"

AnsweredTouch ==
    \A s \in stored' \cap stored :
        \/ /\ entry'[s].turns = entry[s].turns
           /\ entry'[s].touched = entry[s].touched
        \/ \E r \in Requests : /\ sess[r] = s
                               /\ pc[r] = "turn" /\ pc'[r] = "ok"

LEMMA StepLeavesNoTrace ==
    ASSUME TypeOK, IInv, StoreInv, [Next]_vars, restarts' = restarts
    PROVE  UnchargedLeaveStore /\ ChargedCreate /\ AnsweredTouch
<1> USE DEF UnchargedLeaveStore, ChargedCreate, AnsweredTouch
<1>0. stored \subseteq Requests /\ Live \subseteq stored
  BY DEF TypeOK, Live
<1>1. CASE Tick \/ UNCHANGED vars
  BY <1>1 DEF Tick, vars, store
<1>2. CASE Restart
  BY <1>2 DEF Restart, TypeOK
<1>3. ASSUME NEW q \in Requests, Open(q) \/ Record(q)
      PROVE  UnchargedLeaveStore /\ ChargedCreate /\ AnsweredTouch
  BY <1>3 DEF Open, Record, store
<1>4. ASSUME NEW q \in Requests, NEW s \in Requests, NotFound(q, s)
      PROVE  UnchargedLeaveStore /\ ChargedCreate /\ AnsweredTouch
  BY <1>0, <1>4 DEF NotFound, Only
<1>5. ASSUME NEW q \in Requests, NEW s \in Requests, Queue(q, s) \/ Continue(q, s)
      PROVE  UnchargedLeaveStore /\ ChargedCreate /\ AnsweredTouch
  <2>1. /\ stored' = Live /\ before' = ToEnd(before, Live, s)
        /\ \E x : pc' = [pc EXCEPT ![q] = x]
        /\ sess' = [sess EXCEPT ![q] = s]
    BY <1>5, AdmitFrame DEF Queue, Continue, Get
  <2>2. \A a, b \in Live \ {s} : <<a, b>> \in before' <=> <<a, b>> \in before
    BY <2>1 DEF ToEnd, Only
  <2>3. \A r \in Requests : pc'[r] # pc[r] => r = q
    BY <2>1 DEF TypeOK
  <2>4. sess'[q] = s
    BY <2>1 DEF TypeOK
  <2>5. UnchargedLeaveStore
    BY <2>1, <2>2, <2>3, <2>4
  <2>6. EntriesRest
    <3>1. CASE Queue(q, s)
      <4>1. entry' = [entry EXCEPT ![s].waiters = Append(@, q)]
        BY <3>1 DEF Queue
      <4>2. entry[s] \in Entry /\ entry \in [Requests -> Entry]
        BY DEF TypeOK
      <4> QED
        BY <4>1, <4>2 DEF EntriesRest, Entry
    <3>2. CASE Continue(q, s)
      BY <3>2, AdmitLeavesEntries DEF Continue
    <3> QED
      BY <1>5, <3>1, <3>2
  <2> QED
    BY <1>0, <2>1, <2>5, <2>6 DEF EntriesRest
<1>6. ASSUME NEW q \in Requests, Wake(q)
      PROVE  UnchargedLeaveStore /\ ChargedCreate /\ AnsweredTouch
  <2>1. sess[q] \in Requests
    BY <1>6 DEF Wake, IInv, SessionsAreMade, TypeOK
  <2>2. /\ Admit(q, sess[q], Tail(entry[sess[q]].waiters))
        /\ stored' = stored /\ before' = before
    BY <1>6 DEF Wake
  <2>3. EntriesRest
    BY <2>1, <2>2, AdmitLeavesEntries
  <2> QED
    BY <1>0, <2>2, <2>3 DEF EntriesRest
<1>7. ASSUME NEW q \in Requests, Begin(q)
      PROVE  UnchargedLeaveStore /\ ChargedCreate /\ AnsweredTouch
  <2>1. /\ decision[q] = "allowed" /\ decision' = decision
        /\ \A r \in Requests : pc'[r] # pc[r] => r = q
    BY <1>7 DEF Begin, ledger, TypeOK
  <2>2. CASE sess[q] = NoSession
    <3>1. NewSession(q)
      BY <1>7, <2>2 DEF Begin
    <3>2. stored' \subseteq stored \cup {q}
      BY <1>0, <3>1 DEF NewSession
    <3>3. q \notin stored
      BY <2>2, ChatAssumption DEF StoreInv
    <3>4. \A s \in stored : entry'[s] = entry[s]
      BY <1>0, <3>1, <3>3 DEF NewSession, TypeOK
    <3> QED
      BY <2>1, <3>2, <3>4
  <2>3. CASE sess[q] # NoSession
    BY <1>7, <2>1, <2>3 DEF Begin, store
  <2> QED
    BY <2>2, <2>3
<1>8. ASSUME NEW q \in Requests, Limit(q) \/ Fail(q)
      PROVE  UnchargedLeaveStore /\ ChargedCreate /\ AnsweredTouch
  <2>1. Release(q) /\ stored' = stored /\ before' = before
    BY <1>8 DEF Limit, Fail
  <2>2. EntriesRest
    BY <2>1, ReleaseLeavesEntries
  <2> QED
    BY <1>0, <2>1, <2>2 DEF EntriesRest
<1>9. ASSUME NEW q \in Requests, Finish(q)
      PROVE  UnchargedLeaveStore /\ ChargedCreate /\ AnsweredTouch
  <2>1. stored' = stored /\ before' = before
    BY <1>9 DEF Finish
  <2>2. \A s \in Requests \ {sess[q]} : entry'[s] = entry[s]
    BY <1>9 DEF Finish, TypeOK
  <2>3. pc[q] = "turn" /\ pc'[q] = "ok"
    BY <1>9 DEF Finish, TypeOK
  <2> QED
    BY <1>0, <2>1, <2>2, <2>3
<1> QED
  BY <1>1, <1>2, <1>3, <1>4, <1>5, <1>6, <1>7, <1>8, <1>9
     DEF Next, Arrive, Handle

LEMMA FailedStayEmpty ==
    ASSUME TypeOK, IInv, StoreInv, RejectIInv PROVE FailedSessionsStayEmpty
<1> SUFFICES ASSUME NEW s \in stored, pc[s] = "failed"
             PROVE  entry[s].turns = <<>> /\ Free(s) /\ s \notin Known
  BY DEF FailedSessionsStayEmpty
<1>1. s \in Requests /\ sess[s] = s
  BY DEF TypeOK, StoreInv
<1>2. s \notin Known
  BY <1>1, KnownAreTold
<1> QED
  BY <1>1, <1>2 DEF RejectIInv, UntoldAreEmpty, Free, Locked

(* Whatever becomes of a request, 404, 429, 500 or 200, what it leaves in  *)
(* the store over its whole life is what it was charged for: nothing is    *)
(* created, evicted, changed or kept alive by one the ledger did not       *)
(* charge, and the session of a failed first turn stays empty and out of   *)
(* reach (chat, admitted, run_turn, checkout).                             *)
THEOREM RejectionsLeaveNoTrace == Spec => RejectedLeaveNoTrace
<1>1. Init => StoreInv
  BY FS_EmptySet DEF Init, StoreInv, IsOrder
<1>2. TypeOK /\ IInv /\ StoreInv /\ [Next]_vars => StoreInv'
  BY NextStoreInv
<1>3. Init => RejectIInv
  BY ChatAssumption DEF Init, RejectIInv, SessionsAreTold, UntoldAreEmpty
<1>4. TypeOK /\ IInv /\ RejectIInv /\ [Next]_vars => RejectIInv'
  BY NextRejectIInv
<1>5. TypeOK /\ IInv /\ StoreInv /\ RejectIInv => FailedSessionsStayEmpty
  BY FailedStayEmpty
<1>6. TypeOK /\ IInv /\ StoreInv /\ [Next]_vars =>
        [restarts' = restarts =>
            /\ \A r \in Requests :
                  pc'[r] # pc[r] /\ decision'[r] # "allowed" =>
                    /\ stored' \in {stored, Live}
                    /\ \A a, b \in stored' \ {sess'[r]} :
                          <<a, b>> \in before' <=> <<a, b>> \in before
            /\ \A s \in stored' \ stored : decision[s] = "allowed"
            /\ \A s \in stored' \cap stored :
                  \/ /\ entry'[s].turns = entry[s].turns
                     /\ entry'[s].touched = entry[s].touched
                  \/ \E r \in Requests : /\ sess[r] = s
                                         /\ pc[r] = "turn" /\ pc'[r] = "ok"
        ]_vars
  BY StepLeavesNoTrace DEF UnchargedLeaveStore, ChargedCreate, AnsweredTouch
<1> QED
  BY <1>1, <1>2, <1>3, <1>4, <1>5, <1>6, InitIInv, NextIInv, TypeCorrect, PTL
     DEF Spec, RejectedLeaveNoTrace
=============================================================================
