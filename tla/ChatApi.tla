------------------------------- MODULE ChatApi -------------------------------
(***************************************************************************)
(* The HTTP adapter: POST /api/chat of src/app/api/main.py over the        *)
(* session store of session_store.py and the concurrency gate of           *)
(* usage_limits.py.  The handler runs on one event loop, so everything     *)
(* between two awaits is one action; the awaits are the session lock (when *)
(* somebody holds it), the ledger call in a thread, and process_turn.      *)
(*                                                                         *)
(* A session is named by the request that created it, so one set stands    *)
(* for both.  What a session holds is the sequence of the requests whose   *)
(* turns built it; what process_turn does to it is Conversation's subject. *)
(* The ledger is used through what it promises, TurnQuota, which           *)
(* UsageLedger is shown to implement.                                      *)
(***************************************************************************)
EXTENDS Integers, FiniteSets, Sequences

CONSTANTS
    Requests,             \* requests that may arrive; also the session ids
    Visitors,
    VisitorOf,            \* the visitor each request comes from
    MaxSessions,          \* InMemorySessionStore(max_sessions)
    Ttl,                  \* InMemorySessionStore(ttl_seconds)
    MaxConcurrentTurns,   \* config.max_concurrent_turns
    VisitorTurns, VisitorWindow, GlobalTurnsPerDay, DayLength,
    MaxTime,              \* bound: the clock stops here
    MaxRestarts,          \* bound: the process restarts so often
    NoSession, NoRequest, NoDecision

Times == 0..MaxTime

ASSUME ChatAssumption ==
    /\ VisitorOf \in [Requests -> Visitors]
    /\ MaxSessions \in Nat \ {0}
    /\ Ttl \in Nat
    /\ MaxConcurrentTurns \in Nat \ {0}
    /\ VisitorTurns \in Nat
    /\ VisitorWindow \in Nat \ {0}
    /\ GlobalTurnsPerDay \in Nat
    /\ DayLength \in Nat \ {0}
    /\ MaxTime \in Nat
    /\ MaxRestarts \in Nat
    /\ NoSession \notin Requests
    /\ NoRequest \notin Requests
    /\ NoDecision \notin {"allowed", "global", "visitor"}

VARIABLES
    now,
    restarts,
    stored,     \* the keys of InMemorySessionStore._entries
    before,     \* the order of that OrderedDict: <<a, b>> when a is in front of b
    entry,      \* the _Entry objects, those no longer stored included
    active,     \* ConcurrencyGate._active
    accepted,   \* the turns the ledger charged
    decision,   \* what the ledger answered each request
    pc,         \* how far each request is, or how it was answered
    sess,       \* the session a request runs in
    base        \* the entry.session that process_turn was given

store == <<stored, before, entry>>
ledger == <<accepted, decision>>
vars == <<now, restarts, store, active, ledger, pc, sess, base>>

(* The ledger call is one step here: what happens while it waits for the   *)
(* database is UsageLedger's subject.                                      *)
Quota == INSTANCE TurnQuota WITH
            Workers <- Requests, NoCall <- NoRequest,
            call <- [r \in Requests |-> NoRequest]
-----------------------------------------------------------------------------
Entry == [turns: Seq(Requests), touched: Times,
          holder: Requests \cup {NoRequest}, waiters: Seq(Requests)]

BlankEntry == [turns |-> <<>>, touched |-> 0,
               holder |-> NoRequest, waiters |-> <<>>]

(* 404, 429 busy, 429 visitor or global, 500.                              *)
Refused == {"not_found", "busy", "limited", "failed"}
Answered == {"ok", "lost"} \cup Refused
InSlot == {"recording", "recorded", "turn"}

Locked(s) == entry[s].holder # NoRequest

(* Mutant: only the queue is looked at, not the lock.                      *)
FreeWithoutWaiters(s) == entry[s].waiters = <<>>

(* asyncio.Lock does not let a newcomer pass those who wait.               *)
Free(s) == ~Locked(s) /\ entry[s].waiters = <<>>

(* Session ids a client can know: those an answer carried.                 *)
Known == {sess[q] : q \in {p \in Requests : pc[p] = "ok"}}

(* _expire                                                                 *)
Expired == {s \in stored : now - entry[s].touched > Ttl /\ ~Locked(s)}
Live == stored \ Expired

Only(order, kept) == {p \in order : p[1] \in kept /\ p[2] \in kept}

(* Mutant: what was dropped keeps its place.                               *)
ToEndKeepingDropped(order, kept, s) ==
    order \cup ((kept \ {s}) \X {s})

(* move_to_end, and the place a new key gets.                              *)
ToEnd(order, kept, s) ==
    Only(order, kept \ {s}) \cup ((kept \ {s}) \X {s})

InFront(s) == {x \in Live : <<x, s>> \in before}

(* Mutant: create drops the oldest sessions, in use or not.                *)
DroppedInUse ==
    {s \in Live : Cardinality(Live) - Cardinality(InFront(s)) >= MaxSessions}

(* The while loop of create: it drops from the front and stops at the      *)
(* first locked session, or as soon as there is room.                      *)
Dropped == {s \in Live :
              /\ Cardinality(Live) - Cardinality(InFront(s)) >= MaxSessions
              /\ \A x \in InFront(s) \cup {s} : ~Locked(x)}
-----------------------------------------------------------------------------
Init ==
    /\ now = 0
    /\ restarts = 0
    /\ stored = {}
    /\ before = {}
    /\ entry = [s \in Requests |-> BlankEntry]
    /\ active = 0
    /\ accepted = {}
    /\ decision = [r \in Requests |-> NoDecision]
    /\ pc = [r \in Requests |-> "new"]
    /\ sess = [r \in Requests |-> NoSession]
    /\ base = [r \in Requests |-> <<>>]

Tick ==
    /\ now < MaxTime
    /\ now' = now + 1
    /\ UNCHANGED <<restarts, store, active, ledger, pc, sess, base>>

(* checkout, entered by a request with a session id the store does not     *)
(* have (any more): 404 before any quota is used.                          *)
NotFound(r, s) ==
    /\ pc[r] = "new"
    /\ s \in Known \ Live
    /\ stored' = Live
    /\ before' = Only(before, Live)
    /\ pc' = [pc EXCEPT ![r] = "not_found"]
    /\ UNCHANGED <<now, restarts, entry, active, ledger, sess, base>>

(* _get: the session becomes the most recently used one, whatever becomes  *)
(* of the request.                                                         *)
Get(s) ==
    /\ s \in Live
    /\ stored' = Live
    /\ before' = ToEnd(before, Live, s)

(* checkout, with another request in the session: wait on its lock.        *)
Queue(r, s) ==
    /\ pc[r] = "new"
    /\ s \in Known
    /\ Get(s)
    /\ ~Free(s)
    /\ entry' = [entry EXCEPT ![s].waiters = Append(@, r)]
    /\ pc' = [pc EXCEPT ![r] = "waiting"]
    /\ sess' = [sess EXCEPT ![r] = s]
    /\ UNCHANGED <<now, restarts, active, ledger, base>>

(* Mutant: a session is touched when a request gets it, not by its turn.   *)
AdmitTouching(r, s, waiters) ==
    /\ IF active < MaxConcurrentTurns
       THEN active' = active + 1 /\ pc' = [pc EXCEPT ![r] = "recording"]
       ELSE active' = active /\ pc' = [pc EXCEPT ![r] = "busy"]
    /\ entry' = [entry EXCEPT ![s] =
                    [@ EXCEPT !.holder = IF active < MaxConcurrentTurns
                                         THEN r ELSE @,
                              !.waiters = waiters, !.touched = now]]

(* admitted, with the session lock already held: a slot or 429.  The lock  *)
(* is given back on the way out, and touched_at is not set.                *)
Admit(r, s, waiters) ==
    IF active < MaxConcurrentTurns
    THEN /\ active' = active + 1
         /\ pc' = [pc EXCEPT ![r] = "recording"]
         /\ entry' = [entry EXCEPT ![s] =
                         [@ EXCEPT !.holder = r, !.waiters = waiters]]
    ELSE /\ pc' = [pc EXCEPT ![r] = "busy"]
         /\ entry' = [entry EXCEPT ![s].waiters = waiters]
         /\ UNCHANGED active

Continue(r, s) ==
    /\ pc[r] = "new"
    /\ s \in Known
    /\ Get(s)
    /\ Free(s)
    /\ Admit(r, s, entry[s].waiters)
    /\ sess' = [sess EXCEPT ![r] = s]
    /\ UNCHANGED <<now, restarts, ledger, base>>

(* The first waiter wakes up.  It goes on with the entry it looked up      *)
(* before it waited: the store is not asked again.                         *)
Wake(r) ==
    LET s == sess[r] IN
    /\ pc[r] = "waiting"
    /\ ~Locked(s)
    /\ entry[s].waiters # <<>> /\ Head(entry[s].waiters) = r
    /\ Admit(r, s, Tail(entry[s].waiters))
    /\ UNCHANGED <<now, restarts, stored, before, ledger, sess, base>>

(* create, then checkout of what was created, without an await between.    *)
NewSession(r) ==
    LET kept == Live \ Dropped IN
    /\ stored' = kept \cup {r}
    /\ before' = ToEnd(before, kept \cup {r}, r)
    /\ entry' = [entry EXCEPT ![r] =
                    [BlankEntry EXCEPT !.touched = now, !.holder = r]]
    /\ sess' = [sess EXCEPT ![r] = r]

(* Mutant: the session is made with the slot, before the ledger is asked.  *)
OpenCreating(r) ==
    /\ pc[r] = "new"
    /\ IF active < MaxConcurrentTurns
       THEN /\ active' = active + 1
            /\ pc' = [pc EXCEPT ![r] = "recording"]
            /\ NewSession(r)
       ELSE /\ pc' = [pc EXCEPT ![r] = "busy"]
            /\ UNCHANGED <<active, store, sess>>
    /\ UNCHANGED <<now, restarts, ledger, base>>

(* A request without session id: the slot comes first.                     *)
Open(r) ==
    /\ pc[r] = "new"
    /\ IF active < MaxConcurrentTurns
       THEN /\ active' = active + 1
            /\ pc' = [pc EXCEPT ![r] = "recording"]
       ELSE /\ pc' = [pc EXCEPT ![r] = "busy"]
            /\ UNCHANGED active
    /\ UNCHANGED <<now, restarts, store, ledger, sess, base>>

(* try_record_turn, in its thread.                                         *)
Record(r) ==
    /\ pc[r] = "recording"
    /\ Quota!Charge(r, VisitorOf[r], now)
    /\ pc' = [pc EXCEPT ![r] = "recorded"]
    /\ UNCHANGED <<now, restarts, store, active, sess, base>>

(* Back on the event loop with an allowed turn: process_turn is called.    *)
Begin(r) ==
    /\ pc[r] = "recorded" /\ decision[r] = "allowed"
    /\ IF sess[r] = NoSession
       THEN NewSession(r)
       ELSE UNCHANGED <<store, sess>>
    /\ base' = [base EXCEPT ![r] = entry'[sess'[r]].turns]
    /\ pc' = [pc EXCEPT ![r] = "turn"]
    /\ UNCHANGED <<now, restarts, active, ledger>>

(* Mutant: the slot is not given back.                                     *)
ReleaseLockOnly(r) ==
    /\ UNCHANGED active
    /\ entry' = IF sess[r] = NoSession THEN entry
                ELSE [entry EXCEPT ![sess[r]].holder = NoRequest]

(* Mutant: the session lock is not given back.                             *)
ReleaseSlotOnly(r) ==
    /\ active' = IF active > 0 THEN active - 1 ELSE 0
    /\ UNCHANGED entry

(* gate.release, and the session lock when there is one.                   *)
Release(r) ==
    /\ active' = IF active > 0 THEN active - 1 ELSE 0
    /\ entry' = IF sess[r] = NoSession THEN entry
                ELSE [entry EXCEPT ![sess[r]].holder = NoRequest]

(* The ledger refused: 429.                                                *)
Limit(r) ==
    /\ pc[r] = "recorded" /\ decision[r] # "allowed"
    /\ Release(r)
    /\ pc' = [pc EXCEPT ![r] = "limited"]
    /\ UNCHANGED <<now, restarts, stored, before, ledger, sess, base>>

(* Mutant: what a failed turn was given is stored with its message.        *)
FailStoringTurn(r) ==
    /\ pc[r] \in {"recording", "turn"}
    /\ active' = IF active > 0 THEN active - 1 ELSE 0
    /\ entry' = IF sess[r] = NoSession THEN entry
                ELSE [entry EXCEPT ![sess[r]] =
                        [@ EXCEPT !.holder = NoRequest,
                                  !.turns = Append(@, r)]]
    /\ pc' = [pc EXCEPT ![r] = "failed"]
    /\ UNCHANGED <<now, restarts, stored, before, ledger, sess, base>>

(* The ledger raised (its file is locked or unwritable), or process_turn   *)
(* did: 500, and nothing is stored.                                        *)
Fail(r) ==
    /\ pc[r] \in {"recording", "turn"}
    /\ Release(r)
    /\ pc' = [pc EXCEPT ![r] = "failed"]
    /\ UNCHANGED <<now, restarts, stored, before, ledger, sess, base>>

(* process_turn returned: entry.session and touched_at are set, then the   *)
(* lock and the slot are given back, in one go.                            *)
Finish(r) ==
    /\ pc[r] = "turn"
    /\ active' = IF active > 0 THEN active - 1 ELSE 0
    /\ entry' = [entry EXCEPT ![sess[r]] =
                    [@ EXCEPT !.turns = Append(base[r], r),
                              !.touched = now, !.holder = NoRequest]]
    /\ pc' = [pc EXCEPT ![r] = "ok"]
    /\ UNCHANGED <<now, restarts, stored, before, ledger, sess, base>>

(* Mutant: counts are kept in memory.                                      *)
RestartWithoutLedger ==
    /\ restarts < MaxRestarts
    /\ restarts' = restarts + 1
    /\ stored' = {}
    /\ before' = {}
    /\ entry' = [s \in Requests |-> BlankEntry]
    /\ active' = 0
    /\ accepted' = {}
    /\ pc' = [r \in Requests |->
                IF pc[r] \in {"new"} \cup Answered THEN pc[r] ELSE "lost"]
    /\ UNCHANGED <<now, decision, sess, base>>

(* The process dies and comes back: sessions and slots are gone, the       *)
(* ledger's file stays, and open requests never get an answer.             *)
Restart ==
    /\ restarts < MaxRestarts
    /\ restarts' = restarts + 1
    /\ stored' = {}
    /\ before' = {}
    /\ entry' = [s \in Requests |-> BlankEntry]
    /\ active' = 0
    /\ pc' = [r \in Requests |->
                IF pc[r] \in {"new"} \cup Answered THEN pc[r] ELSE "lost"]
    /\ UNCHANGED <<now, ledger, sess, base>>

Handle(r) ==
    \/ Wake(r)
    \/ Record(r)
    \/ Begin(r)
    \/ Limit(r)
    \/ Fail(r)
    \/ Finish(r)

Arrive(r) ==
    \/ Open(r)
    \/ \E s \in Requests : NotFound(r, s) \/ Queue(r, s) \/ Continue(r, s)

Next ==
    \/ Tick
    \/ Restart
    \/ \E r \in Requests : Arrive(r) \/ Handle(r)

Spec == Init /\ [][Next]_vars

(* What the event loop owes: a free lock goes to the first waiter, and the *)
(* ledger call ends (by its busy timeout at the latest) and is acted upon. *)
Prompt(r) == Wake(r) \/ Record(r) \/ Begin(r) \/ Limit(r)

(* Nobody has to send requests, and a turn need not end: its embedding and *)
(* verification calls have no timeout (see SoftEvidence).                  *)
FairSpec == Spec /\ \A r \in Requests : WF_vars(Prompt(r))
-----------------------------------------------------------------------------
TypeOK ==
    /\ now \in Times /\ restarts \in 0..MaxRestarts
    /\ stored \subseteq Requests
    /\ before \subseteq stored \X stored
    /\ entry \in [Requests -> Entry]
    /\ active \in Nat
    /\ decision \in [Requests -> {NoDecision, "allowed", "global", "visitor"}]
    /\ pc \in [Requests -> {"new", "waiting"} \cup InSlot \cup Answered]
    /\ sess \in [Requests -> Requests \cup {NoSession}]
    /\ base \in [Requests -> Seq(Requests)]

(* The gate counts exactly the requests that are past it, so that a        *)
(* refusal, a failing ledger, a failing turn and a restart all give the    *)
(* slot back once, and never more than the limit run at a time (admitted,  *)
(* ConcurrencyGate).                                                       *)
SlotsAreCounted ==
    /\ active = Cardinality({r \in Requests : pc[r] \in InSlot})
    /\ active <= MaxConcurrentTurns

(* Turns of one session run one after the other: the one in process_turn   *)
(* holds the session, and what it was given is what is stored, however     *)
(* long it takes (session_store.py, module docstring).                     *)
SerialTurns ==
    \A r \in Requests : pc[r] = "turn" =>
        /\ entry[sess[r]].holder = r
        /\ base[r] = entry[sess[r]].turns

(* A session holds the turns answered with 200 in it, each exactly once,   *)
(* and no other session's: no update is overwritten by a concurrent one,   *)
(* none of a failed or refused request is kept (run_turn, checkout).       *)
NoLostUpdate ==
    \A s \in stored :
        LET done == {r \in Requests : pc[r] = "ok" /\ sess[r] = s}
            kept == entry[s].turns
        IN  /\ {kept[i] : i \in DOMAIN kept} = done
            /\ Len(kept) = Cardinality(done)

(* Quota is charged for a turn before any paid call, once, and never for a *)
(* request answered 404 or 429 (main.py:155-157: an unknown session is a   *)
(* 404 before any quota is used); restarts do not change what was charged. *)
ChargedTurns ==
    LET charged == {r \in Requests : decision[r] = "allowed"} IN
    /\ {r \in Requests : pc[r] \in {"turn", "ok"}} \subseteq charged
    /\ {r \in Requests : pc[r] \in {"not_found", "busy", "limited"}}
            \cap charged = {}
    /\ Cardinality(accepted) = Cardinality(charged)

(* A session whose first turn failed: its id was never told, so nobody can *)
(* ask for it.                                                             *)
FailedSessionsStayEmpty ==
    \A s \in stored : pc[s] = "failed" =>
        entry[s].turns = <<>> /\ Free(s) /\ s \notin Known

(* What a request may leave behind, over its whole life.  Until the ledger *)
(* has charged it, so in all of the life of a 404 or a 429, it drops what  *)
(* has expired, may make its own session the most recently used one, and   *)
(* does nothing else to the store: it creates and evicts nothing.  Only a  *)
(* turn answered with 200 adds a message to a stored session or gives it a *)
(* longer life, and only a charged request creates one, which stays empty  *)
(* and out of reach if that first turn fails (chat, admitted, run_turn,    *)
(* checkout).                                                              *)
RejectedLeaveNoTrace ==
    /\ []FailedSessionsStayEmpty
    /\ [][restarts' = restarts =>
            /\ \A r \in Requests :
                  pc'[r] # pc[r] /\ decision'[r] # "allowed" =>
                    /\ stored' \in {stored, Live}
                    /\ \A a, b \in stored' \ {sess'[r]} :
                          <<a, b>> \in before' <=> <<a, b>> \in before
            /\ \A s \in stored' \ stored : decision[s] = "allowed"
            /\ \A s \in stored' \cap stored :
                  \/ /\ entry'[s].turns = entry[s].turns
                     /\ entry'[s].touched = entry[s].touched
                  \/ \E r \in Requests : /\ sess[r] = s
                                         /\ pc[r] = "turn" /\ pc'[r] = "ok"
       ]_vars

(* Expiry and eviction never take a session with a turn in progress, and   *)
(* they take sessions in least-recently-used order when it is for space    *)
(* (create, _expire, _oldest_locked).                                      *)
EvictionIsSafe ==
    [][restarts' = restarts =>
        \A s \in stored \ stored' :
            /\ ~Locked(s)
            /\ \/ now - entry[s].touched > Ttl
               \/ \A x \in stored' \cap stored : <<s, x>> \in before]_vars

(* Only a turn that does not end keeps requests from being answered, and   *)
(* only its own request and those that wait for its session: slots, locks, *)
(* refusals, failures and expiry hold nobody up for good, and when every   *)
(* turn ends, every request is answered or lost to a restart.              *)
OnlyTurnsBlock ==
    \A r \in Requests : <>[](
        \/ pc[r] \in {"new", "turn"} \cup Answered
        \/ pc[r] = "waiting"
           /\ \E q \in Requests : pc[q] = "turn" /\ sess[q] = sess[r])

(* "no lost update" (session_store.py, module docstring), for the client:  *)
(* a turn answered with 200 is in the store, for the next message to find. *)
AnsweredTurnsAreStored ==
    [][\A r \in Requests : pc[r] = "turn" /\ pc'[r] = "ok" =>
        sess[r] \in stored']_vars

(* "beyond `max_sessions` the least recently used one is dropped"          *)
(* (session_store.py, module docstring): a store that is over its limit    *)
(* keeps no session nobody uses but the one just created.                  *)
FullStoreDropsUnused ==
    [][\A r \in stored' \ stored : Cardinality(stored') > MaxSessions =>
        \A s \in stored' \ {r} : Locked(s)]_vars
=============================================================================
