---------------------------- MODULE SoftEvidence ----------------------------
(***************************************************************************)
(* One run of the soft-evidence pipeline over the listings of a search     *)
(* (soft_evidence_orchestration.py with its retrieval, cleanup, routing,   *)
(* verifier and run_bounded): embed the queries and every listing's pool,  *)
(* rank and clean the candidates of each claim, plan which of them the     *)
(* verifier may judge, judge them, decide every constraint; and what       *)
(* listing_evaluation.py makes of the decisions in its two modes.          *)
(*                                                                         *)
(* Both phases plan their calls first and then run the plan on a bounded   *)
(* number of threads.  A call may succeed, fail or raise, and calls finish *)
(* in any order; the code that follows must not notice the order.          *)
(*                                                                         *)
(* Pool[h] is listing h's evidence: [text, source, tag, heading], tag for  *)
(* the path of a facility's name, heading for a title's (SoftPool).        *)
(* Score[c][text] is the similarity of a text to claim c's query.          *)
(***************************************************************************)
EXTENDS SoftPolicy, SoftPool, ListingPolicy, FiniteSetsExt

CONSTANTS
    Requests,            \* sequences of constraints a search may carry, with their families
    Listings,            \* the ranked listings
    ShadowHotelTopK,     \* SoftEvidencePipelinePolicy.shadow_hotel_top_k
    Score,               \* [claim -> [text -> Nat]]
    BatchSize,           \* MAX_BATCH_SIZE
    TopK,                \* SoftEvidencePipelinePolicy.retrieval_top_k
    MaxConcurrency,      \* of both phases
    CallsPerHotel,       \* SemanticVerifierPolicy.max_calls_per_hotel
    CallsPerRequest      \* SemanticVerifierPolicy.max_calls_per_request

ASSUME SoftEvidenceAssumption ==
    /\ {ShadowHotelTopK, BatchSize, TopK, MaxConcurrency, CallsPerRequest} \subseteq Nat \ {0}
    /\ CallsPerHotel \in Nat
    /\ IsList(Listings) /\ \A listing \in ToSet(Listings) : IsListing(listing)
    /\ \A r \in Requests : IsList(r) /\ \A constraint \in ToSet(r) : constraint.families \subseteq Families

VARIABLES
    request,     \* the constraints of this search
    stage,       \* "embedding", "verifying", "done", "applied", "raised"
    plan,        \* the calls of the current phase, in planned order
    call,        \* their state, by position: "waiting", "running" or how they ended
    finished,    \* positions in the order in which they ended, while a phase runs
    batches,     \* [batch -> did it succeed], once embedding is over
    vectors,     \* [batch -> how many of its texts got a vector], until they are ranked
    contexts,    \* [listing -> [claim -> its settled items, open candidates and status]]
    answers,     \* [planned verification -> verdict], once verifying is over
    results      \* [listing -> [constraint -> decision]], once applied

vars == <<request, stage, plan, call, finished, batches, vectors, contexts, answers, results>>

HotelSet == {h \in DOMAIN Listings : h <= ShadowHotelTopK}

Pool == [h \in HotelSet |-> CollectSoftEvidencePool(Listings[h])]

ASSUME ScoreAssumption ==
    \A c \in ToSet(CanonicalClaimOrder), h \in HotelSet :
        \A i \in DOMAIN Pool[h] : Score[c][Pool[h][i].text] \in Nat

Claims == Decompose(request)

-----------------------------------------------------------------------------
(* Phase 1: the query batch, then each listing's pool in batches.          *)

Query == [hotel |-> 0, start |-> 1]

PoolBatches(h) ==
    [i \in 1 .. ((Len(Pool[h]) + BatchSize - 1) \div BatchSize) |->
        [hotel |-> h, start |-> (i - 1) * BatchSize + 1]]

EmbeddingPlan(constraints) ==
    (IF Decompose(constraints) = {} THEN <<>> ELSE <<Query>>)
        \o FlattenSeq([h \in HotelSet |-> PoolBatches(h)])

BatchOf(h, i) == [hotel |-> h, start |-> ((i - 1) \div BatchSize) * BatchSize + 1]

(* The texts of a batch: the queries, or a piece of a pool. *)
BatchLength(b) ==
    IF b = Query THEN Cardinality(Claims)
    ELSE Min({BatchSize, Len(Pool[b.hotel]) - b.start + 1})

(* compute_pool_retrieval_status, compute_claim_retrieval_status *)
HotelBatches(h) == {b \in DOMAIN batches : b.hotel = h}

RetrievalStatus(h) ==
    LET failed == {b \in HotelBatches(h) : ~batches[b]}
    IN  CASE ~batches[Query] -> "FAILED"
          [] batches[Query] /\ failed = {} -> "SUCCESS"
          [] batches[Query] /\ failed # {} /\ failed # HotelBatches(h) -> "PARTIAL"
          [] OTHER -> "FAILED"

(* The candidates of the pool: those that got a vector.  A response with   *)
(* fewer vectors than texts is a success; the last texts have none.        *)
Embedded(h) ==
    {i \in DOMAIN Pool[h] :
        LET b == BatchOf(h, i)
        IN  batches[Query] /\ batches[b] /\ i < b.start + vectors[b]}

(* retrieve_top_k: positions of the pool by descending score, earlier ones *)
(* first among equals.                                                     *)
Better(h, c, i, j) ==
    LET score(n) == Score[c][Pool[h][n].text]
    IN  score(i) > score(j) \/ (score(i) = score(j) /\ i < j)

Retrieved(h, c, embedded) ==
    [k \in 1 .. Min({TopK, Cardinality(embedded)}) |->
        CHOOSE i \in embedded : Cardinality({j \in embedded : Better(h, c, j, i)}) = k - 1]

(* clean_and_route_candidates: drop headings, keep the best of equal texts, *)
(* settle what a tag settles.                                               *)
Cleaned(h, c, embedded) ==
    LET top == Retrieved(h, c, embedded)
        e(k) == Pool[h][top[k]]
        first(k) == ~e(k).heading /\ \A m \in 1 .. (k - 1) : e(m).heading \/ e(m).text # e(k).text
        kept == Kept(top, {k \in DOMAIN top : first(k)})
    IN  [k \in DOMAIN kept |-> Pool[h][kept[k]]]

(* What comes of each set of candidates, for each claim. *)
Routing ==
    [h \in HotelSet |->
        [c \in ToSet(CanonicalClaimOrder) |->
            [embedded \in SUBSET DOMAIN Pool[h] |->
                LET cleaned == Cleaned(h, c, embedded)
                    settled == {k \in DOMAIN cleaned : Deterministic(c, cleaned[k])}
                IN  [items  |-> Kept([k \in DOMAIN cleaned |-> TagRelation(c, cleaned[k])], settled),
                     free   |-> Cardinality(DOMAIN cleaned \ settled),
                     status |-> "none"]]]]

Routed(h, c) == [Routing[h][c][Embedded(h)] EXCEPT !.status = RetrievalStatus(h)]

-----------------------------------------------------------------------------
(* Phase 2: rank by rank, claim by claim, listing by listing, each         *)
(* candidate takes one call of its listing's and of the request's budget.  *)

ActiveClaims(h) == {c \in Claims : contexts[h][c].free > 0}

EffectiveBudget(h) == Min({MaxClaims, Max({CallsPerHotel, Cardinality(ActiveClaims(h))})})

Candidates ==
    {t \in [hotel : HotelSet, claim : Claims, rank : 1 .. TopK] :
        t.rank <= contexts[t.hotel][t.claim].free}

Place(c) == CHOOSE i \in 1 .. MaxClaims : CanonicalClaimOrder[i] = c

(* Mutant: claim by claim, the best and the rest of the first claim before *)
(* anything of the second.                                                 *)
BeforeByClaim(t, u) ==
    \/ Place(t.claim) < Place(u.claim)
    \/ t.claim = u.claim /\ t.rank < u.rank
    \/ t.claim = u.claim /\ t.rank = u.rank /\ t.hotel < u.hotel

Before(t, u) ==
    \/ t.rank < u.rank
    \/ t.rank = u.rank /\ Place(t.claim) < Place(u.claim)
    \/ t.rank = u.rank /\ t.claim = u.claim /\ t.hotel < u.hotel

(* Of each listing's candidates, in this order, the first its budget pays  *)
(* for; of those, the first the request's budget pays for.                 *)
Affordable ==
    {t \in Candidates :
        Cardinality({u \in Candidates : u.hotel = t.hotel /\ Before(u, t)}) < EffectiveBudget(t.hotel)}

VerifierPlan ==
    LET affordable == Affordable
    IN  [k \in 1 .. Min({CallsPerRequest, Cardinality(affordable)}) |->
            CHOOSE t \in affordable : Cardinality({u \in affordable : Before(u, t)}) = k - 1]

-----------------------------------------------------------------------------
(* run_bounded: the calls start in planned order, at most MaxConcurrency   *)
(* at a time; the phase ends when every call has ended, whatever they did. *)

Waiting == {i \in DOMAIN call : call[i] = "waiting"}
Running == {i \in DOMAIN call : call[i] = "running"}

(* Mutant: leave at the first exception, without waiting for the others. *)
FirstExceptionEnds == Waiting \cup Running = {} \/ \E i \in DOMAIN call : call[i] = "raised"

AllEnded == Waiting \cup Running = {}

(* Mutant: the results are taken in the order in which the calls ended. *)
ResultByCompletion(i) == call[finished[i]]

Result(i) == call[i]

Start(p) == [i \in DOMAIN p |-> "waiting"]

Init ==
    /\ request \in Requests
    /\ stage = "embedding"
    /\ plan = EmbeddingPlan(request)
    /\ call = Start(plan)
    /\ finished = <<>>
    /\ batches = <<>>
    /\ vectors = <<>>
    /\ contexts = <<>>
    /\ answers = <<>>
    /\ results = <<>>

(* Mutant: a call that raises keeps its place in the semaphore. *)
BeginLeakingSlots(i) ==
    /\ i = Min(Waiting)
    /\ Cardinality({j \in DOMAIN call : call[j] \in {"running", "raised"}}) < MaxConcurrency
    /\ call' = [call EXCEPT ![i] = "running"]
    /\ UNCHANGED <<request, stage, plan, finished, batches, vectors, contexts, answers, results>>

(* Mutant: every call of the plan starts at once. *)
BeginUnbounded(i) ==
    /\ call' = [call EXCEPT ![i] = "running"]
    /\ UNCHANGED <<request, stage, plan, finished, batches, vectors, contexts, answers, results>>

Begin(i) ==
    /\ i = Min(Waiting)
    /\ Cardinality(Running) < MaxConcurrency
    /\ call' = [call EXCEPT ![i] = "running"]
    /\ UNCHANGED <<request, stage, plan, finished, batches, vectors, contexts, answers, results>>

End(i, result) ==
    /\ i \in Running
    /\ call' = [call EXCEPT ![i] = result]
    /\ finished' = Append(finished, i)
    /\ UNCHANGED <<request, stage, plan, batches, vectors, contexts, answers, results>>

(* _embed_batch turns a failed call into an outcome; what a response can   *)
(* be is read outside its try: with too few embeddings it is a success,    *)
(* with none that can be read it raises.                                   *)
Embed(i) ==
    /\ stage = "embedding"
    /\ \E result \in {"embedded", "short", "failed", "raised"} : End(i, result)

(* verify_evidence_relation: a failed call or an unreadable answer is an   *)
(* outcome; a client that cannot be built raises.                          *)
Verify(i) ==
    /\ stage = "verifying"
    /\ \E result \in Relations \cup {"VERIFICATION_FAILED", "raised"} : End(i, result)

(* How many vectors each short response may have held. *)
Shortened ==
    LET short == {plan[i] : i \in {j \in DOMAIN plan : Result(j) = "short"}}
        most  == Max({0} \cup {BatchLength(b) - 1 : b \in short})
    IN  {given \in [short -> 0 .. most] : \A b \in short : given[b] < BatchLength(b)}

(* The results go back to the positions they were planned for.             *)
EmbeddingDone ==
    /\ stage = "embedding"
    /\ AllEnded
    /\ \A i \in DOMAIN plan : Result(i) # "raised"
    /\ batches' = [b \in {Query} \cup ToSet(plan) |->
                     \A i \in DOMAIN plan : plan[i] = b => Result(i) # "failed"]
    /\ \E given \in Shortened :
          vectors' = [b \in DOMAIN batches' |->
                        CASE b \in DOMAIN given -> given[b]
                          [] b \notin DOMAIN given /\ batches'[b] -> BatchLength(b)
                          [] OTHER -> 0]
    /\ finished' = <<>>
    /\ stage' = "retrieval"
    /\ UNCHANGED <<request, plan, call, contexts, answers, results>>

(* run_bounded raises the first exception again, once all have ended.      *)
EmbeddingRaises ==
    /\ stage = "embedding"
    /\ AllEnded
    /\ \E i \in DOMAIN plan : Result(i) = "raised"
    /\ finished' = <<>>
    /\ stage' = "raised"
    /\ UNCHANGED <<request, plan, call, batches, vectors, contexts, answers, results>>

(* A query without a vector, in a response that counts as a success.       *)
QueryIsShort == HotelSet # {} /\ batches[Query] /\ vectors[Query] < Cardinality(Claims)

RetrieveRaises ==
    /\ stage = "retrieval"
    /\ QueryIsShort
    /\ stage' = "raised"
    /\ UNCHANGED <<request, plan, call, finished, batches, vectors, contexts, answers, results>>

Retrieve ==
    /\ stage = "retrieval"
    /\ ~QueryIsShort
    /\ contexts' = [h \in HotelSet |-> [c \in Claims |-> Routed(h, c)]]
    /\ vectors' = <<>>
    /\ stage' = "planning"
    /\ UNCHANGED <<request, plan, call, finished, batches, answers, results>>

PlanVerification ==
    /\ stage = "planning"
    /\ plan' = VerifierPlan
    /\ call' = Start(plan')
    /\ stage' = "verifying"
    /\ UNCHANGED <<request, finished, batches, vectors, contexts, answers, results>>

VerificationDone ==
    /\ stage = "verifying"
    /\ AllEnded
    /\ \A i \in DOMAIN plan : Result(i) # "raised"
    /\ answers' = [t \in ToSet(plan) |-> Result(CHOOSE i \in DOMAIN plan : plan[i] = t)]
    /\ finished' = <<>>
    /\ stage' = "done"
    /\ UNCHANGED <<request, plan, call, batches, vectors, contexts, results>>

VerificationRaises ==
    /\ stage = "verifying"
    /\ AllEnded
    /\ \E i \in DOMAIN plan : Result(i) = "raised"
    /\ finished' = <<>>
    /\ stage' = "raised"
    /\ UNCHANGED <<request, plan, call, batches, vectors, contexts, answers, results>>

-----------------------------------------------------------------------------
(* The evidence and the decisions of a finished run. *)

Skipped == "SKIPPED_CALL_LIMIT"

VerifiedItems(h, c) ==
    [r \in 1 .. contexts[h][c].free |->
        LET t == [hotel |-> h, claim |-> c, rank |-> r]
        IN  IF t \in DOMAIN answers THEN answers[t] ELSE Skipped]

Items(h, c) == contexts[h][c].items \o VerifiedItems(h, c)

ClaimResults(h) ==
    [c \in Claims |-> [relation |-> Aggregate(Items(h, c)), status |-> contexts[h][c].status]]

Supported == {i \in DOMAIN request : request[i].families # {}}

Decision(h, i) == Decide(request[i], ClaimResults(h))

(* _apply_soft_evidence_authoritative_layer: the decisions become results  *)
(* of the listings in scope, ahead of the fallback, which skips them.      *)
ApplyAuthoritative ==
    /\ stage = "done"
    /\ results' = [h \in DOMAIN Listings |->
                      IF h \in HotelSet THEN [i \in Supported |-> Decision(h, i).decision] ELSE <<>>]
    /\ stage' = "applied"
    /\ UNCHANGED <<request, plan, call, finished, batches, vectors, contexts, answers>>

(* _apply_soft_evidence_shadow_layer: for the trace only, after the fact.  *)
AttachShadow ==
    /\ stage = "done"
    /\ results' = [h \in DOMAIN Listings |-> <<>>]
    /\ stage' = "applied"
    /\ UNCHANGED <<request, plan, call, finished, batches, vectors, contexts, answers>>

(* Bound: one run of the pipeline; a finished run stays finished. *)
Finished ==
    /\ stage \in {"applied", "raised"}
    /\ UNCHANGED vars

Next ==
    \/ \E i \in Waiting : Begin(i)
    \/ \E i \in Running : Embed(i)
    \/ \E i \in Running : Verify(i)
    \/ EmbeddingDone
    \/ EmbeddingRaises
    \/ Retrieve
    \/ RetrieveRaises
    \/ PlanVerification
    \/ VerificationDone
    \/ VerificationRaises
    \/ AttachShadow
    \/ ApplyAuthoritative
    \/ Finished

(* What asyncio owes: a call that can start starts, and the pipeline goes  *)
(* on when a phase has ended.                                              *)
Proceed ==
    \/ \E i \in Waiting : Begin(i)
    \/ EmbeddingDone
    \/ EmbeddingRaises
    \/ Retrieve
    \/ RetrieveRaises
    \/ PlanVerification
    \/ VerificationDone
    \/ VerificationRaises
    \/ AttachShadow
    \/ ApplyAuthoritative

(* Nobody owes an answer: Client(api_key=...) sets no timeout, run_bounded *)
(* has no deadline, so an embedding or a verification may hang for good.   *)
Spec == Init /\ [][Next]_vars /\ WF_vars(Proceed)

-----------------------------------------------------------------------------
(* Properties *)

CallStates == {"waiting", "running", "embedded", "short", "failed", "raised", "VERIFICATION_FAILED"} \cup Relations

(* The plan, its calls and their results fit together: types only. *)
TypeOK ==
    /\ request \in Requests
    /\ stage \in {"embedding", "retrieval", "planning", "verifying", "done", "applied", "raised"}
    /\ call \in [DOMAIN plan -> CallStates]
    /\ Cardinality(Running) <= MaxConcurrency
    /\ stage \in {"embedding", "verifying"} =>
          ToSet(finished) = {i \in DOMAIN call : call[i] \notin {"waiting", "running"}}
    /\ \A b \in DOMAIN batches : batches[b] \in BOOLEAN
    /\ DOMAIN vectors \in {{}, DOMAIN batches}
    /\ \A t \in DOMAIN answers : answers[t] \in Relations \cup {"VERIFICATION_FAILED"}
    /\ \A h \in DOMAIN results, i \in DOMAIN request : i \in DOMAIN results[h] => results[h][i] \in Ternary

(* A phase that is over has left no call running behind it: an exception   *)
(* of one call never orphans its siblings (run_bounded).                   *)
NoOrphanedCalls == stage \notin {"embedding", "verifying"} => Waiting \cup Running = {}

(* Every verdict stands at the claim and listing it was asked about, and   *)
(* every vector at its batch, in whatever order the calls ended.           *)
ResultsStayInPlace ==
    /\ stage = "retrieval" =>
          \A i \in DOMAIN plan :
              /\ batches[plan[i]] <=> call[i] # "failed"
              /\ call[i] = "embedded" => vectors[plan[i]] = BatchLength(plan[i])
              /\ call[i] = "short" => vectors[plan[i]] < BatchLength(plan[i])
    /\ stage = "done" =>
          /\ DOMAIN answers = ToSet(plan)
          /\ \A i \in DOMAIN plan : answers[plan[i]] = call[i]

(* No claim of a listing gets a second verdict before every claim of that  *)
(* listing has had its first; and unless the ceiling of the request is     *)
(* reached, every claim with a candidate gets one.                         *)
BudgetIsFair ==
    stage = "done" =>
        \A h \in HotelSet, c \in Claims :
            contexts[h][c].free > 0 =>
                \/ [hotel |-> h, claim |-> c, rank |-> 1] \in DOMAIN answers
                \/ /\ Cardinality(DOMAIN answers) = CallsPerRequest
                   /\ \A t \in DOMAIN answers : t.rank = 1

(* soft_constraint_decision_to_resolution_dict: a decision that came of    *)
(* soft evidence names no canonical field, whatever its constraint maps to. *)
Adapted(constraints) == [i \in DOMAIN constraints |-> [priority |-> constraints[i].priority, fields |-> <<>>]]

FacilitiesOf(listing) ==
    ToSet(listing.facilities) \cup UNION {ToSet(room.facilities) : room \in ToSet(listing.rooms)}

(* A technical failure never becomes a verdict: YES needs a supporting     *)
(* answer or tag and a pool none of whose batches failed, NO a             *)
(* contradicting answer, about that listing.  What guests report is        *)
(* decided by what guests wrote, and only a facility's name is a tag.  The *)
(* hard filter (FailsConstraintResolution) drops a listing for a decision  *)
(* only where its evidence speaks against a must or for what is forbidden; *)
(* a listing out of scope, never.                                          *)
VerdictsHaveGrounds ==
    /\ stage = "done" =>
          \A h \in HotelSet, c \in Claims :
              "SUPPORT" \in ToSet(contexts[h][c].items) =>
                  \E f \in FacilitiesOf(Listings[h]) : f.name \in Aliases(c)
    /\ stage = "done" =>
          \A h \in HotelSet, i \in Supported :
              LET d == Decision(h, i)
                  said(relation) == \E c \in d.decisive : relation \in ToSet(Items(h, c))
              IN  /\ d.decision = "YES" =>
                        /\ batches[Query] /\ \A b \in HotelBatches(h) : batches[b]
                        /\ said("SUPPORT")
                  /\ d.decision = "NO" => said("CONTRADICT")
                  /\ \A c \in d.decisive :
                        NeedsGuestReport(c) => ToSet(Listings[h].pros \o Listings[h].cons) \ {""} # {}
    /\ stage = "applied" =>
          \A h \in DOMAIN results :
              FailsConstraintResolution([constraints |-> Adapted(request)], [results |-> results[h]]) =>
                  \E i \in Supported, c \in Claims :
                      \/ request[i].priority = "must" /\ "CONTRADICT" \in ToSet(Items(h, c))
                      \/ request[i].priority = "forbidden" /\ "SUPPORT" \in ToSet(Items(h, c))

(* Only a call that hangs keeps a run from its end, and then every other   *)
(* call that fits beside it has started, or ended however it ended: no     *)
(* failure, exception or short response holds up the rest (run_bounded).   *)
OnlyHungCallsBlock ==
    <>[](\/ stage \in {"applied", "raised"}
         \/ /\ Running # {}
            /\ Waiting = {} \/ Cardinality(Running) = MaxConcurrency)
=============================================================================
