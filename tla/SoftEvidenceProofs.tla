-------------------------- MODULE SoftEvidenceProofs --------------------------
(***************************************************************************)
(* The bounded phases of the soft-evidence pipeline, the place and the     *)
(* fair share of every result, and what its decision policy needs for a    *)
(* verdict, for any number of listings, requests, threads and claims.      *)
(***************************************************************************)
EXTENDS SoftEvidence, DataLemmas

InPhase == stage \in {"embedding", "verifying"}

(* The three ways a step treats the calls.                                 *)
Begins(i) == i \in Waiting /\ call' = [call EXCEPT ![i] = "running"]

Ends(i) == \E result \in CallStates \ {"waiting", "running"} :
               i \in Running /\ call' = [call EXCEPT ![i] = result]

LEMMA EveryStepIsCallStep ==
    ASSUME [Next]_vars
    PROVE  \/ \E i \in Waiting : Begins(i) /\ Cardinality(Running) < MaxConcurrency /\ stage' = stage
           \/ \E i \in Running : Ends(i) /\ InPhase /\ stage' = stage
           \/ \E p : call' = Start(p) /\ stage' = "verifying"
           \/ call' = call /\ (stage' = stage \/ ~InPhase \/ AllEnded)
<1>1. ASSUME NEW i \in Waiting, Begin(i)
      PROVE  Begins(i) /\ Cardinality(Running) < MaxConcurrency /\ stage' = stage
  BY <1>1 DEF Begin, Begins
<1>2. ASSUME NEW i \in Running, Embed(i) \/ Verify(i)
      PROVE  Ends(i) /\ InPhase /\ stage' = stage
  BY <1>2 DEF Embed, Verify, End, Ends, InPhase, CallStates, Relations
<1>3. CASE PlanVerification
  BY <1>3 DEF PlanVerification
<1>4. CASE EmbeddingDone \/ EmbeddingRaises \/ VerificationDone \/ VerificationRaises
  BY <1>4 DEF EmbeddingDone, EmbeddingRaises, VerificationDone, VerificationRaises
<1>5. CASE Retrieve \/ RetrieveRaises \/ ApplyAuthoritative \/ AttachShadow
  BY <1>5 DEF Retrieve, RetrieveRaises, ApplyAuthoritative, AttachShadow, InPhase
<1>6. CASE UNCHANGED vars
  BY <1>6 DEF vars
<1> QED
  BY <1>1, <1>2, <1>3, <1>4, <1>5, <1>6 DEF Next, Finished

(* A phase that is over leaves no call behind, whichever of them raised:   *)
(* run_bounded waits for all of them before it raises again.               *)
THEOREM NothingIsOrphaned == Spec => []NoOrphanedCalls
<1>1. Init => NoOrphanedCalls
  BY DEF Init, NoOrphanedCalls
<1>2. ASSUME NoOrphanedCalls, [Next]_vars PROVE NoOrphanedCalls'
  <2>1. ASSUME NEW i \in Waiting, Begins(i), stage' = stage PROVE NoOrphanedCalls'
    BY <1>2, <2>1 DEF NoOrphanedCalls
  <2>2. CASE InPhase /\ stage' = stage
    BY <2>2 DEF NoOrphanedCalls, InPhase
  <2>3. CASE stage' = "verifying"
    BY <2>3 DEF NoOrphanedCalls
  <2>4. CASE call' = call /\ (stage' = stage \/ ~InPhase \/ AllEnded)
    BY <1>2, <2>4 DEF NoOrphanedCalls, InPhase, AllEnded, Waiting, Running
  <2> QED
    BY <1>2, <2>1, <2>2, <2>3, <2>4, EveryStepIsCallStep
<1> QED
  BY <1>1, <1>2, PTL DEF Spec

(* Never more calls at once than the policy allows, in either phase.       *)
CallsAreBounded ==
    /\ IsFiniteSet(Running)
    /\ Cardinality(Running) <= MaxConcurrency

LEMMA NoneRunsAtStart == ASSUME NEW p, call = Start(p) PROVE Running = {}
BY DEF Start, Running

THEOREM ConcurrencyIsBounded == Spec => []CallsAreBounded
<1> USE SoftEvidenceAssumption
<1>1. Init => CallsAreBounded
  <2> SUFFICES ASSUME Init PROVE CallsAreBounded
    OBVIOUS
  <2>1. Running = {}
    BY NoneRunsAtStart DEF Init
  <2> QED
    BY <2>1, FS_EmptySet DEF CallsAreBounded
<1>2. ASSUME CallsAreBounded, [Next]_vars PROVE CallsAreBounded'
  <2>1. Cardinality(Running) \in Nat
    BY <1>2, FS_CardinalityType DEF CallsAreBounded
  <2>2. ASSUME NEW i \in Waiting, Begins(i), Cardinality(Running) < MaxConcurrency
        PROVE  CallsAreBounded'
    <3>1. Running' = Running \cup {i}
      BY <2>2 DEF Begins, Running, Waiting
    <3>2. IsFiniteSet(Running \cup {i}) /\ Cardinality(Running \cup {i}) <= Cardinality(Running) + 1
      BY <1>2, <2>1, FS_AddElement DEF CallsAreBounded
    <3>3. Cardinality(Running \cup {i}) \in Nat
      BY <3>2, FS_CardinalityType
    <3> QED
      BY <2>1, <2>2, <3>1, <3>2, <3>3 DEF CallsAreBounded
  <2>3. ASSUME NEW i \in Running, Ends(i) PROVE CallsAreBounded'
    <3>1. Running' \subseteq Running
      BY <2>3 DEF Ends, Running
    <3>2. IsFiniteSet(Running') /\ Cardinality(Running') <= Cardinality(Running)
      BY <1>2, <3>1, FS_Subset DEF CallsAreBounded
    <3>3. Cardinality(Running') \in Nat
      BY <3>2, FS_CardinalityType
    <3> QED
      BY <1>2, <2>1, <3>2, <3>3 DEF CallsAreBounded
  <2>4. ASSUME NEW p, call' = Start(p) PROVE CallsAreBounded'
    <3>1. Running' = {}
      BY <2>4 DEF Start, Running
    <3> QED
      BY <3>1, FS_EmptySet DEF CallsAreBounded
  <2>5. CASE call' = call
    BY <1>2, <2>5 DEF CallsAreBounded, Running
  <2> QED
    BY <1>2, <2>2, <2>3, <2>4, <2>5, EveryStepIsCallStep
<1> QED
  BY <1>1, <1>2, PTL DEF Spec

-----------------------------------------------------------------------------
(* The pool: what a piece of evidence may come from. *)

(* Only a facility's name is a tag, only a guest's text a guest's report.  *)
Fits(listing, e) ==
    /\ e.tag => \E f \in FacilitiesOf(listing) : e.text = f.name
    /\ e.source = "review_summary" => e.text \in ToSet(listing.pros \o listing.cons)

Fitting(listing, s) == IsList(s) /\ \A i \in DOMAIN s : Fits(listing, s[i])

LEMMA ListOf == ASSUME NEW T, NEW s \in Seq(T) PROVE IsList(s) /\ ToSet(s) \subseteq T /\ DOMAIN s = 1 .. Len(s) /\ Len(s) \in Nat
<1>1. s \in [1 .. Len(s) -> T] /\ Len(s) \in Nat
  BY LenProperties
<1>2. s \in [1 .. Len(s) -> ToSet(s)]
  BY <1>1 DEF ToSet
<1> QED
  BY <1>1, <1>2 DEF IsList, ToSet

LEMMA SequenceFits ==
    ASSUME NEW listing, NEW T, NEW s \in Seq(T), \A x \in T : Fits(listing, x)
    PROVE  Fitting(listing, s)
BY ListOf, ElementOfSeq DEF Fitting

LEMMA FunctionFits ==
    ASSUME NEW listing, NEW n \in Nat, NEW s, s = [i \in 1 .. n |-> s[i]], \A i \in 1 .. n : Fits(listing, s[i])
    PROVE  Fitting(listing, s)
<1>1. s \in Seq({s[i] : i \in 1 .. n})
  OBVIOUS
<1> QED
  BY <1>1, SequenceFits

LEMMA TextsFit ==
    ASSUME NEW listing, NEW source, NEW texts, IsList(texts),
           source = "review_summary" => ToSet(texts) \subseteq ToSet(listing.pros \o listing.cons)
    PROVE  Fitting(listing, Texts(source, texts))
<1> DEFINE s == Texts(source, texts)
<1>1. DOMAIN texts = 1 .. Len(texts) /\ Len(texts) \in Nat
  BY LenProperties DEF IsList
<1>2. s = [i \in 1 .. Len(texts) |-> s[i]]
  BY <1>1 DEF Texts
<1>3. ASSUME NEW i \in 1 .. Len(texts) PROVE Fits(listing, s[i])
  <2>1. texts[i] \in ToSet(texts)
    BY <1>1 DEF ToSet
  <2>2. s[i].text = texts[i] /\ s[i].tag = FALSE /\ s[i].source = source
    BY <1>1 DEF Texts, Evidence
  <2> QED
    BY <2>1, <2>2 DEF Fits
<1> HIDE DEF s
<1>4. Fitting(listing, s)
  BY <1>1, <1>2, <1>3, FunctionFits
<1> QED
  BY <1>4 DEF s

LEMMA HeadingFits ==
    ASSUME NEW listing, NEW source, NEW text, source # "review_summary"
    PROVE  Fitting(listing, Heading(source, text))
<1> DEFINE T == {Evidence(text, source, FALSE, TRUE)}
<1>1. Heading(source, text) \in Seq(T)
  BY DEF Heading
<1>2. \A x \in T : Fits(listing, x)
  BY DEF Fits, Evidence
<1> HIDE DEF T
<1> QED
  BY <1>1, <1>2, SequenceFits

LEMMA JoinFits ==
    ASSUME NEW listing, NEW a, NEW b, Fitting(listing, a), Fitting(listing, b)
    PROVE  Fitting(listing, a \o b)
<1> DEFINE T == ToSet(a) \cup ToSet(b)
<1>1. a \in Seq(T) /\ b \in Seq(T)
  BY LenProperties DEF Fitting, IsList
<1>2. \A x \in T : Fits(listing, x)
  BY DEF Fitting, ToSet
<1> HIDE DEF T
<1>3. a \o b \in Seq(T)
  BY <1>1, ConcatProperties
<1> QED
  BY <1>2, <1>3, SequenceFits

LEMMA FlattenFits ==
    ASSUME NEW listing, NEW n \in Nat, NEW seqs, DOMAIN seqs = 1 .. n, seqs = [i \in 1 .. n |-> seqs[i]],
           \A i \in 1 .. n : Fitting(listing, seqs[i])
    PROVE  Fitting(listing, FlattenSeq(seqs))
<1> DEFINE T == UNION {ToSet(seqs[i]) : i \in 1 .. n}
<1>1. \A i \in 1 .. n : seqs[i] \in Seq(T)
  <2> TAKE i \in 1 .. n
  <2>1. seqs[i] \in Seq(ToSet(seqs[i])) /\ ToSet(seqs[i]) \subseteq T
    BY DEF Fitting, IsList
  <2> QED
    BY <2>1, LenProperties
<1>2. \A x \in T : Fits(listing, x)
  BY DEF Fitting, ToSet
<1> HIDE DEF T
<1>3. seqs \in Seq(Seq(T))
  BY <1>1
<1>4. FlattenSeq(seqs) \in Seq(T)
  BY <1>3, FlattenLocates
<1> QED
  BY <1>2, <1>4, SequenceFits

LEMMA FacilitiesFit ==
    ASSUME NEW listing, NEW source, NEW facilities, IsList(facilities), source # "review_summary",
           ToSet(facilities) \subseteq FacilitiesOf(listing)
    PROVE  Fitting(listing, FacilityEvidence(source, facilities))
<1> DEFINE of(i) == <<Evidence(facilities[i].name, source, TRUE, FALSE), Evidence(facilities[i].overview, source, FALSE, FALSE)>>
           seqs == [i \in DOMAIN facilities |-> of(i)]
<1>1. DOMAIN facilities = 1 .. Len(facilities) /\ Len(facilities) \in Nat
  BY LenProperties DEF IsList
<1>2. ASSUME NEW i \in DOMAIN facilities PROVE Fitting(listing, of(i))
  <2>1. facilities[i] \in FacilitiesOf(listing)
    BY DEF ToSet
  <2>2. /\ Fits(listing, Evidence(facilities[i].name, source, TRUE, FALSE))
        /\ Fits(listing, Evidence(facilities[i].overview, source, FALSE, FALSE))
    BY <2>1 DEF Fits, Evidence
  <2> DEFINE T == {of(i)[1], of(i)[2]}
  <2>3. of(i) \in Seq(T)
    OBVIOUS
  <2>4. \A x \in T : Fits(listing, x)
    BY <2>2
  <2> HIDE DEF T, of
  <2> QED
    BY <2>3, <2>4, SequenceFits
<1>3. FacilityEvidence(source, facilities) = FlattenSeq(seqs)
  BY DEF FacilityEvidence
<1>4. DOMAIN seqs = 1 .. Len(facilities) /\ \A i \in 1 .. Len(facilities) : Fitting(listing, seqs[i])
  BY <1>1, <1>2
<1>5. seqs = [i \in 1 .. Len(facilities) |-> seqs[i]]
  BY <1>1
<1> HIDE DEF seqs
<1>6. Fitting(listing, FlattenSeq(seqs))
  BY <1>1, <1>4, <1>5, FlattenFits
<1> QED
  BY <1>3, <1>6

LEMMA RoomFits ==
    ASSUME NEW listing, NEW room \in ToSet(listing.rooms), IsRoom(room)
    PROVE  Fitting(listing, RoomEvidence(room))
<1> DEFINE a == Texts("room_facilities", <<room.name>> \o room.beds)
           b == FacilityEvidence("room_facilities", room.facilities)
           c == Texts("room_facilities", room.options)
<1>1. Fitting(listing, a)
  <2> DEFINE T == {room.name} \cup ToSet(room.beds)
  <2>1. <<room.name>> \in Seq(T)
    OBVIOUS
  <2>2. room.beds \in Seq(T)
    BY LenProperties DEF IsRoom, IsList
  <2> HIDE DEF T
  <2>3. IsList(<<room.name>> \o room.beds)
    BY <2>1, <2>2, ConcatProperties, ListOf
  <2> QED
    BY <2>3, TextsFit
<1>2. Fitting(listing, b)
  <2>1. ToSet(room.facilities) \subseteq FacilitiesOf(listing)
    BY DEF FacilitiesOf
  <2> QED
    BY <2>1, FacilitiesFit DEF IsRoom
<1>3. Fitting(listing, c)
  BY TextsFit DEF IsRoom
<1>4. RoomEvidence(room) = (a \o b) \o c
  BY DEF RoomEvidence
<1> HIDE DEF a, b, c
<1>5. Fitting(listing, a \o b)
  BY <1>1, <1>2, JoinFits
<1> QED
  BY <1>3, <1>4, <1>5, JoinFits

LEMMA PoolFits ==
    ASSUME NEW listing, IsListing(listing)
    PROVE  /\ Fitting(listing, CollectSoftEvidencePool(listing))
           /\ \A i \in DOMAIN CollectSoftEvidencePool(listing) : CollectSoftEvidencePool(listing)[i].text # ""
<1> DEFINE of(i) == Heading("highlights", listing.highlights[i].header)
                        \o Texts("highlights", listing.highlights[i].contents)
           policy(i) == Heading("policies", listing.policies[i].title)
                            \o Texts("policies", <<listing.policies[i].content>>)
           a1 == Texts("title", <<listing.name>>)
           a2 == Texts("property_type", <<listing.type>>)
           a3 == Texts("description", listing.description)
           a4 == Texts("other", <<listing.finePrint>>)
           a5 == FacilityEvidence("facilities", listing.facilities)
           rooms == [i \in DOMAIN listing.rooms |-> RoomEvidence(listing.rooms[i])]
           highlights == [i \in DOMAIN listing.highlights |-> of(i)]
           policies == [i \in DOMAIN listing.policies |-> policy(i)]
           a6 == FlattenSeq(rooms)
           a7 == FlattenSeq(highlights)
           a8 == FlattenSeq(policies)
           a9 == ReviewEvidence(listing)
           collected == a1 \o a2 \o a3 \o a4 \o a5 \o a6 \o a7 \o a8 \o a9
           pool == CollectSoftEvidencePool(listing)
<1>1. \A x : IsList(<<x>>)
  <2> TAKE x
  <2>1. <<x>> \in Seq({x})
    OBVIOUS
  <2> QED
    BY <2>1, ListOf
<1>2. Fitting(listing, a1) /\ Fitting(listing, a2) /\ Fitting(listing, a3) /\ Fitting(listing, a4)
  <2>1. Fitting(listing, a1)
    BY <1>1, TextsFit
  <2>2. Fitting(listing, a2)
    BY <1>1, TextsFit
  <2>3. Fitting(listing, a3)
    BY TextsFit DEF IsListing
  <2>4. Fitting(listing, a4)
    BY <1>1, TextsFit
  <2> QED
    BY <2>1, <2>2, <2>3, <2>4
<1>3. Fitting(listing, a5)
  <2>1. ToSet(listing.facilities) \subseteq FacilitiesOf(listing)
    BY DEF FacilitiesOf
  <2> QED
    BY <2>1, FacilitiesFit DEF IsListing
<1>4. Fitting(listing, a6)
  <2>1. DOMAIN listing.rooms = 1 .. Len(listing.rooms) /\ Len(listing.rooms) \in Nat
    BY LenProperties DEF IsListing, IsList
  <2>2. ASSUME NEW i \in 1 .. Len(listing.rooms) PROVE Fitting(listing, rooms[i])
    <3>1. listing.rooms[i] \in ToSet(listing.rooms) /\ IsRoom(listing.rooms[i])
      BY <2>1 DEF IsListing, ToSet
    <3>2. rooms[i] = RoomEvidence(listing.rooms[i])
      BY <2>1
    <3> QED
      BY <3>1, <3>2, RoomFits
  <2>3. DOMAIN rooms = 1 .. Len(listing.rooms) /\ rooms = [i \in 1 .. Len(listing.rooms) |-> rooms[i]]
    BY <2>1
  <2> HIDE DEF rooms
  <2> QED
    BY <2>1, <2>2, <2>3, FlattenFits
<1>5. Fitting(listing, a7)
  <2>1. DOMAIN listing.highlights = 1 .. Len(listing.highlights) /\ Len(listing.highlights) \in Nat
    BY LenProperties DEF IsListing, IsList
  <2>2. ASSUME NEW i \in 1 .. Len(listing.highlights) PROVE Fitting(listing, highlights[i])
    <3>1. IsList(listing.highlights[i].contents)
      BY <2>1 DEF IsListing, ToSet
    <3>2. Fitting(listing, Heading("highlights", listing.highlights[i].header))
      BY HeadingFits
    <3>3. Fitting(listing, Texts("highlights", listing.highlights[i].contents))
      BY <3>1, TextsFit
    <3>4. Fitting(listing, of(i))
      BY <3>2, <3>3, JoinFits
    <3> QED
      BY <2>1, <3>4
  <2>3. DOMAIN highlights = 1 .. Len(listing.highlights)
        /\ highlights = [i \in 1 .. Len(listing.highlights) |-> highlights[i]]
    BY <2>1
  <2> HIDE DEF highlights
  <2> QED
    BY <2>1, <2>2, <2>3, FlattenFits
<1>6. Fitting(listing, a8)
  <2>1. DOMAIN listing.policies = 1 .. Len(listing.policies) /\ Len(listing.policies) \in Nat
    BY LenProperties DEF IsListing, IsList
  <2>2. ASSUME NEW i \in 1 .. Len(listing.policies) PROVE Fitting(listing, policies[i])
    <3>1. Fitting(listing, Heading("policies", listing.policies[i].title))
      BY HeadingFits
    <3>2. Fitting(listing, Texts("policies", <<listing.policies[i].content>>))
      BY <1>1, TextsFit
    <3>3. Fitting(listing, policy(i))
      BY <3>1, <3>2, JoinFits
    <3> QED
      BY <2>1, <3>3
  <2>3. DOMAIN policies = 1 .. Len(listing.policies)
        /\ policies = [i \in 1 .. Len(listing.policies) |-> policies[i]]
    BY <2>1
  <2> HIDE DEF policies
  <2> QED
    BY <2>1, <2>2, <2>3, FlattenFits
<1>7. Fitting(listing, a9)
  <2> DEFINE T == ToSet(listing.pros) \cup ToSet(listing.cons)
  <2>1. listing.pros \in Seq(T) /\ listing.cons \in Seq(T)
    BY LenProperties DEF IsListing, IsList
  <2> HIDE DEF T
  <2>2. IsList(listing.pros \o listing.cons)
    BY <2>1, ConcatProperties, ListOf
  <2> QED
    BY <2>2, TextsFit DEF ReviewEvidence
<1>8. pool = Kept(collected, {i \in DOMAIN collected : collected[i].text # ""})
  BY DEF CollectSoftEvidencePool, Stated
<1> HIDE DEF a1, a2, a3, a4, a5, a6, a7, a8, a9
<1>9. Fitting(listing, collected)
  <2>1. Fitting(listing, a1 \o a2)
    BY <1>2, JoinFits
  <2>2. Fitting(listing, a1 \o a2 \o a3)
    BY <1>2, <2>1, JoinFits
  <2>3. Fitting(listing, a1 \o a2 \o a3 \o a4)
    BY <1>2, <2>2, JoinFits
  <2>4. Fitting(listing, a1 \o a2 \o a3 \o a4 \o a5)
    BY <1>3, <2>3, JoinFits
  <2>5. Fitting(listing, a1 \o a2 \o a3 \o a4 \o a5 \o a6)
    BY <1>4, <2>4, JoinFits
  <2>6. Fitting(listing, a1 \o a2 \o a3 \o a4 \o a5 \o a6 \o a7)
    BY <1>5, <2>5, JoinFits
  <2>7. Fitting(listing, a1 \o a2 \o a3 \o a4 \o a5 \o a6 \o a7 \o a8)
    BY <1>6, <2>6, JoinFits
  <2> QED
    BY <1>7, <2>7, JoinFits
<1> HIDE DEF collected
<1> DEFINE kept == {i \in DOMAIN collected : collected[i].text # ""}
<1>10. pool \in Seq(ToSet(collected)) /\ \A k \in DOMAIN pool : \E i \in kept : pool[k] = collected[i]
  <2>1. kept \in SUBSET DOMAIN collected /\ collected \in Seq(ToSet(collected))
    BY <1>9 DEF Fitting, IsList
  <2>2. pool = Kept(collected, kept)
    BY <1>8
  <2> HIDE DEF kept, pool
  <2> QED
    BY <2>1, <2>2, KeptHasOnlySuch
<1>11. \A x \in ToSet(collected) : Fits(listing, x)
  BY <1>9 DEF Fitting, ToSet
<1>12. Fitting(listing, pool)
  BY <1>10, <1>11, SequenceFits
<1> QED
  BY <1>10, <1>12

(* The pools of the listings in scope.                                     *)
LEMMA EveryPoolFits ==
    ASSUME NEW h \in HotelSet
    PROVE  /\ Fitting(Listings[h], Pool[h])
           /\ \A i \in DOMAIN Pool[h] : Pool[h][i].text # ""
           /\ Len(Pool[h]) \in Nat /\ DOMAIN Pool[h] = 1 .. Len(Pool[h])
<1>1. IsListing(Listings[h])
  BY SoftEvidenceAssumption DEF HotelSet, ToSet
<1>2. Pool[h] = CollectSoftEvidencePool(Listings[h])
  BY DEF Pool
<1>3. Fitting(Listings[h], Pool[h]) /\ \A i \in DOMAIN Pool[h] : Pool[h][i].text # ""
  BY <1>1, <1>2, PoolFits
<1> QED
  BY <1>3, LenProperties DEF Fitting, IsList

-----------------------------------------------------------------------------
(* The plans: every call has a place of its own. *)

Injective(p) == \A i, j \in DOMAIN p : p[i] = p[j] => i = j

LEMMA ScopeIsAnInterval == \E m \in Nat : HotelSet = 1 .. m
<1>1. DOMAIN Listings = 1 .. Len(Listings) /\ Len(Listings) \in Nat /\ ShadowHotelTopK \in Nat
  BY LenProperties, SoftEvidenceAssumption DEF IsList
<1> DEFINE m == IF Len(Listings) <= ShadowHotelTopK THEN Len(Listings) ELSE ShadowHotelTopK
<1>2. HotelSet = 1 .. m
  BY <1>1 DEF HotelSet
<1> QED
  BY <1>1, <1>2

Batch == [hotel : Nat, start : Int]

LEMMA PoolBatchesAreBatches ==
    ASSUME NEW h \in HotelSet, Len(Pool[h]) \in Nat
    PROVE  /\ PoolBatches(h) \in Seq(Batch)
           /\ \A i \in DOMAIN PoolBatches(h) : PoolBatches(h)[i] = [hotel |-> h, start |-> (i - 1) * BatchSize + 1]
<1> DEFINE n == (Len(Pool[h]) + BatchSize - 1) \div BatchSize
<1>1. BatchSize \in Nat \ {0}
  BY SoftEvidenceAssumption
<1>2. n \in Int
  BY <1>1
<1>3. h \in Nat
  BY ScopeIsAnInterval
<1>4. PICK k \in Nat : 1 .. n = 1 .. k
  <2>1. CASE n \in Nat
    BY <2>1
  <2>2. CASE n \notin Nat
    <3>1. 1 .. n = 1 .. 0
      BY <1>2, <2>2
    <3> QED
      BY <3>1
  <2> QED
    BY <2>1, <2>2
<1>5. PoolBatches(h) = [i \in 1 .. k |-> [hotel |-> h, start |-> (i - 1) * BatchSize + 1]]
  BY <1>4 DEF PoolBatches
<1>6. \A i \in 1 .. k : [hotel |-> h, start |-> (i - 1) * BatchSize + 1] \in Batch
  BY <1>1, <1>3 DEF Batch
<1> QED
  BY <1>5, <1>6

LEMMA EmbeddingPlanIsInjective ==
    ASSUME NEW constraints, \A h \in HotelSet : Len(Pool[h]) \in Nat
    PROVE  /\ EmbeddingPlan(constraints) \in Seq(Batch)
           /\ Injective(EmbeddingPlan(constraints))
<1> DEFINE batchesOf == [h \in HotelSet |-> PoolBatches(h)]
           first == IF Decompose(constraints) = {} THEN <<>> ELSE <<Query>>
           rest == FlattenSeq(batchesOf)
           p == EmbeddingPlan(constraints)
<1>1. batchesOf \in Seq(Seq(Batch)) /\ \A h \in HotelSet : h \in Nat \ {0}
  <2>1. PICK m \in Nat : HotelSet = 1 .. m
    BY ScopeIsAnInterval
  <2>2. \A h \in HotelSet : PoolBatches(h) \in Seq(Batch)
    BY PoolBatchesAreBatches
  <2> QED
    BY <2>1, <2>2
<1>2. rest \in Seq(Batch) /\ \E at : Located(batchesOf, Len(batchesOf), rest, at)
  <2> HIDE DEF batchesOf
  <2> QED
    BY <1>1, FlattenLocates
<1>3. PICK at : Located(batchesOf, Len(batchesOf), rest, at)
  BY <1>2
<1>4. ASSUME NEW k \in DOMAIN rest
      PROVE  /\ at[k] \in Nat \X Nat
             /\ rest[k].hotel = at[k][1] /\ at[k][1] # 0
             /\ rest[k].start = (at[k][2] - 1) * BatchSize + 1
  <2>1. at[k] \in Nat \X Nat /\ At(batchesOf, rest[k], at[k])
    BY <1>3 DEF Located
  <2>2. at[k][1] \in HotelSet /\ at[k][2] \in DOMAIN PoolBatches(at[k][1])
        /\ rest[k] = PoolBatches(at[k][1])[at[k][2]]
    BY <2>1 DEF At
  <2>3. rest[k] = [hotel |-> at[k][1], start |-> (at[k][2] - 1) * BatchSize + 1]
    <3> HIDE DEF rest
    <3> QED
      BY <2>2, PoolBatchesAreBatches
  <2> QED
    BY <1>1, <2>1, <2>2, <2>3
<1>5. ASSUME NEW j \in DOMAIN rest, NEW k \in DOMAIN rest, rest[j] = rest[k] PROVE j = k
  <2>1. at[j] \in Nat \X Nat /\ at[k] \in Nat \X Nat /\ at[j][1] = at[k][1]
    BY <1>4, <1>5
  <2>2. (at[j][2] - 1) * BatchSize + 1 = (at[k][2] - 1) * BatchSize + 1
    BY <1>4, <1>5
  <2>3. at[j][2] = at[k][2]
    <3> DEFINE x == at[j][2] - 1
               y == at[k][2] - 1
    <3>1. x \in Int /\ y \in Int /\ BatchSize \in Nat \ {0}
      BY <2>1, SoftEvidenceAssumption
    <3>2. x * BatchSize + 1 = y * BatchSize + 1
      BY <2>2
    <3>3. x = y
      <4> HIDE DEF x, y
      <4>1. x * BatchSize \in Int /\ y * BatchSize \in Int
        BY <3>1
      <4>2. x * BatchSize = y * BatchSize
        BY <3>2, <4>1
      <4> QED
        BY <3>1, <4>2, ProductCancels
    <3> QED
      BY <2>1, <3>3
  <2>4. at[j] = at[k]
    BY <2>1, <2>3
  <2> QED
    BY <1>3, <2>4 DEF Located
<1>6. p = first \o rest
  BY DEF EmbeddingPlan
<1>7. CASE Decompose(constraints) = {}
  <2>1. p = rest
    BY <1>2, <1>6, <1>7, ConcatEmptySeq
  <2> QED
    BY <1>2, <1>5, <2>1 DEF Injective
<1>8. CASE Decompose(constraints) # {}
  <2>1. first = <<Query>> /\ Query \in Batch /\ Query.hotel = 0
    BY <1>8 DEF Query, Batch
  <2>2. first \in Seq(Batch) /\ Len(first) = 1 /\ first[1] = Query
    BY <2>1
  <2> HIDE DEF first, rest, p
  <2>3. Len(rest) \in Nat /\ DOMAIN rest = 1 .. Len(rest)
    BY <1>2, LenProperties
  <2>4. /\ p \in Seq(Batch) /\ Len(p) = 1 + Len(rest)
        /\ \A i \in 1 .. 1 + Len(rest) : p[i] = IF i <= 1 THEN first[i] ELSE rest[i - 1]
    <3>1. rest \in Seq(Batch)
      BY <1>2
    <3>2. /\ first \o rest \in Seq(Batch) /\ Len(first \o rest) = Len(first) + Len(rest)
          /\ \A i \in 1 .. Len(first) + Len(rest) :
                (first \o rest)[i] = IF i <= Len(first) THEN first[i] ELSE rest[i - Len(first)]
      BY <2>2, <3>1, ConcatProperties
    <3> QED
      BY <1>6, <2>2, <2>3, <3>2
  <2>5. DOMAIN p = 1 .. 1 + Len(rest)
    BY <2>4, LenProperties
  <2>6. \A i \in DOMAIN p :
          \/ i = 1 /\ p[i].hotel = 0
          \/ i - 1 \in DOMAIN rest /\ p[i] = rest[i - 1] /\ p[i].hotel # 0
    <3> TAKE i \in DOMAIN p
    <3>1. CASE i = 1
      BY <2>1, <2>2, <2>4, <2>5, <3>1
    <3>2. CASE i # 1
      <4>1. i - 1 \in DOMAIN rest /\ p[i] = rest[i - 1]
        BY <2>3, <2>4, <2>5, <3>2
      <4> QED
        BY <1>4, <4>1
    <3> QED
      BY <3>1, <3>2
  <2>7. \A i, j \in DOMAIN p : p[i] = p[j] => i = j
    <3> SUFFICES ASSUME NEW i \in DOMAIN p, NEW j \in DOMAIN p, p[i] = p[j] PROVE i = j
      OBVIOUS
    <3>1. i \in Int /\ j \in Int
      BY <2>3, <2>5
    <3>2. CASE i = 1
      BY <2>6, <3>2
    <3>3. CASE i # 1
      <4>1. i - 1 \in DOMAIN rest /\ p[i] = rest[i - 1] /\ p[i].hotel # 0
        BY <2>6, <3>3
      <4>2. j - 1 \in DOMAIN rest /\ p[j] = rest[j - 1]
        BY <2>6, <4>1
      <4>3. i - 1 = j - 1
        BY <1>5, <4>1, <4>2
      <4> QED
        BY <3>1, <4>3
    <3> QED
      BY <3>2, <3>3
  <2> QED
    BY <2>4, <2>7 DEF Injective, p
<1> QED
  BY <1>7, <1>8

(* The claims of a request are among those the canonical order places.     *)
LEMMA PlacesOfClaims ==
    /\ MaxClaims = 12
    /\ \A c \in ToSet(CanonicalClaimOrder) : Place(c) \in 1 .. MaxClaims /\ CanonicalClaimOrder[Place(c)] = c
    /\ IsFiniteSet(ToSet(CanonicalClaimOrder))
    /\ Cardinality(ToSet(CanonicalClaimOrder)) <= MaxClaims
<1>1. MaxClaims = 12 /\ DOMAIN CanonicalClaimOrder = 1 .. 12
  BY DEF MaxClaims, CanonicalClaimOrder
<1>2. ASSUME NEW c \in ToSet(CanonicalClaimOrder)
      PROVE  Place(c) \in 1 .. MaxClaims /\ CanonicalClaimOrder[Place(c)] = c
  <2>1. \E i \in 1 .. MaxClaims : CanonicalClaimOrder[i] = c
    BY <1>1 DEF ToSet
  <2> QED
    BY <2>1 DEF Place
<1>3. IsFiniteSet(1 .. 12) /\ Cardinality(1 .. 12) = 12
  <2>1. 1 \in Int /\ 12 \in Int /\ ~(1 > 12) /\ 12 - 1 + 1 = 12
    OBVIOUS
  <2>2. IsFiniteSet(1 .. 12) /\ Cardinality(1 .. 12) = IF 1 > 12 THEN 0 ELSE 12 - 1 + 1
    BY <2>1, FS_Interval
  <2> QED
    BY <2>1, <2>2
<1> DEFINE at == [i \in 1 .. 12 |-> CanonicalClaimOrder[i]]
<1>4. at \in Surjection(1 .. 12, ToSet(CanonicalClaimOrder))
  BY <1>1 DEF Surjection, ToSet
<1> HIDE DEF at
<1>5. IsFiniteSet(ToSet(CanonicalClaimOrder)) /\ Cardinality(ToSet(CanonicalClaimOrder)) <= 12
  BY <1>3, <1>4, FS_Surjection
<1> QED
  BY <1>1, <1>2, <1>5

LEMMA ClaimsAreOrdered ==
    ASSUME request \in Requests
    PROVE  /\ Claims \subseteq ToSet(CanonicalClaimOrder)
           /\ IsFiniteSet(Claims) /\ Cardinality(Claims) <= MaxClaims /\ Cardinality(Claims) \in Nat
<1>1. \A i \in DOMAIN request : request[i].families \subseteq Families
  BY SoftEvidenceAssumption DEF ToSet
<1>2. \A f \in Families : ClaimsOf[f] \subseteq ToSet(CanonicalClaimOrder)
  <2>1. DOMAIN CanonicalClaimOrder = 1 .. 12
    BY DEF CanonicalClaimOrder
  <2>2. {"BC1", "BQ1", "CL1", "FAM1", "FC1", "NL1", "Q1", "Q2", "Q3", "RW1", "RW2A", "RW2B"}
            \subseteq ToSet(CanonicalClaimOrder)
    BY <2>1 DEF ToSet, CanonicalClaimOrder
  <2> QED
    BY <2>2 DEF Families, ClaimsOf
<1>3. Claims \subseteq ToSet(CanonicalClaimOrder)
  BY <1>1, <1>2 DEF Claims, Decompose
<1>4. IsFiniteSet(Claims) /\ Cardinality(Claims) <= Cardinality(ToSet(CanonicalClaimOrder))
  BY <1>3, PlacesOfClaims, FS_Subset
<1>5. Cardinality(Claims) \in Nat /\ Cardinality(ToSet(CanonicalClaimOrder)) \in Nat
  BY <1>4, PlacesOfClaims, FS_CardinalityType
<1> QED
  BY <1>3, <1>4, <1>5, PlacesOfClaims

(* Every claim of every listing in scope knows how many candidates it has. *)
ContextsCount == \A h \in HotelSet, c \in Claims : contexts[h][c].free \in Nat

Call == [hotel : HotelSet, claim : Claims, rank : 1 .. TopK]

PlanOrder == {p \in Call \X Call : Before(p[1], p[2])}

LEMMA PlanOrderIsStrict ==
    ASSUME request \in Requests
    PROVE  IsFiniteSet(Call) /\ StrictOrder(PlanOrder, Call)
<1>1. PICK m \in Nat : HotelSet = 1 .. m
  BY ScopeIsAnInterval
<1>2. TopK \in Nat
  BY SoftEvidenceAssumption
<1>3. \A c \in Claims : Place(c) \in Int /\ CanonicalClaimOrder[Place(c)] = c
  BY ClaimsAreOrdered, PlacesOfClaims
<1>4. IsFiniteSet(Call)
  <2> DEFINE S == HotelSet \X (Claims \X (1 .. TopK))
             of == [p \in S |-> [hotel |-> p[1], claim |-> p[2][1], rank |-> p[2][2]]]
  <2>1. IsFiniteSet(HotelSet) /\ IsFiniteSet(1 .. TopK)
    BY <1>1, <1>2, FS_Interval
  <2>2. IsFiniteSet(Claims \X (1 .. TopK))
    BY <2>1, ClaimsAreOrdered, FS_Product
  <2>3. IsFiniteSet(S)
    BY <2>1, <2>2, FS_Product
  <2>4. of \in [S -> Call]
    BY DEF Call
  <2>5. ASSUME NEW t \in Call PROVE \E p \in S : of[p] = t
    <3>1. <<t.hotel, <<t.claim, t.rank>>>> \in S
      BY DEF Call
    <3>2. of[<<t.hotel, <<t.claim, t.rank>>>>] = t
      BY <3>1 DEF Call
    <3> QED
      BY <3>1, <3>2
  <2>6. of \in Surjection(S, Call)
    BY <2>4, <2>5 DEF Surjection
  <2> HIDE DEF S, of
  <2> QED
    BY <2>3, <2>6, FS_Surjection
<1>5. \A t \in Call : t.rank \in Int /\ t.hotel \in Int /\ t.claim \in Claims /\ Place(t.claim) \in Int
  BY <1>1, <1>2, <1>3 DEF Call
<1>6. \A t, u \in Call : <<t, u>> \in PlanOrder <=> Before(t, u)
  BY DEF PlanOrder
<1>7. \A t \in Call : ~Before(t, t)
  BY <1>5 DEF Before
<1>8. ASSUME NEW t \in Call, NEW u \in Call, NEW v \in Call, Before(t, u), Before(u, v) PROVE Before(t, v)
  BY <1>5, <1>8 DEF Before
<1>9. ASSUME NEW t \in Call, NEW u \in Call PROVE t = u \/ Before(t, u) \/ Before(u, t)
  <2>1. t.rank = u.rank /\ t.claim = u.claim /\ t.hotel = u.hotel => t = u
    BY DEF Call
  <2>2. Place(t.claim) = Place(u.claim) => t.claim = u.claim
    BY <1>3, <1>5
  <2> QED
    BY <1>5, <2>1, <2>2 DEF Before
<1>10. StrictOrder(PlanOrder, Call)
  BY <1>6, <1>7, <1>8, <1>9 DEF StrictOrder
<1> QED
  BY <1>4, <1>10

LEMMA OrderOfPart ==
    ASSUME NEW R, NEW S, StrictOrder(R, S), NEW T \in SUBSET S
    PROVE  StrictOrder(R, T)
BY DEF StrictOrder

(* The verifier's plan: the first calls that can be paid for, in order.    *)
LEMMA VerifierPlanIsRanked ==
    ASSUME request \in Requests
    PROVE  LET n == Cardinality(Affordable)
               m == IF CallsPerRequest <= n THEN CallsPerRequest ELSE n
           IN  /\ Affordable \subseteq Candidates /\ Candidates \subseteq Call
               /\ IsFiniteSet(Affordable) /\ n \in Nat /\ m \in Nat
               /\ StrictOrder(PlanOrder, Affordable)
               /\ VerifierPlan = [k \in 1 .. m |-> Ranking(Affordable, PlanOrder)[k]]
<1> DEFINE S == Affordable
           n == Cardinality(S)
           m == IF CallsPerRequest <= n THEN CallsPerRequest ELSE n
           plan2 == [k \in 1 .. Min({CallsPerRequest, n}) |->
                        CHOOSE t \in S : Cardinality({u \in S : Before(u, t)}) = k - 1]
<1>1. S \subseteq Candidates /\ Candidates \subseteq Call
  BY DEF Affordable, Candidates, Call
<1>2. IsFiniteSet(S) /\ StrictOrder(PlanOrder, S)
  BY <1>1, PlanOrderIsStrict, OrderOfPart, FS_Subset
<1>3. n \in Nat /\ CallsPerRequest \in Nat
  BY <1>2, FS_CardinalityType, SoftEvidenceAssumption
<1>4. VerifierPlan = plan2
  BY DEF VerifierPlan
<1>5. Min({CallsPerRequest, n}) = m
  BY <1>3, MinOfTwo
<1>6. \A t \in S : {u \in S : Before(u, t)} = Ahead(S, PlanOrder, t)
  BY <1>1 DEF Ahead, PlanOrder
<1> HIDE DEF S
<1>7. ASSUME NEW k
      PROVE  (CHOOSE t \in S : Cardinality({u \in S : Before(u, t)}) = k - 1)
                = (CHOOSE t \in S : Cardinality(Ahead(S, PlanOrder, t)) = k - 1)
  BY <1>6
<1>8. \A k \in 1 .. n : Ranking(S, PlanOrder)[k] = CHOOSE t \in S : Cardinality(Ahead(S, PlanOrder, t)) = k - 1
  BY DEF Ranking
<1>9. \A k \in 1 .. m : k \in 1 .. n
  BY <1>3
<1>10. plan2 = [k \in 1 .. m |-> Ranking(S, PlanOrder)[k]]
  BY <1>5, <1>7, <1>8, <1>9
<1> QED
  BY <1>1, <1>2, <1>3, <1>4, <1>10 DEF S

LEMMA VerifierPlanIsInjective ==
    ASSUME request \in Requests
    PROVE  VerifierPlan \in Seq(Call) /\ Injective(VerifierPlan)
<1> DEFINE n == Cardinality(Affordable)
           m == IF CallsPerRequest <= n THEN CallsPerRequest ELSE n
<1>1. /\ IsFiniteSet(Affordable) /\ n \in Nat /\ m \in Nat /\ Affordable \subseteq Call
      /\ StrictOrder(PlanOrder, Affordable)
      /\ VerifierPlan = [k \in 1 .. m |-> Ranking(Affordable, PlanOrder)[k]]
  BY VerifierPlanIsRanked
<1>2. /\ \A k \in 1 .. n : Ranking(Affordable, PlanOrder)[k] \in Affordable
      /\ \A j, k \in 1 .. n : Ranking(Affordable, PlanOrder)[j] = Ranking(Affordable, PlanOrder)[k] => j = k
  <2>1. /\ Ranking(Affordable, PlanOrder) \in [1 .. n -> Affordable]
        /\ \A j, k \in 1 .. n : Ranking(Affordable, PlanOrder)[j] = Ranking(Affordable, PlanOrder)[k] => j = k
    BY <1>1, RankingIsAPermutation
  <2> QED
    BY <2>1
<1>3. \A k \in 1 .. m : k \in 1 .. n
  BY <1>1, SoftEvidenceAssumption
<1> HIDE DEF n, m
<1>4. VerifierPlan \in Seq(Call)
  BY <1>1, <1>2, <1>3
<1>5. DOMAIN VerifierPlan = 1 .. m /\ \A k \in 1 .. m : VerifierPlan[k] = Ranking(Affordable, PlanOrder)[k]
  BY <1>1
<1>6. Injective(VerifierPlan)
  BY <1>2, <1>3, <1>5 DEF Injective
<1> QED
  BY <1>4, <1>6

(* The calls of the plan of the current phase, no two of them the same.    *)
PlanIsInjective ==
    /\ request \in Requests
    /\ DOMAIN call = DOMAIN plan
    /\ Injective(plan)

THEOREM EveryCallHasItsPlace == Spec => []PlanIsInjective
<1>1. ASSUME Init PROVE PlanIsInjective
  <2>1. request \in Requests /\ plan = EmbeddingPlan(request) /\ DOMAIN call = DOMAIN plan
    BY <1>1 DEF Init, Start
  <2>2. Injective(EmbeddingPlan(request))
    BY EveryPoolFits, EmbeddingPlanIsInjective
  <2> QED
    BY <2>1, <2>2 DEF PlanIsInjective
<1>2. ASSUME PlanIsInjective, [Next]_vars PROVE PlanIsInjective'
  <2>1. ASSUME NEW i, Begin(i) \/ Embed(i) \/ Verify(i) PROVE PlanIsInjective'
    <3>1. request' = request /\ plan' = plan /\ DOMAIN call' = DOMAIN call
      BY <2>1 DEF Begin, Embed, Verify, End
    <3> QED
      BY <1>2, <3>1 DEF PlanIsInjective, Injective
  <2>2. CASE PlanVerification
    <3>1. request' = request /\ plan' = VerifierPlan /\ DOMAIN call' = DOMAIN plan'
      BY <2>2 DEF PlanVerification, Start
    <3>2. Injective(VerifierPlan)
      BY <1>2, VerifierPlanIsInjective DEF PlanIsInjective
    <3> QED
      BY <1>2, <3>1, <3>2 DEF PlanIsInjective
  <2>3. CASE UNCHANGED <<request, plan, call>>
    BY <1>2, <2>3 DEF PlanIsInjective, Injective
  <2>4. CASE \/ EmbeddingDone \/ EmbeddingRaises \/ Retrieve \/ RetrieveRaises
             \/ VerificationDone \/ VerificationRaises \/ ApplyAuthoritative \/ AttachShadow
    <3>1. UNCHANGED <<request, plan, call>>
      BY <2>4 DEF EmbeddingDone, EmbeddingRaises, Retrieve, RetrieveRaises, VerificationDone, VerificationRaises,
                  ApplyAuthoritative, AttachShadow
    <3> QED
      BY <2>3, <3>1
  <2>5. CASE UNCHANGED vars
    BY <2>3, <2>5 DEF vars
  <2> QED
    BY <1>2, <2>1, <2>2, <2>4, <2>5 DEF Next, Finished
<1> QED
  BY <1>1, <1>2, PTL DEF Spec

(* Every result stands where its call was planned, in whatever order the   *)
(* calls ended and however many failed: the positions survive gather.      *)
THEOREM ResultsKeepTheirPlace == Spec => []ResultsStayInPlace
<1>1. Init => ResultsStayInPlace
  BY DEF Init, ResultsStayInPlace
<1>2. ASSUME ResultsStayInPlace, PlanIsInjective, NoOrphanedCalls, [Next]_vars PROVE ResultsStayInPlace'
  <2>1. ASSUME NEW i \in Waiting, Begin(i) PROVE ResultsStayInPlace'
    <3>1. stage \in {"embedding", "verifying"} /\ stage' = stage
      BY <1>2, <2>1 DEF NoOrphanedCalls, Begin
    <3> QED
      BY <3>1 DEF ResultsStayInPlace
  <2>2. ASSUME NEW i, Embed(i) \/ Verify(i) PROVE ResultsStayInPlace'
    <3>1. stage \in {"embedding", "verifying"} /\ stage' = stage
      BY <2>2 DEF Embed, Verify, End
    <3> QED
      BY <3>1 DEF ResultsStayInPlace
  <2>3. CASE EmbeddingDone
    <3> DEFINE short == {plan[i] : i \in {j \in DOMAIN plan : call[j] = "short"}}
    <3>1. /\ stage' = "retrieval" /\ plan' = plan /\ call' = call /\ request' = request
          /\ batches' = [b \in {Query} \cup ToSet(plan) |->
                            \A i \in DOMAIN plan : plan[i] = b => call[i] # "failed"]
      BY <2>3 DEF EmbeddingDone, Result
    <3>2. PICK given \in Shortened :
            vectors' = [b \in DOMAIN batches' |->
                          CASE b \in DOMAIN given -> given[b]
                            [] b \notin DOMAIN given /\ batches'[b] -> BatchLength(b)
                            [] OTHER -> 0]
      BY <2>3 DEF EmbeddingDone
    <3>3. DOMAIN given = short /\ \A b \in short : given[b] < BatchLength(b)
      BY DEF Shortened, Result
    <3>4. \A b : BatchLength(b)' = BatchLength(b)
      BY <3>1 DEF BatchLength, Claims
    <3>5. ASSUME NEW i \in DOMAIN plan
          PROVE  /\ batches'[plan[i]] <=> call[i] # "failed"
                 /\ call[i] = "embedded" => vectors'[plan[i]] = BatchLength(plan[i])
                 /\ call[i] = "short" => vectors'[plan[i]] < BatchLength(plan[i])
      <4>1. plan[i] \in {Query} \cup ToSet(plan)
        BY DEF ToSet
      <4>2. batches'[plan[i]] = \A j \in DOMAIN plan : plan[j] = plan[i] => call[j] # "failed"
        BY <3>1, <4>1
      <4>3. \A j \in DOMAIN plan : plan[j] = plan[i] => j = i
        BY <1>2 DEF PlanIsInjective, Injective
      <4>4. batches'[plan[i]] <=> call[i] # "failed"
        BY <4>2, <4>3
      <4>5. plan[i] \in short <=> call[i] = "short"
        BY <4>3
      <4>6. plan[i] \in DOMAIN batches'
        BY <3>1, <4>1
      <4> HIDE DEF short
      <4>7. CASE call[i] = "short"
        <5>1. vectors'[plan[i]] = given[plan[i]]
          BY <3>2, <3>3, <4>5, <4>6, <4>7
        <5> QED
          BY <3>3, <4>4, <4>5, <4>7, <5>1
      <4>8. CASE call[i] = "embedded"
        <5>1. vectors'[plan[i]] = BatchLength(plan[i])
          BY <3>2, <3>3, <4>4, <4>5, <4>6, <4>8
        <5> QED
          BY <4>4, <4>8, <5>1
      <4> QED
        BY <4>4, <4>7, <4>8
    <3> QED
      BY <3>1, <3>4, <3>5 DEF ResultsStayInPlace
  <2>4. CASE VerificationDone
    <3>1. /\ stage' = "done" /\ plan' = plan /\ call' = call
          /\ answers' = [t \in ToSet(plan) |-> call[CHOOSE i \in DOMAIN plan : plan[i] = t]]
      BY <2>4 DEF VerificationDone, Result
    <3>2. ASSUME NEW i \in DOMAIN plan PROVE answers'[plan[i]] = call[i]
      <4>1. plan[i] \in ToSet(plan)
        BY DEF ToSet
      <4>2. (CHOOSE j \in DOMAIN plan : plan[j] = plan[i]) = i
        BY <1>2 DEF PlanIsInjective, Injective
      <4> QED
        BY <3>1, <4>1, <4>2
    <3>3. DOMAIN answers' = ToSet(plan')
      BY <3>1
    <3> QED
      BY <3>1, <3>2, <3>3 DEF ResultsStayInPlace
  <2>6. CASE \/ EmbeddingRaises \/ Retrieve \/ RetrieveRaises \/ PlanVerification
             \/ VerificationRaises \/ ApplyAuthoritative \/ AttachShadow
    <3>1. stage' \in {"planning", "verifying", "raised", "applied"}
      BY <2>6 DEF EmbeddingRaises, Retrieve, RetrieveRaises, PlanVerification, VerificationRaises,
                  ApplyAuthoritative, AttachShadow
    <3> QED
      BY <3>1 DEF ResultsStayInPlace
  <2>7. CASE UNCHANGED vars
    <3>1. \A b : BatchLength(b)' = BatchLength(b)
      BY <2>7 DEF vars, BatchLength, Claims
    <3> QED
      BY <1>2, <2>7, <3>1 DEF vars, ResultsStayInPlace
  <2> QED
    BY <1>2, <2>1, <2>2, <2>3, <2>4, <2>6, <2>7 DEF Next, Finished
<1> QED
  BY <1>1, <1>2, EveryCallHasItsPlace, NothingIsOrphaned, PTL DEF Spec

-----------------------------------------------------------------------------
(* What retrieval makes of the pools. *)

ScoreOrder(h, c, embedded) == {p \in embedded \X embedded : Better(h, c, p[1], p[2])}

LEMMA RetrievedIsInPool ==
    ASSUME NEW h \in HotelSet, NEW c \in ToSet(CanonicalClaimOrder), NEW embedded \in SUBSET DOMAIN Pool[h]
    PROVE  Retrieved(h, c, embedded) \in Seq(embedded)
<1> DEFINE R == ScoreOrder(h, c, embedded)
           n == Cardinality(embedded)
           m == IF TopK <= n THEN TopK ELSE n
           score(i) == Score[c][Pool[h][i].text]
           top == Retrieved(h, c, embedded)
<1>1. DOMAIN Pool[h] = 1 .. Len(Pool[h]) /\ Len(Pool[h]) \in Nat
  BY EveryPoolFits
<1>2. IsFiniteSet(embedded)
  <2>1. IsFiniteSet(1 .. Len(Pool[h]))
    BY <1>1, FS_Interval
  <2> QED
    BY <1>1, <2>1, FS_Subset
<1>3. n \in Nat /\ TopK \in Nat
  BY <1>2, FS_CardinalityType, SoftEvidenceAssumption
<1>4. \A i \in embedded : i \in Int /\ score(i) \in Nat
  BY <1>1, ScoreAssumption
<1>5. \A i, j : Better(h, c, i, j) <=> score(i) > score(j) \/ (score(i) = score(j) /\ i < j)
  BY DEF Better
<1> HIDE DEF score
<1>6. StrictOrder(R, embedded)
  <2>1. \A i, j \in embedded : <<i, j>> \in R <=> score(i) > score(j) \/ (score(i) = score(j) /\ i < j)
    BY <1>5 DEF ScoreOrder
  <2> HIDE DEF R
  <2>2. \A i \in embedded : <<i, i>> \notin R
    BY <1>4, <2>1
  <2>3. ASSUME NEW i \in embedded, NEW j \in embedded, NEW k \in embedded, <<i, j>> \in R, <<j, k>> \in R
        PROVE  <<i, k>> \in R
    BY <1>4, <2>1, <2>3
  <2>4. ASSUME NEW i \in embedded, NEW j \in embedded PROVE i = j \/ <<i, j>> \in R \/ <<j, i>> \in R
    <3>1. i \in Int /\ j \in Int /\ score(i) \in Nat /\ score(j) \in Nat
      BY <1>4
    <3>2. \/ score(i) > score(j) \/ score(j) > score(i)
          \/ score(i) = score(j) /\ (i < j \/ j < i \/ i = j)
      BY <3>1
    <3> QED
      BY <2>1, <3>2
  <2> QED
    BY <2>2, <2>3, <2>4 DEF StrictOrder
<1>7. Ranking(embedded, R) \in [1 .. n -> embedded]
  BY <1>2, <1>6, RankingIsAPermutation
<1>8. \A i \in embedded : {j \in embedded : Better(h, c, j, i)} = Ahead(embedded, R, i)
  BY DEF Ahead, ScoreOrder
<1> HIDE DEF R
<1>9. ASSUME NEW k
      PROVE  (CHOOSE i \in embedded : Cardinality({j \in embedded : Better(h, c, j, i)}) = k - 1)
                = (CHOOSE i \in embedded : Cardinality(Ahead(embedded, R, i)) = k - 1)
  BY <1>8
<1>10. \A k \in 1 .. n : Ranking(embedded, R)[k] = CHOOSE i \in embedded : Cardinality(Ahead(embedded, R, i)) = k - 1
  BY DEF Ranking
<1>11. Min({TopK, n}) = m /\ m \in Nat /\ \A k \in 1 .. m : k \in 1 .. n
  BY <1>3, MinOfTwo
<1>12. top = [k \in 1 .. m |-> Ranking(embedded, R)[k]]
  BY <1>9, <1>10, <1>11 DEF Retrieved
<1> QED
  BY <1>7, <1>11, <1>12

LEMMA CleanedIsFromPool ==
    ASSUME NEW h \in HotelSet, NEW c \in ToSet(CanonicalClaimOrder), NEW embedded \in SUBSET DOMAIN Pool[h]
    PROVE  Cleaned(h, c, embedded) \in Seq(ToSet(Pool[h]))
<1> DEFINE top == Retrieved(h, c, embedded)
           e(k) == Pool[h][top[k]]
           first(k) == ~e(k).heading /\ \A m \in 1 .. (k - 1) : e(m).heading \/ e(m).text # e(k).text
           fresh == {k \in DOMAIN top : first(k)}
           kept == Kept(top, fresh)
<1>1. top \in Seq(embedded)
  BY RetrievedIsInPool
<1>2. fresh \in SUBSET DOMAIN top
  OBVIOUS
<1>3. Cleaned(h, c, embedded) = [k \in DOMAIN kept |-> Pool[h][kept[k]]]
  BY DEF Cleaned
<1> HIDE DEF fresh, top
<1>4. kept \in Seq(embedded)
  BY <1>1, <1>2, KeptHasOnlySuch
<1> HIDE DEF kept
<1>5. DOMAIN kept = 1 .. Len(kept) /\ Len(kept) \in Nat /\ \A k \in DOMAIN kept : Pool[h][kept[k]] \in ToSet(Pool[h])
  BY <1>4, LenProperties, ElementOfSeq DEF ToSet
<1> QED
  BY <1>3, <1>5

(* What is settled or open about claim c of listing h has its grounds in   *)
(* the listing.                                                            *)
Settles(h, c, x) ==
    /\ x.free \in Nat
    /\ x.items \in Seq({"SUPPORT", "NOT_ENOUGH_EVIDENCE"})
    /\ "SUPPORT" \in ToSet(x.items) => \E f \in FacilitiesOf(Listings[h]) : f.name \in Aliases(c)
    /\ NeedsGuestReport(c) /\ (x.free > 0 \/ "SUPPORT" \in ToSet(x.items)) =>
          ToSet(Listings[h].pros \o Listings[h].cons) \ {""} # {}

LEMMA RoutedSettles ==
    ASSUME NEW h \in HotelSet, NEW c \in ToSet(CanonicalClaimOrder)
    PROVE  Settles(h, c, Routed(h, c)) /\ Routed(h, c).status = RetrievalStatus(h)
<1> DEFINE embedded == Embedded(h)
           cleaned == Cleaned(h, c, embedded)
           settled == {k \in DOMAIN cleaned : Deterministic(c, cleaned[k])}
           relations == [k \in DOMAIN cleaned |-> TagRelation(c, cleaned[k])]
           x == Routed(h, c)
<1>1. embedded \in SUBSET DOMAIN Pool[h]
  BY DEF Embedded
<1>2. x = [items |-> Kept(relations, settled), free |-> Cardinality(DOMAIN cleaned \ settled), status |-> RetrievalStatus(h)]
  <2> DEFINE y(e) == LET cleaned2 == Cleaned(h, c, e)
                         settled2 == {k \in DOMAIN cleaned2 : Deterministic(c, cleaned2[k])}
                     IN  [items  |-> Kept([k \in DOMAIN cleaned2 |-> TagRelation(c, cleaned2[k])], settled2),
                          free   |-> Cardinality(DOMAIN cleaned2 \ settled2),
                          status |-> "none"]
  <2>1. \A e \in SUBSET DOMAIN Pool[h] : Routing[h][c][e] = y(e)
    BY DEF Routing
  <2>2. Routing[h][c][Embedded(h)] = y(embedded)
    BY <1>1, <2>1
  <2> QED
    BY <2>2 DEF Routed
<1>3. cleaned \in Seq(ToSet(Pool[h]))
  BY <1>1, CleanedIsFromPool
<1>4. \A k \in DOMAIN cleaned : \E i \in DOMAIN Pool[h] : cleaned[k] = Pool[h][i]
  BY <1>3, ElementOfSeq, LenProperties DEF ToSet
<1> HIDE DEF cleaned, embedded
<1>5. \A k \in DOMAIN cleaned : Fits(Listings[h], cleaned[k]) /\ cleaned[k].text # ""
  BY <1>4, EveryPoolFits DEF Fitting
<1>6. DOMAIN cleaned = 1 .. Len(cleaned) /\ Len(cleaned) \in Nat
  BY <1>3, LenProperties
<1> DEFINE T == {"SUPPORT", "NOT_ENOUGH_EVIDENCE"}
<1>7. relations \in Seq(T) /\ DOMAIN relations = DOMAIN cleaned
  BY <1>6 DEF TagRelation
<1>8. settled \in SUBSET DOMAIN relations
  OBVIOUS
<1>9. /\ x.items \in Seq(T)
      /\ \A n \in DOMAIN x.items : \E k \in settled : x.items[n] = relations[k]
  <2> HIDE DEF T, relations, settled, x
  <2> QED
    BY <1>2, <1>7, <1>8, KeptHasOnlySuch
<1>10. x.free \in Nat
  <2>1. IsFiniteSet(1 .. Len(cleaned))
    BY <1>6, FS_Interval
  <2>2. IsFiniteSet(DOMAIN cleaned \ settled)
    BY <1>6, <2>1, FS_Subset
  <2> QED
    BY <1>2, <2>2, FS_CardinalityType
<1>11. "SUPPORT" \in ToSet(x.items) =>
          \E k \in DOMAIN cleaned : Deterministic(c, cleaned[k]) /\ ~Unroutable(c, cleaned[k]) /\ cleaned[k].text \in Aliases(c)
  <2> SUFFICES ASSUME "SUPPORT" \in ToSet(x.items)
               PROVE  \E k \in DOMAIN cleaned : Deterministic(c, cleaned[k]) /\ ~Unroutable(c, cleaned[k]) /\ cleaned[k].text \in Aliases(c)
    OBVIOUS
  <2>1. PICK n \in DOMAIN x.items : x.items[n] = "SUPPORT"
    BY DEF ToSet
  <2>2. PICK k \in settled : relations[k] = "SUPPORT"
    BY <1>9, <2>1
  <2>3. TagRelation(c, cleaned[k]) = "SUPPORT"
    BY <2>2
  <2> QED
    BY <2>2, <2>3 DEF TagRelation
<1>12. "SUPPORT" \in ToSet(x.items) => \E f \in FacilitiesOf(Listings[h]) : f.name \in Aliases(c)
  BY <1>5, <1>11 DEF Deterministic, StructuredTag, Fits
<1>13. x.free > 0 => \E k \in DOMAIN cleaned : ~Unroutable(c, cleaned[k])
  <2>1. Cardinality({}) = 0
    BY FS_EmptySet
  <2>2. x.free > 0 => DOMAIN cleaned \ settled # {}
    BY <1>2, <2>1
  <2> QED
    BY <2>2 DEF Deterministic
<1>14. ASSUME NeedsGuestReport(c), x.free > 0 \/ "SUPPORT" \in ToSet(x.items)
       PROVE  ToSet(Listings[h].pros \o Listings[h].cons) \ {""} # {}
  <2>1. PICK k \in DOMAIN cleaned : ~Unroutable(c, cleaned[k])
    BY <1>11, <1>13, <1>14
  <2> QED
    BY <1>5, <1>14, <2>1 DEF Unroutable, Fits
<1>15. x.items \in Seq({"SUPPORT", "NOT_ENOUGH_EVIDENCE"}) /\ x.status = RetrievalStatus(h)
  BY <1>2, <1>9
<1> HIDE DEF x
<1>16. Settles(h, c, x)
  BY <1>10, <1>12, <1>14, <1>15 DEF Settles
<1> QED
  BY <1>15, <1>16 DEF x

-----------------------------------------------------------------------------
(* The budget. *)

LEMMA FirstOfAClaimIsAffordable ==
    ASSUME request \in Requests, ContextsCount,
           NEW h \in HotelSet, NEW c \in Claims, contexts[h][c].free > 0
    PROVE  [hotel |-> h, claim |-> c, rank |-> 1] \in Affordable
<1> DEFINE t == [hotel |-> h, claim |-> c, rank |-> 1]
           active == ActiveClaims(h)
           V == {u \in Candidates : u.hotel = t.hotel /\ Before(u, t)}
           g == [u \in V |-> u.claim]
<1>1. 1 \in 1 .. TopK /\ TopK \in Nat
  BY SoftEvidenceAssumption
<1>2. \A d \in Claims : contexts[h][d].free \in Nat
  BY DEF ContextsCount
<1>3. t \in Candidates
  BY <1>1, <1>2 DEF Candidates
<1>4. h \in Int /\ \A d \in Claims : Place(d) \in Int
  BY ScopeIsAnInterval, ClaimsAreOrdered, PlacesOfClaims
<1>5. ASSUME NEW u \in V PROVE u.rank = 1 /\ u.hotel = h /\ u.claim \in active \ {c} /\ u \in Call
  <2>1. /\ u \in Call /\ u.hotel = h /\ u.rank \in 1 .. TopK /\ u.claim \in Claims
        /\ u.rank <= contexts[h][u.claim].free
        /\ Before(u, t)
    BY DEF Candidates, Call
  <2>2. u.rank \in Int /\ u.rank >= 1
    BY <1>1, <2>1
  <2>3. u.rank = 1 /\ (Place(u.claim) < Place(c) \/ (u.claim = c /\ u.hotel < h))
    BY <2>1, <2>2 DEF Before
  <2>4. u.claim # c
    BY <1>4, <2>1, <2>3
  <2>5. u.claim \in active
    BY <1>2, <2>1, <2>3 DEF ActiveClaims
  <2> QED
    BY <2>1, <2>3, <2>4, <2>5
<1>6. IsFiniteSet(active) /\ c \in active /\ Cardinality(active) <= Cardinality(Claims)
  <2>1. active \in SUBSET Claims /\ c \in active
    BY DEF ActiveClaims
  <2> QED
    BY <2>1, ClaimsAreOrdered, FS_Subset
<1>7. /\ IsFiniteSet(active \ {c}) /\ Cardinality(active) \in Nat
      /\ Cardinality(active \ {c}) = Cardinality(active) - 1
  BY <1>6, FS_RemoveElement, FS_CardinalityType
<1>8. IsFiniteSet(V) /\ Cardinality(V) <= Cardinality(active \ {c}) /\ Cardinality(V) \in Nat
  <2>1. g \in [V -> active \ {c}]
    BY <1>5
  <2>2. ASSUME NEW u \in V, NEW v \in V, g[u] = g[v] PROVE u = v
    <3>1. u \in Call /\ v \in Call /\ u.rank = v.rank /\ u.hotel = v.hotel /\ u.claim = v.claim
      BY <1>5, <2>2
    <3> QED
      BY <3>1 DEF Call
  <2>3. g \in Injection(V, active \ {c})
    BY <2>1, <2>2 DEF Injection, IsInjective
  <2> HIDE DEF g, V
  <2>4. IsFiniteSet(V) /\ Cardinality(V) <= Cardinality(active \ {c})
    BY <1>7, <2>3, FS_Injection
  <2> QED
    BY <2>4, FS_CardinalityType
<1>9. Cardinality(active) <= EffectiveBudget(h)
  <2> DEFINE k == Cardinality(active)
             most == IF CallsPerHotel >= k THEN CallsPerHotel ELSE k
  <2>1. k \in Int /\ CallsPerHotel \in Int /\ MaxClaims \in Int /\ k <= MaxClaims
    BY <1>6, <1>7, ClaimsAreOrdered, PlacesOfClaims, SoftEvidenceAssumption
  <2>2. EffectiveBudget(h) = Min({MaxClaims, Max({CallsPerHotel, k})})
    BY DEF EffectiveBudget
  <2> HIDE DEF k
  <2>3. Max({CallsPerHotel, k}) = most /\ most \in Int /\ k <= most
    BY <2>1, MaxOfTwo
  <2> HIDE DEF most
  <2>4. Min({MaxClaims, most}) = IF MaxClaims <= most THEN MaxClaims ELSE most
    BY <2>1, <2>3, MinOfTwo
  <2> QED
    BY <2>1, <2>2, <2>3, <2>4 DEF k
<1>10. EffectiveBudget(h) \in Int
  <2> DEFINE k == Cardinality(active)
             most == IF CallsPerHotel >= k THEN CallsPerHotel ELSE k
  <2>1. k \in Int /\ CallsPerHotel \in Int /\ MaxClaims \in Int
    BY <1>7, PlacesOfClaims, SoftEvidenceAssumption
  <2>2. Max({CallsPerHotel, k}) = most /\ most \in Int
    BY <2>1, MaxOfTwo
  <2>3. EffectiveBudget(h) = Min({MaxClaims, most})
    BY <2>2 DEF EffectiveBudget
  <2> HIDE DEF most
  <2> QED
    BY <2>1, <2>2, <2>3, MinOfTwo
<1>11. Cardinality(V) < EffectiveBudget(t.hotel)
  BY <1>7, <1>8, <1>9, <1>10
<1> QED
  BY <1>3, <1>11 DEF Affordable

LEMMA VerifierPlanIsFair ==
    ASSUME request \in Requests, ContextsCount,
           NEW h \in HotelSet, NEW c \in Claims, contexts[h][c].free > 0
    PROVE  \/ [hotel |-> h, claim |-> c, rank |-> 1] \in ToSet(VerifierPlan)
           \/ /\ Cardinality(ToSet(VerifierPlan)) = CallsPerRequest
              /\ \A u \in ToSet(VerifierPlan) : u.rank = 1
<1> DEFINE t == [hotel |-> h, claim |-> c, rank |-> 1]
           n == Cardinality(Affordable)
           m == IF CallsPerRequest <= n THEN CallsPerRequest ELSE n
           r == Ranking(Affordable, PlanOrder)
           p == VerifierPlan
<1>1. /\ Affordable \subseteq Call /\ IsFiniteSet(Affordable) /\ n \in Nat /\ m \in Nat
      /\ StrictOrder(PlanOrder, Affordable)
      /\ p = [k \in 1 .. m |-> r[k]]
  BY VerifierPlanIsRanked
<1>2. /\ r \in [1 .. n -> Affordable]
      /\ \A j, k \in 1 .. n : j < k <=> <<r[j], r[k]>> \in PlanOrder
      /\ \A i \in Affordable : \E k \in 1 .. n : r[k] = i
  BY <1>1, RankingIsAPermutation
<1>3. PICK k \in 1 .. n : r[k] = t
  BY <1>2, FirstOfAClaimIsAffordable
<1>4. CallsPerRequest \in Nat /\ (m = CallsPerRequest \/ m = n) /\ \A j \in 1 .. m : j \in 1 .. n
  BY <1>1, SoftEvidenceAssumption
<1>5. DOMAIN p = 1 .. m /\ \A j \in 1 .. m : p[j] = r[j]
  BY <1>1
<1>6. Injective(p)
  BY VerifierPlanIsInjective
<1> HIDE DEF p, r, m
<1>7. CASE k \in 1 .. m
  BY <1>3, <1>5, <1>7 DEF ToSet, p
<1>8. CASE k \notin 1 .. m
  <2>1. m = CallsPerRequest /\ \A j \in 1 .. m : j < k
    BY <1>1, <1>4, <1>8
  <2>2. p \in Surjection(1 .. m, ToSet(p)) /\ p \in Injection(1 .. m, ToSet(p))
    <3>1. p \in [1 .. m -> ToSet(p)] /\ \A x \in ToSet(p) : \E j \in 1 .. m : p[j] = x
      BY <1>1, <1>5 DEF ToSet, p
    <3>2. \A i, j \in 1 .. m : p[i] = p[j] => i = j
      BY <1>5, <1>6 DEF Injective
    <3> QED
      BY <3>1, <3>2 DEF Injection, Surjection, IsInjective
  <2>3. IsFiniteSet(1 .. m) /\ Cardinality(1 .. m) = m
    <3>1. 1 \in Int /\ m \in Int /\ (IF 1 > m THEN 0 ELSE m - 1 + 1) = m
      BY <1>1
    <3> QED
      BY <3>1, FS_Interval
  <2>4. Cardinality(ToSet(p)) = m
    BY <2>2, <2>3, FS_Surjection
  <2>5. ASSUME NEW u \in ToSet(p) PROVE u.rank = 1
    <3>1. PICK j \in 1 .. m : u = r[j]
      BY <1>5 DEF ToSet
    <3>2. <<u, t>> \in PlanOrder
      BY <1>2, <1>3, <1>4, <2>1, <3>1
    <3>3. Before(u, t) /\ u.rank \in 1 .. TopK
      BY <3>2 DEF PlanOrder, Call
    <3>4. u.rank \in Int /\ u.rank >= 1
      BY <3>3, SoftEvidenceAssumption
    <3> QED
      BY <3>3, <3>4 DEF Before
  <2> QED
    BY <2>1, <2>4, <2>5 DEF p
<1> QED
  BY <1>7, <1>8

(* What each claim of each listing rests on does not change once it is known. *)
ContextsSettle ==
    stage \notin {"embedding", "retrieval", "raised"} =>
        \A h \in HotelSet, c \in Claims :
            Settles(h, c, contexts[h][c]) /\ contexts[h][c].status = RetrievalStatus(h)

LEMMA StatusStands == \A h \in HotelSet : batches' = batches => RetrievalStatus(h)' = RetrievalStatus(h)
BY DEF RetrievalStatus, HotelBatches

THEOREM ContextsAreSettled == Spec => []ContextsSettle
<1>1. Init => ContextsSettle
  BY DEF Init, ContextsSettle
<1>2. ASSUME ContextsSettle, PlanIsInjective, [Next]_vars PROVE ContextsSettle'
  <2>1. CASE stage' \in {"embedding", "retrieval", "raised"}
    BY <2>1 DEF ContextsSettle
  <2>2. CASE Retrieve
    <3>1. /\ contexts' = [h \in HotelSet |-> [c \in Claims |-> Routed(h, c)]]
          /\ request' = request /\ batches' = batches
      BY <2>2 DEF Retrieve
    <3>2. Claims' = Claims
      BY <3>1 DEF Claims
    <3>3. ASSUME NEW h \in HotelSet, NEW c \in Claims
          PROVE  Settles(h, c, contexts'[h][c]) /\ contexts'[h][c].status = RetrievalStatus(h)'
      <4>1. contexts'[h][c] = Routed(h, c)
        BY <3>1
      <4>2. c \in ToSet(CanonicalClaimOrder)
        BY <1>2, ClaimsAreOrdered DEF PlanIsInjective
      <4> QED
        BY <3>1, <4>1, <4>2, RoutedSettles, StatusStands
    <3> QED
      BY <3>2, <3>3 DEF ContextsSettle
  <2>3. CASE stage \notin {"embedding", "retrieval", "raised"} /\ UNCHANGED <<request, batches, contexts>>
    <3>1. Claims' = Claims
      BY <2>3 DEF Claims
    <3>2. \A h \in HotelSet, c \in Claims : Settles(h, c, contexts[h][c]) /\ contexts[h][c].status = RetrievalStatus(h)
      BY <1>2, <2>3 DEF ContextsSettle
    <3>3. \A h \in HotelSet, c \in Claims : Settles(h, c, contexts'[h][c]) /\ contexts'[h][c].status = RetrievalStatus(h)'
      BY <2>3, <3>2, StatusStands
    <3> QED
      BY <3>1, <3>3 DEF ContextsSettle
  <2>4. ASSUME NEW i, Begin(i) \/ Embed(i) \/ Verify(i)
        PROVE  stage' = stage /\ UNCHANGED <<request, batches, contexts>>
    BY <2>4 DEF Begin, Embed, Verify, End
  <2>5. CASE PlanVerification \/ VerificationDone \/ VerificationRaises \/ ApplyAuthoritative \/ AttachShadow
    <3>1. stage \notin {"embedding", "retrieval", "raised"} /\ UNCHANGED <<request, batches, contexts>>
      BY <2>5 DEF PlanVerification, VerificationDone, VerificationRaises, ApplyAuthoritative, AttachShadow
    <3> QED
      BY <2>3, <3>1
  <2>6. CASE EmbeddingDone
    BY <2>1, <2>6 DEF EmbeddingDone
  <2>7. CASE UNCHANGED vars
    BY <2>1, <2>3, <2>7 DEF vars
  <2>8. CASE EmbeddingRaises \/ RetrieveRaises
    BY <2>8 DEF EmbeddingRaises, RetrieveRaises, ContextsSettle
  <2> QED
    BY <1>2, <2>1, <2>2, <2>3, <2>4, <2>5, <2>6, <2>7, <2>8 DEF Next, Finished
<1> QED
  BY <1>1, <1>2, EveryCallHasItsPlace, PTL DEF Spec

LEMMA VerifierPlanStands ==
    ASSUME UNCHANGED <<request, contexts>>
    PROVE  VerifierPlan' = VerifierPlan
<1>1. Claims' = Claims
  BY DEF Claims
<1>2. Candidates' = Candidates
  BY <1>1 DEF Candidates
<1>3. \A h : EffectiveBudget(h)' = EffectiveBudget(h)
  BY <1>1 DEF EffectiveBudget, ActiveClaims
<1>4. Affordable' = Affordable
  BY <1>2, <1>3 DEF Affordable
<1> QED
  BY <1>4 DEF VerifierPlan

PlanStands == stage \in {"verifying", "done"} => plan = VerifierPlan

LEMMA ThePlanStands == Spec => []PlanStands
<1>1. Init => PlanStands
  BY DEF Init, PlanStands
<1>2. ASSUME PlanStands, [Next]_vars PROVE PlanStands'
  <2>1. CASE stage' \notin {"verifying", "done"}
    BY <2>1 DEF PlanStands
  <2>2. CASE stage \in {"verifying", "done"} /\ UNCHANGED <<request, contexts, plan>>
    BY <1>2, <2>2, VerifierPlanStands DEF PlanStands
  <2>3. CASE PlanVerification
    BY <2>3, VerifierPlanStands DEF PlanVerification, PlanStands
  <2>4. ASSUME NEW i, Begin(i) \/ Embed(i) \/ Verify(i)
        PROVE  stage' = stage /\ UNCHANGED <<request, contexts, plan>>
    BY <2>4 DEF Begin, Embed, Verify, End
  <2>5. CASE VerificationDone \/ VerificationRaises
    BY <2>2, <2>5 DEF VerificationDone, VerificationRaises
  <2>6. CASE EmbeddingDone \/ EmbeddingRaises \/ Retrieve \/ RetrieveRaises \/ ApplyAuthoritative \/ AttachShadow
    BY <2>1, <2>6 DEF EmbeddingDone, EmbeddingRaises, Retrieve, RetrieveRaises, ApplyAuthoritative, AttachShadow
  <2>7. CASE UNCHANGED vars
    BY <2>1, <2>2, <2>7 DEF vars
  <2> QED
    BY <1>2, <2>1, <2>2, <2>3, <2>4, <2>5, <2>6, <2>7 DEF Next, Finished
<1> QED
  BY <1>1, <1>2, PTL DEF Spec

(* No claim of a listing waits for its first verdict while another of that *)
(* listing gets a second one, and only the ceiling of the request leaves a *)
(* claim with candidates without any, whatever the scores and the sizes.   *)
THEOREM TheBudgetIsFair == Spec => []BudgetIsFair
<1>1. ASSUME PlanIsInjective, ContextsSettle, PlanStands, ResultsStayInPlace PROVE BudgetIsFair
  <2> SUFFICES ASSUME stage = "done", NEW h \in HotelSet, NEW c \in Claims, contexts[h][c].free > 0
               PROVE  \/ [hotel |-> h, claim |-> c, rank |-> 1] \in DOMAIN answers
                      \/ /\ Cardinality(DOMAIN answers) = CallsPerRequest
                         /\ \A t \in DOMAIN answers : t.rank = 1
    BY DEF BudgetIsFair
  <2>1. request \in Requests /\ plan = VerifierPlan /\ DOMAIN answers = ToSet(plan)
    BY <1>1 DEF PlanIsInjective, PlanStands, ResultsStayInPlace
  <2>2. ContextsCount
    BY <1>1 DEF ContextsSettle, ContextsCount, Settles
  <2> QED
    BY <2>1, <2>2, VerifierPlanIsFair
<1> QED
  BY <1>1, EveryCallHasItsPlace, ContextsAreSettled, ThePlanStands, ResultsKeepTheirPlace, PTL

-----------------------------------------------------------------------------
(* Types. *)

EndedCalls == {i \in DOMAIN call : call[i] \notin {"waiting", "running"}}

CallsAreTyped ==
    /\ stage \in {"embedding", "retrieval", "planning", "verifying", "done", "applied", "raised"}
    /\ call \in [DOMAIN plan -> CallStates]
    /\ stage = "verifying" =>
          call \in [DOMAIN plan -> {"waiting", "running", "VERIFICATION_FAILED", "raised"} \cup Relations]
    /\ finished \in Seq(DOMAIN plan)
    /\ stage \in {"embedding", "verifying"} => ToSet(finished) = EndedCalls
    /\ stage \notin {"embedding", "verifying"} => finished = <<>>

ResultsAreTyped ==
    /\ \A b \in DOMAIN batches : batches[b] \in BOOLEAN
    /\ DOMAIN vectors \in {{}, DOMAIN batches}
    /\ \A t \in DOMAIN answers : answers[t] \in Relations \cup {"VERIFICATION_FAILED"}
    /\ \A h \in DOMAIN results : \A i \in DOMAIN results[h] : results[h][i] \in Ternary

LEMMA AppendToSet ==
    ASSUME NEW T, NEW s \in Seq(T), NEW x \in T
    PROVE  Append(s, x) \in Seq(T) /\ ToSet(Append(s, x)) = ToSet(s) \cup {x}
<1>1. /\ Append(s, x) \in Seq(T) /\ Len(Append(s, x)) = Len(s) + 1
      /\ \A i \in 1 .. Len(s) : Append(s, x)[i] = s[i]
      /\ Append(s, x)[Len(s) + 1] = x
  BY AppendProperties
<1>2. DOMAIN s = 1 .. Len(s) /\ Len(s) \in Nat /\ DOMAIN Append(s, x) = 1 .. Len(s) + 1
  BY <1>1, LenProperties
<1>3. \A i \in 1 .. Len(s) + 1 : i \in 1 .. Len(s) \/ i = Len(s) + 1
  BY <1>2
<1>4. ToSet(Append(s, x)) \subseteq ToSet(s) \cup {x}
  BY <1>1, <1>2, <1>3 DEF ToSet
<1>5. ToSet(s) \cup {x} \subseteq ToSet(Append(s, x))
  <2>1. x \in ToSet(Append(s, x))
    BY <1>1, <1>2 DEF ToSet
  <2>2. ToSet(s) \subseteq ToSet(Append(s, x))
    BY <1>1, <1>2 DEF ToSet
  <2> QED
    BY <2>1, <2>2
<1> QED
  BY <1>1, <1>4, <1>5

LEMMA DecisionIsTernary == \A constraint, cs : Decide(constraint, cs).decision \in Ternary
BY DEF Decide, Combine, Ternary

LEMMA CallsStayTyped == Spec => []CallsAreTyped
<1>1. ASSUME Init PROVE CallsAreTyped
  <2>1. /\ stage = "embedding" /\ finished = <<>>
        /\ call = [i \in DOMAIN plan |-> "waiting"]
    BY <1>1 DEF Init, Start
  <2>2. ToSet(finished) = EndedCalls
    BY <2>1 DEF ToSet, EndedCalls
  <2>3. call \in [DOMAIN plan -> CallStates] /\ finished \in Seq(DOMAIN plan)
    BY <2>1 DEF CallStates
  <2> QED
    BY <2>1, <2>2, <2>3 DEF CallsAreTyped
<1>2. ASSUME CallsAreTyped, NoOrphanedCalls, [Next]_vars PROVE CallsAreTyped'
  <2>1. ASSUME NEW i \in Waiting, Begin(i) PROVE CallsAreTyped'
    <3>1. /\ stage \in {"embedding", "verifying"} /\ stage' = stage /\ plan' = plan /\ finished' = finished
          /\ call' = [call EXCEPT ![i] = "running"] /\ i \in DOMAIN call /\ call[i] = "waiting"
      BY <1>2, <2>1 DEF NoOrphanedCalls, Begin, Waiting
    <3>2. EndedCalls' = EndedCalls
      BY <3>1 DEF EndedCalls
    <3>3. call' \in [DOMAIN plan' -> CallStates]
      BY <1>2, <3>1 DEF CallsAreTyped, CallStates
    <3>4. stage' = "verifying" =>
            call' \in [DOMAIN plan' -> {"waiting", "running", "VERIFICATION_FAILED", "raised"} \cup Relations]
      BY <1>2, <3>1 DEF CallsAreTyped
    <3> QED
      BY <1>2, <3>1, <3>2, <3>3, <3>4 DEF CallsAreTyped
  <2>2. ASSUME NEW i \in Running, NEW result \in CallStates \ {"waiting", "running"}, End(i, result), InPhase, stage' = stage,
               stage = "verifying" => result \in {"VERIFICATION_FAILED", "raised"} \cup Relations
        PROVE  CallsAreTyped'
    <3>1. /\ plan' = plan /\ finished' = Append(finished, i)
          /\ call' = [call EXCEPT ![i] = result] /\ i \in DOMAIN call /\ call[i] = "running"
      BY <2>2 DEF End, Running
    <3>2. finished \in Seq(DOMAIN plan) /\ ToSet(finished) = EndedCalls /\ DOMAIN call = DOMAIN plan
      BY <1>2, <2>2 DEF CallsAreTyped, InPhase
    <3>3. finished' \in Seq(DOMAIN plan) /\ ToSet(finished') = ToSet(finished) \cup {i}
      BY <3>1, <3>2, AppendToSet
    <3>4. EndedCalls' = EndedCalls \cup {i}
      BY <2>2, <3>1, <3>2 DEF EndedCalls
    <3>5. call' \in [DOMAIN plan' -> CallStates]
      BY <1>2, <2>2, <3>1 DEF CallsAreTyped
    <3>6. stage' = "verifying" =>
            call' \in [DOMAIN plan' -> {"waiting", "running", "VERIFICATION_FAILED", "raised"} \cup Relations]
      BY <1>2, <2>2, <3>1 DEF CallsAreTyped
    <3> QED
      BY <1>2, <2>2, <3>1, <3>2, <3>3, <3>4, <3>5, <3>6 DEF CallsAreTyped, InPhase
  <2>3. ASSUME NEW i \in Running, Embed(i) PROVE CallsAreTyped'
    <3>1. PICK result \in {"embedded", "short", "failed", "raised"} : End(i, result)
      BY <2>3 DEF Embed
    <3>2. result \in CallStates \ {"waiting", "running"} /\ stage = "embedding" /\ InPhase /\ stage' = stage
      BY <2>3, <3>1 DEF Embed, End, CallStates, InPhase
    <3> QED
      BY <2>2, <3>1, <3>2
  <2>4. ASSUME NEW i \in Running, Verify(i) PROVE CallsAreTyped'
    <3>1. PICK result \in Relations \cup {"VERIFICATION_FAILED", "raised"} : End(i, result)
      BY <2>4 DEF Verify
    <3>2. result \in CallStates \ {"waiting", "running"} /\ InPhase /\ stage' = stage
      BY <2>4, <3>1 DEF Verify, End, CallStates, Relations, InPhase
    <3> QED
      BY <2>2, <3>1, <3>2
  <2>5. CASE PlanVerification
    <3>1. /\ stage' = "verifying" /\ finished' = <<>> /\ call' = [i \in DOMAIN plan' |-> "waiting"]
      BY <1>2, <2>5 DEF PlanVerification, Start, CallsAreTyped
    <3>2. ToSet(finished') = EndedCalls'
      BY <3>1 DEF ToSet, EndedCalls
    <3>3. /\ call' \in [DOMAIN plan' -> CallStates] /\ finished' \in Seq(DOMAIN plan')
          /\ call' \in [DOMAIN plan' -> {"waiting", "running", "VERIFICATION_FAILED", "raised"} \cup Relations]
      BY <3>1 DEF CallStates
    <3> QED
      BY <3>1, <3>2, <3>3 DEF CallsAreTyped
  <2>6. CASE EmbeddingDone \/ EmbeddingRaises \/ VerificationDone \/ VerificationRaises
    <3>1. stage' \in {"retrieval", "done", "raised"} /\ finished' = <<>> /\ UNCHANGED <<plan, call>>
      BY <2>6 DEF EmbeddingDone, EmbeddingRaises, VerificationDone, VerificationRaises
    <3> QED
      BY <1>2, <3>1 DEF CallsAreTyped
  <2>7. CASE Retrieve \/ RetrieveRaises \/ ApplyAuthoritative \/ AttachShadow
    <3>1. /\ stage \in {"retrieval", "done"} /\ stage' \in {"planning", "raised", "applied"}
          /\ UNCHANGED <<plan, call, finished>>
      BY <2>7 DEF Retrieve, RetrieveRaises, ApplyAuthoritative, AttachShadow
    <3> QED
      BY <1>2, <3>1 DEF CallsAreTyped
  <2>8. CASE UNCHANGED vars
    BY <1>2, <2>8 DEF vars, CallsAreTyped, EndedCalls
  <2> QED
    BY <1>2, <2>1, <2>3, <2>4, <2>5, <2>6, <2>7, <2>8 DEF Next, Finished
<1> QED
  BY <1>1, <1>2, NothingIsOrphaned, PTL DEF Spec

LEMMA ResultsStayTyped == Spec => []ResultsAreTyped
<1>1. Init => ResultsAreTyped
  BY DEF Init, ResultsAreTyped
<1>2. ASSUME ResultsAreTyped, CallsAreTyped, [Next]_vars PROVE ResultsAreTyped'
  <2>1. CASE UNCHANGED <<batches, vectors, answers, results>>
    BY <1>2, <2>1 DEF ResultsAreTyped
  <2>2. ASSUME NEW i, Begin(i) \/ Embed(i) \/ Verify(i) PROVE ResultsAreTyped'
    BY <2>1, <2>2 DEF Begin, Embed, Verify, End
  <2>3. CASE EmbeddingDone
    <3>1. /\ batches' = [b \in {Query} \cup ToSet(plan) |->
                            \A i \in DOMAIN plan : plan[i] = b => Result(i) # "failed"]
          /\ DOMAIN vectors' = DOMAIN batches'
          /\ UNCHANGED <<answers, results>>
      BY <2>3 DEF EmbeddingDone
    <3>2. \A b \in DOMAIN batches' : batches'[b] \in BOOLEAN
      BY <3>1
    <3> QED
      BY <1>2, <3>1, <3>2 DEF ResultsAreTyped
  <2>4. CASE VerificationDone
    <3>1. /\ stage = "verifying" /\ AllEnded /\ \A i \in DOMAIN plan : call[i] # "raised"
          /\ answers' = [t \in ToSet(plan) |-> call[CHOOSE i \in DOMAIN plan : plan[i] = t]]
          /\ UNCHANGED <<batches, vectors, results>>
      BY <2>4 DEF VerificationDone, Result
    <3>2. \A i \in DOMAIN plan : call[i] \in Relations \cup {"VERIFICATION_FAILED"}
      BY <1>2, <3>1 DEF CallsAreTyped, AllEnded, Waiting, Running
    <3>3. ASSUME NEW t \in ToSet(plan) PROVE answers'[t] \in Relations \cup {"VERIFICATION_FAILED"}
      <4>1. (CHOOSE i \in DOMAIN plan : plan[i] = t) \in DOMAIN plan
        BY DEF ToSet
      <4> QED
        BY <3>1, <3>2, <4>1
    <3> QED
      BY <1>2, <3>1, <3>3 DEF ResultsAreTyped
  <2>5. CASE ApplyAuthoritative
    <3>1. /\ results' = [h \in DOMAIN Listings |->
                            IF h \in HotelSet THEN [i \in Supported |-> Decision(h, i).decision] ELSE <<>>]
          /\ UNCHANGED <<batches, vectors, answers>>
      BY <2>5 DEF ApplyAuthoritative
    <3>2. ASSUME NEW h \in DOMAIN results', NEW i \in DOMAIN results'[h] PROVE results'[h][i] \in Ternary
      <4>1. CASE h \in HotelSet
        BY <3>1, <4>1, DecisionIsTernary DEF Decision
      <4>2. CASE h \notin HotelSet
        BY <3>1, <4>2
      <4> QED
        BY <4>1, <4>2
    <3> QED
      BY <1>2, <3>1, <3>2 DEF ResultsAreTyped
  <2>6. CASE AttachShadow
    <3>1. results' = [h \in DOMAIN Listings |-> <<>>] /\ UNCHANGED <<batches, vectors, answers>>
      BY <2>6 DEF AttachShadow
    <3> QED
      BY <1>2, <3>1 DEF ResultsAreTyped
  <2>7. CASE EmbeddingRaises \/ RetrieveRaises \/ PlanVerification \/ VerificationRaises
    BY <2>1, <2>7 DEF EmbeddingRaises, RetrieveRaises, PlanVerification, VerificationRaises
  <2>9. CASE Retrieve
    <3>1. DOMAIN vectors' = {} /\ UNCHANGED <<batches, answers, results>>
      BY <2>9 DEF Retrieve
    <3> QED
      BY <1>2, <3>1 DEF ResultsAreTyped
  <2>8. CASE UNCHANGED vars
    BY <2>1, <2>8 DEF vars
  <2> QED
    BY <1>2, <2>2, <2>3, <2>4, <2>5, <2>6, <2>7, <2>8, <2>9 DEF Next, Finished
<1> QED
  BY <1>1, <1>2, CallsStayTyped, PTL DEF Spec

(* A plan, its calls and what they came to fit together in every state,    *)
(* and the calls that have ended are those that were counted as finished.  *)
THEOREM SoftEvidenceTypeOK == Spec => []TypeOK
<1>1. ASSUME PlanIsInjective, CallsAreBounded, CallsAreTyped, ResultsAreTyped PROVE TypeOK
  <2>1. stage \in {"embedding", "verifying"} => ToSet(finished) = {i \in DOMAIN call : call[i] \notin {"waiting", "running"}}
    BY <1>1 DEF CallsAreTyped, EndedCalls
  <2> QED
    BY <1>1, <2>1 DEF PlanIsInjective, CallsAreBounded, CallsAreTyped, ResultsAreTyped, TypeOK
<1> QED
  BY <1>1, EveryCallHasItsPlace, ConcurrencyIsBounded, CallsStayTyped, ResultsStayTyped, PTL

-----------------------------------------------------------------------------
(* The decision policy. *)

(* What a family's outcome has to rest on.                                 *)
Grounded(cs, o) ==
    /\ o.state = "SATISFIED" => \E c \in o.decisive : Supports(cs, c)
    /\ o.state = "VIOLATED" => \E c \in o.decisive : Refutes(cs, c)
    /\ \A c \in o.decisive : Supports(cs, c) \/ Refutes(cs, c) \/ Disputed(cs, c)

LEMMA QuietIsGrounded == \A cs : Grounded(cs, Quiet(cs))
<1> TAKE cs
<1> DEFINE supporting   == {c \in ClaimsOf.quiet : Supports(cs, c)}
           contradicted == {c \in {"Q2", "Q3"} : Refutes(cs, c)}
           blocking     == {c \in {"Q2", "Q3"} : Disputed(cs, c)}
<1>1. CASE contradicted # {} /\ supporting = {}
  BY <1>1 DEF Quiet, Outcome, Grounded
<1>2. CASE supporting # {} /\ blocking = {}
  BY <1>2 DEF Quiet, Outcome, Grounded
<1>3. CASE supporting # {} /\ blocking # {}
  BY <1>3 DEF Quiet, Outcome, Grounded
<1>4. CASE contradicted = {} /\ supporting = {}
  BY <1>4 DEF Quiet, Outcome, Grounded
<1> QED
  BY <1>1, <1>2, <1>3, <1>4

LEMMA RemoteWorkIsGrounded == \A cs : Grounded(cs, RemoteWork(cs))
<1> TAKE cs
<1> DEFINE supporting   == {c \in ClaimsOf.remote_work : Supports(cs, c)}
           contradicted == {c \in {"RW1", "RW2A"} : Refutes(cs, c)}
<1>1. CASE {"RW1", "RW2A"} \subseteq supporting /\ ~Disputed(cs, "RW2B")
  <2>1. RemoteWork(cs).state = "SATISFIED" /\ RemoteWork(cs).decisive = supporting
    BY <1>1 DEF RemoteWork, Outcome
  <2> QED
    BY <1>1, <2>1 DEF Grounded
<1>2. CASE ~({"RW1", "RW2A"} \subseteq supporting /\ ~Disputed(cs, "RW2B"))
  <2>1. CASE contradicted # {} /\ supporting = {}
    BY <1>2, <2>1 DEF RemoteWork, Outcome, Grounded
  <2>2. CASE ~(contradicted # {} /\ supporting = {})
    BY <1>2, <2>2 DEF RemoteWork, Outcome, Grounded
  <2> QED
    BY <2>1, <2>2
<1> QED
  BY <1>1, <1>2

LEMMA FamilyFriendlyIsGrounded == \A cs : Grounded(cs, FamilyFriendly(cs))
<1> TAKE cs
<1> DEFINE supporting == {c \in ClaimsOf.family_friendly : Supports(cs, c)}
           blocked == Disputed(cs, "FAM1") \/ ("FC1" \in DOMAIN cs /\ cs["FC1"].relation = "MIXED")
<1>1. CASE Refutes(cs, "FC1")
  BY <1>1 DEF FamilyFriendly, Outcome, Grounded
<1>2. CASE ~Refutes(cs, "FC1") /\ supporting # {} /\ ~blocked
  BY <1>2 DEF FamilyFriendly, Outcome, Grounded
<1>3. CASE ~Refutes(cs, "FC1") /\ ~(supporting # {} /\ ~blocked)
  <2> DEFINE conflicting == {c \in {"FAM1"} : Disputed(cs, c)}
             o == FamilyFriendly(cs)
  <2>1. CASE supporting # {} /\ blocked
    <3>1. o.state = "UNRESOLVED" /\ o.decisive = supporting \cup conflicting
      BY <1>3, <2>1 DEF FamilyFriendly, Outcome
    <3>2. \A c \in o.decisive : Supports(cs, c) \/ Disputed(cs, c)
      BY <3>1
    <3> QED
      BY <3>1, <3>2 DEF Grounded
  <2>2. CASE supporting = {}
    <3>1. o.state = "UNRESOLVED" /\ o.decisive = {}
      BY <1>3, <2>2 DEF FamilyFriendly, Outcome
    <3> QED
      BY <3>1 DEF Grounded
  <2> QED
    BY <1>3, <2>1, <2>2
<1> QED
  BY <1>1, <1>2, <1>3

LEMMA SingleClaimIsGrounded == \A cs, c : Grounded(cs, SingleClaim(cs, c))
BY DEF SingleClaim, Outcome, Grounded

LEMMA FamilyIsGrounded == \A cs, f : Grounded(cs, FamilyOutcome(cs, f))
<1> TAKE cs, f
<1>1. CASE f = "quiet"
  BY <1>1, QuietIsGrounded DEF FamilyOutcome
<1>2. CASE f = "remote_work"
  BY <1>2, RemoteWorkIsGrounded DEF FamilyOutcome
<1>3. CASE f = "family_friendly"
  BY <1>3, FamilyFriendlyIsGrounded DEF FamilyOutcome
<1>4. CASE f \notin {"quiet", "remote_work", "family_friendly"}
  BY <1>4, SingleClaimIsGrounded DEF FamilyOutcome
<1> QED
  BY <1>1, <1>2, <1>3, <1>4

(* What a decision rests on, of the claims that were evaluated.            *)
LEMMA DecisionsRest ==
    ASSUME NEW constraint, NEW cs
    PROVE  LET d == Decide(constraint, cs) IN
           /\ d.decision = "YES" => \E c \in d.decisive : Supports(cs, c)
           /\ d.decision = "NO" => \E c \in d.decisive : Refutes(cs, c)
           /\ \A c \in d.decisive : Supports(cs, c) \/ Refutes(cs, c) \/ Disputed(cs, c)
<1> DEFINE outcomes == {FamilyOutcome(cs, f) : f \in constraint.families}
           states == {o.state : o \in outcomes}
           d == Decide(constraint, cs)
<1>1. \A o \in outcomes : Grounded(cs, o)
  BY FamilyIsGrounded
<1>2. d.decision = "YES" => states = {"SATISFIED"}
  BY DEF Decide, Combine
<1>3. d.decision = "NO" => "VIOLATED" \in states
  BY DEF Decide, Combine
<1>4. d.decisive = UNION {o.decisive : o \in outcomes}
  BY DEF Decide
<1> HIDE DEF outcomes, d
<1>5. d.decision = "YES" => \E c \in d.decisive : Supports(cs, c)
  <2> SUFFICES ASSUME d.decision = "YES" PROVE \E c \in d.decisive : Supports(cs, c)
    OBVIOUS
  <2>1. PICK o \in outcomes : o.state = "SATISFIED"
    BY <1>2
  <2> QED
    BY <1>1, <1>4, <2>1 DEF Grounded
<1>6. d.decision = "NO" => \E c \in d.decisive : Refutes(cs, c)
  <2> SUFFICES ASSUME d.decision = "NO" PROVE \E c \in d.decisive : Refutes(cs, c)
    OBVIOUS
  <2>1. PICK o \in outcomes : o.state = "VIOLATED"
    BY <1>3
  <2> QED
    BY <1>1, <1>4, <2>1 DEF Grounded
<1>7. \A c \in d.decisive : Supports(cs, c) \/ Refutes(cs, c) \/ Disputed(cs, c)
  BY <1>1, <1>4 DEF Grounded
<1> QED
  BY <1>5, <1>6, <1>7 DEF d

(* A preference is called met only on a supporting claim whose evidence    *)
(* was retrieved completely, and unmet only on a contradicting one whose   *)
(* retrieval did not fail, whatever the other claims and families say      *)
(* (decide_constraint).                                                    *)
THEOREM DecisionsHaveGrounds ==
    ASSUME NEW constraint, NEW cs
    PROVE  LET d == Decide(constraint, cs) IN
           /\ d.decision = "YES" =>
                 \E c \in d.decisive : cs[c].status = "SUCCESS" /\ cs[c].relation = "SUPPORT"
           /\ d.decision = "NO" =>
                 \E c \in d.decisive : cs[c].status # "FAILED" /\ cs[c].relation = "CONTRADICT"
BY DecisionsRest DEF Supports, Refutes

LEMMA AggregateVotes ==
    ASSUME NEW items
    PROVE  /\ Aggregate(items) = "SUPPORT" => "SUPPORT" \in ToSet(items)
           /\ Aggregate(items) = "CONTRADICT" => "CONTRADICT" \in ToSet(items)
           /\ Aggregate(items) = "MIXED" => "CONTRADICT" \in ToSet(items)
<1> DEFINE votes == {items[i] : i \in DOMAIN items} \cap {"SUPPORT", "CONTRADICT"}
<1>1. votes = ToSet(items) \cap {"SUPPORT", "CONTRADICT"}
  BY DEF ToSet
<1>2. CASE votes = {"SUPPORT", "CONTRADICT"}
  BY <1>1, <1>2
<1>3. CASE votes = {"SUPPORT"}
  <2>1. Aggregate(items) = "SUPPORT"
    BY <1>3 DEF Aggregate
  <2> QED
    BY <1>1, <1>3, <2>1
<1>4. CASE votes = {"CONTRADICT"}
  <2>1. Aggregate(items) = "CONTRADICT"
    BY <1>4 DEF Aggregate
  <2> QED
    BY <1>1, <1>4, <2>1
<1>5. CASE votes = {}
  <2>1. Aggregate(items) = "NOT_ENOUGH_EVIDENCE"
    BY <1>5 DEF Aggregate
  <2> QED
    BY <2>1
<1> QED
  BY <1>2, <1>3, <1>4, <1>5

(* The evidence about a claim, settled or verified.                        *)
LEMMA ItemsComeFrom ==
    ASSUME NEW h, NEW c, contexts[h][c].free \in Nat,
           contexts[h][c].items \in Seq({"SUPPORT", "NOT_ENOUGH_EVIDENCE"})
    PROVE  \A x \in ToSet(Items(h, c)) : x \in ToSet(contexts[h][c].items) \/ contexts[h][c].free > 0
<1> DEFINE a == contexts[h][c].items
           n == contexts[h][c].free
           b == VerifiedItems(h, c)
           T == ToSet(a) \cup ToSet(b)
<1>1. DOMAIN b = 1 .. n /\ b = [r \in 1 .. n |-> b[r]]
  BY DEF VerifiedItems
<1> HIDE DEF b
<1>2. b \in Seq(T)
  <2>1. \A r \in 1 .. n : b[r] \in T
    BY <1>1 DEF ToSet
  <2>2. n \in Nat
    OBVIOUS
  <2> HIDE DEF T, n
  <2> QED
    BY <1>1, <2>1, <2>2
<1>3. a \in Seq(T)
  BY LenProperties DEF ToSet
<1>4. Items(h, c) = a \o b
  BY DEF Items, b
<1> HIDE DEF a, T
<1>5. a \o b \in Seq(T)
  BY <1>2, <1>3, ConcatProperties
<1>6. ToSet(a \o b) \subseteq T
  BY <1>5, ListOf
<1>7. ToSet(b) # {} => n > 0
  BY <1>1 DEF ToSet
<1> QED
  BY <1>4, <1>6, <1>7 DEF T, a

LEMMA CompleteMeansAll ==
    ASSUME NEW h, RetrievalStatus(h) = "SUCCESS"
    PROVE  batches[Query] /\ \A b \in HotelBatches(h) : batches[b]
BY DEF RetrievalStatus

(* The grounds of the decisions about one listing.                         *)
DecisionGrounds(h, i) ==
    LET d == Decision(h, i)
        said(relation) == \E c \in d.decisive : relation \in ToSet(Items(h, c))
    IN  /\ d.decision = "YES" =>
              /\ batches[Query] /\ \A b \in HotelBatches(h) : batches[b]
              /\ said("SUPPORT")
        /\ d.decision = "NO" => said("CONTRADICT")
        /\ \A c \in d.decisive :
              c \in Claims /\ (NeedsGuestReport(c) => ToSet(Listings[h].pros \o Listings[h].cons) \ {""} # {})

LEMMA SettledDecisionsHaveGrounds ==
    ASSUME ContextsSettle, stage \notin {"embedding", "retrieval", "raised"}, NEW h \in HotelSet, NEW i \in Supported
    PROVE  DecisionGrounds(h, i)
<1> DEFINE cs == ClaimResults(h)
           d == Decision(h, i)
<1>1. d = Decide(request[i], cs)
  BY DEF Decision
<1>2. /\ d.decision = "YES" => \E c \in d.decisive : Supports(cs, c)
      /\ d.decision = "NO" => \E c \in d.decisive : Refutes(cs, c)
      /\ \A c \in d.decisive : Supports(cs, c) \/ Refutes(cs, c) \/ Disputed(cs, c)
  <2> HIDE DEF cs, d
  <2> QED
    BY <1>1, DecisionsRest
<1>3. DOMAIN cs = Claims
      /\ \A c \in Claims : cs[c].relation = Aggregate(Items(h, c)) /\ cs[c].status = contexts[h][c].status
  BY DEF ClaimResults
<1> HIDE DEF cs, d
<1>4. \A c \in Claims : Settles(h, c, contexts[h][c]) /\ contexts[h][c].status = RetrievalStatus(h)
  BY DEF ContextsSettle
<1>5. ASSUME NEW c, Supports(cs, c)
      PROVE  /\ c \in Claims /\ "SUPPORT" \in ToSet(Items(h, c))
             /\ batches[Query] /\ \A b \in HotelBatches(h) : batches[b]
  BY <1>3, <1>4, <1>5, AggregateVotes, CompleteMeansAll DEF Supports
<1>6. ASSUME NEW c, Refutes(cs, c) PROVE c \in Claims /\ "CONTRADICT" \in ToSet(Items(h, c))
  BY <1>3, <1>6, AggregateVotes DEF Refutes
<1>7. ASSUME NEW c, Disputed(cs, c) PROVE c \in Claims /\ "CONTRADICT" \in ToSet(Items(h, c))
  BY <1>3, <1>7, AggregateVotes DEF Disputed
<1>8. ASSUME NEW c \in d.decisive
      PROVE  c \in Claims /\ (NeedsGuestReport(c) => ToSet(Listings[h].pros \o Listings[h].cons) \ {""} # {})
  <2>1. c \in Claims /\ ("SUPPORT" \in ToSet(Items(h, c)) \/ "CONTRADICT" \in ToSet(Items(h, c)))
    BY <1>2, <1>5, <1>6, <1>7
  <2>2. Settles(h, c, contexts[h][c])
    BY <1>4, <2>1
  <2>3. contexts[h][c].items \in Seq({"SUPPORT", "NOT_ENOUGH_EVIDENCE"}) /\ contexts[h][c].free \in Nat
    BY <2>2 DEF Settles
  <2>4. "CONTRADICT" \notin ToSet(contexts[h][c].items)
    BY <2>3, LenProperties DEF ToSet
  <2>5. contexts[h][c].free > 0 \/ "SUPPORT" \in ToSet(contexts[h][c].items)
    BY <2>1, <2>3, <2>4, ItemsComeFrom
  <2> QED
    BY <2>1, <2>2, <2>5 DEF Settles
<1>9. d.decision = "YES" => /\ batches[Query] /\ \A b \in HotelBatches(h) : batches[b]
                            /\ \E c \in d.decisive : "SUPPORT" \in ToSet(Items(h, c))
  BY <1>2, <1>5
<1>10. d.decision = "NO" => \E c \in d.decisive : "CONTRADICT" \in ToSet(Items(h, c))
  BY <1>2, <1>6
<1> QED
  BY <1>8, <1>9, <1>10 DEF DecisionGrounds, d

(* What is applied is what was decided, or nothing.                        *)
AppliedIsDecided ==
    stage = "applied" =>
        \/ results = [h \in DOMAIN Listings |-> <<>>]
        \/ results = [h \in DOMAIN Listings |->
                         IF h \in HotelSet THEN [i \in Supported |-> Decision(h, i).decision] ELSE <<>>]

LEMMA DecisionStands ==
    ASSUME UNCHANGED <<request, contexts, answers>>
    PROVE  Supported' = Supported /\ \A h, i : Decision(h, i)' = Decision(h, i)
<1>1. Claims' = Claims
  BY DEF Claims
<1>2. \A h, c : VerifiedItems(h, c)' = VerifiedItems(h, c)
  BY DEF VerifiedItems
<1>3. \A h, c : Items(h, c)' = Items(h, c)
  BY <1>2 DEF Items
<1>4. \A h : ClaimResults(h)' = ClaimResults(h)
  BY <1>1, <1>3 DEF ClaimResults
<1> QED
  BY <1>4 DEF Supported, Decision

LEMMA WhatIsAppliedWasDecided == Spec => []AppliedIsDecided
<1>1. Init => AppliedIsDecided
  BY DEF Init, AppliedIsDecided
<1>2. ASSUME AppliedIsDecided, NoOrphanedCalls, [Next]_vars PROVE AppliedIsDecided'
  <2>1. ASSUME NEW i \in Waiting, Begin(i) PROVE stage' # "applied"
    BY <1>2, <2>1 DEF NoOrphanedCalls, Begin
  <2>2. ASSUME NEW i, Embed(i) \/ Verify(i) PROVE stage' # "applied"
    BY <2>2 DEF Embed, Verify, End
  <2>3. CASE stage' # "applied"
    BY <2>3 DEF AppliedIsDecided
  <2>4. CASE ApplyAuthoritative
    BY <2>4, DecisionStands DEF ApplyAuthoritative, AppliedIsDecided
  <2>5. CASE AttachShadow
    BY <2>5 DEF AttachShadow, AppliedIsDecided
  <2>6. CASE UNCHANGED vars
    BY <1>2, <2>6, DecisionStands DEF vars, AppliedIsDecided
  <2>7. CASE \/ EmbeddingDone \/ EmbeddingRaises \/ Retrieve \/ RetrieveRaises
             \/ PlanVerification \/ VerificationDone \/ VerificationRaises
    BY <2>3, <2>7 DEF EmbeddingDone, EmbeddingRaises, Retrieve, RetrieveRaises, PlanVerification,
                      VerificationDone, VerificationRaises
  <2> QED
    BY <1>2, <2>1, <2>2, <2>3, <2>4, <2>5, <2>6, <2>7 DEF Next, Finished
<1> QED
  BY <1>1, <1>2, NothingIsOrphaned, PTL DEF Spec

(* A technical failure never becomes a verdict, and no listing is ruled    *)
(* out by anything but evidence that was retrieved about it: for any       *)
(* number of listings, texts, scores, requests and failing calls.          *)
THEOREM VerdictsAreGrounded == Spec => []VerdictsHaveGrounds
<1>1. ASSUME ContextsSettle, AppliedIsDecided PROVE VerdictsHaveGrounds
  <2>1. ASSUME stage = "done", NEW h \in HotelSet, NEW c \in Claims, "SUPPORT" \in ToSet(contexts[h][c].items)
        PROVE  \E f \in FacilitiesOf(Listings[h]) : f.name \in Aliases(c)
    BY <1>1, <2>1 DEF ContextsSettle, Settles
  <2>2. ASSUME stage = "done", NEW h \in HotelSet, NEW i \in Supported PROVE DecisionGrounds(h, i)
    BY <1>1, <2>2, SettledDecisionsHaveGrounds
  <2>3. ASSUME stage = "applied", NEW h \in DOMAIN results,
               FailsConstraintResolution([constraints |-> Adapted(request)], [results |-> results[h]])
        PROVE  \E i \in Supported, c \in Claims :
                  \/ request[i].priority = "must" /\ "CONTRADICT" \in ToSet(Items(h, c))
                  \/ request[i].priority = "forbidden" /\ "SUPPORT" \in ToSet(Items(h, c))
    <3>1. PICK i \in DOMAIN results[h] : results[h][i] = ViolatingDecision(Adapted(request)[i])
      BY <2>3 DEF FailsConstraintResolution
    <3>2. /\ h \in HotelSet /\ i \in Supported /\ results[h][i] = Decision(h, i).decision
      <4>1. CASE results = [g \in DOMAIN Listings |-> <<>>]
        BY <3>1, <4>1
      <4>2. CASE results = [g \in DOMAIN Listings |->
                               IF g \in HotelSet THEN [j \in Supported |-> Decision(g, j).decision] ELSE <<>>]
        BY <3>1, <4>2
      <4> QED
        BY <1>1, <2>3, <4>1, <4>2 DEF AppliedIsDecided
    <3>3. Adapted(request)[i] = [priority |-> request[i].priority, fields |-> <<>>]
      BY <3>2 DEF Adapted, Supported
    <3>4. Decision(h, i).decision \in Ternary
      BY DecisionIsTernary DEF Decision
    <3>5. \/ request[i].priority = "must" /\ Decision(h, i).decision = "NO"
          \/ request[i].priority = "forbidden" /\ Decision(h, i).decision = "YES"
      <4>1. ToSet(<<>>) = {}
        BY DEF ToSet
      <4> QED
        BY <3>1, <3>2, <3>3, <3>4, <4>1 DEF ViolatingDecision, Ternary
    <3>6. DecisionGrounds(h, i)
      BY <1>1, <2>3, <3>2, SettledDecisionsHaveGrounds
    <3> QED
      BY <3>2, <3>5, <3>6 DEF DecisionGrounds
  <2> QED
    BY <2>1, <2>2, <2>3 DEF VerdictsHaveGrounds, DecisionGrounds
<1> QED
  BY <1>1, ContextsAreSettled, WhatIsAppliedWasDecided, PTL
=============================================================================
