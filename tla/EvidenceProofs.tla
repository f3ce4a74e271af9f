---------------------------- MODULE EvidenceProofs ----------------------------
(***************************************************************************)
(* A rejection and a no have their evidence, and so have a strong match    *)
(* and a yes; what is offered is taken; and nothing is known against what  *)
(* is shown, for any payloads, phrases, requests and answers of the LLM.   *)
(***************************************************************************)
EXTENDS AnswerProofs

-----------------------------------------------------------------------------
(* The texts of a listing.  What is told of a candidate, P, holds every     *)
(* phrase of its signals, and of what is put before an LLM.                *)

IsSignal(s, P) == Among(s.text) \subseteq P /\ s.says = Says(s.text)

Signal(s, P) == s.text \subseteq P /\ s.says = Says(s.text)

GroundedIn(P, l) ==
    /\ IsList(l.signals)
    /\ \A s \in ToSet(l.signals) : IsSignal(s, P)
    /\ Among(UNION l.evidence) \subseteq P

LEMMA ShortLists ==
    ASSUME NEW a, NEW b
    PROVE  /\ IsList(<<>>) /\ ToSet(<<>>) = {}
           /\ IsList(<<a>>) /\ ToSet(<<a>>) = {a}
           /\ IsList(<<a, b>>) /\ ToSet(<<a, b>>) = {a, b}
<1>1. <<>> \in Seq({a, b}) /\ <<a>> \in Seq({a, b}) /\ <<a, b>> \in Seq({a, b})
  OBVIOUS
<1>2. ToSet(<<>>) = {} /\ ToSet(<<a>>) = {a} /\ ToSet(<<a, b>>) = {a, b}
  BY DEF ToSet
<1> QED
  BY <1>1, <1>2, SeqIsList

LEMMA SignalsAreTexts ==
    ASSUME NEW place, NEW texts, IsList(texts)
    PROVE  /\ IsList(Signals(place, texts))
           /\ \A s \in ToSet(Signals(place, texts)) : Signal(s, UNION ToSet(texts))
<1> DEFINE all == [i \in DOMAIN texts |-> [place |-> place, text |-> texts[i], says |-> Says(texts[i])]]
           positions == {i \in DOMAIN all : all[i].text # {}}
<1>1. IsList(all) /\ DOMAIN all = DOMAIN texts
  BY SamePlacesIsList
<1>2. ASSUME NEW i \in DOMAIN texts PROVE Signal(all[i], UNION ToSet(texts))
  <2>1. texts[i] \in ToSet(texts)
    BY DEF ToSet
  <2> QED
    BY <2>1 DEF Signal
<1>3. positions \in SUBSET DOMAIN all
  OBVIOUS
<1>4. Signals(place, texts) = Kept(all, positions)
  BY DEF Signals, Worded
<1> HIDE DEF all, positions
<1>5. IsList(Kept(all, positions)) /\ ToSet(Kept(all, positions)) = {all[i] : i \in positions}
  BY <1>1, <1>3, KeptIsList
<1> QED
  BY <1>1, <1>2, <1>3, <1>4, <1>5

LEMMA FacilityTextsAre ==
    ASSUME NEW facilities, IsList(facilities)
    PROVE  /\ IsList(FacilityTexts(facilities))
           /\ ToSet(FacilityTexts(facilities)) = UNION {{f.name, f.overview} : f \in ToSet(facilities)}
<1> DEFINE pairs == [i \in DOMAIN facilities |-> <<facilities[i].name, facilities[i].overview>>]
<1>1. IsList(pairs) /\ DOMAIN pairs = DOMAIN facilities
  BY SamePlacesIsList
<1>2. \A i \in DOMAIN facilities : pairs[i] = <<facilities[i].name, facilities[i].overview>>
  OBVIOUS
<1>3. FacilityTexts(facilities) = FlattenSeq(pairs)
  BY DEF FacilityTexts
<1> HIDE DEF pairs
<1>4. ToSet(pairs) = {<<f.name, f.overview>> : f \in ToSet(facilities)}
  BY <1>1, <1>2 DEF ToSet
<1>5. \A f : IsList(<<f.name, f.overview>>) /\ ToSet(<<f.name, f.overview>>) = {f.name, f.overview}
  BY ShortLists
<1>6. \A x \in ToSet(pairs) : IsList(x)
  BY <1>4, <1>5
<1>7. IsList(FlattenSeq(pairs)) /\ ToSet(FlattenSeq(pairs)) = UNION {ToSet(x) : x \in ToSet(pairs)}
  BY <1>1, <1>6, FlattenIsList
<1>8. UNION {ToSet(x) : x \in ToSet(pairs)} = UNION {{f.name, f.overview} : f \in ToSet(facilities)}
  <2>1. {ToSet(x) : x \in ToSet(pairs)} = {{f.name, f.overview} : f \in ToSet(facilities)}
    <3>1. ASSUME NEW t \in {ToSet(x) : x \in ToSet(pairs)} PROVE t \in {{f.name, f.overview} : f \in ToSet(facilities)}
      BY <1>4, <1>5
    <3>2. ASSUME NEW f \in ToSet(facilities) PROVE {f.name, f.overview} \in {ToSet(x) : x \in ToSet(pairs)}
      <4>1. <<f.name, f.overview>> \in ToSet(pairs)
        BY <1>4
      <4>2. ToSet(<<f.name, f.overview>>) = {f.name, f.overview}
        BY <1>5
      <4> QED
        BY <4>1, <4>2
    <3> QED
      BY <3>1, <3>2, Zenon
  <2> QED
    BY <2>1
<1> QED
  BY <1>3, <1>7, <1>8

LEMMA OptionTextsAre ==
    ASSUME NEW option, IsList(option.choices)
    PROVE  /\ IsList(OptionTexts(option))
           /\ ToSet(OptionTexts(option)) =
                 {option.name} \cup ToSet(option.choices) \cup IF option.free THEN {{"free cancellation"}} ELSE {}
<1> DEFINE free == IF option.free THEN <<{"free cancellation"}>> ELSE <<>>
<1>1. IsList(free) /\ ToSet(free) = IF option.free THEN {{"free cancellation"}} ELSE {}
  BY ShortLists
<1> HIDE DEF free
<1>2. IsList(<<option.name>>) /\ ToSet(<<option.name>>) = {option.name}
  BY ShortLists
<1>3. /\ IsList(<<option.name>> \o option.choices)
      /\ ToSet(<<option.name>> \o option.choices) = {option.name} \cup ToSet(option.choices)
  BY <1>2, ConcatIsList
<1> DEFINE named == <<option.name>> \o option.choices
<1>4. OptionTexts(option) = named \o free
  BY DEF OptionTexts, free
<1> HIDE DEF named
<1>5. IsList(named \o free) /\ ToSet(named \o free) = ToSet(named) \cup ToSet(free)
  BY <1>1, <1>3, ConcatIsList DEF named
<1>6. ToSet(named) = {option.name} \cup ToSet(option.choices)
  BY <1>3 DEF named
<1> QED
  BY <1>1, <1>4, <1>5, <1>6, Zenon

LEMMA RoomTextsAre ==
    ASSUME NEW room, IsRoom(room)
    PROVE  /\ IsList(RoomTexts(room))
           /\ ToSet(RoomTexts(room)) =
                 {room.name} \cup ToSet(room.beds) \cup ToSet(FacilityTexts(room.facilities))
                     \cup UNION {ToSet(OptionTexts(o)) : o \in ToSet(room.options)}
<1> DEFINE options == [j \in DOMAIN room.options |-> OptionTexts(room.options[j])]
           told == FlattenSeq(options)
           named == <<room.name>> \o room.beds
           furnished == named \o FacilityTexts(room.facilities)
<1>1. IsList(room.beds) /\ IsList(room.facilities) /\ IsList(room.options)
      /\ \A option \in ToSet(room.options) : IsList(option.choices)
  BY DEF IsRoom
<1>2. IsList(options) /\ DOMAIN options = DOMAIN room.options
  BY <1>1, SamePlacesIsList
<1>3. ToSet(options) = {OptionTexts(o) : o \in ToSet(room.options)}
  BY <1>2 DEF ToSet
<1>4. RoomTexts(room) = furnished \o told
  BY Zenon DEF RoomTexts
<1>5. \A x \in ToSet(options) : IsList(x)
  BY <1>1, <1>3, OptionTextsAre
<1> HIDE DEF options
<1>6. IsList(told) /\ ToSet(told) = UNION {ToSet(x) : x \in ToSet(options)}
  BY <1>2, <1>5, FlattenIsList
<1>7. UNION {ToSet(x) : x \in ToSet(options)} = UNION {ToSet(OptionTexts(o)) : o \in ToSet(room.options)}
  BY <1>3
<1>8. IsList(named) /\ ToSet(named) = {room.name} \cup ToSet(room.beds)
  <2>1. IsList(<<room.name>>) /\ ToSet(<<room.name>>) = {room.name}
    BY ShortLists
  <2>2. IsList(named) /\ ToSet(named) = ToSet(<<room.name>>) \cup ToSet(room.beds)
    BY <1>1, <2>1, ConcatIsList
  <2> QED
    BY <2>1, <2>2, Zenon
<1> HIDE DEF named
<1>9. /\ IsList(furnished)
      /\ ToSet(furnished) = {room.name} \cup ToSet(room.beds) \cup ToSet(FacilityTexts(room.facilities))
  <2>1. IsList(FacilityTexts(room.facilities))
    BY <1>1, FacilityTextsAre
  <2>2. IsList(furnished) /\ ToSet(furnished) = ToSet(named) \cup ToSet(FacilityTexts(room.facilities))
    BY <1>8, <2>1, ConcatIsList
  <2> QED
    BY <1>8, <2>2, Zenon
<1> HIDE DEF told, furnished
<1>10. IsList(furnished \o told) /\ ToSet(furnished \o told) = ToSet(furnished) \cup ToSet(told)
  BY <1>6, <1>9, ConcatIsList
<1> QED
  BY <1>4, <1>6, <1>7, <1>9, <1>10, Zenon

(* Lists of signals taken from phrases of P. *)
TakenFrom(signals, P) == IsList(signals) /\ \A s \in ToSet(signals) : Signal(s, P)

LEMMA SignalsTaken ==
    ASSUME NEW place, NEW texts, IsList(texts), NEW P, UNION ToSet(texts) \subseteq P
    PROVE  TakenFrom(Signals(place, texts), P)
BY SignalsAreTexts DEF TakenFrom, Signal

LEMMA JoinedSignalsTaken ==
    ASSUME NEW P, NEW s, NEW t, TakenFrom(s, P), TakenFrom(t, P)
    PROVE  TakenFrom(s \o t, P)
<1>1. IsList(s \o t) /\ ToSet(s \o t) = ToSet(s) \cup ToSet(t)
  BY ConcatIsList DEF TakenFrom
<1> DEFINE c == s \o t
<1> HIDE DEF c
<1>2. TakenFrom(c, P)
  BY <1>1 DEF TakenFrom, c
<1> QED
  BY <1>2 DEF c

LEMMA FlattenedSignalsTaken ==
    ASSUME NEW P, NEW seqs, IsList(seqs), \A x \in ToSet(seqs) : TakenFrom(x, P)
    PROVE  TakenFrom(FlattenSeq(seqs), P)
<1>1. \A x \in ToSet(seqs) : IsList(x)
  BY DEF TakenFrom
<1>2. IsList(FlattenSeq(seqs)) /\ ToSet(FlattenSeq(seqs)) = UNION {ToSet(x) : x \in ToSet(seqs)}
  BY <1>1, FlattenIsList
<1> QED
  BY <1>2 DEF TakenFrom

(* The parts of a listing whose phrases it has. *)
LEMMA PhrasesOfParts ==
    ASSUME NEW listing
    PROVE  /\ listing.name \subseteq ListingPhrases(listing)
           /\ listing.finePrint \subseteq ListingPhrases(listing)
           /\ UNION ToSet(listing.description) \subseteq ListingPhrases(listing)
           /\ UNION ToSet(FacilityTexts(listing.facilities)) \subseteq ListingPhrases(listing)
           /\ \A h \in ToSet(listing.highlights) : UNION ToSet(h) \subseteq ListingPhrases(listing)
           /\ \A p \in ToSet(listing.policies) : p.title \cup p.content \subseteq ListingPhrases(listing)
           /\ \A r \in ToSet(listing.rooms) : UNION ToSet(RoomTexts(r)) \subseteq ListingPhrases(listing)
<1> DEFINE P == ListingPhrases(listing)
<1>1. ASSUME NEW t \in {listing.name, listing.finePrint} \cup ToSet(listing.description) PROVE t \subseteq P
  BY DEF ListingPhrases
<1>2. ASSUME NEW t \in ToSet(FacilityTexts(listing.facilities)) PROVE t \subseteq P
  BY DEF ListingPhrases
<1>3. ASSUME NEW h \in ToSet(listing.highlights), NEW t \in ToSet(h) PROVE t \subseteq P
  BY DEF ListingPhrases
<1>4. ASSUME NEW p \in ToSet(listing.policies), NEW t \in {p.title, p.content} PROVE t \subseteq P
  BY DEF ListingPhrases
<1>5. ASSUME NEW r \in ToSet(listing.rooms), NEW t \in ToSet(RoomTexts(r)) PROVE t \subseteq P
  BY DEF ListingPhrases
<1> HIDE DEF P
<1>6. listing.name \subseteq P /\ listing.finePrint \subseteq P /\ UNION ToSet(listing.description) \subseteq P
  BY <1>1
<1>7. UNION ToSet(FacilityTexts(listing.facilities)) \subseteq P
  BY <1>2
<1>8. \A h \in ToSet(listing.highlights) : UNION ToSet(h) \subseteq P
  BY <1>3
<1>9. \A p \in ToSet(listing.policies) : p.title \cup p.content \subseteq P
  BY <1>4
<1>10. \A r \in ToSet(listing.rooms) : UNION ToSet(RoomTexts(r)) \subseteq P
  BY <1>5
<1> QED
  BY <1>6, <1>7, <1>8, <1>9, <1>10 DEF P

LEMMA ListingSignalsTaken ==
    ASSUME NEW listing, IsNormalized(listing)
    PROVE  TakenFrom(CollectListingSignals(listing), ListingPhrases(listing))
<1> DEFINE P == ListingPhrases(listing)
           named == Signals("name", <<listing.name>>)
           described == Signals("description", listing.description)
           printed == Signals("fine_print", <<listing.finePrint>>)
           equipped == Signals("facilities", FacilityTexts(listing.facilities))
           room(i) == Signals("rooms", RoomTexts(listing.rooms[i]))
           rooms == [i \in DOMAIN listing.rooms |-> room(i)]
           praised == Signals("highlights", FlattenSeq(listing.highlights))
           policies == [i \in DOMAIN listing.policies |-> <<listing.policies[i].title, listing.policies[i].content>>]
           ruled == Signals("policies", FlattenSeq(policies))
<1>1. /\ IsList(listing.description) /\ IsList(listing.facilities) /\ IsList(listing.policies)
      /\ IsList(listing.rooms) /\ \A x \in ToSet(listing.rooms) : IsRoom(x)
      /\ IsList(listing.highlights) /\ \A highlight \in ToSet(listing.highlights) : IsList(highlight)
  BY DEF IsNormalized
<1>2. TakenFrom(named, P) /\ TakenFrom(printed, P)
  <2>1. ASSUME NEW place, NEW text, text \subseteq P PROVE TakenFrom(Signals(place, <<text>>), P)
    <3>1. IsList(<<text>>) /\ ToSet(<<text>>) = {text}
      BY ShortLists
    <3>2. UNION ToSet(<<text>>) \subseteq P
      BY <2>1, <3>1
    <3> QED
      BY <3>1, <3>2, SignalsTaken
  <2> QED
    BY <2>1, PhrasesOfParts
<1>3. TakenFrom(described, P) /\ TakenFrom(equipped, P)
  BY <1>1, PhrasesOfParts, FacilityTextsAre, SignalsTaken
<1>4. TakenFrom(FlattenSeq(rooms), P)
  <2>1. IsList(rooms) /\ DOMAIN rooms = DOMAIN listing.rooms
    BY <1>1, SamePlacesIsList
  <2>2. ASSUME NEW x \in ToSet(rooms) PROVE TakenFrom(x, P)
    <3>1. PICK i \in DOMAIN listing.rooms : x = room(i)
      BY <2>1 DEF ToSet
    <3>2. listing.rooms[i] \in ToSet(listing.rooms)
      BY DEF ToSet
    <3>3. IsList(RoomTexts(listing.rooms[i])) /\ UNION ToSet(RoomTexts(listing.rooms[i])) \subseteq P
      BY <1>1, <3>2, RoomTextsAre, PhrasesOfParts
    <3> QED
      BY <3>1, <3>3, SignalsTaken
  <2> QED
    BY <2>1, <2>2, FlattenedSignalsTaken
<1>5. TakenFrom(praised, P)
  <2>1. /\ IsList(FlattenSeq(listing.highlights))
        /\ ToSet(FlattenSeq(listing.highlights)) = UNION {ToSet(x) : x \in ToSet(listing.highlights)}
    BY <1>1, FlattenIsList
  <2>2. UNION ToSet(FlattenSeq(listing.highlights)) \subseteq P
    BY <2>1, PhrasesOfParts
  <2> QED
    BY <2>1, <2>2, SignalsTaken
<1>6. TakenFrom(ruled, P)
  <2>1. IsList(policies) /\ DOMAIN policies = DOMAIN listing.policies
    BY <1>1, SamePlacesIsList
  <2>2. ASSUME NEW x \in ToSet(policies) PROVE IsList(x) /\ UNION ToSet(x) \subseteq P
    <3>1. PICK i \in DOMAIN listing.policies : x = <<listing.policies[i].title, listing.policies[i].content>>
      BY <2>1 DEF ToSet
    <3>2. listing.policies[i] \in ToSet(listing.policies)
      BY DEF ToSet
    <3>3. listing.policies[i].title \cup listing.policies[i].content \subseteq P
      BY <3>2, PhrasesOfParts
    <3>4. IsList(x) /\ ToSet(x) = {listing.policies[i].title, listing.policies[i].content}
      BY <3>1, ShortLists
    <3> QED
      BY <3>3, <3>4
  <2> HIDE DEF policies
  <2>3. IsList(FlattenSeq(policies)) /\ ToSet(FlattenSeq(policies)) = UNION {ToSet(x) : x \in ToSet(policies)}
    BY <2>1, <2>2, FlattenIsList
  <2>4. UNION ToSet(FlattenSeq(policies)) \subseteq P
    BY <2>2, <2>3
  <2> QED
    BY <2>3, <2>4, SignalsTaken
<1> DEFINE first == (named \o described) \o printed
           second == (first \o equipped) \o FlattenSeq(rooms)
           all == (second \o praised) \o ruled
<1>7. CollectListingSignals(listing) = all
  BY Zenon DEF CollectListingSignals
<1> HIDE DEF P, named, described, printed, equipped, rooms, praised, ruled
<1>8. TakenFrom(named \o described, P)
  BY <1>2, <1>3, JoinedSignalsTaken, Zenon
<1>9. TakenFrom(first, P)
  BY <1>2, <1>8, JoinedSignalsTaken, Zenon
<1>10. TakenFrom(first \o equipped, P)
  BY <1>3, <1>9, JoinedSignalsTaken, Zenon
<1>11. TakenFrom(second, P)
  BY <1>4, <1>10, JoinedSignalsTaken, Zenon
<1>12. TakenFrom(second \o praised, P)
  BY <1>5, <1>11, JoinedSignalsTaken, Zenon
<1>13. TakenFrom(all, P)
  BY <1>6, <1>12, JoinedSignalsTaken, Zenon
<1> QED
  BY <1>7, <1>13 DEF P

(* A candidate is told from the payload if the listing's phrases are.      *)
LEMMA CandidateIsTold ==
    ASSUME NEW listing, IsNormalized(listing), NEW P, Among(ListingPhrases(listing)) \subseteq P,
           NEW of, NEW offered
    PROVE  /\ GroundedIn(P, Candidate(listing, of, offered))
           /\ Candidate(listing, of, offered).of = of
           /\ Candidate(listing, of, offered).offered = offered
<1> DEFINE signals == CollectListingSignals(listing)
           l == Candidate(listing, of, offered)
<1>1. TakenFrom(signals, ListingPhrases(listing))
  BY ListingSignalsTaken
<1>2. l.signals = signals /\ l.evidence = PrepareListingEvidence(signals) /\ l.of = of /\ l.offered = offered
  BY DEF Candidate
<1> HIDE DEF signals, l
<1>3. \A s \in ToSet(signals) : s.text \subseteq ListingPhrases(listing) /\ s.says = Says(s.text)
  BY <1>1 DEF TakenFrom, Signal
<1>4. ASSUME NEW text \in PrepareListingEvidence(signals) PROVE text \subseteq ListingPhrases(listing)
  <2>1. PICK j \in DOMAIN signals : text = signals[j].text
    BY DEF PrepareListingEvidence
  <2>2. signals[j] \in ToSet(signals)
    BY DEF ToSet
  <2> QED
    BY <1>3, <2>1, <2>2
<1>5. Among(UNION l.evidence) \subseteq P
  BY <1>2, <1>4 DEF Among
<1>6. \A s \in ToSet(signals) : IsSignal(s, P)
  BY <1>3 DEF IsSignal, Among
<1>7. GroundedIn(P, l)
  BY <1>1, <1>2, <1>5, <1>6 DEF GroundedIn, TakenFrom
<1> QED
  BY <1>2, <1>7 DEF l

LEMMA PhrasesWithin ==
    ASSUME NEW listing, NEW P,
           listing.name \subseteq P, listing.finePrint \subseteq P,
           UNION ToSet(listing.description) \subseteq P,
           UNION ToSet(FacilityTexts(listing.facilities)) \subseteq P,
           \A h \in ToSet(listing.highlights) : UNION ToSet(h) \subseteq P,
           \A p \in ToSet(listing.policies) : p.title \cup p.content \subseteq P,
           \A r \in ToSet(listing.rooms) : UNION ToSet(RoomTexts(r)) \subseteq P
    PROVE  ListingPhrases(listing) \subseteq P
<1> DEFINE T == {listing.name, listing.finePrint} \cup ToSet(listing.description)
                    \cup ToSet(FacilityTexts(listing.facilities))
           highlights == UNION {ToSet(h) : h \in ToSet(listing.highlights)}
           policies == UNION {{p.title, p.content} : p \in ToSet(listing.policies)}
           rooms == UNION {ToSet(RoomTexts(r)) : r \in ToSet(listing.rooms)}
<1>1. ListingPhrases(listing) = UNION (((T \cup highlights) \cup policies) \cup rooms)
  BY DEF ListingPhrases
<1>2. \A t \in T : t \subseteq P
  OBVIOUS
<1>3. \A t \in highlights : t \subseteq P
  OBVIOUS
<1>4. \A t \in policies : t \subseteq P
  OBVIOUS
<1>5. \A t \in rooms : t \subseteq P
  OBVIOUS
<1> HIDE DEF T, highlights, policies, rooms
<1> QED
  BY <1>1, <1>2, <1>3, <1>4, <1>5

(* And no word of the listing is lost on the way to its signals.           *)
TextsOf(signals) == UNION {s.text : s \in ToSet(signals)}

Word(signals, P) == IsList(signals) /\ P \subseteq TextsOf(signals)

LEMMA SignalsWord ==
    ASSUME NEW place, NEW texts, IsList(texts)
    PROVE  Word(Signals(place, texts), UNION ToSet(texts))
<1> DEFINE all == [i \in DOMAIN texts |-> [place |-> place, text |-> texts[i], says |-> Says(texts[i])]]
           positions == {i \in DOMAIN all : all[i].text # {}}
<1>1. IsList(all) /\ DOMAIN all = DOMAIN texts
  BY SamePlacesIsList
<1>2. \A i \in DOMAIN texts : all[i].text = texts[i]
  OBVIOUS
<1>3. positions \in SUBSET DOMAIN all /\ \A i \in DOMAIN texts : i \in positions <=> texts[i] # {}
  OBVIOUS
<1>4. Signals(place, texts) = Kept(all, positions)
  BY DEF Signals, Worded
<1> HIDE DEF all, positions
<1>5. IsList(Kept(all, positions)) /\ ToSet(Kept(all, positions)) = {all[i] : i \in positions}
  BY <1>1, <1>3, KeptIsList
<1>6. ASSUME NEW p \in UNION ToSet(texts) PROVE p \in TextsOf(Kept(all, positions))
  <2>1. PICK i \in DOMAIN texts : p \in texts[i]
    BY DEF ToSet
  <2>2. i \in positions /\ all[i] \in ToSet(Kept(all, positions)) /\ p \in all[i].text
    BY <1>2, <1>3, <1>5, <2>1
  <2> QED
    BY <2>2 DEF TextsOf
<1> QED
  BY <1>4, <1>5, <1>6 DEF Word

LEMMA JoinedSignalsWord ==
    ASSUME NEW s, NEW t, NEW P, NEW Q, Word(s, P), Word(t, Q)
    PROVE  Word(s \o t, P \cup Q)
<1>1. IsList(s \o t) /\ ToSet(s \o t) = ToSet(s) \cup ToSet(t)
  BY ConcatIsList DEF Word
<1> DEFINE c == s \o t
<1> HIDE DEF c
<1>2. TextsOf(c) = TextsOf(s) \cup TextsOf(t)
  BY <1>1 DEF TextsOf, c
<1>3. Word(c, P \cup Q)
  BY <1>1, <1>2 DEF Word, c
<1> QED
  BY <1>3 DEF c

LEMMA FlattenedSignalsWord ==
    ASSUME NEW seqs, IsList(seqs), \A x \in ToSet(seqs) : IsList(x),
           NEW P, \A p \in P : \E x \in ToSet(seqs) : p \in TextsOf(x)
    PROVE  Word(FlattenSeq(seqs), P)
<1>1. IsList(FlattenSeq(seqs)) /\ ToSet(FlattenSeq(seqs)) = UNION {ToSet(x) : x \in ToSet(seqs)}
  BY FlattenIsList
<1>2. ASSUME NEW x \in ToSet(seqs) PROVE TextsOf(x) \subseteq TextsOf(FlattenSeq(seqs))
  BY <1>1 DEF TextsOf
<1> QED
  BY <1>1, <1>2 DEF Word

LEMMA ListingSignalsWord ==
    ASSUME NEW listing, IsNormalized(listing)
    PROVE  Word(CollectListingSignals(listing), ListingPhrases(listing))
<1> DEFINE named == Signals("name", <<listing.name>>)
           described == Signals("description", listing.description)
           printed == Signals("fine_print", <<listing.finePrint>>)
           equipped == Signals("facilities", FacilityTexts(listing.facilities))
           room(i) == Signals("rooms", RoomTexts(listing.rooms[i]))
           rooms == [i \in DOMAIN listing.rooms |-> room(i)]
           praised == Signals("highlights", FlattenSeq(listing.highlights))
           policies == [i \in DOMAIN listing.policies |-> <<listing.policies[i].title, listing.policies[i].content>>]
           ruled == Signals("policies", FlattenSeq(policies))
           roomed == UNION {UNION ToSet(RoomTexts(r)) : r \in ToSet(listing.rooms)}
           lights == UNION {UNION ToSet(h) : h \in ToSet(listing.highlights)}
           rules == UNION {p.title \cup p.content : p \in ToSet(listing.policies)}
           facilities == UNION ToSet(FacilityTexts(listing.facilities))
           lines == UNION ToSet(listing.description)
<1>1. /\ IsList(listing.description) /\ IsList(listing.facilities) /\ IsList(listing.policies)
      /\ IsList(listing.rooms) /\ \A x \in ToSet(listing.rooms) : IsRoom(x)
      /\ IsList(listing.highlights) /\ \A highlight \in ToSet(listing.highlights) : IsList(highlight)
  BY DEF IsNormalized
<1>2. Word(named, listing.name) /\ Word(printed, listing.finePrint)
  <2>1. ASSUME NEW place, NEW text PROVE Word(Signals(place, <<text>>), text)
    <3>1. IsList(<<text>>) /\ ToSet(<<text>>) = {text}
      BY ShortLists
    <3>2. Word(Signals(place, <<text>>), UNION ToSet(<<text>>))
      BY <3>1, SignalsWord
    <3> QED
      BY <3>1, <3>2
  <2> QED
    BY <2>1
<1>3. Word(described, lines) /\ Word(equipped, facilities)
  BY <1>1, FacilityTextsAre, SignalsWord
<1>4. Word(FlattenSeq(rooms), roomed)
  <2>1. IsList(rooms) /\ DOMAIN rooms = DOMAIN listing.rooms
    BY <1>1, SamePlacesIsList
  <2>2. ASSUME NEW i \in DOMAIN listing.rooms
        PROVE  Word(room(i), UNION ToSet(RoomTexts(listing.rooms[i])))
    <3>1. listing.rooms[i] \in ToSet(listing.rooms)
      BY DEF ToSet
    <3>2. IsList(RoomTexts(listing.rooms[i]))
      BY <1>1, <3>1, RoomTextsAre
    <3> QED
      BY <3>2, SignalsWord
  <2>3. \A i \in DOMAIN listing.rooms : rooms[i] = room(i)
    OBVIOUS
  <2> HIDE DEF room, rooms
  <2>4. ASSUME NEW x \in ToSet(rooms) PROVE IsList(x)
    BY <2>1, <2>2, <2>3 DEF ToSet, Word
  <2>5. ASSUME NEW p \in roomed PROVE \E x \in ToSet(rooms) : p \in TextsOf(x)
    <3>1. PICK i \in DOMAIN listing.rooms : p \in UNION ToSet(RoomTexts(listing.rooms[i]))
      BY DEF ToSet
    <3>2. room(i) \in ToSet(rooms) /\ p \in TextsOf(room(i))
      BY <2>1, <2>2, <2>3, <3>1 DEF ToSet, Word
    <3> QED
      BY <3>2
  <2> HIDE DEF roomed
  <2> QED
    BY <2>1, <2>4, <2>5, FlattenedSignalsWord
<1>5. Word(praised, lights)
  <2>1. /\ IsList(FlattenSeq(listing.highlights))
        /\ ToSet(FlattenSeq(listing.highlights)) = UNION {ToSet(x) : x \in ToSet(listing.highlights)}
    BY <1>1, FlattenIsList
  <2>2. UNION ToSet(FlattenSeq(listing.highlights)) = lights
    BY <2>1
  <2>3. Word(praised, UNION ToSet(FlattenSeq(listing.highlights)))
    BY <2>1, SignalsWord
  <2> QED
    BY <2>2, <2>3
<1>6. Word(ruled, rules)
  <2>1. IsList(policies) /\ DOMAIN policies = DOMAIN listing.policies
    BY <1>1, SamePlacesIsList
  <2>2. \A i \in DOMAIN listing.policies : policies[i] = <<listing.policies[i].title, listing.policies[i].content>>
    OBVIOUS
  <2> HIDE DEF policies
  <2>3. ASSUME NEW i \in DOMAIN listing.policies
        PROVE  /\ IsList(policies[i]) /\ policies[i] \in ToSet(policies)
               /\ ToSet(policies[i]) = {listing.policies[i].title, listing.policies[i].content}
    <3>1. policies[i] \in ToSet(policies)
      BY <2>1 DEF ToSet
    <3> DEFINE a == listing.policies[i].title
               b == listing.policies[i].content
    <3>2. policies[i] = <<a, b>>
      BY <2>2
    <3> HIDE DEF a, b
    <3>3. IsList(<<a, b>>) /\ ToSet(<<a, b>>) = {a, b}
      BY ShortLists
    <3> QED
      BY <3>1, <3>2, <3>3 DEF a, b
  <2>4. ASSUME NEW x \in ToSet(policies) PROVE IsList(x)
    BY <2>1, <2>3 DEF ToSet
  <2>5. IsList(FlattenSeq(policies)) /\ ToSet(FlattenSeq(policies)) = UNION {ToSet(x) : x \in ToSet(policies)}
    BY <2>1, <2>4, FlattenIsList
  <2>6. ASSUME NEW p \in rules PROVE p \in UNION ToSet(FlattenSeq(policies))
    <3>1. PICK i \in DOMAIN listing.policies : p \in listing.policies[i].title \cup listing.policies[i].content
      BY DEF ToSet
    <3>2. PICK t \in ToSet(policies[i]) : p \in t
      BY <2>3, <3>1
    <3>3. t \in ToSet(FlattenSeq(policies))
      BY <2>3, <2>5, <3>2
    <3> QED
      BY <3>2, <3>3
  <2>7. Word(ruled, UNION ToSet(FlattenSeq(policies)))
    BY <2>5, SignalsWord
  <2> QED
    BY <2>6, <2>7 DEF Word
<1> DEFINE first == (named \o described) \o printed
           second == (first \o equipped) \o FlattenSeq(rooms)
           all == (second \o praised) \o ruled
           P1 == (listing.name \cup lines) \cup listing.finePrint
           P2 == (P1 \cup facilities) \cup roomed
           P == (P2 \cup lights) \cup rules
<1>7. CollectListingSignals(listing) = all
  BY Zenon DEF CollectListingSignals
<1>8. /\ listing.name \subseteq P /\ listing.finePrint \subseteq P /\ UNION ToSet(listing.description) \subseteq P
      /\ UNION ToSet(FacilityTexts(listing.facilities)) \subseteq P
      /\ \A h \in ToSet(listing.highlights) : UNION ToSet(h) \subseteq P
      /\ \A p \in ToSet(listing.policies) : p.title \cup p.content \subseteq P
      /\ \A r \in ToSet(listing.rooms) : UNION ToSet(RoomTexts(r)) \subseteq P
  <2>1. lights \subseteq P /\ rules \subseteq P /\ roomed \subseteq P /\ lines \subseteq P /\ facilities \subseteq P
        /\ listing.name \subseteq P /\ listing.finePrint \subseteq P
    <3> HIDE DEF lights, rules, roomed, lines, facilities
    <3> QED
      OBVIOUS
  <2>2. \A h \in ToSet(listing.highlights) : UNION ToSet(h) \subseteq lights
    OBVIOUS
  <2>3. \A p \in ToSet(listing.policies) : p.title \cup p.content \subseteq rules
    OBVIOUS
  <2>4. \A r \in ToSet(listing.rooms) : UNION ToSet(RoomTexts(r)) \subseteq roomed
    OBVIOUS
  <2> HIDE DEF P, lights, rules, roomed
  <2> QED
    BY <2>1, <2>2, <2>3, <2>4
<1> HIDE DEF P, P1, P2, named, described, printed, equipped, rooms, praised, ruled, roomed, lights, rules, facilities, lines
<1>9. ListingPhrases(listing) \subseteq P
  BY <1>8, PhrasesWithin
<1>10. Word(named \o described, listing.name \cup lines)
  BY <1>2, <1>3, JoinedSignalsWord, Zenon
<1>11. Word(first, P1)
  BY <1>2, <1>10, JoinedSignalsWord, Zenon DEF P1
<1>12. Word(first \o equipped, P1 \cup facilities)
  BY <1>3, <1>11, JoinedSignalsWord, Zenon
<1>13. Word(second, P2)
  BY <1>4, <1>12, JoinedSignalsWord, Zenon DEF P2
<1>14. Word(second \o praised, P2 \cup lights)
  BY <1>5, <1>13, JoinedSignalsWord, Zenon
<1>15. Word(all, P)
  BY <1>6, <1>14, JoinedSignalsWord, Zenon DEF P
<1> HIDE DEF all
<1> QED
  BY <1>7, <1>9, <1>15 DEF Word

LEMMA GivenIsList ==
    ASSUME NEW texts, IsList(texts)
    PROVE  IsList(Given(texts)) /\ ToSet(Given(texts)) = ToSet(texts) \ {{}}
<1> DEFINE positions == {i \in DOMAIN texts : texts[i] # {}}
<1>1. positions \in SUBSET DOMAIN texts
  OBVIOUS
<1>2. IsList(Kept(texts, positions)) /\ ToSet(Kept(texts, positions)) = {texts[i] : i \in positions}
  BY <1>1, KeptIsList
<1> QED
  BY <1>1, <1>2 DEF Given, ToSet

LEMMA FacilitiesAre ==
    ASSUME NEW names, IsList(names), NEW overview
    PROVE  /\ IsList(Facilities(names, overview))
           /\ ToSet(Facilities(names, overview)) = {[name |-> n, overview |-> overview] : n \in ToSet(names)}
<1> DEFINE s == Facilities(names, overview)
<1>1. s = [i \in DOMAIN names |-> [name |-> names[i], overview |-> overview]]
  BY DEF Facilities
<1>2. IsList(s) /\ DOMAIN s = DOMAIN names
  BY <1>1, SamePlacesIsList
<1>3. ToSet(s) = {[name |-> n, overview |-> overview] : n \in ToSet(names)}
  BY <1>1 DEF ToSet
<1> QED
  BY <1>2, <1>3

(* A dictionary keeps the keys it is joined to others on.                  *)
LEMMA JoinedKeeps ==
    ASSUME NEW f, NEW g
    PROVE  /\ DOMAIN Joined(f, g) = DOMAIN f \cup DOMAIN g
           /\ \A x \in DOMAIN f : Joined(f, g)[x] = f[x]
           /\ \A x \in DOMAIN g \ DOMAIN f : Joined(f, g)[x] = g[x]
BY DEF Joined

-----------------------------------------------------------------------------
(* The fixtures. *)

LEMMA SampledIsTold ==
    ASSUME NEW i \in DOMAIN Samples
    PROVE  /\ GroundedIn(Among(ListingPhrases(Samples[i].listing)), Sampled[i])
           /\ Sampled[i].of = i
<1> DEFINE base == Samples[i].listing
           added == [total |-> {}]
           listing == Joined(added, base)
<1>1. IsNormalized(base)
  <2>1. Samples[i] \in ToSet(Samples)
    BY DEF ToSet
  <2> QED
    BY <2>1, FixturesAssumption
<1>2. /\ listing.name = base.name /\ listing.type = base.type /\ listing.description = base.description
      /\ listing.finePrint = base.finePrint /\ listing.facilities = base.facilities /\ listing.rooms = base.rooms
      /\ listing.highlights = base.highlights /\ listing.policies = base.policies
      /\ listing.optionPrice = base.optionPrice
      /\ DOMAIN base \subseteq DOMAIN listing
  <2>1. DOMAIN added = {"total"}
    OBVIOUS
  <2> HIDE DEF base, added, listing
  <2>2. \A x \in DOMAIN base \ {"total"} : Joined(added, base)[x] = base[x]
    <3>1. \A x \in DOMAIN base \ DOMAIN added : Joined(added, base)[x] = base[x]
      BY JoinedKeeps
    <3> QED
      BY <2>1, <3>1
  <2>3. {"name", "type", "description", "finePrint", "facilities", "rooms", "highlights", "policies", "optionPrice"}
            \subseteq DOMAIN base \ {"total"}
    BY <1>1 DEF IsNormalized
  <2>4. DOMAIN base \subseteq DOMAIN Joined(added, base)
    BY JoinedKeeps
  <2> QED
    BY <2>2, <2>3, <2>4 DEF listing
<1> HIDE DEF base, added, listing
<1>3. IsNormalized(listing)
  BY <1>1, <1>2 DEF IsNormalized
<1>4. ListingPhrases(listing) = ListingPhrases(base)
  BY <1>2 DEF ListingPhrases
<1>5. Sampled[i] = Candidate(listing, i, {})
  BY DEF Sampled, listing, added, base
<1> QED
  BY <1>3, <1>4, <1>5, CandidateIsTold DEF base

-----------------------------------------------------------------------------
(* Scraped items. *)

GroupNames(g) == IF g.nested # <<>> THEN ToSet(g.nested) ELSE {g.name}

LEMMA FacilitiesOfGroups ==
    ASSUME NEW groups, IsList(groups), \A g \in ToSet(groups) : IsList(g.nested)
    PROVE  /\ IsList(ListingFacilities(groups))
           /\ \A f \in ToSet(ListingFacilities(groups)) :
                 \E g \in ToSet(groups) : f.overview = g.overview /\ f.name \in GroupNames(g) \ {{}}
           /\ \A g \in ToSet(groups) : \A n \in GroupNames(g) \ {{}} :
                 \E f \in ToSet(ListingFacilities(groups)) : f.overview = g.overview /\ f.name = n
<1> DEFINE names(g) == IF g.nested # <<>> THEN g.nested ELSE <<g.name>>
           of(g) == Facilities(Given(names(g)), g.overview)
           parts == [i \in DOMAIN groups |-> of(groups[i])]
<1>1. IsList(parts) /\ DOMAIN parts = DOMAIN groups
  BY SamePlacesIsList
<1>2. ToSet(parts) = {of(g) : g \in ToSet(groups)}
  BY <1>1 DEF ToSet
<1>3. ASSUME NEW g \in ToSet(groups)
      PROVE  /\ IsList(of(g))
             /\ ToSet(of(g)) = {[name |-> n, overview |-> g.overview] : n \in GroupNames(g) \ {{}}}
  <2>1. IsList(names(g)) /\ ToSet(names(g)) = GroupNames(g)
    <3>1. IsList(<<g.name>>) /\ ToSet(<<g.name>>) = {g.name}
      BY ShortLists
    <3> QED
      BY <3>1 DEF GroupNames
  <2> HIDE DEF names
  <2>2. IsList(Given(names(g))) /\ ToSet(Given(names(g))) = GroupNames(g) \ {{}}
    BY <2>1, GivenIsList
  <2>3. /\ IsList(of(g))
        /\ ToSet(of(g)) = {[name |-> n, overview |-> g.overview] : n \in ToSet(Given(names(g)))}
    BY <2>2, FacilitiesAre
  <2> QED
    BY <2>2, <2>3
<1>4. ListingFacilities(groups) = FlattenSeq(parts)
  BY DEF ListingFacilities
<1> HIDE DEF of, parts
<1>5. \A x \in ToSet(parts) : IsList(x)
  BY <1>2, <1>3
<1>6. IsList(FlattenSeq(parts)) /\ ToSet(FlattenSeq(parts)) = UNION {ToSet(x) : x \in ToSet(parts)}
  BY <1>1, <1>5, FlattenIsList
<1>7. ASSUME NEW f \in ToSet(FlattenSeq(parts))
      PROVE  \E g \in ToSet(groups) : f.overview = g.overview /\ f.name \in GroupNames(g) \ {{}}
  <2>1. PICK g \in ToSet(groups) : f \in ToSet(of(g))
    BY <1>2, <1>6
  <2> QED
    BY <1>3, <2>1
<1>8. ASSUME NEW g \in ToSet(groups), NEW n \in GroupNames(g) \ {{}}
      PROVE  \E f \in ToSet(FlattenSeq(parts)) : f.overview = g.overview /\ f.name = n
  <2>1. [name |-> n, overview |-> g.overview] \in ToSet(of(g)) /\ of(g) \in ToSet(parts)
    BY <1>2, <1>3
  <2>2. [name |-> n, overview |-> g.overview] \in ToSet(FlattenSeq(parts))
    BY <1>6, <2>1
  <2> QED
    BY <2>2
<1> QED
  BY <1>4, <1>6, <1>7, <1>8

(* A room is what it is without its facilities, and these. *)
Bare(room) == [room EXCEPT !.facilities = <<>>]

PhrasesOfAll(facilities) == UNION {f.name \cup f.overview : f \in facilities}

LEMMA FurnishedRoom ==
    ASSUME NEW room, IsRoom(room), NEW facilities, IsList(facilities)
    PROVE  /\ IsRoom([room EXCEPT !.facilities = facilities])
           /\ UNION ToSet(RoomTexts([room EXCEPT !.facilities = facilities])) =
                  (UNION ToSet(RoomTexts(Bare(room)))) \cup PhrasesOfAll(ToSet(facilities))
<1> DEFINE with(s) == [room EXCEPT !.facilities = s]
           options == UNION {ToSet(OptionTexts(o)) : o \in ToSet(room.options)}
           rest == (UNION (({room.name} \cup ToSet(room.beds)) \cup options))
<1>1. ASSUME NEW s, IsList(s)
      PROVE  IsRoom(with(s)) /\ UNION ToSet(RoomTexts(with(s))) = rest \cup PhrasesOfAll(ToSet(s))
  <2>1. /\ with(s).name = room.name /\ with(s).beds = room.beds /\ with(s).options = room.options
        /\ with(s).facilities = s /\ DOMAIN with(s) = DOMAIN room
    BY DEF IsRoom
  <2> DEFINE r == with(s)
  <2> HIDE DEF r
  <2>2. IsRoom(r)
    BY <1>1, <2>1 DEF IsRoom, r
  <2>3. ToSet(FacilityTexts(s)) = UNION {{f.name, f.overview} : f \in ToSet(s)}
    BY <1>1, FacilityTextsAre
  <2>4. ToSet(RoomTexts(r)) =
            {r.name} \cup ToSet(r.beds) \cup ToSet(FacilityTexts(r.facilities))
                \cup (UNION {ToSet(OptionTexts(o)) : o \in ToSet(r.options)})
    BY <2>2, RoomTextsAre
  <2>5. r.name = room.name /\ r.beds = room.beds /\ r.options = room.options /\ r.facilities = s
    BY <2>1 DEF r
  <2>6. ToSet(RoomTexts(r)) = (({room.name} \cup ToSet(room.beds)) \cup options) \cup ToSet(FacilityTexts(s))
    BY <2>4, <2>5, Zenon
  <2>7. UNION ToSet(FacilityTexts(s)) = PhrasesOfAll(ToSet(s))
    BY <2>3 DEF PhrasesOfAll
  <2> HIDE DEF with, options
  <2>8. UNION ToSet(RoomTexts(r)) = rest \cup UNION ToSet(FacilityTexts(s))
    BY <2>6
  <2> QED
    BY <2>2, <2>7, <2>8 DEF r, with
<1>2. IsList(<<>>) /\ ToSet(<<>>) = {}
  BY ShortLists
<1>3. Bare(room) = with(<<>>)
  BY DEF Bare
<1>4. PhrasesOfAll({}) = {}
  BY DEF PhrasesOfAll
<1> HIDE DEF rest, with
<1>5. UNION ToSet(RoomTexts(Bare(room))) = rest
  BY <1>1, <1>2, <1>3, <1>4
<1>6. IsRoom(with(facilities)) /\ UNION ToSet(RoomTexts(with(facilities))) = rest \cup PhrasesOfAll(ToSet(facilities))
  BY <1>1
<1> QED
  BY <1>5, <1>6 DEF with

(* The facilities of a scraped room that have a name. *)
NamedIn(room) == {f \in ToSet(room.facilities) : f.name # {}}

LEMMA NormalizedRooms ==
    ASSUME NEW rooms, IsList(rooms), \A room \in ToSet(rooms) : IsRoom(room)
    PROVE  /\ IsList(NormalizeRooms(rooms))
           /\ DOMAIN NormalizeRooms(rooms) = DOMAIN rooms
           /\ \A i \in DOMAIN rooms :
                 /\ IsRoom(NormalizeRooms(rooms)[i])
                 /\ UNION ToSet(RoomTexts(NormalizeRooms(rooms)[i])) =
                        (UNION ToSet(RoomTexts(Bare(rooms[i])))) \cup PhrasesOfAll(NamedIn(rooms[i]))
<1> DEFINE named(facilities) == Kept(facilities, {i \in DOMAIN facilities : facilities[i].name # {}})
           s == [i \in DOMAIN rooms |-> [rooms[i] EXCEPT !.facilities = named(@)]]
<1>1. NormalizeRooms(rooms) = s
  BY DEF NormalizeRooms
<1>2. IsList(s) /\ DOMAIN s = DOMAIN rooms
  BY SamePlacesIsList
<1>3. ASSUME NEW raw \in ToSet(rooms)
      PROVE  /\ IsRoom([raw EXCEPT !.facilities = named(raw.facilities)])
             /\ UNION ToSet(RoomTexts([raw EXCEPT !.facilities = named(raw.facilities)])) =
                    (UNION ToSet(RoomTexts(Bare(raw)))) \cup PhrasesOfAll(NamedIn(raw))
  <2> DEFINE positions == {i \in DOMAIN raw.facilities : raw.facilities[i].name # {}}
  <2>1. IsList(raw.facilities) /\ positions \in SUBSET DOMAIN raw.facilities
    BY DEF IsRoom
  <2>2. IsList(Kept(raw.facilities, positions)) /\ ToSet(Kept(raw.facilities, positions)) = {raw.facilities[i] : i \in positions}
    BY <2>1, KeptIsList
  <2>3. IsList(named(raw.facilities)) /\ ToSet(named(raw.facilities)) = NamedIn(raw)
    BY <2>1, <2>2 DEF ToSet, NamedIn
  <2> HIDE DEF named
  <2> QED
    BY <2>3, FurnishedRoom
<1>4. \A i \in DOMAIN rooms : s[i] = [rooms[i] EXCEPT !.facilities = named(rooms[i].facilities)] /\ rooms[i] \in ToSet(rooms)
  BY DEF ToSet
<1> HIDE DEF named, s
<1>5. ASSUME NEW i \in DOMAIN rooms
      PROVE  /\ IsRoom(s[i])
             /\ UNION ToSet(RoomTexts(s[i])) =
                    (UNION ToSet(RoomTexts(Bare(rooms[i])))) \cup PhrasesOfAll(NamedIn(rooms[i]))
  BY <1>3, <1>4
<1> QED
  BY <1>1, <1>2, <1>5

(* An item's phrases are those of its listing. *)
LEMMA ItemIsHeard ==
    ASSUME NEW name \in DOMAIN Items
    PROVE  /\ IsNormalized(NormalizeApifyListing(Items[name]))
           /\ ListingPhrases(NormalizeApifyListing(Items[name])) = ItemPhrases(Items[name])
<1> DEFINE item == Items[name]
           raw == Joined([facilities |-> <<>>], item)
           added == [facilities |-> <<>>, rooms |-> [i \in DOMAIN item.rooms |-> Bare(item.rooms[i])]]
           bare == Joined(added, item)
           listing == NormalizeApifyListing(item)
           P == ItemPhrases(item)
           L == ListingPhrases(listing)
           furnished(room) == PhrasesOfAll(NamedIn(room))
           facilities(g) == IF g.nested = <<>> THEN g.name ELSE UNION ToSet(g.nested)
           rooms == UNION {furnished(room) : room \in ToSet(item.rooms)}
           groups == UNION {facilities(g) \cup g.overview : g \in {x \in ToSet(item.groups) : facilities(x) # {}}}
<1>1. IsList(item.groups) /\ (\A g \in ToSet(item.groups) : IsList(g.nested)) /\ IsNormalized(raw)
  BY ApifyAssumption
<1>2. /\ raw.name = item.name /\ raw.description = item.description
      /\ raw.finePrint = item.finePrint /\ raw.rooms = item.rooms
      /\ raw.highlights = item.highlights /\ raw.policies = item.policies
      /\ raw.optionPrice = item.optionPrice
      /\ bare.name = item.name /\ bare.description = item.description
      /\ bare.finePrint = item.finePrint
      /\ bare.highlights = item.highlights /\ bare.policies = item.policies
      /\ bare.facilities = <<>> /\ bare.rooms = [i \in DOMAIN item.rooms |-> Bare(item.rooms[i])]
  <2> DEFINE one == [facilities |-> <<>>]
  <2>1. DOMAIN one = {"facilities"} /\ DOMAIN added = {"facilities", "rooms"}
        /\ added.facilities = <<>> /\ added.rooms = [i \in DOMAIN item.rooms |-> Bare(item.rooms[i])]
    OBVIOUS
  <2>2. {"name", "type", "description", "finePrint", "rooms", "highlights", "policies", "optionPrice"} \subseteq DOMAIN raw
    BY <1>1 DEF IsNormalized
  <2>3. raw = Joined(one, item)
    OBVIOUS
  <2> HIDE DEF item, added, one, raw, bare
  <2>4. DOMAIN raw = DOMAIN one \cup DOMAIN item /\ \A x \in DOMAIN item \ DOMAIN one : raw[x] = item[x]
    <3>1. /\ DOMAIN Joined(one, item) = DOMAIN one \cup DOMAIN item
          /\ \A x \in DOMAIN item \ DOMAIN one : Joined(one, item)[x] = item[x]
      BY JoinedKeeps
    <3> QED
      BY <2>3, <3>1
  <2>5. /\ DOMAIN bare = DOMAIN added \cup DOMAIN item
        /\ \A x \in DOMAIN added : bare[x] = added[x]
        /\ \A x \in DOMAIN item \ DOMAIN added : bare[x] = item[x]
    BY JoinedKeeps DEF bare
  <2>6. {"name", "type", "description", "finePrint", "rooms", "highlights", "policies", "optionPrice"}
            \subseteq DOMAIN item \ DOMAIN one
    BY <2>1, <2>2, <2>4
  <2> QED
    BY <2>1, <2>4, <2>5, <2>6
<1>3. /\ listing.name = item.name /\ listing.description = item.description /\ listing.finePrint = item.finePrint
      /\ listing.facilities = ListingFacilities(item.groups) /\ listing.rooms = NormalizeRooms(item.rooms)
      /\ listing.highlights = item.highlights /\ listing.policies = item.policies
      /\ listing.optionPrice = item.optionPrice
      /\ DOMAIN listing = {"id", "name", "type", "description", "finePrint", "facilities", "rooms", "highlights", "policies", "total", "optionPrice"}
  BY DEF NormalizeApifyListing
<1>4. P = (ListingPhrases(bare) \cup rooms) \cup groups
  BY Zenon DEF ItemPhrases, Bare, PhrasesOfAll, NamedIn
<1>5. \A g \in ToSet(item.groups) : facilities(g) = UNION GroupNames(g)
  BY DEF GroupNames
<1>6. ASSUME NEW g \in ToSet(item.groups), facilities(g) # {} PROVE facilities(g) \cup g.overview \subseteq groups
  BY <1>6
<1>7. ASSUME NEW room \in ToSet(item.rooms) PROVE furnished(room) \subseteq rooms
  OBVIOUS
<1>8. \A X : (\A g \in ToSet(item.groups) : facilities(g) # {} => facilities(g) \cup g.overview \subseteq X) => groups \subseteq X
  OBVIOUS
<1> HIDE DEF item, raw, bare, added, listing, P, L, groups, facilities, furnished
<1>9. IsList(item.rooms) /\ \A room \in ToSet(item.rooms) : IsRoom(room)
  BY <1>1, <1>2 DEF IsNormalized
<1>10. /\ IsList(listing.rooms) /\ DOMAIN listing.rooms = DOMAIN item.rooms
       /\ \A i \in DOMAIN item.rooms :
             /\ IsRoom(listing.rooms[i])
             /\ UNION ToSet(RoomTexts(listing.rooms[i])) =
                    (UNION ToSet(RoomTexts(Bare(item.rooms[i])))) \cup furnished(item.rooms[i])
  BY <1>3, <1>9, NormalizedRooms DEF furnished
<1>11. /\ IsList(listing.facilities)
       /\ \A f \in ToSet(listing.facilities) :
             \E g \in ToSet(item.groups) : f.overview = g.overview /\ f.name \in GroupNames(g) \ {{}}
       /\ \A g \in ToSet(item.groups) : \A n \in GroupNames(g) \ {{}} :
             \E f \in ToSet(listing.facilities) : f.overview = g.overview /\ f.name = n
  BY <1>1, <1>3, FacilitiesOfGroups
<1>12. IsNormalized(listing)
  <2>1. \A room \in ToSet(listing.rooms) : IsRoom(room)
    BY <1>10 DEF ToSet
  <2> QED
    BY <1>1, <1>2, <1>3, <1>10, <1>11, <2>1 DEF IsNormalized
<1>13. ToSet(FacilityTexts(listing.facilities)) = UNION {{f.name, f.overview} : f \in ToSet(listing.facilities)}
  BY <1>11, FacilityTextsAre
<1>14. /\ DOMAIN bare.rooms = DOMAIN item.rooms
       /\ \A i \in DOMAIN item.rooms : bare.rooms[i] = Bare(item.rooms[i]) /\ item.rooms[i] \in ToSet(item.rooms)
  BY <1>2 DEF ToSet
<1>15. L \subseteq P
  <2>1. /\ bare.name \subseteq P /\ bare.finePrint \subseteq P /\ UNION ToSet(bare.description) \subseteq P
        /\ \A h \in ToSet(bare.highlights) : UNION ToSet(h) \subseteq P
        /\ \A p \in ToSet(bare.policies) : p.title \cup p.content \subseteq P
        /\ \A r \in ToSet(bare.rooms) : UNION ToSet(RoomTexts(r)) \subseteq P
    BY <1>4, PhrasesOfParts
  <2>2. \A r \in ToSet(listing.rooms) : UNION ToSet(RoomTexts(r)) \subseteq P
    <3>1. ASSUME NEW i \in DOMAIN item.rooms PROVE UNION ToSet(RoomTexts(listing.rooms[i])) \subseteq P
      <4>1. bare.rooms[i] \in ToSet(bare.rooms)
        BY <1>14 DEF ToSet
      <4>2. UNION ToSet(RoomTexts(Bare(item.rooms[i]))) \subseteq P
        BY <1>14, <2>1, <4>1
      <4>3. furnished(item.rooms[i]) \subseteq P
        BY <1>4, <1>7, <1>14
      <4> QED
        BY <1>10, <4>2, <4>3
    <3> QED
      BY <1>10, <3>1 DEF ToSet
  <2>3. \A f \in ToSet(listing.facilities) : f.name \subseteq P /\ f.overview \subseteq P
    <3>1. ASSUME NEW f \in ToSet(listing.facilities) PROVE f.name \subseteq P /\ f.overview \subseteq P
      <4>1. PICK g \in ToSet(item.groups) : f.overview = g.overview /\ f.name \in GroupNames(g) \ {{}}
        BY <1>11
      <4>2. f.name \subseteq facilities(g) /\ facilities(g) # {}
        BY <1>5, <4>1
      <4>3. facilities(g) \cup g.overview \subseteq P
        BY <1>4, <1>6, <4>2
      <4> QED
        BY <4>1, <4>2, <4>3
    <3> QED
      BY <3>1
  <2>4. UNION ToSet(FacilityTexts(listing.facilities)) \subseteq P
    BY <1>13, <2>3
  <2> QED
    BY <1>2, <1>3, <2>1, <2>2, <2>4, PhrasesWithin DEF L
<1>16. P \subseteq L
  <2>1. /\ listing.name \subseteq L /\ listing.finePrint \subseteq L /\ UNION ToSet(listing.description) \subseteq L
        /\ UNION ToSet(FacilityTexts(listing.facilities)) \subseteq L
        /\ \A h \in ToSet(listing.highlights) : UNION ToSet(h) \subseteq L
        /\ \A p \in ToSet(listing.policies) : p.title \cup p.content \subseteq L
        /\ \A r \in ToSet(listing.rooms) : UNION ToSet(RoomTexts(r)) \subseteq L
    BY PhrasesOfParts DEF L
  <2>2. ASSUME NEW i \in DOMAIN item.rooms
        PROVE  UNION ToSet(RoomTexts(Bare(item.rooms[i]))) \subseteq L /\ furnished(item.rooms[i]) \subseteq L
    <3>1. listing.rooms[i] \in ToSet(listing.rooms)
      BY <1>10 DEF ToSet
    <3>2. UNION ToSet(RoomTexts(listing.rooms[i])) \subseteq L
      BY <2>1, <3>1
    <3>3. UNION ToSet(RoomTexts(listing.rooms[i])) =
              (UNION ToSet(RoomTexts(Bare(item.rooms[i])))) \cup furnished(item.rooms[i])
      BY <1>10
    <3> DEFINE a == UNION ToSet(RoomTexts(listing.rooms[i]))
               b == UNION ToSet(RoomTexts(Bare(item.rooms[i])))
               c == furnished(item.rooms[i])
    <3> HIDE DEF a, b, c
    <3>4. a \subseteq L /\ a = b \cup c
      BY <3>2, <3>3 DEF a, b, c
    <3>5. b \subseteq L /\ c \subseteq L
      BY <3>4
    <3> QED
      BY <3>5 DEF b, c
  <2>3. ListingPhrases(bare) \subseteq L
    <3>1. UNION ToSet(FacilityTexts(bare.facilities)) \subseteq L
      <4>1. IsList(<<>>) /\ ToSet(<<>>) = {}
        BY ShortLists
      <4>2. ToSet(FacilityTexts(<<>>)) = UNION {{f.name, f.overview} : f \in ToSet(<<>>)}
        BY <4>1, FacilityTextsAre
      <4> QED
        BY <1>2, <4>1, <4>2
    <3>2. ASSUME NEW r \in ToSet(bare.rooms) PROVE UNION ToSet(RoomTexts(r)) \subseteq L
      <4>1. PICK i \in DOMAIN item.rooms : r = bare.rooms[i]
        BY <1>14 DEF ToSet
      <4>2. r = Bare(item.rooms[i])
        BY <1>14, <4>1
      <4>3. UNION ToSet(RoomTexts(Bare(item.rooms[i]))) \subseteq L
        BY <2>2
      <4> QED
        BY <4>2, <4>3
    <3> QED
      BY <1>2, <1>3, <2>1, <3>1, <3>2, PhrasesWithin
  <2>4. rooms \subseteq L
    <3>1. ASSUME NEW room \in ToSet(item.rooms) PROVE furnished(room) \subseteq L
      BY <2>2 DEF ToSet
    <3> QED
      BY <3>1
  <2>5. groups \subseteq L
    <3>1. ASSUME NEW f \in ToSet(listing.facilities) PROVE f.name \subseteq L /\ f.overview \subseteq L
      <4>1. f.name \in ToSet(FacilityTexts(listing.facilities)) /\ f.overview \in ToSet(FacilityTexts(listing.facilities))
        BY <1>13
      <4> QED
        BY <2>1, <4>1
    <3>2. ASSUME NEW g \in ToSet(item.groups), facilities(g) # {} PROVE facilities(g) \cup g.overview \subseteq L
      <4>1. ASSUME NEW n \in GroupNames(g) \ {{}} PROVE n \subseteq L /\ g.overview \subseteq L
        <5>1. PICK f \in ToSet(listing.facilities) : f.overview = g.overview /\ f.name = n
          BY <1>11, <4>1
        <5> QED
          BY <3>1, <5>1
      <4>2. \E n \in GroupNames(g) : n # {}
        BY <1>5, <3>2
      <4> QED
        BY <1>5, <4>1, <4>2
    <3> QED
      BY <1>8, <3>2
  <2> HIDE DEF rooms
  <2> QED
    BY <1>4, <2>3, <2>4, <2>5
<1> QED
  BY <1>12, <1>15, <1>16 DEF item, listing, P, L

LEMMA ScrapedIsTold ==
    ASSUME NEW name \in DOMAIN Items
    PROVE  /\ GroundedIn(DOMAIN Phrases \cap ItemPhrases(Items[name]), Scrapings[name])
           /\ Scrapings[name].of = name
<1> DEFINE listing == NormalizeApifyListing(Items[name])
           P == ItemPhrases(Items[name])
<1>1. IsNormalized(listing) /\ ListingPhrases(listing) = P
  BY ItemIsHeard
<1>2. Scrapings[name] = Candidate(listing, name, {})
  BY DEF Scrapings
<1> HIDE DEF listing
<1>3. Among(ListingPhrases(listing)) \subseteq DOMAIN Phrases \cap P
  BY <1>1 DEF Among
<1> QED
  BY <1>1, <1>2, <1>3, CandidateIsTold

-----------------------------------------------------------------------------
(* The hotels of LiteAPI. *)

LEMMA FlagLists == IsList(PropertyFlags) /\ IsList(RoomFlags) /\ IsList(PolicyTitles)
<1>1. DOMAIN PropertyFlags = 1 .. 11 /\ PropertyFlags = [k \in 1 .. 11 |-> PropertyFlags[k]]
  BY DEF PropertyFlags
<1>2. DOMAIN RoomFlags = 1 .. 11 /\ RoomFlags = [k \in 1 .. 11 |-> RoomFlags[k]]
  BY DEF RoomFlags
<1>3. DOMAIN PolicyTitles = 1 .. 4 /\ PolicyTitles = [k \in 1 .. 4 |-> PolicyTitles[k]]
  BY DEF PolicyTitles
<1> QED
  BY <1>1, <1>2, <1>3, ListOfLength

LEMMA NamedFacilities ==
    ASSUME NEW texts, IsList(texts)
    PROVE  /\ IsList(Named(texts))
           /\ \A f \in ToSet(Named(texts)) : f.overview = {} /\ f.name \in ToSet(texts)
           /\ \A t \in ToSet(texts) \ {{}} : \E f \in ToSet(Named(texts)) : f.name = t
<1> DEFINE first(i) == texts[i] # {} /\ \A j \in 1 .. (i - 1) : texts[j] # texts[i]
           positions == {i \in DOMAIN texts : first(i)}
<1>1. Named(texts) = Facilities(Kept(texts, positions), {})
  BY DEF Named
<1>2. positions \in SUBSET DOMAIN texts
  OBVIOUS
<1>3. ASSUME NEW t \in ToSet(texts) \ {{}} PROVE \E i \in positions : texts[i] = t
  <2> DEFINE places == {i \in DOMAIN texts : texts[i] = t}
  <2>1. DOMAIN texts = 1 .. Len(texts) /\ Len(texts) \in Nat
    BY ListShape
  <2>2. places \in SUBSET Nat /\ places # {}
    BY <2>1 DEF ToSet
  <2>3. PICK i \in places : \A j \in places : i <= j
    <3> HIDE DEF places
    <3> QED
      BY <2>2, LeastExists
  <2>4. ASSUME NEW j \in 1 .. (i - 1) PROVE texts[j] # texts[i]
    <3>1. j \in DOMAIN texts /\ j < i
      BY <2>1, <2>3
    <3> QED
      BY <2>1, <2>3, <3>1
  <2>5. texts[i] = t /\ i \in DOMAIN texts
    BY <2>3
  <2> QED
    BY <2>4, <2>5
<1> HIDE DEF positions
<1>4. IsList(Kept(texts, positions)) /\ ToSet(Kept(texts, positions)) = {texts[i] : i \in positions}
  BY <1>2, KeptIsList
<1>5. ToSet(Kept(texts, positions)) \subseteq ToSet(texts) /\ ToSet(texts) \ {{}} \subseteq ToSet(Kept(texts, positions))
  BY <1>2, <1>3, <1>4 DEF ToSet
<1>6. /\ IsList(Named(texts))
      /\ ToSet(Named(texts)) = {[name |-> n, overview |-> {}] : n \in ToSet(Kept(texts, positions))}
  BY <1>1, <1>4, FacilitiesAre
<1>7. ASSUME NEW t \in ToSet(texts) \ {{}} PROVE \E f \in ToSet(Named(texts)) : f.name = t
  <2>1. [name |-> t, overview |-> {}] \in ToSet(Named(texts))
    BY <1>5, <1>6
  <2> QED
    BY <2>1
<1> QED
  BY <1>5, <1>6, <1>7

FlagsSet(flags, among) == {f \in DOMAIN flags \cap among : flags[f]}

(* The flags of a hotel the code has a sentence for.                       *)
HotelFlags(hotel) ==
    LET idle == IF FlagsSet(hotel.flags, {"selfParking", "valet"}) = {} THEN {"freeParking"} ELSE {}
        named == (ToSet(PropertyFlags) \cup (UNION {PolicyFlags[title] : title \in ToSet(PolicyTitles)})) \ idle
    IN  FlagsSet(hotel.flags, named)

StatedTitles(hotel) == {title \in ToSet(PolicyTitles) : PolicyContent(hotel.flags, title) # {}}

LEMMA PropertyFlagsAreStated ==
    ASSUME NEW hotel
    PROVE  FlagsSet(hotel.flags, ToSet(PropertyFlags)) \subseteq HotelFlags(hotel)
<1>1. "freeParking" \notin ToSet(PropertyFlags)
  <2>1. DOMAIN PropertyFlags = 1 .. 11
    BY DEF PropertyFlags
  <2>2. \A k \in 1 .. 11 : PropertyFlags[k] # "freeParking"
    BY DEF PropertyFlags
  <2> QED
    BY <2>1, <2>2 DEF ToSet
<1> QED
  BY <1>1 DEF HotelFlags, FlagsSet

LEMMA FacilitiesOfHotel ==
    ASSUME NEW hotel, IsHotel(hotel)
    PROVE  /\ IsList(HotelFacilities(hotel))
           /\ \A f \in ToSet(HotelFacilities(hotel)) :
                 /\ f.overview \subseteq {"Currently closed"}
                 /\ f.name \in ToSet(hotel.facilities) \/ f.name \subseteq HotelFlags(hotel)
           /\ \A t \in ToSet(hotel.facilities) \ {{}} : \E f \in ToSet(HotelFacilities(hotel)) : f.name = t
           /\ \A flag \in FlagsSet(hotel.flags, ToSet(PropertyFlags)) :
                 \E f \in ToSet(HotelFacilities(hotel)) : f.name = {flag}
<1> DEFINE closed(f) == f \in DOMAIN CurrentlyClosed /\ IsSet(hotel.flags, CurrentlyClosed[f])
           stated(f) == IsSet(hotel.flags, f) /\ ({f} \notin ToSet(hotel.facilities) \/ closed(f))
           overview(f) == IF closed(f) THEN {"Currently closed"} ELSE {}
           as(f) == [name |-> {f}, overview |-> overview(f)]
           all == [k \in DOMAIN PropertyFlags |-> as(PropertyFlags[k])]
           positions == {k \in DOMAIN PropertyFlags : stated(PropertyFlags[k])}
           named == Named(hotel.facilities)
           flags == Kept(all, positions)
           own == FlagsSet(hotel.flags, ToSet(PropertyFlags))
<1>1. HotelFacilities(hotel) = named \o flags
  BY DEF HotelFacilities
<1>2. \A f : overview(f) \subseteq {"Currently closed"}
  OBVIOUS
<1>3. \A k \in positions : PropertyFlags[k] \in own
  BY DEF FlagsSet, IsSet, ToSet
<1>4. \A k \in DOMAIN PropertyFlags : PropertyFlags[k] \in own => k \in positions \/ {PropertyFlags[k]} \in ToSet(hotel.facilities)
  BY DEF FlagsSet, IsSet
<1> HIDE DEF overview, stated, closed
<1>5. \A k \in DOMAIN PropertyFlags : all[k] = as(PropertyFlags[k])
  OBVIOUS
<1>6. IsList(flags) /\ ToSet(flags) = {all[k] : k \in positions} /\ positions \subseteq DOMAIN PropertyFlags
  <2>1. IsList(all) /\ DOMAIN all = DOMAIN PropertyFlags
    BY FlagLists, SamePlacesIsList
  <2>2. positions \in SUBSET DOMAIN all
    BY <2>1
  <2> HIDE DEF all, positions
  <2>3. IsList(flags) /\ ToSet(flags) = {all[k] : k \in positions}
    BY <2>1, <2>2, KeptIsList
  <2> QED
    BY <2>1, <2>2, <2>3
<1> HIDE DEF all, positions, own
<1>7. ASSUME NEW x \in ToSet(flags)
      PROVE  x.overview \subseteq {"Currently closed"} /\ x.name \subseteq HotelFlags(hotel)
  <2>1. PICK k \in positions : x = as(PropertyFlags[k])
    BY <1>5, <1>6
  <2>2. PropertyFlags[k] \in HotelFlags(hotel)
    BY <1>3, PropertyFlagsAreStated DEF own
  <2> QED
    BY <1>2, <2>1, <2>2
<1>8. /\ IsList(named) /\ \A f \in ToSet(named) : f.overview = {} /\ f.name \in ToSet(hotel.facilities)
      /\ \A t \in ToSet(hotel.facilities) \ {{}} : \E f \in ToSet(named) : f.name = t
  BY NamedFacilities DEF IsHotel
<1> HIDE DEF named, flags
<1>9. IsList(named \o flags) /\ ToSet(named \o flags) = ToSet(named) \cup ToSet(flags)
  BY <1>6, <1>8, ConcatIsList
<1>10. ASSUME NEW flag \in own PROVE \E f \in ToSet(named) \cup ToSet(flags) : f.name = {flag}
  <2>1. PICK k \in DOMAIN PropertyFlags : flag = PropertyFlags[k]
    BY DEF own, FlagsSet, ToSet
  <2>2. CASE k \in positions
    <3>1. all[k] \in ToSet(flags) /\ all[k] = as(flag)
      BY <1>5, <1>6, <2>1, <2>2
    <3> QED
      BY <3>1
  <2>3. CASE {flag} \in ToSet(hotel.facilities)
    BY <1>8, <2>3
  <2> QED
    BY <1>4, <2>1, <2>2, <2>3
<1> QED
  BY <1>1, <1>7, <1>8, <1>9, <1>10 DEF own

LEMMA PoliciesOfHotel ==
    ASSUME NEW hotel
    PROVE  /\ IsList(HotelPolicies(hotel))
           /\ \A p \in ToSet(HotelPolicies(hotel)) :
                 p.title \subseteq StatedTitles(hotel) /\ p.content \subseteq HotelFlags(hotel)
           /\ \A title \in StatedTitles(hotel) :
                 \E p \in ToSet(HotelPolicies(hotel)) :
                     p.title = {title} /\ p.content = PolicyContent(hotel.flags, title)
           /\ \A flag \in HotelFlags(hotel) \ ToSet(PropertyFlags) :
                 \E p \in ToSet(HotelPolicies(hotel)) : flag \in p.content
<1> DEFINE policy(title) == [title |-> {title}, content |-> PolicyContent(hotel.flags, title)]
           all == [k \in DOMAIN PolicyTitles |-> policy(PolicyTitles[k])]
           positions == {k \in DOMAIN PolicyTitles : PolicyContent(hotel.flags, PolicyTitles[k]) # {}}
           kept == Kept(all, positions)
<1>1. HotelPolicies(hotel) = kept
  BY DEF HotelPolicies
<1>2. \A k \in DOMAIN PolicyTitles : all[k] = policy(PolicyTitles[k])
  OBVIOUS
<1>3. IsList(kept) /\ ToSet(kept) = {all[k] : k \in positions}
  <2>1. IsList(all) /\ DOMAIN all = DOMAIN PolicyTitles
    BY FlagLists, SamePlacesIsList
  <2>2. positions \in SUBSET DOMAIN all
    BY <2>1
  <2> HIDE DEF all, positions
  <2> QED
    BY <2>1, <2>2, KeptIsList
<1>4. \A k \in positions : k \in DOMAIN PolicyTitles /\ PolicyTitles[k] \in StatedTitles(hotel)
  BY DEF StatedTitles, ToSet
<1>5. \A title \in StatedTitles(hotel) : \E k \in positions : PolicyTitles[k] = title
  BY DEF StatedTitles, ToSet
<1> HIDE DEF all, positions, kept
<1>6. ASSUME NEW title \in ToSet(PolicyTitles) PROVE PolicyContent(hotel.flags, title) \subseteq HotelFlags(hotel)
  BY Zenon DEF PolicyContent, HotelFlags, FlagsSet, IsSet
<1>7. ASSUME NEW flag \in HotelFlags(hotel) \ ToSet(PropertyFlags)
      PROVE  \E title \in ToSet(PolicyTitles) : flag \in PolicyContent(hotel.flags, title)
  <2>1. PICK title \in ToSet(PolicyTitles) : flag \in PolicyFlags[title]
    BY DEF HotelFlags, FlagsSet
  <2>2. IsSet(hotel.flags, flag)
    BY DEF HotelFlags, FlagsSet, IsSet
  <2>3. flag = "freeParking" => IsSet(hotel.flags, "selfParking") \/ IsSet(hotel.flags, "valet")
    BY DEF HotelFlags, FlagsSet, IsSet
  <2>4. flag \in PolicyContent(hotel.flags, title)
    BY <2>1, <2>2, <2>3 DEF PolicyContent
  <2> QED
    BY <2>4
<1>8. ASSUME NEW p \in ToSet(kept)
      PROVE  p.title \subseteq StatedTitles(hotel) /\ p.content \subseteq HotelFlags(hotel)
  <2>1. PICK k \in positions : p = policy(PolicyTitles[k])
    BY <1>2, <1>3, <1>4
  <2>2. PolicyTitles[k] \in StatedTitles(hotel) /\ PolicyTitles[k] \in ToSet(PolicyTitles)
    BY <1>4 DEF StatedTitles
  <2>3. PolicyContent(hotel.flags, PolicyTitles[k]) \subseteq HotelFlags(hotel)
    BY <1>6, <2>2
  <2>4. p.title = {PolicyTitles[k]} /\ p.content = PolicyContent(hotel.flags, PolicyTitles[k])
    BY <2>1
  <2> QED
    BY <2>2, <2>3, <2>4
<1>9. ASSUME NEW title \in StatedTitles(hotel)
      PROVE  \E p \in ToSet(kept) : p.title = {title} /\ p.content = PolicyContent(hotel.flags, title)
  <2>1. PICK k \in positions : PolicyTitles[k] = title
    BY <1>5
  <2>2. all[k] \in ToSet(kept) /\ all[k] = policy(title)
    BY <1>2, <1>3, <1>4, <2>1
  <2>3. all[k].title = {title} /\ all[k].content = PolicyContent(hotel.flags, title)
    BY <2>2
  <2> QED
    BY <2>2, <2>3
<1>10. ASSUME NEW flag \in HotelFlags(hotel) \ ToSet(PropertyFlags)
       PROVE  \E p \in ToSet(kept) : flag \in p.content
  <2>1. PICK title \in ToSet(PolicyTitles) : flag \in PolicyContent(hotel.flags, title)
    BY <1>7
  <2>2. title \in StatedTitles(hotel)
    BY <2>1 DEF StatedTitles
  <2> QED
    BY <1>9, <2>1, <2>2
<1> QED
  BY <1>1, <1>3, <1>8, <1>9, <1>10

LEMMA PlacesOfHotel ==
    ASSUME NEW hotel, IsHotel(hotel)
    PROVE  /\ IsList(NearbyPlaces(hotel))
           /\ \A h \in ToSet(NearbyPlaces(hotel)) :
                 IsList(h) /\ ToSet(h) \subseteq {{"Nearby places"}} \cup ToSet(hotel.places)
<1> DEFINE heading == <<{"Nearby places"}>>
           h == heading \o hotel.places
<1>1. IsList(heading) /\ ToSet(heading) = {{"Nearby places"}}
  BY ShortLists
<1>2. IsList(h) /\ ToSet(h) = ToSet(heading) \cup ToSet(hotel.places)
  BY <1>1, ConcatIsList DEF IsHotel
<1>3. NearbyPlaces(hotel) = IF hotel.places = <<>> THEN <<>> ELSE <<h>>
  BY DEF NearbyPlaces
<1> HIDE DEF heading, h
<1>4. IsList(<<>>) /\ ToSet(<<>>) = {} /\ IsList(<<h>>) /\ ToSet(<<h>>) = {h}
  BY ShortLists
<1> QED
  BY <1>1, <1>2, <1>3, <1>4

RoomFlagsOf(room) == FlagsSet(room.flags, ToSet(RoomFlags))

LEMMA ContentOfRoom ==
    ASSUME NEW room, IsList(room.amenities), IsList(room.views), IsList(room.beds)
    PROVE  /\ DOMAIN ContentRoom(room) = {"name", "beds", "facilities"}
           /\ ContentRoom(room).name = room.name /\ ContentRoom(room).beds = room.beds
           /\ IsList(ContentRoom(room).facilities)
           /\ \A f \in ToSet(ContentRoom(room).facilities) :
                 /\ f.overview = {}
                 /\ \/ f.name \in (ToSet(room.amenities) \cup ToSet(room.views)) \cup {room.size}
                    \/ f.name \subseteq RoomFlagsOf(room)
           /\ \A t \in ((ToSet(room.amenities) \cup ToSet(room.views)) \cup {room.size}) \ {{}} :
                 \E f \in ToSet(ContentRoom(room).facilities) : f.name = t
           /\ \A flag \in RoomFlagsOf(room) : \E f \in ToSet(ContentRoom(room).facilities) : f.name = {flag}
<1> DEFINE stated(f) == IsSet(room.flags, f) /\ {f} \notin ToSet(room.amenities)
           all == [k \in DOMAIN RoomFlags |-> {RoomFlags[k]}]
           positions == {k \in DOMAIN RoomFlags : stated(RoomFlags[k])}
           flags == Kept(all, positions)
           seen == room.views \o <<room.size>>
           texts == flags \o Given(seen)
           named == Named(room.amenities)
           besides == Facilities(texts, {})
           own == RoomFlagsOf(room)
<1>1. /\ DOMAIN ContentRoom(room) = {"name", "beds", "facilities"}
      /\ ContentRoom(room).name = room.name /\ ContentRoom(room).beds = room.beds
      /\ ContentRoom(room).facilities = named \o besides
  BY DEF ContentRoom
<1>2. /\ IsList(flags)
      /\ \A x \in ToSet(flags) : x \subseteq own
      /\ \A flag \in own : {flag} \in ToSet(flags) \cup ToSet(room.amenities)
  <2>1. IsList(all) /\ DOMAIN all = DOMAIN RoomFlags
    BY FlagLists, SamePlacesIsList
  <2>2. positions \in SUBSET DOMAIN all
    BY <2>1
  <2>3. \A k \in positions : all[k] \subseteq own
    BY DEF RoomFlagsOf, FlagsSet, IsSet, ToSet
  <2>4. ASSUME NEW flag \in own PROVE (\E k \in positions : all[k] = {flag}) \/ {flag} \in ToSet(room.amenities)
    <3>1. PICK k \in DOMAIN RoomFlags : flag = RoomFlags[k]
      BY DEF RoomFlagsOf, FlagsSet, ToSet
    <3>2. IsSet(room.flags, RoomFlags[k])
      BY <3>1 DEF RoomFlagsOf, FlagsSet, IsSet
    <3> QED
      BY <3>1, <3>2
  <2> HIDE DEF all, positions, own
  <2>5. IsList(flags) /\ ToSet(flags) = {all[k] : k \in positions}
    BY <2>1, <2>2, KeptIsList
  <2> HIDE DEF flags
  <2>6. \A flag \in own : {flag} \in ToSet(flags) \cup ToSet(room.amenities)
    <3>1. ASSUME NEW flag \in own PROVE {flag} \in ToSet(flags) \cup ToSet(room.amenities)
      <4>1. CASE \E k \in positions : all[k] = {flag}
        BY <2>5, <4>1
      <4> QED
        BY <2>4, <4>1
    <3> QED
      BY <3>1
  <2> QED
    BY <2>3, <2>5, <2>6
<1>3. IsList(seen) /\ ToSet(seen) = ToSet(room.views) \cup {room.size}
  <2>1. IsList(<<room.size>>) /\ ToSet(<<room.size>>) = {room.size}
    BY ShortLists
  <2>2. IsList(seen) /\ ToSet(seen) = ToSet(room.views) \cup ToSet(<<room.size>>)
    BY <2>1, ConcatIsList
  <2> QED
    BY <2>1, <2>2, Zenon
<1> HIDE DEF flags, seen, own
<1>4. IsList(Given(seen)) /\ ToSet(Given(seen)) = ToSet(seen) \ {{}}
  BY <1>3, GivenIsList
<1>5. IsList(texts) /\ ToSet(texts) = ToSet(flags) \cup ToSet(Given(seen))
  BY <1>2, <1>4, ConcatIsList
<1> HIDE DEF texts
<1>6. IsList(besides) /\ ToSet(besides) = {[name |-> n, overview |-> {}] : n \in ToSet(texts)}
  BY <1>5, FacilitiesAre
<1>7. ASSUME NEW f \in ToSet(besides)
      PROVE  /\ f.overview = {}
             /\ f.name \in ToSet(room.views) \cup {room.size} \/ f.name \subseteq own
  <2>1. PICK n \in ToSet(texts) : f = [name |-> n, overview |-> {}]
    BY <1>6
  <2>2. f.name = n /\ f.overview = {}
    BY <2>1
  <2>3. n \in ToSet(flags) \/ n \in ToSet(Given(seen))
    BY <1>5
  <2> QED
    BY <1>2, <1>3, <1>4, <2>2, <2>3
<1>8. \A n \in ToSet(texts) : \E f \in ToSet(besides) : f.name = n
  <2>1. ASSUME NEW n \in ToSet(texts) PROVE \E f \in ToSet(besides) : f.name = n
    <3>1. [name |-> n, overview |-> {}] \in ToSet(besides)
      BY <1>6
    <3> QED
      BY <3>1
  <2> QED
    BY <2>1
<1>9. /\ IsList(named) /\ \A f \in ToSet(named) : f.overview = {} /\ f.name \in ToSet(room.amenities)
      /\ \A t \in ToSet(room.amenities) \ {{}} : \E f \in ToSet(named) : f.name = t
  BY NamedFacilities
<1> HIDE DEF named, besides
<1>10. IsList(named \o besides) /\ ToSet(named \o besides) = ToSet(named) \cup ToSet(besides)
  BY <1>6, <1>9, ConcatIsList
<1>11. ASSUME NEW t \in ((ToSet(room.amenities) \cup ToSet(room.views)) \cup {room.size}) \ {{}}
       PROVE  \E f \in ToSet(named) \cup ToSet(besides) : f.name = t
  <2>1. t \in ToSet(room.amenities) \ {{}} \/ t \in ToSet(texts)
    BY <1>3, <1>4, <1>5
  <2> QED
    BY <1>8, <1>9, <2>1
<1>12. ASSUME NEW flag \in own PROVE \E f \in ToSet(named) \cup ToSet(besides) : f.name = {flag}
  <2>1. {flag} \in ToSet(room.amenities) \ {{}} \/ {flag} \in ToSet(texts)
    BY <1>2, <1>5
  <2> QED
    BY <1>8, <1>9, <2>1
<1> QED
  BY <1>1, <1>7, <1>9, <1>10, <1>11, <1>12 DEF own

(* What a hotel's payload states. *)
LEMMA StatedParts ==
    ASSUME NEW hotel, IsHotel(hotel), NEW offered
    PROVE  /\ hotel.name \subseteq StatedPhrases(hotel, offered)
           /\ hotel.information \subseteq StatedPhrases(hotel, offered)
           /\ UNION ToSet(hotel.description) \subseteq StatedPhrases(hotel, offered)
           /\ UNION ToSet(hotel.facilities) \subseteq StatedPhrases(hotel, offered)
           /\ UNION ToSet(hotel.places) \subseteq StatedPhrases(hotel, offered)
           /\ \A o \in offered : o.room \cup o.board \subseteq StatedPhrases(hotel, offered)
           /\ HotelFlags(hotel) \subseteq StatedPhrases(hotel, offered)
           /\ StatedTitles(hotel) \subseteq StatedPhrases(hotel, offered)
<1> DEFINE S == StatedPhrases(hotel, offered)
           front == hotel.description \o hotel.facilities
           texts == front \o hotel.places
<1>1. IsList(front) /\ ToSet(front) = ToSet(hotel.description) \cup ToSet(hotel.facilities)
  BY ConcatIsList DEF IsHotel
<1>2. IsList(texts) /\ ToSet(texts) = ToSet(front) \cup ToSet(hotel.places)
  <2> HIDE DEF front
  <2> QED
    BY <1>1, ConcatIsList DEF IsHotel
<1>3. ASSUME NEW t \in {hotel.name, hotel.information} \cup ToSet(texts) PROVE t \subseteq S
  BY Zenon DEF StatedPhrases
<1>4. ASSUME NEW o \in offered PROVE o.room \cup o.board \subseteq S
  BY DEF StatedPhrases
<1>5. HotelFlags(hotel) \subseteq S
  BY Zenon DEF StatedPhrases, HotelFlags, FlagsSet
<1>6. StatedTitles(hotel) \subseteq S
  BY Zenon DEF StatedPhrases, StatedTitles
<1> HIDE DEF S, front, texts
<1> QED
  BY <1>1, <1>2, <1>3, <1>4, <1>5, <1>6 DEF S

(* A room of the catalog that is on offer by its name and by no other's.   *)
OnOffer(hotel, offered, i) ==
    /\ hotel.rooms[i].name # {}
    /\ \E o \in offered : o.room = hotel.rooms[i].name
    /\ \A j \in DOMAIN hotel.rooms \ {i} : hotel.rooms[j].name # hotel.rooms[i].name

LEMMA StatedOfRooms ==
    ASSUME NEW hotel, IsHotel(hotel), NEW offered, NEW i \in DOMAIN hotel.rooms, OnOffer(hotel, offered, i)
    PROVE  /\ hotel.rooms[i].size \subseteq StatedPhrases(hotel, offered)
           /\ UNION ToSet(hotel.rooms[i].amenities) \subseteq StatedPhrases(hotel, offered)
           /\ UNION ToSet(hotel.rooms[i].views) \subseteq StatedPhrases(hotel, offered)
           /\ UNION ToSet(hotel.rooms[i].beds) \subseteq StatedPhrases(hotel, offered)
           /\ RoomFlagsOf(hotel.rooms[i]) \subseteq StatedPhrases(hotel, offered)
<1> DEFINE S == StatedPhrases(hotel, offered)
           room == hotel.rooms[i]
           front == room.amenities \o room.views
           texts == front \o room.beds
<1>1. IsList(room.amenities) /\ IsList(room.views) /\ IsList(room.beds)
  <2>1. room \in ToSet(hotel.rooms)
    BY DEF ToSet
  <2> QED
    BY <2>1 DEF IsHotel
<1>2. IsList(front) /\ ToSet(front) = ToSet(room.amenities) \cup ToSet(room.views)
  BY <1>1, ConcatIsList
<1>3. IsList(texts) /\ ToSet(texts) = ToSet(front) \cup ToSet(room.beds)
  <2> HIDE DEF front, room
  <2> QED
    BY <1>1, <1>2, ConcatIsList
<1>4. (UNION ({room.name, room.size} \cup ToSet(texts))) \cup RoomFlagsOf(room) \subseteq S
  BY DEF StatedPhrases, RoomFlagsOf, FlagsSet, OnOffer
<1> HIDE DEF S, room, front, texts
<1>5. room.size \subseteq S /\ RoomFlagsOf(room) \subseteq S
  BY <1>4
<1>6. UNION ToSet(texts) \subseteq S
  BY <1>4
<1> QED
  BY <1>2, <1>3, <1>5, <1>6 DEF S, room

(* And there is nothing else in what it states. *)
LEMMA StatedWithin ==
    ASSUME NEW hotel, IsHotel(hotel), NEW offered, NEW P,
           hotel.name \subseteq P, hotel.information \subseteq P,
           UNION ToSet(hotel.description) \subseteq P, UNION ToSet(hotel.facilities) \subseteq P,
           UNION ToSet(hotel.places) \subseteq P,
           \A o \in offered : o.room \cup o.board \subseteq P,
           HotelFlags(hotel) \subseteq P, StatedTitles(hotel) \subseteq P,
           \A i \in DOMAIN hotel.rooms : OnOffer(hotel, offered, i) =>
               /\ hotel.rooms[i].size \subseteq P
               /\ UNION ToSet(hotel.rooms[i].amenities) \subseteq P
               /\ UNION ToSet(hotel.rooms[i].views) \subseteq P
               /\ UNION ToSet(hotel.rooms[i].beds) \subseteq P
               /\ RoomFlagsOf(hotel.rooms[i]) \subseteq P
    PROVE  StatedPhrases(hotel, offered) \subseteq P
<1> DEFINE front == hotel.description \o hotel.facilities
           texts == front \o hotel.places
           rooms == {j \in DOMAIN hotel.rooms : OnOffer(hotel, offered, j)}
           row(room) == (room.amenities \o room.views) \o room.beds
           roomTexts(room) == UNION ({room.name, room.size} \cup ToSet(row(room)))
           own == UNION ({hotel.name, hotel.information} \cup ToSet(texts))
           sold == UNION {o.room \cup o.board : o \in offered}
           roomed == UNION {roomTexts(hotel.rooms[i]) \cup RoomFlagsOf(hotel.rooms[i]) : i \in rooms}
<1>1. StatedPhrases(hotel, offered) = (((own \cup sold) \cup HotelFlags(hotel)) \cup StatedTitles(hotel)) \cup roomed
  BY Zenon DEF StatedPhrases, HotelFlags, StatedTitles, RoomFlagsOf, FlagsSet, OnOffer
<1>2. own \subseteq P
  <2>1. IsList(front) /\ ToSet(front) = ToSet(hotel.description) \cup ToSet(hotel.facilities)
    BY ConcatIsList DEF IsHotel
  <2>2. IsList(texts) /\ ToSet(texts) = ToSet(front) \cup ToSet(hotel.places)
    <3> HIDE DEF front
    <3> QED
      BY <2>1, ConcatIsList DEF IsHotel
  <2> HIDE DEF front, texts
  <2>3. \A t \in {hotel.name, hotel.information} \cup ToSet(texts) : t \subseteq P
    BY <2>1, <2>2
  <2> QED
    BY <2>3
<1>3. sold \subseteq P
  OBVIOUS
<1>4. ASSUME NEW i \in rooms
      PROVE  roomTexts(hotel.rooms[i]) \cup RoomFlagsOf(hotel.rooms[i]) \subseteq P
  <2> DEFINE room == hotel.rooms[i]
             first == room.amenities \o room.views
  <2>1. IsList(room.amenities) /\ IsList(room.views) /\ IsList(room.beds)
    <3>1. room \in ToSet(hotel.rooms)
      BY DEF ToSet
    <3> QED
      BY <3>1 DEF IsHotel
  <2>2. /\ room.size \subseteq P /\ UNION ToSet(room.amenities) \subseteq P
        /\ UNION ToSet(room.views) \subseteq P /\ UNION ToSet(room.beds) \subseteq P
        /\ RoomFlagsOf(room) \subseteq P
    OBVIOUS
  <2>3. room.name \subseteq P
    BY DEF OnOffer
  <2> HIDE DEF room
  <2>4. IsList(first) /\ ToSet(first) = ToSet(room.amenities) \cup ToSet(room.views)
    BY <2>1, ConcatIsList
  <2>5. IsList(row(room)) /\ ToSet(row(room)) = ToSet(first) \cup ToSet(room.beds)
    <3> HIDE DEF first
    <3>1. IsList(first \o room.beds) /\ ToSet(first \o room.beds) = ToSet(first) \cup ToSet(room.beds)
      BY <2>1, <2>4, ConcatIsList
    <3> QED
      BY <3>1 DEF first
  <2> HIDE DEF row, first
  <2>6. \A t \in {room.name, room.size} \cup ToSet(row(room)) : t \subseteq P
    BY <2>2, <2>3, <2>4, <2>5
  <2> QED
    BY <2>2, <2>6 DEF room
<1> HIDE DEF own, sold, rooms, roomTexts
<1>5. roomed \subseteq P
  BY <1>4
<1> HIDE DEF roomed
<1> QED
  BY <1>1, <1>2, <1>3, <1>5

Offered(onOffer) == {[room |-> o.room, board |-> o.board] : o \in ToSet(onOffer)}

LEMMA OptionIsTold ==
    ASSUME NEW offer
    PROVE  /\ IsList(OfferOption(offer).choices)
           /\ ToSet(OptionTexts(OfferOption(offer))) \subseteq {offer.room, offer.board}
           /\ offer.room \cup offer.board \subseteq UNION ToSet(OptionTexts(OfferOption(offer)))
<1> DEFINE option == OfferOption(offer)
<1>1. option.name = offer.room /\ option.free = FALSE
      /\ option.choices = IF offer.board = {} THEN <<>> ELSE <<offer.board>>
  BY DEF OfferOption
<1> HIDE DEF option
<1>2. IsList(option.choices) /\ ToSet(option.choices) = {offer.board} \ {{}}
  <2>1. IsList(<<>>) /\ ToSet(<<>>) = {} /\ IsList(<<offer.board>>) /\ ToSet(<<offer.board>>) = {offer.board}
    BY ShortLists
  <2>2. CASE offer.board = {}
    BY <1>1, <2>1, <2>2
  <2>3. CASE offer.board # {}
    BY <1>1, <2>1, <2>3
  <2> QED
    BY <2>2, <2>3
<1>3. ToSet(OptionTexts(option)) =
          {option.name} \cup ToSet(option.choices) \cup IF option.free THEN {{"free cancellation"}} ELSE {}
  BY <1>2, OptionTextsAre
<1>4. ToSet(OptionTexts(option)) = {offer.room} \cup ({offer.board} \ {{}})
  BY <1>1, <1>2, <1>3
<1> QED
  BY <1>2, <1>4 DEF option

(* The name of an offer, and the room of the catalog that alone has it. *)
Catalog(hotel, name) == {i \in DOMAIN hotel.rooms : name # {} /\ hotel.rooms[i].name = name}

Content(hotel, name) ==
    IF Cardinality(Catalog(hotel, name)) = 1
    THEN ContentRoom(hotel.rooms[CHOOSE i \in Catalog(hotel, name) : TRUE])
    ELSE [name |-> name, beds |-> <<>>, facilities |-> <<>>]

LEMMA ContentIsTold ==
    ASSUME NEW hotel, IsHotel(hotel), NEW offered, NEW o \in offered
    PROVE  /\ DOMAIN Content(hotel, o.room) = {"name", "beds", "facilities"}
           /\ Content(hotel, o.room).name = o.room
           /\ IsList(Content(hotel, o.room).beds) /\ IsList(Content(hotel, o.room).facilities)
           /\ UNION ToSet(Content(hotel, o.room).beds) \subseteq StatedPhrases(hotel, offered)
           /\ \A f \in ToSet(Content(hotel, o.room).facilities) :
                 f.overview = {} /\ f.name \subseteq StatedPhrases(hotel, offered)
<1> DEFINE name == o.room
           catalog == Catalog(hotel, name)
           c == Content(hotel, name)
           S == StatedPhrases(hotel, offered)
<1>1. CASE Cardinality(catalog) = 1
  <2> DEFINE i == CHOOSE k \in catalog : TRUE
             room == hotel.rooms[i]
  <2>1. IsFiniteSet(catalog)
    <3>1. IsFiniteSet(DOMAIN hotel.rooms)
      BY ListShape DEF IsHotel
    <3> QED
      BY <3>1, FS_Subset DEF Catalog
  <2>2. PICK x : catalog = {x}
    <3> HIDE DEF catalog
    <3> QED
      BY <1>1, <2>1, FS_Singleton
  <2>3. i \in catalog /\ catalog = {i}
    <3> HIDE DEF catalog
    <3> QED
      BY <2>2
  <2>4. c = ContentRoom(room)
    BY <1>1 DEF Content
  <2> HIDE DEF i
  <2>5. i \in DOMAIN hotel.rooms /\ name # {} /\ room.name = name
    BY <2>3 DEF Catalog
  <2>6. OnOffer(hotel, offered, i)
    BY <2>3, <2>5 DEF OnOffer, Catalog
  <2>7. IsList(room.amenities) /\ IsList(room.views) /\ IsList(room.beds)
    <3>1. room \in ToSet(hotel.rooms)
      BY <2>5 DEF ToSet
    <3> QED
      BY <3>1 DEF IsHotel
  <2>8. /\ room.size \subseteq S /\ UNION ToSet(room.amenities) \subseteq S
        /\ UNION ToSet(room.views) \subseteq S /\ UNION ToSet(room.beds) \subseteq S
        /\ RoomFlagsOf(room) \subseteq S
    BY <2>5, <2>6, StatedOfRooms
  <2> HIDE DEF room, c, S, name
  <2>9. /\ DOMAIN c = {"name", "beds", "facilities"}
        /\ c.name = room.name /\ c.beds = room.beds
        /\ IsList(c.facilities)
        /\ \A f \in ToSet(c.facilities) :
              /\ f.overview = {}
              /\ \/ f.name \in (ToSet(room.amenities) \cup ToSet(room.views)) \cup {room.size}
                 \/ f.name \subseteq RoomFlagsOf(room)
    BY <2>4, <2>7, ContentOfRoom
  <2>10. \A f \in ToSet(c.facilities) : f.overview = {} /\ f.name \subseteq S
    BY <2>8, <2>9
  <2> QED
    BY <2>5, <2>7, <2>8, <2>9, <2>10 DEF c, S, name
<1>2. CASE Cardinality(catalog) # 1
  <2>1. c = [name |-> name, beds |-> <<>>, facilities |-> <<>>]
    BY <1>2 DEF Content
  <2> HIDE DEF c, S
  <2>2. c.name = name /\ c.beds = <<>> /\ c.facilities = <<>> /\ DOMAIN c = {"name", "beds", "facilities"}
    BY <2>1
  <2>3. IsList(<<>>) /\ ToSet(<<>>) = {}
    BY ShortLists
  <2> QED
    BY <2>2, <2>3 DEF c, S
<1> QED
  BY <1>1, <1>2

LEMMA RoomsOnOffer ==
    ASSUME NEW hotel, IsHotel(hotel), NEW onOffer, IsList(onOffer)
    PROVE  /\ IsList(RoomsWithOffers(hotel, onOffer))
           /\ \A room \in ToSet(RoomsWithOffers(hotel, onOffer)) :
                 IsRoom(room) /\ UNION ToSet(RoomTexts(room)) \subseteq StatedPhrases(hotel, Offered(onOffer))
<1> DEFINE offered == Offered(onOffer)
           S == StatedPhrases(hotel, offered)
           same(i) == {j \in DOMAIN onOffer : j = i \/ (onOffer[i].room # {} /\ onOffer[j].room = onOffer[i].room)}
           options == [j \in DOMAIN onOffer |-> OfferOption(onOffer[j])]
           room(i) == Joined(Content(hotel, onOffer[i].room), [options |-> Kept(options, same(i))])
           all == [i \in DOMAIN onOffer |-> room(i)]
           positions == {i \in DOMAIN onOffer : \A j \in same(i) : i <= j}
<1>1. RoomsWithOffers(hotel, onOffer) = Kept(all, positions)
  BY DEF RoomsWithOffers, Content, Catalog
<1>2. IsList(options) /\ DOMAIN options = DOMAIN onOffer
  BY SamePlacesIsList
<1>3. ASSUME NEW i \in DOMAIN onOffer
      PROVE  IsRoom(room(i)) /\ UNION ToSet(RoomTexts(room(i))) \subseteq S
  <2> DEFINE o == [room |-> onOffer[i].room, board |-> onOffer[i].board]
             content == Content(hotel, o.room)
             kept == Kept(options, same(i))
             r == Joined(content, [options |-> kept])
  <2>1. o \in offered
    BY DEF Offered, ToSet
  <2>2. room(i) = r
    OBVIOUS
  <2>3. /\ DOMAIN content = {"name", "beds", "facilities"}
        /\ content.name = o.room
        /\ IsList(content.beds) /\ IsList(content.facilities)
        /\ UNION ToSet(content.beds) \subseteq S
        /\ \A f \in ToSet(content.facilities) : f.overview = {} /\ f.name \subseteq S
    BY <2>1, ContentIsTold
  <2>4. IsList(kept) /\ ToSet(kept) = {options[j] : j \in same(i)}
    <3>1. same(i) \in SUBSET DOMAIN options
      BY <1>2
    <3> HIDE DEF options
    <3> QED
      BY <1>2, <3>1, KeptIsList
  <2>5. ASSUME NEW option \in ToSet(kept)
        PROVE  IsList(option.choices) /\ UNION ToSet(OptionTexts(option)) \subseteq S
    <3>1. PICK j \in same(i) : option = OfferOption(onOffer[j])
      BY <2>4
    <3> DEFINE p == [room |-> onOffer[j].room, board |-> onOffer[j].board]
    <3>2. p \in offered
      BY DEF Offered, ToSet
    <3>3. p.room \cup p.board \subseteq S
      BY <3>2, StatedParts
    <3>4. IsList(option.choices) /\ ToSet(OptionTexts(option)) \subseteq {onOffer[j].room, onOffer[j].board}
      BY <3>1, OptionIsTold
    <3> QED
      BY <3>3, <3>4
  <2>6. /\ r.name = content.name /\ r.beds = content.beds /\ r.facilities = content.facilities
        /\ r.options = kept /\ DOMAIN r = {"name", "beds", "facilities", "options"}
    <3> HIDE DEF content, kept
    <3> QED
      BY <2>3 DEF Joined
  <2>7. content.name \subseteq S
    BY <2>1, <2>3, StatedParts
  <2> HIDE DEF o, content, kept, r, S, room
  <2>8. IsRoom(r)
    BY <2>3, <2>4, <2>5, <2>6 DEF IsRoom
  <2>9. ToSet(RoomTexts(r)) =
            {r.name} \cup ToSet(r.beds) \cup ToSet(FacilityTexts(r.facilities))
                \cup (UNION {ToSet(OptionTexts(x)) : x \in ToSet(r.options)})
    BY <2>8, RoomTextsAre
  <2>10. ToSet(FacilityTexts(r.facilities)) = UNION {{f.name, f.overview} : f \in ToSet(r.facilities)}
    BY <2>3, <2>6, FacilityTextsAre
  <2>11. \A t \in ToSet(FacilityTexts(r.facilities)) : t \subseteq S
    BY <2>3, <2>6, <2>10
  <2>12. \A t \in {r.name} \cup ToSet(r.beds) : t \subseteq S
    BY <2>3, <2>6, <2>7
  <2>13. \A t \in UNION {ToSet(OptionTexts(x)) : x \in ToSet(r.options)} : t \subseteq S
    BY <2>5, <2>6
  <2>14. \A t \in ToSet(RoomTexts(r)) : t \subseteq S
    BY <2>9, <2>11, <2>12, <2>13
  <2> QED
    BY <2>2, <2>8, <2>14
<1>4. IsList(all) /\ DOMAIN all = DOMAIN onOffer
  BY SamePlacesIsList
<1>5. positions \in SUBSET DOMAIN all
  BY <1>4
<1>6. \A i \in positions : all[i] = room(i) /\ i \in DOMAIN onOffer
  OBVIOUS
<1> HIDE DEF all, positions, room, S, same
<1>7. IsList(Kept(all, positions)) /\ ToSet(Kept(all, positions)) = {all[i] : i \in positions}
  BY <1>4, <1>5, KeptIsList
<1>8. ASSUME NEW x \in ToSet(Kept(all, positions))
      PROVE  IsRoom(x) /\ UNION ToSet(RoomTexts(x)) \subseteq S
  <2>1. PICK i \in positions : x = all[i]
    BY <1>7
  <2> QED
    BY <1>3, <1>6, <2>1
<1> QED
  BY <1>1, <1>7, <1>8 DEF S

LEMMA DescribedContent ==
    ASSUME NEW hotel, NEW offered, NEW i \in DOMAIN hotel.rooms, OnOffer(hotel, offered, i)
    PROVE  Content(hotel, hotel.rooms[i].name) = ContentRoom(hotel.rooms[i])
<1> DEFINE catalog == Catalog(hotel, hotel.rooms[i].name)
<1>1. catalog = {i}
  BY DEF Catalog, OnOffer
<1>2. Cardinality({i}) = 1
  BY FS_Singleton
<1>3. (CHOOSE k \in {i} : TRUE) = i
  OBVIOUS
<1> HIDE DEF catalog
<1> QED
  BY <1>1, <1>2, <1>3 DEF Content, catalog

(* Every offer has its room in the listing. *)
LEMMA OffersAreHeard ==
    ASSUME NEW hotel, IsHotel(hotel), NEW onOffer, IsList(onOffer), NEW i \in DOMAIN onOffer
    PROVE  \E room \in ToSet(RoomsWithOffers(hotel, onOffer)) :
              /\ room.name = onOffer[i].room
              /\ room.beds = Content(hotel, onOffer[i].room).beds
              /\ room.facilities = Content(hotel, onOffer[i].room).facilities
              /\ onOffer[i].room \cup onOffer[i].board \subseteq UNION ToSet(RoomTexts(room))
<1> DEFINE same(k) == {j \in DOMAIN onOffer : j = k \/ (onOffer[k].room # {} /\ onOffer[j].room = onOffer[k].room)}
           options == [j \in DOMAIN onOffer |-> OfferOption(onOffer[j])]
           content == Content(hotel, onOffer[i].room)
           room(k) == Joined(Content(hotel, onOffer[k].room), [options |-> Kept(options, same(k))])
           all == [k \in DOMAIN onOffer |-> room(k)]
           positions == {k \in DOMAIN onOffer : \A j \in same(k) : k <= j}
<1>1. RoomsWithOffers(hotel, onOffer) = Kept(all, positions)
  BY DEF RoomsWithOffers, Content, Catalog
<1>2. IsList(options) /\ DOMAIN options = DOMAIN onOffer
  BY SamePlacesIsList
<1>3. \A j \in DOMAIN onOffer : options[j] = OfferOption(onOffer[j])
  OBVIOUS
<1>4. PICK k \in same(i) : \A j \in same(i) : k <= j
  <2>1. same(i) \in SUBSET Nat /\ same(i) # {}
    BY ListShape
  <2> HIDE DEF same
  <2> QED
    BY <2>1, LeastExists
<1>5. k \in DOMAIN onOffer /\ onOffer[k].room = onOffer[i].room /\ i \in same(k) /\ same(k) \subseteq same(i)
  BY <1>4
<1>6. k \in positions /\ positions \in SUBSET DOMAIN onOffer
  BY <1>4, <1>5
<1>7. same(k) \in SUBSET DOMAIN options
  BY <1>2
<1> DEFINE kept == Kept(options, same(k))
           r == Joined(content, [options |-> kept])
<1>8. all[k] = r
  BY <1>5
<1>9. IsList(all) /\ DOMAIN all = DOMAIN onOffer
  BY SamePlacesIsList
<1> HIDE DEF options, all, positions, same
<1>10. IsList(Kept(all, positions)) /\ ToSet(Kept(all, positions)) = {all[x] : x \in positions}
  BY <1>6, <1>9, KeptIsList
<1>11. r \in ToSet(RoomsWithOffers(hotel, onOffer))
  BY <1>1, <1>6, <1>8, <1>10
<1>12. IsRoom(r)
  <2> HIDE DEF r
  <2> QED
    BY <1>11, RoomsOnOffer
<1>13. IsList(kept) /\ ToSet(kept) = {options[j] : j \in same(k)}
  BY <1>2, <1>7, KeptIsList
<1>14. OfferOption(onOffer[i]) \in ToSet(kept)
  BY <1>3, <1>5, <1>13
<1>15. DOMAIN content = {"name", "beds", "facilities"} /\ content.name = onOffer[i].room
  <2> DEFINE o == [room |-> onOffer[i].room, board |-> onOffer[i].board]
  <2>1. o \in Offered(onOffer)
    BY DEF Offered, ToSet
  <2>2. o.room = onOffer[i].room
    OBVIOUS
  <2> HIDE DEF o
  <2>3. DOMAIN Content(hotel, o.room) = {"name", "beds", "facilities"} /\ Content(hotel, o.room).name = o.room
    BY <2>1, ContentIsTold
  <2> QED
    BY <2>2, <2>3
<1> HIDE DEF content, kept
<1>16. r.name = content.name /\ r.beds = content.beds /\ r.facilities = content.facilities /\ r.options = kept
  BY <1>15 DEF Joined
<1> HIDE DEF r
<1>17. ToSet(OptionTexts(OfferOption(onOffer[i]))) \subseteq ToSet(RoomTexts(r))
  <2>1. ToSet(RoomTexts(r)) =
            {r.name} \cup ToSet(r.beds) \cup ToSet(FacilityTexts(r.facilities))
                \cup (UNION {ToSet(OptionTexts(x)) : x \in ToSet(r.options)})
    BY <1>12, RoomTextsAre
  <2> QED
    BY <1>14, <1>16, <2>1
<1>18. onOffer[i].room \cup onOffer[i].board \subseteq UNION ToSet(OptionTexts(OfferOption(onOffer[i])))
  BY OptionIsTold
<1>19. onOffer[i].room \cup onOffer[i].board \subseteq UNION ToSet(RoomTexts(r))
  BY <1>17, <1>18
<1> QED
  BY <1>11, <1>15, <1>16, <1>19 DEF content

Headings == {"Currently closed", "Nearby places"}

LEMMA HotelIsTold ==
    ASSUME NEW id, NEW hotel, IsHotel(hotel), NEW onOffer, IsList(onOffer)
    PROVE  /\ IsNormalized(NormalizeLiteApiListing(id, hotel, onOffer))
           /\ Among(ListingPhrases(NormalizeLiteApiListing(id, hotel, onOffer)))
                  \subseteq DOMAIN Phrases \cap StatedPhrases(hotel, Offered(onOffer))
<1> DEFINE listing == NormalizeLiteApiListing(id, hotel, onOffer)
           S == StatedPhrases(hotel, Offered(onOffer))
           P == S \cup Headings
<1>1. /\ listing.name = hotel.name /\ listing.description = hotel.description
      /\ listing.finePrint = hotel.information /\ listing.facilities = HotelFacilities(hotel)
      /\ listing.rooms = RoomsWithOffers(hotel, onOffer) /\ listing.highlights = NearbyPlaces(hotel)
      /\ listing.policies = HotelPolicies(hotel) /\ listing.optionPrice = {}
      /\ DOMAIN listing = {"id", "name", "type", "description", "finePrint", "facilities", "rooms", "highlights", "policies", "total", "optionPrice"}
  BY DEF NormalizeLiteApiListing
<1>2. /\ hotel.name \subseteq S /\ hotel.information \subseteq S
      /\ UNION ToSet(hotel.description) \subseteq S /\ UNION ToSet(hotel.facilities) \subseteq S
      /\ UNION ToSet(hotel.places) \subseteq S /\ HotelFlags(hotel) \subseteq S
      /\ StatedTitles(hotel) \subseteq S
  BY StatedParts
<1> HIDE DEF listing, S
<1>3. /\ IsList(listing.facilities)
      /\ \A f \in ToSet(listing.facilities) : f.overview \subseteq P /\ f.name \subseteq P
  <2>1. /\ IsList(HotelFacilities(hotel))
        /\ \A f \in ToSet(HotelFacilities(hotel)) :
              /\ f.overview \subseteq {"Currently closed"}
              /\ f.name \in ToSet(hotel.facilities) \/ f.name \subseteq HotelFlags(hotel)
    BY FacilitiesOfHotel
  <2> QED
    BY <1>1, <1>2, <2>1 DEF Headings
<1>4. UNION ToSet(FacilityTexts(listing.facilities)) \subseteq P
  <2>1. ToSet(FacilityTexts(listing.facilities)) = UNION {{f.name, f.overview} : f \in ToSet(listing.facilities)}
    BY <1>3, FacilityTextsAre
  <2> QED
    BY <1>3, <2>1
<1>5. /\ IsList(listing.policies)
      /\ \A p \in ToSet(listing.policies) : p.title \cup p.content \subseteq P
  BY <1>1, <1>2, PoliciesOfHotel
<1>6. /\ IsList(listing.highlights)
      /\ \A h \in ToSet(listing.highlights) : IsList(h) /\ UNION ToSet(h) \subseteq P
  <2>1. /\ IsList(NearbyPlaces(hotel))
        /\ \A h \in ToSet(NearbyPlaces(hotel)) :
              IsList(h) /\ ToSet(h) \subseteq {{"Nearby places"}} \cup ToSet(hotel.places)
    BY PlacesOfHotel
  <2>2. \A t \in {{"Nearby places"}} \cup ToSet(hotel.places) : t \subseteq P
    BY <1>2 DEF Headings
  <2> QED
    BY <1>1, <2>1, <2>2
<1>7. /\ IsList(listing.rooms)
      /\ \A room \in ToSet(listing.rooms) : IsRoom(room) /\ UNION ToSet(RoomTexts(room)) \subseteq P
  BY <1>1, RoomsOnOffer DEF S
<1>8. IsNormalized(listing)
  BY <1>1, <1>3, <1>5, <1>6, <1>7 DEF IsNormalized, IsHotel
<1>9. listing.name \subseteq P /\ listing.finePrint \subseteq P /\ UNION ToSet(listing.description) \subseteq P
  BY <1>1, <1>2
<1>10. ListingPhrases(listing) \subseteq P
  <2> HIDE DEF P
  <2> QED
    BY <1>4, <1>5, <1>6, <1>7, <1>9, PhrasesWithin
<1>11. Headings \cap DOMAIN Phrases = {}
  BY HeadingsAssumption DEF Headings
<1> QED
  BY <1>8, <1>10, <1>11 DEF listing, S, Among

LEMMA HotelIsHeard ==
    ASSUME NEW id, NEW hotel, IsHotel(hotel), NEW onOffer, IsList(onOffer)
    PROVE  StatedPhrases(hotel, Offered(onOffer)) \subseteq ListingPhrases(NormalizeLiteApiListing(id, hotel, onOffer))
<1> DEFINE listing == NormalizeLiteApiListing(id, hotel, onOffer)
           P == ListingPhrases(listing)
<1>1. /\ listing.name = hotel.name /\ listing.description = hotel.description
      /\ listing.finePrint = hotel.information /\ listing.facilities = HotelFacilities(hotel)
      /\ listing.rooms = RoomsWithOffers(hotel, onOffer) /\ listing.highlights = NearbyPlaces(hotel)
      /\ listing.policies = HotelPolicies(hotel)
  BY DEF NormalizeLiteApiListing
<1> HIDE DEF listing
<1>2. hotel.name \subseteq P /\ hotel.information \subseteq P /\ UNION ToSet(hotel.description) \subseteq P
  BY <1>1, PhrasesOfParts
<1>3. ASSUME NEW f \in ToSet(HotelFacilities(hotel)) PROVE f.name \subseteq P
  <2>1. UNION ToSet(FacilityTexts(listing.facilities)) \subseteq P
    BY PhrasesOfParts
  <2>2. ToSet(FacilityTexts(listing.facilities)) = UNION {{x.name, x.overview} : x \in ToSet(listing.facilities)}
    BY <1>1, FacilitiesOfHotel, FacilityTextsAre
  <2>3. f.name \in ToSet(FacilityTexts(listing.facilities))
    BY <1>1, <2>2
  <2> QED
    BY <2>1, <2>3
<1>4. UNION ToSet(hotel.facilities) \subseteq P
  <2>1. ASSUME NEW t \in ToSet(hotel.facilities) \ {{}} PROVE t \subseteq P
    <3>1. PICK f \in ToSet(HotelFacilities(hotel)) : f.name = t
      BY FacilitiesOfHotel
    <3> QED
      BY <1>3, <3>1
  <2> QED
    BY <2>1
<1>5. ASSUME NEW p \in ToSet(HotelPolicies(hotel)) PROVE p.title \cup p.content \subseteq P
  BY <1>1, PhrasesOfParts
<1>6. StatedTitles(hotel) \subseteq P
  <2>1. ASSUME NEW title \in StatedTitles(hotel) PROVE title \in P
    <3>1. PICK p \in ToSet(HotelPolicies(hotel)) : p.title = {title}
      BY PoliciesOfHotel
    <3> QED
      BY <1>5, <3>1
  <2> QED
    BY <2>1
<1>7. HotelFlags(hotel) \subseteq P
  <2>1. ASSUME NEW flag \in HotelFlags(hotel) PROVE flag \in P
    <3>1. CASE flag \in ToSet(PropertyFlags)
      <4>1. flag \in FlagsSet(hotel.flags, ToSet(PropertyFlags))
        BY <3>1 DEF HotelFlags, FlagsSet
      <4>2. PICK f \in ToSet(HotelFacilities(hotel)) : f.name = {flag}
        BY <4>1, FacilitiesOfHotel
      <4> QED
        BY <1>3, <4>2
    <3>2. CASE flag \notin ToSet(PropertyFlags)
      <4>1. PICK p \in ToSet(HotelPolicies(hotel)) : flag \in p.content
        BY <3>2, PoliciesOfHotel
      <4> QED
        BY <1>5, <4>1
    <3> QED
      BY <3>1, <3>2
  <2> QED
    BY <2>1
<1>8. UNION ToSet(hotel.places) \subseteq P
  <2> DEFINE h == <<{"Nearby places"}>> \o hotel.places
  <2>1. CASE hotel.places = <<>>
    BY <2>1 DEF ToSet
  <2>2. CASE hotel.places # <<>>
    <3>1. NearbyPlaces(hotel) = <<h>>
      BY <2>2 DEF NearbyPlaces
    <3>2. ToSet(h) = {{"Nearby places"}} \cup ToSet(hotel.places)
      <4>1. IsList(<<{"Nearby places"}>>) /\ ToSet(<<{"Nearby places"}>>) = {{"Nearby places"}}
        BY ShortLists
      <4>2. ToSet(h) = ToSet(<<{"Nearby places"}>>) \cup ToSet(hotel.places)
        BY <4>1, ConcatIsList DEF IsHotel
      <4> QED
        BY <4>1, <4>2, Zenon
    <3> HIDE DEF h
    <3>3. h \in ToSet(listing.highlights)
      <4>1. ToSet(<<h>>) = {h}
        BY ShortLists
      <4> QED
        BY <1>1, <3>1, <4>1
    <3>4. UNION ToSet(h) \subseteq P
      BY <3>3, PhrasesOfParts
    <3> QED
      BY <3>2, <3>4
  <2> QED
    BY <2>1, <2>2
<1>9. ASSUME NEW room \in ToSet(RoomsWithOffers(hotel, onOffer))
      PROVE  /\ UNION ToSet(RoomTexts(room)) \subseteq P
             /\ UNION ToSet(room.beds) \subseteq P
             /\ \A f \in ToSet(room.facilities) : f.name \subseteq P
  <2>1. UNION ToSet(RoomTexts(room)) \subseteq P
    BY <1>1, PhrasesOfParts
  <2>2. IsRoom(room)
    BY RoomsOnOffer
  <2> DEFINE options == UNION {ToSet(OptionTexts(o)) : o \in ToSet(room.options)}
  <2>3. ToSet(RoomTexts(room)) = (({room.name} \cup ToSet(room.beds)) \cup ToSet(FacilityTexts(room.facilities))) \cup options
    BY <2>2, RoomTextsAre
  <2>4. ToSet(FacilityTexts(room.facilities)) = UNION {{f.name, f.overview} : f \in ToSet(room.facilities)}
    BY <2>2, FacilityTextsAre DEF IsRoom
  <2> HIDE DEF options
  <2>5. ToSet(room.beds) \subseteq ToSet(RoomTexts(room)) /\ \A f \in ToSet(room.facilities) : f.name \in ToSet(RoomTexts(room))
    BY <2>3, <2>4
  <2> HIDE DEF P
  <2> QED
    BY <2>1, <2>5
<1>10. ASSUME NEW o \in Offered(onOffer) PROVE o.room \cup o.board \subseteq P
  <2>1. PICK i \in DOMAIN onOffer : o = [room |-> onOffer[i].room, board |-> onOffer[i].board]
    BY DEF Offered, ToSet
  <2>2. PICK room \in ToSet(RoomsWithOffers(hotel, onOffer)) :
            onOffer[i].room \cup onOffer[i].board \subseteq UNION ToSet(RoomTexts(room))
    BY OffersAreHeard
  <2> QED
    BY <1>9, <2>1, <2>2
<1>11. ASSUME NEW i \in DOMAIN hotel.rooms, OnOffer(hotel, Offered(onOffer), i)
       PROVE  /\ hotel.rooms[i].size \subseteq P
              /\ UNION ToSet(hotel.rooms[i].amenities) \subseteq P
              /\ UNION ToSet(hotel.rooms[i].views) \subseteq P
              /\ UNION ToSet(hotel.rooms[i].beds) \subseteq P
              /\ RoomFlagsOf(hotel.rooms[i]) \subseteq P
  <2> DEFINE raw == hotel.rooms[i]
             c == ContentRoom(raw)
  <2>1. PICK k \in DOMAIN onOffer : onOffer[k].room = raw.name
    <3>1. PICK o \in Offered(onOffer) : o.room = raw.name
      BY <1>11 DEF OnOffer
    <3>2. PICK k \in DOMAIN onOffer : o = [room |-> onOffer[k].room, board |-> onOffer[k].board]
      BY DEF Offered, ToSet
    <3> QED
      BY <3>1, <3>2
  <2>2. Content(hotel, raw.name) = c
    BY <1>11, DescribedContent
  <2>3. PICK room \in ToSet(RoomsWithOffers(hotel, onOffer)) : room.beds = c.beds /\ room.facilities = c.facilities
    BY <2>1, <2>2, OffersAreHeard
  <2>4. IsList(raw.amenities) /\ IsList(raw.views) /\ IsList(raw.beds)
    <3>1. raw \in ToSet(hotel.rooms)
      BY DEF ToSet
    <3> QED
      BY <3>1 DEF IsHotel
  <2> HIDE DEF raw, c, P
  <2>5. /\ c.beds = raw.beds
        /\ \A t \in ((ToSet(raw.amenities) \cup ToSet(raw.views)) \cup {raw.size}) \ {{}} : \E f \in ToSet(c.facilities) : f.name = t
        /\ \A flag \in RoomFlagsOf(raw) : \E f \in ToSet(c.facilities) : f.name = {flag}
    BY <2>4, ContentOfRoom DEF c
  <2>6. UNION ToSet(room.beds) \subseteq P /\ \A f \in ToSet(c.facilities) : f.name \subseteq P
    BY <1>9, <2>3
  <2>7. \A t \in (ToSet(raw.amenities) \cup ToSet(raw.views)) \cup {raw.size} : t \subseteq P
    <3>1. ASSUME NEW t \in ((ToSet(raw.amenities) \cup ToSet(raw.views)) \cup {raw.size}) \ {{}} PROVE t \subseteq P
      BY <2>5, <2>6
    <3> QED
      BY <3>1
  <2>8. RoomFlagsOf(raw) \subseteq P
    <3>1. ASSUME NEW flag \in RoomFlagsOf(raw) PROVE flag \in P
      <4>1. PICK f \in ToSet(c.facilities) : f.name = {flag}
        BY <2>5
      <4> QED
        BY <2>6, <4>1
    <3> QED
      BY <3>1
  <2>9. raw.size \subseteq P /\ UNION ToSet(raw.amenities) \subseteq P /\ UNION ToSet(raw.views) \subseteq P
    BY <2>7
  <2> QED
    BY <2>3, <2>5, <2>6, <2>8, <2>9 DEF raw
<1> HIDE DEF P
<1> QED
  BY <1>2, <1>4, <1>6, <1>7, <1>8, <1>10, <1>11, StatedWithin DEF P, listing

LEMMA OffersAreAList ==
    ASSUME NEW reply \in RatesReplies \cup {<<>>}, NEW h
    PROVE  IsList(OffersOf(reply, h)) /\ ToSet(OffersOf(reply, h)) \subseteq Rate
<1> DEFINE T == [hotel : STRING, offers : Seq(Rate)]
           n == Len(reply)
           parts == [i \in DOMAIN reply |-> IF reply[i].hotel = h THEN reply[i].offers ELSE <<>>]
<1>1. reply \in Seq(T)
  <2>1. CASE reply \in RatesReplies
    BY <2>1, LiteApiAssumption
  <2>2. CASE reply = <<>>
    BY <2>2, EmptySeq
  <2> QED
    BY <2>1, <2>2
<1>2. n \in Nat /\ DOMAIN reply = 1 .. n /\ \A i \in 1 .. n : reply[i] \in T
  <2> HIDE DEF T
  <2> QED
    BY <1>1, ElementOfSeq, LenProperties
<1>3. parts \in [1 .. n -> Seq(Rate)]
  <2>1. \A i \in 1 .. n : reply[i].offers \in Seq(Rate)
    BY <1>2
  <2>2. <<>> \in Seq(Rate)
    BY EmptySeq
  <2> HIDE DEF T, n
  <2> QED
    BY <1>2, <2>1, <2>2
<1>4. parts \in Seq(Seq(Rate))
  <2> HIDE DEF parts, n
  <2> QED
    BY <1>2, <1>3, SeqDef
<1>5. OffersOf(reply, h) = FlattenSeq(parts)
  BY DEF OffersOf
<1> HIDE DEF parts
<1>6. FlattenSeq(parts) \in Seq(Rate)
  BY <1>4, FlattenLocates
<1> QED
  BY <1>5, <1>6, SeqIsList

LEMMA NormalizedIsTold ==
    ASSUME NEW name \in DOMAIN Hotels, NEW h, offers \in RatesReplies, OffersOf(offers, h) \in OfferLists
    PROVE  LET l == NormalizeListing(h, name)
           IN  /\ l.of = name
               /\ GroundedIn(DOMAIN Phrases \cap StatedPhrases(Hotels[name], l.offered), l)
<1> DEFINE set == OffersOf(offers, h)
           offered == {[room |-> o.room, board |-> o.board] : o \in ToSet(set)}
           of == Described(name, set)
           built == CHOOSE n \in Normalized : n.of = name /\ n.offers = set
           l == NormalizeListing(h, name)
<1>1. of \in Normalized /\ of.of = name /\ of.offers = set
  <2>1. of \in Normalized
    <3>1. set \in OfferLists
      OBVIOUS
    <3> HIDE DEF set
    <3> QED
      BY <3>1 DEF Normalized
  <2>2. of.of = name /\ of.offers = set
    BY DEF Described
  <2> QED
    BY <2>1, <2>2
<1>2. built \in Normalized /\ built.of = name /\ built.offers = set
  BY <1>1
<1>3. built.listing = Candidate(NormalizeLiteApiListing(<<"id", name>>, Hotels[name], set), name, offered)
  <2> HIDE DEF built, set, offered
  <2>1. PICK n \in DOMAIN Hotels, s \in OfferLists : built = Described(n, s)
    BY <1>2 DEF Normalized
  <2>2. n = name /\ s = set
    BY <1>2, <2>1 DEF Described
  <2> QED
    BY <2>1, <2>2 DEF Described, offered
<1>4. IsList(set)
  BY OffersAreAList
<1>5. l = built.listing
  BY DEF NormalizeListing
<1>6. IsHotel(Hotels[name])
  BY LiteApiAssumption
<1>7. offered = Offered(set)
  BY DEF Offered
<1> HIDE DEF built, set, l, offered
<1> DEFINE normal == NormalizeLiteApiListing(<<"id", name>>, Hotels[name], set)
           P == DOMAIN Phrases \cap StatedPhrases(Hotels[name], offered)
           c == Candidate(normal, name, offered)
<1>8. IsNormalized(normal) /\ Among(ListingPhrases(normal)) \subseteq P
  BY <1>4, <1>6, <1>7, HotelIsTold
<1> HIDE DEF normal, P
<1>9. GroundedIn(P, c) /\ c.of = name /\ c.offered = offered
  BY <1>8, CandidateIsTold
<1> HIDE DEF c
<1>10. l = c
  BY <1>3, <1>5 DEF c, normal
<1> QED
  BY <1>9, <1>10 DEF l, P

-----------------------------------------------------------------------------
(* What is told of a candidate is in its signals, and its numbers are      *)
(* numbers.                                                                *)

Counts(l) == {m.count : m \in l.bedrooms}

Measured(l) ==
    /\ \A t \in l.total \cup l.optionPrice : t.amount \in Int
    /\ IsFiniteSet(Counts(l)) /\ Counts(l) \subseteq Int
    /\ IsFiniteSet(l.bathrooms) /\ l.bathrooms \subseteq Int

LEMMA MentionsAreFinite ==
    ASSUME NEW text
    PROVE  /\ IsFiniteSet(UNION {Phrases[p].bedrooms : p \in Among(text)})
           /\ UNION {Phrases[p].bedrooms : p \in Among(text)} \subseteq Int
           /\ IsFiniteSet(UNION {Phrases[p].bathrooms : p \in Among(text)})
           /\ UNION {Phrases[p].bathrooms : p \in Among(text)} \subseteq Int
<1> DEFINE A == Among(text)
           beds == [p \in A |-> Phrases[p].bedrooms]
           baths == [p \in A |-> Phrases[p].bathrooms]
<1>1. IsFiniteSet(A) /\ A \subseteq DOMAIN Phrases
  <2>1. A \subseteq DOMAIN Phrases
    BY DEF Among
  <2> QED
    BY <2>1, ListingAssumption, FS_Subset
<1>2. ASSUME NEW p \in A
      PROVE  /\ IsFiniteSet(Phrases[p].bedrooms) /\ Phrases[p].bedrooms \subseteq Int
             /\ IsFiniteSet(Phrases[p].bathrooms) /\ Phrases[p].bathrooms \subseteq Int
  BY <1>1, ListingAssumption
<1> HIDE DEF A
<1>3. ASSUME NEW f, \A p \in A : IsFiniteSet(f[p])
      PROVE  IsFiniteSet(UNION {f[p] : p \in A})
  <2>1. IsFiniteSet({f[p] : p \in A})
    BY <1>1, ImageIsFinite
  <2> DEFINE F == {f[p] : p \in A}
  <2>2. \A T \in F : IsFiniteSet(T)
    BY <1>3
  <2> HIDE DEF F
  <2>3. IsFiniteSet(UNION F)
    BY <2>1, <2>2, FS_UNION DEF F
  <2> QED
    BY <2>3 DEF F
<1>4. \A p \in A : beds[p] = Phrases[p].bedrooms /\ baths[p] = Phrases[p].bathrooms
  OBVIOUS
<1>5. {beds[p] : p \in A} = {Phrases[p].bedrooms : p \in A} /\ {baths[p] : p \in A} = {Phrases[p].bathrooms : p \in A}
  OBVIOUS
<1> HIDE DEF beds, baths
<1>6. IsFiniteSet(UNION {beds[p] : p \in A}) /\ IsFiniteSet(UNION {baths[p] : p \in A})
  BY <1>2, <1>3, <1>4
<1>7. UNION {Phrases[p].bedrooms : p \in A} \subseteq Int /\ UNION {Phrases[p].bathrooms : p \in A} \subseteq Int
  BY <1>2
<1> QED
  BY <1>5, <1>6, <1>7 DEF A

LEMMA CandidateIsHeard ==
    ASSUME NEW listing, IsNormalized(listing), \A t \in listing.total : t.amount \in Int, NEW of, NEW offered
    PROVE  /\ ListingPhrases(listing) \subseteq TextsOf(Candidate(listing, of, offered).signals)
           /\ Measured(Candidate(listing, of, offered))
<1> DEFINE l == Candidate(listing, of, offered)
           unit == UNION UnitTexts(listing)
           lines == UNION ToSet(listing.description)
           in(text) == UNION {Phrases[p].bedrooms : p \in Among(text)}
           baths == UNION (UnitTexts(listing) \cup ToSet(listing.description))
<1>1. /\ l.signals = CollectListingSignals(listing) /\ l.total = listing.total /\ l.optionPrice = listing.optionPrice
      /\ l.bedrooms = BedroomMentions(listing) /\ l.bathrooms = BathroomMentions(listing)
  BY DEF Candidate
<1> HIDE DEF l
<1>2. ListingPhrases(listing) \subseteq TextsOf(l.signals)
  BY <1>1, ListingSignalsWord DEF Word
<1>3. Counts(l) = in(unit) \cup in(lines)
  <2>1. l.bedrooms = {[count |-> n, inRoom |-> TRUE] : n \in in(unit)} \cup {[count |-> n, inRoom |-> FALSE] : n \in in(lines)}
    BY <1>1 DEF BedroomMentions
  <2> HIDE DEF in
  <2>2. ASSUME NEW n \in in(unit) \cup in(lines) PROVE n \in Counts(l)
    <3>1. CASE n \in in(unit)
      <4>1. [count |-> n, inRoom |-> TRUE] \in l.bedrooms /\ [count |-> n, inRoom |-> TRUE].count = n
        BY <2>1, <3>1
      <4> QED
        BY <4>1, Zenon DEF Counts
    <3>2. CASE n \in in(lines)
      <4>1. [count |-> n, inRoom |-> FALSE] \in l.bedrooms /\ [count |-> n, inRoom |-> FALSE].count = n
        BY <2>1, <3>2
      <4> QED
        BY <4>1, Zenon DEF Counts
    <3> QED
      BY <3>1, <3>2
  <2>3. ASSUME NEW m \in l.bedrooms PROVE m.count \in in(unit) \cup in(lines)
    <3>1. CASE m \in {[count |-> n, inRoom |-> TRUE] : n \in in(unit)}
      <4>1. PICK n \in in(unit) : m = [count |-> n, inRoom |-> TRUE]
        BY <3>1
      <4>2. m.count = n
        BY <4>1
      <4> QED
        BY <4>2
    <3>2. CASE m \in {[count |-> n, inRoom |-> FALSE] : n \in in(lines)}
      <4>1. PICK n \in in(lines) : m = [count |-> n, inRoom |-> FALSE]
        BY <3>2
      <4>2. m.count = n
        BY <4>1
      <4> QED
        BY <4>2
    <3> QED
      BY <2>1, <3>1, <3>2
  <2> QED
    BY <2>2, <2>3 DEF Counts
<1>4. IsFiniteSet(in(unit)) /\ IsFiniteSet(in(lines)) /\ in(unit) \subseteq Int /\ in(lines) \subseteq Int
  BY MentionsAreFinite
<1>5. l.bathrooms = UNION {Phrases[p].bathrooms : p \in Among(baths)}
  BY <1>1 DEF BathroomMentions
<1>6. IsFiniteSet(l.bathrooms) /\ l.bathrooms \subseteq Int
  <2> HIDE DEF baths
  <2> QED
    BY <1>5, MentionsAreFinite
<1> HIDE DEF in
<1>7. IsFiniteSet(Counts(l)) /\ Counts(l) \subseteq Int
  BY <1>3, <1>4, FS_Union
<1>8. \A t \in listing.optionPrice : t.amount \in Int
  BY DEF IsNormalized
<1> QED
  BY <1>1, <1>2, <1>6, <1>7, <1>8 DEF Measured, l

LEMMA SampledIsHeard ==
    ASSUME NEW i \in DOMAIN Samples
    PROVE  /\ ListingPhrases(Samples[i].listing) \subseteq TextsOf(Sampled[i].signals)
           /\ Measured(Sampled[i])
<1> DEFINE base == Samples[i].listing
           added == [total |-> {}]
           listing == Joined(added, base)
<1>1. IsNormalized(base)
  <2>1. Samples[i] \in ToSet(Samples)
    BY DEF ToSet
  <2> QED
    BY <2>1, FixturesAssumption
<1>2. /\ listing.name = base.name /\ listing.type = base.type /\ listing.description = base.description
      /\ listing.finePrint = base.finePrint /\ listing.facilities = base.facilities /\ listing.rooms = base.rooms
      /\ listing.highlights = base.highlights /\ listing.policies = base.policies
      /\ listing.optionPrice = base.optionPrice /\ listing.total = {}
      /\ DOMAIN base \subseteq DOMAIN listing
  <2>1. DOMAIN added = {"total"} /\ added.total = {}
    OBVIOUS
  <2> HIDE DEF base, added, listing
  <2>2. \A x \in DOMAIN base \ {"total"} : Joined(added, base)[x] = base[x]
    <3>1. \A x \in DOMAIN base \ DOMAIN added : Joined(added, base)[x] = base[x]
      BY JoinedKeeps
    <3> QED
      BY <2>1, <3>1
  <2>3. {"name", "type", "description", "finePrint", "facilities", "rooms", "highlights", "policies", "optionPrice"}
            \subseteq DOMAIN base \ {"total"}
    BY <1>1 DEF IsNormalized
  <2>4. DOMAIN base \subseteq DOMAIN Joined(added, base) /\ Joined(added, base).total = {}
    <3>1. DOMAIN Joined(added, base) = DOMAIN added \cup DOMAIN base
          /\ \A x \in DOMAIN added : Joined(added, base)[x] = added[x]
      BY JoinedKeeps
    <3> QED
      BY <2>1, <3>1
  <2> QED
    BY <2>2, <2>3, <2>4 DEF listing
<1> HIDE DEF base, added, listing
<1>3. IsNormalized(listing)
  BY <1>1, <1>2 DEF IsNormalized
<1>4. ListingPhrases(listing) = ListingPhrases(base)
  BY <1>2 DEF ListingPhrases
<1>5. Sampled[i] = Candidate(listing, i, {})
  BY DEF Sampled, listing, added, base
<1>6. \A t \in listing.total : t.amount \in Int
  BY <1>2
<1> QED
  BY <1>3, <1>4, <1>5, <1>6, CandidateIsHeard DEF base

LEMMA ScrapedIsHeard ==
    ASSUME NEW name \in DOMAIN Items
    PROVE  /\ ItemPhrases(Items[name]) \subseteq TextsOf(Scrapings[name].signals)
           /\ Measured(Scrapings[name])
<1> DEFINE listing == NormalizeApifyListing(Items[name])
<1>1. IsNormalized(listing) /\ ListingPhrases(listing) = ItemPhrases(Items[name])
  BY ItemIsHeard
<1>2. Scrapings[name] = Candidate(listing, name, {})
  BY DEF Scrapings
<1>3. \A t \in listing.total : t.amount \in Int
  <2>1. listing.total = Items[name].total
    BY DEF NormalizeApifyListing
  <2> QED
    BY <2>1, ApifyAssumption
<1> HIDE DEF listing
<1> QED
  BY <1>1, <1>2, <1>3, CandidateIsHeard

LEMMA NormalizedIsHeard ==
    ASSUME NEW name \in DOMAIN Hotels, NEW h, offers \in RatesReplies, OffersOf(offers, h) \in OfferLists
    PROVE  LET l == NormalizeListing(h, name)
           IN  StatedPhrases(Hotels[name], l.offered) \subseteq TextsOf(l.signals) /\ Measured(l)
<1> DEFINE set == OffersOf(offers, h)
           offered == {[room |-> o.room, board |-> o.board] : o \in ToSet(set)}
           of == Described(name, set)
           built == CHOOSE n \in Normalized : n.of = name /\ n.offers = set
           l == NormalizeListing(h, name)
<1>1. of \in Normalized /\ of.of = name /\ of.offers = set
  <2>1. of \in Normalized
    <3>1. set \in OfferLists
      OBVIOUS
    <3> HIDE DEF set
    <3> QED
      BY <3>1 DEF Normalized
  <2>2. of.of = name /\ of.offers = set
    BY DEF Described
  <2> QED
    BY <2>1, <2>2
<1>2. built \in Normalized /\ built.of = name /\ built.offers = set
  BY <1>1
<1>3. built.listing = Candidate(NormalizeLiteApiListing(<<"id", name>>, Hotels[name], set), name, offered)
  <2> HIDE DEF built, set, offered
  <2>1. PICK n \in DOMAIN Hotels, s \in OfferLists : built = Described(n, s)
    BY <1>2 DEF Normalized
  <2>2. n = name /\ s = set
    BY <1>2, <2>1 DEF Described
  <2> QED
    BY <2>1, <2>2 DEF Described, offered
<1>4. IsList(set) /\ ToSet(set) \subseteq Rate
  BY OffersAreAList
<1>5. l = built.listing
  BY DEF NormalizeListing
<1>6. IsHotel(Hotels[name])
  BY LiteApiAssumption
<1>7. offered = Offered(set)
  BY DEF Offered
<1> HIDE DEF built, set, l, offered
<1> DEFINE normal == NormalizeLiteApiListing(<<"id", name>>, Hotels[name], set)
           c == Candidate(normal, name, offered)
<1>8. IsNormalized(normal) /\ StatedPhrases(Hotels[name], offered) \subseteq ListingPhrases(normal)
  BY <1>4, <1>6, <1>7, HotelIsTold, HotelIsHeard
<1>9. \A t \in normal.total : t.amount \in Int
  <2>1. normal.total = BestPrice(set)
    BY DEF NormalizeLiteApiListing
  <2>2. ASSUME NEW o \in ToSet(set), NEW t \in PublicTotal(o) PROVE t.amount \in Int
    <3>1. o.ssp \subseteq Prices
      BY <1>4 DEF Rate
    <3>2. t \in o.ssp
      BY DEF PublicTotal
    <3> QED
      BY <3>1, <3>2 DEF Prices
  <2>3. \A t \in BestPrice(set) : \E o \in ToSet(set) : t \in PublicTotal(o)
    BY DEF BestPrice
  <2> QED
    BY <2>1, <2>2, <2>3
<1> HIDE DEF normal
<1>10. ListingPhrases(normal) \subseteq TextsOf(c.signals) /\ Measured(c) /\ c.offered = offered
  <2>1. c.offered = offered
    BY DEF Candidate
  <2> QED
    BY <1>8, <1>9, <2>1, CandidateIsHeard
<1> HIDE DEF c
<1>11. l = c
  BY <1>3, <1>5 DEF c, normal
<1> QED
  BY <1>8, <1>10, <1>11 DEF l

-----------------------------------------------------------------------------
(* What a structured match rests on. *)

LEMMA TripleIsList ==
    ASSUME NEW a, NEW b, NEW c
    PROVE  IsList(<<a, b, c>>)
<1>1. <<a, b, c>> \in Seq({a, b, c})
  OBVIOUS
<1> QED
  BY <1>1, SeqIsList

LEMMA JoinedLists ==
    ASSUME NEW f, NEW g, \A x \in DOMAIN f : IsList(f[x]), \A x \in DOMAIN g : IsList(g[x])
    PROVE  \A x \in DOMAIN Joined(f, g) : IsList(Joined(f, g)[x])
BY DEF Joined

LEMMA PlacesAreLists ==
    ASSUME NEW f \in DOMAIN PreferredPlaces
    PROVE  IsList(PreferredPlaces[f])
<1> DEFINE rooms == [g \in {"kitchen", "wifi", "air_conditioning", "washing_machine", "oven", "microwave",
                            "refrigerator", "kettle", "coffee_machine"} |-> RoomFirst]
           policies == [g \in {"non_smoking", "smoking_allowed", "parties_allowed", "children_allowed"} |-> PoliciesFirst]
           others == [private_bathroom  |-> <<"rooms", "description">>,
                      balcony           |-> <<"rooms", "highlights", "description">>,
                      free_cancellation |-> <<"rooms", "policies", "highlights">>,
                      pet_friendly      |-> <<"policies", "description", "highlights">>,
                      parking           |-> <<"highlights", "facilities", "description">>]
           rest == Joined(policies, others)
<1>1. PreferredPlaces = Joined(rooms, rest)
  BY DEF PreferredPlaces
<1>2. \A g \in DOMAIN rooms : IsList(rooms[g])
  <2>1. IsList(RoomFirst)
    BY TripleIsList DEF RoomFirst
  <2>2. \A g \in DOMAIN rooms : rooms[g] = RoomFirst
    OBVIOUS
  <2> HIDE DEF rooms
  <2> QED
    BY <2>1, <2>2, Zenon
<1>3. \A g \in DOMAIN policies : IsList(policies[g])
  <2>1. IsList(PoliciesFirst)
    BY ShortLists DEF PoliciesFirst
  <2>2. \A g \in DOMAIN policies : policies[g] = PoliciesFirst
    OBVIOUS
  <2> HIDE DEF policies
  <2> QED
    BY <2>1, <2>2, Zenon
<1>4. \A g \in DOMAIN others : IsList(others[g])
  <2>1. DOMAIN others = {"private_bathroom", "balcony", "free_cancellation", "pet_friendly", "parking"}
    OBVIOUS
  <2>2. /\ IsList(<<"rooms", "description">>) /\ IsList(<<"rooms", "highlights", "description">>)
        /\ IsList(<<"rooms", "policies", "highlights">>) /\ IsList(<<"policies", "description", "highlights">>)
        /\ IsList(<<"highlights", "facilities", "description">>)
    BY ShortLists, TripleIsList
  <2>3. /\ others["private_bathroom"] = <<"rooms", "description">>
        /\ others["balcony"] = <<"rooms", "highlights", "description">>
        /\ others["free_cancellation"] = <<"rooms", "policies", "highlights">>
        /\ others["pet_friendly"] = <<"policies", "description", "highlights">>
        /\ others["parking"] = <<"highlights", "facilities", "description">>
    OBVIOUS
  <2> HIDE DEF others
  <2> QED
    BY <2>1, <2>2, <2>3
<1> HIDE DEF rooms, policies, others
<1>5. \A g \in DOMAIN rest : IsList(rest[g])
  BY <1>3, <1>4, JoinedLists
<1> HIDE DEF rest
<1>6. \A g \in DOMAIN Joined(rooms, rest) : IsList(Joined(rooms, rest)[g])
  BY <1>2, <1>5, JoinedLists
<1> QED
  BY <1>1, <1>6

LEMMA RanksAreNumbers ==
    ASSUME NEW f \in DOMAIN PreferredPlaces, NEW s
    PROVE  PathRank(s, f) \in Nat
<1> DEFINE places == PreferredPlaces[f]
           found == {i \in DOMAIN places : places[i] = s.place}
           first == CHOOSE i \in found : \A j \in found : i <= j
<1>1. Len(places) \in Nat /\ DOMAIN places = 1 .. Len(places)
  BY PlacesAreLists, ListShape
<1>2. found \in SUBSET Nat
  BY <1>1
<1>3. PathRank(s, f) = IF found = {} THEN Len(places) + 1 ELSE first
  BY DEF PathRank
<1>4. ASSUME found # {} PROVE first \in Nat
  <2> HIDE DEF found
  <2>1. \E i \in found : \A j \in found : i <= j
    BY <1>2, <1>4, LeastExists
  <2> QED
    BY <1>2, <2>1
<1> HIDE DEF found, first, places
<1> QED
  BY <1>1, <1>3, <1>4

LEMMA SaysFinitely ==
    ASSUME NEW text
    PROVE  IsFiniteSet(Says(text)) /\ \A h \in Says(text) : h.length \in Nat
<1> DEFINE says == [p \in DOMAIN Phrases |-> Phrases[p].says]
           S == {says[p] : p \in Among(text)}
<1>1. IsFiniteSet(Among(text)) /\ Among(text) \subseteq DOMAIN Phrases
  BY FS_Subset, ListingAssumption DEF Among
<1>2. Says(text) = UNION S
  BY <1>1 DEF Says
<1>3. \A p \in Among(text) : IsFiniteSet(says[p]) /\ \A h \in says[p] : h.length \in Nat
  BY <1>1, ListingAssumption
<1> HIDE DEF says
<1>4. IsFiniteSet(S)
  BY <1>1, ImageIsFinite
<1>5. \A x \in S : IsFiniteSet(x)
  BY <1>3
<1> HIDE DEF S
<1>6. IsFiniteSet(UNION S)
  BY <1>4, <1>5, FS_UNION
<1>7. \A h \in UNION S : h.length \in Nat
  BY <1>3 DEF S
<1> QED
  BY <1>2, <1>6, <1>7

LEMMA BestSignalExists ==
    ASSUME NEW P, NEW l, GroundedIn(P, l), NEW f \in DOMAIN PreferredPlaces, NEW side,
           NEW c \in DOMAIN l.signals, Hits(l.signals[c], f, side) # {}
    PROVE  FindBestSignal(l.signals, f, side) # {}
<1> DEFINE signals == l.signals
           candidates == {i \in DOMAIN signals : Hits(signals[i], f, side) # {}}
           lengths(i) == {h.length : h \in Hits(signals[i], f, side)}
           length(i) == CHOOSE n \in lengths(i) : \A m \in lengths(i) : m <= n
           rank(i) == PathRank(signals[i], f)
           before(i, j) == \/ rank(i) < rank(j)
                           \/ rank(i) = rank(j) /\ length(i) > length(j)
                           \/ rank(i) = rank(j) /\ length(i) = length(j) /\ i <= j
           R == {p \in candidates \X candidates : before(p[1], p[2]) /\ p[1] # p[2]}
<1>1. FindBestSignal(signals, f, side) = {i \in candidates : \A j \in candidates : before(i, j)}
  BY DEF FindBestSignal
<1>2. IsList(signals) /\ \A s \in ToSet(signals) : IsSignal(s, P)
  BY DEF GroundedIn
<1>3. candidates \subseteq DOMAIN signals /\ DOMAIN signals \subseteq Nat /\ IsFiniteSet(candidates)
  BY <1>2, ListShape, FS_Subset
<1>4. c \in candidates
  OBVIOUS
<1>5. ASSUME NEW i \in candidates PROVE length(i) \in Int
  <2> DEFINE hits == Hits(signals[i], f, side)
             of == [h \in hits |-> h.length]
  <2>1. signals[i] \in ToSet(signals)
    BY DEF ToSet
  <2>2. signals[i].says = Says(signals[i].text)
    BY <1>2, <2>1 DEF IsSignal
  <2>3. IsFiniteSet(signals[i].says) /\ \A h \in signals[i].says : h.length \in Nat
    BY <2>2, SaysFinitely
  <2>4. IsFiniteSet(hits) /\ hits # {} /\ \A h \in hits : h.length \in Nat
    BY <2>3, FS_Subset DEF Hits
  <2> HIDE DEF hits
  <2>5. lengths(i) = {of[h] : h \in hits}
    BY DEF hits
  <2> HIDE DEF of
  <2>6. IsFiniteSet(lengths(i))
    BY <2>4, <2>5, ImageIsFinite
  <2>7. lengths(i) \in SUBSET Int /\ lengths(i) # {}
    BY <2>4 DEF hits
  <2> HIDE DEF lengths
  <2>8. \E n \in lengths(i) : \A m \in lengths(i) : m <= n
    BY <2>6, <2>7, GreatestExists
  <2> QED
    BY <2>7, <2>8
<1>6. \A i \in candidates : rank(i) \in Nat /\ i \in Nat
  BY <1>3, RanksAreNumbers
<1> HIDE DEF candidates, length, rank, signals
<1>7. \A i, j \in candidates : <<i, j>> \in R <=> before(i, j) /\ i # j
  OBVIOUS
<1> HIDE DEF R
<1>8. StrictOrder(R, candidates)
  <2>1. \A i, j \in candidates : before(i, j) \/ before(j, i)
    BY <1>5, <1>6
  <2>2. \A i, j \in candidates : before(i, j) /\ before(j, i) => i = j
    BY <1>5, <1>6
  <2>3. \A i, j, k \in candidates : before(i, j) /\ before(j, k) => before(i, k)
    BY <1>5, <1>6
  <2> HIDE DEF before
  <2> QED
    BY <1>7, <2>1, <2>2, <2>3 DEF StrictOrder
<1>9. PICK i \in candidates : \A j \in candidates : j = i \/ <<i, j>> \in R
  BY <1>3, <1>4, <1>8, FirstExists
<1>10. ASSUME NEW j \in candidates PROVE before(i, j)
  <2>1. CASE j = i
    BY <1>5, <1>6, <2>1
  <2>2. CASE <<i, j>> \in R
    BY <1>7, <2>2
  <2> QED
    BY <1>9, <2>1, <2>2
<1> HIDE DEF before
<1> QED
  BY <1>1, <1>10 DEF signals

-----------------------------------------------------------------------------
(* What is known of the evaluated listings: their values have evidence. *)

Grounded(r, l) == GroundedIn(ToldPhrases(r, l), l)

FieldsTold(r, x) ==
    \A f \in DOMAIN x.matches :
        /\ x.matches[f] = "NO" => Denied(r, x.listing, f)
        /\ x.matches[f] = "YES" => Affirmed(r, x.listing, f)

NumbersTold(r, x) ==
    \A a \in DOMAIN x.numeric \ {"price_total"} :
        /\ x.numeric[a] = "NO" => Misses(r, x, a)
        /\ x.numeric[a] = "YES" => \E m \in Mentions(x, a) : InRange(m, r.filters[a])

PriceTold(r, x) ==
    "price_total" \in DOMAIN x.numeric =>
        /\ x.numeric["price_total"] = "NO" => OverBudget(r, x)
        /\ x.numeric["price_total"] = "YES" =>
              ExtractTotalPrice(x.listing) # {} /\ \A scope \in Scopes(r) : ~OutsideAs(r, x, scope)

DecisionsTold(r, x) ==
    \A c \in DOMAIN x.results :
        /\ Blocking(r.constraints[c])
        /\ x.results[c] = "NO" => Quoted(r, x, c, Against)
        /\ x.results[c] = "YES" => Quoted(r, x, c, {"supports"})

Told(r, x) ==
    Grounded(r, x.listing) /\ FieldsTold(r, x) /\ NumbersTold(r, x) /\ PriceTold(r, x) /\ DecisionsTold(r, x)

(* The reasons for which a listing may be dropped. *)
Justified(r, x) ==
    \/ \E b \in BlockingFields(r) : Contrary(r, x.listing, b[1], b[2])
    \/ \E a \in {"bedrooms", "bathrooms", "area_sqm"} : Misses(r, x, a)
    \/ OverBudget(r, x)
    \/ \E c \in DOMAIN x.results : Quoted(r, x, c, Against \cup {"supports"})
    \/ r.types # <<>> /\ x.listing.type \notin ToSet(r.types) \cup {"none"}

IsRun(a) ==
    /\ DOMAIN a = {"type", "budget", "state", "items"}
    /\ a.budget \in Nat
    /\ IsList(a.items) /\ ToSet(a.items) \subseteq DOMAIN Items

(* A rate for the listing at hand is current, or the last one known. *)
QuotesHold ==
    \A side \in DOMAIN quotes :
        /\ \A q \in quotes[side] : q.stale \/ q.age < TTL
        /\ \A p, q \in quotes[side] : p = q

CandidatesInv ==
    /\ stage = "scraping" => request.source = "apify"
    /\ stage \in {"checking", "rates", "details", "collecting"} => request.source = "liteapi"
    /\ IsList(actors) /\ \A a \in ToSet(actors) : IsRun(a)
    /\ IsList(listings) /\ \A l \in ToSet(listings) : Grounded(request, l)

EvidenceInv ==
    /\ QuotesHold
    /\ \A x \in ToSet(items) : Told(request, x) /\ (stage = "graded" => x.tier = MatchTier(request, x))
    /\ \A x \in ToSet(shown) : Told(request, x) /\ x.tier = MatchTier(request, x)
    /\ \A x \in dropped : Justified(request, x)

(* Each target is asked about with what its texts say of the facts.        *)
Inquired ==
    /\ DOMAIN resolved = DOMAIN question.targets
    /\ question.matches =
          [t \in DOMAIN question.targets |-> FactMatches(shownSet[question.targets[t]], question.facts)]

(* No target is asked about twice. *)
AskedOnce == \A s, t \in DOMAIN question.targets : question.targets[s] = question.targets[t] => s = t

FactsTold ==
    \A t \in DOMAIN resolved : \A i \in DOMAIN resolved[t] :
        /\ resolved[t][i].value = "NO" => QuotedIn(request, Target(t), question.facts[i], resolved[t][i].said, Against)
        /\ resolved[t][i].value = "YES" => QuotedIn(request, Target(t), question.facts[i], resolved[t][i].said, {"supports"})

RepliedAsTold ==
    /\ response.kind = "listing_query"
    /\ Inquired
    /\ response.items = [t \in DOMAIN question.targets |-> ReplyItem(t)]

QuestionInv ==
    /\ \A k \in DOMAIN shownSet : Grounded(request, shownSet[k])
    /\ AskedOnce
    /\ FactsTold
    /\ stage = "matching" => Inquired
    /\ response.items = <<>> \/ RepliedAsTold

-----------------------------------------------------------------------------
(* What the values of one listing rest on. *)

LEMMA HitsAreOfPhrases ==
    ASSUME NEW P, NEW s, IsSignal(s, P), NEW f, NEW side
    PROVE  /\ Hits(s, f, side) # {} => \E p \in Among(s.text) : p \in P /\ Hits(Phrases[p], f, side) # {}
           /\ Hits(s, f, side) = {} => \A p \in Among(s.text) : Hits(Phrases[p], f, side) = {}
<1>1. Among(s.text) \subseteq P /\ s.says = UNION {Phrases[p].says : p \in Among(s.text)}
  BY DEF IsSignal, Says
<1> QED
  BY <1>1 DEF Hits

LEMMA FieldIsTold ==
    ASSUME NEW P, NEW l, GroundedIn(P, l), NEW f
    PROVE  /\ MatchField(l.signals, f) = "NO" => \E p \in P : Hits(Phrases[p], f, "no") # {}
           /\ MatchField(l.signals, f) = "YES" =>
                 \E p \in P : Hits(Phrases[p], f, "yes") # {} /\ Hits(Phrases[p], f, "no") = {}
<1> DEFINE best(side) == FindBestSignal(l.signals, f, side)
<1>1. \A side : best(side) \subseteq {i \in DOMAIN l.signals : Hits(l.signals[i], f, side) # {}}
  BY DEF FindBestSignal
<1>2. /\ MatchField(l.signals, f) = "NO" => best("no") # {}
      /\ MatchField(l.signals, f) = "YES" => f \in DOMAIN PreferredPlaces /\ best("yes") # {} /\ best("no") = {}
  BY DEF MatchField
<1> HIDE DEF best
<1>3. \A i \in DOMAIN l.signals : IsSignal(l.signals[i], P)
  BY DEF GroundedIn, ToSet
<1>4. ASSUME MatchField(l.signals, f) = "NO" PROVE \E p \in P : Hits(Phrases[p], f, "no") # {}
  <2>1. PICK i \in DOMAIN l.signals : Hits(l.signals[i], f, "no") # {}
    BY <1>1, <1>2, <1>4
  <2> DEFINE s == l.signals[i]
  <2>2. IsSignal(s, P) /\ Hits(s, f, "no") # {}
    BY <1>3, <2>1
  <2> HIDE DEF s
  <2> QED
    BY <2>2, HitsAreOfPhrases
<1>5. ASSUME MatchField(l.signals, f) = "YES"
      PROVE  \E p \in P : Hits(Phrases[p], f, "yes") # {} /\ Hits(Phrases[p], f, "no") = {}
  <2>1. PICK i \in DOMAIN l.signals : Hits(l.signals[i], f, "yes") # {}
    BY <1>1, <1>2, <1>5
  <2>2. Hits(l.signals[i], f, "no") = {}
    <3>1. SUFFICES ASSUME Hits(l.signals[i], f, "no") # {} PROVE FALSE
      OBVIOUS
    <3>2. best("no") # {}
      BY <1>2, <1>5, <3>1, BestSignalExists DEF best
    <3> QED
      BY <1>2, <1>5, <3>2
  <2> DEFINE s == l.signals[i]
  <2>3. IsSignal(s, P) /\ Hits(s, f, "yes") # {} /\ Hits(s, f, "no") = {}
    BY <1>3, <2>1, <2>2
  <2> HIDE DEF s
  <2>4. PICK p \in Among(s.text) : p \in P /\ Hits(Phrases[p], f, "yes") # {}
    BY <2>3, HitsAreOfPhrases
  <2>5. Hits(Phrases[p], f, "no") = {}
    BY <2>3, HitsAreOfPhrases
  <2> QED
    BY <2>4, <2>5
<1> QED
  BY <1>4, <1>5

LEMMA FieldsOfListing ==
    ASSUME NEW r, NEW l, Grounded(r, l), NEW f
    PROVE  /\ MatchField(l.signals, f) = "NO" => Denied(r, l, f)
           /\ MatchField(l.signals, f) = "YES" => Affirmed(r, l, f)
BY FieldIsTold DEF Grounded, Denied, Affirmed

(* A decision of the fallback rests on a quote.                            *)
LEMMA DecisionIsQuoted ==
    ASSUME NEW r, NEW l, Grounded(r, l), NEW said \in DOMAIN Analyses, NEW constraint
    PROVE  /\ Resolve(Analyses[said], constraint, l) = "NO" => QuotedIn(r, l, constraint, said, Against)
           /\ Resolve(Analyses[said], constraint, l) = "YES" => QuotedIn(r, l, constraint, said, {"supports"})
<1> DEFINE given == Analyses[said]
           checked(s) ==
               [relation  |-> s.relation,
                strength  |-> s.strength,
                type      |-> s.type,
                verified  |-> SnippetFound(s.snippet, l.evidence),
                otherPart |-> s.type = "measurement" /\ MeasuresOtherPart(s.snippet, constraint)]
           normal == NormalizeResult(given, constraint, l.evidence)
<1>1. "signals" \in DOMAIN given
  BY SearchAssumption
<1>2. normal = [given EXCEPT !.signals = {checked(s) : s \in given.signals}]
  BY <1>1 DEF NormalizeResult
<1>3. normal.signals = {checked(s) : s \in given.signals}
  BY <1>1, <1>2
<1>4. Among(UNION l.evidence) \subseteq ToldPhrases(r, l)
  BY DEF Grounded, GroundedIn
<1>5. ASSUME NEW s \in given.signals, Usable(checked(s))
      PROVE  /\ s.snippet # {} /\ s.snippet \subseteq ToldPhrases(r, l)
             /\ s.type = "measurement" =>
                   \/ constraint.namesPart
                   \/ \A p \in s.snippet : Phrases[p].areas = {} \/ \E a \in Phrases[p].areas : a.scope # "other"
  <2>1. s.snippet \subseteq DOMAIN Phrases /\ \A p, q \in s.snippet : p = q
    BY SearchAssumption
  <2>2. /\ s.snippet # {} /\ s.snippet \subseteq UNION l.evidence
        /\ s.type = "measurement" => ~MeasuresOtherPart(s.snippet, constraint)
    BY <1>5 DEF Usable, SnippetFound
  <2>3. s.snippet \subseteq ToldPhrases(r, l)
    BY <1>4, <2>1, <2>2 DEF Among
  <2>4. ASSUME NEW p \in s.snippet, Phrases[p].areas # {}, \A a \in Phrases[p].areas : a.scope = "other"
        PROVE  {a.scope : a \in UNION {Phrases[q].areas : q \in Among(s.snippet)}} = {"other"}
    <3>1. Among(s.snippet) = {p}
      BY <2>1 DEF Among
    <3>2. UNION {Phrases[q].areas : q \in Among(s.snippet)} = Phrases[p].areas
      BY <3>1
    <3> QED
      BY <2>4, <3>2
  <2>5. s.type = "measurement" =>
            \/ constraint.namesPart
            \/ \A p \in s.snippet : Phrases[p].areas = {} \/ \E a \in Phrases[p].areas : a.scope # "other"
    BY <2>2, <2>4 DEF MeasuresOtherPart
  <2> QED
    BY <2>2, <2>3, <2>5
<1> HIDE DEF normal
<1>6. ASSUME NEW s \in given.signals, Usable(checked(s)), NEW relations, s.relation \in relations, s.type # "associated_feature"
      PROVE  QuotedIn(r, l, constraint, said, relations)
  BY <1>5, <1>6 DEF QuotedIn
<1>7. ASSUME Resolve(Analyses[said], constraint, l) = "NO" PROVE QuotedIn(r, l, constraint, said, Against)
  <2>1. HasExplicitNegative(normal)
    BY <1>7 DEF Resolve, DecideFromAnalysis, normal
  <2>2. Contradicting(normal) # {}
    BY <2>1 DEF HasExplicitNegative
  <2>3. PICK s \in given.signals : /\ Usable(checked(s))
                                   /\ checked(s).relation \in Against
                                   /\ checked(s).type # "associated_feature"
    BY <1>3, <2>2 DEF Contradicting, Against
  <2>4. s.relation \in Against /\ s.type # "associated_feature"
    BY <2>3
  <2> HIDE DEF checked, given
  <2> QED
    BY <1>6, <2>3, <2>4
<1>8. ASSUME Resolve(Analyses[said], constraint, l) = "YES" PROVE QuotedIn(r, l, constraint, said, {"supports"})
  <2>1. Confirming(normal) # {}
    BY <1>8 DEF Resolve, DecideFromAnalysis, normal
  <2>2. PICK s \in given.signals : /\ Usable(checked(s))
                                   /\ checked(s).relation = "supports"
                                   /\ checked(s).type \in ConfirmingTypes
    BY <1>3, <2>1 DEF Confirming
  <2>3. s.relation \in {"supports"} /\ s.type # "associated_feature"
    BY <2>2 DEF ConfirmingTypes
  <2> HIDE DEF checked, given
  <2> QED
    BY <1>6, <2>2, <2>3
<1> QED
  BY <1>7, <1>8

(* The verdict on a number rests on the numbers the listing gives.         *)
LEMMA NumberIsTold ==
    ASSUME NEW r, IsRequest(r), NEW x, NEW a \in DOMAIN MatchSizes(x.listing, r.filters)
    PROVE  /\ MatchSizes(x.listing, r.filters)[a] = "NO" => Misses(r, x, a)
           /\ MatchSizes(x.listing, r.filters)[a] = "YES" => \E m \in Mentions(x, a) : InRange(m, r.filters[a])
           /\ a \in {"bedrooms", "bathrooms", "area_sqm"}
<1> DEFINE range == r.filters[a]
           values == CASE a = "bedrooms" -> ExtractBedroomCount(x.listing)
                       [] a = "bathrooms" -> ExtractBathroomCount(x.listing)
                       [] OTHER -> ExtractAreaCandidates(x.listing)
<1>1. a \in {"bedrooms", "bathrooms", "area_sqm"} /\ MatchSizes(x.listing, r.filters)[a] = MatchRange(values, range)
  BY DEF MatchSizes
<1>2. \A set : Largest(set) \subseteq set
  BY DEF Largest
<1>3. values \subseteq Mentions(x, a) /\ (a = "area_sqm" => values = Mentions(x, a))
  <2>1. CASE a = "bedrooms"
    BY <1>2, <2>1 DEF ExtractBedroomCount, Mentions
  <2>2. CASE a = "bathrooms"
    BY <1>2, <2>2 DEF ExtractBathroomCount, Mentions
  <2>3. CASE a = "area_sqm"
    BY <2>3 DEF Mentions
  <2> QED
    BY <1>1, <2>1, <2>2, <2>3
<1>4. /\ MatchRange(values, range) = "NO" => values # {} /\ \A m \in values : ~InRange(m, range)
      /\ MatchRange(values, range) = "YES" => values # {} /\ \A m \in values : InRange(m, range)
  BY DEF MatchRange
<1> HIDE DEF values
<1>5. ASSUME MatchRange(values, range) = "NO" PROVE Misses(r, x, a)
  <2> DEFINE fits == {m \in Mentions(x, a) : InRange(m, range)}
  <2>1. PICK m \in values : ~InRange(m, range)
    BY <1>4, <1>5
  <2>2. m \in Mentions(x, a) /\ m \notin fits
    BY <1>3, <2>1
  <2>3. a = "area_sqm" => Mentions(x, a) # {} /\ fits = {}
    BY <1>3, <1>4, <1>5
  <2> HIDE DEF fits
  <2>4. fits # Mentions(x, a)
    BY <2>2
  <2> QED
    BY <2>3, <2>4 DEF Misses, fits
<1>6. ASSUME MatchRange(values, range) = "YES" PROVE \E m \in Mentions(x, a) : InRange(m, r.filters[a])
  BY <1>3, <1>4, <1>6
<1> QED
  BY <1>1, <1>5, <1>6

(* The verdict on the price of the listing at hand, once the limits that   *)
(* need one have their rates.                                              *)
LEMMA PriceIsTold ==
    ASSUME NEW r, IsRequest(r), NEW x, NEW of,
           \A side \in {"min", "max"} :
              r.price[side] # {} /\ NeedsRate(r.price, ExtractTotalPrice(x.listing)) =>
                  of[side] = {q.quote : q \in x.quotes[side]},
           \A side \in {"min", "max"} :
              r.price[side] # {} /\ NeedsRate(r.price, ExtractTotalPrice(x.listing)) =>
                  /\ \A q \in x.quotes[side] : q.stale \/ q.age < TTL
                  /\ \A p, q \in x.quotes[side] : p = q
    PROVE  LET verdict == MatchPrice(r.price, ExtractTotalPrice(x.listing), r.nights, of)
           IN  /\ verdict = "NO" => OverBudget(r, x)
               /\ verdict = "YES" => ExtractTotalPrice(x.listing) # {} /\ \A scope \in Scopes(r) : ~OutsideAs(r, x, scope)
               /\ OverBudget(r, x) =>
                     \/ verdict = "NO"
                     \/ AmbiguousScope(r.price, r.nights)
                     \/ OtherCurrency(r.price, ExtractTotalPrice(x.listing))
                     \/ \E side \in {"min", "max"} :
                           r.price[side] # {} /\ NeedsRate(r.price, ExtractTotalPrice(x.listing)) /\ x.quotes[side] = {}
<1> DEFINE total == ExtractTotalPrice(x.listing)
           needs == NeedsRate(r.price, total)
           known(side) == r.price[side] = {} \/ ~needs \/ of[side] # {}
           quote(side) == IF needs THEN CHOOSE q \in of[side] : TRUE ELSE 1
           stay == IF r.price.scope = "per_night" THEN r.nights ELSE 1
           below == \E t \in total, low \in r.price.min : t.amount * quote("min") < low * stay
           above == \E t \in total, high \in r.price.max : t.amount * quote("max") > high * stay
           current(side) == IF needs THEN {q.quote : q \in {p \in x.quotes[side] : p.stale \/ p.age < TTL}} ELSE {1}
           factor(scope) == IF scope = "per_night" THEN r.nights ELSE 1
           verdict == MatchPrice(r.price, total, r.nights, of)
           comparable == known("min") /\ known("max") /\ ~AmbiguousScope(r.price, r.nights)
<1>1. /\ verdict \in {"NO", "YES"} =>
            total # {} /\ comparable
      /\ verdict = "NO" => below \/ above
      /\ verdict = "YES" => ~below /\ ~above
      /\ total # {} /\ comparable /\ ~OtherCurrency(r.price, total) /\ (below \/ above) => verdict = "NO"
  BY DEF MatchPrice
<1>2. \A scope : OutsideAs(r, x, scope) <=>
          \E t \in total :
              \/ \E low \in r.price.min : \E q \in current("min") : t.amount * q < low * factor(scope)
              \/ \E high \in r.price.max : \E q \in current("max") : t.amount * q > high * factor(scope)
  BY DEF OutsideAs
<1>3. ASSUME ~AmbiguousScope(r.price, r.nights), NEW scope \in Scopes(r) PROVE factor(scope) = stay
  <2>1. CASE r.price.scope = "none"
    <3>1. r.nights \in Nat \ {0} /\ ~(r.nights > 1)
      BY <1>3, <2>1 DEF AmbiguousScope, IsRequest
    <3>2. r.nights = 1
      BY <3>1
    <3> QED
      BY <2>1, <3>2
  <2>2. CASE r.price.scope # "none"
    <3>1. scope = r.price.scope
      BY <2>2 DEF Scopes
    <3> QED
      BY <3>1
  <2> QED
    BY <2>1, <2>2
<1>4. ASSUME NEW side \in {"min", "max"}, r.price[side] # {}, known(side) PROVE current(side) = {quote(side)}
  <2>1. CASE ~needs
    BY <2>1
  <2>2. CASE needs
    <3>1. of[side] = {q.quote : q \in x.quotes[side]} /\ of[side] # {}
      BY <1>4, <2>2
    <3>2. PICK one \in x.quotes[side] : x.quotes[side] = {one} /\ (one.stale \/ one.age < TTL)
      BY <1>4, <2>2, <3>1
    <3>3. of[side] = {one.quote} /\ current(side) = {one.quote}
      BY <2>2, <3>1, <3>2
    <3> QED
      BY <2>2, <3>3
  <2> QED
    BY <2>1, <2>2
<1>5. /\ r.price["min"] = r.price.min /\ r.price["max"] = r.price.max
      /\ "min" \in {"min", "max"} /\ "max" \in {"min", "max"}
  OBVIOUS
<1>6. ~comparable => \/ AmbiguousScope(r.price, r.nights)
                     \/ \E side \in {"min", "max"} : r.price[side] # {} /\ needs /\ x.quotes[side] = {}
  <2>1. ASSUME NEW side \in {"min", "max"}, ~known(side) PROVE r.price[side] # {} /\ needs /\ x.quotes[side] = {}
    <3>1. r.price[side] # {} /\ needs /\ of[side] = {}
      BY <2>1
    <3>2. of[side] = {q.quote : q \in x.quotes[side]}
      BY <3>1
    <3> QED
      BY <3>1, <3>2
  <2> HIDE DEF known
  <2> QED
    BY <2>1
<1> HIDE DEF current, quote, known, factor, stay, verdict
<1>7. ASSUME comparable, NEW scope \in Scopes(r) PROVE OutsideAs(r, x, scope) <=> below \/ above
  <2>1. factor(scope) = stay
    BY <1>3, <1>7
  <2>2. r.price.min # {} => current("min") = {quote("min")}
    BY <1>4, <1>5, <1>7
  <2>3. r.price.max # {} => current("max") = {quote("max")}
    BY <1>4, <1>5, <1>7
  <2>4. (\E t \in total : \E low \in r.price.min : \E q \in current("min") : t.amount * q < low * factor(scope)) <=> below
    BY <2>1, <2>2
  <2>5. (\E t \in total : \E high \in r.price.max : \E q \in current("max") : t.amount * q > high * factor(scope)) <=> above
    BY <2>1, <2>3
  <2> HIDE DEF below, above
  <2> QED
    BY <1>2, <2>4, <2>5
<1>8. OverBudget(r, x) /\ comparable => (below \/ above) /\ total # {}
  <2>1. PICK scope : scope \in Scopes(r)
    BY DEF Scopes
  <2>2. \A s : OutsideAs(r, x, s) => total # {}
    BY DEF OutsideAs
  <2> HIDE DEF below, above, comparable
  <2> QED
    BY <1>7, <2>1, <2>2 DEF OverBudget
<1>9. verdict = "NO" => OverBudget(r, x)
  BY <1>1, <1>7 DEF OverBudget
<1>10. verdict = "YES" => total # {} /\ \A scope \in Scopes(r) : ~OutsideAs(r, x, scope)
  BY <1>1, <1>7
<1>11. OverBudget(r, x) =>
           \/ verdict = "NO"
           \/ AmbiguousScope(r.price, r.nights)
           \/ OtherCurrency(r.price, total)
           \/ \E side \in {"min", "max"} : r.price[side] # {} /\ needs /\ x.quotes[side] = {}
  BY <1>1, <1>6, <1>8
<1> QED
  BY <1>9, <1>10, <1>11 DEF verdict

LEMMA MatchedIsTold ==
    ASSUME request \in Requests, NEW l, Grounded(request, l), QuotesHold,
           \A side \in {"min", "max"} :
              request.price[side] # {} /\ NeedsRate(request.price, ExtractTotalPrice(l)) => side \in DOMAIN quotes
    PROVE  Told(request, Matched(l))
<1> DEFINE K == KnownFields(request, {"must", "nice", "forbidden"})
           matches == [f \in K |-> MatchField(l.signals, f)]
           sizes == MatchSizes(l, request.filters)
           quoted(s) == IF s \in DOMAIN quotes THEN {q.quote : q \in quotes[s]} ELSE {}
           of == [s \in {"min", "max"} |-> quoted(s)]
           verdict == MatchPrice(request.price, ExtractTotalPrice(l), request.nights, of)
           price == [a \in {"price_total" : s \in {t \in {"min", "max"} : request.price[t] # {}}} |-> verdict]
           numeric == Joined(sizes, price)
           x == Matched(l)
<1>1. /\ x.listing = l /\ x.matches = matches /\ x.numeric = numeric /\ x.results = <<>> /\ x.said = <<>>
      /\ x.quotes = quotes
  BY DEF Matched
<1>2. IsRequest(request)
  BY SearchAssumption
<1> HIDE DEF x
<1>3. FieldsTold(request, x)
  <2>1. DOMAIN matches = K /\ \A f \in K : matches[f] = MatchField(l.signals, f)
    OBVIOUS
  <2> HIDE DEF matches, K
  <2> QED
    BY <1>1, <2>1, FieldsOfListing DEF FieldsTold
<1>4. DOMAIN price \subseteq {"price_total"} /\ \A a \in DOMAIN price : price[a] = verdict
  OBVIOUS
<1>5. DOMAIN sizes \subseteq {"bedrooms", "bathrooms", "area_sqm"}
  BY DEF MatchSizes
<1> HIDE DEF sizes, price, verdict
<1>6. /\ DOMAIN numeric = DOMAIN sizes \cup DOMAIN price
      /\ \A a \in DOMAIN sizes : numeric[a] = sizes[a]
      /\ \A a \in DOMAIN price \ DOMAIN sizes : numeric[a] = price[a]
  BY JoinedKeeps
<1> HIDE DEF numeric
<1>7. NumbersTold(request, x)
  <2>1. ASSUME NEW a \in DOMAIN x.numeric \ {"price_total"}
        PROVE  /\ x.numeric[a] = "NO" => Misses(request, x, a)
               /\ x.numeric[a] = "YES" => \E m \in Mentions(x, a) : InRange(m, request.filters[a])
    <3>1. a \in DOMAIN MatchSizes(x.listing, request.filters) /\ x.numeric[a] = MatchSizes(x.listing, request.filters)[a]
      BY <1>1, <1>4, <1>6 DEF sizes
    <3> QED
      BY <1>2, <3>1, NumberIsTold
  <2> QED
    BY <2>1 DEF NumbersTold
<1>8. PriceTold(request, x)
  <2>1. \A side \in {"min", "max"} :
           request.price[side] # {} /\ NeedsRate(request.price, ExtractTotalPrice(x.listing)) =>
               of[side] = {q.quote : q \in x.quotes[side]}
    BY <1>1
  <2>2. \A side \in {"min", "max"} :
           request.price[side] # {} /\ NeedsRate(request.price, ExtractTotalPrice(x.listing)) =>
               /\ \A q \in x.quotes[side] : q.stale \/ q.age < TTL
               /\ \A p, q \in x.quotes[side] : p = q
    BY <1>1 DEF QuotesHold
  <2> HIDE DEF of
  <2>3. /\ verdict = "NO" => OverBudget(request, x)
        /\ verdict = "YES" => ExtractTotalPrice(x.listing) # {} /\ \A scope \in Scopes(request) : ~OutsideAs(request, x, scope)
    <3>1. verdict = MatchPrice(request.price, ExtractTotalPrice(x.listing), request.nights, of)
      BY <1>1 DEF verdict
    <3> HIDE DEF QuotesHold
    <3> QED
      BY <1>2, <2>1, <2>2, <3>1, PriceIsTold
  <2>4. "price_total" \in DOMAIN x.numeric => x.numeric["price_total"] = verdict
    BY <1>1, <1>4, <1>5, <1>6
  <2> QED
    BY <2>3, <2>4 DEF PriceTold
<1>9. DecisionsTold(request, x)
  <2>1. DOMAIN x.results = {}
    BY <1>1
  <2> QED
    BY <2>1 DEF DecisionsTold
<1> QED
  BY <1>1, <1>3, <1>7, <1>8, <1>9 DEF Told, x

(* What follows from the evidence of a value stays when the score, the     *)
(* tier or a decision changes.                                             *)
SameEvidence(x, y) ==
    /\ y.listing = x.listing /\ y.matches = x.matches /\ y.numeric = x.numeric /\ y.quotes = x.quotes

LEMMA EvidenceStays ==
    ASSUME NEW r, NEW x, NEW y, SameEvidence(x, y), Told(r, x), DecisionsTold(r, y)
    PROVE  Told(r, y)
<1>1. \A a : Mentions(y, a) = Mentions(x, a)
  BY DEF SameEvidence, Mentions
<1>2. \A scope : OutsideAs(r, y, scope) <=> OutsideAs(r, x, scope)
  BY DEF SameEvidence, OutsideAs
<1>3. FieldsTold(r, y)
  BY DEF Told, SameEvidence, FieldsTold
<1>4. NumbersTold(r, y)
  BY <1>1 DEF Told, SameEvidence, NumbersTold, Misses
<1>5. PriceTold(r, y)
  BY <1>2 DEF Told, SameEvidence, PriceTold, OverBudget
<1> QED
  BY <1>3, <1>4, <1>5 DEF Told, SameEvidence

LEMMA DecisionsStay ==
    ASSUME NEW r, NEW x, NEW y, DecisionsTold(r, x), y.listing = x.listing, y.results = x.results, y.said = x.said
    PROVE  DecisionsTold(r, y)
BY DEF DecisionsTold, Quoted

-----------------------------------------------------------------------------
(* A listing that fails has a reason. *)

LEMMA QuotedForMore ==
    ASSUME NEW r, NEW x, NEW c, NEW relations, Quoted(r, x, c, relations), NEW more, relations \subseteq more
    PROVE  Quoted(r, x, c, more)
BY DEF Quoted, QuotedIn

LEMMA FieldFailsForAReason ==
    ASSUME NEW r, NEW x, IsItem(r, x), Told(r, x), FailsMust(r, x) \/ FailsForbidden(r, x)
    PROVE  Justified(r, x)
<1>1. FieldsTold(r, x)
  BY DEF Told
<1>2. DOMAIN x.matches = KnownFields(r, {"must", "nice", "forbidden"})
  BY DEF IsItem
<1>3. ASSUME NEW f, NEW p \in {"must", "forbidden"}, f \in KnownFields(r, {p})
      PROVE  f \in DOMAIN x.matches /\ <<f, p>> \in BlockingFields(r)
  <2>1. f \in KnownFields(r, {"must", "nice", "forbidden"})
    BY <1>3 DEF KnownFields
  <2> QED
    BY <1>2, <1>3, <2>1 DEF BlockingFields
<1>4. ASSUME NEW f, NEW p \in {"must", "forbidden"}, f \in KnownFields(r, {p}), Contrary(r, x.listing, f, p)
      PROVE  Justified(r, x)
  <2>1. <<f, p>> \in BlockingFields(r)
    BY <1>3, <1>4
  <2>2. Contrary(r, x.listing, <<f, p>>[1], <<f, p>>[2])
    BY <1>4
  <2> QED
    BY <2>1, <2>2 DEF Justified
<1>5. CASE FailsMust(r, x)
  <2>1. PICK f \in KnownFields(r, {"must"}) : x.matches[f] = "NO"
    BY <1>5 DEF FailsMust, Having
  <2>2. Denied(r, x.listing, f)
    BY <1>1, <1>3, <2>1 DEF FieldsTold
  <2>3. Contrary(r, x.listing, f, "must")
    BY <2>2 DEF Contrary
  <2> QED
    BY <1>4, <2>1, <2>3
<1>6. CASE FailsForbidden(r, x)
  <2>1. PICK f \in KnownFields(r, {"forbidden"}) :
            x.matches[f] = IF f \in InvertedPolarityForbiddenFields THEN "NO" ELSE "YES"
    BY <1>6 DEF FailsForbidden
  <2>2. f \in DOMAIN x.matches
    BY <1>3, <2>1
  <2>3. IF f \in InvertedPolarityForbiddenFields THEN Denied(r, x.listing, f) ELSE Affirmed(r, x.listing, f)
    BY <1>1, <2>1, <2>2 DEF FieldsTold
  <2>4. Contrary(r, x.listing, f, "forbidden")
    BY <2>3 DEF Contrary
  <2> QED
    BY <1>4, <2>1, <2>4
<1> QED
  BY <1>5, <1>6

LEMMA RejectedForAReason ==
    ASSUME request \in Requests, NEW x, IsItem(request, x), Told(request, x), Rejected(x)
    PROVE  Justified(request, x)
<1>1. NumbersTold(request, x) /\ PriceTold(request, x) /\ DecisionsTold(request, x)
  BY DEF Told
<1>2. CASE FailsNumericFilters(x)
  <2>1. PICK a \in DOMAIN x.numeric : x.numeric[a] = "NO"
    BY <1>2 DEF FailsNumericFilters, Having
  <2>2. CASE a = "price_total"
    BY <1>1, <2>1, <2>2 DEF PriceTold, Justified
  <2>3. CASE a # "price_total"
    <3>1. Misses(request, x, a)
      BY <1>1, <2>1, <2>3 DEF NumbersTold
    <3>2. a \in {"bedrooms", "bathrooms", "area_sqm"}
      BY <2>3 DEF IsItem, NumbersAsked
    <3> QED
      BY <3>1, <3>2 DEF Justified
  <2> QED
    BY <2>2, <2>3
<1>3. CASE FailsConstraintResolution(request, x)
  <2>1. PICK c \in DOMAIN x.results : x.results[c] = ViolatingDecision(request.constraints[c])
    BY <1>3 DEF FailsConstraintResolution
  <2>2. x.results[c] \in Ternary
    BY DEF IsItem
  <2>3. x.results[c] \in {"NO", "YES"}
    BY <2>1, <2>2 DEF ViolatingDecision, Ternary
  <2>4. Quoted(request, x, c, Against) \/ Quoted(request, x, c, {"supports"})
    BY <1>1, <2>3 DEF DecisionsTold
  <2>5. Quoted(request, x, c, Against \cup {"supports"})
    BY <2>4, QuotedForMore
  <2> QED
    BY <2>5 DEF Justified
<1> QED
  BY <1>2, <1>3 DEF Rejected

LEMMA IneligibleForAReason ==
    ASSUME NEW r, NEW x, IsItem(r, x), Told(r, x), MatchTier(r, x) = "ineligible"
    PROVE  Justified(r, x)
<1>1. Blocked(r, x)
  BY DEF MatchTier
<1>2. CASE TypeMismatch(r, x)
  BY <1>2 DEF TypeMismatch, Justified
<1>3. ASSUME NEW c \in DOMAIN x.results, x.results[c] = "NO" PROVE Justified(r, x)
  <2>1. Quoted(r, x, c, Against)
    BY <1>3 DEF Told, DecisionsTold
  <2>2. Quoted(r, x, c, Against \cup {"supports"})
    BY <2>1, QuotedForMore
  <2> QED
    BY <2>2 DEF Justified
<1> QED
  BY <1>1, <1>2, <1>3 DEF Blocked

-----------------------------------------------------------------------------
(* The evaluation keeps to the evidence. *)

(* What a step does that evaluates nothing.                                *)
EvidenceRests ==
    /\ UNCHANGED <<request, items, quotes>>
    /\ shown' \in {shown, <<>>}
    /\ dropped' \subseteq dropped
    /\ stage' = stage \/ stage' # "graded"

LEMMA RestKeepsEvidence ==
    ASSUME EvidenceInv, EvidenceRests
    PROVE  EvidenceInv'
<1>1. \A x \in ToSet(shown') : x \in ToSet(shown)
  BY NoListing DEF EvidenceRests
<1>2. QuotesHold'
  BY DEF EvidenceInv, QuotesHold, EvidenceRests
<1>3. ToSet(items') = ToSet(items) /\ request' = request /\ (stage' = "graded" => stage = "graded")
  BY DEF EvidenceRests
<1>4. dropped' \subseteq dropped
  BY DEF EvidenceRests
<1> QED
  BY <1>1, <1>2, <1>3, <1>4 DEF EvidenceInv

LEMMA NewItemsKeepEvidence ==
    ASSUME EvidenceInv, UNCHANGED <<request, shown>>, quotes' \in {quotes, <<>>},
           \A x \in ToSet(items') : Told(request, x) /\ (stage' = "graded" => x.tier = MatchTier(request, x)),
           \A x \in dropped' \ dropped : Justified(request, x)
    PROVE  EvidenceInv'
<1>1. ToSet(shown') = ToSet(shown)
  OBVIOUS
<1>2. QuotesHold'
  <2>1. DOMAIN <<>> = {}
    OBVIOUS
  <2>2. QuotesHold
    BY DEF EvidenceInv
  <2> QED
    BY <2>1, <2>2 DEF QuotesHold
<1> QED
  BY <1>1, <1>2 DEF EvidenceInv

LEMMA ConvertingKeepsEvidence ==
    ASSUME EvidenceInv, Scalars, NEW got \in Cached \cup Fetched \cup Unreachable, Convert(got)
    PROVE  EvidenceInv'
<1>1. PICK side : quotes' = Joined(quotes, [s \in {side} |-> QuotesOf(got.snapshot, request.price.currency)])
  BY DEF Convert
<1>2. UNCHANGED <<request, stage, items, dropped, shown>>
  BY DEF Convert, retrievalVars
<1>3. /\ \A s \in got.snapshot : s.stale \/ now - s.at < TTL
      /\ \A s, t \in got.snapshot : s = t
  <2>1. ASSUME NEW s, NEW stale, NEW file, stale \/ now - s.at < TTL, got = Got(s, stale, file)
        PROVE  /\ \A u \in got.snapshot : u.stale \/ now - u.at < TTL
               /\ \A u, t \in got.snapshot : u = t
    BY <2>1 DEF Got
  <2>2. CASE got \in Cached
    BY <2>1, <2>2 DEF Cached, FreshSnapshots, SnapshotIsFresh
  <2>3. CASE got \in Fetched
    <3>1. PICK s : s.at = now /\ got = Got(s, FALSE, {s})
      BY <2>3 DEF Fetched
    <3>2. now - s.at < TTL
      <4>1. now \in Int /\ TTL \in Nat \ {0}
        BY CurrencyAssumption, SearchAssumption DEF Scalars
      <4> QED
        BY <3>1, <4>1
    <3> QED
      BY <2>1, <3>1, <3>2
  <2>4. CASE got \in Unreachable
    <3>1. got = [snapshot |-> {}, file |-> {}] \/ \E s \in cache : got = Got(s, TRUE, cache)
      BY <2>4 DEF Unreachable
    <3>2. CASE got = [snapshot |-> {}, file |-> {}]
      BY <3>2
    <3> QED
      BY <2>1, <3>1, <3>2
  <2> QED
    BY <2>2, <2>3, <2>4
<1> DEFINE fresh == [s \in {side} |-> QuotesOf(got.snapshot, request.price.currency)]
<1>4. \A s \in DOMAIN fresh : /\ \A q \in fresh[s] : q.stale \/ q.age < TTL
                              /\ \A p, q \in fresh[s] : p = q
  BY <1>3 DEF QuotesOf
<1>5. QuotesHold'
  <2> HIDE DEF fresh
  <2>1. \A s \in DOMAIN quotes' : quotes'[s] = IF s \in DOMAIN quotes THEN quotes[s] ELSE fresh[s]
    BY <1>1 DEF Joined, fresh
  <2>2. \A s \in DOMAIN quotes' : s \in DOMAIN quotes \/ s \in DOMAIN fresh
    BY <1>1 DEF Joined, fresh
  <2> QED
    BY <1>4, <2>1, <2>2 DEF EvidenceInv, QuotesHold
<1> QED
  BY <1>2, <1>5 DEF EvidenceInv

LEMMA MatchingKeepsEvidence ==
    ASSUME EvidenceInv, EvaluationInv, Scalars, CandidatesInv, MatchListing
    PROVE  EvidenceInv'
<1> DEFINE l == Head(listings)
           item == Matched(l)
           score == StructuredScore(request, item)
           scored == [item EXCEPT !.score = score]
<1>1. /\ stage = "retrieved" /\ listings # <<>> /\ Unconverted = {} /\ UNCHANGED <<request, stage, shown>>
      /\ quotes' = <<>>
      /\ \/ (FailsMust(request, item) \/ FailsForbidden(request, item)) /\ dropped' = dropped \cup {item} /\ items' = items
         \/ items' = Append(items, scored) /\ dropped' = dropped
  BY DEF MatchListing
<1>2. Grounded(request, l)
  <2>1. IsList(listings)
    BY DEF CandidatesInv
  <2>2. l \in ToSet(listings)
    <3>1. 1 \in DOMAIN listings
      BY <1>1, <2>1, ListShape DEF IsList
    <3> QED
      BY <3>1 DEF ToSet
  <2> QED
    BY <2>2 DEF CandidatesInv
<1>3. \A side \in {"min", "max"} :
          request.price[side] # {} /\ NeedsRate(request.price, ExtractTotalPrice(l)) => side \in DOMAIN quotes
  BY <1>1 DEF Unconverted
<1>4. request \in Requests /\ QuotesHold
  BY DEF Scalars, EvidenceInv
<1> HIDE DEF l
<1>5. Told(request, item) /\ IsItem(request, item)
  BY <1>2, <1>3, <1>4, MatchedIsTold, MatchedIsAnItem
<1> HIDE DEF item, score
<1>6. CASE (FailsMust(request, item) \/ FailsForbidden(request, item)) /\ dropped' = dropped \cup {item} /\ items' = items
  <2>1. Justified(request, item)
    BY <1>5, <1>6, FieldFailsForAReason
  <2>2. stage' # "graded"
    BY <1>1
  <2>3. \A x \in ToSet(items') : Told(request, x) /\ (stage' = "graded" => x.tier = MatchTier(request, x))
    BY <1>6, <2>2 DEF EvidenceInv
  <2> QED
    BY <1>1, <1>6, <2>1, <2>3, NewItemsKeepEvidence
<1>7. CASE items' = Append(items, scored) /\ dropped' = dropped
  <2>1. /\ scored.listing = item.listing /\ scored.matches = item.matches /\ scored.numeric = item.numeric
        /\ scored.quotes = item.quotes /\ scored.results = item.results /\ scored.said = item.said
    BY <1>5 DEF IsItem, ItemFields
  <2> HIDE DEF scored
  <2>2. Told(request, scored)
    <3>1. DecisionsTold(request, item)
      BY <1>5 DEF Told
    <3>2. DecisionsTold(request, scored)
      BY <2>1, <3>1, DecisionsStay
    <3> QED
      BY <1>5, <2>1, <3>2, EvidenceStays DEF SameEvidence
  <2>3. ToSet(items') \subseteq ToSet(items) \cup {scored}
    BY <1>7, AppendIsList DEF EvaluationInv
  <2>4. \A x \in ToSet(items') : Told(request, x) /\ (stage' = "graded" => x.tier = MatchTier(request, x))
    BY <1>1, <2>2, <2>3 DEF EvidenceInv
  <2> QED
    BY <1>1, <1>7, <2>4, NewItemsKeepEvidence
<1> QED
  BY <1>1, <1>6, <1>7

(* Another score, other decisions or a tier of a listing whose evidence    *)
(* stays.                                                                  *)
LEMMA UpdateIsTold ==
    ASSUME NEW r, NEW x, Told(r, x), NEW y, SameEvidence(x, y), y.results = x.results, y.said = x.said
    PROVE  Told(r, y)
<1>1. y.listing = x.listing
  BY DEF SameEvidence
<1>2. DecisionsTold(r, y)
  BY <1>1, DecisionsStay DEF Told
<1> QED
  BY <1>2, EvidenceStays

LEMMA AskingKeepsEvidence ==
    ASSUME EvidenceInv, EvaluationInv, NEW answer \in DOMAIN Analyses, Ask(answer)
    PROVE  EvidenceInv'
<1>1. PICK k \in OpenItems : \E c \in Questions(k) :
          items' = [items EXCEPT ![k].results = Joined(@, [d \in {c} |->
                                     Resolve(Analyses[answer], request.constraints[c], items[k].listing)]),
                                 ![k].said = Joined(@, [d \in {c} |-> answer])]
  BY DEF Ask
<1>2. PICK c \in Questions(k) :
          items' = [items EXCEPT ![k].results = Joined(@, [d \in {c} |->
                                     Resolve(Analyses[answer], request.constraints[c], items[k].listing)]),
                                 ![k].said = Joined(@, [d \in {c} |-> answer])]
  BY <1>1
<1> DEFINE item == items[k]
           decision == Resolve(Analyses[answer], request.constraints[c], item.listing)
           results == Joined(item.results, [d \in {c} |-> decision])
           said == Joined(item.said, [d \in {c} |-> answer])
           asked == [item EXCEPT !.results = results, !.said = said]
<1>3. stage = "asking" /\ UNCHANGED <<request, stage, shown, dropped, quotes>>
  BY DEF Ask, retrievalVars
<1>4. /\ k \in DOMAIN items /\ item \in ToSet(items) /\ IsItem(request, item) /\ Told(request, item)
      /\ Blocking(request.constraints[c]) /\ c \notin DOMAIN item.results
  BY DEF OpenItems, Questions, FallbackEligible, EvaluationInv, EvidenceInv, ToSet
<1>5. items' = [items EXCEPT ![k] = asked]
  BY <1>2, <1>4
<1>6. /\ decision = "NO" => QuotedIn(request, item.listing, request.constraints[c], answer, Against)
      /\ decision = "YES" => QuotedIn(request, item.listing, request.constraints[c], answer, {"supports"})
  <2> DEFINE l == item.listing
             constraint == request.constraints[c]
  <2>1. Grounded(request, l)
    BY <1>4 DEF Told
  <2>2. decision = Resolve(Analyses[answer], constraint, l)
    OBVIOUS
  <2> HIDE DEF l, constraint, decision, item
  <2>3. /\ decision = "NO" => QuotedIn(request, l, constraint, answer, Against)
        /\ decision = "YES" => QuotedIn(request, l, constraint, answer, {"supports"})
    BY <2>1, <2>2, DecisionIsQuoted
  <2> QED
    BY <2>3 DEF l, constraint
<1>7. DOMAIN item.said \subseteq DOMAIN item.results
  BY <1>4 DEF IsItem
<1> HIDE DEF decision
<1>8. /\ DOMAIN results = DOMAIN item.results \cup {c} /\ results[c] = decision
      /\ \A d \in DOMAIN item.results : results[d] = item.results[d]
      /\ DOMAIN said = DOMAIN item.said \cup {c} /\ said[c] = answer
      /\ \A d \in DOMAIN item.said : said[d] = item.said[d]
  <2>1. c \notin DOMAIN item.said
    BY <1>4, <1>7
  <2> HIDE DEF item
  <2> QED
    BY <1>4, <2>1 DEF Joined
<1>9. /\ asked.results = results /\ asked.said = said /\ asked.listing = item.listing
      /\ SameEvidence(item, asked)
  BY <1>4 DEF IsItem, ItemFields, SameEvidence
<1> HIDE DEF item, results, said, asked
<1>10. \A d \in DOMAIN item.results : Quoted(request, item, d, Against) => Quoted(request, asked, d, Against)
  BY <1>8, <1>9 DEF Quoted
<1>11. \A d \in DOMAIN item.results : Quoted(request, item, d, {"supports"}) => Quoted(request, asked, d, {"supports"})
  BY <1>8, <1>9 DEF Quoted
<1>12. /\ decision = "NO" => Quoted(request, asked, c, Against)
       /\ decision = "YES" => Quoted(request, asked, c, {"supports"})
  BY <1>6, <1>8, <1>9 DEF Quoted
<1>13. DecisionsTold(request, asked)
  <2>1. DecisionsTold(request, item)
    BY <1>4 DEF Told
  <2> QED
    BY <1>4, <1>8, <1>9, <1>10, <1>11, <1>12, <2>1 DEF DecisionsTold
<1>14. Told(request, asked)
  BY <1>4, <1>9, <1>13, EvidenceStays
<1>15. ToSet(items') \subseteq ToSet(items) \cup {asked}
  BY <1>5 DEF ToSet
<1>16. \A x \in ToSet(items') : Told(request, x) /\ (stage' = "graded" => x.tier = MatchTier(request, x))
  BY <1>3, <1>14, <1>15 DEF EvidenceInv
<1> QED
  BY <1>3, <1>16, NewItemsKeepEvidence

LEMMA RankingKeepsEvidence ==
    ASSUME EvidenceInv, EvaluationInv, RankStructured
    PROVE  EvidenceInv'
<1>1. stage' = "asking" /\ items' = SortedByScore(items) /\ UNCHANGED <<request, dropped, shown, quotes>>
  BY DEF RankStructured, retrievalVars
<1>2. IsList(items) /\ ScoresAreNumbers(items)
  BY DEF EvaluationInv, ScoresAreNumbers, ToSet, IsItem
<1>3. ToSet(items') = ToSet(items)
  BY <1>1, <1>2, SortedIsAList
<1>4. \A x \in ToSet(items') : Told(request, x) /\ (stage' = "graded" => x.tier = MatchTier(request, x))
  BY <1>1, <1>3 DEF EvidenceInv
<1> QED
  BY <1>1, <1>4, NewItemsKeepEvidence

LEMMA EnsuredIsTold ==
    ASSUME NEW r, NEW x, IsItem(r, x), Told(r, x)
    PROVE  IsItem(r, EnsureRepresented(r, x)) /\ Told(r, EnsureRepresented(r, x))
<1> DEFINE missing == {c \in Positions(r) : Covered(r.constraints[c])} \ DOMAIN x.results
           results == Joined(x.results, [c \in missing |-> "UNCERTAIN"])
           y == EnsureRepresented(r, x)
<1>1. /\ DOMAIN results = DOMAIN x.results \cup missing
      /\ \A c \in DOMAIN x.results : results[c] = x.results[c]
      /\ \A c \in missing : results[c] = "UNCERTAIN" /\ Blocking(r.constraints[c])
  BY DEF Joined, Covered
<1>2. y = [x EXCEPT !.results = results]
  BY DEF EnsureRepresented
<1> HIDE DEF missing, results, y
<1>3. y.results = results /\ y.said = x.said /\ y.listing = x.listing /\ SameEvidence(x, y)
  BY <1>2 DEF IsItem, ItemFields, SameEvidence
<1>4. \A c, relations : Quoted(r, x, c, relations) => Quoted(r, y, c, relations)
  BY <1>3 DEF Quoted
<1>5. DecisionsTold(r, x)
  BY DEF Told
<1>6. DecisionsTold(r, y)
  <2> SUFFICES ASSUME NEW c \in DOMAIN y.results
               PROVE  /\ Blocking(r.constraints[c])
                      /\ y.results[c] = "NO" => Quoted(r, y, c, Against)
                      /\ y.results[c] = "YES" => Quoted(r, y, c, {"supports"})
    BY DEF DecisionsTold
  <2>1. CASE c \in DOMAIN x.results
    BY <1>1, <1>3, <1>4, <1>5, <2>1 DEF DecisionsTold
  <2>2. CASE c \in missing
    BY <1>1, <1>3, <2>2
  <2> QED
    BY <1>1, <1>3, <2>1, <2>2
<1>7. Told(r, y)
  BY <1>3, <1>6, EvidenceStays
<1> QED
  BY <1>7, EnsuredIsRepresented DEF y

LEMMA ScoringKeepsEvidence ==
    ASSUME EvidenceInv, EvaluationInv, ScoreResolutions
    PROVE  EvidenceInv'
<1> DEFINE ensured(k) == EnsureRepresented(request, items[k])
           scored(item) == [item EXCEPT !.score = @ + ResolutionDelta(request, item)]
<1>1. /\ stage' = "scored" /\ UNCHANGED <<request, dropped, shown, quotes>>
      /\ items' = [k \in DOMAIN items |-> scored(ensured(k))]
  BY DEF ScoreResolutions, retrievalVars
<1>2. \A k \in DOMAIN items : IsItem(request, items[k]) /\ Told(request, items[k])
  BY DEF EvaluationInv, EvidenceInv, ToSet
<1>3. \A k \in DOMAIN items : IsItem(request, ensured(k)) /\ Told(request, ensured(k))
  BY <1>2, EnsuredIsTold
<1>4. ASSUME NEW x, IsItem(request, x), Told(request, x) PROVE Told(request, scored(x))
  <2> DEFINE y == scored(x)
  <2>1. y.results = x.results /\ y.said = x.said /\ SameEvidence(x, y)
    BY <1>4 DEF IsItem, ItemFields, SameEvidence
  <2> HIDE DEF y
  <2>2. Told(request, y)
    BY <1>4, <2>1, UpdateIsTold
  <2> QED
    BY <2>2 DEF y
<1> HIDE DEF ensured, scored
<1>5. DOMAIN items' = DOMAIN items /\ \A k \in DOMAIN items : items'[k] = scored(ensured(k))
  BY <1>1
<1>6. \A k \in DOMAIN items : Told(request, items'[k])
  BY <1>3, <1>4, <1>5
<1>7. \A x \in ToSet(items') : Told(request, x) /\ (stage' = "graded" => x.tier = MatchTier(request, x))
  BY <1>1, <1>5, <1>6 DEF ToSet
<1> QED
  BY <1>1, <1>7, NewItemsKeepEvidence

LEMMA FilteringKeepsEvidence ==
    ASSUME EvidenceInv, EvaluationInv, Scalars, FilterAndSort
    PROVE  EvidenceInv'
<1> DEFINE positions == {k \in DOMAIN items : ~Rejected(items[k])}
           kept == Kept(items, positions)
<1>1. /\ stage = "scored" /\ stage' = "ranked" /\ UNCHANGED <<request, shown, quotes>>
      /\ items' = SortedByScore(kept)
      /\ dropped' = dropped \cup {x \in ToSet(items) : Rejected(x)}
  BY DEF FilterAndSort, retrievalVars
<1>2. IsList(items) /\ positions \in SUBSET DOMAIN items
  BY DEF EvaluationInv
<1> HIDE DEF positions
<1>3. IsList(kept) /\ ToSet(kept) \subseteq ToSet(items)
  BY <1>2, KeptIsList DEF ToSet
<1>4. ScoresAreNumbers(kept)
  BY <1>3 DEF ScoresAreNumbers, EvaluationInv, IsItem, ToSet
<1> HIDE DEF kept
<1>5. ToSet(items') \subseteq ToSet(items)
  BY <1>1, <1>3, <1>4, SortedIsAList
<1>6. \A x \in ToSet(items') : Told(request, x) /\ (stage' = "graded" => x.tier = MatchTier(request, x))
  BY <1>1, <1>5 DEF EvidenceInv
<1>7. \A x \in dropped' \ dropped : Justified(request, x)
  <2>1. request \in Requests
    BY DEF Scalars
  <2>2. \A x \in ToSet(items) : IsItem(request, x) /\ Told(request, x)
    BY DEF EvidenceInv, EvaluationInv
  <2>3. \A x \in ToSet(items) : Rejected(x) => Justified(request, x)
    BY <2>1, <2>2, RejectedForAReason
  <2> QED
    BY <1>1, <2>3
<1> QED
  BY <1>1, <1>6, <1>7, NewItemsKeepEvidence

LEMMA TierOfGraded ==
    ASSUME NEW r, NEW x, IsItem(r, x), NEW tier
    PROVE  LET y == [x EXCEPT !.tier = tier]
           IN  /\ y.tier = tier /\ y.results = x.results /\ y.said = x.said /\ SameEvidence(x, y)
               /\ MatchTier(r, y) = MatchTier(r, x)
<1> DEFINE y == [x EXCEPT !.tier = tier]
<1>1. y.tier = tier /\ y.results = x.results /\ y.said = x.said /\ SameEvidence(x, y)
  BY DEF IsItem, ItemFields, SameEvidence
<1> HIDE DEF y
<1>2. y.listing = x.listing /\ y.matches = x.matches
  BY <1>1 DEF SameEvidence
<1>3. Blocked(r, y) <=> Blocked(r, x)
  BY <1>1, <1>2 DEF Blocked, TypeMismatch
<1>4. MustMatched(r, y) = MustMatched(r, x) /\ (Uncertainty(y) <=> Uncertainty(x))
  BY <1>1, <1>2 DEF MustMatched, Uncertainty
<1>5. MatchTier(r, y) = MatchTier(r, x)
  BY <1>3, <1>4 DEF MatchTier
<1> QED
  BY <1>1, <1>5 DEF y

LEMMA GradingKeepsEvidence ==
    ASSUME EvidenceInv, EvaluationInv, GradeItems
    PROVE  EvidenceInv'
<1> DEFINE positions == {k \in DOMAIN items : MatchTier(request, items[k]) # "ineligible"}
           kept == Kept(items, positions)
           graded(x) == [x EXCEPT !.tier = MatchTier(request, x)]
<1>1. /\ UNCHANGED <<request, shown, quotes>>
      /\ items' = [k \in DOMAIN kept |-> graded(kept[k])]
      /\ dropped' = dropped \cup {x \in ToSet(items) : MatchTier(request, x) = "ineligible"}
  BY DEF GradeItems, Graded, retrievalVars
<1>2. IsList(items) /\ positions \in SUBSET DOMAIN items
  BY DEF EvaluationInv
<1> HIDE DEF positions
<1>3. ToSet(kept) \subseteq ToSet(items)
  BY <1>2, KeptIsList DEF ToSet
<1>4. \A x \in ToSet(items) : IsItem(request, x) /\ Told(request, x)
  BY DEF EvidenceInv, EvaluationInv
<1> HIDE DEF kept
<1>5. ASSUME NEW x, IsItem(request, x), Told(request, x)
      PROVE  Told(request, graded(x)) /\ graded(x).tier = MatchTier(request, graded(x))
  <2> DEFINE y == graded(x)
  <2>1. y.tier = MatchTier(request, y) /\ y.results = x.results /\ y.said = x.said /\ SameEvidence(x, y)
    BY <1>5, TierOfGraded
  <2> HIDE DEF y
  <2>2. Told(request, y)
    BY <1>5, <2>1, UpdateIsTold
  <2> QED
    BY <2>1, <2>2 DEF y
<1> HIDE DEF graded
<1>6. \A k \in DOMAIN kept : kept[k] \in ToSet(items)
  BY <1>3 DEF ToSet
<1>7. DOMAIN items' = DOMAIN kept /\ \A k \in DOMAIN kept : items'[k] = graded(kept[k])
  BY <1>1
<1>8. \A x \in ToSet(items') : Told(request, x) /\ (stage' = "graded" => x.tier = MatchTier(request, x))
  BY <1>4, <1>5, <1>6, <1>7 DEF ToSet
<1>9. \A x \in dropped' \ dropped : Justified(request, x)
  BY <1>1, <1>4, IneligibleForAReason
<1> QED
  BY <1>1, <1>8, <1>9, NewItemsKeepEvidence

LEMMA SelectingKeepsEvidence ==
    ASSUME EvidenceInv, EvaluationInv, Scalars, SelectItems
    PROVE  EvidenceInv'
<1> DEFINE n == IF Len(items) < ResultLimit THEN Len(items) ELSE ResultLimit
<1>1. /\ stage = "graded" /\ UNCHANGED <<request, dropped, quotes>>
      /\ items' = <<>> /\ shown' = SubSeq(Ranked(request, items), 1, n)
  BY DEF SelectItems, Select, retrievalVars
<1>2. IsList(items) /\ ScoresAreNumbers(items) /\ TiersAreNamed(items)
  BY <1>1 DEF EvaluationInv, ScoresAreNumbers, TiersAreNamed, ToSet, IsItem
<1>3. request.types \in Seq(STRING)
  BY SearchAssumption DEF Scalars, IsRequest
<1>4. /\ IsList(Ranked(request, items)) /\ Len(Ranked(request, items)) = Len(items)
      /\ ToSet(Ranked(request, items)) = ToSet(items)
  BY <1>2, <1>3, RankedIsAList
<1>5. n \in 0 .. Len(Ranked(request, items))
  BY <1>2, <1>4, ListShape, SearchAssumption
<1> HIDE DEF n
<1>6. ToSet(shown') \subseteq ToSet(items)
  BY <1>1, <1>4, <1>5, PrefixIsList
<1>7. \A x \in ToSet(shown') : Told(request, x) /\ x.tier = MatchTier(request, x)
  BY <1>1, <1>6 DEF EvidenceInv
<1>8. ToSet(items') = {}
  BY <1>1, NoListing
<1>9. QuotesHold'
  BY <1>1 DEF EvidenceInv, QuotesHold
<1> QED
  BY <1>1, <1>7, <1>8, <1>9 DEF EvidenceInv

LEMMA AnsweringConvertsNothing ==
    ASSUME AnswerStep \/ AskAboutShown
    PROVE  UNCHANGED <<request, quotes>>
<1>1. CASE WordAnswer \/ WordingFails \/ AnswerFailure \/ ComposeAnswer \/ AskAboutShown
  BY <1>1 DEF WordAnswer, WordingFails, AnswerFailure, ComposeAnswer, AskAboutShown, retrievalVars, evaluationVars
<1>2. ASSUME NEW facts, ExtractFacts(facts) PROVE UNCHANGED <<request, quotes>>
  BY <1>2 DEF ExtractFacts, retrievalVars, evaluationVars
<1>3. CASE ExtractionFails \/ Reply
  BY <1>3 DEF ExtractionFails, Reply, retrievalVars, evaluationVars
<1>4. ASSUME NEW said, AskFact(said) PROVE UNCHANGED <<request, quotes>>
  BY <1>4 DEF AskFact, searchVars, retrievalVars, evaluationVars
<1>5. CASE QuestionRaises \/ ReplyRaises
  BY <1>5 DEF QuestionRaises, ReplyRaises, evaluationVars
<1> QED
  BY <1>1, <1>2, <1>3, <1>4, <1>5 DEF AnswerStep

LEMMA StepKeepsEvidence ==
    ASSUME EvidenceInv, EvaluationInv, Scalars, CandidatesInv, [Next]_vars
    PROVE  EvidenceInv'
<1>1. ASSUME EvaluationRests, UNCHANGED quotes PROVE EvidenceInv'
  BY <1>1, RestKeepsEvidence DEF EvaluationRests, EvidenceRests
<1>2. ASSUME RetrievalStep \/ DeadlinePasses \/ ProviderStep \/ GetCandidates \/ ScrapingStep, UNCHANGED evaluationVars
      PROVE  EvidenceInv'
  BY <1>1, <1>2, RetrievalEvaluatesNothing DEF evaluationVars
<1>3. CASE ConvertRaises \/ AskRaises \/ Tick
  BY <1>1, <1>3 DEF ConvertRaises, AskRaises, Tick, Fail, retrievalVars, evaluationVars, EvaluationRests
<1>4. CASE EvaluationStep \/ Tick
  BY <1>3, <1>4, ConvertingKeepsEvidence, MatchingKeepsEvidence, AskingKeepsEvidence, RankingKeepsEvidence,
     ScoringKeepsEvidence, FilteringKeepsEvidence, GradingKeepsEvidence, SelectingKeepsEvidence DEF EvaluationStep
<1>5. CASE ComposeAnswer
  BY <1>5, RestKeepsEvidence DEF ComposeAnswer, EvidenceRests
<1>6. CASE AskAboutShown
  BY <1>6, RestKeepsEvidence DEF AskAboutShown, EvidenceRests, retrievalVars
<1>7. CASE AnswerStep
  BY <1>1, <1>5, <1>7, AnswerEvaluatesNothing, AnsweringConvertsNothing
<1>8. CASE UNCHANGED vars
  BY <1>1, <1>8 DEF vars, searchVars, retrievalVars, evaluationVars, EvaluationRests
<1> QED
  BY <1>2, <1>4, <1>6, <1>7, <1>8 DEF Next, Searching, SearchNext, Retrieving, FromLiteApi

-----------------------------------------------------------------------------
(* A question keeps to the evidence. *)

LEMMA RequestStays ==
    ASSUME SearchNext
    PROVE  UNCHANGED request
<1>1. ASSUME RetrievalStep \/ DeadlinePasses \/ ProviderStep \/ GetCandidates \/ ScrapingStep, UNCHANGED evaluationVars
      PROVE  UNCHANGED request
  BY <1>1, RetrievalEvaluatesNothing DEF EvaluationRests
<1>2. ASSUME NEW got, Convert(got) PROVE UNCHANGED request
  BY <1>2 DEF Convert, retrievalVars
<1>3. CASE ConvertRaises \/ AskRaises \/ Tick \/ MatchListing
  BY <1>3 DEF ConvertRaises, AskRaises, Tick, MatchListing, retrievalVars
<1>4. ASSUME NEW answer, Ask(answer) PROVE UNCHANGED request
  BY <1>4 DEF Ask, retrievalVars
<1>5. CASE RankStructured \/ ScoreResolutions \/ FilterAndSort \/ GradeItems \/ SelectItems
  BY <1>5 DEF RankStructured, ScoreResolutions, FilterAndSort, GradeItems, SelectItems, retrievalVars
<1> QED
  BY <1>1, <1>2, <1>3, <1>4, <1>5 DEF SearchNext, Retrieving, FromLiteApi, EvaluationStep

(* What a step does that has nothing to do with a question.                *)
QuestionRests ==
    /\ UNCHANGED <<request, shownSet, question, resolved>>
    /\ response' = response \/ response'.items = <<>>
    /\ stage' = stage \/ stage' # "matching"

LEMMA RestKeepsQuestion ==
    ASSUME QuestionInv, QuestionRests
    PROVE  QuestionInv'
<1>1. UNCHANGED <<request, question, resolved, shownSet>>
  BY DEF QuestionRests
<1>2. (Inquired' <=> Inquired) /\ (AskedOnce' <=> AskedOnce) /\ (FactsTold' <=> FactsTold)
  BY <1>1 DEF Inquired, AskedOnce, FactsTold, Target
<1>3. \A t : ReplyItem(t)' = ReplyItem(t)
  BY <1>1 DEF ReplyItem, PositionOf, Target
<1>4. stage' = "matching" => stage = "matching"
  BY DEF QuestionRests
<1>5. response' = response \/ response'.items = <<>>
  BY DEF QuestionRests
<1>6. response' = response => (RepliedAsTold' <=> RepliedAsTold)
  BY <1>1, <1>2, <1>3 DEF RepliedAsTold
<1> QED
  BY <1>1, <1>2, <1>4, <1>5, <1>6 DEF QuestionInv

(* Only a reply has items.                                                 *)
LEMMA NoReplyYet ==
    ASSUME QuestionInv, AnswerInv, stage # "replied"
    PROVE  response.items = <<>>
BY DEF QuestionInv, AnswerInv, RepliedAsTold

LEMMA ComposingKeepsQuestion ==
    ASSUME QuestionInv, EvidenceInv, AnswerInv, ComposeAnswer
    PROVE  QuestionInv'
<1>1. /\ stage = "done" /\ stage' = "wording" /\ UNCHANGED <<request, response, question, resolved>>
      /\ shownSet' = [k \in DOMAIN shown |-> shown[k].listing]
  BY DEF ComposeAnswer
<1>2. resolved' = <<>> /\ response'.items = <<>>
  BY <1>1 DEF AnswerInv, SearchStages, NoResponse
<1>3. \A k \in DOMAIN shownSet' : Grounded(request, shownSet'[k])
  BY <1>1 DEF EvidenceInv, Told, ToSet
<1>4. FactsTold'
  <2>1. DOMAIN resolved' = {}
    BY <1>2
  <2> QED
    BY <2>1 DEF FactsTold
<1> QED
  BY <1>1, <1>2, <1>3, <1>4 DEF QuestionInv, AskedOnce

LEMMA AskingAboutShownKeepsQuestion ==
    ASSUME QuestionInv, AnswerInv, AskAboutShown
    PROVE  QuestionInv'
<1>1. PICK targets \in Candidates : question' = [NoQuestion EXCEPT !.targets = targets]
  BY DEF AskAboutShown
<1>2. stage = "answered" /\ stage' = "extracting" /\ response' = NoResponse /\ UNCHANGED <<request, shownSet, resolved>>
  BY DEF AskAboutShown, retrievalVars
<1>3. \A s, t \in DOMAIN targets : targets[s] = targets[t] => s = t
  <2>1. ASSUME NEW k, targets = <<k>> PROVE \A s, t \in DOMAIN targets : s = t
    <3>1. DOMAIN targets = {1}
      BY <2>1
    <3> QED
      BY <3>1
  <2>2. CASE targets = [k \in DOMAIN shownSet |-> k]
    BY <2>2
  <2> QED
    BY <2>1, <2>2 DEF Candidates
<1>4. question'.targets = targets
  BY <1>1 DEF NoQuestion
<1>5. DOMAIN resolved' = {} /\ response'.items = <<>>
  <2>1. resolved' = <<>>
    BY <1>2 DEF AnswerInv
  <2> QED
    BY <1>2, <2>1 DEF NoResponse
<1> QED
  BY <1>2, <1>3, <1>4, <1>5 DEF QuestionInv, AskedOnce, FactsTold

LEMMA ExtractingKeepsQuestion ==
    ASSUME QuestionInv, AnswerInv, NEW facts, ExtractFacts(facts)
    PROVE  QuestionInv'
<1> DEFINE matches == [t \in DOMAIN question.targets |-> FactMatches(shownSet[question.targets[t]], facts)]
<1>1. /\ stage = "extracting" /\ stage' \in {"replied", "matching"} /\ UNCHANGED <<request, shownSet>>
      /\ question' = [question EXCEPT !.facts = facts, !.matches = matches]
  BY DEF ExtractFacts, retrievalVars
<1>2. question'.targets = question.targets /\ question'.facts = facts /\ question'.matches = matches
  BY <1>1 DEF AnswerInv
<1>3. stage' = "matching" => Inquired'
  <2> SUFFICES ASSUME stage' = "matching" PROVE Inquired'
    OBVIOUS
  <2>1. resolved' = [t \in DOMAIN question.targets |-> <<>>]
    BY DEF ExtractFacts
  <2>2. DOMAIN resolved' = DOMAIN question'.targets
    BY <1>2, <2>1
  <2> QED
    BY <1>1, <1>2, <2>2 DEF Inquired
<1>4. \A t \in DOMAIN resolved' : resolved'[t] = <<>>
  BY DEF ExtractFacts, AnswerInv
<1>5. \A t \in DOMAIN resolved' : DOMAIN resolved'[t] = {}
  BY <1>4
<1>6. FactsTold'
  BY <1>5 DEF FactsTold
<1>7. response'.items = <<>>
  <2>1. CASE response' = response
    BY <1>1, <2>1, NoReplyYet
  <2>2. CASE Respond([kind |-> "informational", source |-> "deterministic", code |-> "listing_query_unsupported"])
    BY <2>2, RespondedFields DEF NoResponse
  <2> QED
    BY <2>1, <2>2 DEF ExtractFacts
<1> QED
  BY <1>1, <1>2, <1>3, <1>6, <1>7 DEF QuestionInv, AskedOnce

LEMMA AskingFactsKeepsQuestion ==
    ASSUME QuestionInv, AnswerInv, NEW said \in DOMAIN Analyses, AskFact(said)
    PROVE  QuestionInv'
<1>1. stage = "matching" /\ UNCHANGED <<request, stage, shownSet, response, question>>
  BY DEF AskFact, OpenTargets, searchVars, retrievalVars
<1>2. PICK t \in OpenTargets : \E i \in OpenFacts(t) :
          resolved' = [resolved EXCEPT ![t] = Joined(@, [j \in {i} |->
              [value |-> Resolve(Analyses[said], question.facts[i], Target(t)), said |-> said]])]
  BY DEF AskFact
<1>3. PICK i \in OpenFacts(t) :
          resolved' = [resolved EXCEPT ![t] = Joined(@, [j \in {i} |->
              [value |-> Resolve(Analyses[said], question.facts[i], Target(t)), said |-> said]])]
  BY <1>2
<1> DEFINE l == Target(t)
           fact == question.facts[i]
           value == Resolve(Analyses[said], fact, l)
           verdict == [value |-> value, said |-> said]
           joined == Joined(resolved[t], [j \in {i} |-> verdict])
<1>4. t \in DOMAIN question.targets /\ i \notin DOMAIN resolved[t]
  BY DEF OpenTargets, OpenFacts
<1>5. Inquired
  BY <1>1 DEF QuestionInv
<1>6. t \in DOMAIN resolved
  BY <1>4, <1>5 DEF Inquired
<1>7. Grounded(request, l)
  BY <1>4 DEF AnswerInv, QuestionInv, Target
<1>8. resolved' = [resolved EXCEPT ![t] = joined]
  BY <1>3
<1>9. /\ value = "NO" => QuotedIn(request, l, fact, said, Against)
      /\ value = "YES" => QuotedIn(request, l, fact, said, {"supports"})
  <2> HIDE DEF l, fact
  <2> QED
    BY <1>7, DecisionIsQuoted
<1> HIDE DEF value
<1>10. /\ DOMAIN joined = DOMAIN resolved[t] \cup {i}
       /\ \A j \in DOMAIN resolved[t] : joined[j] = resolved[t][j]
       /\ joined[i].value = value /\ joined[i].said = said
  <2> DEFINE new == [j \in {i} |-> verdict]
  <2>1. DOMAIN new = {i} /\ new[i] = verdict
    OBVIOUS
  <2>2. verdict.value = value /\ verdict.said = said
    OBVIOUS
  <2> HIDE DEF new, verdict
  <2> QED
    BY <1>4, <2>1, <2>2 DEF Joined
<1> HIDE DEF joined
<1>11. DOMAIN resolved' = DOMAIN resolved /\ \A u \in DOMAIN resolved : resolved'[u] = IF u = t THEN joined ELSE resolved[u]
  BY <1>6, <1>8
<1>12. \A u : Target(u)' = Target(u)
  BY <1>1 DEF Target
<1>13. FactsTold'
  <2> SUFFICES ASSUME NEW u \in DOMAIN resolved', NEW j \in DOMAIN resolved'[u]
               PROVE  /\ resolved'[u][j].value = "NO" =>
                            QuotedIn(request, Target(u), question.facts[j], resolved'[u][j].said, Against)
                      /\ resolved'[u][j].value = "YES" =>
                            QuotedIn(request, Target(u), question.facts[j], resolved'[u][j].said, {"supports"})
    BY <1>1, <1>12 DEF FactsTold
  <2>1. CASE u = t /\ j = i
    BY <1>9, <1>10, <1>11, <2>1
  <2>2. CASE u # t \/ j # i
    <3>1. u \in DOMAIN resolved /\ j \in DOMAIN resolved[u] /\ resolved'[u][j] = resolved[u][j]
      BY <1>10, <1>11, <2>2
    <3> QED
      BY <3>1 DEF QuestionInv, FactsTold
  <2> QED
    BY <2>1, <2>2
<1>14. Inquired'
  BY <1>1, <1>5, <1>11 DEF Inquired
<1>15. response'.items = <<>>
  BY <1>1, NoReplyYet
<1> QED
  BY <1>1, <1>13, <1>14, <1>15 DEF QuestionInv, AskedOnce

LEMMA ReplyingKeepsQuestion ==
    ASSUME QuestionInv, Reply
    PROVE  QuestionInv'
<1>1. stage = "matching" /\ stage' = "replied" /\ UNCHANGED <<request, shownSet, question, resolved>>
  BY DEF Reply, retrievalVars
<1>2. response'.kind = "listing_query" /\ response'.items = [t \in DOMAIN question.targets |-> ReplyItem(t)]
  BY RespondedFields DEF Reply, NoResponse
<1>3. Inquired
  BY <1>1 DEF QuestionInv
<1>4. (Inquired' <=> Inquired) /\ (AskedOnce' <=> AskedOnce) /\ (FactsTold' <=> FactsTold)
  BY <1>1 DEF Inquired, AskedOnce, FactsTold, Target
<1>5. \A t : ReplyItem(t)' = ReplyItem(t)
  BY <1>1 DEF ReplyItem, PositionOf, Target
<1>6. RepliedAsTold'
  BY <1>1, <1>2, <1>3, <1>4, <1>5 DEF RepliedAsTold
<1> QED
  BY <1>1, <1>4, <1>6 DEF QuestionInv

LEMMA StepKeepsQuestion ==
    ASSUME QuestionInv, AnswerInv, EvidenceInv, [Next]_vars
    PROVE  QuestionInv'
<1>1. CASE Searching(SearchNext)
  <2>1. UNCHANGED answerVars /\ UNCHANGED request /\ (SearchRuns \/ UNCHANGED stage)
    BY <1>1, SearchingAnswersNothing, RequestStays DEF Searching
  <2> QED
    BY <2>1, RestKeepsQuestion DEF answerVars, SearchRuns, SearchStages, QuestionRests
<1>2. CASE WordAnswer \/ WordingFails \/ AnswerFailure
  <2>1. response'.items = <<>>
    BY <1>2, RespondedFields DEF WordAnswer, WordingFails, AnswerFailure, NoResponse
  <2> QED
    BY <1>2, <2>1, RestKeepsQuestion DEF WordAnswer, WordingFails, AnswerFailure, retrievalVars, QuestionRests
<1>3. CASE ExtractionFails
  <2>1. response'.items = <<>>
    BY <1>3, RespondedFields DEF ExtractionFails, NoResponse
  <2> QED
    BY <1>3, <2>1, RestKeepsQuestion DEF ExtractionFails, retrievalVars, QuestionRests
<1>4. CASE QuestionRaises \/ ReplyRaises
  BY <1>4, RestKeepsQuestion DEF QuestionRaises, ReplyRaises, Fail, answerVars, QuestionRests
<1>5. CASE AnswerStep
  BY <1>2, <1>3, <1>4, <1>5, ComposingKeepsQuestion, ExtractingKeepsQuestion, AskingFactsKeepsQuestion,
     ReplyingKeepsQuestion DEF AnswerStep
<1>6. CASE UNCHANGED vars
  BY <1>6, RestKeepsQuestion DEF vars, searchVars, retrievalVars, answerVars, QuestionRests
<1> QED
  BY <1>1, <1>5, <1>6, AskingAboutShownKeepsQuestion DEF Next

-----------------------------------------------------------------------------
(* What is said of a listing. *)

LEMMA SaidOfTarget ==
    ASSUME QuestionInv, AnswerInv, NEW word, NEW v \in Said(word)
    PROVE  /\ v.t \in DOMAIN question.targets /\ v.l = Target(v.t) /\ v.fact \in DOMAIN question.facts
           /\ Inquired
           /\ ReplyItem(v.t).verdicts[v.fact] = word
<1> DEFINE targets == question.targets
           at(item) == CHOOSE t \in DOMAIN targets : targets[t] = item.position
           told(item, i) == [l |-> shownSet[item.position], fact |-> i, t |-> at(item)]
<1>1. PICK item \in ToSet(response.items) : \E i \in DOMAIN item.verdicts : item.verdicts[i] = word /\ v = told(item, i)
  BY DEF Said
<1>2. PICK i \in DOMAIN item.verdicts : item.verdicts[i] = word /\ v = told(item, i)
  BY <1>1
<1>3. response.items # <<>>
  BY NoListing
<1>4. RepliedAsTold
  BY <1>3 DEF QuestionInv
<1>5. RepliedInFull
  BY <1>4 DEF AnswerInv, RepliedAsTold
<1>6. PICK u \in DOMAIN targets : item = ReplyItem(u)
  BY <1>4 DEF RepliedAsTold, ToSet
<1>7. response.items[u] = item /\ DOMAIN response.items = DOMAIN targets
  BY <1>4, <1>6 DEF RepliedAsTold
<1>8. item.position = targets[u]
  BY <1>5, <1>7 DEF RepliedInFull
<1>9. at(item) = u
  <2>1. \A t \in DOMAIN targets : targets[t] = item.position => t = u
    BY <1>8 DEF QuestionInv, AskedOnce
  <2> QED
    BY <1>8, <2>1
<1>10. v.t = u /\ v.fact = i /\ v.l = shownSet[targets[u]]
  BY <1>2, <1>8, <1>9
<1>11. DOMAIN item.verdicts = DOMAIN question.facts
  BY <1>5 DEF RepliedInFull
<1> QED
  BY <1>2, <1>4, <1>6, <1>10, <1>11 DEF Target, RepliedAsTold

LEMMA SaidIsTold ==
    ASSUME QuestionInv, AnswerInv, NEW word, NEW value \in {"NO", "YES"},
           \A w : VerdictSentence(w) = word => w = value, NEW v \in Said(word)
    PROVE  \/ ByField(FactOf(v)) /\ MatchField(v.l.signals, Head(FactOf(v).fields)) = value
           \/ v.fact \in DOMAIN resolved[v.t] /\ resolved[v.t][v.fact].value = value
<1> DEFINE t == v.t
           i == v.fact
           fact == question.facts[i]
           decisions == {resolved[t][j].value : j \in DOMAIN resolved[t] \cap {i}}
           verdict == FactVerdict(fact, question.matches[t], decisions)
<1>1. /\ t \in DOMAIN question.targets /\ v.l = Target(t) /\ i \in DOMAIN question.facts /\ Inquired
      /\ ReplyItem(t).verdicts[i] = word
  BY SaidOfTarget
<1>2. ReplyItem(t).verdicts[i] = VerdictSentence(verdict)
  BY <1>1 DEF ReplyItem
<1>3. verdict = value
  <2> HIDE DEF verdict
  <2> QED
    BY <1>1, <1>2
<1>4. CASE decisions # {}
  <2>1. i \in DOMAIN resolved[t] /\ decisions = {resolved[t][i].value}
    BY <1>4
  <2>2. verdict \in decisions
    <3> HIDE DEF decisions
    <3> QED
      BY <1>4 DEF FactVerdict
  <2> QED
    BY <1>3, <2>1, <2>2
<1>5. CASE decisions = {}
  <2>1. ByField(fact) /\ verdict = question.matches[t][Head(fact.fields)]
    <3> HIDE DEF decisions
    <3> QED
      BY <1>3, <1>5 DEF FactVerdict
  <2> DEFINE f == Head(fact.fields)
             fields == {Head(question.facts[k].fields) : k \in {j \in DOMAIN question.facts : ByField(question.facts[j])}}
  <2>2. f \in fields
    BY <1>1, <2>1
  <2>3. question.matches[t] = FactMatches(v.l, question.facts)
    BY <1>1 DEF Inquired, Target
  <2>4. FactMatches(v.l, question.facts) = [g \in fields |-> MatchField(v.l.signals, g)]
    BY DEF FactMatches
  <2> HIDE DEF fields, f
  <2>5. question.matches[t][f] = MatchField(v.l.signals, f)
    BY <2>2, <2>3, <2>4
  <2> QED
    BY <1>3, <2>1, <2>5 DEF f, FactOf
<1> QED
  BY <1>4, <1>5

LEMMA RejectionsAreTold ==
    ASSUME EvidenceInv, QuestionInv, AnswerInv
    PROVE  RejectedOnlyOnEvidence
<1>1. \A x \in dropped : Justified(request, x)
  BY DEF EvidenceInv
<1>2. ASSUME NEW v \in Said("has not")
      PROVE  (ByField(FactOf(v)) /\ Denied(request, v.l, Head(FactOf(v).fields))) \/ ByQuote(v, Against)
  <2>1. \A w : VerdictSentence(w) = "has not" => w = "NO"
    BY DEF VerdictSentence
  <2>2. /\ v.t \in DOMAIN question.targets /\ v.l = Target(v.t) /\ v.fact \in DOMAIN question.facts /\ Inquired
    BY SaidOfTarget
  <2>3. Grounded(request, v.l)
    BY <2>2 DEF QuestionInv, AnswerInv, Target
  <2>4. \/ ByField(FactOf(v)) /\ MatchField(v.l.signals, Head(FactOf(v).fields)) = "NO"
        \/ v.fact \in DOMAIN resolved[v.t] /\ resolved[v.t][v.fact].value = "NO"
    BY <2>1, SaidIsTold
  <2>5. CASE ByField(FactOf(v)) /\ MatchField(v.l.signals, Head(FactOf(v).fields)) = "NO"
    BY <2>3, <2>5, FieldsOfListing
  <2>6. CASE v.fact \in DOMAIN resolved[v.t] /\ resolved[v.t][v.fact].value = "NO"
    BY <2>2, <2>6 DEF QuestionInv, FactsTold, Inquired, ByQuote, FactOf
  <2> QED
    BY <2>4, <2>5, <2>6
<1> QED
  BY <1>1, <1>2 DEF RejectedOnlyOnEvidence, Justified

-----------------------------------------------------------------------------
(* What a confirmation rests on. *)

LEMMA StrongIsConfirmed ==
    ASSUME NEW r, IsRequest(r), NEW x, IsItem(r, x), Represented(r, x), Told(r, x), MatchTier(r, x) = "strong"
    PROVE  /\ \A f \in KnownFields(r, {"must"}) : Affirmed(r, x.listing, f)
           /\ r.types # <<>> => x.listing.type \in ToSet(r.types)
           /\ \A c \in Positions(r) :
                 Covered(r.constraints[c]) /\ r.constraints[c].priority = "must" => Quoted(r, x, c, {"supports"})
<1> DEFINE musts == KnownFields(r, {"must"})
           met == Having(x.matches, "YES", musts)
           typed == IF r.types # <<>> THEN 1 ELSE 0
           ofType == IF x.listing.type \in ToSet(r.types) THEN 1 ELSE 0
<1>1. ~Blocked(r, x) /\ MustMatched(r, x) = MustTotal(r) /\ ~Uncertainty(x)
  BY DEF MatchTier
<1>2. IsFiniteSet(musts)
  BY FieldsAreFinite
<1>3. met \subseteq musts
  BY DEF Having
<1>4. Cardinality(met) + ofType = Cardinality(musts) + typed
  BY <1>1 DEF MustMatched, MustTotal
<1>5. ofType \in 0 .. typed
  BY NoListing
<1> HIDE DEF musts, met
<1>6. /\ Cardinality(musts) \in Nat /\ Cardinality(met) \in Nat /\ Cardinality(met) <= Cardinality(musts)
      /\ Cardinality(met) = Cardinality(musts) => met = musts
  BY <1>2, <1>3, FS_Subset, FS_CardinalityType
<1>7. met = musts /\ ofType = typed
  <2> HIDE DEF ofType
  <2>1. typed \in {0, 1}
    OBVIOUS
  <2> HIDE DEF typed
  <2> QED
    BY <1>4, <1>5, <1>6, <2>1
<1>8. \A f \in musts : Affirmed(r, x.listing, f)
  <2> SUFFICES ASSUME NEW f \in musts PROVE Affirmed(r, x.listing, f)
    OBVIOUS
  <2>1. x.matches[f] = "YES"
    BY <1>7 DEF met, Having
  <2>2. f \in DOMAIN x.matches
    BY DEF musts, KnownFields, IsItem
  <2> QED
    BY <2>1, <2>2 DEF Told, FieldsTold
<1>9. r.types # <<>> => x.listing.type \in ToSet(r.types)
  BY <1>7
<1>10. ASSUME NEW c \in Positions(r), Covered(r.constraints[c])
       PROVE  Quoted(r, x, c, {"supports"})
  <2>1. c \in DOMAIN x.results
    BY <1>10 DEF Represented
  <2>2. x.results[c] \in Ternary \ {"NO", "UNCERTAIN"}
    BY <1>1, <2>1 DEF Blocked, Uncertainty, IsItem
  <2>3. x.results[c] = "YES"
    BY <2>2 DEF Ternary
  <2> QED
    BY <2>1, <2>3 DEF Told, DecisionsTold
<1> QED
  BY <1>8, <1>9, <1>10 DEF musts

(* The constraint a field speaks for has that field.                       *)
LEMMA HolderHasField ==
    ASSUME NEW r, IsRequest(r), NEW c \in Positions(r), NEW f \in ToSet(r.constraints[c].fields)
    PROVE  Holder(r, f) \in Positions(r) /\ f \in ToSet(r.constraints[Holder(r, f)].fields)
<1> DEFINE holders == {d \in Positions(r) : f \in ToSet(r.constraints[d].fields)}
<1>1. Positions(r) \subseteq Int /\ IsFiniteSet(Positions(r))
  BY FieldsAreFinite
<1>2. holders \in SUBSET Int /\ IsFiniteSet(holders) /\ holders # {}
  BY <1>1, FS_Subset
<1>3. Holder(r, f) = CHOOSE b \in holders : \A d \in holders : d <= b
  BY DEF Holder
<1> HIDE DEF holders
<1>4. Holder(r, f) \in holders
  BY <1>2, <1>3, GreatestExists
<1> QED
  BY <1>4 DEF holders

LEMMA MatchedIsConfirmed ==
    ASSUME NEW r, IsRequest(r), NEW x, IsItem(r, x), Told(r, x),
           NEW c \in Positions(r), r.constraints[c].priority = "nice", ShownStatus(r, x, c) \subseteq {"matched"}
    PROVE  \E f \in ToSet(r.constraints[c].fields) : Affirmed(r, x.listing, f)
<1> DEFINE said == StatusesOf(r, x, c)
<1>1. "matched" \in said
  <2> HIDE DEF said
  <2>1. ShownStatus(r, x, c) =
            CASE "failed" \in said -> {"failed"}
              [] "failed" \notin said /\ "matched" \in said -> {"matched"}
              [] said = {"uncertain"} -> {"uncertain"}
              [] OTHER -> IF r.constraints[c].priority = "nice" THEN {"uncertain"} ELSE {}
    BY DEF ShownStatus, said
  <2> QED
    BY <2>1
<1>2. \A value : Status(value) = "matched" => value = "YES"
  BY DEF Status
<1>3. \/ \E f \in KnownFields(r, {"must", "nice"}) : Holder(r, f) = c /\ Status(x.matches[f]) = "matched"
      \/ c \in DOMAIN x.results
  BY <1>1 DEF StatusesOf
<1>4. CASE c \in DOMAIN x.results
  BY <1>4 DEF Told, DecisionsTold, Blocking
<1>5. ASSUME NEW f \in KnownFields(r, {"must", "nice"}), Holder(r, f) = c, Status(x.matches[f]) = "matched"
      PROVE  f \in ToSet(r.constraints[c].fields) /\ Affirmed(r, x.listing, f)
  <2>1. PICK d \in Positions(r) : f \in ToSet(r.constraints[d].fields)
    BY DEF KnownFields
  <2>2. f \in ToSet(r.constraints[c].fields)
    BY <1>5, <2>1, HolderHasField
  <2>3. f \in DOMAIN x.matches
    BY DEF KnownFields, IsItem
  <2> QED
    BY <1>2, <1>5, <2>2, <2>3 DEF Told, FieldsTold
<1> QED
  BY <1>3, <1>4, <1>5

LEMMA LabelIsConfirmed ==
    ASSUME NEW r, IsRequest(r), NEW x, IsItem(r, x), Told(r, x), NEW k,
           AnswerCard(r, x, k).label = "fully_confirmed_match"
    PROVE  x.tier = "strong" /\ FullyConfirmed(r, x)
<1> DEFINE requested == RequestedStatuses(r, x)
           derived == DerivedStatuses(x)
           statuses == AnswerSections(requested, derived)
<1>1. ResultVerdict(x.tier, statuses) = "fully_confirmed_match"
  BY DEF AnswerCard
<1> HIDE DEF statuses
<1>2. x.tier = "strong" /\ statuses \subseteq {"matched"}
  BY <1>1 DEF ResultVerdict
<1>3. /\ \A c \in DOMAIN requested : requested[c] = "matched"
      /\ \A a \in DOMAIN derived : derived[a] = "matched"
  BY <1>2 DEF statuses, AnswerSections
<1>4. ASSUME NEW c \in Positions(r), r.constraints[c].priority = "nice"
      PROVE  \E f \in ToSet(r.constraints[c].fields) : Affirmed(r, x.listing, f)
  <2>1. ShownStatus(r, x, c) \in {{"failed"}, {"matched"}, {"uncertain"}}
    BY <1>4 DEF ShownStatus
  <2>2. c \in DOMAIN requested /\ requested[c] = CHOOSE s \in ShownStatus(r, x, c) : TRUE
    BY <2>1 DEF RequestedStatuses
  <2>3. requested[c] \in ShownStatus(r, x, c)
    BY <2>1, <2>2
  <2>4. ShownStatus(r, x, c) \subseteq {"matched"}
    BY <1>3, <2>1, <2>2, <2>3
  <2> QED
    BY <1>4, <2>4, MatchedIsConfirmed
<1>5. \A a \in NumbersAsked(r) : x.numeric[a] = "YES" /\ a \in DOMAIN x.numeric
  <2> SUFFICES ASSUME NEW a \in NumbersAsked(r) PROVE x.numeric[a] = "YES" /\ a \in DOMAIN x.numeric
    OBVIOUS
  <2>1. a \in DOMAIN x.numeric
    BY DEF IsItem
  <2>2. a \in DOMAIN derived /\ derived[a] = Status(x.numeric[a])
    BY <2>1 DEF DerivedStatuses
  <2>3. Status(x.numeric[a]) = "matched"
    BY <1>3, <2>2
  <2> QED
    BY <2>1, <2>3 DEF Status
<1>6. ASSUME NEW a \in DOMAIN r.filters, Asked(r.filters[a])
      PROVE  \E m \in Mentions(x, a) : InRange(m, r.filters[a])
  <2>1. a \in {"bedrooms", "bathrooms", "area_sqm"}
    BY DEF IsRequest
  <2>2. a \in NumbersAsked(r) /\ a # "price_total"
    BY <1>6, <2>1 DEF NumbersAsked
  <2> QED
    BY <1>5, <2>2 DEF Told, NumbersTold
<1>7. r.price.min \cup r.price.max # {} =>
          ExtractTotalPrice(x.listing) # {} /\ \A scope \in Scopes(r) : ~OutsideAs(r, x, scope)
  <2> SUFFICES ASSUME r.price.min \cup r.price.max # {}
               PROVE  ExtractTotalPrice(x.listing) # {} /\ \A scope \in Scopes(r) : ~OutsideAs(r, x, scope)
    OBVIOUS
  <2>1. "price_total" \in NumbersAsked(r)
    BY DEF NumbersAsked
  <2> QED
    BY <1>5, <2>1 DEF Told, PriceTold
<1> QED
  BY <1>2, <1>4, <1>6, <1>7 DEF FullyConfirmed

LEMMA ConfirmationsAreTold ==
    ASSUME TypeInv, EvidenceInv, QuestionInv
    PROVE  ConfirmedOnEvidence
<1>1. IsRequest(request) /\ EvaluationInv /\ AnswerInv
  BY SearchAssumption DEF TypeInv, RetrievalInv, Scalars
<1>2. \A x \in ToSet(shown) :
          IsItem(request, x) /\ Represented(request, x) /\ Told(request, x) /\ x.tier = MatchTier(request, x)
  BY <1>1 DEF EvaluationInv, EvidenceInv
<1>3. ASSUME NEW x \in ToSet(shown), x.tier = "strong"
      PROVE  /\ \A f \in KnownFields(request, {"must"}) : Affirmed(request, x.listing, f)
             /\ request.types # <<>> => x.listing.type \in ToSet(request.types)
             /\ \A c \in Positions(request) :
                   Covered(request.constraints[c]) /\ request.constraints[c].priority = "must"
                       => Quoted(request, x, c, {"supports"})
  BY <1>1, <1>2, <1>3, StrongIsConfirmed
<1>4. ASSUME NEW k \in DOMAIN cards, cards[k].label = "fully_confirmed_match"
      PROVE  shown[k].tier = "strong" /\ FullyConfirmed(request, shown[k])
  <2>1. cards = CardsOfShown
    <3>1. DOMAIN <<>> = {}
      OBVIOUS
    <3> QED
      BY <1>1, <1>4, <3>1 DEF AnswerInv
  <2>2. k \in DOMAIN shown /\ cards[k] = AnswerCard(request, shown[k], k)
    BY <2>1 DEF CardsOfShown
  <2>3. shown[k] \in ToSet(shown)
    BY <2>2 DEF ToSet
  <2> QED
    BY <1>1, <1>2, <1>4, <2>2, <2>3, LabelIsConfirmed
<1>5. ASSUME NEW v \in Said("has")
      PROVE  (ByField(FactOf(v)) /\ Affirmed(request, v.l, Head(FactOf(v).fields))) \/ ByQuote(v, {"supports"})
  <2>1. \A w : VerdictSentence(w) = "has" => w = "YES"
    BY DEF VerdictSentence
  <2>2. /\ v.t \in DOMAIN question.targets /\ v.l = Target(v.t) /\ v.fact \in DOMAIN question.facts /\ Inquired
    BY <1>1, SaidOfTarget
  <2>3. Grounded(request, v.l)
    BY <1>1, <2>2 DEF QuestionInv, AnswerInv, Target
  <2>4. \/ ByField(FactOf(v)) /\ MatchField(v.l.signals, Head(FactOf(v).fields)) = "YES"
        \/ v.fact \in DOMAIN resolved[v.t] /\ resolved[v.t][v.fact].value = "YES"
    BY <1>1, <2>1, SaidIsTold
  <2>5. CASE ByField(FactOf(v)) /\ MatchField(v.l.signals, Head(FactOf(v).fields)) = "YES"
    BY <2>3, <2>5, FieldsOfListing
  <2>6. CASE v.fact \in DOMAIN resolved[v.t] /\ resolved[v.t][v.fact].value = "YES"
    BY <2>2, <2>6 DEF QuestionInv, FactsTold, Inquired, ByQuote, FactOf
  <2> QED
    BY <2>4, <2>5, <2>6
<1> QED
  BY <1>3, <1>4, <1>5 DEF ConfirmedOnEvidence

-----------------------------------------------------------------------------
(* The candidates are what the provider said. *)

LEMMA FirstItemsAreListed ==
    ASSUME NEW s, IsList(s), NEW count \in Nat
    PROVE  IsList(FirstItems(s, count)) /\ ToSet(FirstItems(s, count)) \subseteq ToSet(s)
<1> DEFINE n == IF Len(s) < count THEN Len(s) ELSE count
<1>1. n \in 0 .. Len(s)
  BY ListShape
<1>2. FirstItems(s, count) = SubSeq(s, 1, n)
  BY DEF FirstItems
<1> HIDE DEF n
<1> QED
  BY <1>1, <1>2, PrefixIsList

LEMMA KeptOfList ==
    ASSUME NEW s, IsList(s), NEW positions \in SUBSET DOMAIN s
    PROVE  IsList(Kept(s, positions)) /\ ToSet(Kept(s, positions)) \subseteq ToSet(s)
BY KeptIsList DEF ToSet

LEMMA SamplesAreTold ==
    ASSUME NEW city, NEW checkIn, NEW nights
    PROVE  /\ IsList(FixtureCandidates(city, checkIn, nights))
           /\ \A l \in ToSet(FixtureCandidates(city, checkIn, nights)) :
                 /\ l.of \in DOMAIN Samples
                 /\ GroundedIn(Among(ListingPhrases(Samples[l.of].listing)), l)
<1> DEFINE fits(i) == Samples[i].city = city /\ CoversDates(Samples[i].window, checkIn, checkIn + nights)
           priced(i) == [Sampled[i] EXCEPT !.total = PriceForStay(Samples[i], nights)]
           all == [i \in DOMAIN Samples |-> priced(i)]
           positions == {i \in DOMAIN Samples : fits(i)}
<1>1. FixtureCandidates(city, checkIn, nights) = FirstItems(Kept(all, positions), MaxItems)
  BY DEF FixtureCandidates
<1>2. ASSUME NEW i \in DOMAIN Samples
      PROVE  priced(i).of = i /\ GroundedIn(Among(ListingPhrases(Samples[i].listing)), priced(i))
  <2> DEFINE c == Sampled[i]
  <2>1. c.of = i /\ GroundedIn(Among(ListingPhrases(Samples[i].listing)), c)
    BY SampledIsTold
  <2>2. {"of", "signals", "evidence", "total"} \subseteq DOMAIN c
    BY DEF Sampled, Candidate
  <2> HIDE DEF c
  <2>3. priced(i).of = c.of /\ priced(i).signals = c.signals /\ priced(i).evidence = c.evidence
    BY <2>2 DEF c
  <2> HIDE DEF priced
  <2> QED
    BY <2>1, <2>3 DEF GroundedIn
<1> HIDE DEF priced, fits
<1>3. IsList(all) /\ DOMAIN all = DOMAIN Samples
  <2>1. all = [i \in DOMAIN Samples |-> all[i]]
    OBVIOUS
  <2> HIDE DEF all
  <2> QED
    BY <2>1, FixturesAssumption, SamePlacesIsList
<1>4. positions \in SUBSET DOMAIN all
  BY <1>3
<1>5. \A i \in DOMAIN all : all[i] = priced(i)
  OBVIOUS
<1> HIDE DEF all, positions
<1>6. IsList(Kept(all, positions)) /\ ToSet(Kept(all, positions)) \subseteq ToSet(all)
  BY <1>3, <1>4, KeptOfList
<1>7. MaxItems \in Nat
  BY FixturesAssumption
<1>8. /\ IsList(FixtureCandidates(city, checkIn, nights))
      /\ ToSet(FixtureCandidates(city, checkIn, nights)) \subseteq ToSet(all)
  BY <1>1, <1>6, <1>7, FirstItemsAreListed
<1>9. \A l \in ToSet(all) : \E i \in DOMAIN Samples : l = priced(i)
  BY <1>3, <1>5 DEF ToSet
<1> QED
  BY <1>2, <1>8, <1>9

LEMMA TypesAreAsked ==
    ASSUME NEW types, types \in Seq(STRING)
    PROVE  IsList(ActorTypes(types)) /\ Len(ActorTypes(types)) \in Nat \ {0}
<1> DEFINE asked == ActorTypes(types)
<1>1. CASE types = <<>>
  <2>1. asked = <<"none">>
    BY <1>1 DEF ActorTypes
  <2>2. Len(<<"none">>) = 1
    OBVIOUS
  <2>3. IsList(<<"none">>)
    BY ShortLists
  <2> HIDE DEF asked, IsList
  <2> QED
    BY <2>1, <2>2, <2>3 DEF asked
<1>2. CASE types # <<>>
  <2> DEFINE mapped == [i \in DOMAIN types |-> IF types[i] \in SearchableTypes THEN types[i] ELSE "none"]
             first(i) == \A j \in 1 .. (i - 1) : mapped[j] # mapped[i]
             firsts == {i \in DOMAIN types : first(i)}
  <2>1. asked = Kept(mapped, firsts)
    BY <1>2 DEF ActorTypes
  <2>2. IsList(types) /\ Len(types) \in Nat /\ DOMAIN types = 1 .. Len(types)
    BY SeqIsList, ListShape
  <2>3. 1 \in firsts
    <3>1. Len(types) # 0
      BY <1>2, <2>2, EmptySeq
    <3> QED
      BY <2>2, <3>1
  <2>4. firsts \in SUBSET DOMAIN mapped
    OBVIOUS
  <2>5. IsList(mapped)
    <3>1. mapped = [i \in DOMAIN types |-> mapped[i]]
      OBVIOUS
    <3> HIDE DEF mapped
    <3> QED
      BY <2>2, <3>1, SamePlacesIsList
  <2> HIDE DEF mapped, firsts
  <2>6. IsList(asked) /\ ToSet(asked) = {mapped[i] : i \in firsts}
    BY <2>1, <2>4, <2>5, KeptIsList
  <2>7. ToSet(asked) # {}
    BY <2>3, <2>6
  <2>8. Len(asked) \in Nat /\ DOMAIN asked = 1 .. Len(asked)
    BY <2>6, ListShape
  <2> HIDE DEF asked
  <2>9. Len(asked) # 0
    BY <2>7, <2>8 DEF ToSet
  <2> QED
    BY <2>6, <2>8, <2>9 DEF asked
<1> QED
  BY <1>1, <1>2

LEMMA ActorsArePlanned ==
    ASSUME NEW types, types \in Seq(STRING)
    PROVE  IsList(PlannedActors(types)) /\ \A a \in ToSet(PlannedActors(types)) : IsRun(a)
<1> DEFINE asked == ActorTypes(types)
           budget(i) == Share(i, Len(asked))
           plan == [i \in DOMAIN asked |-> [type |-> asked[i], budget |-> budget(i), state |-> "running", items |-> <<>>]]
           positions == {i \in DOMAIN plan : plan[i].budget > 0}
<1>1. IsList(asked) /\ Len(asked) \in Nat \ {0}
  BY TypesAreAsked
<1> HIDE DEF asked
<1>2. \A i \in DOMAIN asked : budget(i) \in Int
  <2>1. MaxItems \in Nat
    BY FixturesAssumption
  <2> QED
    BY <1>1, <2>1 DEF Share
<1> HIDE DEF budget
<1>3. IsList(plan) /\ DOMAIN plan = DOMAIN asked
  <2>1. plan = [i \in DOMAIN asked |-> plan[i]]
    OBVIOUS
  <2> HIDE DEF plan
  <2> QED
    BY <1>1, <2>1, SamePlacesIsList
<1>4. \A i \in DOMAIN plan : plan[i].budget > 0 => IsRun(plan[i])
  <2> SUFFICES ASSUME NEW i \in DOMAIN plan, plan[i].budget > 0 PROVE IsRun(plan[i])
    OBVIOUS
  <2>1. plan[i] = [type |-> asked[i], budget |-> budget(i), state |-> "running", items |-> <<>>]
    OBVIOUS
  <2>2. DOMAIN plan[i] = {"type", "budget", "state", "items"} /\ plan[i].budget = budget(i) /\ plan[i].items = <<>>
    BY <2>1
  <2>3. budget(i) \in Int
    BY <1>2
  <2> HIDE DEF plan, IsList
  <2>4. plan[i].budget \in Nat
    BY <2>2, <2>3
  <2> QED
    BY <2>2, <2>4, NoListing DEF IsRun
<1>5. PlannedActors(types) = Kept(plan, positions) /\ positions \in SUBSET DOMAIN plan
  BY DEF PlannedActors, asked, budget
<1>6. \A i \in positions : IsRun(plan[i])
  BY <1>4
<1> HIDE DEF plan, positions
<1>7. IsList(Kept(plan, positions)) /\ ToSet(Kept(plan, positions)) = {plan[i] : i \in positions}
  BY <1>3, <1>5, KeptIsList
<1> QED
  BY <1>5, <1>6, <1>7

(* The hotels asked about are hotels of the reply.                         *)
LEMMA HotelIdsAreOffered ==
    ASSUME NEW reply \in RatesReplies \cup {<<>>}
    PROVE  /\ IsList(HotelIds[reply])
           /\ \A k \in DOMAIN HotelIds[reply] : \E i \in DOMAIN reply : HotelIds[reply][k] = reply[i].hotel
<1> DEFINE first == {i \in DOMAIN reply :
                       /\ reply[i].offers # <<>>
                       /\ \A j \in 1 .. (i - 1) : reply[j].hotel = reply[i].hotel => reply[j].offers = <<>>}
           place(i) == Cardinality({j \in first : j <= i})
           count == IF Cardinality(first) < MaxDetailCalls THEN Cardinality(first) ELSE MaxDetailCalls
           at(k) == CHOOSE i \in first : place(i) = k
           ids == [k \in 1 .. count |-> reply[at(k)].hotel]
           R == {p \in first \X first : p[1] < p[2]}
           r == Ranking(first, R)
<1>1. IsList(reply)
  <2>1. CASE reply \in RatesReplies
    <3> DEFINE T == [hotel : STRING, offers : Seq(Rate)]
    <3>1. reply \in Seq(T)
      BY <2>1, LiteApiAssumption
    <3> HIDE DEF T
    <3> QED
      BY <3>1, SeqIsList
  <2>2. CASE reply = <<>>
    BY <2>2, NoListing
  <2> QED
    BY <2>1, <2>2
<1>2. HotelIds[reply] = ids
  BY DEF HotelIds
<1>3. first \in SUBSET DOMAIN reply
  OBVIOUS
<1> HIDE DEF first
<1>4. IsFiniteSet(first) /\ Cardinality(first) \in Nat /\ first \in SUBSET Nat
  BY <1>1, <1>3, ListShape, FS_Interval, FS_Subset, FS_CardinalityType
<1>5. \A i, j \in first : <<i, j>> \in R <=> i < j
  OBVIOUS
<1> HIDE DEF R
<1>6. StrictOrder(R, first)
  BY <1>4, <1>5 DEF StrictOrder
<1>7. /\ \A k \in 1 .. Cardinality(first) : r[k] \in first
      /\ \A k \in 1 .. Cardinality(first) : Cardinality(Ahead(first, R, r[k])) = k - 1
  <2>1. IsFiniteSet(first)
    BY <1>4
  <2> QED
    BY <1>6, <2>1, RankingIsAPermutation
<1>8. \A i \in first : place(i) = Cardinality(Ahead(first, R, i)) + 1
  <2> SUFFICES ASSUME NEW i \in first PROVE place(i) = Cardinality(Ahead(first, R, i)) + 1
    OBVIOUS
  <2>1. i \in Nat /\ \A j \in first : j \in Nat
    BY <1>4
  <2>2. \A j \in first : j <= i <=> (<<j, i>> \in R \/ j = i)
    BY <1>5, <2>1
  <2>3. {j \in first : j <= i} = Ahead(first, R, i) \cup {i}
    BY <2>2 DEF Ahead
  <2>4. i \notin Ahead(first, R, i)
    BY <1>5, <2>1 DEF Ahead
  <2>5. IsFiniteSet(Ahead(first, R, i))
    BY <1>4, <1>6, FewerAhead
  <2> QED
    BY <2>3, <2>4, <2>5, FS_AddElement
<1> HIDE DEF r
<1>9. count \in Nat /\ count <= Cardinality(first)
  BY <1>4, LiteApiAssumption
<1> HIDE DEF count
<1>10. \A k \in 1 .. count : \E i \in first : place(i) = k
  <2> TAKE k \in 1 .. count
  <2>1. k \in 1 .. Cardinality(first)
    BY <1>4, <1>9
  <2>2. r[k] \in first /\ place(r[k]) = (k - 1) + 1
    BY <1>7, <1>8, <2>1
  <2> HIDE DEF place
  <2> QED
    BY <2>2
<1> HIDE DEF place
<1>11. \A k \in 1 .. count : at(k) \in first
  BY <1>10
<1> HIDE DEF at
<1>12. IsList(ids)
  <2>1. DOMAIN ids = 1 .. count /\ ids = [k \in 1 .. count |-> ids[k]]
    OBVIOUS
  <2> HIDE DEF ids
  <2> QED
    BY <1>9, <2>1, ListOfLength
<1>13. \A k \in DOMAIN ids : \E i \in DOMAIN reply : ids[k] = reply[i].hotel
  BY <1>3, <1>11
<1> HIDE DEF ids, IsList
<1> QED
  BY <1>2, <1>12, <1>13

LEMMA CollectingKeepsCandidates ==
    ASSUME CandidatesInv, DetailInv, Collect, UNCHANGED actors
    PROVE  CandidatesInv'
<1> DEFINE hotels == HotelIds[offers]
           usable == {k \in DOMAIN hotels : IsListing(detail[hotels[k]].answer)}
           named == Kept(hotels, usable)
           listing(h) == NormalizeListing(h, detail[h].answer)
<1>1. /\ stage = "collecting" /\ stage' = "retrieved" /\ UNCHANGED request
      /\ listings' = [k \in DOMAIN named |-> listing(named[k])]
  BY DEF Collect
<1>2. offers \in RatesReplies \cup {<<>>} /\ request.source = "liteapi"
  BY <1>1 DEF DetailInv, CandidatesInv
<1>3. IsList(hotels) /\ \A k \in DOMAIN hotels : \E i \in DOMAIN offers : hotels[k] = offers[i].hotel
  BY <1>2, HotelIdsAreOffered
<1>4. usable \in SUBSET DOMAIN hotels
  OBVIOUS
<1>5. \A k \in usable : detail[hotels[k]].answer \in DOMAIN Hotels
  BY DEF IsListing
<1> HIDE DEF hotels, usable
<1>6. IsList(named) /\ ToSet(named) = {hotels[k] : k \in usable}
  BY <1>3, <1>4, KeptIsList
<1> HIDE DEF named
<1>7. \A h \in ToSet(named) : /\ detail[h].answer \in DOMAIN Hotels
                              /\ \E i \in DOMAIN offers : h = offers[i].hotel
  BY <1>3, <1>4, <1>5, <1>6
<1>8. ASSUME NEW h, detail[h].answer \in DOMAIN Hotels, NEW i \in DOMAIN offers, h = offers[i].hotel
      PROVE  Grounded(request, listing(h))
  <2> DEFINE name == detail[h].answer
             l == NormalizeListing(h, name)
  <2>1. offers \in RatesReplies
    <3>1. DOMAIN <<>> = {}
      OBVIOUS
    <3> QED
      BY <1>2, <1>8, <3>1
  <2>2. OffersOf(offers, h) \in OfferLists
    BY <1>8, <2>1 DEF OfferLists
  <2>3. name \in DOMAIN Hotels
    BY <1>8
  <2> HIDE DEF name
  <2>4. l.of = name /\ GroundedIn(DOMAIN Phrases \cap StatedPhrases(Hotels[name], l.offered), l)
    BY <2>1, <2>2, <2>3, NormalizedIsTold
  <2> HIDE DEF l
  <2>5. ToldPhrases(request, l) = DOMAIN Phrases \cap StatedPhrases(Hotels[name], l.offered)
    BY <1>2, <2>4 DEF ToldPhrases
  <2>6. Grounded(request, l)
    BY <2>4, <2>5 DEF Grounded
  <2> QED
    BY <2>6 DEF l, name
<1> HIDE DEF listing
<1>9. \A h \in ToSet(named) : Grounded(request, listing(h))
  BY <1>7, <1>8
<1>10. IsList(listings') /\ DOMAIN listings' = DOMAIN named
  <2>1. listings' = [k \in DOMAIN named |-> listings'[k]]
    BY <1>1
  <2> QED
    BY <1>6, <2>1, SamePlacesIsList
<1>11. \A l \in ToSet(listings') : Grounded(request, l)
  BY <1>1, <1>9, <1>10 DEF ToSet
<1>12. IsList(actors') /\ \A a \in ToSet(actors') : IsRun(a)
  BY DEF CandidatesInv
<1> HIDE DEF IsList
<1> QED
  BY <1>1, <1>10, <1>11, <1>12 DEF CandidatesInv

LEMMA MergedAreItems ==
    ASSUME IsList(actors), \A a \in ToSet(actors) : IsRun(a)
    PROVE  IsList(Merged) /\ ToSet(Merged) \subseteq DOMAIN Items
<1> DEFINE found == [i \in DOMAIN actors |-> actors[i].items]
           all == FlattenSeq(found)
<1>1. IsList(found) /\ DOMAIN found = DOMAIN actors
  <2>1. found = [i \in DOMAIN actors |-> found[i]]
    OBVIOUS
  <2> HIDE DEF found
  <2> QED
    BY <2>1, SamePlacesIsList
<1>2. \A s \in ToSet(found) : IsList(s) /\ ToSet(s) \subseteq DOMAIN Items
  <2> SUFFICES ASSUME NEW i \in DOMAIN actors PROVE IsList(actors[i].items) /\ ToSet(actors[i].items) \subseteq DOMAIN Items
    BY <1>1 DEF ToSet
  <2>1. actors[i] \in ToSet(actors)
    BY DEF ToSet
  <2> QED
    BY <2>1 DEF IsRun
<1> HIDE DEF found
<1>3. IsList(all) /\ ToSet(all) = UNION {ToSet(s) : s \in ToSet(found)}
  BY <1>1, <1>2, FlattenIsList
<1>4. ToSet(all) \subseteq DOMAIN Items
  BY <1>2, <1>3
<1> HIDE DEF all
<1>5. IsList(Deduplicated(all)) /\ ToSet(Deduplicated(all)) \subseteq DOMAIN Items
  <2> DEFINE same(i, j) == Items[all[i]].key = Items[all[j]].key /\ Items[all[i]].key[1] # "gen"
             first(i) == \A j \in 1 .. (i - 1) : ~same(i, j)
             firsts == {i \in DOMAIN all : first(i)}
  <2>1. Deduplicated(all) = Kept(all, firsts) /\ firsts \in SUBSET DOMAIN all
    BY DEF Deduplicated
  <2> HIDE DEF firsts
  <2>2. IsList(Kept(all, firsts)) /\ ToSet(Kept(all, firsts)) \subseteq ToSet(all)
    BY <1>3, <2>1, KeptOfList
  <2> QED
    BY <1>4, <2>1, <2>2
<1>6. IsList(Merged) /\ ToSet(Merged) \subseteq DOMAIN Items
  <2> DEFINE names == Deduplicated(all)
  <2>1. MaxItems \in Nat
    BY FixturesAssumption
  <2>2. Merged = FirstItems(names, MaxItems)
    BY DEF Merged, all, found
  <2> HIDE DEF names
  <2>3. IsList(names) /\ ToSet(names) \subseteq DOMAIN Items
    BY <1>5 DEF names
  <2> QED
    BY <2>1, <2>2, <2>3, FirstItemsAreListed
<1> QED
  BY <1>6

LEMMA MergingKeepsCandidates ==
    ASSUME CandidatesInv, MergeActors
    PROVE  CandidatesInv'
<1>1. /\ stage = "scraping" /\ stage' = "retrieved" /\ UNCHANGED request /\ actors' = <<>>
      /\ listings' = [k \in DOMAIN Merged |-> Scrapings[Merged[k]]]
  BY DEF MergeActors
<1>2. request.source = "apify" /\ IsList(Merged) /\ ToSet(Merged) \subseteq DOMAIN Items
  BY <1>1, MergedAreItems DEF CandidatesInv
<1>3. \A name \in DOMAIN Items : Grounded(request, Scrapings[name])
  <2> TAKE name \in DOMAIN Items
  <2> DEFINE l == Scrapings[name]
  <2>1. l.of = name /\ GroundedIn(DOMAIN Phrases \cap ItemPhrases(Items[name]), l)
    BY ScrapedIsTold
  <2> HIDE DEF l
  <2>2. ToldPhrases(request, l) = DOMAIN Phrases \cap ItemPhrases(Items[name])
    BY <1>2, <2>1 DEF ToldPhrases
  <2>3. Grounded(request, l)
    BY <2>1, <2>2 DEF Grounded
  <2> QED
    BY <2>3 DEF l
<1>4. IsList(listings') /\ DOMAIN listings' = DOMAIN Merged
  <2>1. listings' = [k \in DOMAIN Merged |-> listings'[k]]
    BY <1>1
  <2> QED
    BY <1>2, <2>1, SamePlacesIsList
<1>5. \A l \in ToSet(listings') : Grounded(request, l)
  BY <1>1, <1>2, <1>3, <1>4 DEF ToSet
<1>6. IsList(actors') /\ ToSet(actors') = {}
  BY <1>1, NoListing
<1> HIDE DEF IsList
<1> QED
  BY <1>1, <1>4, <1>5, <1>6 DEF CandidatesInv

(* A step that takes no candidate, and leaves a provider's stages alone or *)
(* is one of LiteAPI's.                                                    *)
LiteStages == {"checking", "rates", "details", "collecting"}

CandidatesRest ==
    /\ UNCHANGED <<request, listings, actors>>
    /\ stage' = "scraping" => stage = "scraping"
    /\ stage' \in LiteStages => stage \in LiteStages

LEMMA RestKeepsCandidates ==
    ASSUME CandidatesInv, CandidatesRest
    PROVE  CandidatesInv'
BY DEF CandidatesInv, CandidatesRest, LiteStages, Grounded, ToldPhrases

LEMMA RetrievalKeepsCandidates ==
    ASSUME CandidatesInv, DetailInv, UNCHANGED actors, RetrievalStep \/ DeadlinePasses \/ ProviderStep
    PROVE  CandidatesInv'
<1> USE DEF CandidatesRest, LiteStages
<1>1. CASE Refuse \/ Misconfigured \/ AskRates \/ RatesTimeOut \/ RatesRetry
  BY <1>1, RestKeepsCandidates DEF Refuse, Misconfigured, AskRates, RatesTimeOut, RatesRetry, Fail
<1>2. CASE CollectFails
  BY <1>2, RestKeepsCandidates DEF CollectFails, Fail
<1>3. CASE DeadlinePasses \/ BeginDetail \/ EndDetails
  BY <1>3, RestKeepsCandidates DEF DeadlinePasses, BeginDetail, EndDetails
<1>4. ASSUME NEW fault, RatesFault(fault) PROVE CandidatesInv'
  BY <1>4, RestKeepsCandidates DEF RatesFault, Fail
<1>5. ASSUME NEW code, RatesRejected(code) PROVE CandidatesInv'
  BY <1>5, RestKeepsCandidates DEF RatesRejected, Fail
<1>6. ASSUME NEW reply, RatesArrive(reply) PROVE CandidatesInv'
  BY <1>6, RestKeepsCandidates DEF RatesArrive
<1>7. ASSUME NEW h, DetailRetry(h) PROVE CandidatesInv'
  BY <1>7, RestKeepsCandidates DEF DetailRetry
<1>8. ASSUME NEW h, NEW x, DetailFault(h, x) \/ DetailArrives(h, x) PROVE CandidatesInv'
  BY <1>8, RestKeepsCandidates DEF DetailFault, DetailArrives
<1>9. CASE Collect
  BY <1>9, CollectingKeepsCandidates
<1> QED
  BY <1>1, <1>2, <1>3, <1>4, <1>5, <1>6, <1>7, <1>8, <1>9 DEF RetrievalStep, ProviderStep

LEMMA GettingKeepsCandidates ==
    ASSUME CandidatesInv, Scalars, GetCandidates
    PROVE  CandidatesInv'
<1>1. stage = "choosing" /\ UNCHANGED request
  BY DEF GetCandidates
<1>2. CASE request.source = "liteapi" /\ stage' = "checking" /\ UNCHANGED <<listings, actors>>
  BY <1>1, <1>2 DEF CandidatesInv, Grounded, ToldPhrases
<1>3. CASE /\ request.source = "fixtures" /\ stage' = "retrieved" /\ UNCHANGED actors
           /\ listings' = FixtureCandidates(request.city, request.checkIn, request.nights)
  <2> DEFINE found == FixtureCandidates(request.city, request.checkIn, request.nights)
  <2>1. /\ IsList(found)
        /\ \A l \in ToSet(found) : l.of \in DOMAIN Samples /\ GroundedIn(Among(ListingPhrases(Samples[l.of].listing)), l)
    BY SamplesAreTold
  <2>2. listings' = found
    BY <1>3
  <2> HIDE DEF found
  <2>3. \A l \in ToSet(found) : ToldPhrases(request, l) = Among(ListingPhrases(Samples[l.of].listing))
    BY <1>3 DEF ToldPhrases, Among
  <2>4. \A l \in ToSet(found) : Grounded(request, l)
    BY <2>1, <2>3 DEF Grounded
  <2> HIDE DEF IsList
  <2> QED
    BY <1>1, <1>3, <2>1, <2>2, <2>4 DEF CandidatesInv
<1>4. CASE /\ request.source = "apify" /\ stage' = "scraping" /\ UNCHANGED listings
           /\ actors' = PlannedActors(request.types)
  <2>1. request.types \in Seq(STRING)
    BY SearchAssumption DEF Scalars, IsRequest
  <2> DEFINE planned == PlannedActors(request.types)
  <2>2. IsList(planned) /\ \A a \in ToSet(planned) : IsRun(a)
    BY <2>1, ActorsArePlanned
  <2>3. actors' = planned
    BY <1>4
  <2> HIDE DEF planned, IsList, IsRun
  <2> QED
    BY <1>1, <1>4, <2>2, <2>3 DEF CandidatesInv
<1> QED
  BY <1>2, <1>3, <1>4 DEF GetCandidates

(* One of the runs ends, as a run that was planned.                        *)
LEMMA RunKeepsCandidates ==
    ASSUME CandidatesInv, UNCHANGED <<request, listings>>, stage' = stage \/ stage' = "failed",
           NEW i \in DOMAIN actors, NEW a, IsRun(a), actors' = [actors EXCEPT ![i] = a]
    PROVE  CandidatesInv'
<1>1. IsList(actors) /\ \A b \in ToSet(actors) : IsRun(b)
  BY DEF CandidatesInv
<1>2. DOMAIN actors' = DOMAIN actors /\ \A j \in DOMAIN actors : actors'[j] = actors[j] \/ actors'[j] = a
  OBVIOUS
<1>3. IsList(actors')
  <2>1. actors' = [j \in DOMAIN actors |-> actors'[j]]
    OBVIOUS
  <2> QED
    BY <1>1, <2>1, SamePlacesIsList
<1>4. \A b \in ToSet(actors') : IsRun(b)
  <2> SUFFICES ASSUME NEW j \in DOMAIN actors PROVE IsRun(actors'[j])
    BY <1>2 DEF ToSet
  <2>1. actors[j] \in ToSet(actors)
    BY DEF ToSet
  <2> QED
    BY <1>1, <1>2, <2>1
<1> HIDE DEF IsList, IsRun
<1> QED
  BY <1>3, <1>4 DEF CandidatesInv

LEMMA ScrapingKeepsCandidates ==
    ASSUME CandidatesInv, ScrapingStep
    PROVE  CandidatesInv'
<1>1. CASE NoToken
  BY <1>1, RestKeepsCandidates DEF NoToken, Fail, CandidatesRest, LiteStages
<1>2. CASE MergeActors
  BY <1>2, MergingKeepsCandidates
<1>3. ASSUME NEW i \in DOMAIN actors PROVE IsRun(actors[i])
  BY DEF CandidatesInv, ToSet
<1>4. ASSUME NEW i \in DOMAIN actors, NEW code, ActorFails(i, code) PROVE CandidatesInv'
  <2> DEFINE a == [actors[i] EXCEPT !.state = "failed"]
  <2>1. IsRun(a)
    BY <1>3, <1>4 DEF IsRun
  <2>2. /\ actors' = [actors EXCEPT ![i] = a]
        /\ UNCHANGED <<request, listings>> /\ stage' = "failed"
    BY <1>4 DEF ActorFails, Fail
  <2> HIDE DEF a
  <2> QED
    BY <1>4, <2>1, <2>2, RunKeepsCandidates
<1>5. ASSUME NEW i \in DOMAIN actors, ActorEndsLate(i) PROVE CandidatesInv'
  <2> DEFINE a == [actors[i] EXCEPT !.state = "ended"]
  <2>1. IsRun(a)
    BY <1>3, <1>5 DEF IsRun
  <2>2. /\ actors' = [actors EXCEPT ![i] = a]
        /\ UNCHANGED <<request, listings, stage>>
    BY <1>5 DEF ActorEndsLate, retrievalVars
  <2> HIDE DEF a
  <2> QED
    BY <1>5, <2>1, <2>2, RunKeepsCandidates
<1>6. ASSUME NEW i \in DOMAIN actors, NEW reply \in ActorReplies, ActorReturns(i, reply) PROVE CandidatesInv'
  <2> DEFINE names == FirstItems(reply, actors[i].budget)
             positions == {k \in DOMAIN names : names[k] \in DOMAIN Items}
             usable == UsableItems(names)
             a == [actors[i] EXCEPT !.state = "ended", !.items = usable]
  <2>1. IsRun(actors[i])
    BY <1>3, <1>6
  <2>2. IsList(reply) /\ actors[i].budget \in Nat
    BY <1>6, <2>1, ApifyAssumption DEF IsRun
  <2>3. IsList(names)
    BY <2>2, FirstItemsAreListed
  <2>4. usable = Kept(names, positions) /\ positions \in SUBSET DOMAIN names
    BY DEF UsableItems
  <2>5. \A k \in positions : names[k] \in DOMAIN Items
    OBVIOUS
  <2>6. /\ actors' = [actors EXCEPT ![i] = a]
        /\ UNCHANGED <<request, listings, stage>>
    BY <1>6 DEF ActorReturns, retrievalVars
  <2> HIDE DEF names, positions, usable
  <2>7. IsList(usable) /\ ToSet(usable) \subseteq DOMAIN Items
    BY <2>3, <2>4, <2>5, KeptIsList
  <2>8. IsRun(a)
    BY <2>1, <2>7 DEF IsRun
  <2> HIDE DEF a
  <2> QED
    BY <1>6, <2>6, <2>8, RunKeepsCandidates
<1> QED
  BY <1>1, <1>2, <1>4, <1>5, <1>6 DEF ScrapingStep, ActorStep

LEMMA MatchingKeepsCandidates ==
    ASSUME CandidatesInv, MatchListing
    PROVE  CandidatesInv'
<1>1. listings # <<>> /\ listings' = Tail(listings) /\ UNCHANGED <<actors, stage, request>>
  BY DEF MatchListing
<1>2. IsList(listings) /\ \A l \in ToSet(listings) : Grounded(request, l)
  BY DEF CandidatesInv
<1>3. IsList(listings') /\ ToSet(listings') \subseteq ToSet(listings)
  <2>1. listings \in Seq(ToSet(listings)) /\ Len(listings) > 0
    BY <1>1, <1>2, ListShape DEF IsList, ToSet
  <2> DEFINE S == ToSet(listings)
  <2> HIDE DEF S
  <2>2. Tail(listings) \in Seq(S)
    BY <1>1, <2>1 DEF S
  <2>3. ToSet(Tail(listings)) \subseteq S
    BY <2>2 DEF ToSet
  <2> QED
    BY <1>1, <2>2, <2>3, SeqIsList DEF S
<1>4. \A l \in ToSet(listings') : Grounded(request, l)
  BY <1>2, <1>3
<1> HIDE DEF IsList
<1> QED
  BY <1>1, <1>3, <1>4 DEF CandidatesInv, Grounded, ToldPhrases

LEMMA EvaluatingKeepsCandidates ==
    ASSUME CandidatesInv, EvaluationStep \/ Tick
    PROVE  CandidatesInv'
<1> USE DEF CandidatesRest, LiteStages
<1>1. ASSUME NEW got, Convert(got) PROVE CandidatesInv'
  BY <1>1, RestKeepsCandidates DEF Convert, retrievalVars
<1>2. CASE ConvertRaises \/ AskRaises \/ Tick
  BY <1>2, RestKeepsCandidates DEF ConvertRaises, AskRaises, Tick, Fail, retrievalVars
<1>3. ASSUME NEW answer, Ask(answer) PROVE CandidatesInv'
  BY <1>3, RestKeepsCandidates DEF Ask, retrievalVars
<1>4. CASE RankStructured \/ ScoreResolutions \/ FilterAndSort \/ GradeItems \/ SelectItems
  BY <1>4, RestKeepsCandidates
     DEF RankStructured, ScoreResolutions, FilterAndSort, GradeItems, SelectItems, retrievalVars
<1> QED
  BY <1>1, <1>2, <1>3, <1>4, MatchingKeepsCandidates DEF EvaluationStep

LEMMA AnsweringKeepsCandidates ==
    ASSUME CandidatesInv, AnswerStep \/ AskAboutShown \/ UNCHANGED vars
    PROVE  CandidatesInv'
<1> USE DEF CandidatesRest, LiteStages
<1>1. CASE ComposeAnswer \/ WordAnswer \/ WordingFails \/ AnswerFailure
  BY <1>1, RestKeepsCandidates DEF ComposeAnswer, WordAnswer, WordingFails, AnswerFailure, retrievalVars
<1>2. ASSUME NEW facts, ExtractFacts(facts) PROVE CandidatesInv'
  BY <1>2, RestKeepsCandidates DEF ExtractFacts, retrievalVars
<1>3. CASE ExtractionFails \/ Reply \/ AskAboutShown
  BY <1>3, RestKeepsCandidates DEF ExtractionFails, Reply, AskAboutShown, retrievalVars
<1>4. ASSUME NEW said, AskFact(said) PROVE CandidatesInv'
  BY <1>4, RestKeepsCandidates DEF AskFact, searchVars, retrievalVars
<1>5. CASE QuestionRaises \/ ReplyRaises
  BY <1>5, RestKeepsCandidates DEF QuestionRaises, ReplyRaises, Fail
<1>6. CASE UNCHANGED vars
  BY <1>6, RestKeepsCandidates DEF vars, searchVars, retrievalVars
<1> QED
  BY <1>1, <1>2, <1>3, <1>4, <1>5, <1>6 DEF AnswerStep

LEMMA StepKeepsCandidates ==
    ASSUME CandidatesInv, Scalars, DetailInv, [Next]_vars
    PROVE  CandidatesInv'
<1>1. CASE SearchNext
  BY <1>1, RetrievalKeepsCandidates, GettingKeepsCandidates, ScrapingKeepsCandidates, EvaluatingKeepsCandidates
     DEF SearchNext, Retrieving, FromLiteApi
<1> QED
  BY <1>1, AnsweringKeepsCandidates DEF Next, Searching

-----------------------------------------------------------------------------
(* The theorems. *)

LEMMA InitEvidence ==
    ASSUME Init
    PROVE  CandidatesInv /\ EvidenceInv /\ QuestionInv
<1>1. IsList(<<>>) /\ ToSet(<<>>) = {} /\ DOMAIN <<>> = {}
  BY NoListing DEF ToSet
<1>2. stage = "choosing" /\ listings = <<>> /\ actors = <<>>
  BY DEF Init, InitSearch, InitRetrieval
<1>3. quotes = <<>> /\ items = <<>> /\ dropped = {} /\ shown = <<>>
  BY DEF Init, InitSearch
<1>4. shownSet = <<>> /\ resolved = <<>> /\ question.targets = <<>> /\ response.items = <<>>
  BY DEF Init, NoQuestion, NoResponse
<1> HIDE DEF IsList
<1>5. CandidatesInv
  BY <1>1, <1>2 DEF CandidatesInv
<1>6. EvidenceInv
  BY <1>1, <1>3 DEF EvidenceInv, QuotesHold
<1>7. QuestionInv
  BY <1>1, <1>2, <1>4 DEF QuestionInv, AskedOnce, FactsTold
<1> QED
  BY <1>5, <1>6, <1>7

(* What the rejections, the selection and the replies rest on, together    *)
(* with the types: what is told of each candidate, of each evaluated one   *)
(* and of each one that is asked about.                                    *)
EvidenceIInv == TypeInv /\ CandidatesInv /\ EvidenceInv /\ QuestionInv

LEMMA InitEvidenceIInv ==
    ASSUME Init
    PROVE  EvidenceIInv
BY InitTypes, InitEvidence DEF EvidenceIInv

LEMMA NextEvidenceIInv ==
    ASSUME EvidenceIInv, [Next]_vars
    PROVE  EvidenceIInv'
<1>1. /\ TypeInv /\ CandidatesInv /\ EvidenceInv /\ QuestionInv
      /\ Scalars /\ DetailInv /\ EvaluationInv /\ AnswerInv
  BY DEF EvidenceIInv, TypeInv, RetrievalInv
<1>2. TypeInv'
  BY <1>1, NextTypes
<1>3. CandidatesInv'
  BY <1>1, StepKeepsCandidates
<1>4. EvidenceInv'
  BY <1>1, StepKeepsEvidence
<1>5. QuestionInv'
  BY <1>1, StepKeepsQuestion
<1> QED
  BY <1>2, <1>3, <1>4, <1>5 DEF EvidenceIInv

(* Unknown is never a no (match_listing_structured, evaluate_numeric_      *)
(* filters, the final filters of evaluate_listings, assign_match_tier,     *)
(* match_result_query_against_candidates).  Whatever the payloads of the   *)
(* providers, the request, the rates and the answers of the LLM: a listing *)
(* is rejected only on a text of its own, its numbers, its price, its type *)
(* or a quotation that is in it, and a question is answered with a no only *)
(* on a text of the listing or a quotation of it.                          *)
THEOREM UnknownIsNoRejection == Spec => []RejectedOnlyOnEvidence
<1>1. Init => EvidenceIInv
  BY InitEvidenceIInv
<1>2. EvidenceIInv /\ [Next]_vars => EvidenceIInv'
  BY NextEvidenceIInv
<1>3. EvidenceIInv => RejectedOnlyOnEvidence
  BY RejectionsAreTold DEF EvidenceIInv, TypeInv
<1> QED
  BY <1>1, <1>2, <1>3, PTL DEF Spec

(* A strong match and the label "fully confirmed" have their evidence for  *)
(* every field, type, judged text, number and budget (assign_match_tier,   *)
(* build_answer_payload), and so has a yes to a question (_build_listing_  *)
(* query_outcome).                                                         *)
THEOREM ConfirmationHasEvidence == Spec => []ConfirmedOnEvidence
<1>1. Init => EvidenceIInv
  BY InitEvidenceIInv
<1>2. EvidenceIInv /\ [Next]_vars => EvidenceIInv'
  BY NextEvidenceIInv
<1>3. EvidenceIInv => ConfirmedOnEvidence
  BY ConfirmationsAreTold DEF EvidenceIInv
<1> QED
  BY <1>1, <1>2, <1>3, PTL DEF Spec

-----------------------------------------------------------------------------
(* What is offered.  The samples: the years of a day, and the rounded part *)
(* of a price.                                                             *)

LEMMA DayOfYear ==
    ASSUME NEW day \in Int
    PROVE  /\ Year(day) \in Int /\ YearLength * Year(day) \in Int
           /\ YearLength * Year(day) <= day /\ day < YearLength * Year(day) + YearLength
<1>1. YearLength \in Nat \ {0}
  BY FixturesAssumption
<1>2. /\ day \div YearLength \in Int /\ day % YearLength \in 0 .. YearLength - 1
      /\ day = YearLength * (day \div YearLength) + (day % YearLength)
  BY <1>1, DivisionRounds
<1> DEFINE y == day \div YearLength
           d == day % YearLength
<1>3. y \in Int /\ d \in 0 .. YearLength - 1 /\ day = YearLength * y + d /\ Year(day) = y
  BY <1>2 DEF Year
<1> HIDE DEF y, d
<1>4. YearLength * y \in Int
  BY <1>1, <1>3
<1> QED
  BY <1>1, <1>3, <1>4

(* A window holds the nights in one of the two years exactly if it does in *)
(* some year.                                                              *)
LEMMA CoversIsAvailable ==
    ASSUME NEW sample, \A w \in sample.window : w.from \in Int /\ w.to \in Int,
           NEW checkIn \in Int, NEW nights \in Nat \ {0}
    PROVE  CoversDates(sample.window, checkIn, checkIn + nights) <=> Available(sample, checkIn, nights)
<1> DEFINE L == YearLength
           Y == Year(checkIn)
<1>1. L \in Nat \ {0}
  BY FixturesAssumption
<1>2. Y \in Int /\ L * Y \in Int /\ L * Y <= checkIn /\ checkIn < L * Y + L
  BY DayOfYear
<1> SUFFICES ASSUME NEW w \in sample.window
             PROVE  (\E shift \in {Y - Year(w.from), Y - Year(w.from) - 1} :
                        w.from + shift * L <= checkIn /\ checkIn + nights <= w.to + shift * L)
                    <=> (\E year \in (Y - Year(w.from) - 2) .. (Y - Year(w.from) + 2) :
                            \A night \in checkIn .. (checkIn + nights - 1) : night - year * L \in w.from .. (w.to - 1))
  BY DEF CoversDates, Available
<1> DEFINE F == Year(w.from)
           from == w.from
           to == w.to
           covers(y) == from + y * L <= checkIn /\ checkIn + nights <= to + y * L
           holds(y) == \A night \in checkIn .. (checkIn + nights - 1) : night - y * L \in from .. (to - 1)
<1>3. from \in Int /\ to \in Int
  OBVIOUS
<1>4. F \in Int /\ L * F \in Int /\ L * F <= from /\ from < L * F + L
  BY <1>3, DayOfYear
<1> HIDE DEF L, Y, F, from, to
<1>5. ASSUME NEW y \in Int PROVE covers(y) <=> holds(y)
  <2> DEFINE z == y * L
  <2>1. z \in Int
    BY <1>1
  <2> HIDE DEF z
  <2>2. checkIn \in checkIn .. (checkIn + nights - 1) /\ checkIn + nights - 1 \in checkIn .. (checkIn + nights - 1)
    OBVIOUS
  <2>3. (from + z <= checkIn /\ checkIn + nights <= to + z)
        <=> \A night \in checkIn .. (checkIn + nights - 1) : night - z \in from .. (to - 1)
    <3>1. ASSUME from + z <= checkIn /\ checkIn + nights <= to + z, NEW night \in checkIn .. (checkIn + nights - 1)
          PROVE  night - z \in from .. (to - 1)
      BY <1>3, <2>1, <3>1
    <3>2. ASSUME \A night \in checkIn .. (checkIn + nights - 1) : night - z \in from .. (to - 1)
          PROVE  from + z <= checkIn /\ checkIn + nights <= to + z
      <4>1. checkIn - z \in from .. (to - 1) /\ (checkIn + nights - 1) - z \in from .. (to - 1)
        BY <2>2, <3>2
      <4> QED
        BY <1>3, <2>1, <4>1
    <3> QED
      BY <3>1, <3>2
  <2> QED
    BY <2>3 DEF z
<1>6. ASSUME NEW y \in {Y - F, Y - F - 1} PROVE y \in (Y - F - 2) .. (Y - F + 2)
  BY <1>2, <1>4
<1>7. ASSUME NEW y \in (Y - F - 2) .. (Y - F + 2), covers(y) PROVE covers(Y - F) \/ covers(Y - F - 1)
  <2>1. y \in Int
    BY <1>2, <1>4
  <2>2. /\ y * L = L * y /\ (Y - F) * L = L * Y - L * F /\ (Y - F - 1) * L = L * Y - L * F - L
        /\ L * (Y - F - 1) = L * Y - L * F - L /\ L * (Y - F) = L * Y - L * F
    BY <1>1, <1>2, <1>4, <2>1
  <2>3. L * y \in Int
    BY <1>1, <2>1
  <2> DEFINE a == L * y
             b == L * Y
             c == L * F
  <2>4. a \in Int /\ b \in Int /\ c \in Int
    BY <1>2, <1>4, <2>3
  <2>5. from + a <= checkIn /\ checkIn + nights <= to + a
    BY <1>7, <2>2
  <2>6. CASE y <= Y - F - 1
    <3>1. a <= b - c - L
      <4>1. L * y <= L * (Y - F - 1)
        BY <1>1, <1>2, <1>4, <2>1, <2>6, MultiplesGrow
      <4> QED
        BY <2>2, <4>1
    <3> HIDE DEF a, b, c
    <3>2. b <= checkIn /\ from < c + L
      BY <1>2, <1>4 DEF b, c
    <3>3. from + (b - c - L) <= checkIn /\ checkIn + nights <= to + (b - c - L)
      BY <1>1, <1>3, <2>4, <2>5, <3>1, <3>2
    <3> QED
      BY <2>2, <3>3 DEF b, c
  <2>7. CASE y = Y - F
    BY <1>7, <2>7
  <2>8. CASE y > Y - F
    <3>1. (b - c) + L <= a
      <4>1. L * (Y - F) + L <= L * y
        BY <1>1, <1>2, <1>4, <2>1, <2>8, MultiplesGrow
      <4> QED
        BY <2>2, <4>1
    <3> HIDE DEF a, b, c
    <3>2. checkIn < b + L /\ c <= from
      BY <1>2, <1>4 DEF b, c
    <3> QED
      BY <1>1, <1>3, <2>4, <2>5, <3>1, <3>2
  <2> QED
    BY <1>2, <1>4, <2>1, <2>6, <2>7, <2>8
<1> HIDE DEF covers, holds
<1>8. (\E y \in {Y - F, Y - F - 1} : covers(y)) <=> (\E y \in (Y - F - 2) .. (Y - F + 2) : holds(y))
  <2>1. \A y \in (Y - F - 2) .. (Y - F + 2) : y \in Int
    BY <1>2, <1>4
  <2>2. \A y \in (Y - F - 2) .. (Y - F + 2) : covers(y) <=> holds(y)
    BY <1>5, <2>1
  <2> QED
    BY <1>6, <1>7, <2>2
<1> QED
  BY <1>8 DEF covers, holds, L, Y, F, from, to

(* A rounded price is the exact one to half a cent for each night.         *)
LEMMA RoundedIsNear ==
    ASSUME NEW a \in Int, NEW b \in Nat \ {0}
    PROVE  Rounded(a, b) \in Int /\ 2 * (Rounded(a, b) * b - a) \in -b .. b
<1> DEFINE c == 2 * a + b
           n == 2 * b
           q == c \div n
           r == c % n
<1>1. c \in Int /\ n \in Nat \ {0} /\ Rounded(a, b) = q
  BY DEF Rounded
<1> HIDE DEF c, n
<1>2. q \in Int /\ r \in 0 .. n - 1 /\ c = n * q + r
  BY <1>1, DivisionRounds
<1> HIDE DEF q, r
<1>3. n * q = 2 * (q * b)
  BY <1>2 DEF n
<1> DEFINE p == q * b
<1>4. p \in Int
  BY <1>2
<1>5. 2 * p = 2 * a + b - r
  BY <1>2, <1>3, <1>4 DEF c
<1> HIDE DEF p
<1>6. 2 * (p - a) = b - r /\ b - r \in -b .. b
  BY <1>2, <1>4, <1>5 DEF n
<1> QED
  BY <1>1, <1>2, <1>6 DEF p

LEMMA PricedNightly ==
    ASSUME NEW i \in DOMAIN Samples, NEW nights \in Nat \ {0}
    PROVE  /\ SameNightlyRate(Samples[i], PriceForStay(Samples[i], nights), nights)
           /\ Samples[i].window = {} => PriceForStay(Samples[i], nights) = {}
<1> DEFINE x == Samples[i]
           total == PriceForStay(x, nights)
<1>1. /\ x.price \subseteq Int /\ \A p, q \in x.price : p = q
      /\ \A w \in x.window : w.from \in Int /\ w.to \in Int
      /\ \A v, w \in x.window : v = w
  <2>1. x \in ToSet(Samples)
    BY DEF ToSet
  <2> QED
    BY <2>1, FixturesAssumption
<1> HIDE DEF x
<1>2. \A t \in total : \E p \in x.price : \E w \in x.window :
          w.to > w.from /\ t.amount = Rounded(p * nights, w.to - w.from)
  BY DEF PriceForStay
<1>3. x.window = {} => total = {}
  BY DEF PriceForStay
<1> HIDE DEF total
<1>4. ASSUME NEW p \in x.price, NEW w \in x.window, NEW t \in total
      PROVE  2 * (t.amount * (w.to - w.from) - p * nights) \in -(w.to - w.from) .. (w.to - w.from)
  <2>1. w.to > w.from /\ t.amount = Rounded(p * nights, w.to - w.from)
    BY <1>1, <1>2
  <2> DEFINE a == p * nights
             b == w.to - w.from
  <2>2. a \in Int /\ b \in Nat \ {0}
    BY <1>1, <2>1
  <2> HIDE DEF a, b
  <2>3. 2 * (Rounded(a, b) * b - a) \in -b .. b
    BY <2>2, RoundedIsNear
  <2> QED
    BY <2>1, <2>3 DEF a, b
<1> QED
  BY <1>3, <1>4 DEF SameNightlyRate, x, total

LEMMA FirstItemsShape ==
    ASSUME NEW s, IsList(s), NEW count \in Nat
    PROVE  LET m == IF Len(s) < count THEN Len(s) ELSE count
           IN  /\ m \in Nat /\ m <= Len(s)
               /\ IsList(FirstItems(s, count)) /\ Len(FirstItems(s, count)) = m
               /\ DOMAIN FirstItems(s, count) = 1 .. m
               /\ \A k \in 1 .. m : FirstItems(s, count)[k] = s[k]
<1> DEFINE m == IF Len(s) < count THEN Len(s) ELSE count
<1>1. s \in Seq(ToSet(s)) /\ Len(s) \in Nat
  BY ListShape DEF IsList
<1>2. m \in 0 .. Len(s) /\ m \in Nat /\ m <= Len(s)
  BY <1>1
<1>3. FirstItems(s, count) = SubSeq(s, 1, m)
  BY DEF FirstItems
<1> HIDE DEF m
<1>4. /\ SubSeq(s, 1, m) \in Seq(ToSet(s)) /\ Len(SubSeq(s, 1, m)) = m
      /\ \A k \in 1 .. m : SubSeq(s, 1, m)[k] = s[k]
  BY <1>1, <1>2, SubSeqProperties
<1>5. DOMAIN SubSeq(s, 1, m) = 1 .. m
  BY <1>4, LenProperties
<1>6. IsList(SubSeq(s, 1, m))
  BY <1>4, SeqIsList
<1> QED
  BY <1>2, <1>3, <1>4, <1>5, <1>6 DEF m

LEMMA IdentityOfSamples ==
    ASSUME NEW i \in DOMAIN Samples, NEW nights
    PROVE  LET l == [Sampled[i] EXCEPT !.total = PriceForStay(Samples[i], nights)]
           IN  l.id = Samples[i].listing.id /\ l.total = PriceForStay(Samples[i], nights)
<1>1. "id" \in DOMAIN Samples[i].listing
  <2>1. Samples[i] \in ToSet(Samples)
    BY DEF ToSet
  <2> QED
    BY <2>1, FixturesAssumption
<1> DEFINE listing == Joined([total |-> {}], Samples[i].listing)
           c == Candidate(listing, i, {})
<1>2. listing.id = Samples[i].listing.id
  BY <1>1 DEF Joined
<1>3. Sampled[i] = c
  BY DEF Sampled
<1> HIDE DEF listing
<1>4. c.id = listing.id /\ {"id", "total"} \subseteq DOMAIN c
  BY DEF Candidate
<1> HIDE DEF c
<1> QED
  BY <1>2, <1>3, <1>4

(* The samples that are taken are those available, as many as fit.         *)
LEMMA SamplesAreTaken ==
    ASSUME Scalars, GetCandidates, stage' = "retrieved"
    PROVE  TakenFromSamples
<1> DEFINE city == request.city
           checkIn == request.checkIn
           nights == request.nights
           fits(i) == Samples[i].city = city /\ CoversDates(Samples[i].window, checkIn, checkIn + nights)
           priced(i) == [Sampled[i] EXCEPT !.total = PriceForStay(Samples[i], nights)]
           all == [i \in DOMAIN Samples |-> priced(i)]
           P == {i \in DOMAIN Samples : fits(i)}
           N == Cardinality(P)
           kept == Kept(all, P)
           m == IF N < MaxItems THEN N ELSE MaxItems
           samples == {x \in ToSet(Samples) : x.city = city /\ Available(x, checkIn, nights)}
<1>1. checkIn \in Int /\ nights \in Nat \ {0} /\ MaxItems \in Nat
  BY SearchAssumption, FixturesAssumption DEF Scalars, IsRequest
<1>2. listings' = FirstItems(kept, MaxItems)
  BY DEF GetCandidates, FixtureCandidates
<1>3. \A i \in DOMAIN Samples : Samples[i] \in ToSet(Samples)
  BY DEF ToSet
<1>4. \A i \in DOMAIN Samples : fits(i) <=> (Samples[i].city = city /\ Available(Samples[i], checkIn, nights))
  <2> SUFFICES ASSUME NEW i \in DOMAIN Samples
               PROVE  CoversDates(Samples[i].window, checkIn, checkIn + nights) <=> Available(Samples[i], checkIn, nights)
    OBVIOUS
  <2>1. \A w \in Samples[i].window : w.from \in Int /\ w.to \in Int
    BY <1>3, FixturesAssumption
  <2> HIDE DEF checkIn, nights
  <2> QED
    BY <1>1, <2>1, CoversIsAvailable
<1>5. samples = {Samples[i] : i \in P}
  BY <1>3, <1>4 DEF ToSet
<1>6. \A i \in DOMAIN Samples : /\ priced(i).id = Samples[i].listing.id
                                /\ priced(i).total = PriceForStay(Samples[i], nights)
  BY IdentityOfSamples
<1>7. \A i, j \in DOMAIN Samples : Samples[i].listing.id = Samples[j].listing.id => i = j
  BY FixturesAssumption
<1>8. \A i \in DOMAIN Samples : /\ SameNightlyRate(Samples[i], PriceForStay(Samples[i], nights), nights)
                                /\ Samples[i].window = {} => PriceForStay(Samples[i], nights) = {}
  BY <1>1, PricedNightly
<1> HIDE DEF priced
<1>9. IsList(all) /\ DOMAIN all = DOMAIN Samples /\ \A i \in DOMAIN Samples : all[i] = priced(i)
  <2>1. all = [i \in DOMAIN Samples |-> all[i]]
    OBVIOUS
  <2>2. \A i \in DOMAIN Samples : all[i] = priced(i)
    OBVIOUS
  <2> HIDE DEF all
  <2>3. IsList(Samples)
    BY FixturesAssumption
  <2> QED
    BY <2>1, <2>2, <2>3, SamePlacesIsList
<1>10. P \in SUBSET DOMAIN all
  BY <1>9
<1> HIDE DEF P, all, samples, fits, city, checkIn, nights
<1>11. /\ IsFiniteSet(P) /\ N \in Nat /\ Len(kept) = N /\ IsList(kept)
       /\ \E at \in [1 .. N -> P] :
             /\ \A k \in 1 .. N : kept[k] = all[at[k]]
             /\ \A j, k \in 1 .. N : at[j] = at[k] => j = k
             /\ \A i \in P : \E k \in 1 .. N : at[k] = i
  <2>1. N \in 0 .. Len(all) /\ Len(all) \in Nat
    BY <1>9, <1>10, KeptByPlaces, ListShape
  <2>2. N \in Nat
    BY <2>1
  <2> QED
    BY <1>9, <1>10, <2>2, KeptByPlaces, KeptIsList
<1> HIDE DEF kept, N
<1>12. PICK at \in [1 .. N -> P] :
             /\ \A k \in 1 .. N : kept[k] = all[at[k]]
             /\ \A j, k \in 1 .. N : at[j] = at[k] => j = k
  BY <1>11
<1>13. /\ m \in Nat /\ m <= N /\ Len(listings') = m /\ DOMAIN listings' = 1 .. m
       /\ \A k \in 1 .. m : listings'[k] = kept[k]
  <2> DEFINE first == FirstItems(kept, MaxItems)
             L == Len(kept)
             c == IF L < MaxItems THEN L ELSE MaxItems
  <2>1. /\ c \in Nat /\ c <= L /\ Len(first) = c /\ DOMAIN first = 1 .. c
        /\ \A k \in 1 .. c : first[k] = kept[k]
    <3>1. IsList(kept) /\ MaxItems \in Nat
      BY <1>1, <1>11
    <3> QED
      BY ONLY <3>1, FirstItemsShape
  <2>2. c = m
    BY <1>11
  <2> HIDE DEF c, L, m
  <2>3. L = N /\ first = listings'
    BY <1>2, <1>11 DEF L
  <2> QED
    BY <2>1, <2>2, <2>3
<1> HIDE DEF m
<1>14. \A k \in 1 .. m : k \in 1 .. N /\ at[k] \in P /\ at[k] \in DOMAIN Samples /\ listings'[k] = priced(at[k])
  BY <1>9, <1>10, <1>11, <1>12, <1>13
<1>15. \A i \in P, k \in 1 .. m : listings'[k].id = Samples[i].listing.id <=> at[k] = i
  BY <1>6, <1>7, <1>9, <1>10, <1>14
<1>16. IsFiniteSet(samples) /\ Cardinality(samples) = N
  <2> DEFINE g == [i \in P |-> Samples[i]]
  <2>1. g \in [P -> samples]
    BY <1>5
  <2>2. \A i, j \in P : g[i] = g[j] => i = j
    BY <1>7, <1>9, <1>10
  <2>3. \A x \in samples : \E i \in P : g[i] = x
    BY <1>5
  <2> HIDE DEF g
  <2> QED
    BY <1>11, <2>1, <2>2, <2>3, AsManyElements DEF N
<1> DEFINE listed(x) == {k \in DOMAIN listings' : listings'[k].id = x.listing.id}
           taken == {x \in samples : listed(x) # {}}
<1>17. taken = {Samples[at[k]] : k \in 1 .. m}
  <2>1. ASSUME NEW x \in taken PROVE x \in {Samples[at[k]] : k \in 1 .. m}
    <3>1. PICK i \in P : x = Samples[i]
      BY <1>5, <2>1
    <3>2. PICK k \in 1 .. m : listings'[k].id = x.listing.id
      BY <1>13, <2>1
    <3> QED
      BY <1>15, <3>1, <3>2
  <2>2. ASSUME NEW k \in 1 .. m PROVE Samples[at[k]] \in taken
    <3>1. at[k] \in P /\ Samples[at[k]] \in samples
      BY <1>5, <1>14
    <3>2. listings'[k].id = Samples[at[k]].listing.id
      BY <1>15, <3>1
    <3> QED
      BY <1>13, <3>1, <3>2
  <2> HIDE DEF taken
  <2> QED
    BY <2>1, <2>2
<1>18. Cardinality(taken) = m
  <2> DEFINE g == [k \in 1 .. m |-> Samples[at[k]]]
             T == {Samples[at[k]] : k \in 1 .. m}
  <2>1. g \in [1 .. m -> T]
    OBVIOUS
  <2>2. \A j, k \in 1 .. m : g[j] = g[k] => j = k
    <3> SUFFICES ASSUME NEW j \in 1 .. m, NEW k \in 1 .. m, Samples[at[j]] = Samples[at[k]] PROVE j = k
      OBVIOUS
    <3>1. at[j] = at[k]
      BY <1>7, <1>14
    <3> QED
      BY <1>12, <1>14, <3>1
  <2>3. \A x \in T : \E k \in 1 .. m : g[k] = x
    OBVIOUS
  <2> HIDE DEF g, T
  <2>5. IsFiniteSet(1 .. m) /\ Cardinality(1 .. m) = m
    BY <1>13, FS_Interval
  <2>6. Cardinality(T) = m
    BY <2>1, <2>2, <2>3, <2>5, AsManyElements
  <2> QED
    BY <1>17, <2>6 DEF T
<1>19. ASSUME NEW x \in samples, NEW k \in listed(x)
       PROVE  SameNightlyRate(x, listings'[k].total, nights) /\ (x.window = {} => listings'[k].total = {})
  <2>1. PICK i \in P : x = Samples[i]
    BY <1>5
  <2>2. k \in 1 .. m /\ listings'[k].id = Samples[i].listing.id
    BY <1>13, <1>19, <2>1
  <2>3. at[k] = i /\ i \in DOMAIN Samples /\ listings'[k] = priced(i)
    BY <1>14, <1>15, <2>2
  <2> QED
    BY <1>6, <1>8, <2>1, <2>3
<1> HIDE DEF taken, listed
<1>20. m = IF Cardinality(samples) < MaxItems THEN Cardinality(samples) ELSE MaxItems
  BY <1>16 DEF m
<1> QED
  BY <1>13, <1>18, <1>19, <1>20 DEF TakenFromSamples, samples, city, checkIn, nights, taken, listed

(* parse_rates_response: when some hotel has offers and details may be     *)
(* asked for, there is a hotel to ask for.                                 *)
LEMMA HotelsWithOffersAreNamed ==
    ASSUME NEW reply \in RatesReplies \cup {<<>>}, HotelIds[reply] = <<>>, MaxDetailCalls # 0
    PROVE  \A i \in DOMAIN reply : reply[i].offers = <<>>
<1> DEFINE open == {i \in DOMAIN reply : reply[i].offers # <<>>}
           first == {i \in DOMAIN reply :
                       /\ reply[i].offers # <<>>
                       /\ \A j \in 1 .. (i - 1) : reply[j].hotel = reply[i].hotel => reply[j].offers = <<>>}
           place(i) == Cardinality({j \in first : j <= i})
           count == IF Cardinality(first) < MaxDetailCalls THEN Cardinality(first) ELSE MaxDetailCalls
           ids == [k \in 1 .. count |-> reply[CHOOSE i \in first : place(i) = k].hotel]
<1>1. IsList(reply)
  <2>1. CASE reply \in RatesReplies
    <3> DEFINE T == [hotel : STRING, offers : Seq(Rate)]
    <3>1. reply \in Seq(T)
      BY <2>1, LiteApiAssumption
    <3> HIDE DEF T
    <3> QED
      BY <3>1, SeqIsList
  <2>2. CASE reply = <<>>
    BY <2>2, NoListing
  <2> QED
    BY <2>1, <2>2
<1>2. DOMAIN reply = 1 .. Len(reply) /\ Len(reply) \in Nat /\ IsFiniteSet(DOMAIN reply)
  BY <1>1, ListShape, FS_Interval
<1>3. SUFFICES ASSUME open # {} PROVE FALSE
  OBVIOUS
<1>4. first # {}
  <2>1. open \in SUBSET Nat
    BY <1>2
  <2> HIDE DEF open
  <2>2. PICK i \in open : \A j \in open : i <= j
    BY <1>3, <2>1, LeastExists
  <2>3. i \in DOMAIN reply /\ reply[i].offers # <<>> /\ i \in 1 .. Len(reply)
    BY <1>2, <2>2 DEF open
  <2>4. \A j \in 1 .. (i - 1) : j \in DOMAIN reply /\ ~(i <= j)
    BY <1>2, <2>3
  <2>5. \A j \in 1 .. (i - 1) : reply[j].offers = <<>>
    BY <2>2, <2>4 DEF open
  <2>6. i \in first
    BY <2>3, <2>5
  <2> QED
    BY <2>6
<1>5. first \in SUBSET DOMAIN reply
  OBVIOUS
<1>6. HotelIds[reply] = ids
  BY DEF HotelIds
<1> HIDE DEF first
<1>7. Cardinality(first) \in Nat /\ Cardinality(first) # 0
  BY <1>2, <1>4, <1>5, FS_Subset, FS_CardinalityType, FS_EmptySet
<1>8. count \in Nat /\ count >= 1
  BY <1>7, LiteApiAssumption
<1> HIDE DEF count
<1>9. DOMAIN ids = 1 .. count
  OBVIOUS
<1> HIDE DEF ids
<1>10. 1 \in DOMAIN ids
  BY <1>8, <1>9
<1>11. DOMAIN <<>> = {}
  OBVIOUS
<1> QED
  BY <1>6, <1>10, <1>11

(* LiteAPI: a search without listings had no hotel with offers, or was     *)
(* configured to ask for no details.                                       *)
LEMMA CollectedListings ==
    ASSUME DetailInv, Collect
    PROVE  listings' # <<>> \/ MaxDetailCalls = 0 \/ \A i \in DOMAIN offers : offers[i].offers = <<>>
<1> DEFINE hotels == HotelIds[offers]
           usable == {k \in DOMAIN hotels : IsListing(detail[hotels[k]].answer)}
           named == Kept(hotels, usable)
<1>1. /\ offers \in RatesReplies \cup {<<>>}
      /\ listings' = [k \in DOMAIN named |-> NormalizeListing(named[k], detail[named[k]].answer)]
      /\ Answers = <<>> \/ \E i \in DOMAIN Answers : IsListing(Answers[i])
  BY DEF Collect, DetailInv
<1>2. IsList(hotels) /\ usable \in SUBSET DOMAIN hotels
  BY <1>1, HotelIdsAreOffered
<1>3. DOMAIN Answers = DOMAIN hotels /\ \A i \in DOMAIN hotels : Answers[i] = detail[hotels[i]].answer
  BY DEF Answers
<1>4. CASE Answers = <<>>
  <2>1. DOMAIN <<>> = {}
    OBVIOUS
  <2>2. DOMAIN hotels = {} /\ Len(hotels) \in Nat /\ DOMAIN hotels = 1 .. Len(hotels)
    BY <1>2, <1>3, <1>4, <2>1, ListShape
  <2> HIDE DEF hotels
  <2>3. Len(hotels) = 0
    <3>1. 1 \notin 1 .. Len(hotels)
      BY <2>2
    <3> QED
      BY <2>2, <3>1
  <2>4. hotels \in Seq(ToSet(hotels))
    BY <1>2 DEF IsList
  <2>5. hotels = <<>>
    BY <2>3, <2>4, EmptySeq
  <2>6. HotelIds[offers] = <<>>
    BY <2>5 DEF hotels
  <2> QED
    BY <1>1, <2>6, HotelsWithOffersAreNamed
<1>5. CASE \E i \in DOMAIN Answers : IsListing(Answers[i])
  <2>1. usable # {}
    BY <1>3, <1>5
  <2> HIDE DEF usable, hotels
  <2>2. IsList(named) /\ ToSet(named) # {}
    BY <1>2, <2>1, KeptIsList
  <2> HIDE DEF named
  <2>3. DOMAIN named # {}
    BY <2>2 DEF ToSet
  <2>4. DOMAIN listings' # {} /\ DOMAIN <<>> = {}
    <3>1. DOMAIN <<>> = {}
      OBVIOUS
    <3> QED
      BY <1>1, <2>3, <3>1
  <2> QED
    BY <2>4
<1> QED
  BY <1>1, <1>4, <1>5

LEMMA CollectedFailure ==
    ASSUME DetailInv, CollectFails
    PROVE  \E h \in DOMAIN detail : detail[h].answer = error'
<1> DEFINE hotels == HotelIds[offers]
<1>1. offers \in RatesReplies \cup {<<>>} /\ DOMAIN detail = ToSet(hotels)
  BY DEF CollectFails, DetailInv
<1>2. IsList(hotels)
  BY <1>1, HotelIdsAreOffered
<1>3. DOMAIN Answers = DOMAIN hotels /\ \A i \in DOMAIN hotels : Answers[i] = detail[hotels[i]].answer
  BY DEF Answers
<1> HIDE DEF hotels
<1>4. \A i \in DOMAIN Answers : hotels[i] \in DOMAIN detail
  BY <1>1, <1>2, <1>3, ListShape
<1>5. DOMAIN Answers \in SUBSET Nat
  BY <1>2, <1>3, ListShape
<1>6. SUFFICES \E i \in DOMAIN Answers : Answers[i] = error'
  BY <1>3, <1>4
<1>7. CASE (\E i \in DOMAIN Answers : Answers[i] = "raised") /\ Fail("raised")
  BY <1>7 DEF Fail
<1>8. CASE Answers # <<>> /\ Fail(NothingUsable)
  <2> DEFINE broken == {i \in DOMAIN Answers : Answers[i] = "broken"}
             set == IF broken # {} THEN broken ELSE DOMAIN Answers
             i == CHOOSE i \in set : \A j \in set : i <= j
  <2>1. DOMAIN Answers # {}
    <3>1. Len(hotels) \in Nat /\ DOMAIN hotels = 1 .. Len(hotels)
      BY <1>2, ListShape
    <3>2. ASSUME DOMAIN Answers = {} PROVE FALSE
      <4>1. Answers = [k \in DOMAIN hotels |-> Answers[k]]
        BY <1>3 DEF Answers, hotels
      <4> DEFINE a == Answers
      <4> HIDE DEF a
      <4>2. IsList(a) /\ Len(a) = Len(hotels)
        BY <1>2, <4>1, SamePlacesIsList DEF a
      <4>3. Len(a) = 0
        <5>1. 1 \notin 1 .. Len(hotels)
          BY <1>3, <3>1, <3>2
        <5> QED
          BY <3>1, <4>2, <5>1
      <4>4. a = <<>>
        BY <4>2, <4>3, EmptySeq DEF IsList
      <4> QED
        BY <1>8, <4>4 DEF a
    <3> QED
      BY <3>2
  <2>2. set \in SUBSET DOMAIN Answers /\ set # {}
    BY <2>1
  <2>3. set \in SUBSET Nat
    BY <1>5, <2>2
  <2>4. error' = Answers[i]
    BY <1>8 DEF Fail, NothingUsable, FirstOf
  <2> HIDE DEF set
  <2>5. \E k \in set : \A j \in set : k <= j
    BY <2>2, <2>3, LeastExists
  <2>6. i \in set
    BY <2>5
  <2> HIDE DEF i
  <2> QED
    BY <2>2, <2>4, <2>6
<1> QED
  BY <1>7, <1>8 DEF CollectFails

(* How the stages in which candidates are found end.                       *)
LEMMA CandidatesAreFound ==
    ASSUME [Next]_vars, stage' # stage, stage \in {"choosing", "scraping", "collecting"}
    PROVE  /\ stage = "choosing" => GetCandidates \/ stage' = "failed"
           /\ stage = "scraping" => MergeActors \/ stage' = "failed"
           /\ stage = "collecting" => Collect \/ CollectFails
<1>1. CASE GetCandidates
  BY <1>1 DEF GetCandidates
<1>2. CASE RetrievalStep
  <2>1. CASE Refuse \/ Misconfigured \/ AskRates \/ RatesTimeOut \/ RatesRetry \/ BeginDetail \/ EndDetails
    BY <2>1 DEF Refuse, Misconfigured, AskRates, RatesTimeOut, RatesRetry, BeginDetail, EndDetails
  <2>2. ASSUME NEW h, DetailRetry(h) PROVE FALSE
    BY <2>2 DEF DetailRetry
  <2>3. CASE CollectFails \/ Collect
    BY <2>3 DEF CollectFails, Collect
  <2> QED
    BY <1>2, <2>1, <2>2, <2>3 DEF RetrievalStep
<1>3. CASE DeadlinePasses \/ ProviderStep
  BY <1>3 DEF DeadlinePasses, ProviderStep, RatesFault, RatesRejected, RatesArrive, DetailFault, DetailArrives
<1>4. CASE ScrapingStep
  <2>1. CASE NoToken \/ MergeActors
    BY <2>1 DEF NoToken, MergeActors, Fail
  <2>2. ASSUME NEW i, NEW x, ActorFails(i, x) \/ ActorReturns(i, x) \/ ActorEndsLate(i) PROVE stage = "scraping" /\ stage' = "failed"
    BY <2>2 DEF ActorFails, ActorReturns, ActorEndsLate, Fail
  <2> QED
    BY <1>4, <2>1, <2>2 DEF ScrapingStep, ActorStep
<1>5. CASE EvaluationStep \/ Tick
  <2>1. Unconverted # {} => stage = "retrieved"
    BY DEF Unconverted
  <2>2. ASSUME NEW got, Convert(got) PROVE FALSE
    BY <2>2 DEF Convert
  <2>3. ASSUME NEW answer, Ask(answer) PROVE FALSE
    BY <2>3 DEF Ask
  <2>4. CASE ConvertRaises \/ Tick \/ MatchListing \/ RankStructured
    BY <2>1, <2>4 DEF ConvertRaises, Tick, MatchListing, RankStructured
  <2>5. CASE AskRaises \/ ScoreResolutions \/ FilterAndSort \/ GradeItems \/ SelectItems
    BY <2>5 DEF AskRaises, ScoreResolutions, FilterAndSort, GradeItems, SelectItems
  <2> QED
    BY <1>5, <2>2, <2>3, <2>4, <2>5 DEF EvaluationStep
<1>6. CASE AnswerStep \/ AskAboutShown
  <2>1. CASE ComposeAnswer \/ WordAnswer \/ WordingFails \/ AnswerFailure
    BY <2>1 DEF ComposeAnswer, WordAnswer, WordingFails, AnswerFailure, RetrievalFailed
  <2>2. ASSUME NEW facts, ExtractFacts(facts) PROVE FALSE
    BY <2>2 DEF ExtractFacts
  <2>3. ASSUME NEW said, AskFact(said) PROVE FALSE
    BY <2>3 DEF AskFact, searchVars
  <2>4. CASE ExtractionFails \/ QuestionRaises \/ Reply \/ ReplyRaises \/ AskAboutShown
    BY <2>4 DEF ExtractionFails, QuestionRaises, Reply, ReplyRaises, AskAboutShown, OpenTargets
  <2> QED
    BY <1>6, <2>1, <2>2, <2>3, <2>4 DEF AnswerStep
<1>7. CASE UNCHANGED vars
  BY <1>7 DEF vars, searchVars
<1> QED
  BY <1>1, <1>2, <1>3, <1>4, <1>5, <1>6, <1>7 DEF Next, Searching, SearchNext, Retrieving, FromLiteApi

-----------------------------------------------------------------------------
(* The runs of the scraper: each has a place of its own among the n shares *)
(* that make MaxItems, and no more items than its share.                   *)
SharedOut(runs, n, place) ==
    /\ n \in Nat \ {0}
    /\ place \in [DOMAIN runs -> 1 .. n]
    /\ \A i, j \in DOMAIN runs : place[i] = place[j] => i = j
    /\ \A i \in DOMAIN runs : runs[i].budget = Share(place[i], n)

WithinBudget(run) == run.state \in {"running", "ended"} /\ Len(run.items) <= run.budget

RunsInv ==
    stage = "scraping" =>
        /\ \A i \in DOMAIN actors : WithinBudget(actors[i])
        /\ \E n, place : SharedOut(actors, n, place)

LEMMA PlannedAreShared ==
    ASSUME NEW types, types \in Seq(STRING)
    PROVE  /\ \A i \in DOMAIN PlannedActors(types) : WithinBudget(PlannedActors(types)[i])
           /\ \E n, place : SharedOut(PlannedActors(types), n, place)
<1> DEFINE asked == ActorTypes(types)
           n == Len(asked)
           plan == [i \in DOMAIN asked |->
                       [type |-> asked[i], budget |-> Share(i, n), state |-> "running", items |-> <<>>]]
           positions == {i \in DOMAIN plan : plan[i].budget > 0}
           planned == PlannedActors(types)
<1>1. IsList(asked) /\ n \in Nat \ {0} /\ DOMAIN asked = 1 .. n
  BY TypesAreAsked, ListShape
<1>2. planned = Kept(plan, positions)
  BY DEF PlannedActors
<1> HIDE DEF asked, n
<1>3. IsList(plan) /\ DOMAIN plan = 1 .. n
  <2>1. plan = [i \in DOMAIN asked |-> plan[i]]
    OBVIOUS
  <2> HIDE DEF plan
  <2> QED
    BY <1>1, <2>1, SamePlacesIsList
<1>4. \A i \in DOMAIN plan : /\ plan[i].budget = Share(i, n) /\ plan[i].state = "running" /\ plan[i].items = <<>>
  BY <1>1
<1>5. positions \in SUBSET DOMAIN plan /\ \A i \in positions : plan[i].budget > 0
  OBVIOUS
<1>6. \A i \in 1 .. n : Share(i, n) \in Int
  <2>1. MaxItems \in Nat
    BY FixturesAssumption
  <2> QED
    BY <1>1, <2>1 DEF Share
<1> HIDE DEF plan, positions, planned
<1> DEFINE N == Cardinality(positions)
<1>7. /\ DOMAIN planned = 1 .. N
      /\ \E at \in [1 .. N -> positions] :
            /\ \A k \in 1 .. N : planned[k] = plan[at[k]]
            /\ \A j, k \in 1 .. N : at[j] = at[k] => j = k
            /\ \A i \in positions : \E k \in 1 .. N : at[k] = i
  <2>1. IsList(plan) /\ positions \in SUBSET DOMAIN plan
    BY <1>3, <1>5
  <2> QED
    BY ONLY <1>2, <2>1, KeptByPlaces
<1> HIDE DEF N
<1>8. PICK at \in [1 .. N -> positions] :
          /\ \A k \in 1 .. N : planned[k] = plan[at[k]]
          /\ \A j, k \in 1 .. N : at[j] = at[k] => j = k
  BY <1>7
<1>9. \A k \in 1 .. N : at[k] \in 1 .. n /\ at[k] \in DOMAIN plan /\ plan[at[k]].budget > 0
  BY <1>3, <1>5
<1>10. SharedOut(planned, n, at)
  <2>1. at \in [DOMAIN planned -> 1 .. n]
    BY <1>7, <1>9
  <2>2. \A k \in DOMAIN planned : planned[k].budget = Share(at[k], n)
    BY <1>4, <1>7, <1>8, <1>9
  <2> QED
    BY <1>1, <1>7, <1>8, <2>1, <2>2 DEF SharedOut
<1>11. \A k \in DOMAIN planned : WithinBudget(planned[k])
  <2> SUFFICES ASSUME NEW k \in 1 .. N PROVE WithinBudget(planned[k])
    BY <1>7
  <2>1. /\ planned[k].state = "running" /\ planned[k].items = <<>>
        /\ planned[k].budget = Share(at[k], n) /\ Share(at[k], n) > 0 /\ Share(at[k], n) \in Int
    BY <1>4, <1>6, <1>8, <1>9
  <2>2. Len(<<>>) = 0
    OBVIOUS
  <2>3. Len(planned[k].items) <= planned[k].budget
    BY <2>1, <2>2
  <2> QED
    BY <2>1, <2>3 DEF WithinBudget
<1> QED
  BY <1>10, <1>11 DEF planned

(* The shares of n make MaxItems.                                          *)
LEMMA SharesFit ==
    ASSUME NEW n \in Nat \ {0}, NEW p \in 1 .. n, NEW k \in Nat \ {0}, k <= Share(p, n)
    PROVE  n * (k - 1) + p \in 1 .. MaxItems
<1> DEFINE q == MaxItems \div n
           r == MaxItems % n
           below == n * (k - 1)
<1>1. MaxItems \in Nat
  BY FixturesAssumption
<1>2. q \in Int /\ r \in 0 .. n - 1 /\ MaxItems = n * q + r
  <2>1. MaxItems \in Int /\ n \in Nat \ {0}
    BY <1>1
  <2> QED
    BY ONLY <2>1, DivisionRounds
<1>3. Share(p, n) = q + (IF p <= r THEN 1 ELSE 0)
  BY DEF Share
<1> HIDE DEF q, r
<1>4. n * q \in Int /\ n * 0 = 0
  BY <1>2
<1>5. /\ below \in Int /\ 0 <= below
      /\ k - 1 <= q => below <= n * q
      /\ k - 1 < q => below + n <= n * q
  <2>1. k - 1 \in Int /\ 0 \in Int /\ 0 <= k - 1
    OBVIOUS
  <2> QED
    BY <1>2, <1>4, <2>1, MultiplesGrow
<1> HIDE DEF below
<1> DEFINE nq == n * q
<1>6. nq \in Int /\ MaxItems = nq + r /\ (k - 1 <= q => below <= nq) /\ (k - 1 < q => below + n <= nq)
  BY <1>2, <1>4, <1>5
<1> HIDE DEF nq
<1>7. CASE p <= r
  <2>1. k - 1 <= q
    BY <1>2, <1>3, <1>7
  <2> QED
    BY <1>1, <1>2, <1>5, <1>6, <1>7, <2>1 DEF below
<1>8. CASE ~(p <= r)
  <2>1. k - 1 < q
    BY <1>2, <1>3, <1>8
  <2> QED
    BY <1>1, <1>2, <1>5, <1>6, <2>1 DEF below
<1> QED
  BY <1>7, <1>8

LEMMA RunsFit ==
    ASSUME NEW runs, IsList(runs), \A i \in DOMAIN runs : IsRun(runs[i]) /\ WithinBudget(runs[i]),
           NEW n, NEW place, SharedOut(runs, n, place)
    PROVE  LET all == FlattenSeq([i \in DOMAIN runs |-> runs[i].items])
           IN  Len(all) \in Nat /\ Len(all) <= MaxItems
<1> DEFINE found == [i \in DOMAIN runs |-> runs[i].items]
           all == FlattenSeq(found)
<1>1. IsList(found) /\ DOMAIN found = DOMAIN runs
  <2>1. found = [i \in DOMAIN runs |-> found[i]]
    OBVIOUS
  <2> HIDE DEF found
  <2> QED
    BY <2>1, SamePlacesIsList
<1>2. \A i \in DOMAIN runs : IsList(found[i]) /\ ToSet(found[i]) \subseteq DOMAIN Items /\ Len(found[i]) <= runs[i].budget
  BY DEF IsRun, WithinBudget
<1> HIDE DEF found
<1>3. \A i \in DOMAIN found : found[i] \in Seq(DOMAIN Items)
  BY <1>1, <1>2, ListOfElements
<1>4. ToSet(found) \subseteq Seq(DOMAIN Items)
  BY <1>3 DEF ToSet
<1> DEFINE T == DOMAIN Items
<1> HIDE DEF T
<1>5. found \in Seq(Seq(T))
  BY <1>1, <1>4, ListOfElements DEF T
<1>6. all \in Seq(T) /\ \E at : Located(found, Len(found), all, at)
  BY <1>5, FlattenLocates
<1> DEFINE L == Len(all)
<1>7. L \in Nat /\ DOMAIN all = 1 .. L
  BY <1>6, LenProperties
<1> HIDE DEF L, all
<1>8. PICK at : /\ at \in [1 .. L -> Nat \X Nat]
                /\ \A k \in 1 .. L : At(found, all[k], at[k])
                /\ \A j, k \in 1 .. L : at[j] = at[k] => j = k
  BY <1>6, <1>7 DEF Located
<1>9. /\ n \in Nat \ {0} /\ place \in [DOMAIN runs -> 1 .. n]
      /\ \A i, j \in DOMAIN runs : place[i] = place[j] => i = j
      /\ \A i \in DOMAIN runs : runs[i].budget = Share(place[i], n)
  BY DEF SharedOut
<1>10. ASSUME NEW k \in 1 .. L
       PROVE  /\ at[k][1] \in DOMAIN runs /\ at[k][2] \in Nat \ {0} /\ at[k] = <<at[k][1], at[k][2]>>
              /\ place[at[k][1]] \in 1 .. n /\ at[k][2] <= Share(place[at[k][1]], n)
  <2> DEFINE i == at[k][1]
             j == at[k][2]
  <2>1. i \in DOMAIN runs /\ j \in DOMAIN found[i] /\ at[k] = <<i, j>>
    BY <1>1, <1>8 DEF At
  <2> HIDE DEF i, j
  <2>2. j \in 1 .. Len(found[i]) /\ Len(found[i]) \in Nat
    BY <1>2, <2>1, ListShape
  <2>3. Len(found[i]) <= Share(place[i], n) /\ place[i] \in 1 .. n
    BY <1>2, <1>9, <2>1
  <2>4. Share(place[i], n) \in Int
    <3>1. MaxItems \in Nat
      BY FixturesAssumption
    <3> QED
      BY <1>9, <2>3, <3>1 DEF Share
  <2>5. j \in Nat \ {0} /\ j <= Share(place[i], n)
    BY <2>2, <2>3, <2>4
  <2> QED
    BY <2>1, <2>3, <2>5 DEF i, j
<1> DEFINE spot(k) == n * (at[k][2] - 1) + place[at[k][1]]
           spots == [k \in 1 .. L |-> spot(k)]
<1>11. \A k \in 1 .. L : spot(k) \in 1 .. MaxItems
  <2> TAKE k \in 1 .. L
  <2>1. /\ place[at[k][1]] \in 1 .. n /\ at[k][2] \in Nat \ {0} /\ at[k][2] <= Share(place[at[k][1]], n)
    BY <1>10
  <2> QED
    BY <1>9, <2>1, SharesFit
<1>12. \A j, k \in 1 .. L : spot(j) = spot(k) => j = k
  <2> SUFFICES ASSUME NEW j \in 1 .. L, NEW k \in 1 .. L, spot(j) = spot(k) PROVE j = k
    OBVIOUS
  <2> DEFINE a == at[j][2] - 1
             b == at[k][2] - 1
             p == place[at[j][1]]
             q == place[at[k][1]]
  <2>1. a \in Int /\ b \in Int /\ p \in 1 .. n /\ q \in 1 .. n
    BY <1>10
  <2>2. n * a + p = n * b + q
    OBVIOUS
  <2> HIDE DEF a, b, p, q
  <2>3. a = b /\ p = q
    BY <1>9, <2>1, <2>2, RowsAreApart
  <2>4. at[j][2] \in Nat /\ at[k][2] \in Nat /\ at[j][1] \in DOMAIN runs /\ at[k][1] \in DOMAIN runs
    BY <1>10
  <2>5. at[j][2] = at[k][2]
    BY <2>3, <2>4 DEF a, b
  <2>6. at[j][1] = at[k][1]
    BY <1>9, <2>3, <2>4 DEF p, q
  <2>7. at[j] = at[k]
    BY <1>10, <2>5, <2>6
  <2> QED
    BY <1>8, <2>7
<1> HIDE DEF spot
<1>13. Cardinality(1 .. L) <= MaxItems
  <2>1. MaxItems \in Nat
    BY FixturesAssumption
  <2>2. spots \in [1 .. L -> 1 .. MaxItems]
    BY <1>11
  <2>3. \A j, k \in 1 .. L : spots[j] = spots[k] => j = k
    BY <1>12
  <2> HIDE DEF spots
  <2> QED
    BY <2>1, <2>2, <2>3, NoMoreThanPlaces
<1>14. Cardinality(1 .. L) = L
  BY <1>7, FS_Interval
<1> QED
  BY <1>7, <1>13, <1>14 DEF L, all, found

LEMMA IdentityOfItems ==
    ASSUME NEW name \in DOMAIN Items
    PROVE  Scrapings[name].id = Items[name].key
<1> DEFINE listing == NormalizeApifyListing(Items[name])
           c == Candidate(listing, name, {})
<1>1. listing.id = Items[name].key
  BY DEF NormalizeApifyListing
<1>2. Scrapings[name] = c
  BY DEF Scrapings
<1> HIDE DEF listing
<1>3. c.id = listing.id
  BY DEF Candidate
<1> QED
  BY <1>1, <1>2, <1>3

(* No accommodation that is found is lost, and it is there once.           *)
LEMMA DeduplicationKeepsOne ==
    ASSUME NEW all, IsList(all), NEW name \in ToSet(all)
    PROVE  LET one == Deduplicated(all)
               held == {k \in DOMAIN one : Items[one[k]].key = Items[name].key}
           IN  held # {} /\ (Items[name].key[1] # "gen" => Cardinality(held) = 1)
<1> DEFINE key(i) == Items[all[i]].key
           K == {i \in DOMAIN all : key(i) = Items[name].key}
           same(i, j) == key(i) = key(j) /\ key(i)[1] # "gen"
           first(i) == \A j \in 1 .. (i - 1) : ~same(i, j)
           firsts == {i \in DOMAIN all : first(i)}
           one == Deduplicated(all)
           held == {k \in DOMAIN one : Items[one[k]].key = Items[name].key}
<1>1. one = Kept(all, firsts) /\ firsts \in SUBSET DOMAIN all
  BY DEF Deduplicated
<1>2. DOMAIN all = 1 .. Len(all) /\ Len(all) \in Nat
  BY ListShape
<1>3. PICK least \in K : \A j \in K : least <= j
  <2>1. K \in SUBSET Nat
    BY <1>2
  <2>2. K # {}
    BY DEF ToSet
  <2> HIDE DEF K
  <2> QED
    BY <2>1, <2>2, LeastExists
<1>4. least \in firsts
  <2> SUFFICES ASSUME NEW j \in 1 .. (least - 1), same(least, j) PROVE FALSE
    OBVIOUS
  <2>1. least \in 1 .. Len(all)
    BY <1>2
  <2>2. j \in DOMAIN all /\ j < least /\ j \in Nat
    BY <1>2, <2>1
  <2>3. j \in K
    BY <2>2
  <2>4. least <= j
    BY <1>3, <2>3
  <2> QED
    BY <2>1, <2>2, <2>4
<1>5. ASSUME NEW i \in firsts, NEW j \in firsts, same(i, j) PROVE i = j
  <2>1. i \in 1 .. Len(all) /\ j \in 1 .. Len(all)
    BY <1>2
  <2>2. same(j, i)
    BY <1>5
  <2>3. ~(i < j)
    <3>1. i < j => i \in 1 .. (j - 1)
      BY <1>2, <2>1
    <3> QED
      BY <2>2, <3>1
  <2>4. ~(j < i)
    <3>1. j < i => j \in 1 .. (i - 1)
      BY <1>2, <2>1
    <3> QED
      BY <1>5, <3>1
  <2> QED
    BY <1>2, <2>1, <2>3, <2>4
<1>6. \A i \in firsts : i \in DOMAIN all
  OBVIOUS
<1>7. key(least) = Items[name].key
  OBVIOUS
<1> HIDE DEF one, firsts, K
<1> DEFINE N == Cardinality(firsts)
<1>8. /\ DOMAIN one = 1 .. N
      /\ \E at \in [1 .. N -> firsts] :
            /\ \A k \in 1 .. N : one[k] = all[at[k]]
            /\ \A j, k \in 1 .. N : at[j] = at[k] => j = k
            /\ \A i \in firsts : \E k \in 1 .. N : at[k] = i
  BY ONLY <1>1, KeptByPlaces, IsList(all)
<1> HIDE DEF N
<1>9. PICK at \in [1 .. N -> firsts] :
          /\ \A k \in 1 .. N : one[k] = all[at[k]]
          /\ \A j, k \in 1 .. N : at[j] = at[k] => j = k
          /\ \A i \in firsts : \E k \in 1 .. N : at[k] = i
  BY <1>8
<1>10. PICK k \in 1 .. N : at[k] = least
  BY <1>4, <1>9
<1>11. k \in held
  BY <1>7, <1>8, <1>9, <1>10
<1>12. ASSUME Items[name].key[1] # "gen" PROVE Cardinality(held) = 1
  <2>1. ASSUME NEW h \in held PROVE h = k
    <3>1. h \in 1 .. N /\ Items[one[h]].key = Items[name].key
      BY <1>8
    <3>2. at[h] \in firsts /\ at[k] \in firsts /\ key(at[h]) = Items[name].key /\ key(at[k]) = Items[name].key
      BY <1>7, <1>9, <1>10, <3>1
    <3>3. same(at[h], at[k])
      BY <1>12, <3>2
    <3>4. at[h] = at[k]
      BY <1>5, <3>2, <3>3
    <3> QED
      BY <1>9, <1>10, <3>1, <3>4
  <2>2. held = {k}
    BY <1>11, <2>1
  <2> QED
    BY <2>2, FS_Singleton
<1> QED
  BY <1>11, <1>12 DEF one

LEMMA RunsAreMerged ==
    ASSUME CandidatesInv, RunsInv, MergeActors
    PROVE  MergedFromRuns
<1> DEFINE found == [i \in DOMAIN actors |-> actors[i].items]
           all == FlattenSeq(found)
           one == Deduplicated(all)
           union == UNION {ToSet(actors[i].items) : i \in DOMAIN actors}
           held(name) == {k \in DOMAIN listings' : listings'[k].id = Items[name].key}
<1>1. /\ stage = "scraping" /\ listings' = [k \in DOMAIN Merged |-> Scrapings[Merged[k]]]
      /\ \A i \in DOMAIN actors : actors[i].state # "running"
  BY DEF MergeActors
<1>2. IsList(actors) /\ \A i \in DOMAIN actors : IsRun(actors[i])
  BY DEF CandidatesInv, ToSet
<1>3. \A i \in DOMAIN actors : WithinBudget(actors[i])
  BY <1>1 DEF RunsInv
<1>4. PICK n, place : SharedOut(actors, n, place)
  BY <1>1 DEF RunsInv
<1>5. Len(all) \in Nat /\ Len(all) <= MaxItems
  BY <1>2, <1>3, <1>4, RunsFit
<1>6. IsList(found) /\ DOMAIN found = DOMAIN actors
  <2>1. found = [i \in DOMAIN actors |-> found[i]]
    OBVIOUS
  <2> HIDE DEF found
  <2> QED
    BY <1>2, <2>1, SamePlacesIsList
<1>7. \A i \in DOMAIN actors : found[i] = actors[i].items /\ IsList(found[i]) /\ ToSet(found[i]) \subseteq DOMAIN Items
  BY <1>2 DEF IsRun
<1>8. Merged = FirstItems(one, MaxItems)
  BY DEF Merged
<1> HIDE DEF found
<1>9. IsList(all) /\ ToSet(all) = UNION {ToSet(s) : s \in ToSet(found)}
  <2>1. \A s \in ToSet(found) : IsList(s)
    BY <1>6, <1>7 DEF ToSet
  <2> QED
    BY <1>6, <2>1, FlattenIsList
<1>10. ToSet(all) = union
  <2>1. ToSet(found) = {actors[i].items : i \in DOMAIN actors}
    BY <1>6, <1>7 DEF ToSet
  <2> QED
    BY <1>9, <2>1
<1>11. union \subseteq DOMAIN Items
  BY <1>7
<1> HIDE DEF all, union
<1>12. IsList(one) /\ Len(one) \in Nat /\ Len(one) <= MaxItems /\ ToSet(one) \subseteq DOMAIN Items
  <2> DEFINE same(i, j) == Items[all[i]].key = Items[all[j]].key /\ Items[all[i]].key[1] # "gen"
             first(i) == \A j \in 1 .. (i - 1) : ~same(i, j)
             firsts == {i \in DOMAIN all : first(i)}
  <2>1. one = Kept(all, firsts) /\ firsts \in SUBSET DOMAIN all
    BY DEF Deduplicated
  <2> HIDE DEF firsts, one
  <2>2. IsList(one) /\ ToSet(one) \subseteq ToSet(all)
    BY <1>9, <2>1, KeptOfList
  <2>3. Cardinality(firsts) \in 0 .. Len(all) /\ Len(one) = Cardinality(firsts)
    BY <1>9, <2>1, KeptByPlaces
  <2>4. MaxItems \in Nat
    BY FixturesAssumption
  <2> DEFINE L == Len(all)
             c == Cardinality(firsts)
  <2>5. c \in 0 .. L /\ L \in Nat /\ L <= MaxItems /\ Len(one) = c
    BY <1>5, <2>3
  <2> HIDE DEF L, c
  <2>6. Len(one) \in Nat /\ Len(one) <= MaxItems
    BY <2>4, <2>5
  <2> QED
    BY <1>10, <1>11, <2>2, <2>6
<1>13. \A name \in union : LET h == {k \in DOMAIN one : Items[one[k]].key = Items[name].key}
                           IN  h # {} /\ (Items[name].key[1] # "gen" => Cardinality(h) = 1)
  BY <1>9, <1>10, DeduplicationKeepsOne
<1> HIDE DEF one
<1>14. DOMAIN Merged = DOMAIN one /\ \A k \in DOMAIN one : Merged[k] = one[k]
  <2> DEFINE L == Len(one)
             m == IF L < MaxItems THEN L ELSE MaxItems
  <2>1. MaxItems \in Nat /\ IsList(one)
    BY <1>12, FixturesAssumption
  <2>2. DOMAIN Merged = 1 .. m /\ \A k \in 1 .. m : Merged[k] = one[k]
    BY ONLY <1>8, <2>1, FirstItemsShape
  <2>3. m = L
    BY <1>12, <2>1
  <2>4. DOMAIN one = 1 .. L
    BY <2>1, ListShape
  <2> HIDE DEF L, m
  <2> QED
    BY <2>2, <2>3, <2>4
<1>15. \A k \in DOMAIN one : listings'[k].id = Items[one[k]].key
  <2> SUFFICES ASSUME NEW k \in DOMAIN one PROVE listings'[k].id = Items[one[k]].key
    OBVIOUS
  <2>1. one[k] \in DOMAIN Items
    BY <1>12 DEF ToSet
  <2>2. listings'[k] = Scrapings[one[k]]
    BY <1>1, <1>14
  <2> QED
    BY <2>1, <2>2, IdentityOfItems
<1>16. DOMAIN listings' = DOMAIN one
  BY <1>1, <1>14
<1>17. ASSUME NEW name \in union
       PROVE  held(name) # {} /\ (Items[name].key[1] # "gen" => Cardinality(held(name)) = 1)
  <2> DEFINE h == {k \in DOMAIN one : Items[one[k]].key = Items[name].key}
  <2>1. held(name) = h
    BY <1>15, <1>16
  <2>2. h # {} /\ (Items[name].key[1] # "gen" => Cardinality(h) = 1)
    BY <1>13, <1>17
  <2> HIDE DEF h, held
  <2> QED
    BY <2>1, <2>2
<1>18. \A i \in DOMAIN actors : actors[i].state = "ended"
  BY <1>1, <1>3 DEF WithinBudget
<1> HIDE DEF held
<1> QED
  BY <1>17, <1>18 DEF MergedFromRuns, union, held

(* What there is of the runs while they go on. *)
Scraping ==
    /\ stage = "scraping"
    /\ UNCHANGED actors \/ \E i \in DOMAIN actors, reply \in ActorReplies : ActorReturns(i, reply)

LEMMA RunsGoOn ==
    ASSUME [Next]_vars, stage' = "scraping"
    PROVE  GetCandidates \/ Scraping
<1>1. CASE RetrievalStep /\ UNCHANGED actors
  <2>1. CASE Refuse \/ Misconfigured \/ AskRates \/ RatesTimeOut \/ RatesRetry \/ BeginDetail \/ EndDetails
    BY <2>1 DEF Refuse, Misconfigured, AskRates, RatesTimeOut, RatesRetry, BeginDetail, EndDetails, Fail
  <2>2. ASSUME NEW h, DetailRetry(h) PROVE FALSE
    BY <2>2 DEF DetailRetry
  <2>3. CASE CollectFails \/ Collect
    BY <2>3 DEF CollectFails, Collect, Fail
  <2> QED
    BY <1>1, <2>1, <2>2, <2>3 DEF RetrievalStep
<1>2. CASE (DeadlinePasses \/ ProviderStep) /\ UNCHANGED actors
  BY <1>2 DEF DeadlinePasses, ProviderStep, RatesFault, RatesRejected, RatesArrive, DetailFault, DetailArrives, Fail
<1>3. CASE ScrapingStep
  <2>1. CASE NoToken \/ MergeActors
    BY <2>1 DEF NoToken, MergeActors, Fail
  <2>2. ASSUME NEW i \in DOMAIN actors, NEW x, ActorFails(i, x) \/ ActorEndsLate(i) PROVE FALSE
    BY <2>2 DEF ActorFails, ActorEndsLate, Fail
  <2>3. ASSUME NEW i \in DOMAIN actors, NEW reply \in ActorReplies, ActorReturns(i, reply) PROVE Scraping
    BY <2>3 DEF ActorReturns, Scraping
  <2> QED
    BY <1>3, <2>1, <2>2, <2>3 DEF ScrapingStep, ActorStep
<1>4. CASE EvaluationStep \/ Tick
  <2>1. Unconverted # {} => stage = "retrieved"
    BY DEF Unconverted
  <2>2. ASSUME NEW got, Convert(got) PROVE FALSE
    BY <2>1, <2>2 DEF Convert
  <2>3. ASSUME NEW answer, Ask(answer) PROVE FALSE
    BY <2>3 DEF Ask
  <2>4. CASE ConvertRaises \/ Tick \/ MatchListing \/ RankStructured
    BY <2>1, <2>4 DEF ConvertRaises, Tick, MatchListing, RankStructured, Fail
  <2>5. CASE AskRaises \/ ScoreResolutions \/ FilterAndSort \/ GradeItems \/ SelectItems
    BY <2>5 DEF AskRaises, ScoreResolutions, FilterAndSort, GradeItems, SelectItems, Fail
  <2> QED
    BY <1>4, <2>2, <2>3, <2>4, <2>5 DEF EvaluationStep
<1>5. CASE AnswerStep \/ AskAboutShown
  <2>1. CASE ComposeAnswer \/ WordAnswer \/ WordingFails \/ AnswerFailure
    BY <2>1 DEF ComposeAnswer, WordAnswer, WordingFails, AnswerFailure
  <2>2. ASSUME NEW facts, ExtractFacts(facts) PROVE FALSE
    BY <2>2 DEF ExtractFacts
  <2>3. ASSUME NEW said, AskFact(said) PROVE FALSE
    <3>1. stage = "matching" /\ stage' = stage
      BY <2>3 DEF AskFact, OpenTargets, searchVars
    <3> QED
      BY <3>1
  <2>4. CASE ExtractionFails \/ QuestionRaises \/ Reply \/ ReplyRaises \/ AskAboutShown
    BY <2>4 DEF ExtractionFails, QuestionRaises, Reply, ReplyRaises, AskAboutShown, Fail
  <2> QED
    BY <1>5, <2>1, <2>2, <2>3, <2>4 DEF AnswerStep
<1>6. CASE UNCHANGED vars
  BY <1>6 DEF vars, searchVars, Scraping
<1> QED
  BY <1>1, <1>2, <1>3, <1>4, <1>5, <1>6 DEF Next, Searching, SearchNext, Retrieving, FromLiteApi

(* A run that returns keeps its share and fits into it.                    *)
LEMMA ReturnFits ==
    ASSUME NEW i \in DOMAIN actors, NEW reply \in ActorReplies, ActorReturns(i, reply),
           IsRun(actors[i])
    PROVE  /\ DOMAIN actors' = DOMAIN actors /\ WithinBudget(actors'[i]) /\ actors'[i].budget = actors[i].budget
           /\ \A j \in DOMAIN actors : j # i => actors'[j] = actors[j]
<1> DEFINE b == actors[i].budget
           names == FirstItems(reply, b)
           positions == {k \in DOMAIN names : names[k] \in DOMAIN Items}
           usable == UsableItems(names)
<1>1. /\ DOMAIN actors' = DOMAIN actors /\ \A j \in DOMAIN actors : j # i => actors'[j] = actors[j]
      /\ actors'[i].state = "ended" /\ actors'[i].items = usable /\ actors'[i].budget = b
  BY DEF ActorReturns, IsRun
<1>2. IsList(reply) /\ b \in Nat
  BY ApifyAssumption DEF IsRun
<1>3. usable = Kept(names, positions) /\ positions \in SUBSET DOMAIN names
  BY DEF UsableItems
<1> HIDE DEF b, positions, usable
<1>4. IsList(names) /\ Len(names) \in Nat /\ Len(names) <= b
  <2> DEFINE L == Len(reply)
             m == IF L < b THEN L ELSE b
  <2>1. IsList(names) /\ Len(names) = m /\ m \in Nat
    BY ONLY <1>2, FirstItemsShape
  <2>2. L \in Nat
    BY <1>2, ListShape
  <2> HIDE DEF L, names
  <2>3. m <= b
    BY <1>2, <2>2
  <2> QED
    BY <2>1, <2>3
<1> HIDE DEF names
<1> DEFINE c == Cardinality(positions)
<1>5. c \in 0 .. Len(names) /\ Len(usable) = c
  BY <1>3, <1>4, KeptByPlaces
<1> HIDE DEF c
<1>6. Len(usable) <= b
  BY <1>2, <1>4, <1>5
<1> QED
  BY <1>1, <1>6 DEF WithinBudget, b

LEMMA StepKeepsRuns ==
    ASSUME RunsInv, CandidatesInv, Scalars, [Next]_vars
    PROVE  RunsInv'
<1> SUFFICES ASSUME stage' = "scraping"
             PROVE  /\ \A i \in DOMAIN actors' : WithinBudget(actors'[i])
                    /\ \E n, place : SharedOut(actors', n, place)
  BY DEF RunsInv
<1>1. CASE GetCandidates
  <2>1. request.types \in Seq(STRING)
    BY SearchAssumption DEF Scalars, IsRequest
  <2> DEFINE planned == PlannedActors(request.types)
  <2>2. actors' = planned
    BY <1>1 DEF GetCandidates
  <2>3. /\ \A i \in DOMAIN planned : WithinBudget(planned[i])
        /\ \E n, place : SharedOut(planned, n, place)
    BY <2>1, PlannedAreShared
  <2> HIDE DEF planned
  <2> QED
    BY <2>2, <2>3
<1>2. CASE Scraping
  <2>1. /\ \A i \in DOMAIN actors : WithinBudget(actors[i])
        /\ \E n, place : SharedOut(actors, n, place)
    BY <1>2 DEF Scraping, RunsInv
  <2>2. CASE UNCHANGED actors
    BY <2>1, <2>2
  <2>3. ASSUME NEW i \in DOMAIN actors, NEW reply \in ActorReplies, ActorReturns(i, reply)
        PROVE  /\ \A j \in DOMAIN actors' : WithinBudget(actors'[j])
               /\ \E n, place : SharedOut(actors', n, place)
    <3>1. IsRun(actors[i])
      BY DEF CandidatesInv, ToSet
    <3>2. /\ DOMAIN actors' = DOMAIN actors /\ WithinBudget(actors'[i]) /\ actors'[i].budget = actors[i].budget
          /\ \A j \in DOMAIN actors : j # i => actors'[j] = actors[j]
      BY <2>3, <3>1, ReturnFits
    <3>3. PICK n, place : SharedOut(actors, n, place)
      BY <2>1
    <3>4. SharedOut(actors', n, place)
      BY <3>2, <3>3 DEF SharedOut
    <3>5. \A j \in DOMAIN actors' : WithinBudget(actors'[j])
      BY <2>1, <3>2
    <3> QED
      BY <3>4, <3>5
  <2> QED
    BY <1>2, <2>2, <2>3 DEF Scraping
<1> QED
  BY <1>1, <1>2, RunsGoOn

(* What the candidates rest on: the hotels that were asked about and their *)
(* answers, what the runs found, and the shares that hold all of it.       *)
OfferIInv == TypeInv /\ CandidatesInv /\ RunsInv

LEMMA NextOfferIInv ==
    ASSUME OfferIInv, [Next]_vars
    PROVE  OfferIInv'
<1>1. TypeInv /\ CandidatesInv /\ RunsInv /\ Scalars /\ DetailInv
  BY DEF OfferIInv, TypeInv, RetrievalInv
<1>2. TypeInv' /\ CandidatesInv' /\ RunsInv'
  BY <1>1, NextTypes, StepKeepsCandidates, StepKeepsRuns
<1> QED
  BY <1>2 DEF OfferIInv

LEMMA NothingOfferedIsLost ==
    ASSUME OfferIInv, [Next]_vars
    PROVE  CollectedFromHotels /\ MergedFromRuns /\ TakenFromSamples
<1>1. CandidatesInv /\ RunsInv /\ Scalars /\ DetailInv
  BY DEF OfferIInv, TypeInv, RetrievalInv
<1>2. CASE stage' = stage \/ stage \notin {"choosing", "scraping", "collecting"}
  BY <1>2 DEF CollectedFromHotels, MergedFromRuns, TakenFromSamples
<1>3. CASE stage' # stage /\ stage = "choosing"
  <2>1. GetCandidates \/ stage' = "failed"
    BY <1>3, CandidatesAreFound
  <2>2. stage' = "retrieved" => TakenFromSamples
    BY <1>1, <2>1, SamplesAreTaken
  <2>3. TakenFromSamples
    BY <2>2 DEF TakenFromSamples
  <2> QED
    BY <1>3, <2>3 DEF CollectedFromHotels, MergedFromRuns
<1>4. CASE stage' # stage /\ stage = "scraping"
  <2>1. MergeActors \/ stage' = "failed"
    BY <1>4, CandidatesAreFound
  <2>2. stage' = "retrieved" => MergedFromRuns
    BY <1>1, <2>1, RunsAreMerged
  <2>3. MergedFromRuns
    BY <2>2 DEF MergedFromRuns
  <2> QED
    BY <1>4, <2>3 DEF CollectedFromHotels, TakenFromSamples
<1>5. CASE stage' # stage /\ stage = "collecting"
  <2>1. Collect \/ CollectFails
    BY <1>5, CandidatesAreFound
  <2>2. CASE Collect
    <3>1. stage' = "retrieved"
      BY <2>2 DEF Collect
    <3>2. CollectedFromHotels
      BY <1>1, <2>2, <3>1, CollectedListings DEF CollectedFromHotels
    <3> QED
      BY <1>5, <3>2 DEF MergedFromRuns, TakenFromSamples
  <2>3. CASE CollectFails
    <3>1. stage' = "failed"
      BY <2>3 DEF CollectFails, Fail
    <3>2. CollectedFromHotels
      BY <1>1, <2>3, <3>1, CollectedFailure DEF CollectedFromHotels
    <3> QED
      BY <1>5, <3>2 DEF MergedFromRuns, TakenFromSamples
  <2> QED
    BY <2>1, <2>2, <2>3
<1> QED
  BY <1>2, <1>3, <1>4, <1>5

(* The candidates are what the provider offers (get_candidates of the      *)
(* three sources).  Whatever the payloads: a LiteAPI search goes on        *)
(* without listings only if no hotel has offers or the configuration lets  *)
(* no hotel be asked for details (liteapi.py:629), and fails with some     *)
(* hotel's answer; a scrape loses nothing that its runs found and has what *)
(* two of them found once, as many items as the budget may be; and the     *)
(* samples taken are those whose window holds every night of the stay in   *)
(* some year, as many as fit, at the nightly rate of the window.           *)
THEOREM WhatIsOfferedIsTaken == Spec => CandidatesAreWhatIsOffered
<1>1. Init => OfferIInv
  <2>1. Init => stage = "choosing"
    BY DEF Init, InitSearch, InitRetrieval
  <2> QED
    BY <2>1, InitTypes, InitEvidence DEF OfferIInv, RunsInv
<1>2. OfferIInv /\ [Next]_vars => OfferIInv'
  BY NextOfferIInv
<1>3. OfferIInv /\ [Next]_vars => [CollectedFromHotels /\ MergedFromRuns /\ TakenFromSamples]_vars
  BY NothingOfferedIsLost
<1> QED
  BY <1>1, <1>2, <1>3, PTL DEF Spec, CandidatesAreWhatIsOffered

-----------------------------------------------------------------------------
(* What is told against a candidate is found.                              *)

(* Every phrase that is told of it is in a signal of it.                   *)
Carried(r, l) == ToldPhrases(r, l) \subseteq TextsOf(l.signals)

LEMMA ToldIsSeen ==
    ASSUME NEW P \in SUBSET DOMAIN Phrases, NEW l, GroundedIn(P, l), P \subseteq TextsOf(l.signals),
           NEW f, NEW side, NEW p \in P, Hits(Phrases[p], f, side) # {}
    PROVE  f \in DOMAIN PreferredPlaces /\ FindBestSignal(l.signals, f, side) # {}
<1>1. PICK s \in ToSet(l.signals) : p \in s.text
  BY DEF TextsOf
<1>2. PICK i \in DOMAIN l.signals : l.signals[i] = s
  BY <1>1 DEF ToSet
<1>3. IsSignal(s, P)
  BY <1>1 DEF GroundedIn
<1>4. Hits(Phrases[p], f, side) \subseteq Hits(s, f, side)
  <2>1. p \in Among(s.text) /\ s.says = UNION {Phrases[q].says : q \in Among(s.text)}
    BY <1>1, <1>3 DEF IsSignal, Says, Among
  <2> QED
    BY <2>1 DEF Hits
<1>5. f \in DOMAIN PreferredPlaces
  <2>1. PICK h \in Hits(Phrases[p], f, side) : TRUE
    OBVIOUS
  <2>2. h \in Phrases[p].says /\ h.field = f
    BY <2>1 DEF Hits
  <2> QED
    BY <2>2, SearchAssumption
<1>6. Hits(l.signals[i], f, side) # {}
  BY <1>2, <1>4
<1> QED
  BY <1>5, <1>6, BestSignalExists

(* When one phrase alone names the field, for and against it, the signals  *)
(* with it are found for both sides, and the same one is the best.         *)
LEMMA OnePhraseOneSignal ==
    ASSUME NEW P \in SUBSET DOMAIN Phrases, NEW l, GroundedIn(P, l), NEW f \in DOMAIN PreferredPlaces, NEW p \in P,
           Hits(Phrases[p], f, "yes") # {}, Hits(Phrases[p], f, "no") # {},
           \A q \in P : q # p => Hits(Phrases[q], f, "yes") = {} /\ Hits(Phrases[q], f, "no") = {}
    PROVE  FindBestSignal(l.signals, f, "yes") = FindBestSignal(l.signals, f, "no")
<1> DEFINE signals == l.signals
           C == {i \in DOMAIN signals : p \in signals[i].text}
           rank(i) == PathRank(signals[i], f)
           best == {i \in C : \A j \in C : rank(i) < rank(j) \/ (rank(i) = rank(j) /\ i <= j)}
<1>1. ASSUME NEW side \in {"yes", "no"} PROVE FindBestSignal(signals, f, side) = best
  <2> DEFINE candidates == {i \in DOMAIN signals : Hits(signals[i], f, side) # {}}
             lengths(i) == {h.length : h \in Hits(signals[i], f, side)}
             length(i) == CHOOSE n \in lengths(i) : \A m \in lengths(i) : m <= n
             before(i, j) == \/ rank(i) < rank(j)
                             \/ rank(i) = rank(j) /\ length(i) > length(j)
                             \/ rank(i) = rank(j) /\ length(i) = length(j) /\ i <= j
             hits == Hits(Phrases[p], f, side)
             values == {h.length : h \in hits}
             top == CHOOSE n \in values : \A m \in values : m <= n
  <2>1. FindBestSignal(signals, f, side) = {i \in candidates : \A j \in candidates : before(i, j)}
    BY DEF FindBestSignal
  <2>2. ASSUME NEW i \in DOMAIN signals
        PROVE  Hits(signals[i], f, side) = IF p \in signals[i].text THEN hits ELSE {}
    <3>1. IsSignal(signals[i], P)
      BY DEF GroundedIn, ToSet
    <3>2. /\ Among(signals[i].text) \subseteq P
          /\ signals[i].says = UNION {Phrases[q].says : q \in Among(signals[i].text)}
      BY <3>1 DEF IsSignal, Says
    <3>3. p \in Among(signals[i].text) <=> p \in signals[i].text
      BY DEF Among
    <3>4. \A q \in P : q # p => Hits(Phrases[q], f, side) = {}
      OBVIOUS
    <3>5. ASSUME NEW h PROVE h \in Hits(signals[i], f, side) <=> \E q \in Among(signals[i].text) : h \in Hits(Phrases[q], f, side)
      BY <3>2 DEF Hits
    <3> QED
      BY <3>2, <3>3, <3>4, <3>5
  <2>3. candidates = C /\ \A i \in C : length(i) = top
    <3>1. hits # {}
      OBVIOUS
    <3> HIDE DEF hits
    <3>2. candidates = C
      BY <2>2, <3>1
    <3>3. \A i \in C : lengths(i) = values
      BY <2>2
    <3> QED
      BY <3>2, <3>3
  <2>4. top \in Int
    <3> DEFINE of == [h \in hits |-> h.length]
    <3>1. IsFiniteSet(hits) /\ hits # {} /\ \A h \in hits : h.length \in Nat
      <4>1. IsFiniteSet(Phrases[p].says) /\ \A h \in Phrases[p].says : h.length \in Nat
        BY ListingAssumption
      <4> QED
        BY <4>1, FS_Subset DEF Hits
    <3> HIDE DEF hits
    <3>2. values = {of[h] : h \in hits}
      OBVIOUS
    <3> HIDE DEF of
    <3>3. IsFiniteSet(values)
      <4>1. IsFiniteSet({of[h] : h \in hits})
        BY <3>1, ImageIsFinite
      <4> QED
        BY <3>2, <4>1
    <3>4. values \in SUBSET Int /\ values # {}
      BY <3>1
    <3> HIDE DEF values
    <3>5. \E n \in values : \A m \in values : m <= n
      BY <3>3, <3>4, GreatestExists
    <3> QED
      BY <3>4, <3>5
  <2> HIDE DEF candidates, length, top, rank, C
  <2> QED
    BY <2>1, <2>3, <2>4
<1> QED
  BY <1>1

(* A denial is a NO, unless the texts dispute it; what is only affirmed is *)
(* a YES.                                                                  *)
LEMMA ToldIsMatched ==
    ASSUME NEW r, NEW l, Grounded(r, l), Carried(r, l), NEW f
    PROVE  /\ Denied(r, l, f) => MatchField(l.signals, f) = "NO" \/ Disputed(r, l, f, "must")
           /\ Affirmed(r, l, f) => MatchField(l.signals, f) = "YES" \/ Denied(r, l, f)
<1> DEFINE P == ToldPhrases(r, l)
           hits(p, side) == Hits(Phrases[p], f, side)
           positive == FindBestSignal(l.signals, f, "yes")
           negative == FindBestSignal(l.signals, f, "no")
           naming == {p \in P : hits(p, "yes") \cup hits(p, "no") # {}}
<1>1. P \in SUBSET DOMAIN Phrases /\ GroundedIn(P, l) /\ P \subseteq TextsOf(l.signals)
  BY DEF ToldPhrases, Grounded, Carried
<1>2. /\ Denied(r, l, f) <=> \E p \in P : hits(p, "no") # {}
      /\ Affirmed(r, l, f) <=> \E p \in P : hits(p, "yes") # {} /\ hits(p, "no") = {}
      /\ Disputed(r, l, f, "must") <=> \E p, q \in naming : p # q /\ hits(p, "yes") # {}
  BY DEF Denied, Affirmed, Disputed
<1>3. f \in DOMAIN PreferredPlaces =>
          /\ negative # {} /\ positive \in {{}, negative} => MatchField(l.signals, f) = "NO"
          /\ positive # {} /\ negative = {} => MatchField(l.signals, f) = "YES"
  BY DEF MatchField
<1>4. ASSUME NEW side, FindBestSignal(l.signals, f, side) # {} PROVE \E p \in P : hits(p, side) # {}
  <2>1. PICK i \in DOMAIN l.signals : Hits(l.signals[i], f, side) # {}
    BY <1>4 DEF FindBestSignal
  <2>2. IsSignal(l.signals[i], P)
    BY <1>1 DEF GroundedIn, ToSet
  <2> QED
    BY <2>1, <2>2, HitsAreOfPhrases
<1> HIDE DEF P, positive, negative
<1>5. ASSUME NEW p \in P, hits(p, "no") # {}, ~ \E q, s \in naming : q # s /\ hits(q, "yes") # {}
      PROVE  MatchField(l.signals, f) = "NO"
  <2>1. f \in DOMAIN PreferredPlaces /\ negative # {}
    BY <1>1, <1>5, ToldIsSeen DEF negative
  <2>2. CASE positive = {}
    BY <1>3, <2>1, <2>2
  <2>3. CASE positive # {}
    <3>1. PICK q \in P : hits(q, "yes") # {}
      BY <1>4, <2>3 DEF positive
    <3>2. \A s \in naming : s = q
      BY <1>5, <3>1
    <3>3. p = q /\ \A s \in P : s # q => hits(s, "yes") = {} /\ hits(s, "no") = {}
      <4>1. p \in naming
        BY <1>5
      <4>2. \A s \in P : s \notin naming => hits(s, "yes") = {} /\ hits(s, "no") = {}
        OBVIOUS
      <4> HIDE DEF naming, hits
      <4> QED
        BY <3>2, <4>1, <4>2
    <3>4. /\ Hits(Phrases[p], f, "yes") # {} /\ Hits(Phrases[p], f, "no") # {}
          /\ \A s \in P : s # p => Hits(Phrases[s], f, "yes") = {} /\ Hits(Phrases[s], f, "no") = {}
      BY <1>5, <3>1, <3>3
    <3>5. positive = negative
      <4> HIDE DEF hits, naming
      <4> QED
        BY ONLY <1>1, <2>1, <3>4, p \in P, OnePhraseOneSignal DEF positive, negative
    <3> QED
      BY <1>3, <2>1, <3>5
  <2> QED
    BY <2>2, <2>3
<1>6. ASSUME NEW p \in P, hits(p, "yes") # {}, ~ \E q \in P : hits(q, "no") # {}
      PROVE  MatchField(l.signals, f) = "YES"
  <2>1. f \in DOMAIN PreferredPlaces /\ positive # {}
    BY <1>1, <1>6, ToldIsSeen DEF positive
  <2>2. negative = {}
    BY <1>4, <1>6 DEF negative
  <2> QED
    BY <1>3, <2>1, <2>2
<1> QED
  BY <1>2, <1>5, <1>6

(* The largest of the counts misses the range, if all do.                  *)
LEMMA CountsAreMatched ==
    ASSUME NEW r, IsRequest(r), NEW x, Measured(x.listing), NEW a \in {"bedrooms", "bathrooms"},
           Mentions(x, a) # {}, \A m \in Mentions(x, a) : ~InRange(m, r.filters[a])
    PROVE  a \in DOMAIN MatchSizes(x.listing, r.filters) /\ MatchSizes(x.listing, r.filters)[a] = "NO"
<1> DEFINE range == r.filters[a]
           l == x.listing
           inRooms == {m.count : m \in {n \in l.bedrooms : n.inRoom}}
           given == IF a = "bathrooms" THEN l.bathrooms ELSE IF inRooms = {} THEN Counts(l) ELSE inRooms
           values == Largest(given)
<1>1. Mentions(x, a) = IF a = "bathrooms" THEN l.bathrooms ELSE Counts(l)
  BY DEF Mentions, Counts
<1>2. given \subseteq Mentions(x, a) /\ given # {}
  <2>1. inRooms \subseteq Counts(l)
    BY DEF Counts
  <2> HIDE DEF inRooms, l
  <2> QED
    BY <1>1, <2>1
<1>3. IsFiniteSet(given) /\ given \in SUBSET Int
  BY <1>1, <1>2, FS_Subset DEF Measured
<1>4. Asked(range)
  <2>1. PICK m \in Mentions(x, a) : ~InRange(m, range)
    OBVIOUS
  <2> QED
    BY <2>1 DEF InRange, Asked
<1>5. a \in DOMAIN MatchSizes(l, r.filters) /\ MatchSizes(l, r.filters)[a] = MatchRange(values, range)
  <2>1. values = CASE a = "bedrooms" -> ExtractBedroomCount(l)
                   [] a = "bathrooms" -> ExtractBathroomCount(l)
                   [] OTHER -> ExtractAreaCandidates(l)
    BY DEF ExtractBedroomCount, ExtractBathroomCount, Counts
  <2> HIDE DEF values, l
  <2> QED
    BY <1>4, <2>1 DEF MatchSizes
<1> HIDE DEF given, l, range
<1>6. values # {} /\ values \subseteq given
  <2>1. \E m \in given : \A n \in given : n <= m
    BY <1>2, <1>3, GreatestExists
  <2> QED
    BY <2>1 DEF Largest
<1> HIDE DEF values
<1>7. values # {} /\ \A m \in values : ~InRange(m, range)
  BY <1>2, <1>6 DEF range
<1>8. MatchRange(values, range) = "NO"
  BY <1>7 DEF MatchRange
<1> QED
  BY <1>5, <1>8 DEF l

(* What a card calls over budget is, when one currency is compared.        *)
LEMMA CardIsMatched ==
    ASSUME NEW r, IsRequest(r), NEW total, \A t \in total : t.amount \in Int, NEW of,
           BudgetStatus(r.price, r.nights, total) = "over_budget", \A t \in total : t.currency = r.price.currency
    PROVE  r.price.max # {} /\ MatchPrice(r.price, total, r.nights, of) = "NO"
<1> DEFINE price == r.price
           limits == BudgetTotal(price, r.nights)
           stay == IF price.scope = "per_night" THEN r.nights ELSE 1
<1>1. limits # {} /\ total # {} /\ price.currency # "none"
  BY DEF BudgetStatus
<1>2. PICK limit \in limits, t \in total : t.amount > limit
  BY DEF BudgetStatus
<1>3. ~NeedsRate(price, total) /\ ~OtherCurrency(price, total)
  BY DEF NeedsRate, OtherCurrency
<1>4. ~AmbiguousScope(price, r.nights) /\ \E high \in price.max : limit = high * stay /\ high \in Int
  <2>1. price.max \subseteq Int /\ r.nights \in Nat
    BY DEF IsRequest
  <2>2. CASE price.scope = "per_night"
    BY <2>1, <2>2 DEF BudgetTotal, AmbiguousScope
  <2>3. CASE price.scope = "total_stay"
    BY <2>1, <2>3 DEF BudgetTotal, AmbiguousScope
  <2> QED
    BY <2>2, <2>3 DEF BudgetTotal
<1>5. PICK high \in price.max : limit = high * stay /\ high \in Int
  BY <1>4
<1>6. t.amount * 1 > high * stay
  BY <1>2, <1>5
<1> HIDE DEF limits, stay
<1>7. MatchPrice(price, total, r.nights, of) = "NO"
  BY <1>1, <1>3, <1>4, <1>6 DEF MatchPrice, stay
<1> QED
  BY <1>5, <1>7

-----------------------------------------------------------------------------
(* What is known against a listing that is kept.                           *)

FieldsSettled(r, x) ==
    \A b \in BlockingFields(r) : Contrary(r, x.listing, b[1], b[2]) => Disputed(r, x.listing, b[1], b[2])

CountsSettled(r, x) ==
    \A a \in {"bedrooms", "bathrooms"} : Mentions(x, a) # {} => \E m \in Mentions(x, a) : InRange(m, r.filters[a])

PriceSettled(r, x) ==
    OverBudget(r, x) => \/ r.price.scope = "none" /\ r.nights > 1
                        \/ \E side \in DOMAIN x.quotes : x.quotes[side] = {}
                        \/ OtherCurrency(r.price, ExtractTotalPrice(x.listing))

CardSettled(r, x) ==
    BudgetStatus(r.price, r.nights, x.listing.total) = "over_budget" =>
        \E t \in x.listing.total : t.currency # r.price.currency

(* Its fields are settled when it is matched, its numbers unless the       *)
(* numeric filters are still to reject it.                                 *)
NumbersSettled(r, x) == FailsNumericFilters(x) \/ (CountsSettled(r, x) /\ PriceSettled(r, x) /\ CardSettled(r, x))

Harmless(r, x) == FieldsSettled(r, x) /\ NumbersSettled(r, x)

LEMMA HarmlessStays ==
    ASSUME NEW r, NEW x, NEW y, SameEvidence(x, y), Harmless(r, x)
    PROVE  Harmless(r, y)
<1>1. \A a : Mentions(y, a) = Mentions(x, a)
  BY DEF SameEvidence, Mentions
<1>2. \A scope : OutsideAs(r, y, scope) <=> OutsideAs(r, x, scope)
  BY DEF SameEvidence, OutsideAs
<1>3. FieldsSettled(r, y)
  BY DEF Harmless, SameEvidence, FieldsSettled
<1>4. /\ FailsNumericFilters(x) => FailsNumericFilters(y)
      /\ CountsSettled(r, x) => CountsSettled(r, y)
      /\ CardSettled(r, x) => CardSettled(r, y)
  BY <1>1 DEF SameEvidence, FailsNumericFilters, CountsSettled, CardSettled
<1>5. PriceSettled(r, x) => PriceSettled(r, y)
  BY <1>2 DEF SameEvidence, PriceSettled, OverBudget
<1> QED
  BY <1>3, <1>4, <1>5 DEF Harmless, NumbersSettled

LEMMA FieldsAreSettled ==
    ASSUME NEW r, NEW x, Grounded(r, x.listing), Carried(r, x.listing),
           \A f \in KnownFields(r, {"must", "nice", "forbidden"}) : x.matches[f] = MatchField(x.listing.signals, f),
           ~FailsMust(r, x), ~FailsForbidden(r, x)
    PROVE  FieldsSettled(r, x)
<1> DEFINE l == x.listing
<1>1. ASSUME NEW p \in {"must", "forbidden"}, NEW f \in KnownFields(r, {p}) PROVE x.matches[f] = MatchField(l.signals, f)
  <2>1. f \in KnownFields(r, {"must", "nice", "forbidden"})
    BY <1>1 DEF KnownFields
  <2> QED
    BY <2>1
<1>2. ASSUME NEW f \in KnownFields(r, {"must"}), Contrary(r, l, f, "must") PROVE Disputed(r, l, f, "must")
  <2>1. Denied(r, l, f)
    BY <1>2 DEF Contrary
  <2>2. MatchField(l.signals, f) # "NO"
    BY <1>1 DEF FailsMust, Having
  <2> QED
    BY <2>1, <2>2, ToldIsMatched
<1>3. ASSUME NEW f \in KnownFields(r, {"forbidden"}), Contrary(r, l, f, "forbidden") PROVE Disputed(r, l, f, "forbidden")
  <2>1. MatchField(l.signals, f) # IF f \in InvertedPolarityForbiddenFields THEN "NO" ELSE "YES"
    BY <1>1 DEF FailsForbidden
  <2>2. CASE f \in InvertedPolarityForbiddenFields
    <3>1. Denied(r, l, f)
      BY <1>3, <2>2 DEF Contrary
    <3>2. Disputed(r, l, f, "must")
      BY <2>1, <2>2, <3>1, ToldIsMatched
    <3> QED
      BY <2>2, <3>2 DEF Disputed
  <2>3. CASE f \notin InvertedPolarityForbiddenFields
    <3>1. Affirmed(r, l, f)
      BY <1>3, <2>3 DEF Contrary
    <3>2. Denied(r, l, f)
      BY <2>1, <2>3, <3>1, ToldIsMatched
    <3> QED
      BY <2>3, <3>2 DEF Disputed
  <2> QED
    BY <2>2, <2>3
<1>4. ASSUME NEW b \in BlockingFields(r), Contrary(r, l, b[1], b[2]) PROVE Disputed(r, l, b[1], b[2])
  <2>1. PICK p \in {"must", "forbidden"} : b \in KnownFields(r, {p}) \X {p}
    BY DEF BlockingFields
  <2>2. b[1] \in KnownFields(r, {p}) /\ b[2] = p
    BY <2>1
  <2> QED
    BY <1>2, <1>3, <1>4, <2>1, <2>2
<1> QED
  BY <1>4 DEF FieldsSettled

LEMMA MatchedIsHarmless ==
    ASSUME request \in Requests, NEW l, Grounded(request, l), Carried(request, l), Measured(l), QuotesHold,
           \A side \in {"min", "max"} :
              request.price[side] # {} /\ NeedsRate(request.price, ExtractTotalPrice(l)) => side \in DOMAIN quotes,
           ~FailsMust(request, Matched(l)), ~FailsForbidden(request, Matched(l))
    PROVE  Harmless(request, Matched(l))
<1> DEFINE K == KnownFields(request, {"must", "nice", "forbidden"})
           matches == [f \in K |-> MatchField(l.signals, f)]
           sizes == MatchSizes(l, request.filters)
           quoted(s) == IF s \in DOMAIN quotes THEN {q.quote : q \in quotes[s]} ELSE {}
           of == [s \in {"min", "max"} |-> quoted(s)]
           verdict == MatchPrice(request.price, ExtractTotalPrice(l), request.nights, of)
           price == [a \in {"price_total" : s \in {t \in {"min", "max"} : request.price[t] # {}}} |-> verdict]
           numeric == Joined(sizes, price)
           x == Matched(l)
<1>1. /\ x.listing = l /\ x.matches = matches /\ x.numeric = numeric /\ x.quotes = quotes
  BY DEF Matched
<1>2. IsRequest(request)
  BY SearchAssumption
<1>3. FieldsSettled(request, x)
  <2>1. \A f \in K : x.matches[f] = MatchField(x.listing.signals, f)
    BY <1>1
  <2>2. Grounded(request, x.listing) /\ Carried(request, x.listing) /\ ~FailsMust(request, x) /\ ~FailsForbidden(request, x)
    BY <1>1
  <2> HIDE DEF x
  <2> QED
    BY <2>1, <2>2, FieldsAreSettled
<1> HIDE DEF x
<1>4. /\ \A side \in {"min", "max"} : request.price[side] # {} => DOMAIN price = {"price_total"}
      /\ DOMAIN price \subseteq {"price_total"}
      /\ \A a \in DOMAIN price : price[a] = verdict
  OBVIOUS
<1>5. DOMAIN sizes \subseteq {"bedrooms", "bathrooms", "area_sqm"}
  BY DEF MatchSizes
<1>6. \A side \in {"min", "max"} :
          request.price[side] # {} /\ NeedsRate(request.price, ExtractTotalPrice(x.listing)) =>
              of[side] = {q.quote : q \in x.quotes[side]}
  BY <1>1
<1>7. \A side \in {"min", "max"} :
          request.price[side] # {} /\ NeedsRate(request.price, ExtractTotalPrice(x.listing)) =>
              /\ \A q \in x.quotes[side] : q.stale \/ q.age < TTL
              /\ \A p, q \in x.quotes[side] : p = q
  BY <1>1 DEF QuotesHold
<1> HIDE DEF sizes, price, verdict
<1>8. /\ DOMAIN numeric = DOMAIN sizes \cup DOMAIN price
      /\ \A a \in DOMAIN sizes : numeric[a] = sizes[a]
      /\ \A a \in DOMAIN price \ DOMAIN sizes : numeric[a] = price[a]
  BY JoinedKeeps
<1> HIDE DEF numeric
<1>9. ASSUME NEW a \in DOMAIN sizes, sizes[a] = "NO" PROVE FailsNumericFilters(x)
  BY <1>1, <1>8, <1>9 DEF FailsNumericFilters, Having
<1>10. ASSUME NEW side \in {"min", "max"}, request.price[side] # {}, verdict = "NO" PROVE FailsNumericFilters(x)
  <2>1. "price_total" \in DOMAIN numeric /\ numeric["price_total"] = "NO"
    BY <1>4, <1>5, <1>8, <1>10
  <2> QED
    BY <1>1, <2>1 DEF FailsNumericFilters, Having
<1>11. CountsSettled(request, x) \/ FailsNumericFilters(x)
  <2> SUFFICES ASSUME NEW a \in {"bedrooms", "bathrooms"}, Mentions(x, a) # {},
                      \A m \in Mentions(x, a) : ~InRange(m, request.filters[a])
               PROVE  FailsNumericFilters(x)
    BY DEF CountsSettled
  <2>1. Measured(x.listing)
    BY <1>1
  <2>2. a \in DOMAIN MatchSizes(x.listing, request.filters) /\ MatchSizes(x.listing, request.filters)[a] = "NO"
    BY <1>2, <2>1, CountsAreMatched
  <2> QED
    BY <1>1, <1>9, <2>2 DEF sizes
<1>12. PriceSettled(request, x) \/ FailsNumericFilters(x)
  <2> SUFFICES ASSUME OverBudget(request, x) PROVE PriceSettled(request, x) \/ FailsNumericFilters(x)
    BY DEF PriceSettled
  <2>1. verdict = MatchPrice(request.price, ExtractTotalPrice(x.listing), request.nights, of)
    BY <1>1 DEF verdict
  <2> HIDE DEF of, QuotesHold
  <2>2. \/ verdict = "NO"
        \/ AmbiguousScope(request.price, request.nights)
        \/ OtherCurrency(request.price, ExtractTotalPrice(x.listing))
        \/ \E side \in {"min", "max"} :
              request.price[side] # {} /\ NeedsRate(request.price, ExtractTotalPrice(x.listing)) /\ x.quotes[side] = {}
    BY <1>2, <1>6, <1>7, <2>1, PriceIsTold
  <2>3. CASE verdict = "NO"
    <3>1. PICK scope : OutsideAs(request, x, scope)
      BY DEF OverBudget, Scopes
    <3>2. request.price.min # {} \/ request.price.max # {}
      BY <3>1 DEF OutsideAs
    <3> QED
      BY <1>10, <2>3, <3>2
  <2>4. CASE AmbiguousScope(request.price, request.nights)
    BY <2>4 DEF PriceSettled, AmbiguousScope
  <2>5. CASE OtherCurrency(request.price, ExtractTotalPrice(x.listing))
    BY <2>5 DEF PriceSettled
  <2>6. ASSUME NEW side \in {"min", "max"}, request.price[side] # {}, NeedsRate(request.price, ExtractTotalPrice(x.listing)), x.quotes[side] = {}
        PROVE  PriceSettled(request, x)
    BY <1>1, <2>6 DEF PriceSettled
  <2> QED
    BY <2>2, <2>3, <2>4, <2>5, <2>6
<1>13. CardSettled(request, x) \/ FailsNumericFilters(x)
  <2> SUFFICES ASSUME BudgetStatus(request.price, request.nights, l.total) = "over_budget",
                      \A t \in l.total : t.currency = request.price.currency
               PROVE  FailsNumericFilters(x)
    BY <1>1 DEF CardSettled
  <2>1. l.total # {} /\ \A t \in l.total : t.amount \in Int
    BY <1>2 DEF BudgetStatus, Measured
  <2>2. request.price.max # {} /\ MatchPrice(request.price, l.total, request.nights, of) = "NO"
    BY <1>2, <2>1, CardIsMatched
  <2>3. ExtractTotalPrice(l) = l.total
    BY <2>1 DEF ExtractTotalPrice
  <2> QED
    BY <1>10, <2>2, <2>3 DEF verdict
<1> QED
  BY <1>3, <1>11, <1>12, <1>13 DEF Harmless, NumbersSettled, x

-----------------------------------------------------------------------------
(* Nothing that is told of the candidates is lost until they are matched.  *)

Heard(r, l) == Carried(r, l) /\ Measured(l)

ListedInv == \A l \in ToSet(listings) : Heard(request, l)

LEMMA SamplesAreHeard ==
    ASSUME NEW city, NEW checkIn, NEW nights \in Nat
    PROVE  \A l \in ToSet(FixtureCandidates(city, checkIn, nights)) :
              /\ l.of \in DOMAIN Samples
              /\ ListingPhrases(Samples[l.of].listing) \subseteq TextsOf(l.signals)
              /\ Measured(l)
<1> DEFINE fits(i) == Samples[i].city = city /\ CoversDates(Samples[i].window, checkIn, checkIn + nights)
           priced(i) == [Sampled[i] EXCEPT !.total = PriceForStay(Samples[i], nights)]
           all == [i \in DOMAIN Samples |-> priced(i)]
           positions == {i \in DOMAIN Samples : fits(i)}
<1>1. FixtureCandidates(city, checkIn, nights) = FirstItems(Kept(all, positions), MaxItems)
  BY DEF FixtureCandidates
<1>2. ASSUME NEW i \in DOMAIN Samples
      PROVE  /\ priced(i).of = i
             /\ ListingPhrases(Samples[i].listing) \subseteq TextsOf(priced(i).signals)
             /\ Measured(priced(i))
  <2> DEFINE c == Sampled[i]
             total == PriceForStay(Samples[i], nights)
  <2>1. c.of = i /\ ListingPhrases(Samples[i].listing) \subseteq TextsOf(c.signals) /\ Measured(c)
    BY SampledIsTold, SampledIsHeard
  <2>2. {"of", "signals", "bedrooms", "bathrooms", "total", "optionPrice"} \subseteq DOMAIN c
    BY DEF Sampled, Candidate
  <2>3. \A t \in total : t.amount \in Int
    <3>1. /\ Samples[i].price \subseteq Int
          /\ \A w \in Samples[i].window : w.from \in Int /\ w.to \in Int
      <4>1. Samples[i] \in ToSet(Samples)
        BY DEF ToSet
      <4> QED
        BY <4>1, FixturesAssumption
    <3>2. \A t \in total : \E p \in Samples[i].price : \E w \in Samples[i].window :
              w.to > w.from /\ t.amount = Rounded(p * nights, w.to - w.from)
      BY DEF PriceForStay
    <3>3. ASSUME NEW p \in Int, NEW from \in Int, NEW to \in Int, to > from PROVE Rounded(p * nights, to - from) \in Int
      <4>1. p * nights \in Int /\ to - from \in Nat \ {0}
        BY <3>3
      <4> QED
        BY <4>1, RoundedIsNear
    <3> HIDE DEF total
    <3> QED
      BY <3>1, <3>2, <3>3
  <2> HIDE DEF c, total
  <2>4. /\ priced(i).of = c.of /\ priced(i).signals = c.signals /\ priced(i).bedrooms = c.bedrooms
        /\ priced(i).bathrooms = c.bathrooms /\ priced(i).total = total /\ priced(i).optionPrice = c.optionPrice
    BY <2>2 DEF c, total
  <2> HIDE DEF priced
  <2> QED
    BY <2>1, <2>3, <2>4 DEF Measured, Counts
<1> HIDE DEF priced, fits
<1>3. IsList(all) /\ DOMAIN all = DOMAIN Samples
  <2>1. all = [i \in DOMAIN Samples |-> all[i]]
    OBVIOUS
  <2> HIDE DEF all
  <2> QED
    BY <2>1, FixturesAssumption, SamePlacesIsList
<1>4. positions \in SUBSET DOMAIN all
  BY <1>3
<1>5. \A i \in DOMAIN all : all[i] = priced(i)
  OBVIOUS
<1> HIDE DEF all, positions
<1>6. IsList(Kept(all, positions)) /\ ToSet(Kept(all, positions)) \subseteq ToSet(all)
  BY <1>3, <1>4, KeptOfList
<1>7. ToSet(FixtureCandidates(city, checkIn, nights)) \subseteq ToSet(all)
  BY <1>1, <1>6, FixturesAssumption, FirstItemsAreListed
<1>8. \A l \in ToSet(all) : \E i \in DOMAIN Samples : l = priced(i)
  BY <1>3, <1>5 DEF ToSet
<1> QED
  BY <1>2, <1>7, <1>8

LEMMA CollectingHears ==
    ASSUME CandidatesInv, DetailInv, Collect
    PROVE  ListedInv'
<1> DEFINE hotels == HotelIds[offers]
           usable == {k \in DOMAIN hotels : IsListing(detail[hotels[k]].answer)}
           named == Kept(hotels, usable)
           listing(h) == NormalizeListing(h, detail[h].answer)
<1>1. stage = "collecting" /\ UNCHANGED request /\ listings' = [k \in DOMAIN named |-> listing(named[k])]
  BY DEF Collect
<1>2. offers \in RatesReplies \cup {<<>>} /\ request.source = "liteapi"
  BY <1>1 DEF DetailInv, CandidatesInv
<1>3. IsList(hotels) /\ \A k \in DOMAIN hotels : \E i \in DOMAIN offers : hotels[k] = offers[i].hotel
  BY <1>2, HotelIdsAreOffered
<1>4. usable \in SUBSET DOMAIN hotels
  OBVIOUS
<1>5. \A k \in usable : detail[hotels[k]].answer \in DOMAIN Hotels
  BY DEF IsListing
<1> HIDE DEF hotels, usable
<1>6. IsList(named) /\ ToSet(named) = {hotels[k] : k \in usable}
  BY <1>3, <1>4, KeptIsList
<1> HIDE DEF named
<1>7. \A h \in ToSet(named) : /\ detail[h].answer \in DOMAIN Hotels
                              /\ \E i \in DOMAIN offers : h = offers[i].hotel
  BY <1>3, <1>4, <1>5, <1>6
<1>8. ASSUME NEW h, detail[h].answer \in DOMAIN Hotels, NEW i \in DOMAIN offers, h = offers[i].hotel
      PROVE  Heard(request, listing(h))
  <2> DEFINE name == detail[h].answer
             l == NormalizeListing(h, name)
  <2>1. offers \in RatesReplies
    <3>1. DOMAIN <<>> = {}
      OBVIOUS
    <3> QED
      BY <1>2, <1>8, <3>1
  <2>2. OffersOf(offers, h) \in OfferLists
    BY <1>8, <2>1 DEF OfferLists
  <2>3. name \in DOMAIN Hotels
    BY <1>8
  <2> HIDE DEF name
  <2>4. l.of = name /\ StatedPhrases(Hotels[name], l.offered) \subseteq TextsOf(l.signals) /\ Measured(l)
    BY <2>1, <2>2, <2>3, NormalizedIsTold, NormalizedIsHeard
  <2> HIDE DEF l
  <2>5. ToldPhrases(request, l) \subseteq StatedPhrases(Hotels[name], l.offered)
    BY <1>2, <2>4 DEF ToldPhrases
  <2>6. Heard(request, l)
    BY <2>4, <2>5 DEF Heard, Carried
  <2> QED
    BY <2>6 DEF l, name
<1> HIDE DEF listing
<1>9. \A h \in ToSet(named) : Heard(request, listing(h))
  BY <1>7, <1>8
<1>10. DOMAIN listings' = DOMAIN named /\ \A k \in DOMAIN named : listings'[k] = listing(named[k]) /\ named[k] \in ToSet(named)
  BY <1>1 DEF ToSet
<1>11. \A l \in ToSet(listings') : Heard(request, l)
  BY <1>9, <1>10 DEF ToSet
<1> QED
  BY <1>1, <1>11 DEF ListedInv, Heard, Carried, ToldPhrases


LEMMA MergingHears ==
    ASSUME CandidatesInv, MergeActors
    PROVE  ListedInv'
<1>1. stage = "scraping" /\ UNCHANGED request /\ listings' = [k \in DOMAIN Merged |-> Scrapings[Merged[k]]]
  BY DEF MergeActors
<1>2. request.source = "apify" /\ ToSet(Merged) \subseteq DOMAIN Items
  BY <1>1, MergedAreItems DEF CandidatesInv
<1>3. \A name \in DOMAIN Items : Heard(request, Scrapings[name])
  <2> TAKE name \in DOMAIN Items
  <2> DEFINE l == Scrapings[name]
  <2>1. l.of = name /\ ItemPhrases(Items[name]) \subseteq TextsOf(l.signals) /\ Measured(l)
    BY ScrapedIsTold, ScrapedIsHeard
  <2> HIDE DEF l
  <2>2. ToldPhrases(request, l) \subseteq ItemPhrases(Items[name])
    BY <1>2, <2>1 DEF ToldPhrases
  <2>3. Heard(request, l)
    BY <2>1, <2>2 DEF Heard, Carried
  <2> QED
    BY <2>3 DEF l
<1>4. DOMAIN listings' = DOMAIN Merged /\ \A k \in DOMAIN Merged : listings'[k] = Scrapings[Merged[k]] /\ Merged[k] \in DOMAIN Items
  BY <1>1, <1>2 DEF ToSet
<1>5. \A l \in ToSet(listings') : Heard(request, l)
  BY <1>3, <1>4 DEF ToSet
<1> QED
  BY <1>1, <1>5 DEF ListedInv, Heard, Carried, ToldPhrases

LEMMA GettingHears ==
    ASSUME ListedInv, Scalars, GetCandidates
    PROVE  ListedInv'
<1>1. UNCHANGED request
  BY DEF GetCandidates
<1>2. CASE UNCHANGED listings
  BY <1>1, <1>2 DEF ListedInv, Heard, Carried, ToldPhrases
<1>3. CASE request.source = "fixtures" /\ listings' = FixtureCandidates(request.city, request.checkIn, request.nights)
  <2> DEFINE found == FixtureCandidates(request.city, request.checkIn, request.nights)
  <2>1. request.nights \in Nat
    BY SearchAssumption DEF Scalars, IsRequest
  <2>2. \A l \in ToSet(found) :
            ListingPhrases(Samples[l.of].listing) \subseteq TextsOf(l.signals) /\ Measured(l)
    BY <2>1, SamplesAreHeard
  <2>3. listings' = found
    BY <1>3
  <2> HIDE DEF found
  <2>4. \A l \in ToSet(found) : ToldPhrases(request, l) \subseteq ListingPhrases(Samples[l.of].listing)
    BY <1>3 DEF ToldPhrases
  <2>5. \A l \in ToSet(found) : Heard(request, l)
    BY <2>2, <2>4 DEF Heard, Carried
  <2> QED
    BY <1>1, <2>3, <2>5 DEF ListedInv, Heard, Carried, ToldPhrases
<1> QED
  BY <1>2, <1>3 DEF GetCandidates

LEMMA MatchingHears ==
    ASSUME CandidatesInv, ListedInv, MatchListing
    PROVE  ListedInv'
<1>1. listings # <<>> /\ listings' = Tail(listings) /\ UNCHANGED request
  BY DEF MatchListing
<1>2. ToSet(listings') \subseteq ToSet(listings)
  <2>1. listings \in Seq(ToSet(listings))
    BY DEF CandidatesInv, IsList
  <2> DEFINE S == ToSet(listings)
  <2> HIDE DEF S
  <2>2. Tail(listings) \in Seq(S)
    BY <1>1, <2>1 DEF S
  <2>3. ToSet(Tail(listings)) \subseteq S
    BY <2>2 DEF ToSet
  <2> QED
    BY <1>1, <2>3 DEF S
<1> QED
  BY <1>1, <1>2 DEF ListedInv, Heard, Carried, ToldPhrases

LEMMA RestHears ==
    ASSUME ListedInv, UNCHANGED <<request, listings>>
    PROVE  ListedInv'
BY DEF ListedInv, Heard, Carried, ToldPhrases

LEMMA RetrievalHears ==
    ASSUME CandidatesInv, DetailInv, ListedInv, RetrievalStep \/ DeadlinePasses \/ ProviderStep
    PROVE  ListedInv'
<1>1. CASE Refuse \/ Misconfigured \/ AskRates \/ RatesTimeOut \/ RatesRetry
  BY <1>1, RestHears DEF Refuse, Misconfigured, AskRates, RatesTimeOut, RatesRetry, Fail
<1>2. CASE CollectFails
  BY <1>2, RestHears DEF CollectFails, Fail
<1>3. CASE DeadlinePasses \/ BeginDetail \/ EndDetails
  BY <1>3, RestHears DEF DeadlinePasses, BeginDetail, EndDetails
<1>4. ASSUME NEW fault, RatesFault(fault) PROVE ListedInv'
  BY <1>4, RestHears DEF RatesFault, Fail
<1>5. ASSUME NEW code, RatesRejected(code) PROVE ListedInv'
  BY <1>5, RestHears DEF RatesRejected, Fail
<1>6. ASSUME NEW reply, RatesArrive(reply) PROVE ListedInv'
  BY <1>6, RestHears DEF RatesArrive
<1>7. ASSUME NEW h, DetailRetry(h) PROVE ListedInv'
  BY <1>7, RestHears DEF DetailRetry
<1>8. ASSUME NEW h, NEW x, DetailFault(h, x) \/ DetailArrives(h, x) PROVE ListedInv'
  BY <1>8, RestHears DEF DetailFault, DetailArrives
<1>9. CASE Collect
  BY <1>9, CollectingHears
<1> QED
  BY <1>1, <1>2, <1>3, <1>4, <1>5, <1>6, <1>7, <1>8, <1>9 DEF RetrievalStep, ProviderStep

LEMMA ScrapingHears ==
    ASSUME CandidatesInv, ListedInv, ScrapingStep
    PROVE  ListedInv'
<1>1. CASE NoToken
  BY <1>1, RestHears DEF NoToken, Fail
<1>2. CASE MergeActors
  BY <1>2, MergingHears
<1>3. ASSUME NEW i, NEW code, ActorFails(i, code) PROVE ListedInv'
  BY <1>3, RestHears DEF ActorFails, Fail
<1>4. ASSUME NEW i, ActorEndsLate(i) PROVE ListedInv'
  BY <1>4, RestHears DEF ActorEndsLate, retrievalVars
<1>5. ASSUME NEW i, NEW reply, ActorReturns(i, reply) PROVE ListedInv'
  BY <1>5, RestHears DEF ActorReturns, retrievalVars
<1> QED
  BY <1>1, <1>2, <1>3, <1>4, <1>5 DEF ScrapingStep, ActorStep

LEMMA EvaluatingHears ==
    ASSUME CandidatesInv, ListedInv, EvaluationStep \/ Tick
    PROVE  ListedInv'
<1>1. ASSUME NEW got, Convert(got) PROVE ListedInv'
  BY <1>1, RestHears DEF Convert, retrievalVars
<1>2. CASE ConvertRaises \/ AskRaises \/ Tick
  BY <1>2, RestHears DEF ConvertRaises, AskRaises, Tick, Fail, retrievalVars
<1>3. ASSUME NEW answer, Ask(answer) PROVE ListedInv'
  BY <1>3, RestHears DEF Ask, retrievalVars
<1>4. CASE RankStructured \/ ScoreResolutions \/ FilterAndSort \/ GradeItems \/ SelectItems
  BY <1>4, RestHears DEF RankStructured, ScoreResolutions, FilterAndSort, GradeItems, SelectItems, retrievalVars
<1> QED
  BY <1>1, <1>2, <1>3, <1>4, MatchingHears DEF EvaluationStep

LEMMA AnsweringHears ==
    ASSUME ListedInv, AnswerStep \/ AskAboutShown \/ UNCHANGED vars
    PROVE  ListedInv'
<1>1. CASE ComposeAnswer \/ WordAnswer \/ WordingFails \/ AnswerFailure
  BY <1>1, RestHears DEF ComposeAnswer, WordAnswer, WordingFails, AnswerFailure, retrievalVars
<1>2. ASSUME NEW facts, ExtractFacts(facts) PROVE ListedInv'
  BY <1>2, RestHears DEF ExtractFacts, retrievalVars
<1>3. CASE ExtractionFails \/ Reply \/ AskAboutShown
  BY <1>3, RestHears DEF ExtractionFails, Reply, AskAboutShown, retrievalVars
<1>4. ASSUME NEW said, AskFact(said) PROVE ListedInv'
  BY <1>4, RestHears DEF AskFact, searchVars, retrievalVars
<1>5. CASE QuestionRaises \/ ReplyRaises
  BY <1>5, RestHears DEF QuestionRaises, ReplyRaises, Fail
<1>6. CASE UNCHANGED vars
  BY <1>6, RestHears DEF vars, searchVars, retrievalVars
<1> QED
  BY <1>1, <1>2, <1>3, <1>4, <1>5, <1>6 DEF AnswerStep

LEMMA StepHears ==
    ASSUME CandidatesInv, ListedInv, Scalars, DetailInv, [Next]_vars
    PROVE  ListedInv'
<1>1. CASE SearchNext
  BY <1>1, RetrievalHears, GettingHears, ScrapingHears, EvaluatingHears DEF SearchNext, Retrieving, FromLiteApi
<1> QED
  BY <1>1, AnsweringHears DEF Next, Searching


-----------------------------------------------------------------------------
(* Nothing is known against what is kept, ranked and shown.                *)

ShownInv ==
    /\ \A x \in ToSet(items) : Harmless(request, x) /\ (stage \in {"ranked", "graded"} => ~Rejected(x))
    /\ \A x \in ToSet(shown) : Harmless(request, x) /\ ~Rejected(x)

(* What a step does that evaluates nothing, or forgets what was shown.     *)
ShownRests ==
    /\ UNCHANGED <<request, items>>
    /\ shown' \in {shown, <<>>}
    /\ stage' = stage \/ stage' \notin {"ranked", "graded"}

LEMMA RestKeepsShown ==
    ASSUME ShownInv, ShownRests
    PROVE  ShownInv'
<1>1. ToSet(shown') \subseteq ToSet(shown) /\ ToSet(items') = ToSet(items) /\ request' = request
  BY NoListing DEF ShownRests
<1>2. stage' \in {"ranked", "graded"} => stage \in {"ranked", "graded"}
  BY DEF ShownRests
<1>3. \A x : Rejected(x)' <=> Rejected(x)
  BY <1>1 DEF Rejected
<1> QED
  BY <1>1, <1>2, <1>3 DEF ShownInv

LEMMA NewItemsKeepShown ==
    ASSUME ShownInv, UNCHANGED <<request, shown>>,
           \A x \in ToSet(items') : Harmless(request, x) /\ (stage' \in {"ranked", "graded"} => ~Rejected(x))
    PROVE  ShownInv'
<1>1. \A x : Rejected(x)' <=> Rejected(x)
  BY DEF Rejected
<1> QED
  BY <1>1 DEF ShownInv

LEMMA MatchingKeepsShown ==
    ASSUME ShownInv, ListedInv, EvidenceInv, EvaluationInv, Scalars, CandidatesInv, MatchListing
    PROVE  ShownInv'
<1> DEFINE l == Head(listings)
           item == Matched(l)
           score == StructuredScore(request, item)
           scored == [item EXCEPT !.score = score]
<1>1. /\ stage = "retrieved" /\ listings # <<>> /\ Unconverted = {} /\ UNCHANGED <<request, stage, shown>>
      /\ \/ items' = items
         \/ ~FailsMust(request, item) /\ ~FailsForbidden(request, item) /\ items' = Append(items, scored)
  BY DEF MatchListing
<1>2. Grounded(request, l) /\ Carried(request, l) /\ Measured(l)
  <2>1. IsList(listings)
    BY DEF CandidatesInv
  <2>2. l \in ToSet(listings)
    <3>1. 1 \in DOMAIN listings
      BY <1>1, <2>1, ListShape DEF IsList
    <3> QED
      BY <3>1 DEF ToSet
  <2> QED
    BY <2>2 DEF CandidatesInv, ListedInv, Heard
<1>3. \A side \in {"min", "max"} :
          request.price[side] # {} /\ NeedsRate(request.price, ExtractTotalPrice(l)) => side \in DOMAIN quotes
  BY <1>1 DEF Unconverted
<1>4. request \in Requests /\ QuotesHold
  BY DEF Scalars, EvidenceInv
<1> HIDE DEF l
<1>5. IsItem(request, item)
  BY <1>4, MatchedIsAnItem
<1>6. CASE items' = items
  BY <1>1, <1>6, RestKeepsShown DEF ShownRests
<1>7. CASE ~FailsMust(request, item) /\ ~FailsForbidden(request, item) /\ items' = Append(items, scored)
  <2>1. Harmless(request, item)
    BY <1>2, <1>3, <1>4, <1>7, MatchedIsHarmless
  <2> HIDE DEF item, score
  <2>2. SameEvidence(item, scored)
    BY <1>5 DEF IsItem, ItemFields, SameEvidence
  <2> HIDE DEF scored
  <2>3. Harmless(request, scored)
    BY <2>1, <2>2, HarmlessStays
  <2>4. ToSet(items') \subseteq ToSet(items) \cup {scored}
    BY <1>7, AppendIsList DEF EvaluationInv
  <2>5. \A x \in ToSet(items') : Harmless(request, x) /\ (stage' \in {"ranked", "graded"} => ~Rejected(x))
    BY <1>1, <2>3, <2>4 DEF ShownInv
  <2> QED
    BY <1>1, <2>5, NewItemsKeepShown
<1> QED
  BY <1>1, <1>6, <1>7

LEMMA AskingKeepsShown ==
    ASSUME ShownInv, EvaluationInv, NEW answer, Ask(answer)
    PROVE  ShownInv'
<1>1. PICK k \in OpenItems : \E c \in Questions(k) :
          items' = [items EXCEPT ![k].results = Joined(@, [d \in {c} |->
                                     Resolve(Analyses[answer], request.constraints[c], items[k].listing)]),
                                 ![k].said = Joined(@, [d \in {c} |-> answer])]
  BY DEF Ask
<1>2. PICK c \in Questions(k) :
          items' = [items EXCEPT ![k].results = Joined(@, [d \in {c} |->
                                     Resolve(Analyses[answer], request.constraints[c], items[k].listing)]),
                                 ![k].said = Joined(@, [d \in {c} |-> answer])]
  BY <1>1
<1> DEFINE item == items[k]
           results == Joined(item.results, [d \in {c} |->
                                 Resolve(Analyses[answer], request.constraints[c], item.listing)])
           said == Joined(item.said, [d \in {c} |-> answer])
           asked == [item EXCEPT !.results = results, !.said = said]
<1>3. stage = "asking" /\ UNCHANGED <<request, stage, shown>>
  BY DEF Ask, retrievalVars
<1>4. k \in DOMAIN items /\ items[k] \in ToSet(items) /\ IsItem(request, items[k])
  BY DEF OpenItems, EvaluationInv, ToSet
<1>5. items' = [items EXCEPT ![k] = asked]
  BY <1>2, <1>4
<1>6. SameEvidence(items[k], asked)
  BY <1>4 DEF IsItem, ItemFields, SameEvidence
<1> HIDE DEF asked
<1>7. Harmless(request, asked)
  BY <1>4, <1>6, HarmlessStays DEF ShownInv
<1>8. ToSet(items') \subseteq ToSet(items) \cup {asked}
  BY <1>5 DEF ToSet
<1>9. \A x \in ToSet(items') : Harmless(request, x) /\ (stage' \in {"ranked", "graded"} => ~Rejected(x))
  BY <1>3, <1>7, <1>8 DEF ShownInv
<1> QED
  BY <1>3, <1>9, NewItemsKeepShown

LEMMA RankingKeepsShown ==
    ASSUME ShownInv, EvaluationInv, RankStructured
    PROVE  ShownInv'
<1>1. stage' = "asking" /\ items' = SortedByScore(items) /\ UNCHANGED <<request, shown>>
  BY DEF RankStructured, retrievalVars
<1>2. IsList(items) /\ ScoresAreNumbers(items)
  BY DEF EvaluationInv, ScoresAreNumbers, ToSet, IsItem
<1>3. ToSet(items') = ToSet(items)
  BY <1>1, <1>2, SortedIsAList
<1>4. \A x \in ToSet(items') : Harmless(request, x) /\ (stage' \in {"ranked", "graded"} => ~Rejected(x))
  BY <1>1, <1>3 DEF ShownInv
<1> QED
  BY <1>1, <1>4, NewItemsKeepShown

LEMMA ScoringKeepsShown ==
    ASSUME ShownInv, EvaluationInv, ScoreResolutions
    PROVE  ShownInv'
<1> DEFINE ensured(k) == EnsureRepresented(request, items[k])
           scored(item) == [item EXCEPT !.score = @ + ResolutionDelta(request, item)]
<1>1. /\ stage' = "scored" /\ UNCHANGED <<request, shown>>
      /\ items' = [k \in DOMAIN items |-> scored(ensured(k))]
  BY DEF ScoreResolutions, retrievalVars
<1>2. \A k \in DOMAIN items : IsItem(request, items[k]) /\ Harmless(request, items[k])
  BY DEF EvaluationInv, ShownInv, ToSet
<1>3. ASSUME NEW x, IsItem(request, x), Harmless(request, x)
      PROVE  Harmless(request, scored(EnsureRepresented(request, x)))
  <2> DEFINE y == EnsureRepresented(request, x)
             z == scored(y)
  <2>1. IsItem(request, y)
    BY <1>3, EnsuredIsRepresented
  <2>2. SameEvidence(x, y)
    BY <1>3 DEF IsItem, ItemFields, SameEvidence, EnsureRepresented
  <2> HIDE DEF y
  <2>3. SameEvidence(y, z)
    BY <2>1 DEF IsItem, ItemFields, SameEvidence
  <2> HIDE DEF z
  <2>4. Harmless(request, z)
    BY <1>3, <2>2, <2>3, HarmlessStays
  <2> QED
    BY <2>4 DEF z, y
<1> HIDE DEF scored
<1>4. \A k \in DOMAIN items : Harmless(request, scored(ensured(k)))
  BY <1>2, <1>3
<1> HIDE DEF ensured
<1>5. DOMAIN items' = DOMAIN items /\ \A k \in DOMAIN items : items'[k] = scored(ensured(k))
  BY <1>1
<1>6. \A x \in ToSet(items') : Harmless(request, x) /\ (stage' \in {"ranked", "graded"} => ~Rejected(x))
  BY <1>1, <1>4, <1>5 DEF ToSet
<1> QED
  BY <1>1, <1>6, NewItemsKeepShown

LEMMA FilteringKeepsShown ==
    ASSUME ShownInv, EvaluationInv, FilterAndSort
    PROVE  ShownInv'
<1> DEFINE positions == {k \in DOMAIN items : ~Rejected(items[k])}
           kept == Kept(items, positions)
<1>1. UNCHANGED <<request, shown>> /\ items' = SortedByScore(kept)
  BY DEF FilterAndSort, retrievalVars
<1>2. IsList(items) /\ positions \in SUBSET DOMAIN items /\ \A k \in positions : ~Rejected(items[k])
  BY DEF EvaluationInv
<1> HIDE DEF positions
<1>3. IsList(kept) /\ ToSet(kept) = {items[k] : k \in positions}
  BY <1>2, KeptIsList
<1>4. \A x \in ToSet(kept) : x \in ToSet(items) /\ ~Rejected(x)
  BY <1>2, <1>3 DEF ToSet
<1>5. ScoresAreNumbers(kept)
  BY <1>4 DEF ScoresAreNumbers, EvaluationInv, IsItem, ToSet
<1> HIDE DEF kept
<1>6. ToSet(items') = ToSet(kept)
  BY <1>1, <1>3, <1>5, SortedIsAList
<1>7. \A x \in ToSet(items') : Harmless(request, x) /\ (stage' \in {"ranked", "graded"} => ~Rejected(x))
  BY <1>4, <1>6 DEF ShownInv
<1> QED
  BY <1>1, <1>7, NewItemsKeepShown

LEMMA GradingKeepsShown ==
    ASSUME ShownInv, EvaluationInv, GradeItems
    PROVE  ShownInv'
<1> DEFINE positions == {k \in DOMAIN items : MatchTier(request, items[k]) # "ineligible"}
           kept == Kept(items, positions)
           graded(x) == [x EXCEPT !.tier = MatchTier(request, x)]
<1>1. /\ stage = "ranked" /\ UNCHANGED <<request, shown>>
      /\ items' = [k \in DOMAIN kept |-> graded(kept[k])]
  BY DEF GradeItems, Graded, retrievalVars
<1>2. IsList(items) /\ positions \in SUBSET DOMAIN items
  BY DEF EvaluationInv
<1> HIDE DEF positions
<1>3. ToSet(kept) \subseteq ToSet(items)
  BY <1>2, KeptIsList DEF ToSet
<1>4. \A x \in ToSet(items) : IsItem(request, x) /\ Harmless(request, x) /\ ~Rejected(x)
  BY <1>1 DEF ShownInv, EvaluationInv
<1> HIDE DEF kept
<1>5. ASSUME NEW x, IsItem(request, x), Harmless(request, x), ~Rejected(x)
      PROVE  Harmless(request, graded(x)) /\ ~Rejected(graded(x))
  <2> DEFINE y == graded(x)
  <2>1. y.results = x.results /\ SameEvidence(x, y)
    BY <1>5, TierOfGraded
  <2> HIDE DEF y
  <2>2. Harmless(request, y)
    BY <1>5, <2>1, HarmlessStays
  <2>3. ~Rejected(y)
    BY <1>5, <2>1 DEF SameEvidence, Rejected, FailsNumericFilters, FailsConstraintResolution
  <2> QED
    BY <2>2, <2>3 DEF y
<1> HIDE DEF graded
<1>6. \A k \in DOMAIN kept : kept[k] \in ToSet(items)
  BY <1>3 DEF ToSet
<1>7. DOMAIN items' = DOMAIN kept /\ \A k \in DOMAIN kept : items'[k] = graded(kept[k])
  BY <1>1
<1>8. \A x \in ToSet(items') : Harmless(request, x) /\ (stage' \in {"ranked", "graded"} => ~Rejected(x))
  BY <1>4, <1>5, <1>6, <1>7 DEF ToSet
<1> QED
  BY <1>1, <1>8, NewItemsKeepShown

LEMMA SelectingKeepsShown ==
    ASSUME ShownInv, EvaluationInv, Scalars, SelectItems
    PROVE  ShownInv'
<1> DEFINE n == IF Len(items) < ResultLimit THEN Len(items) ELSE ResultLimit
<1>1. /\ stage = "graded" /\ UNCHANGED request
      /\ items' = <<>> /\ shown' = SubSeq(Ranked(request, items), 1, n)
  BY DEF SelectItems, Select, retrievalVars
<1>2. IsList(items) /\ ScoresAreNumbers(items) /\ TiersAreNamed(items)
  BY <1>1 DEF EvaluationInv, ScoresAreNumbers, TiersAreNamed, ToSet, IsItem
<1>3. request.types \in Seq(STRING)
  BY SearchAssumption DEF Scalars, IsRequest
<1>4. /\ IsList(Ranked(request, items)) /\ Len(Ranked(request, items)) = Len(items)
      /\ ToSet(Ranked(request, items)) = ToSet(items)
  BY <1>2, <1>3, RankedIsAList
<1>5. n \in 0 .. Len(Ranked(request, items))
  BY <1>2, <1>4, ListShape, SearchAssumption
<1> HIDE DEF n
<1>6. ToSet(shown') \subseteq ToSet(items)
  BY <1>1, <1>4, <1>5, PrefixIsList
<1>7. \A x \in ToSet(shown') : Harmless(request, x) /\ ~Rejected(x)
  BY <1>1, <1>6 DEF ShownInv
<1>8. ToSet(items') = {}
  BY <1>1, NoListing
<1>9. \A x : Rejected(x)' <=> Rejected(x)
  BY <1>1 DEF Rejected
<1> QED
  BY <1>1, <1>7, <1>8, <1>9 DEF ShownInv

LEMMA StepKeepsShown ==
    ASSUME ShownInv, ListedInv, EvidenceInv, EvaluationInv, Scalars, CandidatesInv, [Next]_vars
    PROVE  ShownInv'
<1>1. ASSUME EvaluationRests PROVE ShownInv'
  BY <1>1, RestKeepsShown DEF EvaluationRests, ShownRests
<1>2. ASSUME RetrievalStep \/ DeadlinePasses \/ ProviderStep \/ GetCandidates \/ ScrapingStep, UNCHANGED evaluationVars
      PROVE  ShownInv'
  BY <1>1, <1>2, RetrievalEvaluatesNothing
<1>3. CASE ConvertRaises \/ AskRaises \/ Tick
  BY <1>1, <1>3 DEF ConvertRaises, AskRaises, Tick, Fail, retrievalVars, evaluationVars, EvaluationRests
<1>4. ASSUME NEW got, Convert(got) PROVE ShownInv'
  BY <1>1, <1>4 DEF Convert, retrievalVars, EvaluationRests
<1>5. CASE EvaluationStep \/ Tick
  BY <1>3, <1>4, <1>5, MatchingKeepsShown, AskingKeepsShown, RankingKeepsShown,
     ScoringKeepsShown, FilteringKeepsShown, GradingKeepsShown, SelectingKeepsShown DEF EvaluationStep
<1>6. CASE ComposeAnswer
  BY <1>6, RestKeepsShown DEF ComposeAnswer, ShownRests
<1>7. CASE AskAboutShown
  BY <1>7, RestKeepsShown DEF AskAboutShown, ShownRests, retrievalVars
<1>8. CASE AnswerStep
  BY <1>1, <1>6, <1>8, AnswerEvaluatesNothing
<1>9. CASE UNCHANGED vars
  BY <1>1, <1>9 DEF vars, searchVars, retrievalVars, evaluationVars, EvaluationRests
<1> QED
  BY <1>2, <1>5, <1>7, <1>8, <1>9 DEF Next, Searching, SearchNext, Retrieving, FromLiteApi

LEMMA NothingIsKnownAgainstShown ==
    ASSUME ShownInv, AnswerInv
    PROVE  NoKnownViolationShown
<1>1. ASSUME NEW x \in ToSet(shown)
      PROVE  /\ FieldsSettled(request, x) /\ CountsSettled(request, x) /\ PriceSettled(request, x) /\ CardSettled(request, x)
             /\ \A c \in DOMAIN x.results : x.results[c] # ViolatingDecision(request.constraints[c])
  <2>1. Harmless(request, x) /\ ~FailsNumericFilters(x) /\ ~FailsConstraintResolution(request, x)
    BY DEF ShownInv, Rejected
  <2> QED
    BY <2>1 DEF Harmless, NumbersSettled, FailsConstraintResolution
<1>2. ASSUME NEW card \in ToSet(cards), card.budget = "over_budget"
      PROVE  \E t \in card.total : t.currency # request.price.currency
  <2>1. cards = CardsOfShown
    BY <1>2, NoListing DEF AnswerInv
  <2>2. PICK k \in DOMAIN shown : card = AnswerCard(request, shown[k], k)
    BY <2>1 DEF CardsOfShown, ToSet
  <2>3. /\ card.total = shown[k].listing.total
        /\ card.budget = BudgetStatus(request.price, request.nights, shown[k].listing.total)
    BY <2>2 DEF AnswerCard
  <2>4. CardSettled(request, shown[k])
    BY <1>1 DEF ToSet
  <2> QED
    BY <1>2, <2>3, <2>4 DEF CardSettled
<1>3. \A item \in ToSet(shown) :
          /\ \A b \in BlockingFields(request) : Contrary(request, item.listing, b[1], b[2]) => Disputed(request, item.listing, b[1], b[2])
          /\ \A c \in DOMAIN item.results : item.results[c] # ViolatingDecision(request.constraints[c])
          /\ OverBudget(request, item) =>
                \/ request.price.scope = "none" /\ request.nights > 1
                \/ \E side \in DOMAIN item.quotes : item.quotes[side] = {}
                \/ OtherCurrency(request.price, ExtractTotalPrice(item.listing))
          /\ \A a \in {"bedrooms", "bathrooms"} :
                Mentions(item, a) # {} => \E x \in Mentions(item, a) : InRange(x, request.filters[a])
  <2> TAKE item \in ToSet(shown)
  <2>1. \A b \in BlockingFields(request) : Contrary(request, item.listing, b[1], b[2]) => Disputed(request, item.listing, b[1], b[2])
    BY <1>1 DEF FieldsSettled
  <2>2. \A c \in DOMAIN item.results : item.results[c] # ViolatingDecision(request.constraints[c])
    BY <1>1
  <2>3. OverBudget(request, item) =>
        \/ request.price.scope = "none" /\ request.nights > 1
        \/ \E side \in DOMAIN item.quotes : item.quotes[side] = {}
        \/ OtherCurrency(request.price, ExtractTotalPrice(item.listing))
    BY <1>1 DEF PriceSettled
  <2>4. \A a \in {"bedrooms", "bathrooms"} :
            Mentions(item, a) # {} => \E x \in Mentions(item, a) : InRange(x, request.filters[a])
    BY <1>1 DEF CountsSettled
  <2> QED
    BY ONLY <2>1, <2>2, <2>3, <2>4
<1>4. \A card \in ToSet(cards) : card.budget = "over_budget" => \E t \in card.total : t.currency # request.price.currency
  BY <1>2
<1> QED
  BY ONLY <1>3, <1>4 DEF NoKnownViolationShown

(* The evidence for what is kept, together with what is told against it:   *)
(* all of it is in the candidates' signals until they are matched, and     *)
(* none of it is left against an item but what the filters will see.       *)
ShownIInv == EvidenceIInv /\ ListedInv /\ ShownInv

LEMMA InitShownIInv ==
    ASSUME Init
    PROVE  ShownIInv
<1>1. listings = <<>> /\ items = <<>> /\ shown = <<>>
  BY DEF Init, InitSearch, InitRetrieval
<1>2. ListedInv /\ ShownInv
  BY <1>1, NoListing DEF ListedInv, ShownInv
<1> QED
  BY <1>2, InitEvidenceIInv DEF ShownIInv

LEMMA NextShownIInv ==
    ASSUME ShownIInv, [Next]_vars
    PROVE  ShownIInv'
<1>1. /\ EvidenceIInv /\ ListedInv /\ ShownInv
      /\ TypeInv /\ CandidatesInv /\ EvidenceInv /\ Scalars /\ DetailInv /\ EvaluationInv
  BY DEF ShownIInv, EvidenceIInv, TypeInv, RetrievalInv
<1>2. EvidenceIInv'
  BY <1>1, NextEvidenceIInv
<1>3. ListedInv'
  BY <1>1, StepHears
<1>4. ShownInv'
  BY <1>1, StepKeepsShown
<1> QED
  BY <1>2, <1>3, <1>4 DEF ShownIInv

(* A shown listing has nothing known against it (match_listing_structured, *)
(* match_forbidden_fields, evaluate_numeric_filters, the final filters of  *)
(* evaluate_listings, _build_budget_summary).  Whatever the payloads, the  *)
(* request, the rates and the LLM's answers: what a text of it denies or   *)
(* states against a blocking field is disputed by another text, a count    *)
(* it gives of bedrooms or bathrooms fits the range asked for, its price   *)
(* is within the budget wherever the two can be compared, and no card      *)
(* calls it over budget, unless it compares two currencies.                *)
THEOREM NothingKnownAgainstShown == Spec => []NoKnownViolationShown
<1>1. Init => ShownIInv
  BY InitShownIInv
<1>2. ShownIInv /\ [Next]_vars => ShownIInv'
  BY NextShownIInv
<1>3. ShownIInv => NoKnownViolationShown
  BY NothingIsKnownAgainstShown DEF ShownIInv, EvidenceIInv, TypeInv
<1> QED
  BY <1>1, <1>2, <1>3, PTL DEF Spec
=============================================================================
