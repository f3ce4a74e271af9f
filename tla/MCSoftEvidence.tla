--------------------------- MODULE MCSoftEvidence ---------------------------
(* Three listings, two of them in scope; batches of three texts, of which   *)
(* the first pool needs two.                                               *)
EXTENDS SoftEvidence

Asks(priority, families) ==
    [priority |-> priority, known |-> FALSE, fields |-> <<>>, strategy |-> "textual", families |-> families]

MCRequests ==
    {<<Asks("must", {"quiet"})>>,
     <<Asks("nice", {"remote_work"})>>,
     <<Asks("must", {"family_friendly"}), Asks("must", {})>>,
     <<Asks("forbidden", {"nightlife"}), Asks("nice", {"cleanliness"})>>}

Facility(name, overview) == [name |-> name, overview |-> overview]
Silent ==
    [name |-> "", type |-> "", description |-> <<>>, finePrint |-> "", facilities |-> <<>>, rooms |-> <<>>,
     highlights |-> <<>>, policies |-> <<>>, pros |-> <<>>, cons |-> <<>>]

MCListings ==
    <<[Silent EXCEPT !.facilities = <<Facility("soundproofing", "desk")>>, !.pros = <<"">>, !.cons = <<"report">>,
                     !.policies = <<[title |-> "title", content |-> ""]>>],
      [Silent EXCEPT !.rooms = <<[name |-> "", beds |-> <<>>, facilities |-> <<Facility("desk", "calm")>>, options |-> <<>>]>>,
                     !.highlights = <<[header |-> "", contents |-> <<"calm">>]>>],
      [Silent EXCEPT !.facilities = <<Facility("desk", ""), Facility("soundproofing", "")>>]>>

MCScore ==
    [c \in {CanonicalClaimOrder[i] : i \in 1 .. MaxClaims} |->
        [t \in {"soundproofing", "calm", "report", "desk", "title"} |->
            CASE t = "soundproofing" -> IF c = "Q1" THEN 9 ELSE 1
              [] t = "desk" -> IF c = "RW1" THEN 9 ELSE 1
              [] t = "title" -> 8
              [] t = "calm" -> 5
              [] t = "report" -> IF c \in {"Q3", "FAM1"} THEN 7 ELSE 4]]
=============================================================================
