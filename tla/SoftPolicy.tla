----------------------------- MODULE SoftPolicy -----------------------------
(***************************************************************************)
(* How the evidence about the atomic claims of a soft preference ("quiet", *)
(* "good for remote work") becomes a decision about one listing:           *)
(* soft_preference_decomposition.py, the aggregation in                    *)
(* schemas/soft_evidence.py and soft_constraint_decision_policy.py.  Only  *)
(* operators: SoftEvidence composes them with the calls that produce the   *)
(* evidence.                                                               *)
(*                                                                         *)
(* A claim result is [relation, status, items]; a claim that was not       *)
(* evaluated is not in the domain of the results.  The family names stand  *)
(* for the keywords that select them, and reasons, labels and notes, which *)
(* no decision reads, are left out.                                        *)
(***************************************************************************)
EXTENDS Naturals, Sequences

Relations == {"SUPPORT", "CONTRADICT", "NOT_ENOUGH_EVIDENCE"}
ClaimRelations == Relations \cup {"MIXED"}
RetrievalStatuses == {"SUCCESS", "PARTIAL", "FAILED"}
FactualStates == {"SATISFIED", "VIOLATED", "UNRESOLVED"}

(* The claims of a family, and the fixed order in which claims are planned. *)
ClaimsOf ==
    [quiet |-> {"Q1", "Q2", "Q3"}, remote_work |-> {"RW1", "RW2A", "RW2B"},
     family_friendly |-> {"FC1", "FAM1"}, breakfast_quality |-> {"BQ1"},
     cleanliness |-> {"CL1"}, nightlife |-> {"NL1"}, bed_comfort |-> {"BC1"}]

Families == DOMAIN ClaimsOf

CanonicalClaimOrder ==
    <<"BC1", "BQ1", "CL1", "FAM1", "FC1", "NL1", "Q1", "Q2", "Q3", "RW1", "RW2A", "RW2B">>

MaxClaims == Len(CanonicalClaimOrder)

(* decompose_constraints: the claims of every family of every constraint. *)
Decompose(constraints) ==
    UNION {ClaimsOf[f] : f \in UNION {constraints[i].families : i \in DOMAIN constraints}}

(* A tag that names the claim settles it without a model; any other tag,   *)
(* and any text that is not a guest's for a claim about guests' reports,   *)
(* is not evidence and never reaches the verifier.                         *)
Aliases(c) ==
    CASE c = "RW1" -> {"desk"}
      [] c = "RW2A" -> {"free wifi"}
      [] c = "Q1" -> {"soundproofing", "soundproof rooms"}
      [] OTHER -> {}

NeedsGuestReport(c) == c = "Q3"

Unroutable(c, e) == NeedsGuestReport(c) /\ e.source # "review_summary"

StructuredTag(e) == e.source \in {"facilities", "room_facilities"} /\ e.tag

Deterministic(c, e) == Unroutable(c, e) \/ StructuredTag(e)

TagRelation(c, e) ==
    IF ~Unroutable(c, e) /\ e.text \in Aliases(c) THEN "SUPPORT" ELSE "NOT_ENOUGH_EVIDENCE"

(* aggregate_claim_relation: only resolved items vote.  An item is the     *)
(* relation it was resolved to, or why it was not.                         *)
Aggregate(items) ==
    LET votes == {items[i] : i \in DOMAIN items} \cap {"SUPPORT", "CONTRADICT"}
    IN  CASE votes = {"SUPPORT", "CONTRADICT"} -> "MIXED"
          [] votes = {"SUPPORT"} -> "SUPPORT"
          [] votes = {"CONTRADICT"} -> "CONTRADICT"
          [] OTHER -> "NOT_ENOUGH_EVIDENCE"

(* Mutant: support found in a part of the pool satisfies a preference. *)
SupportsPartly(cs, c) ==
    c \in DOMAIN cs /\ cs[c].status # "FAILED" /\ cs[c].relation = "SUPPORT"

(* _relation_for_satisfaction, _relation_for_violation, _raw_relation. *)
Supports(cs, c) ==
    c \in DOMAIN cs /\ cs[c].status = "SUCCESS" /\ cs[c].relation = "SUPPORT"

Refutes(cs, c) ==
    c \in DOMAIN cs /\ cs[c].status # "FAILED" /\ cs[c].relation = "CONTRADICT"

Disputed(cs, c) ==
    c \in DOMAIN cs /\ cs[c].relation \in {"MIXED", "CONTRADICT"}

Outcome(state, decisive) == [state |-> state, decisive |-> decisive]

Quiet(cs) ==
    LET supporting   == {c \in ClaimsOf.quiet : Supports(cs, c)}
        contradicted == {c \in {"Q2", "Q3"} : Refutes(cs, c)}
        blocking     == {c \in {"Q2", "Q3"} : Disputed(cs, c)}
    IN  CASE contradicted # {} /\ supporting = {} -> Outcome("VIOLATED", contradicted)
          [] supporting # {} /\ blocking = {} -> Outcome("SATISFIED", supporting)
          [] supporting # {} /\ blocking # {} -> Outcome("UNRESOLVED", supporting \cup blocking)
          [] OTHER -> Outcome("UNRESOLVED", {})

(* A desk and Wi-Fi are essential; reliability may block but is no must. *)
RemoteWork(cs) ==
    LET supporting   == {c \in ClaimsOf.remote_work : Supports(cs, c)}
        contradicted == {c \in {"RW1", "RW2A"} : Refutes(cs, c)}
    IN  CASE {"RW1", "RW2A"} \subseteq supporting /\ ~Disputed(cs, "RW2B") ->
                Outcome("SATISFIED", supporting)
          [] contradicted # {} /\ supporting = {} -> Outcome("VIOLATED", contradicted)
          [] OTHER -> Outcome("UNRESOLVED", contradicted \cup supporting)

(* A policy that excludes children outweighs any description. *)
FamilyFriendly(cs) ==
    LET supporting  == {c \in ClaimsOf.family_friendly : Supports(cs, c)}
        blocked     == Disputed(cs, "FAM1") \/ ("FC1" \in DOMAIN cs /\ cs["FC1"].relation = "MIXED")
        conflicting == {c \in {"FAM1"} : Disputed(cs, c)}
    IN  CASE Refutes(cs, "FC1") -> Outcome("VIOLATED", {"FC1"})
          [] ~Refutes(cs, "FC1") /\ supporting # {} /\ ~blocked -> Outcome("SATISFIED", supporting)
          [] ~Refutes(cs, "FC1") /\ supporting # {} /\ blocked ->
                Outcome("UNRESOLVED", supporting \cup conflicting)
          [] OTHER -> Outcome("UNRESOLVED", {})

SingleClaim(cs, c) ==
    CASE Refutes(cs, c) -> Outcome("VIOLATED", {c})
      [] Supports(cs, c) -> Outcome("SATISFIED", {c})
      [] OTHER -> Outcome("UNRESOLVED", {})

FamilyOutcome(cs, family) ==
    CASE family = "quiet" -> Quiet(cs)
      [] family = "remote_work" -> RemoteWork(cs)
      [] family = "family_friendly" -> FamilyFriendly(cs)
      [] OTHER -> SingleClaim(cs, CHOOSE c \in ClaimsOf[family] : TRUE)

(* combine_family_states: one violated family outweighs all others. *)
Combine(states) ==
    CASE states = {} -> "UNRESOLVED"
      [] "VIOLATED" \in states -> "VIOLATED"
      [] states = {"SATISFIED"} -> "SATISFIED"
      [] OTHER -> "UNRESOLVED"

(* Mutant: a forbidden preference is inverted here as well. *)
DecideInverted(constraint, cs) ==
    LET outcomes == {FamilyOutcome(cs, f) : f \in constraint.families}
        state    == Combine({o.state : o \in outcomes})
    IN  [decision |-> CASE state = "UNRESOLVED" -> "UNCERTAIN"
                        [] (state = "SATISFIED") = (constraint.priority # "forbidden") -> "YES"
                        [] OTHER -> "NO",
         decisive |-> UNION {o.decisive : o \in outcomes}]

(* decide_constraint.  The direction of the preference is not applied      *)
(* here: listing evaluation inverts a forbidden preference once, by its    *)
(* priority.                                                               *)
Decide(constraint, cs) ==
    LET outcomes == {FamilyOutcome(cs, f) : f \in constraint.families}
        state    == Combine({o.state : o \in outcomes})
    IN  [decision |-> CASE state = "SATISFIED" -> "YES"
                        [] state = "VIOLATED" -> "NO"
                        [] state = "UNRESOLVED" -> "UNCERTAIN",
         decisive |-> UNION {o.decisive : o \in outcomes}]
=============================================================================
