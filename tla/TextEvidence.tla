---------------------------- MODULE TextEvidence ----------------------------
(***************************************************************************)
(* The textual fallback (constraint_evidence_resolution.py): what is made  *)
(* of the signals an LLM returns about the texts of a listing.  The model  *)
(* only quotes; whether a quote is the listing's, and what follows from    *)
(* it, is decided here.                                                    *)
(*                                                                         *)
(* An analysis is [signals, support, contradiction, conflict, condition],  *)
(* the flags being the model's own; a signal [relation, strength, type,    *)
(* snippet], its snippet one phrase or none.                               *)
(***************************************************************************)
EXTENDS Listing

(* Mutant: any quote will do. *)
SnippetGiven(snippet, evidence) == snippet # {}

SnippetFound(snippet, evidence) == snippet # {} /\ snippet \subseteq UNION evidence

(* The quoted areas are all of another part of the property, which the     *)
(* requirement does not name.                                              *)
MeasuresOtherPart(snippet, constraint) ==
    /\ {a.scope : a \in UNION {Phrases[p].areas : p \in Among(snippet)}} = {"other"}
    /\ ~constraint.namesPart

NormalizeResult(analysis, constraint, evidence) ==
    LET checked(s) ==
            [relation  |-> s.relation,
             strength  |-> s.strength,
             type      |-> s.type,
             verified  |-> SnippetFound(s.snippet, evidence),
             otherPart |-> s.type = "measurement" /\ MeasuresOtherPart(s.snippet, constraint)]
    IN  [analysis EXCEPT !.signals = {checked(s) : s \in @}]

-----------------------------------------------------------------------------
Usable(s) == s.verified /\ ~s.otherPart

(* Mutant: a feature often seen with the requested one confirms it. *)
ConfirmingTypesAll == {"direct_statement", "measurement", "associated_feature"}

ConfirmingTypes == {"direct_statement", "measurement"}

Confirming(analysis) ==
    {s \in analysis.signals : /\ Usable(s)
                              /\ s.relation = "supports"
                              /\ s.strength = "strong"
                              /\ s.type \in ConfirmingTypes}

Contradicting(analysis) ==
    {s \in analysis.signals : /\ Usable(s)
                              /\ s.relation \in {"contradicts", "weakly_contradicts"}
                              /\ s.type # "associated_feature"}

HasExplicitNegative(analysis) ==
    \/ \E s \in Contradicting(analysis) : s.relation = "contradicts" /\ s.strength = "strong"
    \/ analysis.contradiction /\ Contradicting(analysis) # {}

DecideFromAnalysis(analysis) ==
    CASE HasExplicitNegative(analysis) -> "NO"
      [] /\ ~HasExplicitNegative(analysis)
         /\ Confirming(analysis) # {}
         /\ analysis.support
         /\ ~analysis.conflict
         /\ ~analysis.condition -> "YES"
      [] OTHER -> "UNCERTAIN"

(* resolve_constraint_via_textual_evidence: an unusable reply and a failed *)
(* call are an analysis without signals.                                   *)
Resolve(analysis, constraint, l) ==
    DecideFromAnalysis(NormalizeResult(analysis, constraint, l.evidence))
=============================================================================
