-------------------------- MODULE ObligationExtraction --------------------------
(***************************************************************************)
(* Steps 2 to 6 of clause_parser for one document, as functions of its     *)
(* text: detect, decompose, extract, resolve and validate.  They share no  *)
(* state; the module ParsePipeline runs them in a job and stores what they *)
(* yield.                                                                  *)
(*                                                                         *)
(* A paragraph is what the rules look for in its text: the modal verbs and *)
(* the actors that occur in it, its deadlines in order, apart for the 200  *)
(* characters that are copied as the action and for the rest, and the      *)
(* articles it mentions in order.  A deadline is "date" for an absolute    *)
(* one, or else the unit of its period.  Conditions and exceptions are     *)
(* copied from the text and left out.                                      *)
(***************************************************************************)
EXTENDS Naturals, Sequences, SequencesExt, FiniteSetsExt

CONSTANTS
    Documents,      \* registered documents
    Paragraphs,     \* for each, the paragraphs of its structure in order
    Known,          \* documents whose instrument the schemas list
    Vocabulary,     \* the controlled vocabulary of actors
    Articles,       \* articles a text can mention
    None            \* Python's None

--------------------------------------------------------------------------------

Modals == {"shall", "must", "may", "should"}

NormTypes == {"obligation", "prohibition", "permission", "definition_only"}

Units == {"hour", "day", "month", "year"}

Paragraph == [modals : SUBSET Modals, actors : SUBSET Vocabulary,
              action : Seq(Units \cup {"date"}), rest : Seq(Units \cup {"date"}),
              mentions : Seq(Articles)]

Deadlines == [type : {"absolute_date", "relative_period"},
              normalized_iso : Seq({"P", "T", "date"} \cup Units)]

Semantics == [norm_type : NormTypes, actor : SUBSET (Vocabulary \cup {"unspecified_actor"}),
              modality : Modals, action : Seq(Units \cup {"date"}),
              deadline : Deadlines \cup {None}]

(* Every document is a sequence of paragraphs, and None is no modal verb. *)
ASSUME DocumentsAssumption ==
    /\ Paragraphs \in [Documents -> Seq(Paragraph)]
    /\ Known \subseteq Documents
    /\ None \notin Modals

(* The first of a sequence of modal verbs that occurs in a paragraph. *)
FirstOf(order, p) ==
    LET found == {i \in DOMAIN order : order[i] \in p.modals}
    IN  IF found = {} THEN None ELSE order[Min(found)]

(* What is detected in each paragraph, in document order. *)
DetectNormativeSpans(d) ==
    [i \in DOMAIN Paragraphs[d] |->
        [anchor |-> i, text |-> Paragraphs[d][i],
         matched_modal |-> FirstOf(<<"shall", "must", "may", "should">>, Paragraphs[d][i])]]

(* No refinement is configured: the baseline is kept as it is. *)
ApplyRefinement(baseline) == baseline

(* Decomposition keeps the normative paragraphs and makes one span of each:    *)
(* the anchors of the candidates, which are taken in document order.           *)
Candidates(d) ==
    {i \in DOMAIN Paragraphs[d] :
        ApplyRefinement(DetectNormativeSpans(d))[i].matched_modal # None}

--------------------------------------------------------------------------------

(* The agent has an order of its own in which it looks for the modal verbs, *)
(* and a default.                                                           *)
ExtractModality(p) ==
    LET modal == FirstOf(<<"shall", "must", "should", "may">>, p)
    IN  IF modal = None THEN "shall" ELSE modal

NormTypeOf(modality) == IF modality = "may" THEN "permission" ELSE "obligation"

ExtractActor(p) == IF p.actors = {} THEN {"unspecified_actor"} ELSE p.actors

BuildClauseId(d, span) == <<d, span.anchor>>

(* The proposal for a span.  A hash is as good as the text it is taken from. *)
ExtractProposal(d, span) ==
    [document |-> d,
     clause_id |-> BuildClauseId(d, span),
     source_evidence |-> [span |-> span.anchor, verbatim_text |-> span.text,
                          evidence_hash |-> span.text],
     legal_semantics |-> [norm_type |-> NormTypeOf(ExtractModality(span.text)),
                          actor |-> ExtractActor(span.text),
                          modality |-> ExtractModality(span.text),
                          action |-> span.text.action,
                          deadline |-> None],
     related_articles |-> <<>>,
     resolved_target_ids |-> {}]

(* The mentions without those that are repeated. *)
ExtractRelatedArticles(p) ==
    LET seen[n \in 0..Len(p.mentions)] ==
            IF n = 0 THEN <<>>
            ELSE IF Contains(seen[n - 1], p.mentions[n]) THEN seen[n - 1]
            ELSE Append(seen[n - 1], p.mentions[n])
    IN  seen[Len(p.mentions)]

(* An absolute date comes before a period, wherever the two stand.  The ISO    *)
(* duration has a designator before hours, and none before days, months and    *)
(* years.                                                                      *)
NormalizeDeadline(deadlines) ==
    IF Contains(deadlines, "date")
    THEN [type |-> "absolute_date", normalized_iso |-> <<"date">>]
    ELSE IF deadlines = <<>> THEN None
    ELSE [type |-> "relative_period",
          normalized_iso |-> IF deadlines[1] = "hour" THEN <<"P", "T", "hour">>
                             ELSE <<"P", deadlines[1]>>]

(* The deadline is looked for in the action, the articles in the whole text.   *)
(* There are no mentions for the reference agent, which is not called.         *)
ResolveReferences(proposal) ==
    [proposal EXCEPT
        !.legal_semantics.deadline = NormalizeDeadline(proposal.legal_semantics.action),
        !.related_articles = ExtractRelatedArticles(proposal.source_evidence.verbatim_text)]

--------------------------------------------------------------------------------

CheckNames == {"schema_validity", "controlled_vocabulary", "evidence_span_fidelity",
               "date_normalization", "quantity_normalization", "reference_validity",
               "cross_field_consistency"}

HardFailChecks == {"evidence_span_fidelity", "schema_validity"}

EvidenceHashMatches(proposal) ==
    proposal.source_evidence.evidence_hash = proposal.source_evidence.verbatim_text

(* The text of the evidence is the one at its place in the document. *)
EvidenceReplays(proposal) ==
    LET evidence == proposal.source_evidence
    IN  /\ evidence.span \in DOMAIN Paragraphs[proposal.document]
        /\ evidence.verbatim_text = Paragraphs[proposal.document][evidence.span]

(* The obligation schema lists the instruments, norm types and modalities, and *)
(* asks for an actor.                                                          *)
SchemaValid(proposal) ==
    /\ proposal.document \in Known
    /\ proposal.legal_semantics.norm_type \in NormTypes
    /\ proposal.legal_semantics.modality \in Modals
    /\ proposal.legal_semantics.actor # {}

Outcome(holds) == IF holds THEN "pass" ELSE "fail"

(* The seven checks.  The one on quantities has nothing to look at. *)
Checks(proposal) ==
    LET semantics == proposal.legal_semantics
    IN  [name \in CheckNames |->
            CASE name = "schema_validity" -> Outcome(SchemaValid(proposal))
              [] name = "controlled_vocabulary" ->
                    Outcome(semantics.modality \in Modals /\ semantics.norm_type \in NormTypes)
              [] name = "evidence_span_fidelity" ->
                    Outcome(EvidenceHashMatches(proposal) /\ EvidenceReplays(proposal))
              [] name = "date_normalization" ->
                    IF semantics.deadline = None \/ semantics.deadline.normalized_iso # <<>>
                    THEN "pass" ELSE "warn"
              [] name = "quantity_normalization" -> "pass"
              [] name = "reference_validity" ->
                    Outcome(proposal.resolved_target_ids \subseteq
                                DOMAIN Paragraphs[proposal.document])
              [] name = "cross_field_consistency" ->
                    IF semantics.norm_type = "definition_only" /\ semantics.actor # {}
                    THEN "warn" ELSE Outcome(semantics.actor # {})]

(* A failure of the schema or of the evidence fails the report, any other one  *)
(* only flags it; a warning does neither.                                      *)
ComputeOverallStatus(checks) ==
    IF \E name \in HardFailChecks : checks[name] = "fail" THEN "fail"
    ELSE IF \E name \in CheckNames \ HardFailChecks : checks[name] = "fail"
    THEN "needs_review" ELSE "pass"

RouteReviewStatus(overall) == IF overall = "fail" THEN "escalated" ELSE "pending"

ClauseIdDerived(proposal) == proposal.clause_id[1] = proposal.document

(* The proposals create_revision takes. *)
Storable(proposal) ==
    SchemaValid(proposal) /\ ClauseIdDerived(proposal) /\ EvidenceHashMatches(proposal)

(* The proposal and the overall status of each candidate span, by document. *)
Outcomes ==
    [d \in Documents |-> [i \in Candidates(d) |->
        LET span == ApplyRefinement(DetectNormativeSpans(d))[i]
            proposal == ResolveReferences(ExtractProposal(d, span))
        IN  [proposal |-> proposal, overall |-> ComputeOverallStatus(Checks(proposal))]]]
================================================================================
