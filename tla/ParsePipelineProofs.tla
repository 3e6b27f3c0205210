-------------------------- MODULE ParsePipelineProofs --------------------------
(***************************************************************************)
(* Proofs about ParsePipeline and the functions of ObligationExtraction it *)
(* runs: what is stored of a document, whatever jobs run, fail or are      *)
(* lost.                                                                   *)
(***************************************************************************)
EXTENDS ParsePipeline, FiniteSetTheorems, WellFoundedInduction, TLAPS

--------------------------------------------------------------------------------
(* Least numbers. *)

(* A set of naturals has a least one, and Min is it. *)
LEMMA MinIsLeast ==
    ASSUME NEW S \in SUBSET Nat, S # {}
    PROVE  Min(S) \in S /\ \A n \in S : Min(S) <= n
<1> DEFINE Less == {p \in Nat \X Nat : p[1] < p[2]}
<1>1. IsWellFoundedOn(Less, Nat)
  BY NatLessThanWellFounded, Zenon DEF OpToRel
<1>2. \A m, n \in Nat : m < n => <<m, n>> \in Less
  OBVIOUS
<1> HIDE DEF Less
<1>3. PICK n \in S : \A m \in S : ~ (<<m, n>> \in Less)
  BY <1>1, WFMin, Zenon
<1>4. \A m \in S : ~ (m < n)
  BY <1>2, <1>3, Zenon
<1>5. \E x \in S : \A y \in S : x <= y
  BY <1>4
<1> QED
  BY <1>5, Zenon DEF Min

--------------------------------------------------------------------------------
(* What is extracted from a paragraph. *)

(* The first modal verb of an order that a paragraph has, if it has any. *)
LEMMA FirstIsFirst ==
    ASSUME NEW order, NEW n \in Nat, DOMAIN order = 1..n, NEW p
    PROVE  \/ /\ FirstOf(order, p) = None
              /\ \A k \in 1..n : order[k] \notin p.modals
           \/ \E i \in 1..n :
                /\ FirstOf(order, p) = order[i] /\ order[i] \in p.modals
                /\ \A k \in 1..n : order[k] \in p.modals => i <= k
<1> DEFINE found == {i \in DOMAIN order : order[i] \in p.modals}
<1>1. found \in SUBSET Nat
  OBVIOUS
<1>2. FirstOf(order, p) = IF found = {} THEN None ELSE order[Min(found)]
  BY DEF FirstOf
<1>3. CASE found = {}
  BY <1>2, <1>3
<1>4. CASE found # {}
  <2>1. Min(found) \in found /\ \A k \in found : Min(found) <= k
    BY <1>1, <1>4, MinIsLeast
  <2> QED
    BY <1>2, <1>4, <2>1
<1> QED
  BY <1>3, <1>4

(* The agent looks for "may" last, and has a default for a paragraph without a *)
(* modal verb.                                                                 *)
LEMMA ModalityIsFound ==
    ASSUME NEW p, p.modals \subseteq Modals
    PROVE  /\ ExtractModality(p) \in Modals
           /\ p.modals # {} =>
                /\ ExtractModality(p) \in p.modals
                /\ ExtractModality(p) = "may" <=> p.modals = {"may"}
<1> DEFINE order == <<"shall", "must", "should", "may">>
<1>1. /\ DOMAIN order = 1..4 /\ order[1] = "shall" /\ order[2] = "must"
      /\ order[3] = "should" /\ order[4] = "may"
  OBVIOUS
<1>2. ExtractModality(p) = IF FirstOf(order, p) = None THEN "shall" ELSE FirstOf(order, p)
  BY DEF ExtractModality
<1>3. None \notin Modals
  BY DocumentsAssumption
<1> HIDE DEF order
<1>4. \/ /\ FirstOf(order, p) = None
         /\ \A k \in 1..4 : order[k] \notin p.modals
      \/ \E i \in 1..4 :
            /\ FirstOf(order, p) = order[i] /\ order[i] \in p.modals
            /\ \A k \in 1..4 : order[k] \in p.modals => i <= k
  <2>1. 4 \in Nat
    OBVIOUS
  <2>2. DOMAIN order = 1..4
    BY <1>1
  <2>3. ASSUME NEW n \in Nat, DOMAIN order = 1..n
        PROVE  \/ /\ FirstOf(order, p) = None
                  /\ \A k \in 1..n : order[k] \notin p.modals
               \/ \E i \in 1..n :
                    /\ FirstOf(order, p) = order[i] /\ order[i] \in p.modals
                    /\ \A k \in 1..n : order[k] \in p.modals => i <= k
    BY <2>3, FirstIsFirst, Zenon
  <2> QED
    BY <2>1, <2>2, <2>3
<1>5. CASE FirstOf(order, p) = None /\ \A k \in 1..4 : order[k] \notin p.modals
  BY <1>1, <1>2, <1>5 DEF Modals
<1>6. ASSUME NEW i \in 1..4, FirstOf(order, p) = order[i], order[i] \in p.modals,
             \A k \in 1..4 : order[k] \in p.modals => i <= k
      PROVE  /\ ExtractModality(p) \in p.modals
             /\ ExtractModality(p) = "may" <=> p.modals = {"may"}
  <2>1. ExtractModality(p) = order[i]
    BY <1>2, <1>3, <1>6
  <2>2. i = 1 \/ i = 2 \/ i = 3 \/ i = 4
    OBVIOUS
  <2> QED
    BY <1>1, <1>6, <2>1, <2>2 DEF Modals
<1> QED
  BY <1>4, <1>5, <1>6

(* The mentions seen after each of the first ones. *)
IsSeen(f, p, n) ==
    f = [k \in 0..n |-> IF k = 0 THEN <<>>
                        ELSE IF Contains(f[k - 1], p.mentions[k]) THEN f[k - 1]
                        ELSE Append(f[k - 1], p.mentions[k])]

LEMMA SeenExists ==
    ASSUME NEW p, NEW N \in Nat
    PROVE  \E f : IsSeen(f, p, N)
<1> DEFINE Short == {m \in Nat : ~\E f : IsSeen(f, p, m)}
<1> SUFFICES ASSUME Short # {}
             PROVE  FALSE
  OBVIOUS
<1>1. PICK m \in Short : \A k \in Short : m <= k
  BY MinIsLeast
<1> DEFINE step(h, k) == IF Contains(h[k - 1], p.mentions[k]) THEN h[k - 1]
                         ELSE Append(h[k - 1], p.mentions[k])
<1>2. CASE m = 0
  <2> DEFINE g == [n \in 0..m |-> <<>>]
  <2>1. g = [n \in 0..m |-> IF n = 0 THEN <<>> ELSE step(g, n)]
    BY <1>2
  <2> HIDE DEF g
  <2>2. IsSeen(g, p, m)
    BY <2>1, Zenon DEF IsSeen
  <2> QED
    BY <1>1, <2>2
<1>3. CASE m # 0
  <2>1. m - 1 \in Nat /\ m - 1 \notin Short
    BY <1>1, <1>3
  <2>2. PICK f : IsSeen(f, p, m - 1)
    BY <2>1
  <2> DEFINE g == [n \in 0..m |-> IF n = 0 THEN <<>> ELSE step(f, n)]
  <2>3. \A n \in 0..m - 1 : f[n] = IF n = 0 THEN <<>> ELSE step(f, n)
    BY <2>2, Zenon DEF IsSeen
  <2>a. \A n \in 0..m : g[n] = IF n = 0 THEN <<>> ELSE step(f, n)
    BY Zenon
  <2>b. \A n \in 0..m - 1 : n \in 0..m
    BY <2>1
  <2>4. \A n \in 0..m - 1 : g[n] = f[n]
    BY <2>3, <2>a, <2>b, Zenon
  <2>5. \A n \in 0..m : n # 0 => n - 1 \in 0..m - 1
    BY <2>1
  <2>c. \A n \in 0..m : n # 0 => step(f, n) = step(g, n)
    BY <2>4, <2>5, Zenon
  <2>6. g = [n \in 0..m |-> IF n = 0 THEN <<>> ELSE step(g, n)]
    BY <2>c, Zenon
  <2> HIDE DEF g
  <2>7. IsSeen(g, p, m)
    BY <2>6, Zenon DEF IsSeen
  <2> QED
    BY <1>1, <2>7
<1> QED
  BY <1>2, <1>3

(* A list of articles that are all mentioned, none twice. *)
OnceMentioned(s, p) ==
    /\ s \in Seq(Articles)
    /\ \A i \in DOMAIN s : \E k \in DOMAIN p.mentions : p.mentions[k] = s[i]
    /\ \A i, j \in DOMAIN s : s[i] = s[j] => i = j

LEMMA RelatedArticlesAreMentioned ==
    ASSUME NEW p, p.mentions \in Seq(Articles)
    PROVE  OnceMentioned(ExtractRelatedArticles(p), p)
<1> DEFINE N == Len(p.mentions)
<1>1. N \in Nat /\ DOMAIN p.mentions = 1..N /\ \A k \in 1..N : p.mentions[k] \in Articles
  OBVIOUS
<1>2. ExtractRelatedArticles(p) = (CHOOSE f : IsSeen(f, p, N))[N]
  BY DEF ExtractRelatedArticles, IsSeen
<1> HIDE DEF N
<1>3. \E f : IsSeen(f, p, N)
  BY <1>1, SeenExists
<1>4. PICK f : IsSeen(f, p, N) /\ ExtractRelatedArticles(p) = f[N]
  BY <1>2, <1>3
<1> DEFINE step(k) == IF Contains(f[k - 1], p.mentions[k]) THEN f[k - 1]
                      ELSE Append(f[k - 1], p.mentions[k])
<1>5. \A k \in 0..N : f[k] = IF k = 0 THEN <<>> ELSE step(k)
  BY <1>4, Zenon DEF IsSeen
<1> DEFINE Bad == {k \in 0..N : ~OnceMentioned(f[k], p)}
<1>6. ASSUME Bad # {}
      PROVE  FALSE
  <2>0. Bad \in SUBSET Nat
    OBVIOUS
  <2>1. PICK m \in Bad : \A k \in Bad : m <= k
    BY <1>6, <2>0, MinIsLeast
  <2>2. CASE m = 0
    <3>1. f[m] = <<>>
      BY <1>5, <2>1, <2>2
    <3>2. OnceMentioned(<<>>, p)
      <4>1. <<>> \in Seq(Articles) /\ DOMAIN <<>> = {}
        OBVIOUS
      <4> QED
        BY <4>1 DEF OnceMentioned
    <3> QED
      BY <2>1, <3>1, <3>2
  <2>3. CASE m # 0
    <3>1. m \in 1..N /\ m - 1 \in 0..N /\ m - 1 \notin Bad
      BY <1>1, <2>1, <2>3
    <3>2. OnceMentioned(f[m - 1], p)
      BY <3>1
    <3>3. f[m] = step(m)
      BY <1>5, <2>1, <2>3
    <3> DEFINE old == f[m - 1]
               mention == p.mentions[m]
    <3>4. mention \in Articles /\ m \in DOMAIN p.mentions
      BY <1>1, <3>1
    <3>5. CASE Contains(old, mention)
      BY <2>1, <3>2, <3>3, <3>5
    <3>6. CASE ~Contains(old, mention)
      <4>1. f[m] = Append(old, mention)
        BY <3>3, <3>6
      <4>2. old \in Seq(Articles) /\ \A i \in 1..Len(old) : old[i] # mention
        BY <3>2, <3>6 DEF OnceMentioned, Contains
      <4> HIDE DEF old
      <4>3. /\ Append(old, mention) \in Seq(Articles)
            /\ DOMAIN old = 1..Len(old) /\ Len(old) \in Nat
            /\ DOMAIN Append(old, mention) = 1..(Len(old) + 1)
            /\ \A i \in 1..Len(old) : Append(old, mention)[i] = old[i]
            /\ Append(old, mention)[Len(old) + 1] = mention
        BY <3>4, <4>2
      <4>4. OnceMentioned(old, p)
        BY <3>2 DEF old
      <4>5. OnceMentioned(Append(old, mention), p)
        BY <3>4, <4>2, <4>3, <4>4 DEF OnceMentioned
      <4> QED
        BY <2>1, <4>1, <4>5
    <3> QED
      BY <3>5, <3>6
  <2> QED
    BY <2>2, <2>3
<1>7. N \in 0..N /\ N \notin Bad
  BY <1>1, <1>6
<1> QED
  BY <1>4, <1>7

--------------------------------------------------------------------------------
(* What a candidate span yields. *)

LEMMA ParagraphKind ==
    ASSUME NEW d \in Documents, NEW i \in DOMAIN Paragraphs[d]
    PROVE  /\ Paragraphs[d][i] \in Paragraph
           /\ DOMAIN Paragraphs[d] = 1..Len(Paragraphs[d]) /\ Len(Paragraphs[d]) \in Nat
           /\ i \in Nat \ {0}
<1>1. Paragraphs[d] \in Seq(Paragraph)
  BY DocumentsAssumption
<1> QED
  BY <1>1

(* A candidate is a paragraph with a modal verb. *)
LEMMA CandidateHasModal ==
    ASSUME NEW d \in Documents, NEW i \in Candidates(d)
    PROVE  /\ i \in DOMAIN Paragraphs[d]
           /\ Paragraphs[d][i].modals # {}
<1> DEFINE order == <<"shall", "must", "may", "should">>
           p == Paragraphs[d][i]
<1>1. i \in DOMAIN Paragraphs[d]
  BY DEF Candidates
<1>2. ApplyRefinement(DetectNormativeSpans(d))[i].matched_modal = FirstOf(order, p)
  BY <1>1 DEF ApplyRefinement, DetectNormativeSpans
<1>3. FirstOf(order, p) # None
  BY <1>2 DEF Candidates
<1>4. p.modals # {}
  <2> SUFFICES ASSUME p.modals = {}
               PROVE  FALSE
    OBVIOUS
  <2>1. {k \in DOMAIN order : order[k] \in p.modals} = {}
    OBVIOUS
  <2> HIDE DEF order, p
  <2> QED
    BY <1>3, <2>1 DEF FirstOf
<1> QED
  BY <1>1, <1>4

LEMMA DeadlineKind ==
    ASSUME NEW deadlines \in Seq(Units \cup {"date"})
    PROVE  /\ NormalizeDeadline(deadlines) \in Deadlines \cup {None}
           /\ NormalizeDeadline(deadlines) # None => deadlines # <<>>
<1>1. CASE Contains(deadlines, "date")
  <2>1. deadlines # <<>>
    BY <1>1 DEF Contains
  <2>2. <<"date">> \in Seq({"P", "T", "date"} \cup Units)
    OBVIOUS
  <2> QED
    BY <1>1, <2>1, <2>2 DEF NormalizeDeadline, Deadlines
<1>2. CASE ~Contains(deadlines, "date") /\ deadlines = <<>>
  BY <1>2 DEF NormalizeDeadline
<1>3. CASE ~Contains(deadlines, "date") /\ deadlines # <<>>
  <2>1. deadlines[1] \in Units \cup {"date"}
    BY <1>3
  <2>2. /\ <<"P", "T", "hour">> \in Seq({"P", "T", "date"} \cup Units)
        /\ <<"P", deadlines[1]>> \in Seq({"P", "T", "date"} \cup Units)
    BY <2>1 DEF Units
  <2> QED
    BY <1>3, <2>2 DEF NormalizeDeadline, Deadlines
<1> QED
  BY <1>1, <1>2, <1>3

ProposalOf(d, i) == Outcomes[d][i].proposal

(* The proposal of a span, field by field. *)
LEMMA ProposalFields ==
    ASSUME NEW d \in Documents, NEW i \in Candidates(d)
    PROVE  LET p == Paragraphs[d][i]
               proposal == ProposalOf(d, i)
           IN  /\ Outcomes[d][i].overall = ComputeOverallStatus(Checks(proposal))
               /\ proposal.document = d
               /\ proposal.clause_id = <<d, i>>
               /\ proposal.source_evidence =
                    [span |-> i, verbatim_text |-> p, evidence_hash |-> p]
               /\ proposal.legal_semantics =
                    [norm_type |-> NormTypeOf(ExtractModality(p)), actor |-> ExtractActor(p),
                     modality |-> ExtractModality(p), action |-> p.action,
                     deadline |-> NormalizeDeadline(p.action)]
               /\ proposal.related_articles = ExtractRelatedArticles(p)
               /\ proposal.resolved_target_ids = {}
<1> DEFINE p == Paragraphs[d][i]
           span == ApplyRefinement(DetectNormativeSpans(d))[i]
           raw == ExtractProposal(d, span)
           proposal == ResolveReferences(raw)
<1>1. i \in DOMAIN Paragraphs[d]
  BY CandidateHasModal
<1>2. span.anchor = i /\ span.text = p
  BY <1>1 DEF ApplyRefinement, DetectNormativeSpans
<1>3. Outcomes[d][i] = [proposal |-> proposal, overall |-> ComputeOverallStatus(Checks(proposal))]
  BY DEF Outcomes
<1> HIDE DEF p, span
<1>4. raw = [document |-> d, clause_id |-> <<d, i>>,
             source_evidence |-> [span |-> i, verbatim_text |-> p, evidence_hash |-> p],
             legal_semantics |-> [norm_type |-> NormTypeOf(ExtractModality(p)),
                                  actor |-> ExtractActor(p), modality |-> ExtractModality(p),
                                  action |-> p.action, deadline |-> None],
             related_articles |-> <<>>, resolved_target_ids |-> {}]
  BY <1>2 DEF ExtractProposal, BuildClauseId
<1> HIDE DEF raw
<1>5. proposal = [raw EXCEPT !.legal_semantics.deadline = NormalizeDeadline(p.action),
                             !.related_articles = ExtractRelatedArticles(p)]
  BY <1>4 DEF ResolveReferences
<1> HIDE DEF proposal
<1>6. /\ proposal.document = d /\ proposal.clause_id = <<d, i>>
      /\ proposal.source_evidence = [span |-> i, verbatim_text |-> p, evidence_hash |-> p]
      /\ proposal.related_articles = ExtractRelatedArticles(p)
      /\ proposal.resolved_target_ids = {}
  BY <1>4, <1>5
<1>7. proposal.legal_semantics =
        [norm_type |-> NormTypeOf(ExtractModality(p)), actor |-> ExtractActor(p),
         modality |-> ExtractModality(p), action |-> p.action,
         deadline |-> NormalizeDeadline(p.action)]
  BY <1>4, <1>5
<1>8. ProposalOf(d, i) = proposal
  BY <1>3 DEF ProposalOf
<1> QED
  BY <1>3, <1>6, <1>7, <1>8 DEF p

(* A proposal has the semantics of its paragraph, and its references once.     *)
LEMMA ProposalIsOfItsText ==
    ASSUME NEW d \in Documents, NEW i \in Candidates(d)
    PROVE  LET p == Paragraphs[d][i]
               semantics == ProposalOf(d, i).legal_semantics
           IN  /\ semantics \in Semantics
               /\ semantics.modality \in p.modals
               /\ semantics.norm_type = "permission" <=> p.modals = {"may"}
               /\ semantics.deadline # None => p.action # <<>>
               /\ semantics.actor # {}
               /\ OnceMentioned(ProposalOf(d, i).related_articles, p)
<1> DEFINE p == Paragraphs[d][i]
           semantics == ProposalOf(d, i).legal_semantics
<1>1. p \in Paragraph /\ p.modals # {}
  BY CandidateHasModal, ParagraphKind
<1> HIDE DEF p
<1>2. /\ p.modals \subseteq Modals /\ p.actors \subseteq Vocabulary
      /\ p.action \in Seq(Units \cup {"date"}) /\ p.mentions \in Seq(Articles)
  BY <1>1 DEF Paragraph
<1>3. /\ semantics = [norm_type |-> NormTypeOf(ExtractModality(p)), actor |-> ExtractActor(p),
                      modality |-> ExtractModality(p), action |-> p.action,
                      deadline |-> NormalizeDeadline(p.action)]
      /\ ProposalOf(d, i).related_articles = ExtractRelatedArticles(p)
  BY ProposalFields DEF p
<1> HIDE DEF semantics
<1>4. /\ ExtractModality(p) \in Modals \cap p.modals
      /\ ExtractModality(p) = "may" <=> p.modals = {"may"}
  BY <1>1, <1>2, ModalityIsFound
<1>5. /\ NormTypeOf(ExtractModality(p)) \in NormTypes
      /\ NormTypeOf(ExtractModality(p)) = "permission" <=> ExtractModality(p) = "may"
  BY DEF NormTypeOf, NormTypes
<1>6. /\ ExtractActor(p) \in SUBSET (Vocabulary \cup {"unspecified_actor"})
      /\ ExtractActor(p) # {}
  BY <1>2 DEF ExtractActor
<1>7. /\ NormalizeDeadline(p.action) \in Deadlines \cup {None}
      /\ NormalizeDeadline(p.action) # None => p.action # <<>>
  BY <1>2, DeadlineKind
<1>8. OnceMentioned(ExtractRelatedArticles(p), p)
  BY <1>2, RelatedArticlesAreMentioned
<1>9. semantics \in Semantics
  BY <1>2, <1>3, <1>4, <1>5, <1>6, <1>7 DEF Semantics
<1> QED
  BY <1>3, <1>4, <1>5, <1>6, <1>7, <1>8, <1>9 DEF p, semantics

(* The rules copy what they quote, so that only the schema can fail; what the  *)
(* store takes has passed.                                                     *)
LEMMA StorablePasses ==
    ASSUME NEW d \in Documents, NEW i \in Candidates(d)
    PROVE  /\ Outcomes[d][i].overall \in {"pass", "needs_review", "fail"}
           /\ Storable(ProposalOf(d, i)) => Outcomes[d][i].overall = "pass"
<1> DEFINE proposal == ProposalOf(d, i)
           checks == Checks(proposal)
<1>1. Outcomes[d][i].overall = ComputeOverallStatus(checks)
  BY ProposalFields
<1>2. Outcomes[d][i].overall \in {"pass", "needs_review", "fail"}
  BY <1>1 DEF ComputeOverallStatus
<1>3. ASSUME Storable(proposal)
      PROVE  \A name \in CheckNames : checks[name] # "fail"
  <2>0. /\ proposal.document = d
        /\ proposal.source_evidence =
                [span |-> i, verbatim_text |-> Paragraphs[d][i], evidence_hash |-> Paragraphs[d][i]]
        /\ proposal.resolved_target_ids = {}
    BY ProposalFields
  <2>1. /\ proposal.document = d
        /\ proposal.source_evidence.span = i
        /\ proposal.source_evidence.verbatim_text = Paragraphs[d][i]
        /\ proposal.source_evidence.evidence_hash = Paragraphs[d][i]
        /\ proposal.resolved_target_ids = {}
    <3> HIDE DEF proposal
    <3> QED
      BY <2>0
  <2>2. /\ proposal.legal_semantics \in Semantics
        /\ proposal.legal_semantics.actor # {}
    BY ProposalIsOfItsText
  <2>3. i \in DOMAIN Paragraphs[d]
    BY CandidateHasModal
  <2> HIDE DEF proposal
  <2>4. checks["schema_validity"] # "fail"
    BY <1>3 DEF Checks, CheckNames, Outcome, Storable
  <2>5. checks["controlled_vocabulary"] # "fail"
    BY <2>2 DEF Checks, CheckNames, Outcome, Semantics
  <2>6. checks["evidence_span_fidelity"] # "fail"
    BY <2>1, <2>3 DEF Checks, CheckNames, Outcome, EvidenceHashMatches, EvidenceReplays
  <2>7. checks["date_normalization"] # "fail"
    BY DEF Checks, CheckNames
  <2>8. checks["quantity_normalization"] # "fail"
    BY DEF Checks, CheckNames
  <2>9. checks["reference_validity"] # "fail"
    BY <2>1 DEF Checks, CheckNames, Outcome
  <2>10. checks["cross_field_consistency"] # "fail"
    BY <2>2 DEF Checks, CheckNames, Outcome
  <2> HIDE DEF checks
  <2> QED
    BY <2>4, <2>5, <2>6, <2>7, <2>8, <2>9, <2>10 DEF CheckNames
<1>4. Storable(proposal) => ComputeOverallStatus(checks) = "pass"
  BY <1>3 DEF ComputeOverallStatus, HardFailChecks, CheckNames
<1> QED
  BY <1>1, <1>2, <1>4

--------------------------------------------------------------------------------
(* Type correctness. *)

(* The next span of a thread at work, and the row that it makes. *)
LEMMA NextSpanKind ==
    ASSUME TypeOK, NEW w \in Workers, pc[w] # "idle"
    PROVE  /\ DocumentOf(w) \in Documents
           /\ Remaining(w) = {i \in Candidates(DocumentOf(w)) : i >= next[w]}
           /\ Remaining(w) # {} =>
                /\ NextSpan(w) \in Remaining(w) /\ \A i \in Remaining(w) : NextSpan(w) <= i
                /\ NextSpan(w) \in Nat \ {0} /\ NextSpan(w) \in Candidates(DocumentOf(w))
                /\ OutcomeOf(w).proposal = ProposalOf(DocumentOf(w), NextSpan(w))
                /\ OutcomeOf(w).overall = Outcomes[DocumentOf(w)][NextSpan(w)].overall
                /\ ClauseOf(w) = <<DocumentOf(w), NextSpan(w)>>
                /\ ClauseOf(w) \in Clauses
<1> DEFINE d == DocumentOf(w)
<1>1. d \in Documents
  BY DEF TypeOK, DocumentOf, Jobs
<1> HIDE DEF d
<1>2. DOMAIN Outcomes[d] = Candidates(d)
  BY <1>1 DEF Outcomes
<1>3. Remaining(w) = {i \in Candidates(d) : i >= next[w]}
  BY <1>2 DEF Remaining, d
<1>4. \A i \in Candidates(d) : i \in Nat \ {0}
  BY <1>1, CandidateHasModal, ParagraphKind
<1>5. ASSUME Remaining(w) # {}
      PROVE  /\ NextSpan(w) \in Remaining(w) /\ \A i \in Remaining(w) : NextSpan(w) <= i
             /\ NextSpan(w) \in Nat \ {0} /\ NextSpan(w) \in Candidates(d)
             /\ OutcomeOf(w).proposal = ProposalOf(d, NextSpan(w))
             /\ OutcomeOf(w).overall = Outcomes[d][NextSpan(w)].overall
             /\ ClauseOf(w) = <<d, NextSpan(w)>>
             /\ ClauseOf(w) \in Clauses
  <2>1. Remaining(w) \in SUBSET Nat
    BY <1>3, <1>4
  <2>2. NextSpan(w) \in Remaining(w) /\ \A i \in Remaining(w) : NextSpan(w) <= i
    BY <1>5, <2>1, MinIsLeast DEF NextSpan
  <2>3. NextSpan(w) \in Nat \ {0} /\ NextSpan(w) \in Candidates(d)
    BY <1>3, <1>4, <2>2
  <2>4. OutcomeOf(w) = Outcomes[d][NextSpan(w)]
    BY DEF OutcomeOf, d
  <2>5. ProposalOf(d, NextSpan(w)).clause_id = <<d, NextSpan(w)>>
    BY <1>1, <2>3, ProposalFields
  <2>6. ClauseOf(w) = <<d, NextSpan(w)>>
    BY <2>4, <2>5 DEF ClauseOf, ProposalOf
  <2> QED
    BY <1>1, <2>2, <2>3, <2>4, <2>6 DEF ProposalOf, Clauses
<1> QED
  BY <1>1, <1>3, <1>5 DEF d

RowOf(w) ==
    [clause |-> OutcomeOf(w).proposal.clause_id, run |-> running[w],
     semantics |-> OutcomeOf(w).proposal.legal_semantics,
     references |-> OutcomeOf(w).proposal.related_articles,
     report |-> OutcomeOf(w).overall, status |-> RouteReviewStatus(OutcomeOf(w).overall)]

LEMMA RowKind ==
    ASSUME TypeOK, NEW w \in Workers, pc[w] # "idle", Remaining(w) # {}
    PROVE  RowOf(w) \in Rows
<1> DEFINE d == DocumentOf(w)
           i == NextSpan(w)
<1>1. /\ d \in Documents /\ i \in Candidates(d)
      /\ OutcomeOf(w).proposal = ProposalOf(d, i)
      /\ OutcomeOf(w).overall = Outcomes[d][i].overall
      /\ OutcomeOf(w).proposal.clause_id \in Clauses
  BY NextSpanKind DEF ClauseOf
<1> HIDE DEF d, i
<1>2. ProposalOf(d, i).legal_semantics \in Semantics
      /\ OnceMentioned(ProposalOf(d, i).related_articles, Paragraphs[d][i])
  BY <1>1, ProposalIsOfItsText
<1>3. ProposalOf(d, i).related_articles \in Seq(Articles)
  BY <1>2 DEF OnceMentioned
<1>4. Outcomes[d][i].overall \in {"pass", "needs_review", "fail"}
  BY <1>1, StorablePasses
<1>5. RouteReviewStatus(OutcomeOf(w).overall) \in {"pending", "escalated"}
  BY DEF RouteReviewStatus
<1>6. running[w] \in JobIds
  BY DEF TypeOK
<1> QED
  BY <1>1, <1>2, <1>3, <1>4, <1>5, <1>6 DEF RowOf, Rows

LEMMA TypeInit == Init => TypeOK
<1> SUFFICES ASSUME Init
             PROVE  TypeOK
  OBVIOUS
<1>1. 0 \in 0..MaxJobs /\ 0 \in 0..MaxRestarts
  BY BoundsAssumption
<1>2. NoCounts \in Summaries
  BY DEF NoCounts, Summaries
<1> QED
  BY <1>1, <1>2 DEF Init, TypeOK

(* The records and logs alone. *)
RecordsOK ==
    /\ revisions \in Seq(Rows)
    /\ memoryLog \subseteq Calls
    /\ callLog \subseteq Calls
    /\ dropped \subseteq Calls
    /\ restarts \in 0..MaxRestarts

(* What is kept of the other threads, and of the other jobs. *)
Unmoved(v) ==
    pc'[v] = pc[v] /\ running'[v] = running[v] /\ next'[v] = next[v] /\ counts'[v] = counts[v]

Others(w) == \A v \in Workers : v # w => Unmoved(v)

OtherJobs(j) == \A k \in JobIds : k # j => jobs'[k] = jobs[k]

(* The variables of the threads, of which one has moved. *)
LEMMA TypeThreads ==
    ASSUME TypeOK, RecordsOK', created' \in 0..MaxJobs, NEW w \in Workers, Others(w),
           NEW j \in JobIds, jobs' \in [JobIds -> Jobs \cup {None}],
           \A k \in JobIds : jobs[k] \in Jobs => jobs'[k] \in Jobs,
           pc' \in [Workers -> {"idle", "start", "extract", "store", "summarise", "complete"}],
           running' \in [Workers -> JobIds \cup {None}],
           next' \in [Workers -> Nat \ {0}],
           counts' \in [Workers -> Summaries],
           pc'[w] # "idle" => running'[w] = j /\ jobs'[j] \in Jobs
    PROVE  TypeOK'
<1>1. ASSUME NEW v \in Workers, pc'[v] # "idle"
      PROVE  running'[v] \in JobIds /\ jobs'[running'[v]] \in Jobs
  <2>1. CASE v = w
    BY <1>1, <2>1
  <2>2. CASE v # w
    <3>1. pc[v] # "idle" /\ running'[v] = running[v]
      BY <1>1, <2>2 DEF Others, Unmoved
    <3> QED
      BY <3>1 DEF TypeOK
  <2> QED
    BY <2>1, <2>2
<1> QED
  BY <1>1 DEF TypeOK, RecordsOK

LEMMA CreateJobEffect ==
    ASSUME TypeOK, NEW w \in Workers, NEW d \in Documents, CreateJob(w, d)
    PROVE  /\ TypeOK'
           /\ pc[w] = "idle" /\ pc'[w] = "start" /\ running'[w] = created'
           /\ created' = created + 1 /\ created' \in JobIds
           /\ jobs'[created'] = [document |-> d, status |-> "queued", summary |-> NoCounts]
           /\ Others(w) /\ OtherJobs(created')
           /\ UNCHANGED <<revisions, memoryLog, callLog, dropped, restarts>>
<1> DEFINE job == [document |-> d, status |-> "queued", summary |-> NoCounts]
<1>1. job \in Jobs
  BY DEF Jobs, Summaries, NoCounts
<1> HIDE DEF job
<1>2. created' = created + 1 /\ created' \in JobIds /\ created' \in 0..MaxJobs
  BY BoundsAssumption DEF CreateJob, TypeOK, JobIds
<1>3. jobs' = [jobs EXCEPT ![created'] = job]
  BY DEF CreateJob, job
<1>4. jobs' \in [JobIds -> Jobs \cup {None}] /\ jobs'[created'] = job /\ OtherJobs(created')
  BY <1>1, <1>2, <1>3 DEF TypeOK, OtherJobs
<1>5. /\ pc' \in [Workers -> {"idle", "start", "extract", "store", "summarise", "complete"}]
      /\ running' \in [Workers -> JobIds \cup {None}]
      /\ next' \in [Workers -> Nat \ {0}] /\ counts' \in [Workers -> Summaries]
      /\ pc[w] = "idle" /\ pc'[w] = "start" /\ running'[w] = created' /\ Others(w)
  BY <1>2 DEF CreateJob, TypeOK, Others, Unmoved
<1>6. UNCHANGED <<revisions, memoryLog, callLog, dropped, restarts>>
  BY DEF CreateJob, logVars
<1>7. RecordsOK'
  BY <1>6 DEF TypeOK, RecordsOK
<1>8. \A k \in JobIds : jobs[k] \in Jobs => jobs'[k] \in Jobs
  BY <1>1, <1>4 DEF OtherJobs
<1>9. TypeOK'
  BY <1>1, <1>2, <1>4, <1>5, <1>7, <1>8, TypeThreads
<1> QED
  BY <1>2, <1>4, <1>5, <1>6, <1>9 DEF job

(* A thread at work has its job; none of its steps gives it another. *)
LEMMA AtWork ==
    ASSUME TypeOK, NEW w \in Workers, Work(w)
    PROVE  pc[w] # "idle" /\ running[w] \in JobIds /\ jobs[running[w]] \in Jobs
BY DEF TypeOK, Work, StartJob, Extract, ExtractNoMore, Store, StoreFails, Summarise, Complete

LEMMA JobFields ==
    ASSUME NEW job \in Jobs, NEW status \in {"queued", "running", "completed", "failed"},
           NEW summary \in Summaries
    PROVE  /\ [job EXCEPT !.status = status] \in Jobs
           /\ [job EXCEPT !.status = status].status = status
           /\ [job EXCEPT !.status = status].document = job.document
           /\ [job EXCEPT !.status = status].summary = job.summary
           /\ [job EXCEPT !.summary = summary] \in Jobs
           /\ [job EXCEPT !.summary = summary].status = job.status
           /\ [job EXCEPT !.summary = summary].document = job.document
           /\ [job EXCEPT !.summary = summary].summary = summary
BY DEF Jobs

LEMMA StartJobEffect ==
    ASSUME TypeOK, NEW w \in Workers, StartJob(w)
    PROVE  /\ TypeOK'
           /\ pc[w] = "start" /\ pc'[w] = "extract" /\ running'[w] = running[w]
           /\ next'[w] = 1 /\ counts'[w] = NoCounts
           /\ jobs'[running[w]].document = jobs[running[w]].document
           /\ jobs'[running[w]].status = "running"
           /\ Others(w) /\ OtherJobs(running[w])
           /\ UNCHANGED <<revisions, memoryLog, callLog, dropped, created, restarts>>
<1> DEFINE j == running[w]
           job == [jobs[j] EXCEPT !.status = "running"]
<1>1. j \in JobIds /\ jobs[j] \in Jobs
  BY AtWork DEF Work
<1>2. job \in Jobs /\ job.document = jobs[j].document /\ job.status = "running"
  BY <1>1, JobFields DEF Jobs
<1> HIDE DEF job
<1>3. jobs' = [jobs EXCEPT ![j] = job]
  BY DEF StartJob, job
<1>4. jobs' \in [JobIds -> Jobs \cup {None}] /\ jobs'[j] = job /\ OtherJobs(j)
  BY <1>1, <1>2, <1>3 DEF TypeOK, OtherJobs
<1>5. NoCounts \in Summaries
  BY DEF NoCounts, Summaries
<1>6. /\ pc' \in [Workers -> {"idle", "start", "extract", "store", "summarise", "complete"}]
      /\ running' \in [Workers -> JobIds \cup {None}]
      /\ next' \in [Workers -> Nat \ {0}] /\ counts' \in [Workers -> Summaries]
      /\ pc[w] = "start" /\ pc'[w] = "extract" /\ running'[w] = j
      /\ next'[w] = 1 /\ counts'[w] = NoCounts /\ Others(w)
  BY <1>5 DEF StartJob, TypeOK, Others, Unmoved
<1>7. UNCHANGED <<revisions, memoryLog, callLog, dropped, created, restarts>>
  BY DEF StartJob, logVars
<1>8. RecordsOK' /\ created' \in 0..MaxJobs
  BY <1>7 DEF TypeOK, RecordsOK
<1>9. \A k \in JobIds : jobs[k] \in Jobs => jobs'[k] \in Jobs
  BY <1>2, <1>4 DEF OtherJobs
<1>10. TypeOK'
  <2> HIDE DEF j
  <2> QED
    BY <1>1, <1>2, <1>4, <1>6, <1>8, <1>9, TypeThreads
<1> QED
  BY <1>2, <1>4, <1>6, <1>7, <1>10

LEMMA ExtractEffect ==
    ASSUME TypeOK, NEW w \in Workers, Extract(w)
    PROVE  LET call == [clause |-> ClauseOf(w), run |-> running[w]]
           IN  /\ TypeOK'
               /\ pc[w] = "extract" /\ Remaining(w) # {} /\ pc'[w] = "store"
               /\ running'[w] = running[w] /\ next'[w] = next[w] /\ counts'[w] = counts[w]
               /\ Others(w)
               /\ memoryLog' = memoryLog \cup {call}
               /\ callLog' \cup dropped' = callLog \cup dropped \cup {call}
               /\ UNCHANGED <<jobs, revisions, created, restarts>>
<1> DEFINE call == [clause |-> ClauseOf(w), run |-> running[w]]
<1>1. pc[w] = "extract" /\ Remaining(w) # {} /\ running[w] \in JobIds /\ jobs[running[w]] \in Jobs
  BY AtWork DEF Extract, Work
<1>2. call \in Calls
  BY <1>1, NextSpanKind DEF Calls
<1>3. /\ memoryLog' = memoryLog \cup {call}
      /\ \/ callLog' = callLog \cup {call} /\ UNCHANGED dropped
         \/ dropped' = dropped \cup {call} /\ UNCHANGED callLog
  BY DEF Extract
<1> HIDE DEF call
<1>4. UNCHANGED <<jobs, revisions, running, next, counts, created, restarts>>
  BY DEF Extract
<1>5. /\ pc' \in [Workers -> {"idle", "start", "extract", "store", "summarise", "complete"}]
      /\ pc'[w] = "store" /\ Others(w)
  BY <1>4 DEF Extract, TypeOK, Others, Unmoved
<1>6. RecordsOK'
  BY <1>2, <1>3, <1>4 DEF TypeOK, RecordsOK
<1>7. TypeOK'
  BY <1>1, <1>4, <1>5, <1>6, TypeThreads DEF TypeOK
<1> QED
  BY <1>1, <1>3, <1>4, <1>5, <1>7 DEF call

LEMMA ExtractNoMoreEffect ==
    ASSUME TypeOK, NEW w \in Workers, ExtractNoMore(w)
    PROVE  /\ TypeOK'
           /\ pc[w] = "extract" /\ Remaining(w) = {} /\ pc'[w] = "summarise"
           /\ running'[w] = running[w] /\ next'[w] = next[w] /\ counts'[w] = counts[w]
           /\ Others(w)
           /\ UNCHANGED <<jobs, revisions, memoryLog, callLog, dropped, created, restarts>>
<1>1. pc[w] = "extract" /\ Remaining(w) = {} /\ running[w] \in JobIds /\ jobs[running[w]] \in Jobs
  BY AtWork DEF ExtractNoMore, Work
<1>2. UNCHANGED <<jobs, revisions, memoryLog, callLog, dropped, running, next, counts,
                  created, restarts>>
  BY DEF ExtractNoMore, logVars
<1>3. /\ pc' \in [Workers -> {"idle", "start", "extract", "store", "summarise", "complete"}]
      /\ pc'[w] = "summarise" /\ Others(w)
  BY <1>2 DEF ExtractNoMore, TypeOK, Others, Unmoved
<1>4. RecordsOK'
  BY <1>2 DEF TypeOK, RecordsOK
<1>5. TypeOK'
  BY <1>1, <1>2, <1>3, <1>4, TypeThreads DEF TypeOK
<1> QED
  BY <1>1, <1>2, <1>3, <1>5

LEMMA StoreEffect ==
    ASSUME TypeOK, NEW w \in Workers, Store(w), Remaining(w) # {}
    PROVE  /\ TypeOK'
           /\ pc[w] = "store" /\ pc'[w] = "extract" /\ running'[w] = running[w]
           /\ next'[w] = NextSpan(w) + 1
           /\ OutcomeOf(w).overall = "pass"
           /\ counts'[w].total = counts[w].total + 1 /\ counts'[w].pass = counts[w].pass + 1
           /\ revisions' = Append(revisions, RowOf(w)) /\ RowOf(w) \in Rows
           /\ Others(w)
           /\ UNCHANGED <<jobs, memoryLog, callLog, dropped, created, restarts>>
<1>1. pc[w] = "store" /\ running[w] \in JobIds /\ jobs[running[w]] \in Jobs
  BY AtWork DEF Store, Work
<1>2. /\ DocumentOf(w) \in Documents /\ NextSpan(w) \in Candidates(DocumentOf(w))
      /\ OutcomeOf(w).proposal = ProposalOf(DocumentOf(w), NextSpan(w))
      /\ OutcomeOf(w).overall = Outcomes[DocumentOf(w)][NextSpan(w)].overall
      /\ NextSpan(w) \in Nat \ {0}
  BY <1>1, NextSpanKind
<1>3. OutcomeOf(w).overall = "pass"
  BY <1>2, StorablePasses DEF Store
<1>4. revisions' = Append(revisions, RowOf(w)) /\ RowOf(w) \in Rows
  BY <1>1, RowKind DEF Store, RowOf
<1>5. UNCHANGED <<jobs, memoryLog, callLog, dropped, running, created, restarts>>
  BY DEF Store, logVars
<1> DEFINE counted == CountedIn(counts[w], "pass")
<1>6. counts[w] \in [{"total", "pass", "needs_review", "fail"} -> Nat]
  BY DEF TypeOK, Summaries
<1>7. /\ counted \in Summaries
      /\ counted.total = counts[w].total + 1 /\ counted.pass = counts[w].pass + 1
  BY <1>6 DEF Summaries, CountedIn
<1> HIDE DEF counted
<1>8. counts' = [counts EXCEPT ![w] = counted]
  BY <1>3 DEF Store, counted
<1>9. counts' \in [Workers -> Summaries] /\ counts'[w] = counted
      /\ \A v \in Workers : v # w => counts'[v] = counts[v]
  BY <1>7, <1>8 DEF TypeOK
<1>10. /\ next' \in [Workers -> Nat \ {0}] /\ next'[w] = NextSpan(w) + 1
       /\ \A v \in Workers : v # w => next'[v] = next[v]
  <2>1. next' = [next EXCEPT ![w] = NextSpan(w) + 1] /\ NextSpan(w) + 1 \in Nat \ {0}
    BY <1>2 DEF Store
  <2> QED
    BY <2>1 DEF TypeOK
<1>11. /\ pc' \in [Workers -> {"idle", "start", "extract", "store", "summarise", "complete"}]
       /\ pc'[w] = "extract" /\ \A v \in Workers : v # w => pc'[v] = pc[v]
  BY DEF Store, TypeOK
<1>12. Others(w)
  BY <1>5, <1>9, <1>10, <1>11 DEF Others, Unmoved
<1>13. RecordsOK'
  BY <1>4, <1>5 DEF TypeOK, RecordsOK
<1>14. TypeOK'
  BY <1>1, <1>5, <1>9, <1>10, <1>11, <1>12, <1>13, TypeThreads DEF TypeOK
<1> QED
  BY <1>1, <1>3, <1>4, <1>5, <1>7, <1>9, <1>10, <1>11, <1>12, <1>14

(* A thread that answers its client is idle, whatever became of the job. *)
LEMMA FinishEffect ==
    ASSUME TypeOK, NEW w \in Workers, Finish(w)
    PROVE  /\ pc' \in [Workers -> {"idle", "start", "extract", "store", "summarise", "complete"}]
           /\ running' \in [Workers -> JobIds \cup {None}]
           /\ next' \in [Workers -> Nat \ {0}] /\ counts' \in [Workers -> Summaries]
           /\ pc'[w] = "idle" /\ Others(w)
<1>1. NoCounts \in Summaries
  BY DEF NoCounts, Summaries
<1> QED
  BY <1>1 DEF Finish, TypeOK, Others, Unmoved

LEMMA EndsEffect ==
    ASSUME TypeOK, NEW w \in Workers, NEW status \in {"failed", "completed"},
           \/ StoreFails(w) /\ status = "failed"
           \/ Complete(w) /\ status = "completed"
    PROVE  /\ TypeOK'
           /\ pc[w] = IF status = "failed" THEN "store" ELSE "complete"
           /\ pc'[w] = "idle" /\ Others(w) /\ OtherJobs(running[w])
           /\ jobs'[running[w]] \in Jobs
           /\ jobs'[running[w]].document = jobs[running[w]].document
           /\ jobs'[running[w]].status = status
           /\ jobs'[running[w]].summary = jobs[running[w]].summary
           /\ UNCHANGED <<revisions, memoryLog, callLog, dropped, created, restarts>>
<1> DEFINE j == running[w]
           job == [jobs[j] EXCEPT !.status = status]
<1>1. j \in JobIds /\ jobs[j] \in Jobs
  BY AtWork DEF Work
<1>2. /\ job \in Jobs /\ job.document = jobs[j].document /\ job.status = status
      /\ job.summary = jobs[j].summary
  BY <1>1, JobFields DEF Jobs
<1> HIDE DEF job
<1>3. jobs' = [jobs EXCEPT ![j] = job] /\ Finish(w)
  BY DEF StoreFails, Complete, job
<1>4. jobs' \in [JobIds -> Jobs \cup {None}] /\ jobs'[j] = job /\ OtherJobs(j)
  BY <1>1, <1>2, <1>3 DEF TypeOK, OtherJobs
<1>5. /\ pc' \in [Workers -> {"idle", "start", "extract", "store", "summarise", "complete"}]
      /\ running' \in [Workers -> JobIds \cup {None}]
      /\ next' \in [Workers -> Nat \ {0}] /\ counts' \in [Workers -> Summaries]
      /\ pc'[w] = "idle" /\ Others(w)
  BY <1>3, FinishEffect
<1>6. UNCHANGED <<revisions, memoryLog, callLog, dropped, created, restarts>>
  BY DEF StoreFails, Complete, logVars
<1>7. RecordsOK' /\ created' \in 0..MaxJobs
  BY <1>6 DEF TypeOK, RecordsOK
<1>8. \A k \in JobIds : jobs[k] \in Jobs => jobs'[k] \in Jobs
  BY <1>2, <1>4 DEF OtherJobs
<1>9. TypeOK'
  <2> HIDE DEF j
  <2> QED
    BY <1>1, <1>4, <1>5, <1>7, <1>8, TypeThreads
<1>10. pc[w] = IF status = "failed" THEN "store" ELSE "complete"
  BY DEF StoreFails, Complete
<1> QED
  BY <1>2, <1>4, <1>5, <1>6, <1>9, <1>10

LEMMA SummariseEffect ==
    ASSUME TypeOK, NEW w \in Workers, Summarise(w)
    PROVE  /\ TypeOK'
           /\ pc[w] = "summarise" /\ pc'[w] = "complete" /\ running'[w] = running[w]
           /\ next'[w] = next[w] /\ counts'[w] = counts[w]
           /\ jobs'[running[w]].document = jobs[running[w]].document
           /\ jobs'[running[w]].status = jobs[running[w]].status
           /\ jobs'[running[w]].summary = counts[w]
           /\ Others(w) /\ OtherJobs(running[w])
           /\ UNCHANGED <<revisions, memoryLog, callLog, dropped, created, restarts>>
<1> DEFINE j == running[w]
           job == [jobs[j] EXCEPT !.summary = counts[w]]
<1>1. j \in JobIds /\ jobs[j] \in Jobs /\ counts[w] \in Summaries
  BY AtWork DEF Work, TypeOK
<1>2. /\ job \in Jobs /\ job.document = jobs[j].document /\ job.status = jobs[j].status
      /\ job.summary = counts[w]
  BY <1>1, JobFields DEF Jobs
<1> HIDE DEF job
<1>3. jobs' = [jobs EXCEPT ![j] = job]
  BY DEF Summarise, job
<1>4. jobs' \in [JobIds -> Jobs \cup {None}] /\ jobs'[j] = job /\ OtherJobs(j)
  BY <1>1, <1>2, <1>3 DEF TypeOK, OtherJobs
<1>5. UNCHANGED <<revisions, memoryLog, callLog, dropped, running, next, counts,
                  created, restarts>>
  BY DEF Summarise, logVars
<1>6. /\ pc' \in [Workers -> {"idle", "start", "extract", "store", "summarise", "complete"}]
      /\ pc[w] = "summarise" /\ pc'[w] = "complete" /\ Others(w)
  BY <1>5 DEF Summarise, TypeOK, Others, Unmoved
<1>7. RecordsOK'
  BY <1>5 DEF TypeOK, RecordsOK
<1>8. \A k \in JobIds : jobs[k] \in Jobs => jobs'[k] \in Jobs
  BY <1>2, <1>4 DEF OtherJobs
<1>9. TypeOK'
  BY <1>1, <1>2, <1>4, <1>5, <1>6, <1>7, <1>8, TypeThreads DEF TypeOK
<1> QED
  BY <1>2, <1>4, <1>5, <1>6, <1>9

LEMMA RestartEffect ==
    ASSUME TypeOK, Restart
    PROVE  /\ TypeOK'
           /\ \A j \in JobIds : jobs'[j] = None
           /\ \A w \in Workers : pc'[w] = "idle"
           /\ UNCHANGED <<revisions, callLog, dropped, created>>
<1>1. NoCounts \in Summaries
  BY DEF NoCounts, Summaries
<1>2. restarts' \in 0..MaxRestarts
  BY BoundsAssumption DEF Restart, TypeOK
<1> QED
  BY <1>1, <1>2 DEF Restart, TypeOK

--------------------------------------------------------------------------------
(* The inductive invariant. *)

(* Ids are fresh: a job that is not created yet is not in the store, and has   *)
(* no revisions.  A job is run by one thread, and is not completed before that *)
(* thread lets go of it.                                                       *)
JobsOK ==
    /\ \A j \in JobIds : j > created => jobs[j] = None
    /\ \A i \in DOMAIN revisions : revisions[i].run <= created
    /\ \A w \in Workers : pc[w] # "idle" =>
        running[w] <= created /\ jobs[running[w]].status # "completed"
    /\ \A v, w \in Workers :
        pc[v] # "idle" /\ pc[w] # "idle" /\ running[v] = running[w] => v = w

(* How far a thread is: its job has stored the candidates it has left behind,  *)
(* and those it has counted.                                                   *)
Progress(w) ==
    LET stored == StoredBy(running[w])
    IN  /\ pc[w] = "start" => \A i \in DOMAIN revisions : revisions[i].run # running[w]
        /\ pc[w] \in {"extract", "store", "summarise", "complete"} =>
            /\ stored = {a \in Candidates(DocumentOf(w)) : a < next[w]}
            /\ counts[w].total = Cardinality(stored)
            /\ counts[w].pass = counts[w].total
        /\ pc[w] = "store" => Remaining(w) # {}
        /\ pc[w] \in {"summarise", "complete"} => Remaining(w) = {}
        /\ pc[w] = "complete" => jobs[running[w]].summary = counts[w]

(* The call of the span that a thread is about to store is logged. *)
CallIsLogged(w) ==
    LET call == [clause |-> ClauseOf(w), run |-> running[w]]
    IN  pc[w] = "store" => call \in memoryLog /\ call \in callLog \cup dropped

PipelineIInv ==
    /\ TypeOK
    /\ JobsOK
    /\ RunStoresPrefix
    /\ RevisionHasItsCall
    /\ \A w \in Workers : Progress(w) /\ CallIsLogged(w)
LEMMA InvInit == Init => PipelineIInv
<1> SUFFICES ASSUME Init
             PROVE  PipelineIInv
  OBVIOUS
<1>1. TypeOK
  BY TypeInit
<1>2. DOMAIN revisions = {} /\ \A j \in JobIds : jobs[j] = None
  BY DEF Init
<1>3. \A w \in Workers : pc[w] = "idle"
  BY DEF Init
<1>4. JobsOK
  BY <1>2, <1>3 DEF JobsOK
<1>5. RunStoresPrefix /\ RevisionHasItsCall
  BY <1>2 DEF RunStoresPrefix, RevisionHasItsCall
<1>6. \A w \in Workers : Progress(w) /\ CallIsLogged(w)
  BY <1>3 DEF Progress, CallIsLogged
<1> QED
  BY <1>1, <1>4, <1>5, <1>6 DEF PipelineIInv

(* What RunStoresPrefix says of the rows alone, of a row and its job, and of a *)
(* job that is completed.                                                      *)
RowsStand ==
    /\ \A i \in DOMAIN revisions : Reviewable(revisions[i])
    /\ \A i, k \in DOMAIN revisions : i < k /\ revisions[i].run = revisions[k].run =>
        revisions[i].clause[2] < revisions[k].clause[2]
    /\ \A i \in DOMAIN revisions : \A a \in Candidates(revisions[i].clause[1]) :
        a <= revisions[i].clause[2] => a \in StoredBy(revisions[i].run)
    /\ \A i \in DOMAIN revisions :
        revisions[i].clause[2] \in Candidates(revisions[i].clause[1])

RowsAgree ==
    \A i \in DOMAIN revisions : jobs[revisions[i].run] # None =>
        revisions[i].clause[1] = jobs[revisions[i].run].document

CompletedOK(j) ==
    jobs[j] # None /\ jobs[j].status = "completed" =>
        LET spans == Candidates(jobs[j].document)
        IN  /\ StoredBy(j) = spans
            /\ jobs[j].summary.total = Cardinality(spans)
            /\ jobs[j].summary.total = jobs[j].summary.pass

LEMMA PrefixParts ==
    RunStoresPrefix <=> RowsStand /\ RowsAgree /\ \A j \in JobIds : CompletedOK(j)
BY Zenon DEF RunStoresPrefix, RowsStand, RowsAgree, CompletedOK

LEMMA RowOfRevision ==
    ASSUME TypeOK, NEW i \in DOMAIN revisions
    PROVE  revisions[i] \in Rows /\ revisions[i].run \in JobIds
           /\ revisions[i].clause[1] \in Documents /\ revisions[i].clause[2] \in Nat \ {0}
<1>1. revisions[i] \in Rows
  BY DEF TypeOK
<1> QED
  BY <1>1 DEF Rows, Clauses

(* The rows stand as they were when none is added. *)
LEMMA RowsStay ==
    ASSUME UNCHANGED revisions, RowsStand
    PROVE  RowsStand' /\ \A j : StoredBy(j)' = StoredBy(j)
BY DEF RowsStand, StoredBy, Reviewable

(* The other threads and jobs do not see the step of a thread that stores      *)
(* nothing.                                                                    *)
LEMMA StoresNothing ==
    ASSUME PipelineIInv, NEW w \in Workers, pc[w] # "idle", TypeOK',
           UNCHANGED <<revisions, created>>, Others(w), OtherJobs(running[w]),
           pc'[w] # "idle" => running'[w] = running[w],
           jobs'[running[w]] \in Jobs,
           jobs'[running[w]].document = jobs[running[w]].document,
           pc'[w] # "idle" => jobs'[running[w]].status # "completed",
           \A k \in JobIds : k = running[w] => CompletedOK(k)', Progress(w)'
    PROVE  JobsOK' /\ RunStoresPrefix' /\ \A v \in Workers : Progress(v)'
<1> DEFINE j == running[w]
<1>1. j \in JobIds /\ jobs[j] \in Jobs /\ j <= created
  BY DEF PipelineIInv, TypeOK, JobsOK
<1>2. \A v \in Workers : v # w /\ pc'[v] # "idle" =>
        /\ pc[v] # "idle" /\ running'[v] = running[v] /\ running[v] # j
        /\ running[v] \in JobIds /\ jobs'[running[v]] = jobs[running[v]]
  BY DEF PipelineIInv, TypeOK, JobsOK, Others, Unmoved, OtherJobs
<1>3. /\ TypeOK /\ JobsOK /\ RowsStand /\ RowsAgree
      /\ \A k \in JobIds : CompletedOK(k)
      /\ \A v \in Workers : Progress(v)
  BY PrefixParts, Zenon DEF PipelineIInv
<1>4. RowsStand' /\ \A k : StoredBy(k)' = StoredBy(k)
  BY <1>3, RowsStay
<1>5. \A k \in JobIds : k # j => jobs'[k] = jobs[k]
  BY DEF OtherJobs
<1> HIDE DEF j
<1>6. JobsOK'
  <2>1. \A k \in JobIds : k > created' => jobs'[k] = None
    <3>1. created \in Nat
      BY <1>3, BoundsAssumption DEF TypeOK
    <3> QED
      BY <1>1, <1>3, <1>5, <3>1 DEF JobsOK, JobIds
  <2>2. \A i \in DOMAIN revisions' : revisions'[i].run <= created'
    BY <1>3 DEF JobsOK
  <2>3. ASSUME NEW v \in Workers, pc'[v] # "idle"
        PROVE  running'[v] <= created' /\ jobs'[running'[v]].status # "completed"
    <3>1. CASE v = w
      BY <1>1, <2>3, <3>1 DEF j
    <3>2. CASE v # w
      BY <1>2, <1>3, <2>3, <3>2 DEF JobsOK
    <3> QED
      BY <3>1, <3>2
  <2>4. ASSUME NEW v \in Workers, NEW u \in Workers, pc'[v] # "idle", pc'[u] # "idle",
               running'[v] = running'[u]
        PROVE  v = u
    BY <1>2, <1>3, <2>4 DEF JobsOK, j
  <2> QED
    BY <2>1, <2>2, <2>3, <2>4 DEF JobsOK
<1>7. RowsAgree'
  <2> SUFFICES ASSUME NEW i \in DOMAIN revisions, jobs'[revisions[i].run] # None
               PROVE  revisions[i].clause[1] = jobs'[revisions[i].run].document
    BY DEF RowsAgree
  <2>1. revisions[i].run \in JobIds
    BY <1>3, RowOfRevision
  <2>2. jobs[j] # None
    BY <1>1, NoneAssumption
  <2> QED
    BY <1>3, <1>5, <2>1, <2>2 DEF RowsAgree, j
<1>8. ASSUME NEW k \in JobIds
      PROVE  CompletedOK(k)'
  <2>1. CASE k = j
    BY <2>1 DEF j
  <2>2. CASE k # j
    BY <1>3, <1>4, <1>5, <2>2 DEF CompletedOK
  <2> QED
    BY <2>1, <2>2
<1>9. RunStoresPrefix'
  BY <1>4, <1>7, <1>8, Zenon DEF RunStoresPrefix, RowsStand, RowsAgree, CompletedOK
<1>10. ASSUME NEW v \in Workers
       PROVE  Progress(v)'
  <2>1. CASE v = w
    BY <2>1
  <2>2. CASE v # w /\ pc'[v] # "idle"
    <3>1. /\ pc'[v] = pc[v] /\ running'[v] = running[v] /\ next'[v] = next[v]
          /\ counts'[v] = counts[v]
      BY <2>2 DEF Others, Unmoved
    <3>2. jobs'[running[v]] = jobs[running[v]]
      BY <1>2, <2>2
    <3>3. DocumentOf(v)' = DocumentOf(v) /\ Remaining(v)' = Remaining(v)
      BY <3>1, <3>2 DEF DocumentOf, Remaining
    <3>4. StoredBy(running[v])' = StoredBy(running[v])
      BY <1>4, <3>1 DEF StoredBy
    <3> QED
      BY <1>3, <3>1, <3>2, <3>3, <3>4 DEF Progress
  <2>3. CASE pc'[v] = "idle"
    BY <2>3 DEF Progress
  <2> QED
    BY <2>1, <2>2, <2>3
<1> QED
  BY <1>6, <1>9, <1>10

(* The log keeps what it has, for as long as a job is known. *)
LEMMA LogGrows ==
    ASSUME PipelineIInv, NEW w \in Workers, pc[w] # "idle",
           UNCHANGED revisions, Others(w), OtherJobs(running[w]),
           jobs'[running[w]].document = jobs[running[w]].document,
           memoryLog \subseteq memoryLog', callLog \cup dropped \subseteq callLog' \cup dropped',
           CallIsLogged(w)'
    PROVE  RevisionHasItsCall' /\ \A v \in Workers : CallIsLogged(v)'
<1> DEFINE j == running[w]
<1>1. j \in JobIds /\ jobs[j] # None
  BY NoneAssumption DEF PipelineIInv, TypeOK
<1>2. TypeOK /\ JobsOK /\ RevisionHasItsCall /\ \A v \in Workers : CallIsLogged(v)
  BY DEF PipelineIInv
<1>3. \A k \in JobIds : jobs'[k] # None => jobs[k] # None
  BY <1>1 DEF OtherJobs
<1> HIDE DEF j
<1>4. RevisionHasItsCall'
  <2> SUFFICES ASSUME NEW i \in DOMAIN revisions
               PROVE  LET call == [clause |-> revisions[i].clause, run |-> revisions[i].run]
                      IN  /\ call \in callLog' \cup dropped'
                          /\ jobs'[revisions[i].run] # None => call \in memoryLog'
    BY DEF RevisionHasItsCall
  <2>1. revisions[i].run \in JobIds
    BY <1>2, RowOfRevision
  <2> QED
    BY <1>2, <1>3, <2>1 DEF RevisionHasItsCall
<1>5. ASSUME NEW v \in Workers, v # w, pc'[v] = "store"
      PROVE  CallIsLogged(v)'
  <2>1. pc[v] = "store" /\ running'[v] = running[v] /\ next'[v] = next[v]
    BY <1>5 DEF Others, Unmoved
  <2>2. running[v] # j /\ running[v] \in JobIds
    BY <1>2, <1>5, <2>1 DEF JobsOK, TypeOK, j
  <2>3. jobs'[running[v]] = jobs[running[v]]
    BY <2>2 DEF OtherJobs, j
  <2>4. ClauseOf(v)' = ClauseOf(v)
    BY <2>1, <2>3 DEF ClauseOf, OutcomeOf, NextSpan, Remaining, DocumentOf
  <2> QED
    BY <1>2, <2>1, <2>4 DEF CallIsLogged
<1>6. \A v \in Workers : CallIsLogged(v)'
  BY <1>5 DEF CallIsLogged
<1> QED
  BY <1>4, <1>6
LEMMA StartJobKeeps ==
    ASSUME PipelineIInv, NEW w \in Workers, StartJob(w)
    PROVE  PipelineIInv'
<1> DEFINE j == running[w]
<1>1. TypeOK /\ j \in JobIds /\ jobs[j] \in Jobs /\ Progress(w)
  BY AtWork DEF PipelineIInv, Work
<1>2. /\ TypeOK'
      /\ pc[w] = "start" /\ pc'[w] = "extract" /\ running'[w] = j
      /\ next'[w] = 1 /\ counts'[w] = NoCounts
      /\ jobs'[j].document = jobs[j].document /\ jobs'[j].status = "running"
      /\ Others(w) /\ OtherJobs(j)
      /\ UNCHANGED <<revisions, memoryLog, callLog, dropped, created, restarts>>
  BY <1>1, StartJobEffect
<1>3. jobs'[j] \in Jobs
  BY <1>2 DEF TypeOK
<1>4. StoredBy(j) = {}
  BY <1>1, <1>2 DEF Progress, StoredBy
<1>5. DocumentOf(w)' \in Documents
  BY <1>2, <1>3 DEF DocumentOf, Jobs
<1>6. {a \in Candidates(DocumentOf(w)') : a < 1} = {}
  BY <1>5, CandidateHasModal, ParagraphKind
<1>7. Progress(w)'
  <2>1. StoredBy(running[w])' = {}
    BY <1>2, <1>4 DEF StoredBy
  <2>2. Cardinality({}) = 0 /\ NoCounts.total = 0 /\ NoCounts.pass = 0
    BY FS_EmptySet DEF NoCounts
  <2> QED
    BY <1>2, <1>6, <2>1, <2>2 DEF Progress
<1>8. \A k \in JobIds : k = j => CompletedOK(k)'
  BY <1>2 DEF CompletedOK
<1>9. CallIsLogged(w)'
  BY <1>2 DEF CallIsLogged
<1>10. JobsOK' /\ RunStoresPrefix' /\ \A v \in Workers : Progress(v)'
  BY <1>2, <1>3, <1>7, <1>8, StoresNothing
<1>11. RevisionHasItsCall' /\ \A v \in Workers : CallIsLogged(v)'
  BY <1>2, <1>9, LogGrows
<1> QED
  BY <1>2, <1>10, <1>11 DEF PipelineIInv

LEMMA ExtractKeeps ==
    ASSUME PipelineIInv, NEW w \in Workers, Extract(w)
    PROVE  PipelineIInv'
<1> DEFINE j == running[w]
           call == [clause |-> ClauseOf(w), run |-> j]
<1>1. TypeOK /\ j \in JobIds /\ jobs[j] \in Jobs /\ Progress(w) /\ jobs[j].status # "completed"
  BY AtWork DEF PipelineIInv, Work, JobsOK
<1>2. /\ TypeOK'
      /\ pc[w] = "extract" /\ Remaining(w) # {} /\ pc'[w] = "store"
      /\ running'[w] = j /\ next'[w] = next[w] /\ counts'[w] = counts[w]
      /\ Others(w)
      /\ memoryLog' = memoryLog \cup {call}
      /\ callLog' \cup dropped' = callLog \cup dropped \cup {call}
      /\ UNCHANGED <<jobs, revisions, created, restarts>>
  BY <1>1, ExtractEffect
<1> HIDE DEF call
<1>3. DocumentOf(w)' = DocumentOf(w) /\ Remaining(w)' = Remaining(w) /\ ClauseOf(w)' = ClauseOf(w)
  BY <1>2 DEF DocumentOf, Remaining, ClauseOf, OutcomeOf, NextSpan
<1>4. StoredBy(running[w])' = StoredBy(j)
  BY <1>2 DEF StoredBy
<1>5. Progress(w)'
  BY <1>1, <1>2, <1>3, <1>4 DEF Progress
<1>6. \A k \in JobIds : k = j => CompletedOK(k)'
  BY <1>1, <1>2 DEF CompletedOK
<1>7. CallIsLogged(w)'
  BY <1>2, <1>3 DEF CallIsLogged, call
<1>8. OtherJobs(j) /\ jobs'[j] = jobs[j]
  BY <1>2 DEF OtherJobs
<1>9. JobsOK' /\ RunStoresPrefix' /\ \A v \in Workers : Progress(v)'
  BY <1>1, <1>2, <1>5, <1>6, <1>8, StoresNothing
<1>10. RevisionHasItsCall' /\ \A v \in Workers : CallIsLogged(v)'
  BY <1>2, <1>7, <1>8, LogGrows
<1> QED
  BY <1>2, <1>9, <1>10 DEF PipelineIInv

LEMMA ExtractNoMoreKeeps ==
    ASSUME PipelineIInv, NEW w \in Workers, ExtractNoMore(w)
    PROVE  PipelineIInv'
<1> DEFINE j == running[w]
<1>1. TypeOK /\ j \in JobIds /\ jobs[j] \in Jobs /\ Progress(w) /\ jobs[j].status # "completed"
  BY AtWork DEF PipelineIInv, Work, JobsOK
<1>2. /\ TypeOK'
      /\ pc[w] = "extract" /\ Remaining(w) = {} /\ pc'[w] = "summarise"
      /\ running'[w] = j /\ next'[w] = next[w] /\ counts'[w] = counts[w]
      /\ Others(w)
      /\ UNCHANGED <<jobs, revisions, memoryLog, callLog, dropped, created, restarts>>
  BY <1>1, ExtractNoMoreEffect
<1>3. DocumentOf(w)' = DocumentOf(w) /\ Remaining(w)' = Remaining(w)
  BY <1>2 DEF DocumentOf, Remaining
<1>4. StoredBy(running[w])' = StoredBy(j)
  BY <1>2 DEF StoredBy
<1>5. Progress(w)'
  BY <1>1, <1>2, <1>3, <1>4 DEF Progress
<1>6. \A k \in JobIds : k = j => CompletedOK(k)'
  BY <1>1, <1>2 DEF CompletedOK
<1>7. CallIsLogged(w)'
  BY <1>2 DEF CallIsLogged
<1>8. OtherJobs(j) /\ jobs'[j] = jobs[j]
  BY <1>2 DEF OtherJobs
<1>9. JobsOK' /\ RunStoresPrefix' /\ \A v \in Workers : Progress(v)'
  BY <1>1, <1>2, <1>5, <1>6, <1>8, StoresNothing
<1>10. RevisionHasItsCall' /\ \A v \in Workers : CallIsLogged(v)'
  BY <1>2, <1>7, <1>8, LogGrows
<1> QED
  BY <1>2, <1>9, <1>10 DEF PipelineIInv

LEMMA SummariseKeeps ==
    ASSUME PipelineIInv, NEW w \in Workers, Summarise(w)
    PROVE  PipelineIInv'
<1> DEFINE j == running[w]
<1>1. TypeOK /\ j \in JobIds /\ jobs[j] \in Jobs /\ Progress(w) /\ jobs[j].status # "completed"
  BY AtWork DEF PipelineIInv, Work, JobsOK
<1>2. /\ TypeOK'
      /\ pc[w] = "summarise" /\ pc'[w] = "complete" /\ running'[w] = j
      /\ next'[w] = next[w] /\ counts'[w] = counts[w]
      /\ jobs'[j].document = jobs[j].document /\ jobs'[j].status = jobs[j].status
      /\ jobs'[j].summary = counts[w]
      /\ Others(w) /\ OtherJobs(j)
      /\ UNCHANGED <<revisions, memoryLog, callLog, dropped, created, restarts>>
  BY <1>1, SummariseEffect
<1>3. DocumentOf(w)' = DocumentOf(w) /\ Remaining(w)' = Remaining(w)
  BY <1>2 DEF DocumentOf, Remaining
<1>4. StoredBy(running[w])' = StoredBy(j)
  BY <1>2 DEF StoredBy
<1>5. Progress(w)'
  BY <1>1, <1>2, <1>3, <1>4 DEF Progress
<1>6. \A k \in JobIds : k = j => CompletedOK(k)'
  BY <1>1, <1>2 DEF CompletedOK
<1>7. CallIsLogged(w)'
  BY <1>2 DEF CallIsLogged
<1>8. jobs'[j] \in Jobs
  BY <1>2 DEF TypeOK
<1>9. JobsOK' /\ RunStoresPrefix' /\ \A v \in Workers : Progress(v)'
  BY <1>1, <1>2, <1>5, <1>6, <1>8, StoresNothing
<1>10. RevisionHasItsCall' /\ \A v \in Workers : CallIsLogged(v)'
  BY <1>2, <1>7, LogGrows
<1> QED
  BY <1>2, <1>9, <1>10 DEF PipelineIInv

(* A job fails with what it has stored; it is completed with a summary that    *)
(* counts it all.                                                              *)
LEMMA EndsKeeps ==
    ASSUME PipelineIInv, NEW w \in Workers, StoreFails(w) \/ Complete(w)
    PROVE  PipelineIInv'
<1> DEFINE j == running[w]
<1>1. TypeOK /\ j \in JobIds /\ jobs[j] \in Jobs /\ Progress(w)
  BY AtWork DEF PipelineIInv, Work
<1>2. PICK status \in {"failed", "completed"} :
        \/ StoreFails(w) /\ status = "failed"
        \/ Complete(w) /\ status = "completed"
  <2>1. CASE StoreFails(w)
    <3> WITNESS "failed" \in {"failed", "completed"}
    <3> QED
      BY <2>1
  <2>2. CASE Complete(w)
    <3> WITNESS "completed" \in {"failed", "completed"}
    <3> QED
      BY <2>2
  <2> QED
    BY <2>1, <2>2
<1>3. /\ TypeOK'
      /\ pc[w] = IF status = "failed" THEN "store" ELSE "complete"
      /\ pc'[w] = "idle" /\ Others(w) /\ OtherJobs(j)
      /\ jobs'[j] \in Jobs
      /\ jobs'[j].document = jobs[j].document /\ jobs'[j].status = status
      /\ jobs'[j].summary = jobs[j].summary
      /\ UNCHANGED <<revisions, memoryLog, callLog, dropped, created, restarts>>
  BY <1>1, <1>2, EndsEffect
<1>4. Progress(w)' /\ CallIsLogged(w)'
  BY <1>3 DEF Progress, CallIsLogged
<1>6. ASSUME status = "completed"
      PROVE  /\ StoredBy(j) = Candidates(jobs[j].document)
             /\ jobs[j].summary.total = Cardinality(StoredBy(j))
             /\ jobs[j].summary.pass = jobs[j].summary.total
  <2>1. pc[w] = "complete"
    BY <1>3, <1>6
  <2>2. /\ StoredBy(j) = {a \in Candidates(DocumentOf(w)) : a < next[w]}
        /\ counts[w].total = Cardinality(StoredBy(j)) /\ counts[w].pass = counts[w].total
        /\ Remaining(w) = {} /\ jobs[j].summary = counts[w]
    BY <1>1, <2>1 DEF Progress
  <2>3. /\ DocumentOf(w) \in Documents
        /\ Remaining(w) = {a \in Candidates(DocumentOf(w)) : a >= next[w]}
    BY <1>1, <2>1, NextSpanKind
  <2>4. \A a \in Candidates(DocumentOf(w)) : a \in Nat /\ ~(a >= next[w])
    BY <2>2, <2>3, CandidateHasModal, ParagraphKind
  <2>5. next[w] \in Nat
    BY <1>1 DEF TypeOK
  <2> QED
    BY <2>2, <2>4, <2>5 DEF DocumentOf
<1>7. \A k \in JobIds : k = j => CompletedOK(k)'
  <2> SUFFICES ASSUME status = "completed", NEW k \in JobIds, k = j
               PROVE  CompletedOK(k)'
    BY <1>3 DEF CompletedOK
  <2>1. StoredBy(k)' = StoredBy(j)
    BY <1>3 DEF StoredBy
  <2> QED
    BY <1>3, <1>6, <2>1 DEF CompletedOK
<1>8. jobs'[j] \in Jobs
  BY <1>3
<1>9. JobsOK' /\ RunStoresPrefix' /\ \A v \in Workers : Progress(v)'
  BY <1>1, <1>3, <1>4, <1>7, <1>8, StoresNothing
<1>10. RevisionHasItsCall' /\ \A v \in Workers : CallIsLogged(v)'
  BY <1>1, <1>3, <1>4, LogGrows
<1> QED
  BY <1>3, <1>9, <1>10 DEF PipelineIInv

(* A restart forgets the jobs; the rows stand by themselves. *)
LEMMA RestartKeeps ==
    ASSUME PipelineIInv, Restart
    PROVE  PipelineIInv'
<1>1. TypeOK /\ JobsOK /\ RowsStand /\ RevisionHasItsCall
  BY PrefixParts DEF PipelineIInv
<1>2. /\ TypeOK' /\ \A j \in JobIds : jobs'[j] = None
      /\ \A w \in Workers : pc'[w] = "idle"
      /\ UNCHANGED <<revisions, callLog, dropped, created>>
  BY <1>1, RestartEffect
<1>3. \A i \in DOMAIN revisions : revisions[i].run \in JobIds
  BY <1>1, RowOfRevision
<1>4. JobsOK'
  BY <1>1, <1>2 DEF JobsOK
<1>5. RowsStand'
  BY <1>1, <1>2, RowsStay
<1>6. RowsAgree' /\ \A j \in JobIds : CompletedOK(j)'
  BY <1>2, <1>3 DEF RowsAgree, CompletedOK
<1>7. RunStoresPrefix'
  BY <1>5, <1>6, Zenon DEF RunStoresPrefix, RowsStand, RowsAgree, CompletedOK
<1>8. RevisionHasItsCall'
  BY <1>1, <1>2, <1>3 DEF RevisionHasItsCall
<1>9. \A w \in Workers : Progress(w)' /\ CallIsLogged(w)'
  BY <1>2 DEF Progress, CallIsLogged
<1> QED
  BY <1>2, <1>4, <1>7, <1>8, <1>9 DEF PipelineIInv
(* The row that a thread stores. *)
LEMMA StoredAfter ==
    ASSUME TypeOK, NEW row \in Rows, revisions' = Append(revisions, row)
    PROVE  /\ DOMAIN revisions = 1..Len(revisions) /\ Len(revisions) \in Nat
           /\ DOMAIN revisions' = 1..(Len(revisions) + 1)
           /\ \A i \in 1..Len(revisions) : revisions'[i] = revisions[i]
           /\ revisions'[Len(revisions) + 1] = row
           /\ \A k \in JobIds : k # row.run => StoredBy(k)' = StoredBy(k)
           /\ \A k \in JobIds : k = row.run => StoredBy(k)' = StoredBy(k) \cup {row.clause[2]}
<1> DEFINE n == Len(revisions)
<1>1. /\ DOMAIN revisions = 1..n /\ n \in Nat
      /\ DOMAIN revisions' = 1..(n + 1)
      /\ \A i \in 1..n : revisions'[i] = revisions[i]
      /\ revisions'[n + 1] = row
  BY DEF TypeOK
<1> HIDE DEF n
<1>2. \A i : i \in 1..(n + 1) <=> i \in 1..n \/ i = n + 1
  BY <1>1
<1>3. ~ (n + 1 \in 1..n)
  BY <1>1
<1>4. ASSUME NEW k \in JobIds
      PROVE  \A a : a \in StoredBy(k)' <=>
                a \in StoredBy(k) \/ (k = row.run /\ a = row.clause[2])
  <2> DEFINE old(a) == \E i \in 1..n : revisions[i].run = k /\ a = revisions[i].clause[2]
             all(a) == \E i \in 1..(n + 1) :
                            revisions'[i].run = k /\ a = revisions'[i].clause[2]
             added(a) == k = row.run /\ a = row.clause[2]
  <2>1. \A a : a \in StoredBy(k) <=> old(a)
    BY <1>1 DEF StoredBy
  <2>2. \A a : a \in StoredBy(k)' <=> all(a)
    BY <1>1 DEF StoredBy
  <2>3. \A a : all(a) <=> old(a) \/ added(a)
    BY <1>1, <1>2, Zenon
  <2> HIDE DEF old, all, added
  <2>4. \A a : a \in StoredBy(k)' <=> a \in StoredBy(k) \/ added(a)
    BY <2>1, <2>2, <2>3, Zenon
  <2> QED
    BY <2>4 DEF added
<1> QED
  BY <1>1, <1>4 DEF n

(* The row that a thread stores is ready for review, comes after what its run  *)
(* has stored, and leaves no candidate out.                                    *)
LEMMA RowFollows ==
    ASSUME PipelineIInv, NEW w \in Workers, pc[w] = "store", OutcomeOf(w).overall = "pass"
    PROVE  LET row == RowOf(w)
               d == DocumentOf(w)
               i == NextSpan(w)
           IN  /\ Reviewable(row)
               /\ row.run = running[w] /\ row.clause = <<d, i>>
               /\ d \in Documents /\ i \in Candidates(d) /\ i \in Nat \ {0}
               /\ \A a \in StoredBy(running[w]) : a < i
               /\ \A a \in Candidates(d) : a < i => a \in StoredBy(running[w])
               /\ StoredBy(running[w]) \cup {i} = {a \in Candidates(d) : a < i + 1}
               /\ Cardinality(StoredBy(running[w]) \cup {i}) = counts[w].total + 1
               /\ counts[w].pass = counts[w].total /\ counts[w].total \in Nat
<1> DEFINE row == RowOf(w)
           d == DocumentOf(w)
           i == NextSpan(w)
           p == Paragraphs[d][i]
           stored == StoredBy(running[w])
<1>1. /\ TypeOK /\ Remaining(w) # {}
      /\ stored = {a \in Candidates(d) : a < next[w]}
      /\ counts[w].total = Cardinality(stored) /\ counts[w].pass = counts[w].total
  BY DEF PipelineIInv, Progress
<1>2. /\ d \in Documents
      /\ Remaining(w) = {a \in Candidates(d) : a >= next[w]}
      /\ i \in Remaining(w) /\ \A a \in Remaining(w) : i <= a
      /\ i \in Nat \ {0} /\ i \in Candidates(d)
      /\ OutcomeOf(w).proposal = ProposalOf(d, i)
      /\ OutcomeOf(w).proposal.clause_id = <<d, i>>
  BY <1>1, NextSpanKind DEF ClauseOf
<1>3. next[w] \in Nat
  BY <1>1 DEF TypeOK
<1> HIDE DEF stored, d, i
<1>4. \A a \in Candidates(d) :
        a \in DOMAIN Paragraphs[d] /\ a \in 1..Len(Paragraphs[d]) /\ a \in Nat \ {0}
  <2> TAKE a \in Candidates(d)
  <2>1. a \in DOMAIN Paragraphs[d]
    BY <1>2, CandidateHasModal
  <2> QED
    BY <1>2, <2>1, ParagraphKind
<1>5. \A a \in stored : a < i
  <2>1. i >= next[w]
    BY <1>2
  <2>2. \A a \in stored : a \in Nat /\ a < next[w]
    BY <1>1, <1>4
  <2> QED
    BY <1>2, <1>3, <2>1, <2>2
<1>6. \A a \in Candidates(d) : a < i => a \in stored
  <2> TAKE a \in Candidates(d)
  <2> HAVE a < i
  <2>1. a \notin Remaining(w) /\ a \in Nat
    <3>1. i \in Nat /\ \A b \in Remaining(w) : i <= b
      BY <1>2
    <3>2. a \in Nat
      BY <1>4
    <3> QED
      BY <3>1, <3>2
  <2>2. a < next[w]
    BY <1>2, <1>3, <2>1
  <2> QED
    BY <1>1, <2>2
<1>7. stored \cup {i} = {a \in Candidates(d) : a < i + 1}
  <2>1. \A a \in Candidates(d) : a < i + 1 <=> a < i \/ a = i
    BY <1>2, <1>4
  <2>2. \A a \in stored : a \in Candidates(d)
    BY <1>1
  <2> QED
    BY <1>2, <1>5, <1>6, <2>1, <2>2
<1>8. IsFiniteSet(stored)
  <2>1. Len(Paragraphs[d]) \in Nat
    BY <1>2, ParagraphKind
  <2>2. IsFiniteSet(1..Len(Paragraphs[d]))
    BY <2>1, FS_Interval
  <2>3. stored \subseteq 1..Len(Paragraphs[d])
    BY <1>1, <1>4
  <2> QED
    BY <2>2, <2>3, FS_Subset
<1>9. Cardinality(stored \cup {i}) = counts[w].total + 1 /\ counts[w].total \in Nat
  <2>1. i \notin stored
    BY <1>2, <1>5
  <2>2. Cardinality(stored \cup {i}) = Cardinality(stored) + 1
    BY <1>8, <2>1, FS_AddElement
  <2>3. Cardinality(stored) \in Nat
    BY <1>8, FS_CardinalityType
  <2> QED
    BY <1>1, <2>2, <2>3
<1>10. row.run = running[w] /\ row.clause = <<d, i>> /\ row.report = "pass"
       /\ row.status = "pending"
       /\ row.semantics = ProposalOf(d, i).legal_semantics
       /\ row.references = ProposalOf(d, i).related_articles
  BY <1>2 DEF RowOf, RouteReviewStatus
<1> HIDE DEF row, p
<1>11. /\ ProposalOf(d, i).legal_semantics.modality \in p.modals
       /\ ProposalOf(d, i).legal_semantics.norm_type = "permission" <=> p.modals = {"may"}
       /\ ProposalOf(d, i).legal_semantics.deadline # None => p.action # <<>>
       /\ OnceMentioned(ProposalOf(d, i).related_articles, p)
  BY <1>2, ProposalIsOfItsText DEF p
<1>12. Reviewable(row)
  <2>1. Paragraphs[row.clause[1]][row.clause[2]] = p
    BY <1>10 DEF p
  <2> QED
    BY <1>10, <1>11, <2>1 DEF Reviewable, OnceMentioned
<1> QED
  BY <1>1, <1>2, <1>5, <1>6, <1>7, <1>9, <1>10, <1>12 DEF row, d, i, stored

LEMMA StoreKeepsJobs ==
    ASSUME PipelineIInv, NEW w \in Workers, Store(w)
    PROVE  TypeOK' /\ JobsOK' /\ \A v \in Workers : Progress(v)'
<1> DEFINE j == running[w]
           d == DocumentOf(w)
           i == NextSpan(w)
<1>1. TypeOK /\ JobsOK /\ j \in JobIds /\ jobs[j] \in Jobs /\ pc[w] = "store" /\ Remaining(w) # {}
  BY AtWork DEF PipelineIInv, Work, Store, Progress
<1>2. /\ TypeOK'
      /\ pc'[w] = "extract" /\ running'[w] = j /\ next'[w] = i + 1
      /\ OutcomeOf(w).overall = "pass"
      /\ counts'[w].total = counts[w].total + 1 /\ counts'[w].pass = counts[w].pass + 1
      /\ revisions' = Append(revisions, RowOf(w)) /\ RowOf(w) \in Rows
      /\ Others(w)
      /\ UNCHANGED <<jobs, memoryLog, callLog, dropped, created, restarts>>
  BY <1>1, StoreEffect
<1>3. /\ RowOf(w).run = j
      /\ RowOf(w).clause = <<d, i>>
      /\ StoredBy(j) \cup {i} = {a \in Candidates(d) : a < i + 1}
      /\ Cardinality(StoredBy(j) \cup {i}) = counts[w].total + 1
      /\ counts[w].pass = counts[w].total
  BY <1>1, <1>2, RowFollows
<1>4. /\ DOMAIN revisions' = 1..(Len(revisions) + 1) /\ DOMAIN revisions = 1..Len(revisions)
      /\ \A k \in 1..Len(revisions) : revisions'[k] = revisions[k]
      /\ revisions'[Len(revisions) + 1] = RowOf(w)
      /\ \A k \in JobIds : k # j => StoredBy(k)' = StoredBy(k)
      /\ \A k \in JobIds : k = j => StoredBy(k)' = StoredBy(k) \cup {i}
      /\ Len(revisions) \in Nat
  <2>1. RowOf(w).clause[2] = i
    BY <1>3
  <2> QED
    BY <1>1, <1>2, <1>3, <2>1, StoredAfter
<1>5. \A v \in Workers : v # w /\ pc'[v] # "idle" =>
        pc[v] # "idle" /\ running'[v] = running[v] /\ running[v] # j /\ running[v] \in JobIds
  BY <1>1, <1>2 DEF TypeOK, JobsOK, Others, Unmoved
<1> HIDE DEF j, d, i
<1>6. JobsOK'
  <2>1. \A k \in JobIds : k > created' => jobs'[k] = None
    BY <1>1, <1>2 DEF JobsOK
  <2>2. \A k \in DOMAIN revisions' : revisions'[k].run <= created'
    <3>1. j <= created
      BY <1>1 DEF JobsOK, j
    <3>2. \A k \in 1..Len(revisions) : revisions[k].run <= created
      BY <1>1, <1>4 DEF JobsOK
    <3>3. \A k \in 1..(Len(revisions) + 1) : k \in 1..Len(revisions) \/ k = Len(revisions) + 1
      BY <1>4
    <3> QED
      BY <1>2, <1>3, <1>4, <3>1, <3>2, <3>3
  <2>3. ASSUME NEW v \in Workers, pc'[v] # "idle"
        PROVE  running'[v] <= created' /\ jobs'[running'[v]].status # "completed"
    <3>1. CASE v = w
      BY <1>1, <1>2, <3>1 DEF JobsOK, j
    <3>2. CASE v # w
      BY <1>1, <1>2, <1>5, <2>3, <3>2 DEF JobsOK
    <3> QED
      BY <3>1, <3>2
  <2>4. ASSUME NEW v \in Workers, NEW u \in Workers, pc'[v] # "idle", pc'[u] # "idle",
               running'[v] = running'[u]
        PROVE  v = u
    BY <1>1, <1>2, <1>5, <2>4 DEF JobsOK
  <2> QED
    BY <2>1, <2>2, <2>3, <2>4 DEF JobsOK
<1>7. ASSUME NEW v \in Workers, v # w
      PROVE  Progress(v)'
  <2>1. CASE pc'[v] # "idle"
    <3>1. /\ pc'[v] = pc[v] /\ running'[v] = running[v] /\ next'[v] = next[v]
          /\ counts'[v] = counts[v]
      BY <1>2, <1>7 DEF Others, Unmoved
    <3>2. DocumentOf(v)' = DocumentOf(v) /\ Remaining(v)' = Remaining(v)
      BY <1>2, <3>1 DEF DocumentOf, Remaining
    <3>3. \A k \in JobIds : k = running[v] => StoredBy(k)' = StoredBy(k)
      BY <1>4, <1>5, <1>7, <2>1
    <3>4. StoredBy(running[v])' = StoredBy(running[v])
      <4>1. \A k \in JobIds : k = running[v] => StoredBy(running[v])' = StoredBy(k)'
        BY <3>1 DEF StoredBy
      <4> QED
        BY <1>5, <1>7, <2>1, <3>3, <4>1
    <3>5. Progress(v)
      BY DEF PipelineIInv
    <3>6. pc'[v] = "start" => \A k \in DOMAIN revisions' : revisions'[k].run # running'[v]
      <4>1. \A k \in 1..(Len(revisions) + 1) : k \in 1..Len(revisions) \/ k = Len(revisions) + 1
        BY <1>4
      <4> QED
        BY <1>3, <1>4, <1>5, <1>7, <2>1, <3>1, <3>5, <4>1 DEF Progress
    <3> QED
      BY <1>2, <3>1, <3>2, <3>4, <3>5, <3>6 DEF Progress
  <2>2. CASE pc'[v] = "idle"
    BY <2>2 DEF Progress
  <2> QED
    BY <2>1, <2>2
<1>8. Progress(w)'
  <2>1. DocumentOf(w)' = d
    BY <1>2 DEF DocumentOf, d, j
  <2>2. StoredBy(running[w])' = StoredBy(j) \cup {i}
    <3>1. \A k \in JobIds : k = j => StoredBy(running[w])' = StoredBy(k)'
      BY <1>2 DEF StoredBy
    <3> QED
      BY <1>1, <1>4, <3>1
  <2> QED
    BY <1>2, <1>3, <2>1, <2>2 DEF Progress
<1> QED
  BY <1>2, <1>6, <1>7, <1>8

(* What is stored stays a prefix: the next row is the next candidate. *)
LEMMA StoreKeepsPrefix ==
    ASSUME PipelineIInv, NEW w \in Workers, Store(w)
    PROVE  RunStoresPrefix'
<1> DEFINE j == running[w]
           d == DocumentOf(w)
           span == NextSpan(w)
           n == Len(revisions)
           row == RowOf(w)
<1>1. /\ TypeOK /\ JobsOK /\ j \in JobIds /\ jobs[j] \in Jobs
      /\ pc[w] = "store" /\ Remaining(w) # {}
      /\ RowsStand /\ RowsAgree /\ \A k \in JobIds : CompletedOK(k)
  BY AtWork, PrefixParts DEF PipelineIInv, Work, Store, Progress
<1>2. /\ OutcomeOf(w).overall = "pass" /\ row \in Rows
      /\ revisions' = Append(revisions, row) /\ UNCHANGED jobs
  BY <1>1, StoreEffect
<1>3. /\ Reviewable(row)
      /\ row.run = j /\ row.clause = <<d, span>>
      /\ d \in Documents /\ span \in Candidates(d) /\ span \in Nat \ {0}
      /\ \A a \in StoredBy(j) : a < span
      /\ \A a \in Candidates(d) : a < span => a \in StoredBy(j)
  BY <1>1, <1>2, RowFollows
<1>4. /\ DOMAIN revisions = 1..n /\ n \in Nat
      /\ DOMAIN revisions' = 1..(n + 1)
      /\ \A i \in 1..n : revisions'[i] = revisions[i]
      /\ revisions'[n + 1] = row
      /\ \A k \in JobIds : k # j => StoredBy(k)' = StoredBy(k)
      /\ \A k \in JobIds : k = j => StoredBy(k)' = StoredBy(k) \cup {span}
  <2>1. row.clause[2] = span
    BY <1>3
  <2> HIDE DEF row
  <2> QED
    BY <1>1, <1>2, <1>3, <2>1, StoredAfter
<1>5. \A i \in DOMAIN revisions : revisions[i].run \in JobIds
  BY <1>1, RowOfRevision
<1>6. row.clause[1] = d /\ row.clause[2] = span
  BY <1>3
<1>7. jobs[j].document = d /\ jobs[j].status # "completed" /\ jobs[j] # None
  BY <1>1, NoneAssumption DEF DocumentOf, JobsOK
<1> HIDE DEF j, d, span, n, row
<1>8. \A i \in 1..(n + 1) : i \in 1..n \/ i = n + 1
  BY <1>4
<1>9. \A i \in DOMAIN revisions' : Reviewable(revisions'[i])
  <2>1. \A i \in 1..n : Reviewable(revisions[i])
    BY <1>1, <1>4 DEF RowsStand
  <2> QED
    BY <1>3, <1>4, <1>8, <2>1
<1>10. ASSUME NEW i \in DOMAIN revisions', NEW k \in DOMAIN revisions', i < k,
              revisions'[i].run = revisions'[k].run
       PROVE  revisions'[i].clause[2] < revisions'[k].clause[2]
  <2>1. i \in 1..n
    BY <1>4, <1>10
  <2>2. CASE k \in 1..n
    BY <1>1, <1>4, <1>10, <2>1, <2>2 DEF RowsStand
  <2>3. CASE k = n + 1
    <3>1. revisions[i].run = j
      BY <1>3, <1>4, <1>10, <2>1, <2>3
    <3>2. revisions[i].clause[2] \in StoredBy(j)
      BY <1>4, <2>1, <3>1 DEF StoredBy
    <3> QED
      BY <1>3, <1>4, <1>6, <2>1, <2>3, <3>2
  <2> QED
    BY <1>4, <1>8, <2>2, <2>3
<1>11. ASSUME NEW i \in DOMAIN revisions', NEW a \in Candidates(revisions'[i].clause[1]),
              a <= revisions'[i].clause[2]
       PROVE  \A k \in JobIds : k = revisions'[i].run => a \in StoredBy(k)'
  <2> TAKE k \in JobIds
  <2> HAVE k = revisions'[i].run
  <2>1. CASE i \in 1..n
    <3>1. a \in StoredBy(revisions[i].run)
      BY <1>1, <1>4, <1>11, <2>1 DEF RowsStand
    <3> QED
      BY <1>4, <2>1, <3>1
  <2>2. CASE i = n + 1
    <3>1. a \in Candidates(d) /\ a <= span /\ k = j
      BY <1>3, <1>4, <1>6, <1>11, <2>2
    <3>2. a \in Nat
      BY <1>3, <3>1, CandidateHasModal, ParagraphKind
    <3>3. a < span \/ a = span
      BY <1>3, <3>1, <3>2
    <3> QED
      BY <1>3, <1>4, <3>1, <3>3
  <2> QED
    BY <1>4, <1>8, <2>1, <2>2
<1>12. \A i \in DOMAIN revisions' : revisions'[i].run \in JobIds
  BY <1>1, <1>3, <1>4, <1>5, <1>8
<1>13. \A i \in DOMAIN revisions' : \A a \in Candidates(revisions'[i].clause[1]) :
            a <= revisions'[i].clause[2] => a \in StoredBy(revisions[i].run)'
  BY <1>11, <1>12 DEF StoredBy
<1>14. ASSUME NEW i \in DOMAIN revisions'
       PROVE  /\ revisions'[i].clause[2] \in Candidates(revisions'[i].clause[1])
              /\ jobs'[revisions'[i].run] # None =>
                    revisions'[i].clause[1] = jobs'[revisions'[i].run].document
  <2>1. CASE i \in 1..n
    BY <1>1, <1>2, <1>4, <2>1 DEF RowsStand, RowsAgree
  <2>2. CASE i = n + 1
    BY <1>2, <1>3, <1>4, <1>6, <1>7, <2>2
  <2> QED
    BY <1>4, <1>8, <2>1, <2>2
<1>15. ASSUME NEW k \in JobIds
       PROVE  CompletedOK(k)'
  <2>1. CASE k = j
    BY <1>2, <1>7, <2>1 DEF CompletedOK
  <2>2. CASE k # j
    BY <1>1, <1>2, <1>4, <2>2 DEF CompletedOK
  <2> QED
    BY <2>1, <2>2
<1> QED
  BY <1>9, <1>10, <1>13, <1>14, <1>15 DEF RunStoresPrefix, CompletedOK

LEMMA StoreKeeps ==
    ASSUME PipelineIInv, NEW w \in Workers, Store(w)
    PROVE  PipelineIInv'
<1> DEFINE j == running[w]
           n == Len(revisions)
           row == RowOf(w)
<1>1. /\ TypeOK /\ JobsOK /\ j \in JobIds /\ jobs[j] \in Jobs /\ pc[w] = "store" /\ Remaining(w) # {}
      /\ RevisionHasItsCall
  BY AtWork DEF PipelineIInv, Work, Store, Progress
<1>2. /\ pc'[w] = "extract" /\ Others(w) /\ row \in Rows
      /\ revisions' = Append(revisions, row)
      /\ UNCHANGED <<jobs, memoryLog, callLog, dropped>>
  BY <1>1, StoreEffect
<1>3. /\ [clause |-> row.clause, run |-> row.run] \in memoryLog
      /\ [clause |-> row.clause, run |-> row.run] \in callLog \cup dropped
  <2>1. CallIsLogged(w)
    BY DEF PipelineIInv
  <2>2. row.clause = ClauseOf(w) /\ row.run = running[w]
    BY DEF RowOf, ClauseOf
  <2> QED
    BY <1>1, <2>1, <2>2 DEF CallIsLogged
<1> HIDE DEF row, n
<1>4. /\ DOMAIN revisions = 1..n /\ n \in Nat
      /\ DOMAIN revisions' = 1..(n + 1)
      /\ \A i \in 1..n : revisions'[i] = revisions[i]
      /\ revisions'[n + 1] = row
  BY <1>1, <1>2, StoredAfter DEF n
<1>5. \A i \in 1..(n + 1) : i \in 1..n \/ i = n + 1
  BY <1>4
<1>6. RevisionHasItsCall'
  <2> SUFFICES ASSUME NEW i \in DOMAIN revisions'
               PROVE  LET call == [clause |-> revisions'[i].clause, run |-> revisions'[i].run]
                      IN  /\ call \in callLog \cup dropped
                          /\ jobs[revisions'[i].run] # None => call \in memoryLog
    BY <1>2 DEF RevisionHasItsCall
  <2>1. CASE i \in 1..n
    BY <1>1, <1>4, <2>1 DEF RevisionHasItsCall
  <2>2. CASE i = n + 1
    BY <1>3, <1>4, <2>2
  <2> QED
    BY <1>4, <1>5, <2>1, <2>2
<1>7. ASSUME NEW v \in Workers, pc'[v] = "store"
      PROVE  CallIsLogged(v)'
  <2>1. v # w
    BY <1>2, <1>7
  <2>2. pc[v] = "store" /\ running'[v] = running[v] /\ next'[v] = next[v]
    BY <1>2, <1>7, <2>1 DEF Others, Unmoved
  <2>3. ClauseOf(v)' = ClauseOf(v)
    BY <1>2, <2>2 DEF ClauseOf, OutcomeOf, NextSpan, Remaining, DocumentOf
  <2>4. CallIsLogged(v)
    BY DEF PipelineIInv
  <2> QED
    BY <1>2, <2>2, <2>3, <2>4 DEF CallIsLogged
<1>8. \A v \in Workers : CallIsLogged(v)'
  BY <1>7 DEF CallIsLogged
<1> QED
  BY <1>6, <1>8, StoreKeepsJobs, StoreKeepsPrefix DEF PipelineIInv
(* A new job has no revisions yet, and no thread but its own. *)
LEMMA CreateJobKeeps ==
    ASSUME PipelineIInv, NEW w \in Workers, NEW d \in Documents, CreateJob(w, d)
    PROVE  PipelineIInv'
<1> DEFINE j == created'
<1>1. /\ TypeOK /\ JobsOK /\ RowsStand /\ RowsAgree /\ \A k \in JobIds : CompletedOK(k)
      /\ RevisionHasItsCall /\ \A v \in Workers : Progress(v) /\ CallIsLogged(v)
  BY PrefixParts DEF PipelineIInv
<1>2. /\ TypeOK'
      /\ pc[w] = "idle" /\ pc'[w] = "start" /\ running'[w] = j
      /\ j = created + 1 /\ j \in JobIds
      /\ jobs'[j] = [document |-> d, status |-> "queued", summary |-> NoCounts]
      /\ Others(w) /\ OtherJobs(j)
      /\ UNCHANGED <<revisions, memoryLog, callLog, dropped, restarts>>
  BY <1>1, CreateJobEffect
<1>3. created \in Nat /\ created < j
  BY <1>1, <1>2, BoundsAssumption DEF TypeOK
<1>4. jobs'[j].status = "queued"
  BY <1>2
<1> HIDE DEF j
<1>5. \A i \in DOMAIN revisions : revisions[i].run \in JobIds /\ revisions[i].run <= created
                                  /\ revisions[i].run # j
  <2> TAKE i \in DOMAIN revisions
  <2>1. revisions[i].run \in JobIds /\ revisions[i].run <= created
    BY <1>1, RowOfRevision DEF JobsOK
  <2>2. revisions[i].run \in Nat
    BY <2>1 DEF JobIds
  <2> QED
    BY <1>3, <2>1, <2>2
<1>6. \A k \in JobIds : k # j => jobs'[k] = jobs[k]
  BY <1>2 DEF OtherJobs
<1>7. \A v \in Workers : v # w /\ pc'[v] # "idle" =>
        /\ pc'[v] = pc[v] /\ running'[v] = running[v] /\ next'[v] = next[v]
        /\ counts'[v] = counts[v]
        /\ running[v] \in JobIds /\ running[v] <= created /\ running[v] # j
        /\ jobs'[running[v]] = jobs[running[v]]
  <2> SUFFICES ASSUME NEW v \in Workers, v # w, pc'[v] # "idle"
               PROVE  /\ Unmoved(v)
                      /\ running[v] \in JobIds /\ running[v] <= created /\ running[v] # j
    BY <1>6 DEF Unmoved
  <2>1. Unmoved(v)
    BY <1>2 DEF Others
  <2>2. running[v] \in JobIds /\ running[v] <= created
    BY <1>1, <2>1 DEF TypeOK, JobsOK, Unmoved
  <2>3. running[v] \in Nat
    BY <2>2 DEF JobIds
  <2> QED
    BY <1>3, <2>1, <2>2, <2>3
<1>8. JobsOK'
  <2>1. \A k \in JobIds : k > created' => jobs'[k] = None
    <3>1. \A k \in JobIds : k \in Nat
      BY DEF JobIds
    <3>2. \A k \in JobIds : k > created => jobs[k] = None
      BY <1>1 DEF JobsOK
    <3>3. \A k \in JobIds : k > j => jobs'[k] = None
      <4> TAKE k \in JobIds
      <4> HAVE k > j
      <4>1. k \in Nat /\ j \in Nat
        BY <1>2, <3>1
      <4>2. k # j /\ k > created
        BY <1>3, <4>1
      <4> QED
        BY <1>6, <3>2, <4>2
    <3> QED
      BY <3>3 DEF j
  <2>2. \A i \in DOMAIN revisions' : revisions'[i].run <= created'
    <3>1. \A i \in DOMAIN revisions : revisions[i].run \in Nat
      BY <1>5 DEF JobIds
    <3> QED
      BY <1>2, <1>3, <1>5, <3>1 DEF j
  <2>3. ASSUME NEW v \in Workers, pc'[v] # "idle"
        PROVE  running'[v] <= created' /\ jobs'[running'[v]].status # "completed"
    <3>1. CASE v = w
      BY <1>2, <1>3, <1>4, <3>1 DEF j
    <3>2. CASE v # w
      <4>1. running[v] \in Nat
        BY <1>7, <2>3, <3>2 DEF JobIds
      <4>2. /\ pc[v] # "idle" /\ running'[v] = running[v] /\ running[v] <= created
            /\ jobs'[running[v]] = jobs[running[v]]
        BY <1>7, <2>3, <3>2
      <4>3. jobs[running[v]].status # "completed"
        BY <1>1, <4>2 DEF JobsOK
      <4>4. j \in Nat /\ running[v] <= j
        BY <1>2, <1>3, <4>1, <4>2
      <4> QED
        BY <4>2, <4>3, <4>4 DEF j
    <3> QED
      BY <3>1, <3>2
  <2>4. ASSUME NEW v \in Workers, NEW u \in Workers, pc'[v] # "idle", pc'[u] # "idle",
               running'[v] = running'[u]
        PROVE  v = u
    <3>1. CASE v # w /\ u # w
      BY <1>1, <1>7, <2>4, <3>1 DEF JobsOK
    <3>2. CASE v = w \/ u = w
      BY <1>2, <1>7, <2>4, <3>2
    <3> QED
      BY <3>1, <3>2
  <2> QED
    BY <2>1, <2>2, <2>3, <2>4 DEF JobsOK
<1>9. RowsStand' /\ \A k : StoredBy(k)' = StoredBy(k)
  BY <1>1, <1>2, RowsStay
<1>10. RowsAgree'
  BY <1>1, <1>2, <1>5, <1>6 DEF RowsAgree
<1>11. ASSUME NEW k \in JobIds
       PROVE  CompletedOK(k)'
  <2>1. CASE k = j
    BY <1>4, <2>1 DEF CompletedOK
  <2>2. CASE k # j
    BY <1>1, <1>6, <1>9, <2>2 DEF CompletedOK
  <2> QED
    BY <2>1, <2>2
<1>12. RunStoresPrefix'
  BY <1>9, <1>10, <1>11, Zenon DEF RunStoresPrefix, RowsStand, RowsAgree, CompletedOK
<1>13. RevisionHasItsCall'
  BY <1>1, <1>2, <1>5, <1>6 DEF RevisionHasItsCall
<1>14. ASSUME NEW v \in Workers
       PROVE  Progress(v)' /\ CallIsLogged(v)'
  <2>1. CASE v = w
    <3>1. Progress(w)'
      BY <1>2, <1>5 DEF Progress
    <3>2. CallIsLogged(w)'
      BY <1>2 DEF CallIsLogged
    <3> QED
      BY <2>1, <3>1, <3>2
  <2>2. CASE v # w /\ pc'[v] # "idle"
    <3>1. /\ DocumentOf(v)' = DocumentOf(v) /\ Remaining(v)' = Remaining(v)
          /\ ClauseOf(v)' = ClauseOf(v)
      <4>1. /\ running'[v] = running[v] /\ next'[v] = next[v]
            /\ jobs'[running[v]] = jobs[running[v]]
        BY <1>7, <2>2
      <4> QED
        BY <4>1 DEF DocumentOf, Remaining, ClauseOf, OutcomeOf, NextSpan
    <3>2. StoredBy(running[v])' = StoredBy(running[v])
      <4>1. \A k \in JobIds : k = running[v] => StoredBy(running[v])' = StoredBy(k)'
        BY <1>7, <2>2 DEF StoredBy
      <4> QED
        BY <1>7, <1>9, <2>2, <4>1
    <3>3. Progress(v)'
      BY <1>1, <1>2, <1>7, <2>2, <3>1, <3>2 DEF Progress
    <3>4. CallIsLogged(v)'
      BY <1>1, <1>2, <1>7, <2>2, <3>1 DEF CallIsLogged
    <3> QED
      BY <3>3, <3>4
  <2>3. CASE pc'[v] = "idle"
    BY <2>3 DEF Progress, CallIsLogged
  <2> QED
    BY <2>1, <2>2, <2>3
<1> QED
  BY <1>2, <1>8, <1>12, <1>13, <1>14 DEF PipelineIInv

LEMMA InvNext == PipelineIInv /\ [Next]_vars => PipelineIInv'
<1> SUFFICES ASSUME PipelineIInv, [Next]_vars
             PROVE  PipelineIInv'
  OBVIOUS
<1>1. ASSUME NEW w \in Workers, NEW d \in Documents, CreateJob(w, d)
      PROVE  PipelineIInv'
  BY <1>1, CreateJobKeeps
<1>2. ASSUME NEW w \in Workers, Work(w)
      PROVE  PipelineIInv'
  <2>1. CASE StartJob(w)
    BY <2>1, StartJobKeeps
  <2>2. CASE Extract(w)
    BY <2>2, ExtractKeeps
  <2>3. CASE ExtractNoMore(w)
    BY <2>3, ExtractNoMoreKeeps
  <2>4. CASE Store(w)
    BY <2>4, StoreKeeps
  <2>5. CASE StoreFails(w) \/ Complete(w)
    BY <2>5, EndsKeeps
  <2>6. CASE Summarise(w)
    BY <2>6, SummariseKeeps
  <2> QED
    BY <1>2, <2>1, <2>2, <2>3, <2>4, <2>5, <2>6 DEF Work
<1>3. CASE Restart
  BY <1>3, RestartKeeps
<1>4. CASE UNCHANGED vars
  <2>1. UNCHANGED <<jobs, revisions, memoryLog, callLog, dropped, pc, running, next, counts,
                    created, restarts>>
    BY <1>4 DEF vars, logVars, threadVars
  <2>2. TypeOK' /\ JobsOK'
    BY <2>1 DEF PipelineIInv, TypeOK, JobsOK
  <2>3. RunStoresPrefix'
    BY <2>1 DEF PipelineIInv, RunStoresPrefix, StoredBy
  <2>4. RevisionHasItsCall'
    BY <2>1 DEF PipelineIInv, RevisionHasItsCall
  <2>5. ASSUME NEW w \in Workers
        PROVE  Progress(w)' /\ CallIsLogged(w)'
    <3>1. /\ DocumentOf(w)' = DocumentOf(w) /\ Remaining(w)' = Remaining(w)
          /\ ClauseOf(w)' = ClauseOf(w) /\ StoredBy(running[w])' = StoredBy(running[w])
      BY <2>1 DEF DocumentOf, Remaining, ClauseOf, OutcomeOf, NextSpan, StoredBy
    <3> QED
      BY <2>1, <3>1 DEF PipelineIInv, Progress, CallIsLogged
  <2> QED
    BY <2>2, <2>3, <2>4, <2>5 DEF PipelineIInv
<1> QED
  BY <1>1, <1>2, <1>3, <1>4 DEF Next

LEMMA Invariance == Spec => []PipelineIInv
BY InvInit, InvNext, PTL DEF Spec

--------------------------------------------------------------------------------

(* Every variable of ParsePipeline holds a value of its kind, whatever the     *)
(* documents hold and however many jobs run, and a thread at work has a job    *)
(* (parse_pipeline.py).                                                        *)
THEOREM TypeCorrect == Spec => []TypeOK
<1>1. PipelineIInv => TypeOK
  BY DEF PipelineIInv
<1> QED
  BY <1>1, Invariance, PTL

(* For any documents, threads, jobs and restarts: what a run has stored of its *)
(* document is a prefix of the candidate spans, in order and ready for review, *)
(* and a completed job has stored and counted them all (run_parse_job and the  *)
(* loop of the pipeline).                                                      *)
THEOREM RunStoresPrefixAlways == Spec => []RunStoresPrefix
<1>1. PipelineIInv => RunStoresPrefix
  BY DEF PipelineIInv
<1> QED
  BY <1>1, Invariance, PTL

(* Each stored revision has the agent call that it came from, in the database  *)
(* or known to be dropped there, and in memory while its job is known, for any *)
(* number of jobs, failed writes and restarts (the agent call log).            *)
THEOREM RevisionHasItsCallAlways == Spec => []RevisionHasItsCall
<1>1. PipelineIInv => RevisionHasItsCall
  BY DEF PipelineIInv
<1> QED
  BY <1>1, Invariance, PTL

--------------------------------------------------------------------------------
(* A job is short. *)

(* The statements that a thread may still run for its job: two for each span   *)
(* before it, and those around the loop.                                       *)
StepsLeft(w) ==
    CASE pc[w] = "start" -> 2 * Cardinality(Candidates(DocumentOf(w))) + 4
      [] pc[w] = "extract" -> 2 * Cardinality(Remaining(w)) + 3
      [] pc[w] = "store" -> 2 * Cardinality(Remaining(w)) + 2
      [] pc[w] = "summarise" -> 2
      [] pc[w] = "complete" -> 1
      [] OTHER -> 0

LEMMA CandidatesAreFinite ==
    ASSUME NEW d \in Documents
    PROVE  IsFiniteSet(Candidates(d))
<1> DEFINE all == DOMAIN Paragraphs[d]
<1>1. all = 1..Len(Paragraphs[d]) /\ Len(Paragraphs[d]) \in Nat
  <2>1. Paragraphs[d] \in Seq(Paragraph)
    BY DocumentsAssumption
  <2> QED
    BY <2>1
<1>2. IsFiniteSet(all)
  BY <1>1, FS_Interval
<1>3. Candidates(d) \in SUBSET all
  BY CandidateHasModal
<1> HIDE DEF all
<1> QED
  BY <1>2, <1>3, FS_Subset

(* What a thread at work has before it is part of its document. *)
LEMMA RemainingIsFinite ==
    ASSUME TypeOK, NEW w \in Workers, pc[w] # "idle"
    PROVE  /\ IsFiniteSet(Remaining(w)) /\ Cardinality(Remaining(w)) \in Nat
           /\ Cardinality(Candidates(DocumentOf(w))) \in Nat
           /\ Cardinality(Remaining(w)) <= Cardinality(Candidates(DocumentOf(w)))
<1>1. DocumentOf(w) \in Documents /\ Remaining(w) \in SUBSET Candidates(DocumentOf(w))
  BY NextSpanKind
<1>2. IsFiniteSet(Candidates(DocumentOf(w)))
  BY <1>1, CandidatesAreFinite
<1> QED
  BY <1>1, <1>2, FS_Subset, FS_CardinalityType

LEMMA StepsLeftKind ==
    ASSUME TypeOK, NEW w \in Workers, pc[w] # "idle"
    PROVE  StepsLeft(w) \in 1..2 * Cardinality(Candidates(DocumentOf(w))) + 4
<1> DEFINE all == Cardinality(Candidates(DocumentOf(w)))
           left == Cardinality(Remaining(w))
<1>1. all \in Nat /\ left \in Nat /\ left <= all
  BY RemainingIsFinite
<1>2. StepsLeft(w) \in {2 * all + 4, 2 * left + 3, 2 * left + 2, 2, 1}
  BY DEF StepsLeft, TypeOK
<1> HIDE DEF all, left
<1>3. StepsLeft(w) \in 1..2 * all + 4
  BY <1>1, <1>2
<1> QED
  BY <1>3 DEF all

(* Storing a span leaves those after it. *)
LEMMA StoreLeavesOneLess ==
    ASSUME PipelineIInv, NEW w \in Workers, Store(w)
    PROVE  Cardinality(Remaining(w))' = Cardinality(Remaining(w)) - 1
<1>1. TypeOK /\ pc[w] = "store" /\ Remaining(w) # {}
  BY DEF PipelineIInv, Progress, Store
<1>2. next'[w] = NextSpan(w) + 1 /\ running'[w] = running[w] /\ jobs' = jobs /\ TypeOK'
      /\ pc'[w] = "extract"
  BY <1>1, StoreEffect
<1>3. DocumentOf(w)' = DocumentOf(w)
  BY <1>2 DEF DocumentOf
<1>4. /\ Remaining(w) = {i \in Candidates(DocumentOf(w)) : i >= next[w]}
      /\ NextSpan(w) \in Remaining(w) /\ NextSpan(w) \in Nat
      /\ \A i \in Remaining(w) : NextSpan(w) <= i
  BY <1>1, NextSpanKind
<1>5. DocumentOf(w) \in Documents /\ next[w] \in Nat
  BY <1>1, NextSpanKind DEF TypeOK
<1>6. \A i \in Candidates(DocumentOf(w)) : i \in Nat
  BY <1>5, CandidateHasModal, ParagraphKind
<1>7. Remaining(w)' = {i \in Candidates(DocumentOf(w)) : i >= NextSpan(w) + 1}
  <2>1. DOMAIN Outcomes[DocumentOf(w)] = Candidates(DocumentOf(w))
    BY <1>5 DEF Outcomes
  <2> QED
    BY <1>2, <1>3, <2>1 DEF Remaining
<1> DEFINE before == Remaining(w)
           span == NextSpan(w)
<1>8. Remaining(w)' = before \ {span}
  <2>1. ASSUME NEW i \in Candidates(DocumentOf(w))
        PROVE  i >= span + 1 <=> i >= next[w] /\ i # span
    <3>1. i \in Nat /\ span \in Nat /\ next[w] \in Nat
      BY <1>4, <1>5, <1>6
    <3>2. span >= next[w] /\ (i >= next[w] => span <= i)
      BY <1>4
    <3> HIDE DEF span
    <3> QED
      BY <3>1, <3>2
  <2> QED
    BY <1>4, <1>7, <2>1
<1>9. IsFiniteSet(before) /\ span \in before /\ Cardinality(before) \in Nat
  BY <1>1, <1>4, RemainingIsFinite
<1> HIDE DEF before, span
<1>10. Cardinality(before \ {span}) = Cardinality(before) - 1
  BY <1>9, FS_RemoveElement
<1> QED
  BY <1>8, <1>10 DEF before

(* Each statement of a thread leaves it less to do. *)
LEMMA WorkLeavesLess ==
    ASSUME PipelineIInv, NEW w \in Workers, Work(w)
    PROVE  StepsLeft(w)' \in Nat /\ StepsLeft(w)' < StepsLeft(w)
<1>1. TypeOK /\ pc[w] # "idle" /\ running[w] \in JobIds
  BY AtWork DEF PipelineIInv
<1> DEFINE all == Cardinality(Candidates(DocumentOf(w)))
           left == Cardinality(Remaining(w))
           after == Cardinality(Remaining(w))'
<1>2. all \in Nat /\ left \in Nat /\ left <= all
  BY <1>1, RemainingIsFinite
<1>3. CASE StartJob(w)
  <2>1. /\ TypeOK' /\ pc[w] = "start" /\ pc'[w] = "extract" /\ running'[w] = running[w]
        /\ jobs'[running[w]].document = jobs[running[w]].document
    BY <1>1, <1>3, StartJobEffect
  <2>2. DocumentOf(w)' = DocumentOf(w)
    BY <2>1 DEF DocumentOf
  <2>3. TypeOK' => /\ after \in Nat
                   /\ after <= Cardinality(Candidates(DocumentOf(w)))'
    <3>1. DocumentOf(w)' \in Documents /\ Remaining(w)' \in SUBSET Candidates(DocumentOf(w)')
      <4>1. DocumentOf(w) \in Documents
        BY <1>1, NextSpanKind
      <4>2. DOMAIN Outcomes[DocumentOf(w)] = Candidates(DocumentOf(w))
        BY <4>1 DEF Outcomes
      <4> QED
        BY <2>2, <4>1, <4>2 DEF Remaining
    <3>2. IsFiniteSet(Candidates(DocumentOf(w)'))
      BY <3>1, CandidatesAreFinite
    <3> QED
      BY <3>1, <3>2, FS_Subset, FS_CardinalityType
  <2>4. after \in Nat /\ after <= all
    BY <2>1, <2>2, <2>3
  <2>5. StepsLeft(w) = 2 * all + 4 /\ StepsLeft(w)' = 2 * after + 3
    BY <2>1 DEF StepsLeft
  <2> HIDE DEF all, left, after
  <2> QED
    BY <1>2, <2>4, <2>5
<1>4. CASE Extract(w)
  <2>1. /\ pc[w] = "extract" /\ pc'[w] = "store" /\ running'[w] = running[w]
        /\ next'[w] = next[w] /\ jobs' = jobs
    BY <1>1, <1>4, ExtractEffect
  <2>2. Remaining(w)' = Remaining(w)
    BY <2>1 DEF Remaining, DocumentOf
  <2>3. StepsLeft(w) = 2 * left + 3 /\ StepsLeft(w)' = 2 * left + 2
    BY <2>1, <2>2 DEF StepsLeft
  <2> HIDE DEF all, left, after
  <2> QED
    BY <1>2, <2>3
<1>5. CASE ExtractNoMore(w)
  <2>1. pc[w] = "extract" /\ pc'[w] = "summarise"
    BY <1>1, <1>5, ExtractNoMoreEffect
  <2>2. StepsLeft(w) = 2 * left + 3 /\ StepsLeft(w)' = 2
    BY <2>1 DEF StepsLeft
  <2> HIDE DEF all, left, after
  <2> QED
    BY <1>2, <2>2
<1>6. CASE Store(w)
  <2>1. Remaining(w) # {} /\ pc[w] = "store"
    BY <1>6 DEF PipelineIInv, Progress, Store
  <2>2. pc'[w] = "extract"
    BY <1>1, <1>6, <2>1, StoreEffect
  <2>3. after = left - 1
    BY <1>6, StoreLeavesOneLess
  <2>4. left # 0
    BY <1>1, <2>1, RemainingIsFinite, FS_EmptySet
  <2>5. StepsLeft(w) = 2 * left + 2 /\ StepsLeft(w)' = 2 * after + 3
    BY <2>1, <2>2 DEF StepsLeft
  <2> HIDE DEF all, left, after
  <2> QED
    BY <1>2, <2>3, <2>4, <2>5
<1>7. CASE StoreFails(w) \/ Complete(w)
  <2>1. (pc[w] = "store" \/ pc[w] = "complete") /\ pc'[w] = "idle"
    BY <1>1, <1>7, EndsEffect
  <2>2. (StepsLeft(w) = 2 * left + 2 \/ StepsLeft(w) = 1) /\ StepsLeft(w)' = 0
    BY <2>1 DEF StepsLeft
  <2> HIDE DEF all, left, after
  <2> QED
    BY <1>2, <2>2
<1>8. CASE Summarise(w)
  <2>1. pc[w] = "summarise" /\ pc'[w] = "complete"
    BY <1>1, <1>8, SummariseEffect
  <2> QED
    BY <2>1 DEF StepsLeft
<1> QED
  BY <1>3, <1>4, <1>5, <1>6, <1>7, <1>8 DEF Work

(* The document of a thread at work stays, whatever the other threads do. *)
LEMMA OthersLeaveIt ==
    ASSUME PipelineIInv, NEW w \in Workers, pc[w] # "idle", ~Work(w), [Next]_vars
    PROVE  StepsLeft(w)' = StepsLeft(w) \/ StepsLeft(w)' = 0
<1>1. /\ TypeOK /\ JobsOK /\ running[w] \in JobIds /\ running[w] <= created
      /\ created \in Nat
  BY BoundsAssumption DEF PipelineIInv, TypeOK, JobsOK
<1>2. CASE Restart
  <2>1. pc'[w] = "idle"
    BY <1>1, <1>2, RestartEffect
  <2> QED
    BY <2>1 DEF StepsLeft
<1>3. ASSUME pc'[w] = pc[w], running'[w] = running[w], next'[w] = next[w],
             jobs'[running[w]] = jobs[running[w]]
      PROVE  StepsLeft(w)' = StepsLeft(w)
  <2>1. DocumentOf(w)' = DocumentOf(w)
    BY <1>3 DEF DocumentOf
  <2>2. Remaining(w)' = Remaining(w)
    BY <1>3, <2>1 DEF Remaining
  <2> QED
    BY <1>3, <2>1, <2>2 DEF StepsLeft
<1>4. ASSUME NEW v \in Workers, NEW d \in Documents, CreateJob(v, d)
      PROVE  StepsLeft(w)' = StepsLeft(w)
  <2>1. pc[v] = "idle" /\ Others(v) /\ OtherJobs(created') /\ created' = created + 1
    BY <1>1, <1>4, CreateJobEffect
  <2>2. v # w /\ running[w] # created'
    <3>1. running[w] \in Nat
      BY <1>1 DEF JobIds
    <3> QED
      BY <1>1, <2>1, <3>1
  <2> QED
    BY <1>1, <1>3, <2>1, <2>2 DEF Others, Unmoved, OtherJobs
<1>5. ASSUME NEW v \in Workers, Work(v)
      PROVE  StepsLeft(w)' = StepsLeft(w)
  <2>1. v # w /\ pc[v] # "idle" /\ running[v] \in JobIds
    BY <1>1, <1>5, AtWork
  <2>2. running[v] # running[w]
    BY <1>1, <2>1 DEF JobsOK
  <2>3. Others(v) /\ OtherJobs(running[v])
    <3>1. CASE StartJob(v)
      BY <1>1, <3>1, StartJobEffect
    <3>2. CASE Extract(v)
      BY <1>1, <3>2, ExtractEffect DEF OtherJobs
    <3>3. CASE ExtractNoMore(v)
      BY <1>1, <3>3, ExtractNoMoreEffect DEF OtherJobs
    <3>4. CASE Store(v)
      <4>1. Remaining(v) # {}
        BY <3>4 DEF PipelineIInv, Progress, Store
      <4> QED
        BY <1>1, <3>4, <4>1, StoreEffect DEF OtherJobs
    <3>5. CASE StoreFails(v) \/ Complete(v)
      BY <1>1, <3>5, EndsEffect
    <3>6. CASE Summarise(v)
      BY <1>1, <3>6, SummariseEffect
    <3> QED
      BY <1>5, <3>1, <3>2, <3>3, <3>4, <3>5, <3>6 DEF Work
  <2> QED
    BY <1>1, <1>3, <2>1, <2>2, <2>3 DEF Others, Unmoved, OtherJobs
<1>6. CASE UNCHANGED vars
  BY <1>3, <1>6 DEF vars, threadVars
<1> QED
  BY <1>2, <1>4, <1>5, <1>6 DEF Next

(* A job is over after two statements for each candidate span of its document, *)
(* and four, or with the process: no step of another thread leaves its thread  *)
(* more to do, and each of its own leaves it less.  That it takes these steps  *)
(* is its fairness (parse_pipeline.py, run_parse_job).                         *)
THEOREM JobsAreShort ==
    Spec => [][\A w \in Workers : pc[w] # "idle" =>
                /\ StepsLeft(w) \in 1..2 * Cardinality(Candidates(DocumentOf(w))) + 4
                /\ StepsLeft(w)' <= StepsLeft(w)
                /\ Work(w) => StepsLeft(w)' < StepsLeft(w)]_vars
<1> DEFINE Shorter(w) == pc[w] # "idle" =>
                /\ StepsLeft(w) \in 1..2 * Cardinality(Candidates(DocumentOf(w))) + 4
                /\ StepsLeft(w)' <= StepsLeft(w)
                /\ Work(w) => StepsLeft(w)' < StepsLeft(w)
<1>1. PipelineIInv /\ [Next]_vars => \A w \in Workers : Shorter(w)
  <2> SUFFICES ASSUME PipelineIInv, [Next]_vars, NEW w \in Workers, pc[w] # "idle"
               PROVE  Shorter(w)
    OBVIOUS
  <2>1. StepsLeft(w) \in 1..2 * Cardinality(Candidates(DocumentOf(w))) + 4
    BY StepsLeftKind DEF PipelineIInv
  <2>2. StepsLeft(w) \in Nat
    <3>1. Cardinality(Candidates(DocumentOf(w))) \in Nat
      BY RemainingIsFinite DEF PipelineIInv
    <3> QED
      BY <2>1, <3>1
  <2>3. CASE Work(w)
    <3>1. StepsLeft(w)' \in Nat /\ StepsLeft(w)' < StepsLeft(w)
      BY <2>3, WorkLeavesLess
    <3> QED
      BY <2>1, <2>2, <3>1
  <2>4. CASE ~Work(w)
    <3>1. StepsLeft(w)' = StepsLeft(w) \/ StepsLeft(w)' = 0
      BY <2>4, OthersLeaveIt
    <3> QED
      BY <2>1, <2>2, <2>4, <3>1
  <2> QED
    BY <2>3, <2>4
<1> QED
  BY <1>1, Invariance, PTL DEF Spec
================================================================================
