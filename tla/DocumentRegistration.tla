-------------------------- MODULE DocumentRegistration --------------------------
(***************************************************************************)
(* Registration of source documents: POST /v1/documents of clause_parser.  *)
(*                                                                         *)
(* A request runs on a thread of the service's pool with a session of its  *)
(* own; its lookups hold no transaction, its insert commits at once, and   *)
(* the raw bytes go to a write-once directory outside the database:        *)
(*                                                                         *)
(*   ChecksumLookup  the same bytes under this version: answer 200         *)
(*   ConflictLookup  other bytes under this version: answer 409            *)
(*   PutRaw          a fresh document id, and the bytes are stored         *)
(*   Insert          the canonical document's row is committed             *)
(*                                                                         *)
(* An artifact stands for its bytes, so equal artifacts have equal         *)
(* checksums.  The source format a request names decides how its bytes are *)
(* read, whatever they are: as UTF-8, or by the PDF library.  What they    *)
(* then hold decides how the request ends: the gate on the extraction of a *)
(* PDF and the structure of the text are those of the modules              *)
(* PdfExtraction and Canonicalization.                                     *)
(***************************************************************************)
EXTENDS Canonicalization, PdfExtraction

CONSTANTS
    Instruments,        \* names a request can give its instrument
    Known,              \* those the CanonicalDocument schema lists
    Versions,           \* pinned source versions
    Artifacts,          \* byte contents
    Contents,           \* what each artifact holds
    Workers,            \* threads of the service's pool
    BrokenWords,        \* the breaks a thread's host takes for broken words
    Thresholds,         \* values of RABBITQA_PDF_MIN_CONFIDENCE, in hundredths
    None,               \* Python's None
    MaxRequests         \* bound: requests ever received

ASSUME ContentsAssumption ==
    /\ Known \subseteq Instruments
    /\ None \notin Texts \cup Judgements
    /\ Contents \in [Artifacts -> [decoded : Texts \cup {None},
                                    extracted : Texts \cup {None},
                                    defects : SUBSET Defects, breaks : SUBSET Breaks]]
    /\ BrokenWords \in [Workers -> SUBSET Breaks]
    /\ Thresholds \subseteq Nat

VARIABLES
    documents,      \* canonical_documents: the committed rows
    raw,            \* the raw storage directory: the files written
    nextId,         \* the next fresh document id
    pc,             \* where each thread stands
    post,           \* the request a thread serves
    newId,          \* the document id a thread has generated
    requests,       \* requests received
    answers,        \* history variable: the answers given
    admitted,       \* history variable: how the text of each PDF was judged
    overlapped      \* history variable: versions two requests registered at once

vars == <<documents, raw, nextId, pc, post, newId, requests, answers, admitted, overlapped>>

--------------------------------------------------------------------------------

DocumentIds == Nat

SupportedSourceFormats == {"text", "pdf"}

Posts == [instrument : Instruments, version : Versions, artifact : Artifacts,
          source_format : SupportedSourceFormats]

Rows == [id : DocumentIds, instrument : Instruments, version : Versions,
         artifact : Artifacts, source_format : SupportedSourceFormats]

Files == [id : DocumentIds, version : Versions, artifact : Artifacts,
          source_format : SupportedSourceFormats]

Codes == {200, 201, 400, 409, 422, 500}

Answers == [post : Posts, code : Codes, document : DocumentIds \cup {None},
            judgement : Judgements \cup {None}]

Pinned(p) == <<p.instrument, p.version>>

(* Rows with the checksum and version of p.  The query names no instrument and *)
(* takes the first row of an unordered result.                                 *)
ChecksumMatches(p) ==
    {d \in documents : d.artifact = p.artifact /\ d.version = p.version}

(* Mutant: the instrument is not compared, any registration of the bytes counts. *)
ByChecksumAnyInstrument(p) ==
    IF ChecksumMatches(p) = {} THEN {None} ELSE {d.id : d \in ChecksumMatches(p)}

(* What get_by_checksum may return: one match, if its instrument is p's. *)
ByChecksum(p) ==
    IF ChecksumMatches(p) = {} THEN {None}
    ELSE {IF d.instrument = p.instrument THEN d.id ELSE None : d \in ChecksumMatches(p)}

ByInstrumentAndVersion(p) ==
    {d \in documents : d.instrument = p.instrument /\ d.version = p.version}

(* A payload outside the schema is refused after the fact: the document stays. *)
CodeFor(p, code) == IF p.instrument \in Known THEN code ELSE 400

(* The text the bytes hold when they are read as the request (or the row) says,*)
(* or None where that raises an exception nobody handles.  Any bytes that are  *)
(* UTF-8 are a text: those of a PDF may well be.                               *)
SourceText(p) ==
    IF p.source_format = "pdf" THEN Contents[p.artifact].extracted
    ELSE Contents[p.artifact].decoded

Readable(p) == SourceText(p) # None

(* There is more to the text than white space. *)
HasTextLayer(text) == \E i \in DOMAIN text : ~IsBlank(text[i])

LowConfidence(artifact, judgement) ==
    BelowThreshold(Contents[artifact].defects, Contents[artifact].breaks, judgement)

(* A PDF without a text layer, or with a confidence below the threshold. *)
RefusedByGate(p, judgement) ==
    /\ p.source_format = "pdf"
    /\ ~HasTextLayer(SourceText(p)) \/ LowConfidence(p.artifact, judgement)

(* How the host of a thread judges a text now: its environment is read by each *)
(* request that gets to the gate, its word list once.                          *)
JudgementsOf(w) == [brokenWords : {BrokenWords[w]}, threshold : Thresholds]

(* The structure of the canonical text. *)
StructureOf(p) == BuildStructure(CanonicalizeText(SourceText(p)))

Serving(p) == {w \in Workers : pc[w] # "idle" /\ Pinned(post[w]) = Pinned(p)}

--------------------------------------------------------------------------------

Init ==
    /\ documents = {}
    /\ raw = {}
    /\ nextId = 0
    /\ pc = [w \in Workers |-> "idle"]
    /\ post = [w \in Workers |-> None]
    /\ newId = [w \in Workers |-> None]
    /\ requests = 0
    /\ answers = {}
    /\ admitted = {}
    /\ overlapped = {}

(* The thread answers p, with the judgement of the gate if that refused it,    *)
(* and forgets it.                                                             *)
AnswerJudged(w, p, code, document, judgement) ==
    /\ answers' = answers \cup {[post |-> p, code |-> code, document |-> document,
                                 judgement |-> judgement]}
    /\ pc' = [pc EXCEPT ![w] = "idle"]
    /\ post' = [post EXCEPT ![w] = None]
    /\ newId' = [newId EXCEPT ![w] = None]

Answer(w, p, code, document) == AnswerJudged(w, p, code, document, None)

(* A request arrives, its bytes are read and hashed.  Requests with a format,  *)
(* a file type or a size that is not accepted are refused before this point;   *)
(* the file type is not compared with the format.                              *)
Receive(w, p) ==
    /\ pc[w] = "idle"
    /\ requests < MaxRequests
    /\ requests' = requests + 1
    /\ post' = [post EXCEPT ![w] = p]
    /\ pc' = [pc EXCEPT ![w] = "lookup"]
    /\ overlapped' = IF Serving(p) # {} THEN overlapped \cup {Pinned(p)} ELSE overlapped
    /\ UNCHANGED <<documents, raw, nextId, newId, answers, admitted>>

(* get_by_checksum finds the document: it is returned, not registered again. *)
ChecksumHit(w) ==
    /\ pc[w] = "lookup"
    /\ \E found \in ByChecksum(post[w]) \ {None} :
        Answer(w, post[w], CodeFor(post[w], 200), found)
    /\ UNCHANGED <<documents, raw, nextId, requests, admitted, overlapped>>

ChecksumMiss(w) ==
    /\ pc[w] = "lookup"
    /\ None \in ByChecksum(post[w])
    /\ pc' = [pc EXCEPT ![w] = "conflict"]
    /\ UNCHANGED <<documents, raw, nextId, post, newId, requests, answers, admitted, overlapped>>

(* The version is already pinned: 409. *)
ConflictHit(w) ==
    /\ pc[w] = "conflict"
    /\ ByInstrumentAndVersion(post[w]) # {}
    /\ Answer(w, post[w], 409, None)
    /\ UNCHANGED <<documents, raw, nextId, requests, admitted, overlapped>>

(* The extraction gate refuses the artifact: 422 before any id is generated or *)
(* any byte stored.  An empty text is refused before the threshold is read.    *)
ExtractionRefused(w) ==
    /\ pc[w] = "conflict"
    /\ ByInstrumentAndVersion(post[w]) = {}
    /\ Readable(post[w])
    /\ \E judgement \in JudgementsOf(w) :
        /\ RefusedByGate(post[w], judgement)
        /\ AnswerJudged(w, post[w], 422, None,
                        IF HasTextLayer(SourceText(post[w])) THEN judgement ELSE None)
    /\ UNCHANGED <<documents, raw, nextId, requests, admitted, overlapped>>

(* The bytes cannot be read in the format the request names. *)
Undecodable(w) ==
    /\ pc[w] = "conflict"
    /\ ByInstrumentAndVersion(post[w]) = {}
    /\ ~Readable(post[w])
    /\ Answer(w, post[w], 500, None)
    /\ UNCHANGED <<documents, raw, nextId, requests, admitted, overlapped>>

(* The text is taken: an id is drawn for it. *)
Admit(w, judgement) ==
    /\ newId' = [newId EXCEPT ![w] = nextId]
    /\ nextId' = nextId + 1
    /\ admitted' = IF post[w].source_format = "pdf"
                   THEN admitted \cup {[id |-> nextId, judgement |-> judgement]}
                   ELSE admitted
    /\ pc' = [pc EXCEPT ![w] = "put"]
    /\ UNCHANGED <<documents, raw, post, requests, answers, overlapped>>

(* Mutant: a low-confidence extraction is a warning, not a gate. *)
ConflictMissUngated(w) ==
    /\ pc[w] = "conflict"
    /\ ByInstrumentAndVersion(post[w]) = {}
    /\ Readable(post[w])
    /\ \E judgement \in JudgementsOf(w) : Admit(w, judgement)

(* Mutant: the pinned version is not looked up. *)
ConflictMissUnchecked(w) ==
    /\ pc[w] = "conflict"
    /\ Readable(post[w])
    /\ \E judgement \in JudgementsOf(w) :
        ~RefusedByGate(post[w], judgement) /\ Admit(w, judgement)

(* Mutant: the document id is also used as the confirmation before it is drawn. *)
ConflictMissNoId(w) ==
    /\ pc[w] = "conflict"
    /\ ByInstrumentAndVersion(post[w]) = {}
    /\ Readable(post[w])
    /\ \E judgement \in JudgementsOf(w) : ~RefusedByGate(post[w], judgement)
    /\ pc' = [pc EXCEPT ![w] = "put"]
    /\ UNCHANGED <<documents, raw, nextId, newId, post, requests, answers, admitted, overlapped>>

(* The version is free and the text passes. *)
ConflictMiss(w) ==
    /\ pc[w] = "conflict"
    /\ ByInstrumentAndVersion(post[w]) = {}
    /\ Readable(post[w])
    /\ \E judgement \in JudgementsOf(w) :
        ~RefusedByGate(post[w], judgement) /\ Admit(w, judgement)

(* Mutant: the bytes are stored in the background, after the row. *)
PutRawDeferred(w) ==
    /\ pc[w] = "put"
    /\ pc' = [pc EXCEPT ![w] = "insert"]
    /\ UNCHANGED <<documents, raw, nextId, post, newId, requests, answers, admitted, overlapped>>

(* The raw bytes are stored under the new id. *)
PutRaw(w) ==
    /\ pc[w] = "put"
    /\ raw' = raw \cup {[id |-> newId[w], version |-> post[w].version,
                         artifact |-> post[w].artifact,
                         source_format |-> post[w].source_format]}
    /\ pc' = [pc EXCEPT ![w] = "insert"]
    /\ UNCHANGED <<documents, nextId, post, newId, requests, answers, admitted, overlapped>>

(* Two anchors collide: the request fails, and the stored bytes stay behind. *)
StructureRefused(w) ==
    /\ pc[w] = "insert"
    /\ Collides(StructureOf(post[w]))
    /\ Answer(w, post[w], 500, None)
    /\ UNCHANGED <<documents, raw, nextId, requests, admitted, overlapped>>

(* The row is committed; only then is the payload checked against the schema. *)
Insert(w) ==
    /\ pc[w] = "insert"
    /\ ~Collides(StructureOf(post[w]))
    /\ documents' = documents \cup
            {[id |-> newId[w], instrument |-> post[w].instrument,
              version |-> post[w].version, artifact |-> post[w].artifact,
              source_format |-> post[w].source_format]}
    /\ Answer(w, post[w], CodeFor(post[w], 201), newId[w])
    /\ UNCHANGED <<raw, nextId, requests, admitted, overlapped>>

(* The request dies between two steps; what it has stored stays. *)
Fail(w) ==
    /\ pc[w] # "idle"
    /\ Answer(w, post[w], 500, None)
    /\ UNCHANGED <<documents, raw, nextId, requests, admitted, overlapped>>

Next ==
    \/ \E w \in Workers, p \in Posts : Receive(w, p)
    \/ \E w \in Workers : ChecksumHit(w)
    \/ \E w \in Workers : ChecksumMiss(w)
    \/ \E w \in Workers : ConflictHit(w)
    \/ \E w \in Workers : ExtractionRefused(w)
    \/ \E w \in Workers : Undecodable(w)
    \/ \E w \in Workers : ConflictMiss(w)
    \/ \E w \in Workers : PutRaw(w)
    \/ \E w \in Workers : StructureRefused(w)
    \/ \E w \in Workers : Insert(w)
    \/ \E w \in Workers : Fail(w)

Spec == Init /\ [][Next]_vars

--------------------------------------------------------------------------------

(* Every variable holds a value of its kind, and a thread past a step has what *)
(* the step drew.                                                              *)
TypeOK ==
    /\ documents \subseteq Rows
    /\ raw \subseteq Files
    /\ nextId \in Nat
    /\ pc \in [Workers -> {"idle", "lookup", "conflict", "put", "insert"}]
    /\ post \in [Workers -> Posts \cup {None}]
    /\ newId \in [Workers -> DocumentIds \cup {None}]
    /\ requests \in Nat
    /\ answers \subseteq Answers
    /\ admitted \subseteq [id : DocumentIds, judgement : Judgements]
    /\ overlapped \subseteq Instruments \X Versions
    /\ \A w \in Workers :
        /\ pc[w] # "idle" => post[w] \in Posts
        /\ pc[w] \in {"put", "insert"} => newId[w] \in DocumentIds

(* A registered document has its untouched source artifact in raw storage, and *)
(* no two rows or files share an id, whatever requests race or die half way.   *)
RowsHaveTheirArtifact ==
    /\ \A d \in documents :
        [id |-> d.id, version |-> d.version, artifact |-> d.artifact,
         source_format |-> d.source_format] \in raw
    /\ \A d, e \in documents : d.id = e.id => d = e
    /\ \A f, g \in raw : f.id = g.id => f = g

(* What a client is told it has registered is what it posted: an answer with a *)
(* document names one with the posted bytes, instrument and version; one just  *)
(* created has the posted format too.  (A document found by its bytes may be   *)
(* registered in the other format: the lookup does not compare it.)            *)
AnswersNameWhatWasPosted ==
    \A a \in answers : a.document # None =>
        \E d \in documents :
            /\ d.id = a.document
            /\ Pinned(d) = Pinned(a.post)
            /\ d.artifact = a.post.artifact
            /\ a.code = 201 => d.source_format = a.post.source_format

(* A PDF the gate has refused is not stored or registered as a PDF, now or     *)
(* later (section 5.1: no CanonicalDocument is created), unless it was judged  *)
(* otherwise: on a host that tells other breaks from broken words (the         *)
(* trade-off _load_word_dictionary names), or after the threshold was lowered. *)
(* Without a text layer it is never stored as a PDF.  The same bytes posted    *)
(* as text never meet the gate, and the property does not speak of them.       *)
RefusalIsFinal ==
    \A a \in answers, f \in raw :
        /\ a.code = 422
        /\ f.artifact = a.post.artifact
        /\ f.source_format = "pdf"
        =>  /\ a.judgement # None
            /\ \E g \in admitted :
                /\ g.id = f.id
                /\ \/ g.judgement.threshold < a.judgement.threshold
                   \/ ClassifyBrokenWordMatches(Contents[f.artifact].breaks, g.judgement)
                        # ClassifyBrokenWordMatches(Contents[f.artifact].breaks, a.judgement)

(* The structure of every registered document quotes its source faithfully,    *)
(* wherever the annexes are (section 2.1, and the comment on the annex         *)
(* boundary in build_structure).  It depends on the text alone, so that every  *)
(* text of Texts is judged as well, once, before the first request.            *)
StructureIsFaithful ==
    \A text \in IF requests = 0 THEN Texts
               ELSE {SourceText(d) : d \in documents} :
        IsFaithful(text)

(* A pinned version that no two requests registered at once has one document:  *)
(* it is immutable, and registration is idempotent (section 5.1).              *)
SerialVersionIsPinned ==
    \A d, e \in documents :
        Pinned(d) = Pinned(e) /\ Pinned(d) \notin overlapped => d = e

(* document_registry.py: a conflict is raised when the version is registered   *)
(* with different content.  (Requests that overlapped are not counted.)        *)
ConflictMeansOtherContent ==
    \A a \in answers : a.code = 409 /\ Pinned(a.post) \notin overlapped =>
        \E d \in documents : Pinned(d) = Pinned(a.post) /\ d.artifact # a.post.artifact

(* canonicalizer.py: the first annex heading "caps the LAST recognized         *)
(* article's span", so that every article still has its own text.              *)
ArticlesHaveText ==
    \A d \in documents : \A a \in StructureOf(d) : a.start < a.end
================================================================================
