----------------------- MODULE DocumentRegistrationProofs -----------------------
(***************************************************************************)
(* Proofs about DocumentRegistration, for every set of artifacts whatever  *)
(* is in them, every set of threads and every bound on the requests; and   *)
(* about Canonicalization, which it extends: what build_structure makes of *)
(* a text, for every sequence of lines of whatever length.                 *)
(***************************************************************************)
EXTENDS DocumentRegistration, WellFoundedInduction, TLAPS

--------------------------------------------------------------------------------
(* Type correctness. *)

RegistrationSteps == {"idle", "lookup", "conflict", "put", "insert"}

LEMMA TypeInit == Init => TypeOK
BY DEF Init, TypeOK

(* The codes answered are HTTP's. *)
LEMMA CodeForType ==
    ASSUME NEW p, NEW code \in Codes
    PROVE  CodeFor(p, code) \in Codes
BY DEF CodeFor, Codes

Unmoved(v) == pc'[v] = pc[v] /\ post'[v] = post[v] /\ newId'[v] = newId[v]

(* A thread that answers is idle; no other thread notices. *)
LEMMA AnswerEffect ==
    ASSUME TypeOK, NEW w \in Workers, NEW p \in Posts, NEW code \in Codes,
           NEW document \in DocumentIds \cup {None}, NEW judgement \in Judgements \cup {None},
           AnswerJudged(w, p, code, document, judgement)
    PROVE  /\ answers' = answers \cup {[post |-> p, code |-> code, document |-> document,
                                        judgement |-> judgement]}
           /\ answers' \subseteq Answers
           /\ pc' \in [Workers -> RegistrationSteps]
           /\ post' \in [Workers -> Posts \cup {None}]
           /\ newId' \in [Workers -> DocumentIds \cup {None}]
           /\ pc'[w] = "idle" /\ \A v \in Workers : v # w => Unmoved(v)
<1>1. [post |-> p, code |-> code, document |-> document, judgement |-> judgement] \in Answers
  BY DEF Answers
<1> QED
  BY <1>1 DEF AnswerJudged, TypeOK, RegistrationSteps, Unmoved

(* The text of the bytes, read as a PDF, is let through by a judgement. *)
Passes(artifact, judgement) ==
    HasTextLayer(Contents[artifact].extracted) /\ ~LowConfidence(artifact, judgement)

(* The gate refuses a PDF: it has no text, or too little confidence.           *)
Refusal(p, judgement) ==
    /\ p.source_format = "pdf"
    /\ IF judgement = None THEN ~HasTextLayer(Contents[p.artifact].extracted)
       ELSE LowConfidence(p.artifact, judgement)

LEMMA JudgementsTyped ==
    ASSUME NEW w \in Workers, NEW judgement \in JudgementsOf(w)
    PROVE  judgement \in Judgements /\ judgement # None
<1>1. BrokenWords[w] \in SUBSET Breaks /\ Thresholds \subseteq Nat
  BY ContentsAssumption
<1>2. judgement \in Judgements
  BY <1>1 DEF JudgementsOf, Judgements
<1> QED
  BY <1>2, ContentsAssumption

(* A request arrives. *)
LEMMA ReceiveEffect ==
    ASSUME TypeOK, NEW w \in Workers, NEW p \in Posts, Receive(w, p)
    PROVE  /\ pc[w] = "idle" /\ pc'[w] = "lookup" /\ post'[w] = p
           /\ \A v \in Workers : v # w => Unmoved(v)
           /\ overlapped' = IF Serving(p) # {} THEN overlapped \cup {Pinned(p)} ELSE overlapped
           /\ UNCHANGED <<documents, raw, nextId, answers, admitted>>
           /\ TypeOK'
<1>1. Pinned(p) \in Instruments \X Versions
  BY DEF Pinned, Posts
<1>2. requests' \in Nat /\ overlapped' \subseteq Instruments \X Versions
  BY <1>1 DEF Receive, TypeOK
<1>3. /\ pc' = [pc EXCEPT ![w] = "lookup"] /\ post' = [post EXCEPT ![w] = p]
      /\ pc[w] = "idle" /\ UNCHANGED <<documents, raw, nextId, newId, answers, admitted>>
      /\ overlapped' = IF Serving(p) # {} THEN overlapped \cup {Pinned(p)} ELSE overlapped
  BY DEF Receive
<1> QED
  BY <1>2, <1>3 DEF TypeOK, Unmoved

(* The checksum is found: the document answered is a row for what was posted. *)
LEMMA ChecksumHitEffect ==
    ASSUME TypeOK, NEW w \in Workers, ChecksumHit(w)
    PROVE  /\ pc[w] = "lookup" /\ pc'[w] = "idle"
           /\ \E d \in ChecksumMatches(post[w]) :
                /\ d.instrument = post[w].instrument
                /\ answers' = answers \cup
                    {[post |-> post[w], code |-> CodeFor(post[w], 200), document |-> d.id,
                      judgement |-> None]}
           /\ \A v \in Workers : v # w => Unmoved(v)
           /\ UNCHANGED <<documents, raw, nextId, admitted, overlapped>>
           /\ TypeOK'
<1>1. PICK found \in ByChecksum(post[w]) \ {None} :
          Answer(w, post[w], CodeFor(post[w], 200), found)
  BY DEF ChecksumHit
<1>2. post[w] \in Posts /\ CodeFor(post[w], 200) \in Codes
  BY CodeForType DEF ChecksumHit, TypeOK, Codes
<1>3. PICK d \in ChecksumMatches(post[w]) :
          found = IF d.instrument = post[w].instrument THEN d.id ELSE None
  BY <1>1 DEF ByChecksum
<1>4. d.instrument = post[w].instrument /\ found = d.id /\ found \in DocumentIds
  BY <1>1, <1>3 DEF ChecksumMatches, TypeOK, Rows
<1>5. /\ answers' = answers \cup
            {[post |-> post[w], code |-> CodeFor(post[w], 200), document |-> d.id,
              judgement |-> None]}
      /\ answers' \subseteq Answers
      /\ pc' \in [Workers -> RegistrationSteps]
      /\ post' \in [Workers -> Posts \cup {None}]
      /\ newId' \in [Workers -> DocumentIds \cup {None}]
      /\ pc'[w] = "idle" /\ \A v \in Workers : v # w => Unmoved(v)
  BY <1>1, <1>2, <1>4, AnswerEffect DEF Answer
<1>6. pc[w] = "lookup" /\ UNCHANGED <<documents, raw, nextId, requests, admitted, overlapped>>
  BY DEF ChecksumHit
<1>7. TypeOK'
  BY <1>5, <1>6 DEF TypeOK, RegistrationSteps, Unmoved
<1> QED
  BY <1>3, <1>4, <1>5, <1>6, <1>7

LEMMA ChecksumMissEffect ==
    ASSUME TypeOK, NEW w \in Workers, ChecksumMiss(w)
    PROVE  /\ pc[w] = "lookup" /\ pc'[w] = "conflict"
           /\ \A v \in Workers : v # w => Unmoved(v)
           /\ UNCHANGED <<documents, raw, nextId, post, newId, answers, admitted, overlapped>>
           /\ TypeOK'
BY DEF ChecksumMiss, TypeOK, Unmoved

(* A thread answers with an error and leaves both stores alone. *)
LEMMA ErrorEffect ==
    ASSUME TypeOK, NEW w \in Workers,
           \/ ConflictHit(w) \/ ExtractionRefused(w) \/ Undecodable(w)
           \/ StructureRefused(w) \/ Fail(w)
    PROVE  /\ pc[w] # "idle" /\ pc'[w] = "idle" /\ post[w] \in Posts
           /\ \E code \in {409, 422, 500}, judgement \in Judgements \cup {None} :
                /\ answers' = answers \cup
                    {[post |-> post[w], code |-> code, document |-> None,
                      judgement |-> judgement]}
                /\ code = 422 => Refusal(post[w], judgement)
           /\ \A v \in Workers : v # w => Unmoved(v)
           /\ UNCHANGED <<documents, raw, nextId, admitted, overlapped>>
           /\ TypeOK'
<1>1. PICK code \in {409, 422, 500}, judgement \in Judgements \cup {None} :
          /\ AnswerJudged(w, post[w], code, None, judgement)
          /\ code = 422 => Refusal(post[w], judgement)
  <2>1. ASSUME ExtractionRefused(w)
        PROVE  \E judgement \in Judgements \cup {None} :
                    /\ AnswerJudged(w, post[w], 422, None, judgement)
                    /\ Refusal(post[w], judgement)
    <3>1. PICK judgement \in JudgementsOf(w) :
              /\ RefusedByGate(post[w], judgement)
              /\ AnswerJudged(w, post[w], 422, None,
                              IF HasTextLayer(SourceText(post[w])) THEN judgement ELSE None)
      BY <2>1 DEF ExtractionRefused
    <3>2. judgement \in Judgements /\ judgement # None
      BY JudgementsTyped
    <3>3. CASE HasTextLayer(SourceText(post[w]))
      BY <3>1, <3>2, <3>3 DEF Refusal, RefusedByGate, SourceText
    <3>4. CASE ~HasTextLayer(SourceText(post[w]))
      BY <3>1, <3>4 DEF Refusal, RefusedByGate, SourceText
    <3> QED
      BY <3>3, <3>4
  <2>2. ASSUME ConflictHit(w) \/ Undecodable(w) \/ StructureRefused(w) \/ Fail(w)
        PROVE  \E code \in {409, 500} : AnswerJudged(w, post[w], code, None, None)
    BY <2>2 DEF ConflictHit, Undecodable, StructureRefused, Fail, Answer
  <2> QED
    BY <2>1, <2>2
<1>2. /\ pc[w] # "idle" /\ post[w] \in Posts
      /\ UNCHANGED <<documents, raw, nextId, requests, admitted, overlapped>>
  BY DEF ConflictHit, ExtractionRefused, Undecodable, StructureRefused, Fail, TypeOK
<1>3. /\ answers' = answers \cup {[post |-> post[w], code |-> code, document |-> None,
                                   judgement |-> judgement]}
      /\ answers' \subseteq Answers
      /\ pc' \in [Workers -> RegistrationSteps]
      /\ post' \in [Workers -> Posts \cup {None}]
      /\ newId' \in [Workers -> DocumentIds \cup {None}]
      /\ pc'[w] = "idle" /\ \A v \in Workers : v # w => Unmoved(v)
  BY <1>1, <1>2, AnswerEffect DEF Codes
<1>4. TypeOK'
  BY <1>2, <1>3 DEF TypeOK, RegistrationSteps, Unmoved
<1> QED
  BY <1>1, <1>2, <1>3, <1>4

(* An id is drawn for an artifact the gate has passed. *)
LEMMA ConflictMissEffect ==
    ASSUME TypeOK, NEW w \in Workers, ConflictMiss(w)
    PROVE  /\ pc[w] = "conflict" /\ pc'[w] = "put" /\ post[w] \in Posts
           /\ ByInstrumentAndVersion(post[w]) = {}
           /\ Readable(post[w])
           /\ newId'[w] = nextId /\ nextId' = nextId + 1
           /\ admitted \subseteq admitted'
           /\ post[w].source_format = "pdf" =>
                \E g \in admitted' : g.id = nextId /\ Passes(post[w].artifact, g.judgement)
           /\ \A v \in Workers : v # w => Unmoved(v)
           /\ UNCHANGED <<documents, raw, post, answers, overlapped>>
           /\ TypeOK'
<1>1. PICK judgement \in JudgementsOf(w) :
          ~RefusedByGate(post[w], judgement) /\ Admit(w, judgement)
  BY DEF ConflictMiss
<1>2. /\ newId' = [newId EXCEPT ![w] = nextId] /\ nextId' = nextId + 1
      /\ pc' = [pc EXCEPT ![w] = "put"] /\ pc[w] = "conflict"
      /\ ByInstrumentAndVersion(post[w]) = {}
      /\ Readable(post[w])
      /\ admitted' = IF post[w].source_format = "pdf"
                     THEN admitted \cup {[id |-> nextId, judgement |-> judgement]}
                     ELSE admitted
      /\ UNCHANGED <<documents, raw, post, requests, answers, overlapped>>
  BY <1>1 DEF ConflictMiss, Admit
<1>3. nextId \in DocumentIds /\ nextId' \in Nat
  BY <1>2 DEF TypeOK, DocumentIds
<1>4. judgement \in Judgements
  BY JudgementsTyped
<1>5. admitted' \subseteq [id : DocumentIds, judgement : Judgements]
  BY <1>2, <1>3, <1>4 DEF TypeOK
<1>6. post[w].source_format = "pdf" => Passes(post[w].artifact, judgement)
  BY <1>1 DEF RefusedByGate, Passes, SourceText
<1>7. post[w].source_format = "pdf" =>
            \E g \in admitted' : g.id = nextId /\ Passes(post[w].artifact, g.judgement)
  <2> DEFINE new == [id |-> nextId, judgement |-> judgement]
  <2> SUFFICES ASSUME post[w].source_format = "pdf"
               PROVE  new \in admitted' /\ new.id = nextId
                        /\ Passes(post[w].artifact, new.judgement)
    OBVIOUS
  <2> QED
    BY <1>2, <1>6
<1>8. post[w] \in Posts
  BY <1>2 DEF TypeOK
<1>9. TypeOK'
  BY <1>2, <1>3, <1>5 DEF TypeOK
<1>10. \A v \in Workers : v # w => Unmoved(v)
  BY <1>2 DEF TypeOK, Unmoved
<1> QED
  BY <1>2, <1>7, <1>8, <1>9, <1>10 DEF TypeOK

LEMMA PutRawEffect ==
    ASSUME TypeOK, NEW w \in Workers, PutRaw(w)
    PROVE  /\ pc[w] = "put" /\ pc'[w] = "insert" /\ post[w] \in Posts
           /\ raw' = raw \cup {[id |-> newId[w], version |-> post[w].version,
                                artifact |-> post[w].artifact,
                                source_format |-> post[w].source_format]}
           /\ \A v \in Workers : v # w => Unmoved(v)
           /\ UNCHANGED <<documents, nextId, post, newId, answers, admitted, overlapped>>
           /\ TypeOK'
<1>1. /\ pc' = [pc EXCEPT ![w] = "insert"] /\ pc[w] = "put"
      /\ raw' = raw \cup {[id |-> newId[w], version |-> post[w].version,
                           artifact |-> post[w].artifact,
                           source_format |-> post[w].source_format]}
      /\ UNCHANGED <<documents, nextId, post, newId, requests, answers, admitted, overlapped>>
  BY DEF PutRaw
<1>2. post[w] \in Posts /\ newId[w] \in DocumentIds
  BY <1>1 DEF TypeOK
<1>3. raw' \subseteq Files
  BY <1>1, <1>2 DEF TypeOK, Files, Posts
<1> QED
  BY <1>1, <1>2, <1>3 DEF TypeOK, Unmoved

LEMMA InsertEffect ==
    ASSUME TypeOK, NEW w \in Workers, Insert(w)
    PROVE  /\ pc[w] = "insert" /\ pc'[w] = "idle" /\ post[w] \in Posts
           /\ documents' = documents \cup
                {[id |-> newId[w], instrument |-> post[w].instrument,
                  version |-> post[w].version, artifact |-> post[w].artifact,
                  source_format |-> post[w].source_format]}
           /\ answers' = answers \cup
                {[post |-> post[w], code |-> CodeFor(post[w], 201), document |-> newId[w],
                  judgement |-> None]}
           /\ \A v \in Workers : v # w => Unmoved(v)
           /\ UNCHANGED <<raw, nextId, admitted, overlapped>>
           /\ TypeOK'
<1>1. /\ pc[w] = "insert" /\ Answer(w, post[w], CodeFor(post[w], 201), newId[w])
      /\ documents' = documents \cup
            {[id |-> newId[w], instrument |-> post[w].instrument,
              version |-> post[w].version, artifact |-> post[w].artifact,
              source_format |-> post[w].source_format]}
      /\ UNCHANGED <<raw, nextId, requests, admitted, overlapped>>
  BY DEF Insert
<1>2. post[w] \in Posts /\ newId[w] \in DocumentIds /\ CodeFor(post[w], 201) \in Codes
  BY <1>1, CodeForType DEF TypeOK, Codes
<1>3. documents' \subseteq Rows
  BY <1>1, <1>2 DEF TypeOK, Rows, Posts
<1>4. /\ answers' = answers \cup
            {[post |-> post[w], code |-> CodeFor(post[w], 201), document |-> newId[w],
              judgement |-> None]}
      /\ answers' \subseteq Answers
      /\ pc' \in [Workers -> RegistrationSteps]
      /\ post' \in [Workers -> Posts \cup {None}]
      /\ newId' \in [Workers -> DocumentIds \cup {None}]
      /\ pc'[w] = "idle" /\ \A v \in Workers : v # w => Unmoved(v)
  BY <1>1, <1>2, AnswerEffect DEF Answer
<1>5. TypeOK'
  BY <1>1, <1>3, <1>4 DEF TypeOK, RegistrationSteps, Unmoved
<1> QED
  BY <1>1, <1>2, <1>4, <1>5

LEMMA TypeNext == TypeOK /\ [Next]_vars => TypeOK'
<1> SUFFICES ASSUME TypeOK, [Next]_vars
             PROVE  TypeOK'
  OBVIOUS
<1>1. CASE UNCHANGED vars
  BY <1>1 DEF vars, TypeOK
<1> QED
  BY <1>1, ReceiveEffect, ChecksumHitEffect, ChecksumMissEffect, ErrorEffect,
     ConflictMissEffect, PutRawEffect, InsertEffect
  DEF Next

(* Every reachable state is well typed. *)
THEOREM TypeCorrect == Spec => []TypeOK
BY TypeInit, TypeNext, PTL DEF Spec

--------------------------------------------------------------------------------
(* The rows and the raw artifacts agree. *)

(* Ids are drawn once: a thread holds one that no file has yet, and once it    *)
(* has written its file, one that no row has.                                  *)
IdsAreFresh ==
    /\ \A f \in raw : f.id < nextId
    /\ \A w \in Workers : pc[w] \in {"put", "insert"} =>
        /\ newId[w] < nextId
        /\ \A v \in Workers : v # w /\ pc[v] \in {"put", "insert"} => newId[v] # newId[w]
        /\ \A d \in documents : d.id # newId[w]
    /\ \A w \in Workers : pc[w] = "put" => \A f \in raw : f.id # newId[w]

(* A thread about to commit its row has stored the bytes. *)
InsertersHaveStored ==
    \A w \in Workers : pc[w] = "insert" =>
        [id |-> newId[w], version |-> post[w].version, artifact |-> post[w].artifact,
         source_format |-> post[w].source_format] \in raw

StoresIInv == TypeOK /\ RowsHaveTheirArtifact /\ IdsAreFresh /\ InsertersHaveStored

LEMMA StoresNext == StoresIInv /\ [Next]_vars => StoresIInv'
<1> SUFFICES ASSUME StoresIInv, [Next]_vars
             PROVE  StoresIInv'
  OBVIOUS
<1> DEFINE Parts == RowsHaveTheirArtifact /\ IdsAreFresh /\ InsertersHaveStored
<1>0. TypeOK /\ TypeOK' /\ Parts
  BY TypeNext DEF StoresIInv
<1>s. SUFFICES Parts'
  BY <1>0 DEF StoresIInv
<1>1. ASSUME NEW w \in Workers, UNCHANGED <<documents, raw, nextId>>,
             \A v \in Workers : v # w => Unmoved(v),
             pc'[w] \in {"idle", "lookup", "conflict"}
      PROVE  Parts'
  BY <1>0, <1>1 DEF RowsHaveTheirArtifact, IdsAreFresh, InsertersHaveStored, Unmoved
<1>2. ASSUME NEW w \in Workers, ConflictMiss(w)
      PROVE  Parts'
  <2>1. /\ newId'[w] = nextId /\ nextId' = nextId + 1 /\ nextId \in Nat /\ pc'[w] = "put"
        /\ \A v \in Workers : v # w => Unmoved(v)
        /\ UNCHANGED <<documents, raw>>
    BY <1>0, <1>2, ConflictMissEffect DEF TypeOK
  <2>2. \A f \in raw : f.id \in Nat /\ f.id < nextId
    BY <1>0 DEF TypeOK, Files, DocumentIds, IdsAreFresh
  <2>3. \A v \in Workers : pc[v] \in {"put", "insert"} => newId[v] \in Nat /\ newId[v] < nextId
    BY <1>0 DEF TypeOK, DocumentIds, IdsAreFresh
  <2>4. \A d \in documents : d.id < nextId /\ d.id \in Nat
    BY <1>0, <2>2 DEF RowsHaveTheirArtifact
  <2>5. IdsAreFresh'
    BY <1>0, <2>1, <2>2, <2>3, <2>4 DEF IdsAreFresh, Unmoved
  <2> QED
    BY <1>0, <2>1, <2>5 DEF RowsHaveTheirArtifact, InsertersHaveStored, Unmoved
<1>3. ASSUME NEW w \in Workers, PutRaw(w)
      PROVE  Parts'
  <2> DEFINE file == [id |-> newId[w], version |-> post[w].version,
                      artifact |-> post[w].artifact,
                      source_format |-> post[w].source_format]
  <2>1. /\ pc[w] = "put" /\ pc'[w] = "insert" /\ file.id = newId[w] /\ raw' = raw \cup {file}
        /\ \A v \in Workers : v # w => Unmoved(v)
        /\ UNCHANGED <<documents, nextId, post, newId>>
    BY <1>0, <1>3, PutRawEffect
  <2>2. InsertersHaveStored'
    BY <1>0, <2>1 DEF InsertersHaveStored, Unmoved
  <2> HIDE DEF file
  <2>3. RowsHaveTheirArtifact'
    BY <1>0, <2>1 DEF RowsHaveTheirArtifact, IdsAreFresh
  <2>4. IdsAreFresh'
    BY <1>0, <2>1 DEF IdsAreFresh, Unmoved
  <2> QED
    BY <2>2, <2>3, <2>4
<1>4. ASSUME NEW w \in Workers, Insert(w)
      PROVE  Parts'
  <2> DEFINE row == [id |-> newId[w], instrument |-> post[w].instrument,
                     version |-> post[w].version, artifact |-> post[w].artifact,
                     source_format |-> post[w].source_format]
  <2>1. /\ pc[w] = "insert" /\ pc'[w] = "idle" /\ documents' = documents \cup {row}
        /\ \A v \in Workers : v # w => Unmoved(v)
        /\ UNCHANGED <<raw, nextId>>
    BY <1>0, <1>4, InsertEffect
  <2>2. /\ row.id = newId[w]
        /\ [id |-> row.id, version |-> row.version, artifact |-> row.artifact,
            source_format |-> row.source_format] \in raw
    BY <1>0, <2>1 DEF InsertersHaveStored
  <2> HIDE DEF row
  <2>3. RowsHaveTheirArtifact'
    BY <1>0, <2>1, <2>2 DEF RowsHaveTheirArtifact, IdsAreFresh
  <2>4. IdsAreFresh' /\ InsertersHaveStored'
    BY <1>0, <2>1, <2>2 DEF IdsAreFresh, InsertersHaveStored, Unmoved
  <2> QED
    BY <2>3, <2>4
<1>5. CASE UNCHANGED vars
  BY <1>0, <1>5 DEF vars, RowsHaveTheirArtifact, IdsAreFresh, InsertersHaveStored
<1> QED
  BY <1>0, <1>1, <1>2, <1>3, <1>4, <1>5, ReceiveEffect, ChecksumHitEffect,
     ChecksumMissEffect, ErrorEffect
  DEF Next

(* A registered document has its untouched source artifact in raw storage, and *)
(* no two rows or files share an id, whatever requests race or die half way.   *)
THEOREM RowsHaveTheirArtifactAlways == Spec => []RowsHaveTheirArtifact
<1>1. Init => StoresIInv
  <2> SUFFICES ASSUME Init
               PROVE  StoresIInv
    OBVIOUS
  <2>1. documents = {} /\ raw = {} /\ \A w \in Workers : pc[w] = "idle"
    BY DEF Init
  <2> QED
    BY <2>1, TypeInit DEF StoresIInv, RowsHaveTheirArtifact, IdsAreFresh, InsertersHaveStored
<1>2. StoresIInv => RowsHaveTheirArtifact
  BY DEF StoresIInv
<1> QED
  BY <1>1, <1>2, StoresNext, PTL DEF Spec

--------------------------------------------------------------------------------
(* What clients are told. *)

LEMMA AnswersNext ==
    TypeOK /\ AnswersNameWhatWasPosted /\ [Next]_vars => AnswersNameWhatWasPosted'
<1> SUFFICES ASSUME TypeOK, AnswersNameWhatWasPosted, [Next]_vars
             PROVE  AnswersNameWhatWasPosted'
  OBVIOUS
<1>1. ASSUME NEW w \in Workers, ChecksumHit(w)
      PROVE  AnswersNameWhatWasPosted'
  <2>1. PICK d \in ChecksumMatches(post[w]) :
            /\ d.instrument = post[w].instrument
            /\ answers' = answers \cup
                {[post |-> post[w], code |-> CodeFor(post[w], 200), document |-> d.id,
                  judgement |-> None]}
    BY <1>1, ChecksumHitEffect
  <2>2. UNCHANGED documents
    BY <1>1, ChecksumHitEffect
  <2>3. d \in documents /\ Pinned(d) = Pinned(post[w]) /\ d.artifact = post[w].artifact
    BY <2>1 DEF ChecksumMatches, Pinned
  <2>4. CodeFor(post[w], 200) # 201
    BY DEF CodeFor
  <2> QED
    BY <2>1, <2>2, <2>3, <2>4 DEF AnswersNameWhatWasPosted, Pinned
<1>2. ASSUME NEW w \in Workers, Insert(w)
      PROVE  AnswersNameWhatWasPosted'
  <2> DEFINE row == [id |-> newId[w], instrument |-> post[w].instrument,
                     version |-> post[w].version, artifact |-> post[w].artifact,
                     source_format |-> post[w].source_format]
             answer == [post |-> post[w], code |-> CodeFor(post[w], 201),
                        document |-> newId[w], judgement |-> None]
  <2>1. documents' = documents \cup {row} /\ answers' = answers \cup {answer}
    BY <1>2, InsertEffect
  <2>2. /\ row.id = answer.document /\ Pinned(row) = Pinned(answer.post)
        /\ row.artifact = answer.post.artifact
        /\ row.source_format = answer.post.source_format
    BY DEF Pinned
  <2> HIDE DEF row, answer
  <2> QED
    BY <2>1, <2>2 DEF AnswersNameWhatWasPosted, Pinned
<1>3. ASSUME NEW w \in Workers,
             \/ ConflictHit(w) \/ ExtractionRefused(w) \/ Undecodable(w)
             \/ StructureRefused(w) \/ Fail(w)
      PROVE  AnswersNameWhatWasPosted'
  BY <1>3, ErrorEffect DEF AnswersNameWhatWasPosted
<1>4. ASSUME UNCHANGED <<documents, answers>>
      PROVE  AnswersNameWhatWasPosted'
  BY <1>4 DEF AnswersNameWhatWasPosted
<1>5. CASE UNCHANGED vars
  BY <1>4, <1>5 DEF vars
<1> QED
  BY <1>1, <1>2, <1>3, <1>4, <1>5, ReceiveEffect, ChecksumMissEffect, ConflictMissEffect,
     PutRawEffect
  DEF Next

(* What a client is told it has registered is what it posted: an answer with a *)
(* document names one with the posted bytes, instrument and version, and with  *)
(* the posted format if it was just created.                                   *)
THEOREM AnswersNameWhatWasPostedAlways == Spec => []AnswersNameWhatWasPosted
<1>1. Init => TypeOK /\ AnswersNameWhatWasPosted
  BY TypeInit DEF Init, AnswersNameWhatWasPosted
<1> QED
  BY <1>1, TypeNext, AnswersNext, PTL DEF Spec

--------------------------------------------------------------------------------
(* A version is pinned once. *)

(* Threads that serve the same version at once have been noticed. *)
OverlapsNoticed ==
    \A v, w \in Workers :
        v # w /\ pc[v] # "idle" /\ pc[w] # "idle" /\ Pinned(post[v]) = Pinned(post[w])
            => Pinned(post[w]) \in overlapped

(* What the second lookup found is still so for a thread that is alone.        *)
VersionStillFree ==
    \A w \in Workers : pc[w] \in {"put", "insert"} /\ Pinned(post[w]) \notin overlapped =>
        \A d \in documents : Pinned(d) # Pinned(post[w])

PinnedIInv == TypeOK /\ SerialVersionIsPinned /\ OverlapsNoticed /\ VersionStillFree

LEMMA PinnedNext == PinnedIInv /\ [Next]_vars => PinnedIInv'
<1> SUFFICES ASSUME PinnedIInv, [Next]_vars
             PROVE  PinnedIInv'
  OBVIOUS
<1> DEFINE Parts == SerialVersionIsPinned /\ OverlapsNoticed /\ VersionStillFree
<1>0. TypeOK /\ TypeOK' /\ Parts
  BY TypeNext DEF PinnedIInv
<1>s. SUFFICES Parts'
  BY <1>0 DEF PinnedIInv
<1>1. ASSUME NEW w \in Workers, UNCHANGED <<documents, overlapped>>,
             \A v \in Workers : v # w => Unmoved(v), pc'[w] = "idle"
      PROVE  Parts'
  BY <1>0, <1>1 DEF SerialVersionIsPinned, OverlapsNoticed, VersionStillFree, Unmoved
<1>2. ASSUME NEW w \in Workers, NEW p \in Posts, Receive(w, p)
      PROVE  Parts'
  <2>1. /\ pc[w] = "idle" /\ pc'[w] = "lookup" /\ post'[w] = p
        /\ \A v \in Workers : v # w => Unmoved(v)
        /\ UNCHANGED documents /\ overlapped \subseteq overlapped'
        /\ \A v \in Workers : pc[v] # "idle" /\ Pinned(post[v]) = Pinned(p) =>
                Pinned(p) \in overlapped'
    BY <1>0, <1>2, ReceiveEffect DEF Serving
  <2>2. OverlapsNoticed'
    <3> SUFFICES ASSUME NEW u \in Workers, NEW v \in Workers, u # v,
                        pc'[u] # "idle", pc'[v] # "idle",
                        Pinned(post'[u]) = Pinned(post'[v])
                 PROVE  Pinned(post'[v]) \in overlapped'
      BY DEF OverlapsNoticed, Pinned
    <3>1. CASE u # w /\ v # w
      BY <1>0, <2>1, <3>1 DEF OverlapsNoticed, Unmoved
    <3>2. CASE u = w
      BY <2>1, <3>2 DEF Unmoved
    <3>3. CASE v = w
      BY <2>1, <3>3 DEF Unmoved
    <3> QED
      BY <3>1, <3>2, <3>3
  <2>3. SerialVersionIsPinned' /\ VersionStillFree'
    BY <1>0, <2>1 DEF SerialVersionIsPinned, VersionStillFree, Unmoved, Pinned
  <2> QED
    BY <2>2, <2>3
<1>3. ASSUME NEW w \in Workers, ChecksumMiss(w) \/ PutRaw(w)
      PROVE  Parts'
  <2>1. /\ pc[w] # "idle" /\ pc'[w] # "idle" /\ pc'[w] # "put"
        /\ pc'[w] = "insert" => pc[w] = "put"
        /\ UNCHANGED <<documents, overlapped, post>>
        /\ \A v \in Workers : v # w => Unmoved(v)
    BY <1>0, <1>3, ChecksumMissEffect, PutRawEffect
  <2> QED
    BY <1>0, <2>1 DEF SerialVersionIsPinned, OverlapsNoticed, VersionStillFree, Unmoved
<1>4. ASSUME NEW w \in Workers, ConflictMiss(w)
      PROVE  Parts'
  <2>1. /\ pc[w] # "idle" /\ pc'[w] = "put"
        /\ \A d \in documents : Pinned(d) # Pinned(post[w])
        /\ UNCHANGED <<documents, overlapped, post>>
        /\ \A v \in Workers : v # w => Unmoved(v)
    BY <1>0, <1>4, ConflictMissEffect DEF ByInstrumentAndVersion, Pinned
  <2> QED
    BY <1>0, <2>1 DEF SerialVersionIsPinned, OverlapsNoticed, VersionStillFree, Unmoved
<1>5. ASSUME NEW w \in Workers, Insert(w)
      PROVE  Parts'
  <2> DEFINE row == [id |-> newId[w], instrument |-> post[w].instrument,
                     version |-> post[w].version, artifact |-> post[w].artifact,
                     source_format |-> post[w].source_format]
  <2>1. /\ pc[w] = "insert" /\ pc'[w] = "idle" /\ documents' = documents \cup {row}
        /\ \A v \in Workers : v # w => Unmoved(v)
        /\ UNCHANGED overlapped
        /\ Pinned(row) = Pinned(post[w])
    BY <1>0, <1>5, InsertEffect DEF Pinned
  <2> HIDE DEF row
  <2>2. SerialVersionIsPinned'
    BY <1>0, <2>1 DEF SerialVersionIsPinned, VersionStillFree
  <2>3. OverlapsNoticed'
    BY <1>0, <2>1 DEF OverlapsNoticed, Unmoved
  <2>4. VersionStillFree'
    BY <1>0, <2>1 DEF OverlapsNoticed, VersionStillFree, Unmoved
  <2> QED
    BY <2>2, <2>3, <2>4
<1>6. CASE UNCHANGED vars
  BY <1>0, <1>6 DEF vars, SerialVersionIsPinned, OverlapsNoticed, VersionStillFree
<1> QED
  BY <1>0, <1>1, <1>2, <1>3, <1>4, <1>5, <1>6, ChecksumHitEffect, ErrorEffect DEF Next

(* A pinned version that no two requests registered at once has one document:  *)
(* it is immutable, and registration is idempotent.                            *)
THEOREM SerialVersionIsPinnedAlways == Spec => []SerialVersionIsPinned
<1>1. Init => PinnedIInv
  <2> SUFFICES ASSUME Init
               PROVE  PinnedIInv
    OBVIOUS
  <2>1. documents = {} /\ \A w \in Workers : pc[w] = "idle"
    BY DEF Init
  <2> QED
    BY <2>1, TypeInit DEF PinnedIInv, SerialVersionIsPinned, OverlapsNoticed, VersionStillFree
<1>2. PinnedIInv => SerialVersionIsPinned
  BY DEF PinnedIInv
<1> QED
  BY <1>1, <1>2, PinnedNext, PTL DEF Spec

--------------------------------------------------------------------------------
(* A refusal is final. *)

LEMMA ScoreIsANumber == \A warnings : ScoreConfidence(warnings) \in Int
BY DEF ScoreConfidence

(* A text that one judgement lets through and another refuses: the threshold   *)
(* was lower, or other breaks were taken for broken words.                     *)
LEMMA JudgementsDiffer ==
    ASSUME NEW artifact \in Artifacts, NEW j \in Judgements, NEW k \in Judgements,
           ~LowConfidence(artifact, j), LowConfidence(artifact, k)
    PROVE  \/ j.threshold < k.threshold
           \/ ClassifyBrokenWordMatches(Contents[artifact].breaks, j)
                # ClassifyBrokenWordMatches(Contents[artifact].breaks, k)
<1> DEFINE breaks == Contents[artifact].breaks
           defects == Contents[artifact].defects
<1> SUFFICES ASSUME ClassifyBrokenWordMatches(breaks, j) = ClassifyBrokenWordMatches(breaks, k)
             PROVE  j.threshold < k.threshold
  OBVIOUS
<1>1. Warnings(defects, breaks, j) = Warnings(defects, breaks, k)
  BY DEF Warnings
<1>2. PICK warnings : warnings = Warnings(defects, breaks, j)
  OBVIOUS
<1>3. j.threshold \in Nat /\ k.threshold \in Nat /\ ScoreConfidence(warnings) \in Int
  BY ScoreIsANumber DEF Judgements
<1>4. ~(ScoreConfidence(warnings) < j.threshold)
      /\ ~(ScoreConfidence(warnings) = j.threshold /\ warnings \in RoundsDown)
  BY <1>2 DEF LowConfidence, BelowThreshold
<1>5. \/ ScoreConfidence(warnings) < k.threshold
      \/ ScoreConfidence(warnings) = k.threshold /\ warnings \in RoundsDown
  BY <1>1, <1>2 DEF LowConfidence, BelowThreshold
<1> QED
  BY <1>3, <1>4, <1>5

(* The gate let this id's text through. *)
Admitted(id, artifact) == \E g \in admitted : g.id = id /\ Passes(artifact, g.judgement)

(* A thread that has drawn an id for a PDF passed the gate, and so did every   *)
(* file that holds one.  A client that was refused was refused by the gate.    *)
GateIInv ==
    /\ TypeOK
    /\ \A w \in Workers : pc[w] = "put" /\ post[w].source_format = "pdf" =>
            Admitted(newId[w], post[w].artifact)
    /\ \A f \in raw : f.source_format = "pdf" => Admitted(f.id, f.artifact)
    /\ \A a \in answers : a.code = 422 => Refusal(a.post, a.judgement)

LEMMA GateNext == GateIInv /\ [Next]_vars => GateIInv'
<1> SUFFICES ASSUME GateIInv, [Next]_vars
             PROVE  GateIInv'
  OBVIOUS
<1> DEFINE Bytes == \A w \in Workers : pc[w] = "put" /\ post[w].source_format = "pdf" =>
                        Admitted(newId[w], post[w].artifact)
           Stored == \A f \in raw : f.source_format = "pdf" => Admitted(f.id, f.artifact)
           Refused == \A a \in answers : a.code = 422 => Refusal(a.post, a.judgement)
           Goal == Bytes' /\ Stored' /\ Refused'
<1>0. TypeOK /\ TypeOK' /\ Bytes /\ Stored /\ Refused
  BY TypeNext DEF GateIInv
<1>s. SUFFICES Goal
  BY <1>0 DEF GateIInv
<1>1. ASSUME admitted \subseteq admitted'
      PROVE  \A id, artifact : Admitted(id, artifact) => Admitted(id, artifact)'
  BY <1>1 DEF Admitted, Passes, HasTextLayer, LowConfidence, BelowThreshold
<1>r. \A p, judgement : Refusal(p, judgement)' <=> Refusal(p, judgement)
  BY DEF Refusal, HasTextLayer, LowConfidence, BelowThreshold
<1> DEFINE Moved(w) == (\A v \in Workers : v # w => Unmoved(v)) /\ pc'[w] # "put"
<1>a. ASSUME NEW w \in Workers, NEW answer, Moved(w), UNCHANGED <<raw, admitted>>,
             answers' = answers \cup {answer},
             answer.code = 422 => Refusal(answer.post, answer.judgement)
      PROVE  Goal
  <2>1. Bytes'
    BY <1>0, <1>1, <1>a DEF Unmoved
  <2>2. Stored'
    BY <1>0, <1>1, <1>a
  <2>3. Refused'
    BY <1>0, <1>r, <1>a
  <2> QED
    BY <2>1, <2>2, <2>3
<1>2. ASSUME NEW w \in Workers, ChecksumHit(w)
      PROVE  Goal
  <2>1. Moved(w) /\ UNCHANGED <<raw, admitted>>
    BY <1>0, <1>2, ChecksumHitEffect
  <2>2. PICK d \in ChecksumMatches(post[w]) :
            answers' = answers \cup
                {[post |-> post[w], code |-> CodeFor(post[w], 200), document |-> d.id,
                  judgement |-> None]}
    BY <1>0, <1>2, ChecksumHitEffect
  <2> DEFINE answer == [post |-> post[w], code |-> CodeFor(post[w], 200), document |-> d.id,
                        judgement |-> None]
  <2>3. answers' = answers \cup {answer} /\ answer.code # 422
    BY <2>2 DEF CodeFor
  <2> HIDE DEF answer
  <2> QED
    BY <1>a, <2>1, <2>3
<1>3. ASSUME NEW w \in Workers, Insert(w)
      PROVE  Goal
  <2> DEFINE answer == [post |-> post[w], code |-> CodeFor(post[w], 201),
                        document |-> newId[w], judgement |-> None]
  <2>1. Moved(w) /\ UNCHANGED <<raw, admitted>> /\ answers' = answers \cup {answer}
    BY <1>0, <1>3, InsertEffect
  <2>2. answer.code # 422
    BY DEF CodeFor
  <2> HIDE DEF answer
  <2> QED
    BY <1>a, <2>1, <2>2
<1>4. ASSUME NEW w \in Workers,
             \/ ConflictHit(w) \/ ExtractionRefused(w) \/ Undecodable(w)
             \/ StructureRefused(w) \/ Fail(w)
      PROVE  Goal
  <2>1. Moved(w) /\ UNCHANGED <<raw, admitted>>
    BY <1>0, <1>4, ErrorEffect
  <2>2. PICK code \in {409, 422, 500}, judgement \in Judgements \cup {None} :
            /\ answers' = answers \cup {[post |-> post[w], code |-> code, document |-> None,
                                         judgement |-> judgement]}
            /\ code = 422 => Refusal(post[w], judgement)
    BY <1>0, <1>4, ErrorEffect
  <2> DEFINE answer == [post |-> post[w], code |-> code, document |-> None,
                        judgement |-> judgement]
  <2>3. /\ answers' = answers \cup {answer}
        /\ answer.code = 422 => Refusal(answer.post, answer.judgement)
    BY <2>2
  <2> HIDE DEF answer
  <2> QED
    BY <1>a, <2>1, <2>3
<1>5. ASSUME NEW w \in Workers, ConflictMiss(w)
      PROVE  Goal
  <2>1. /\ admitted \subseteq admitted' /\ newId'[w] = nextId
        /\ post[w].source_format = "pdf" =>
            \E g \in admitted' : g.id = nextId /\ Passes(post[w].artifact, g.judgement)
        /\ \A v \in Workers : v # w => Unmoved(v)
        /\ UNCHANGED <<raw, post, answers>>
    BY <1>0, <1>5, ConflictMissEffect
  <2>2. post[w].source_format = "pdf" => Admitted(newId[w], post[w].artifact)'
    BY <2>1 DEF Admitted, Passes, HasTextLayer, LowConfidence, BelowThreshold
  <2>3. Bytes'
    BY <1>0, <1>1, <2>1, <2>2 DEF Unmoved
  <2>4. Stored' /\ Refused'
    BY <1>0, <1>1, <1>r, <2>1
  <2> QED
    BY <2>3, <2>4
<1>6. ASSUME NEW w \in Workers, PutRaw(w)
      PROVE  Goal
  <2>1. /\ Moved(w) /\ pc[w] = "put" /\ UNCHANGED <<answers, admitted>>
        /\ raw' = raw \cup {[id |-> newId[w], version |-> post[w].version,
                             artifact |-> post[w].artifact,
                             source_format |-> post[w].source_format]}
    BY <1>0, <1>6, PutRawEffect
  <2>2. Bytes'
    BY <1>0, <1>1, <2>1 DEF Unmoved
  <2>3. Stored'
    BY <1>0, <1>1, <2>1
  <2>4. Refused'
    BY <1>0, <1>r, <2>1
  <2> QED
    BY <2>2, <2>3, <2>4
<1>7. ASSUME NEW w \in Workers, ChecksumMiss(w) \/ \E p \in Posts : Receive(w, p)
      PROVE  Goal
  <2>1. Moved(w) /\ UNCHANGED <<raw, answers, admitted>>
    BY <1>0, <1>7, ChecksumMissEffect, ReceiveEffect
  <2>2. Bytes'
    BY <1>0, <1>1, <2>1 DEF Unmoved
  <2>3. Stored' /\ Refused'
    BY <1>0, <1>1, <1>r, <2>1
  <2> QED
    BY <2>2, <2>3
<1>8. CASE UNCHANGED vars
  BY <1>0, <1>1, <1>r, <1>8 DEF vars
<1> QED
  BY <1>2, <1>3, <1>4, <1>5, <1>6, <1>7, <1>8 DEF Next

(* A PDF the gate has refused is not stored or registered as a PDF, now or     *)
(* later, unless the threshold was lowered or the host tells other breaks from *)
(* broken words; one without a text layer is never.                            *)
THEOREM RefusalIsFinalAlways == Spec => []RefusalIsFinal
<1>1. Init => GateIInv
  <2> SUFFICES ASSUME Init
               PROVE  GateIInv
    OBVIOUS
  <2>1. raw = {} /\ answers = {} /\ \A w \in Workers : pc[w] = "idle"
    BY DEF Init
  <2> QED
    BY <2>1, TypeInit DEF GateIInv
<1>2. GateIInv => RefusalIsFinal
  <2> SUFFICES ASSUME GateIInv, NEW a \in answers, NEW f \in raw,
                      a.code = 422, f.artifact = a.post.artifact, f.source_format = "pdf"
               PROVE  /\ a.judgement # None
                      /\ \E g \in admitted :
                            /\ g.id = f.id
                            /\ \/ g.judgement.threshold < a.judgement.threshold
                               \/ ClassifyBrokenWordMatches(Contents[f.artifact].breaks,
                                                            g.judgement)
                                    # ClassifyBrokenWordMatches(Contents[f.artifact].breaks,
                                                                a.judgement)
    BY DEF RefusalIsFinal
  <2>1. f.artifact \in Artifacts /\ a.judgement \in Judgements \cup {None}
    BY DEF GateIInv, TypeOK, Files, Answers
  <2>2. Refusal(a.post, a.judgement)
    BY DEF GateIInv
  <2>3. PICK g \in admitted : g.id = f.id /\ Passes(f.artifact, g.judgement)
    BY DEF GateIInv, Admitted
  <2>4. g.judgement \in Judgements
    BY DEF GateIInv, TypeOK
  <2>5. a.judgement # None
    BY <2>2, <2>3 DEF Refusal, Passes
  <2>6. ~LowConfidence(f.artifact, g.judgement) /\ LowConfidence(f.artifact, a.judgement)
    BY <2>2, <2>3, <2>5 DEF Refusal, Passes
  <2> QED
    BY <2>1, <2>3, <2>4, <2>5, <2>6, JudgementsDiffer
<1> QED
  BY <1>1, <1>2, GateNext, PTL DEF Spec

--------------------------------------------------------------------------------
(* Least and greatest line numbers. *)

(* A set of line numbers has a least one, and Min is it. *)
LEMMA MinIsLeast ==
    ASSUME NEW S \in SUBSET Nat, S # {}
    PROVE  Min(S) \in S /\ \A n \in S : Min(S) <= n
<1> DEFINE Less == {p \in Nat \X Nat : p[1] < p[2]}
<1>1. IsWellFoundedOn(Less, Nat)
  BY NatLessThanWellFounded, Zenon DEF OpToRel
<1>2. \A m, n \in Nat : m < n => <<m, n>> \in Less
  OBVIOUS
<1> HIDE DEF Less
<1>3. PICK n \in S : \A m \in S : ~ (<<m, n>> \in Less)
  BY <1>1, WFMin, Zenon
<1>4. \A m \in S : ~ (m < n)
  BY <1>2, <1>3, Zenon
<1>5. \E x \in S : \A y \in S : x <= y
  BY <1>4
<1> QED
  BY <1>5, Zenon DEF Min

(* A set of line numbers below a bound has a greatest one, and Max is it. *)
LEMMA MaxIsGreatest ==
    ASSUME NEW S \in SUBSET Nat, S # {}, NEW bound \in Nat, \A n \in S : n <= bound
    PROVE  Max(S) \in S /\ \A n \in S : n <= Max(S)
<1> DEFINE Rest == {k \in Nat : \E n \in S : k = bound - n}
<1>1. \A n \in S : bound - n \in Rest
  OBVIOUS
<1>2. Rest \in SUBSET Nat /\ Rest # {}
  BY <1>1
<1>3. Min(Rest) \in Rest /\ \A k \in Rest : Min(Rest) <= k
  <2> HIDE DEF Rest
  <2> QED
    BY <1>2, MinIsLeast
<1>4. PICK n \in S : Min(Rest) = bound - n
  BY <1>3
<1>5. \A m \in S : n >= m
  <2> TAKE m \in S
  <2>1. Min(Rest) <= bound - m
    BY <1>1, <1>3
  <2> QED
    BY <1>4, <2>1
<1>6. \E x \in S : \A y \in S : x >= y
  BY <1>5
<1>7. Max(S) \in S /\ \A y \in S : Max(S) >= y
  BY <1>6, Zenon DEF Max
<1> QED
  BY <1>7

(* Max is the one element no other exceeds. *)
LEMMA MaxIs ==
    ASSUME NEW S \in SUBSET Nat, NEW m \in S, \A n \in S : n <= m
    PROVE  Max(S) = m
<1>1. Max(S) \in S /\ \A n \in S : n <= Max(S)
  BY MaxIsGreatest
<1>2. Max(S) \in Nat /\ m \in Nat /\ m <= Max(S) /\ Max(S) <= m
  BY <1>1
<1> QED
  BY <1>2

--------------------------------------------------------------------------------
(* The lines of a text, and where its articles end. *)

Lines == LineKinds \X Nat

LEMMA LinesOfText ==
    ASSUME NEW text \in Seq(Lines), NEW kind
    PROVE  /\ LinesOf(kind, text) \in SUBSET Nat
           /\ \A i \in LinesOf(kind, text) : 1 <= i /\ i <= Len(text) /\ text[i][1] = kind
           /\ Len(text) \in Nat /\ DOMAIN text = 1..Len(text)
<1>1. Len(text) \in Nat /\ DOMAIN text = 1..Len(text)
  OBVIOUS
<1>2. \A i \in LinesOf(kind, text) : i \in DOMAIN text /\ text[i][1] = kind
  BY DEF LinesOf
<1> QED
  BY <1>1, <1>2

(* No article contains a line of an annex. *)
LEMMA CeilingIsBeforeAnnexes ==
    ASSUME NEW text \in Seq(Lines)
    PROVE  /\ DocumentCeiling(text) \in Nat /\ DocumentCeiling(text) <= Len(text)
           /\ \A x \in LinesOf("annex", text) : DocumentCeiling(text) < x
           /\ \A n \in 1..Len(text) :
                (\A x \in LinesOf("annex", text) : n < x) => n <= DocumentCeiling(text)
<1> DEFINE annexes == LinesOf("annex", text)
<1>1. annexes \in SUBSET Nat /\ Len(text) \in Nat
      /\ \A i \in annexes : 1 <= i /\ i <= Len(text)
  BY LinesOfText
<1> HIDE DEF annexes
<1>2. CASE annexes = {}
  BY <1>1, <1>2 DEF DocumentCeiling, annexes
<1>3. CASE annexes # {}
  <2>1. Min(annexes) \in annexes /\ \A n \in annexes : Min(annexes) <= n
    BY <1>1, <1>3, MinIsLeast
  <2>2. DocumentCeiling(text) = Min(annexes) - 1
    BY <1>3 DEF DocumentCeiling, annexes
  <2> QED
    BY <1>1, <2>1, <2>2 DEF annexes
<1> QED
  BY <1>2, <1>3

(* An article ends before the next heading and before the first annex, and no  *)
(* earlier than it must.                                                       *)
LEMMA ArticleEndIsTight ==
    ASSUME NEW text \in Seq(Lines), NEW i \in LinesOf("article", text)
    PROVE  /\ ArticleEnd(text, i) \in Nat /\ ArticleEnd(text, i) <= Len(text)
           /\ \A k \in LinesOf("article", text) : i < k => ArticleEnd(text, i) < k
           /\ \A x \in LinesOf("annex", text) : ArticleEnd(text, i) < x
           /\ \A n \in 1..Len(text) :
                /\ \A x \in LinesOf("annex", text) : n < x
                /\ \A k \in LinesOf("article", text) : i < k => n < k
                => n <= ArticleEnd(text, i)
<1> DEFINE articles == LinesOf("article", text)
           annexes == LinesOf("annex", text)
           ceiling == DocumentCeiling(text)
           ends == {ceiling} \cup {j - 1 : j \in {k \in articles : k > i}}
<1>1. /\ articles \in SUBSET Nat /\ annexes \in SUBSET Nat /\ Len(text) \in Nat
      /\ \A k \in articles : 1 <= k /\ k <= Len(text)
  BY LinesOfText
<1>2. /\ ceiling \in Nat /\ ceiling <= Len(text)
      /\ \A x \in annexes : ceiling < x
      /\ \A n \in 1..Len(text) : (\A x \in annexes : n < x) => n <= ceiling
  BY CeilingIsBeforeAnnexes
<1>3. ArticleEnd(text, i) = Min(ends)
  BY DEF ArticleEnd
<1> HIDE DEF articles, annexes, ceiling
<1>4. ends \in SUBSET Nat /\ ends # {}
  BY <1>1, <1>2
<1>5. Min(ends) \in ends /\ \A n \in ends : Min(ends) <= n
  <2> HIDE DEF ends
  <2> QED
    BY <1>4, MinIsLeast
<1>6. i \in articles
  BY DEF articles
<1>7. Min(ends) <= ceiling /\ \A k \in articles : i < k => Min(ends) <= k - 1
  BY <1>1, <1>5, <1>6
<1>8. Min(ends) = ceiling \/ \E k \in articles : i < k /\ Min(ends) = k - 1
  BY <1>1, <1>5, <1>6
<1>9. Min(ends) \in Nat
  BY <1>4, <1>5
<1> HIDE DEF ends
<1> QED
  BY <1>1, <1>2, <1>3, <1>6, <1>7, <1>8, <1>9 DEF articles, annexes

--------------------------------------------------------------------------------
(* The anchors of the paragraphs. *)

(* The paragraph lines of the article at line i. *)
Body(text, i) ==
    {j \in LinesOf("paragraph", text) : i <= j /\ j <= ArticleEnd(text, i)}

ParagraphEnd(text, i, j) ==
    Min({ArticleEnd(text, i)} \cup {k - 1 : k \in {x \in Body(text, i) : x > j}})

ParagraphAnchor(text, i, j) ==
    [type |-> "paragraph", path |-> ParagraphPath(text, i, j), start |-> j - 1,
     end |-> ParagraphEnd(text, i, j), parent |-> ArticlePath(text, i)]

Headings(text, j) == {i \in LinesOf("article", text) : i < j}

(* A paragraph line belongs to the nearest article heading above it. *)
LEMMA BodyHasNearestHeading ==
    ASSUME NEW text \in Seq(Lines), NEW i \in LinesOf("article", text), NEW j \in Body(text, i)
    PROVE  /\ i < j /\ j <= ArticleEnd(text, i)
           /\ j \in LinesOf("paragraph", text)
           /\ Max(Headings(text, j)) = i
           /\ \A x \in LinesOf("annex", text) : j < x
<1>1. /\ j \in LinesOf("paragraph", text) /\ i <= j /\ j <= ArticleEnd(text, i)
      /\ i \in Nat /\ j \in Nat /\ ArticleEnd(text, i) \in Nat
  BY LinesOfText, ArticleEndIsTight DEF Body
<1>2. i # j
  BY <1>1, LinesOfText
<1>3. \A k \in LinesOf("article", text) : k \in Nat /\ (i < k => ArticleEnd(text, i) < k)
  BY LinesOfText, ArticleEndIsTight
<1>4. Headings(text, j) \in SUBSET Nat /\ i \in Headings(text, j)
      /\ \A k \in Headings(text, j) : k <= i
  <2>1. \A k \in LinesOf("article", text) : k < j => k <= i
    BY <1>1, <1>3
  <2>2. i < j
    BY <1>1, <1>2
  <2>3. \A k \in Headings(text, j) : k \in Nat /\ k <= i
    BY <1>3, <2>1 DEF Headings
  <2> QED
    BY <2>2, <2>3 DEF Headings
<1>5. Max(Headings(text, j)) = i
  BY <1>4, MaxIs
<1>6. \A x \in LinesOf("annex", text) : x \in Nat /\ ArticleEnd(text, i) < x
  BY LinesOfText, ArticleEndIsTight
<1> QED
  BY <1>1, <1>2, <1>5, <1>6

(* A paragraph line before the annexes is in the body of that article. *)
LEMMA HeadingHasBody ==
    ASSUME NEW text \in Seq(Lines), NEW j \in LinesOf("paragraph", text),
           Headings(text, j) # {}, \A x \in LinesOf("annex", text) : j < x
    PROVE  \E i \in LinesOf("article", text) : j \in Body(text, i)
<1>1. /\ j \in 1..Len(text) /\ j \in Nat
      /\ \A k \in LinesOf("article", text) : k \in Nat /\ k # j
  BY LinesOfText
<1>2. Headings(text, j) \in SUBSET Nat /\ \A k \in Headings(text, j) : k <= j
  <2>1. \A k \in Headings(text, j) : k \in Nat /\ k < j
    BY <1>1 DEF Headings
  <2> QED
    BY <1>1, <2>1
<1> DEFINE i == Max(Headings(text, j))
<1>3. i \in Headings(text, j) /\ \A k \in Headings(text, j) : k <= i
  BY <1>1, <1>2, MaxIsGreatest
<1> HIDE DEF i
<1>4. i \in LinesOf("article", text) /\ i < j
  BY <1>3 DEF Headings
<1>5. \A k \in LinesOf("article", text) : i < k => j < k
  BY <1>1, <1>3, <1>4 DEF Headings
<1>6. j <= ArticleEnd(text, i)
  BY <1>1, <1>4, <1>5, ArticleEndIsTight
<1> QED
  BY <1>1, <1>4, <1>6 DEF Body

(* A paragraph's anchor holds its own line, and of the others neither a        *)
(* heading, nor an annex, nor another paragraph.                               *)
LEMMA ParagraphHoldsItself ==
    ASSUME NEW text \in Seq(Lines), NEW i \in LinesOf("article", text), NEW j \in Body(text, i)
    PROVE  /\ ParagraphEnd(text, i, j) \in Nat
           /\ j <= ParagraphEnd(text, i, j)
           /\ ParagraphEnd(text, i, j) <= ArticleEnd(text, i)
           /\ \A n \in LinesOf("paragraph", text) :
                j <= n /\ n <= ParagraphEnd(text, i, j) => n = j
<1> DEFINE later == {k - 1 : k \in {x \in Body(text, i) : x > j}}
           ends == {ArticleEnd(text, i)} \cup later
<1>1. /\ i \in Nat /\ ArticleEnd(text, i) \in Nat
      /\ \A k \in LinesOf("paragraph", text) : k \in Nat /\ k >= 1
      /\ j \in LinesOf("paragraph", text) /\ i < j /\ j <= ArticleEnd(text, i)
  BY LinesOfText, ArticleEndIsTight, BodyHasNearestHeading
<1>2. \A k \in Body(text, i) : k \in LinesOf("paragraph", text)
  BY DEF Body
<1>3. ends \in SUBSET Nat /\ ends # {} /\ \A n \in ends : j <= n
  <2>1. \A k \in Body(text, i) : k \in Nat /\ (k > j => k - 1 \in Nat /\ j <= k - 1)
    BY <1>1, <1>2
  <2>2. \A n \in later : n \in Nat /\ j <= n
    BY <2>1
  <2> HIDE DEF later
  <2> QED
    BY <1>1, <2>2
<1>4. Min(ends) \in ends /\ \A n \in ends : Min(ends) <= n
  <2> HIDE DEF ends
  <2> QED
    BY <1>3, MinIsLeast
<1>5. ParagraphEnd(text, i, j) = Min(ends)
  BY DEF ParagraphEnd
<1>6. Min(ends) \in Nat /\ j <= Min(ends) /\ Min(ends) <= ArticleEnd(text, i)
  BY <1>3, <1>4
<1>7. \A n \in Body(text, i) : j < n => Min(ends) <= n - 1
  BY <1>4
<1> HIDE DEF ends
<1>8. \A n \in LinesOf("paragraph", text) : j <= n /\ n <= Min(ends) => n = j
  <2> SUFFICES ASSUME NEW n \in LinesOf("paragraph", text), j < n, n <= Min(ends)
               PROVE  FALSE
    BY <1>1
  <2>1. n \in Body(text, i)
    BY <1>1, <1>6 DEF Body
  <2> QED
    BY <1>1, <1>6, <1>7, <2>1
<1> QED
  BY <1>5, <1>6, <1>8

(* The paragraphs of a structure are these anchors. *)
LEMMA StructureParagraphs ==
    ASSUME NEW text \in Seq(Lines)
    PROVE  /\ \A a \in BuildStructure(text) : a.type = "paragraph" =>
                \E i \in LinesOf("article", text) : \E j \in Body(text, i) :
                    a = ParagraphAnchor(text, i, j)
           /\ \A i \in LinesOf("article", text) :
                /\ ArticleAnchor(text, i) \in BuildStructure(text)
                /\ \A j \in Body(text, i) : ParagraphAnchor(text, i, j) \in BuildStructure(text)
<1> DEFINE articles == LinesOf("article", text)
<1>1. \A i : ParagraphAnchors(text, i) = {ParagraphAnchor(text, i, j) : j \in Body(text, i)}
  BY DEF ParagraphAnchors, ParagraphAnchor, ParagraphEnd, Body
<1>2. \A i : ArticleAnchor(text, i).type # "paragraph"
  BY DEF ArticleAnchor
<1>3. DocumentAnchor(text).type # "paragraph"
  BY DEF DocumentAnchor
<1>4. CASE articles = {}
  BY <1>3, <1>4 DEF BuildStructure
<1>5. CASE articles # {}
  <2>1. BuildStructure(text) = {ArticleAnchor(text, i) : i \in articles}
            \cup UNION {ParagraphAnchors(text, i) : i \in articles}
    BY <1>5 DEF BuildStructure
  <2> HIDE DEF articles
  <2>2. \A i \in articles : /\ ArticleAnchor(text, i) \in BuildStructure(text)
                            /\ ParagraphAnchors(text, i) \subseteq BuildStructure(text)
    BY <2>1
  <2>3. \A a \in BuildStructure(text) :
            \/ \E i \in articles : a = ArticleAnchor(text, i)
            \/ \E i \in articles : a \in ParagraphAnchors(text, i)
    BY <2>1
  <2> QED
    BY <1>1, <1>2, <2>2, <2>3 DEF articles
<1> QED
  BY <1>4, <1>5

(* The structure of every text, however long and wherever its annexes are,     *)
(* anchors the paragraphs under an article heading and before the first annex, *)
(* and no others; each under the nearest heading above it, over lines that     *)
(* hold that one paragraph, no heading and nothing of an annex, and inside     *)
(* the lines of its article (build_structure).                                 *)
THEOREM EveryStructureIsFaithful ==
    ASSUME NEW text \in Seq(LineKinds \X Nat)
    PROVE  ParagraphsAreFaithful(text)
<1> DEFINE structure == BuildStructure(text)
           paragraphs == {a \in structure : a.type = "paragraph"}
           articles == LinesOf("article", text)
           annexes == LinesOf("annex", text)
           lines(a) == {n \in DOMAIN text : a.start < n /\ n <= a.end}
<1>0. /\ text \in Seq(Lines)
      /\ articles \in SUBSET Nat /\ annexes \in SUBSET Nat
      /\ LinesOf("paragraph", text) \in SUBSET Nat
      /\ DOMAIN text = 1..Len(text) /\ Len(text) \in Nat
      /\ \A j \in LinesOf("paragraph", text) : j \in DOMAIN text
  <2>1. text \in Seq(Lines)
    BY DEF Lines
  <2> QED
    BY <2>1, LinesOfText
<1>1. \A a \in paragraphs : \E i \in articles : \E j \in Body(text, i) :
          a = ParagraphAnchor(text, i, j)
  BY <1>0, StructureParagraphs
<1>2. \A i \in articles : \A j \in Body(text, i) : ParagraphAnchor(text, i, j) \in paragraphs
  BY <1>0, StructureParagraphs DEF ParagraphAnchor
<1>3. ASSUME NEW i \in articles, NEW j \in Body(text, i), NEW a,
             a = ParagraphAnchor(text, i, j)
      PROVE  /\ a.start + 1 = j /\ a.start = j - 1 /\ a.end = ParagraphEnd(text, i, j)
             /\ a.path = ParagraphPath(text, i, j) /\ a.parent = ArticlePath(text, i)
             /\ i \in Nat /\ j \in Nat /\ i < j /\ j \in LinesOf("paragraph", text)
             /\ Max(Headings(text, j)) = i /\ i \in Headings(text, j)
             /\ \A x \in annexes : j < x
             /\ ArticleEnd(text, i) \in Nat /\ ParagraphEnd(text, i, j) \in Nat
             /\ j <= ParagraphEnd(text, i, j)
             /\ ParagraphEnd(text, i, j) <= ArticleEnd(text, i)
  <2>1. /\ i < j /\ j \in LinesOf("paragraph", text) /\ Max(Headings(text, j)) = i
        /\ \A x \in annexes : j < x
    BY <1>0, BodyHasNearestHeading
  <2>2. i \in Nat /\ j \in Nat
    BY <1>0, <2>1
  <2>3. /\ a.start = j - 1 /\ a.end = ParagraphEnd(text, i, j)
        /\ a.path = ParagraphPath(text, i, j) /\ a.parent = ArticlePath(text, i)
    BY <1>3 DEF ParagraphAnchor
  <2>4. i \in Headings(text, j)
    BY <2>1 DEF Headings
  <2>5. /\ ArticleEnd(text, i) \in Nat /\ ParagraphEnd(text, i, j) \in Nat
        /\ j <= ParagraphEnd(text, i, j)
        /\ ParagraphEnd(text, i, j) <= ArticleEnd(text, i)
    BY <1>0, ArticleEndIsTight, ParagraphHoldsItself
  <2> QED
    BY <2>1, <2>2, <2>3, <2>4, <2>5
<1>4. {a.start + 1 : a \in paragraphs} =
          {j \in LinesOf("paragraph", text) :
              Headings(text, j) # {} /\ \A x \in annexes : j < x}
  <2>1. ASSUME NEW a \in paragraphs
        PROVE  /\ a.start + 1 \in LinesOf("paragraph", text)
               /\ Headings(text, a.start + 1) # {}
               /\ \A x \in annexes : a.start + 1 < x
    <3>1. PICK i \in articles : \E j \in Body(text, i) : a = ParagraphAnchor(text, i, j)
      BY <1>1
    <3>2. PICK j \in Body(text, i) : a = ParagraphAnchor(text, i, j)
      BY <3>1
    <3>3. a.start + 1 = j /\ j \in LinesOf("paragraph", text) /\ i \in Headings(text, j)
          /\ \A x \in annexes : j < x
      BY <1>3, <3>2
    <3> QED
      BY <3>3
  <2>2. ASSUME NEW j \in LinesOf("paragraph", text), Headings(text, j) # {},
               \A x \in annexes : j < x
        PROVE  \E a \in paragraphs : j = a.start + 1
    <3>1. PICK i \in articles : j \in Body(text, i)
      BY <1>0, <2>2, HeadingHasBody
    <3> DEFINE a == ParagraphAnchor(text, i, j)
    <3>2. a \in paragraphs
      BY <1>2, <3>1
    <3>3. a.start + 1 = j
      BY <1>3, <3>1
    <3> QED
      BY <3>2, <3>3
  <2> HIDE DEF paragraphs, annexes
  <2> QED
    BY <2>1, <2>2
<1>5. ASSUME NEW a \in paragraphs
      PROVE  /\ a.path = ParagraphPath(text, Max(Headings(text, a.start + 1)), a.start + 1)
             /\ lines(a) \cap (articles \cup annexes) = {}
             /\ lines(a) \cap LinesOf("paragraph", text) = {a.start + 1}
             /\ \E b \in structure : b.path = a.parent /\ b.start < a.start /\ a.end <= b.end
  <2>1. PICK i \in articles : \E j \in Body(text, i) : a = ParagraphAnchor(text, i, j)
    BY <1>1
  <2>2. PICK j \in Body(text, i) : a = ParagraphAnchor(text, i, j)
    BY <2>1
  <2>3. /\ a.start + 1 = j /\ a.start = j - 1 /\ a.end = ParagraphEnd(text, i, j)
        /\ a.path = ParagraphPath(text, i, j) /\ a.parent = ArticlePath(text, i)
        /\ i \in Nat /\ j \in Nat /\ i < j /\ j \in LinesOf("paragraph", text)
        /\ Max(Headings(text, j)) = i /\ i \in Headings(text, j)
        /\ \A x \in annexes : j < x
        /\ ArticleEnd(text, i) \in Nat /\ ParagraphEnd(text, i, j) \in Nat
        /\ j <= ParagraphEnd(text, i, j)
        /\ ParagraphEnd(text, i, j) <= ArticleEnd(text, i)
    BY <1>3, <2>2
  <2>4. /\ \A k \in articles : k \in Nat /\ (i < k => ArticleEnd(text, i) < k)
        /\ \A x \in annexes : x \in Nat /\ ArticleEnd(text, i) < x
    BY <1>0, ArticleEndIsTight
  <2>5. \A n \in lines(a) : n \in Nat /\ j <= n /\ n <= ParagraphEnd(text, i, j)
    BY <1>0, <2>3
  <2>6. lines(a) \cap (articles \cup annexes) = {}
    <3> HIDE DEF articles, annexes, lines
    <3> QED
      BY <2>3, <2>4, <2>5
  <2>7. \A n \in LinesOf("paragraph", text) : n \in lines(a) => n = j
    <3> HIDE DEF lines
    <3> QED
      BY <1>0, <2>5, ParagraphHoldsItself
  <2>8. j \in lines(a)
    BY <1>0, <2>3
  <2>9. lines(a) \cap LinesOf("paragraph", text) = {a.start + 1}
    <3> HIDE DEF lines
    <3> QED
      BY <2>3, <2>7, <2>8
  <2>10. \E b \in structure : b.path = a.parent /\ b.start < a.start /\ a.end <= b.end
    <3> DEFINE b == ArticleAnchor(text, i)
    <3>1. b \in structure
      BY <1>0, StructureParagraphs
    <3>2. b.path = ArticlePath(text, i) /\ b.start = i - 1 /\ b.end = ArticleEnd(text, i)
      BY DEF ArticleAnchor
    <3>3. b.path = a.parent /\ b.start < a.start /\ a.end <= b.end
      BY <2>3, <3>2
    <3> QED
      BY <3>1, <3>3
  <2> QED
    BY <2>3, <2>6, <2>9, <2>10
<1> QED
  BY <1>4, <1>5 DEF ParagraphsAreFaithful, Headings
--------------------------------------------------------------------------------
(* The lines a normalization keeps. *)

(* The places of S in increasing order: at[1] < ... < at[m]. *)
Enumerates(at, m, S) ==
    /\ m \in Nat
    /\ at \in [1..m -> S]
    /\ \A k, l \in 1..m : k < l => at[k] < at[l]
    /\ \A i \in S : \E k \in 1..m : at[k] = i

(* Two increasing orders that agree up to a place agree at it. *)
LEMMA EnumerationBefore ==
    ASSUME NEW S \in SUBSET Nat, NEW f, NEW m, NEW g, NEW n,
           Enumerates(f, m, S), Enumerates(g, n, S),
           NEW k \in Nat, k \in 1..m, k \in 1..n,
           \A l \in 1..k - 1 : f[l] = g[l]
    PROVE  f[k] <= g[k]
<1> SUFFICES ASSUME ~(f[k] <= g[k])
             PROVE  FALSE
  OBVIOUS
<1>1. /\ m \in Nat /\ n \in Nat
      /\ \A l \in 1..m : f[l] \in S
      /\ \A l \in 1..n : g[l] \in S
  BY DEF Enumerates
<1>2. g[k] \in S /\ f[k] \in Nat /\ g[k] \in Nat /\ g[k] < f[k]
  <2>1. f[k] \in S /\ g[k] \in S
    BY <1>1
  <2>2. f[k] \in Nat /\ g[k] \in Nat
    BY <2>1
  <2> QED
    BY <2>1, <2>2
<1>3. PICK l \in 1..m : f[l] = g[k]
  BY <1>2 DEF Enumerates
<1>4. CASE l < k
  <2>1. l \in 1..k - 1 /\ l \in 1..n
    BY <1>1, <1>4
  <2>2. g[l] = g[k] /\ g[l] < g[k]
    BY <1>3, <1>4, <2>1 DEF Enumerates
  <2> QED
    BY <1>2, <2>2
<1>5. CASE l = k
  BY <1>2, <1>3, <1>5
<1>6. CASE k < l
  <2>1. f[k] < f[l]
    BY <1>6 DEF Enumerates
  <2> QED
    BY <1>2, <1>3, <2>1
<1> QED
  BY <1>1, <1>4, <1>5, <1>6

(* There is one increasing order of a set of places. *)
LEMMA OneEnumeration ==
    ASSUME NEW S \in SUBSET Nat, NEW f, NEW m, NEW g, NEW n,
           Enumerates(f, m, S), Enumerates(g, n, S)
    PROVE  m = n /\ \A k \in 1..m : f[k] = g[k]
<1>1. /\ m \in Nat /\ n \in Nat
      /\ \A l \in 1..m : f[l] \in S
      /\ \A l \in 1..n : g[l] \in S
  BY DEF Enumerates
<1> DEFINE Differ == {k \in Nat : k \in 1..m /\ k \in 1..n /\ f[k] # g[k]}
<1>2. Differ = {}
  <2> SUFFICES ASSUME Differ # {}
               PROVE  FALSE
    OBVIOUS
  <2>1. Differ \in SUBSET Nat
    OBVIOUS
  <2>2. PICK k \in Differ : \A l \in Differ : k <= l
    <3> HIDE DEF Differ
    <3> QED
      BY <2>1, MinIsLeast
  <2>3. \A l \in 1..k - 1 : f[l] = g[l]
    <3> TAKE l \in 1..k - 1
    <3>1. l \in Nat /\ l \in 1..m /\ l \in 1..n /\ ~(k <= l)
      BY <1>1, <2>2
    <3> QED
      BY <2>2, <3>1
  <2>4. f[k] <= g[k] /\ g[k] <= f[k]
    BY <2>2, <2>3, EnumerationBefore
  <2>5. f[k] \in Nat /\ g[k] \in Nat /\ f[k] # g[k]
    BY <1>1, <2>2
  <2> QED
    BY <2>4, <2>5
<1>3. \A k \in Nat : k \in 1..m /\ k \in 1..n => f[k] = g[k]
  BY <1>2
<1>4. ASSUME m < n
      PROVE  FALSE
  <2>1. n \in 1..n /\ g[n] \in S
    BY <1>1, <1>4
  <2>2. PICK k \in 1..m : f[k] = g[n]
    BY <2>1 DEF Enumerates
  <2>3. k \in Nat /\ k \in 1..n /\ k < n
    BY <1>1, <1>4, <2>2
  <2>4. f[k] = g[k] /\ g[k] < g[n]
    BY <1>3, <2>1, <2>2, <2>3 DEF Enumerates
  <2>5. g[n] \in Nat /\ g[n] < g[n]
    BY <2>1, <2>2, <2>4
  <2> QED
    BY <2>5
<1>5. ASSUME n < m
      PROVE  FALSE
  <2>1. m \in 1..m /\ f[m] \in S
    BY <1>1, <1>5
  <2>2. PICK k \in 1..n : g[k] = f[m]
    BY <2>1 DEF Enumerates
  <2>3. k \in Nat /\ k \in 1..m /\ k < m
    BY <1>1, <1>5, <2>2
  <2>4. f[k] = g[k] /\ f[k] < f[m]
    BY <1>3, <2>1, <2>2, <2>3 DEF Enumerates
  <2>5. f[m] \in Nat /\ f[m] < f[m]
    BY <2>1, <2>2, <2>4
  <2> QED
    BY <2>5
<1> QED
  BY <1>1, <1>3, <1>4, <1>5

(* The lines seen after each of the first ones. *)
AreKept(f, text, places, n) ==
    f = [k \in 0..n |-> IF k = 0 THEN <<>>
                        ELSE IF k \in places THEN Append(f[k - 1], text[k]) ELSE f[k - 1]]

LEMMA KeptExist ==
    ASSUME NEW text, NEW places, NEW N \in Nat
    PROVE  \E f : AreKept(f, text, places, N)
<1> DEFINE Short == {m \in Nat : ~\E f : AreKept(f, text, places, m)}
<1> SUFFICES ASSUME Short # {}
             PROVE  FALSE
  OBVIOUS
<1>1. PICK m \in Short : \A k \in Short : m <= k
  BY MinIsLeast
<1> DEFINE step(h, k) == IF k \in places THEN Append(h[k - 1], text[k]) ELSE h[k - 1]
<1>2. CASE m = 0
  <2> DEFINE g == [n \in 0..m |-> <<>>]
  <2>1. g = [n \in 0..m |-> IF n = 0 THEN <<>> ELSE step(g, n)]
    BY <1>2
  <2> HIDE DEF g
  <2>2. AreKept(g, text, places, m)
    BY <2>1, Zenon DEF AreKept
  <2> QED
    BY <1>1, <2>2
<1>3. CASE m # 0
  <2>1. m - 1 \in Nat /\ m - 1 \notin Short
    BY <1>1, <1>3
  <2>2. PICK f : AreKept(f, text, places, m - 1)
    BY <2>1
  <2> DEFINE g == [n \in 0..m |-> IF n = 0 THEN <<>> ELSE step(f, n)]
  <2>3. \A n \in 0..m - 1 : f[n] = IF n = 0 THEN <<>> ELSE step(f, n)
    BY <2>2, Zenon DEF AreKept
  <2>4. \A n \in 0..m : g[n] = IF n = 0 THEN <<>> ELSE step(f, n)
    BY Zenon
  <2>5. \A n \in 0..m - 1 : n \in 0..m
    BY <2>1
  <2>6. \A n \in 0..m - 1 : g[n] = f[n]
    BY <2>3, <2>4, <2>5, Zenon
  <2>7. \A n \in 0..m : n # 0 => n - 1 \in 0..m - 1
    BY <2>1
  <2>8. \A n \in 0..m : n # 0 => step(f, n) = step(g, n)
    BY <2>6, <2>7, Zenon
  <2>9. g = [n \in 0..m |-> IF n = 0 THEN <<>> ELSE step(g, n)]
    BY <2>8, Zenon
  <2> HIDE DEF g
  <2>10. AreKept(g, text, places, m)
    BY <2>9, Zenon DEF AreKept
  <2> QED
    BY <1>1, <2>10
<1> QED
  BY <1>2, <1>3

(* The lines of text at the places at[1], ..., at[m]. *)
Picked(text, at, m) == [k \in 1..m |-> text[at[k]]]

(* s is what text has at the places P. *)
AreLinesAt(s, text, P) ==
    \E at, m : Enumerates(at, m, P) /\ s = Picked(text, at, m)

(* A function on 1..m is a sequence. *)
LEMMA IsASeq ==
    ASSUME NEW X, NEW m \in Nat, NEW e, DOMAIN e = 1..m, \A k \in 1..m : e[k] \in X,
           e = [k \in 1..m |-> e[k]]
    PROVE  e \in Seq(X) /\ Len(e) = m
OBVIOUS

(* A line more, after all the others. *)
LEMMA OneMorePlace ==
    ASSUME NEW X, NEW text \in Seq(X), NEW n \in DOMAIN text, NEW P \in SUBSET (1..n - 1),
           NEW s, AreLinesAt(s, text, P)
    PROVE  AreLinesAt(Append(s, text[n]), text, P \cup {n})
<1>1. PICK at, m : Enumerates(at, m, P) /\ s = Picked(text, at, m)
  BY DEF AreLinesAt
<1> DEFINE next == [k \in 1..m + 1 |-> IF k = m + 1 THEN n ELSE at[k]]
<1>2. /\ m \in Nat /\ at \in [1..m -> P]
      /\ \A k, l \in 1..m : k < l => at[k] < at[l]
      /\ \A i \in P : \E k \in 1..m : at[k] = i
  BY <1>1 DEF Enumerates
<1>3. DOMAIN text = 1..Len(text) /\ Len(text) \in Nat /\ n \in Nat /\ n <= Len(text)
  OBVIOUS
<1>4. \A i \in P : i \in Nat /\ 1 <= i /\ i < n
  BY <1>3
<1>5. \A k \in 1..m : at[k] \in P
  BY <1>2
<1>6. /\ m \in Nat /\ n \in Nat /\ n <= Len(text)
      /\ \A k \in 1..m : at[k] \in P /\ at[k] \in Nat /\ 1 <= at[k] /\ at[k] < n
      /\ \A k, l \in 1..m : k < l => at[k] < at[l]
      /\ \A i \in P : \E k \in 1..m : at[k] = i
      /\ DOMAIN text = 1..Len(text) /\ Len(text) \in Nat
  BY <1>2, <1>3, <1>4, <1>5
<1>7. \A k \in 1..m + 1 : k = m + 1 \/ (k \in 1..m /\ k # m + 1)
  BY <1>6
<1>8. \A k \in 1..m : k \in 1..m + 1 /\ next[k] = at[k]
  BY <1>6
<1>9. m + 1 \in 1..m + 1 /\ next[m + 1] = n
  BY <1>6
<1>10. next \in [1..m + 1 -> P \cup {n}]
  BY <1>6, <1>7
<1> HIDE DEF next
<1>11. Enumerates(next, m + 1, P \cup {n})
  <2>1. ASSUME NEW k \in 1..m + 1, NEW l \in 1..m + 1, k < l
        PROVE  next[k] < next[l]
    <3>1. k \in 1..m
      BY <1>6, <2>1
    <3>2. next[k] = at[k] /\ at[k] < n
      BY <1>6, <1>8, <3>1
    <3>3. CASE l = m + 1
      BY <1>9, <3>2, <3>3
    <3>4. CASE l \in 1..m
      BY <1>6, <1>8, <2>1, <3>1, <3>2, <3>4
    <3> QED
      BY <1>7, <3>3, <3>4
  <2>2. \A i \in P \cup {n} : \E k \in 1..m + 1 : next[k] = i
    BY <1>6, <1>8, <1>9
  <2> QED
    BY <1>6, <1>10, <2>1, <2>2 DEF Enumerates
<1>12. Append(Picked(text, at, m), text[n]) = Picked(text, next, m + 1)
  <2>1. PICK old \in Seq(X) : old = Picked(text, at, m)
    <3>1. \A k \in 1..m : text[at[k]] \in X
      <4>1. \A i \in DOMAIN text : text[i] \in X
        OBVIOUS
      <4>2. \A k \in 1..m : at[k] \in DOMAIN text
        BY <1>6
      <4> QED
        BY <4>1, <4>2
    <3>2. [k \in 1..m |-> text[at[k]]] \in Seq(X)
      BY <1>6, <3>1, IsASeq
    <3> QED
      BY <3>2 DEF Picked
  <2>2. Len(old) = m /\ \A k \in 1..m : old[k] = text[at[k]]
    BY <1>6, <2>1 DEF Picked
  <2>3. text[n] \in X
    OBVIOUS
  <2>4. PICK new \in Seq(X) : new = Append(old, text[n])
    <3>1. \A line \in X : Append(old, line) \in Seq(X)
      OBVIOUS
    <3> QED
      BY <2>3, <3>1
  <2>5. /\ Len(new) = m + 1 /\ new[m + 1] = text[n]
        /\ \A k \in 1..m : new[k] = old[k]
    BY <1>6, <2>1, <2>2, <2>4
  <2>6. \A k \in 1..m + 1 : new[k] = text[next[k]]
    BY <1>7, <1>8, <1>9, <2>2, <2>5
  <2>7. new = [k \in 1..m + 1 |-> text[next[k]]]
    BY <1>6, <2>4, <2>5, <2>6
  <2> QED
    BY <2>1, <2>4, <2>7 DEF Picked
<1> QED
  BY <1>11, <1>12, <1>1 DEF AreLinesAt

(* LinesAt takes the lines at these places, each once and in their order. *)
LEMMA LinesAtPlaces ==
    ASSUME NEW X, NEW text \in Seq(X), NEW places \in SUBSET (DOMAIN text)
    PROVE  AreLinesAt(LinesAt(text, places), text, places)
<1> DEFINE N == Len(text)
<1>1. N \in Nat /\ DOMAIN text = 1..N
  OBVIOUS
<1>2. LinesAt(text, places) = (CHOOSE f : AreKept(f, text, places, N))[N]
  BY DEF LinesAt, AreKept
<1> HIDE DEF N
<1>3. PICK f : AreKept(f, text, places, N) /\ LinesAt(text, places) = f[N]
  BY <1>1, <1>2, KeptExist
<1>4. \A k \in 0..N : f[k] = IF k = 0 THEN <<>>
                             ELSE IF k \in places THEN Append(f[k - 1], text[k]) ELSE f[k - 1]
  BY <1>3, Zenon DEF AreKept
<1> DEFINE Good(k) == AreLinesAt(f[k], text, places \cap 1..k)
           Bad == {k \in 0..N : ~Good(k)}
<1> HIDE DEF Good
<1>5. Bad \in SUBSET Nat /\ \A k \in 0..N : k \notin Bad => Good(k)
  OBVIOUS
<1>6. \A k \in Bad : k \in 0..N /\ ~Good(k)
  OBVIOUS
<1> HIDE DEF Bad
<1>7. ASSUME Bad # {}
      PROVE  FALSE
  <2>1. PICK n \in Bad : \A k \in Bad : n <= k
    BY <1>7, <1>5, MinIsLeast
  <2>2. n \in 0..N /\ ~Good(n)
    BY <1>6, <2>1
  <2>3. CASE n = 0
    <3>1. Enumerates(<<>>, 0, places \cap 1..0)
      <4>1. 1..0 = {} /\ places \cap 1..0 = {} /\ <<>> \in [{} -> {}]
        OBVIOUS
      <4> QED
        BY <4>1 DEF Enumerates
    <3>2. f[0] = <<>> /\ Picked(text, <<>>, 0) = <<>>
      BY <1>1, <1>4 DEF Picked
    <3>3. Good(0)
      BY <3>1, <3>2 DEF Good, AreLinesAt
    <3> QED
      BY <2>2, <2>3, <3>3
  <2>4. CASE n # 0
    <3>1. n \in 1..N /\ n - 1 \in 0..N /\ ~(n <= n - 1) /\ n \in DOMAIN text
      BY <1>1, <2>2, <2>4
    <3>2. Good(n - 1)
      <4>1. n - 1 \notin Bad
        BY <2>1, <3>1
      <4> QED
        BY <1>5, <3>1, <4>1
    <3>3. CASE n \in places
      <4>1. f[n] = Append(f[n - 1], text[n])
        BY <1>4, <2>2, <2>4, <3>3
      <4>2. (places \cap 1..n - 1) \cup {n} = places \cap 1..n
        BY <3>1, <3>3
      <4>3. PICK P \in SUBSET (1..n - 1) : P = places \cap 1..n - 1
        OBVIOUS
      <4>4. AreLinesAt(f[n - 1], text, P) /\ n \in DOMAIN text
        BY <3>1, <3>2, <4>3 DEF Good
      <4>5. AreLinesAt(Append(f[n - 1], text[n]), text, P \cup {n})
        BY <4>4, OneMorePlace
      <4> QED
        BY <2>2, <4>1, <4>2, <4>3, <4>5 DEF Good
    <3>4. CASE n \notin places
      <4>1. f[n] = f[n - 1]
        BY <1>4, <2>4, <3>1, <3>4
      <4>2. places \cap 1..n - 1 = places \cap 1..n
        BY <3>1, <3>4
      <4>3. Good(n)
        BY <3>2, <4>1, <4>2 DEF Good
      <4> QED
        BY <2>2, <4>3
    <3> QED
      BY <3>3, <3>4
  <2> QED
    BY <2>3, <2>4
<1>8. Good(N)
  <2>1. N \in 0..N /\ N \notin Bad
    BY <1>1, <1>7
  <2> QED
    BY <1>5, <2>1
<1>9. places \cap 1..N = places
  BY <1>1
<1> QED
  BY <1>3, <1>8, <1>9 DEF Good
(* The lines at some places are the same however they are found. *)
LEMMA SameLines ==
    ASSUME NEW text, NEW P \in SUBSET Nat, NEW s, NEW t,
           AreLinesAt(s, text, P), AreLinesAt(t, text, P)
    PROVE  s = t
<1>1. PICK f, m : Enumerates(f, m, P) /\ s = Picked(text, f, m)
  BY DEF AreLinesAt
<1>2. PICK g, n : Enumerates(g, n, P) /\ t = Picked(text, g, n)
  BY DEF AreLinesAt
<1>3. m = n /\ \A k \in 1..m : f[k] = g[k]
  BY <1>1, <1>2, OneEnumeration
<1>4. \A k \in 1..m : text[f[k]] = text[g[k]]
  BY <1>3
<1>5. [k \in 1..m |-> text[f[k]]] = [k \in 1..m |-> text[g[k]]]
  BY <1>4
<1> QED
  BY <1>1, <1>2, <1>3, <1>5 DEF Picked

(* All lines of a text are the text. *)
LEMMA AllLines ==
    ASSUME NEW X, NEW text \in Seq(X)
    PROVE  LinesAt(text, DOMAIN text) = text
<1> DEFINE m == Len(text)
           id == [k \in 1..m |-> k]
<1>1. m \in Nat /\ DOMAIN text = 1..m /\ text = [k \in 1..m |-> text[k]]
  OBVIOUS
<1>2. \A k \in 1..m : id[k] = k
  OBVIOUS
<1>3. Enumerates(id, m, 1..m)
  <2>1. id \in [1..m -> 1..m]
    OBVIOUS
  <2>2. \A k, l \in 1..m : k < l => id[k] < id[l]
    BY <1>2
  <2> HIDE DEF id
  <2> QED
    BY <1>1, <1>2, <2>1, <2>2 DEF Enumerates
<1>4. text = Picked(text, id, m)
  <2>1. [k \in 1..m |-> text[k]] = [k \in 1..m |-> text[id[k]]]
    BY <1>2
  <2> QED
    BY <1>1, <2>1 DEF Picked
<1>5. AreLinesAt(text, text, DOMAIN text)
  <2> HIDE DEF id
  <2> QED
    BY <1>1, <1>3, <1>4 DEF AreLinesAt
<1>6. AreLinesAt(LinesAt(text, DOMAIN text), text, DOMAIN text)
  BY LinesAtPlaces
<1>7. DOMAIN text \in SUBSET Nat
  BY <1>1
<1> QED
  BY <1>5, <1>6, <1>7, SameLines

(* Lines of lines of a text are lines of the text. *)
LEMMA LinesOfLines ==
    ASSUME NEW text, NEW P \in SUBSET Nat, NEW at, NEW m, Enumerates(at, m, P),
           NEW Q \in SUBSET (1..m), NEW u, AreLinesAt(u, Picked(text, at, m), Q)
    PROVE  AreLinesAt(u, text, {at[k] : k \in Q})
<1> DEFINE R == {at[k] : k \in Q}
<1>1. PICK b, n : Enumerates(b, n, Q) /\ u = Picked(Picked(text, at, m), b, n)
  BY DEF AreLinesAt
<1> DEFINE c == [k \in 1..n |-> at[b[k]]]
<1>2. /\ n \in Nat /\ m \in Nat
      /\ \A k \in 1..n : b[k] \in Q
      /\ \A k \in 1..m : at[k] \in P
      /\ \A k, l \in 1..n : k < l => b[k] < b[l]
      /\ \A k, l \in 1..m : k < l => at[k] < at[l]
      /\ \A i \in Q : \E k \in 1..n : b[k] = i
  <2>1. b \in [1..n -> Q] /\ at \in [1..m -> P]
    BY <1>1 DEF Enumerates
  <2> QED
    BY <1>1, <2>1 DEF Enumerates
<1>3. \A k \in 1..n : b[k] \in 1..m /\ c[k] = at[b[k]] /\ c[k] \in R
  BY <1>2
<1>4. Enumerates(c, n, R)
  <2>1. c \in [1..n -> R]
    BY <1>2
  <2>2. \A k, l \in 1..n : k < l => c[k] < c[l]
    BY <1>2, <1>3
  <2>3. ASSUME NEW i \in R
        PROVE  \E k \in 1..n : c[k] = i
    <3>1. PICK k \in Q : i = at[k]
      OBVIOUS
    <3>2. PICK l \in 1..n : b[l] = k
      BY <1>2
    <3>3. c[l] = i
      BY <1>3, <3>1, <3>2
    <3> QED
      BY <3>3
  <2> HIDE DEF c, R
  <2> QED
    BY <1>2, <2>1, <2>2, <2>3 DEF Enumerates
<1>5. u = Picked(text, c, n)
  <2>1. \A k \in 1..m : Picked(text, at, m)[k] = text[at[k]]
    BY DEF Picked
  <2>2. \A k \in 1..n : Picked(text, at, m)[b[k]] = text[c[k]]
    BY <1>3, <2>1
  <2>3. [k \in 1..n |-> Picked(text, at, m)[b[k]]] = [k \in 1..n |-> text[c[k]]]
    BY <2>2
  <2> QED
    BY <1>1, <2>3 DEF Picked
<1> HIDE DEF c
<1> QED
  BY <1>4, <1>5 DEF AreLinesAt

--------------------------------------------------------------------------------
(* What normalization keeps and what it leaves alone. *)

LEMMA TrimmedText ==
    ASSUME NEW text \in Seq(Lines)
    PROVE  /\ Trimmed(text) \in Seq(Lines)
           /\ DOMAIN Trimmed(text) = DOMAIN text
           /\ DOMAIN text = 1..Len(text) /\ Len(text) \in Nat
           /\ \A i \in DOMAIN text : Trimmed(text)[i] = IF IsBlank(text[i]) THEN Blank ELSE text[i]
           /\ \A i \in DOMAIN text : i \in ContentLines(text) <=> ~IsBlank(Trimmed(text)[i])
           /\ ContentLines(text) \subseteq KeptLines(text)
           /\ KeptLines(text) \in SUBSET (DOMAIN text) /\ KeptLines(text) \in SUBSET Nat
           /\ ContentLines(text) \in SUBSET Nat
<1>1. DOMAIN text = 1..Len(text) /\ Len(text) \in Nat /\ \A i \in DOMAIN text : text[i] \in Lines
  OBVIOUS
<1>2. Blank \in Lines /\ IsBlank(Blank)
  BY DEF Blank, Lines, LineKinds, IsBlank
<1>3. \A i \in DOMAIN text : Trimmed(text)[i] = IF IsBlank(text[i]) THEN Blank ELSE text[i]
  BY DEF Trimmed
<1>4. Trimmed(text) \in [1..Len(text) -> Lines]
  BY <1>1, <1>2 DEF Trimmed
<1>5. Trimmed(text) \in Seq(Lines) /\ DOMAIN Trimmed(text) = DOMAIN text
  BY <1>1, <1>4
<1>6. \A i \in DOMAIN text : i \in ContentLines(text) <=> ~IsBlank(Trimmed(text)[i])
  BY <1>2, <1>3 DEF ContentLines
<1>7. /\ ContentLines(text) \subseteq KeptLines(text)
      /\ KeptLines(text) \in SUBSET (DOMAIN text)
      /\ ContentLines(text) \in SUBSET (DOMAIN text)
  BY DEF KeptLines, ContentLines
<1> QED
  BY <1>1, <1>3, <1>5, <1>6, <1>7

(* The canonical form of a text with content: some of its lines in their       *)
(* order, white space gone.                                                    *)
IsCanonicalOf(canonical, text, at, m) ==
    /\ Enumerates(at, m, KeptLines(text))
    /\ canonical = Picked(Trimmed(text), at, m)

LEMMA CanonicalLines ==
    ASSUME NEW text \in Seq(Lines), KeptLines(text) # {}
    PROVE  \E at, m : IsCanonicalOf(CanonicalizeText(text), text, at, m)
<1>1. Trimmed(text) \in Seq(Lines) /\ KeptLines(text) \in SUBSET (DOMAIN Trimmed(text))
  BY TrimmedText
<1>2. AreLinesAt(LinesAt(Trimmed(text), KeptLines(text)), Trimmed(text), KeptLines(text))
  BY <1>1, LinesAtPlaces
<1> QED
  BY <1>2 DEF AreLinesAt, CanonicalizeText, IsCanonicalOf

LEMMA CanonicalFacts ==
    ASSUME NEW text \in Seq(Lines), NEW canonical, NEW at, NEW m,
           IsCanonicalOf(canonical, text, at, m)
    PROVE  /\ m \in Nat /\ canonical \in Seq(Lines) /\ DOMAIN canonical = 1..m
           /\ \A k \in 1..m : at[k] \in KeptLines(text) /\ at[k] \in Nat
           /\ \A k \in 1..m : canonical[k] = Trimmed(text)[at[k]]
           /\ \A k \in 1..m : k \in ContentLines(canonical) <=> at[k] \in ContentLines(text)
<1>1. /\ m \in Nat /\ at \in [1..m -> KeptLines(text)]
      /\ canonical = [k \in 1..m |-> Trimmed(text)[at[k]]]
  BY DEF IsCanonicalOf, Enumerates, Picked
<1>2. /\ \A k \in 1..m : at[k] \in KeptLines(text)
      /\ \A k \in 1..m : at[k] \in Nat /\ at[k] \in DOMAIN text
  BY <1>1, TrimmedText
<1>3. DOMAIN canonical = 1..m /\ \A k \in 1..m : canonical[k] = Trimmed(text)[at[k]]
  BY <1>1
<1>4. \A k \in 1..m : canonical[k] \in Lines
  <2>1. \A i \in DOMAIN text : Trimmed(text)[i] \in Lines
    BY TrimmedText
  <2> QED
    BY <1>2, <1>3, <2>1
<1>5. canonical \in Seq(Lines)
  <2>1. canonical \in [1..m -> Lines]
    BY <1>1, <1>3, <1>4
  <2> QED
    BY <1>1, <2>1
<1>6. \A k \in 1..m : k \in ContentLines(canonical) <=> at[k] \in ContentLines(text)
  <2> TAKE k \in 1..m
  <2>1. k \in ContentLines(canonical) <=> ~IsBlank(canonical[k])
    BY <1>3 DEF ContentLines
  <2>2. at[k] \in ContentLines(text) <=> ~IsBlank(Trimmed(text)[at[k]])
    BY <1>2, TrimmedText
  <2> QED
    BY <1>3, <2>1, <2>2
<1> QED
  BY <1>1, <1>2, <1>3, <1>5, <1>6

(* Every line of a canonical text is kept when it is normalized again. *)
LEMMA CanonicalIsKept ==
    ASSUME NEW text \in Seq(Lines), NEW canonical, NEW at, NEW m,
           IsCanonicalOf(canonical, text, at, m)
    PROVE  KeptLines(canonical) = DOMAIN canonical
<1>1. /\ m \in Nat /\ DOMAIN canonical = 1..m
      /\ \A k \in 1..m : at[k] \in KeptLines(text) /\ at[k] \in Nat
      /\ \A k \in 1..m : k \in ContentLines(canonical) <=> at[k] \in ContentLines(text)
  BY CanonicalFacts
<1>2. /\ \A k, l \in 1..m : k < l => at[k] < at[l]
      /\ \A i \in KeptLines(text) : \E k \in 1..m : at[k] = i
  BY DEF IsCanonicalOf, Enumerates
<1>3. ContentLines(text) \subseteq KeptLines(text) /\ KeptLines(text) \in SUBSET Nat
  BY TrimmedText
<1>4. ASSUME NEW k \in 1..m, at[k] \notin ContentLines(text)
      PROVE  k - 1 \in ContentLines(canonical) /\ \E j \in ContentLines(canonical) : j > k
  <2>1. at[k] - 1 \in ContentLines(text) /\ \E j \in ContentLines(text) : j > at[k]
    BY <1>1, <1>4 DEF KeptLines
  <2>2. PICK l \in 1..m : at[l] = at[k] - 1
    BY <1>2, <1>3, <2>1
  <2>3. PICK j \in ContentLines(text) : j > at[k]
    BY <2>1
  <2>4. PICK n \in 1..m : at[n] = j
    BY <1>2, <1>3, <2>3
  <2>5. k \in Nat /\ l \in Nat /\ n \in Nat /\ at[k] \in Nat /\ at[l] \in Nat /\ at[n] \in Nat
    BY <1>1
  <2>6. n > k
    <3>1. ~(n < k) /\ n # k
      BY <1>2, <2>3, <2>4, <2>5
    <3> QED
      BY <2>5, <3>1
  <2>7. l = k - 1
    <3>1. ~(k < l) /\ l # k
      BY <1>2, <2>2, <2>5
    <3>2. ASSUME l < k - 1
          PROVE  FALSE
      <4>1. k - 1 \in 1..m /\ l < k - 1 /\ k - 1 < k /\ at[k - 1] \in Nat
        BY <1>1, <2>5, <3>2
      <4>2. at[l] < at[k - 1] /\ at[k - 1] < at[k]
        BY <1>2, <4>1
      <4> QED
        BY <2>2, <2>5, <4>1, <4>2
    <3> QED
      BY <2>5, <3>1, <3>2
  <2>8. l \in ContentLines(canonical) /\ n \in ContentLines(canonical)
    BY <1>1, <2>1, <2>2, <2>3, <2>4
  <2> QED
    BY <2>6, <2>7, <2>8
<1>5. \A k \in 1..m : k \in KeptLines(canonical)
  BY <1>1, <1>4 DEF KeptLines
<1> QED
  BY <1>1, <1>5 DEF KeptLines

(* White space was trimmed already. *)
LEMMA CanonicalIsTrimmed ==
    ASSUME NEW text \in Seq(Lines), NEW canonical, NEW at, NEW m,
           IsCanonicalOf(canonical, text, at, m)
    PROVE  Trimmed(canonical) = canonical
<1>1. /\ m \in Nat /\ DOMAIN canonical = 1..m /\ canonical \in Seq(Lines)
      /\ \A k \in 1..m : at[k] \in KeptLines(text)
      /\ \A k \in 1..m : canonical[k] = Trimmed(text)[at[k]]
  BY CanonicalFacts
<1>2. \A i \in KeptLines(text) : IsBlank(Trimmed(text)[i]) => Trimmed(text)[i] = Blank
  BY TrimmedText
<1>3. \A k \in 1..m : (IF IsBlank(canonical[k]) THEN Blank ELSE canonical[k]) = canonical[k]
  BY <1>1, <1>2
<1>4. canonical = [k \in 1..m |-> canonical[k]]
  BY <1>1
<1> QED
  BY <1>1, <1>3, <1>4 DEF Trimmed

(* The one empty line of a text without content. *)
LEMMA EmptyLine ==
    /\ <<Blank>> \in Seq(Lines) /\ ContentLines(<<Blank>>) = {} /\ KeptLines(<<Blank>>) = {}
    /\ CanonicalizeText(<<Blank>>) = <<Blank>>
<1>1. Blank \in Lines /\ IsBlank(Blank)
  BY DEF Blank, Lines, LineKinds, IsBlank
<1>2. <<Blank>> \in Seq(Lines) /\ DOMAIN <<Blank>> = {1} /\ <<Blank>>[1] = Blank
  BY <1>1
<1>3. ContentLines(<<Blank>>) = {}
  BY <1>1, <1>2 DEF ContentLines
<1>4. KeptLines(<<Blank>>) = {}
  BY <1>3 DEF KeptLines
<1> QED
  BY <1>2, <1>3, <1>4 DEF CanonicalizeText

LEMMA NoLines ==
    ASSUME NEW X, NEW text \in Seq(X)
    PROVE  LinesAt(text, {}) = <<>>
<1>1. AreLinesAt(LinesAt(text, {}), text, {})
  BY LinesAtPlaces
<1>2. PICK at, m : Enumerates(at, m, {}) /\ LinesAt(text, {}) = Picked(text, at, m)
  BY <1>1 DEF AreLinesAt
<1>3. m \in Nat /\ at \in [1..m -> {}]
  BY <1>2 DEF Enumerates
<1>4. m = 0
  BY <1>3
<1> QED
  BY <1>2, <1>4 DEF Picked

LEMMA CanonicalKind ==
    ASSUME NEW text \in Seq(Lines)
    PROVE  CanonicalizeText(text) \in Seq(Lines)
<1>1. CASE KeptLines(text) = {}
  BY <1>1, EmptyLine DEF CanonicalizeText
<1>2. CASE KeptLines(text) # {}
  BY <1>2, CanonicalLines, CanonicalFacts
<1> QED
  BY <1>1, <1>2

(* Normalizing a text, whatever is in it, takes white space away and nothing   *)
(* else, and normalizing the result again changes nothing (canonicalize_text:  *)
(* "never alters legal text content").                                         *)
THEOREM EveryNormalizationIsFaithful ==
    ASSUME NEW text \in Seq(LineKinds \X Nat)
    PROVE  NormalizationIsFaithful(text)
<1> DEFINE canonical == CanonicalizeText(text)
<1>1. text \in Seq(Lines)
  BY DEF Lines
<1>2. CASE KeptLines(text) = {}
  <2>1. canonical = <<Blank>>
    BY <1>2 DEF CanonicalizeText
  <2>2. ContentLines(text) = {}
    BY <1>1, <1>2, TrimmedText
  <2>3. LinesAt(canonical, ContentLines(canonical)) = LinesAt(text, ContentLines(text))
    BY <1>1, <2>1, <2>2, EmptyLine, NoLines
  <2>4. CanonicalizeText(canonical) = canonical
    BY <2>1, EmptyLine
  <2> QED
    BY <2>3, <2>4 DEF NormalizationIsFaithful
<1>3. CASE KeptLines(text) # {}
  <2>1. PICK at, m : IsCanonicalOf(canonical, text, at, m)
    BY <1>1, <1>3, CanonicalLines
  <2> HIDE DEF canonical
  <2>2. /\ canonical \in Seq(Lines) /\ DOMAIN canonical = 1..m /\ m \in Nat
        /\ \A k \in 1..m : at[k] \in KeptLines(text)
        /\ \A k \in 1..m : k \in ContentLines(canonical) <=> at[k] \in ContentLines(text)
    BY <1>1, <2>1, CanonicalFacts
  <2>3. CanonicalizeText(canonical) = canonical
    <3>1. KeptLines(canonical) = DOMAIN canonical
      BY <1>1, <2>1, CanonicalIsKept
    <3>2. Trimmed(canonical) = canonical
      BY <1>1, <2>1, CanonicalIsTrimmed
    <3>3. KeptLines(canonical) # {}
      <4>1. PICK i \in KeptLines(text) : TRUE
        BY <1>3
      <4>2. PICK k \in 1..m : at[k] = i
        BY <2>1 DEF IsCanonicalOf, Enumerates
      <4> QED
        BY <2>2, <3>1
    <3>4. LinesAt(canonical, DOMAIN canonical) = canonical
      BY <2>2, AllLines
    <3> QED
      BY <3>1, <3>2, <3>3, <3>4 DEF CanonicalizeText
  <2>4. LinesAt(canonical, ContentLines(canonical)) = LinesAt(text, ContentLines(text))
    <3> DEFINE u == LinesAt(canonical, ContentLines(canonical))
               Q == ContentLines(canonical)
    <3>1. Q \in SUBSET (DOMAIN canonical) /\ ContentLines(text) \in SUBSET (DOMAIN text)
      BY DEF ContentLines
    <3>2. AreLinesAt(u, canonical, Q)
      BY <2>2, <3>1, LinesAtPlaces
    <3>3. /\ KeptLines(text) \in SUBSET Nat /\ ContentLines(text) \subseteq KeptLines(text)
          /\ ContentLines(text) \in SUBSET Nat
      BY <1>1, TrimmedText
    <3>4. Enumerates(at, m, KeptLines(text)) /\ canonical = Picked(Trimmed(text), at, m)
      BY <2>1 DEF IsCanonicalOf
    <3> HIDE DEF u, Q
    <3>5. AreLinesAt(u, Trimmed(text), {at[k] : k \in Q})
      <4>1. Q \in SUBSET (1..m)
        BY <2>2, <3>1
      <4> QED
        BY <3>2, <3>3, <3>4, <4>1, LinesOfLines
    <3>6. {at[k] : k \in Q} = ContentLines(text)
      <4>1. \A k \in Q : k \in 1..m
        BY <2>2, <3>1
      <4>2. \A k \in 1..m : k \in Q <=> at[k] \in ContentLines(text)
        BY <2>2 DEF Q
      <4>3. \A i \in ContentLines(text) : \E k \in 1..m : at[k] = i
        BY <3>3, <3>4 DEF Enumerates
      <4> QED
        BY <4>1, <4>2, <4>3
    <3>7. AreLinesAt(u, text, ContentLines(text))
      <4>1. PICK c, n : /\ Enumerates(c, n, ContentLines(text))
                        /\ u = Picked(Trimmed(text), c, n)
        BY <3>5, <3>6 DEF AreLinesAt
      <4>2. \A k \in 1..n : c[k] \in ContentLines(text)
        BY <4>1 DEF Enumerates
      <4>3. \A i \in ContentLines(text) : Trimmed(text)[i] = text[i]
        BY DEF Trimmed, ContentLines
      <4>4. [k \in 1..n |-> Trimmed(text)[c[k]]] = [k \in 1..n |-> text[c[k]]]
        BY <4>2, <4>3
      <4>5. u = Picked(text, c, n)
        BY <4>1, <4>4 DEF Picked
      <4> QED
        BY <4>1, <4>5 DEF AreLinesAt
    <3>8. AreLinesAt(LinesAt(text, ContentLines(text)), text, ContentLines(text))
      BY <1>1, <3>1, LinesAtPlaces
    <3>9. u = LinesAt(text, ContentLines(text))
      BY <3>3, <3>7, <3>8, SameLines
    <3> QED
      BY <3>9 DEF u
  <2> QED
    BY <2>3, <2>4 DEF NormalizationIsFaithful, canonical
<1> QED
  BY <1>2, <1>3

(* A thread that has drawn an id has read its bytes, and so has every row.     *)
ReadableIInv ==
    /\ TypeOK
    /\ \A w \in Workers : pc[w] \in {"put", "insert"} => Readable(post[w])
    /\ \A d \in documents : Readable(d)

LEMMA ReadableNext == ReadableIInv /\ [Next]_vars => ReadableIInv'
<1> SUFFICES ASSUME ReadableIInv, [Next]_vars
             PROVE  ReadableIInv'
  OBVIOUS
<1> DEFINE Goal == /\ \A w \in Workers : pc'[w] \in {"put", "insert"} => Readable(post'[w])
                   /\ \A d \in documents' : Readable(d)
<1>0. /\ TypeOK /\ TypeOK'
      /\ \A w \in Workers : pc[w] \in {"put", "insert"} => Readable(post[w])
      /\ \A d \in documents : Readable(d)
  BY TypeNext DEF ReadableIInv
<1>s. SUFFICES Goal
  BY <1>0 DEF ReadableIInv, Readable, SourceText
<1>1. ASSUME NEW w \in Workers, UNCHANGED documents,
             \A v \in Workers : v # w => Unmoved(v),
             pc'[w] \in {"put", "insert"} => Readable(post'[w])
      PROVE  Goal
  BY <1>0, <1>1 DEF Unmoved
<1>2. ASSUME NEW w \in Workers, Insert(w)
      PROVE  Goal
  <2> DEFINE row == [id |-> newId[w], instrument |-> post[w].instrument,
                     version |-> post[w].version, artifact |-> post[w].artifact,
                     source_format |-> post[w].source_format]
  <2>1. /\ pc[w] = "insert" /\ pc'[w] = "idle" /\ documents' = documents \cup {row}
        /\ \A v \in Workers : v # w => Unmoved(v)
    BY <1>0, <1>2, InsertEffect
  <2>2. Readable(row)
    BY <1>0, <2>1 DEF Readable, SourceText
  <2> HIDE DEF row
  <2> QED
    BY <1>0, <2>1, <2>2 DEF Unmoved
<1>3. ASSUME NEW w \in Workers, ConflictMiss(w) \/ PutRaw(w)
      PROVE  Goal
  BY <1>0, <1>1, <1>3, ConflictMissEffect, PutRawEffect
<1>4. ASSUME NEW w \in Workers,
             \/ \E p \in Posts : Receive(w, p)
             \/ ChecksumHit(w) \/ ChecksumMiss(w)
             \/ ConflictHit(w) \/ ExtractionRefused(w) \/ Undecodable(w)
             \/ StructureRefused(w) \/ Fail(w)
      PROVE  Goal
  BY <1>0, <1>1, <1>4, ReceiveEffect, ChecksumHitEffect, ChecksumMissEffect, ErrorEffect
<1>5. CASE UNCHANGED vars
  BY <1>0, <1>5 DEF vars
<1> QED
  BY <1>2, <1>3, <1>4, <1>5 DEF Next

(* The structure of every registered document, and of every text there may be, *)
(* quotes its source faithfully (canonicalizer.py, document_registry.py).      *)
THEOREM StructureIsFaithfulAlways == Spec => []StructureIsFaithful
<1>1. ASSUME NEW text \in Seq(LineKinds \X Nat)
      PROVE  IsFaithful(text)
  <2>1. CanonicalizeText(text) \in Seq(LineKinds \X Nat)
    BY CanonicalKind DEF Lines
  <2> QED
    BY <2>1, EveryNormalizationIsFaithful, EveryStructureIsFaithful DEF IsFaithful
<1>2. Init => ReadableIInv
  BY TypeInit DEF Init, ReadableIInv
<1>3. ReadableIInv => StructureIsFaithful
  <2> SUFFICES ASSUME ReadableIInv,
                      NEW text \in IF requests = 0 THEN Texts
                                   ELSE {SourceText(d) : d \in documents}
               PROVE  IsFaithful(text)
    BY DEF StructureIsFaithful
  <2>1. \A d \in documents : SourceText(d) \in Texts
    BY ContentsAssumption DEF ReadableIInv, TypeOK, Rows, Readable, SourceText
  <2>2. text \in Texts
    BY <2>1
  <2>3. text \in Seq(LineKinds \X Nat)
    BY <2>2, TextsAssumption
  <2> QED
    BY <1>1, <2>3
<1> QED
  BY <1>2, <1>3, ReadableNext, PTL DEF Spec
================================================================================
