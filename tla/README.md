# A formal model of the RabbitQA clause parser and compliance graph

The repository turns regulations into obligations (`clause_parser`), lets
reviewers decide on them, and publishes what they approve as snapshots of a
graph (`compliance_graph`). Both are Python services. Their endpoints are plain
functions, so the web framework runs each request on a thread of a pool; the
repositories use database sessions whose reads hold no transaction open and
whose writes commit one by one. Nearly every hard question about the system
comes from that: an operation is several statements, and anything may happen
between two of them.

This directory holds TLA+ modules that model those operations statement by
statement, TLC configurations that check them on small instances, and proofs
that TLAPS checks. Source paths below are relative to `src/`.

## 1. Inventory

| Component | State | Operations | Hard parts | What makes it correct |
|---|---|---|---|---|
| Document registration: `clause_parser/src/api/documents.py`, `canonicalize/document_registry.py`, `raw_storage.py`, `db/document_repository.py` | `canonical_documents` rows, write-once raw files | `POST /v1/documents` | two lookups, a file and an insert, each on its own; the payload is checked after the commit | a pinned version has one document; an answer names what was posted; a row has its artifact |
| Canonicalizer and PDF extraction: `canonicalize/canonicalizer.py`, `pdf_extractor.py` | none (pure); whether the host has a word list | normalize, build the structure, score the confidence | headings, annexes and white space in any order; a score that differs between hosts and with a threshold read per request; bytes are read in the format they are posted with | a paragraph's anchor holds that paragraph and nothing else; what the gate refuses as a PDF is not registered as one |
| Parse jobs and pipeline: `api/parse_jobs.py`, `pipeline.py`, `detect/`, `decompose/`, `extract/`, `resolve/`, `validate/` | jobs in memory, `obligation_revisions`, call logs | `POST` and `GET /v1/parse-jobs` | one commit per span, failure half way, restart, two jobs on one document | a completed job is whole; a job is never left running; a revision has its agent call |
| Review decisions: `api/reviews.py`, `review/`, `db/obligation_repository.py` | the stored proposal with its status and history | accept, edit, reject, escalate | three reads and one write that replaces the whole record; a commit whose answer is lost | nothing unreplayable is stored; the status follows the history; no decision is lost |
| Change set lifecycle: `compliance_graph/src/db/changeset_repository.py`, `api/changesets.py`, `review/changeset_approval.py` | `graph_changesets` rows | create, validate, approve, `update_status` | read and write are two statements; a status computed from an old read | only valid, approved content is published; published is final |
| Publisher and graph store: `publisher/`, `db/neo4j_client.py` | snapshots, head pointer | publish | two graph transactions and a table update, with nothing spanning them | one chain of snapshots; each change set once; the link survives |
| Graph mapping and article history: `graph_mapping_agent/agent.py`, `query/article_history.py` | SUPERSEDES edges of the snapshots | propose a change set, walk the history | the latest version is looked up before the head is read, in snapshots that also hold older ones; the walk runs while snapshots appear | edges follow publish order; the walk is a path and returns |
| Constraint engine, ontology, entity resolution: `constraints/`, `entity_resolution/` | none (pure) | check a change set, match an actor | six rules that share the work, each silent about what another one reports | what passes is closed and typed, and what the agent maps passes |
| Export, provenance, proof-path query: `export/`, `query/proof_path.py`, `visualization/`, `api/query.py`, `api/visualization.py` | none (reads) | export, provenance, query, view | reads the latest revision twice, then the log, whose failed reads look like an empty log, and the change sets, which a late update may un-publish; leaves a clause out without an error; a view joins an old path with the latest revision | nothing unreviewed leaves; what is left out has a reason; the chain names the last publication, where publishers take turns |
| Snapshots endpoint: `api/snapshots.py` | none (reads) | the lineage of a snapshot | a loop over snapshots while publishers race | the walk ends and is complete |
| LLM gateway: `llm_gateway/` | call log in memory and in the database | log, allow list, tool policy | the database copy is best effort | every revision can be traced to its call |
| Request middleware: `shared_contracts/py/middleware.py` | rate windows in memory | rate limit, presence of an idempotency key | refused requests are counted too; the key is not remembered | no window lets more through than the limit; a client that keeps quiet is served |
| Reviewer tool: `reviewer_ui/` | the copy a command has rendered | show a revision, submit a decision, approve a change set | a decision made on a copy, through the service's handler but past its middleware | the diff announced is the one recorded; findings are not silently out of date |
| Shared contracts, evaluation | none of their own | - | - | - |

How they interact. A registration gives parse jobs their documents. A job
extracts a proposal from each candidate span, logs the agent call, validates
the proposal and stores it as a revision. Reviewers decide on revisions. The
graph mapping agent builds a change set from accepted revisions and from what
the graph last published; the change set is validated by the constraint engine,
approved in the reviewer's tool and published to the graph. Export and
provenance read from both ends. The services share only the database, the graph
and the raw directory; there are no callbacks and no message queue.

`PROJECT.json` lists every component with its sources and status, and 40
hazards with the line where each one bites and the properties that watch it.

## 2. Modules

| Module | Models | Extended by |
|---|---|---|
| `ReviewDecisions` | a reviewer's decision, over any number of threads | `MCReviewDecisions`, `ReviewDecisionsProofs` |
| `ChangesetPublication` | create, validate, approve and publish over the table and the graph; INSTANCEs `SnapshotLineage` | `MCChangesetPublication`, `ChangesetPublicationProofs` |
| `SnapshotLineage` | the abstract specification of what the graph store promises | - |
| `Canonicalization` | normalization and structure of a text, and what both must say of it | `DocumentRegistration` |
| `PdfExtraction` | the confidence of a PDF's text and the threshold | `DocumentRegistration` |
| `DocumentRegistration` | `POST /v1/documents`; EXTENDS the two above | `MCDocumentRegistration`, `DocumentRegistrationProofs` |
| `ObligationExtraction` | detect, decompose, extract, resolve and validate, as functions of the text | `ParsePipeline` |
| `ParsePipeline` | parse jobs, from the request to the committed revisions | `MCParsePipeline`, `ParsePipelineProofs` |
| `Supersession` | SUPERSEDES edges as they are proposed and published, and the history walk | `MCSupersession`, `SupersessionProofs` |
| `ChangesetContent` | the content of a change set: what the agent maps, what a tool adds, the rules, and the proof paths of what is published | `MCChangesetContent`, `ChangesetContentProofs` |
| `SnapshotExport` | the export of a snapshot with its provenance chain, and the view of a proof path, while the other components work: publishers overlap and late updates are written, parsing, decisions and proposals appear as whole operations | `MCSnapshotExport`, `SnapshotExportProofs` |
| `RequestMiddleware` | the rate limiter and the idempotency key | - |
| `ReviewerWorkspace` | reviewers at the command line and clients of the service on the same revisions; INSTANCEs `ReviewDecisions` and `RequestMiddleware` | `MCReviewerWorkspace`, `ReviewerWorkspaceProofs` |
| `ReviewDecisionsProofs` | theorems about `ReviewDecisions` | - (INSTANCEd by `ReviewerWorkspaceProofs`) |
| `ChangesetPublicationProofs`, `DocumentRegistrationProofs`, `ParsePipelineProofs`, `SupersessionProofs`, `ChangesetContentProofs`, `SnapshotExportProofs`, `ReviewerWorkspaceProofs` | theorems about the module in their name, and about those it extends | - |

How state and actions correspond to the code:

- **ReviewDecisions.** `store[r]` is the row of revision `r`; `Submit` is the
  handler up to the service's read, `ServiceRead` is `DecisionService` up to the
  call of the repository, `RepoRead` and `RepoWrite` are the two statements of
  `apply_decision`. `RepoWrite` ends in the commit and `Answer` is what the
  handler does after it, so that a request may die on either side (`Fail`): what
  it has committed stays, whether its client was told or not. The refusals (404,
  409 for an escalated record, 422 for an edit that fails) are disjuncts of the
  step that makes them. An editable group is one value; `Broken` is one that the
  evidence replay or the schema rejects. The evidence hash is recomputed with
  the text and has no value of its own.
- **ChangesetPublication.** `changeset[c]` is the row's payload. Each operation
  starts with a read (`ValidateRead`, `ApproveRead`, `PublishRead`) and ends in
  `UpdateRead` and `UpdateWrite`, the two statements of `update_status`.
  Publishing has four steps in between: the head check, and the write
  transaction's read, delete and commit. `GetSnapshot` is the walk of the
  snapshots endpoint; a snapshot never changes, so the walk is a function of
  what is committed when it begins.
- **DocumentRegistration.** One action per statement that reads or writes
  something shared: the two lookups (a hit and a miss each), the raw file, the
  insert. An artifact is bytes, and the posted format says how they are read: as
  UTF-8, or by the PDF library, and either may fail. The gate is asked about
  what was posted as a PDF alone, and judges it by the word list of the thread's
  host and a threshold that each request finds in its environment. `admitted`
  and `answers` keep the judgements for the property.
- **Canonicalization, PdfExtraction.** Operators with the names of the
  functions. A text is a sequence of lines of seven kinds and an offset is a
  number of lines; a PDF is known by the signals the score looks for. A break
  between lower-case letters counts as a broken word on a host without a word
  list, and only if it is one on the others. The score is a sum of floating-point
  penalties; `RoundsDown` are the sums that come out just below the hundredths
  they stand for, and so miss a threshold they should reach.
- **ObligationExtraction.** Operators with the names of the functions, from the
  text of a paragraph to the report. The agent looks for the modal verbs in
  another order than the detector; a deadline is looked for in the action, the
  first 200 characters, and the articles in the whole paragraph. The seven
  checks are computed on the proposal.
- **ParsePipeline.** One action per span's extraction and one per its storage,
  so that two jobs, a restart or a reader can come in between; failure at
  either is an action. The job's summary and its status are two assignments.
- **Supersession.** A tool looks the latest version up and maps (`LookUp`), then
  reads the head it proposes on (`Propose`); publishing compares the head
  (`HeadCheck`, `Refuse`), takes the time and opens the transaction (`Begin`),
  and commits (`Commit`). Other tools step in between any two of these, so that
  two may land on one base and the newest snapshot by its time need not be the
  one committed last. `LatestRegulations` and `SupersedesTargets` are the two
  regulation queries of the stores, nondeterministic where the query orders its
  rows by nothing that tells them apart.
- **ChangesetContent.** `MapObligation` is one round of the agent's loop, with
  the nodes it sets and those it only adds when their id is new, in the code's
  order; `AddNode` and `AddRelationship` are what the demonstrations append.
  Each rule of the engine is an operator of the same name, and the report is the
  set of rules that fail. `InMemoryProofPaths` and `Neo4jProofPaths` are the
  query as the two stores write it, `Renderable` is what the view draws of it.
- **ReviewerWorkspace.** `Open` is the command up to its panes, `SubmitEdit` and
  `SubmitAction` are the rest of it up to the handler, whose steps are those of
  `ReviewDecisions`. A client's `Post` is admitted by `RequestMiddleware` first;
  a command is not, because it calls the handler in its own process.
- **SnapshotExport.** An export is a loop over clauses with three reads per
  clause: `ReviewGate`, `ReadDecision` and `ProvenanceGate`. Between any two of
  them a document is parsed again, a reviewer decides, a publisher steps, or an
  update that is late writes an old status and payload over a row (`Overwrite`;
  `copies` are the payloads and statuses requests may still hold). A publisher
  compares the head (`HeadCheck`), commits (`CommitSnapshot`), records the
  snapshot in the row (`LinkSnapshot`), and may die in between; two may be at
  work on one base. `ReadLog` finds the calls, or none where the read fails. A
  clause may have paths that can be drawn and paths that cannot, and a `View`
  looks at the first row the query answers, whichever that is; it reads one
  thing that changes, the latest revision, and is one step.

The graph database is code outside the repository. It is modelled as its driver
is used: transactions are atomic, what they wrote is visible after commit, and
reads see what is committed (read committed, its only isolation level).

### History variables, and what "Serial" means

`applied`, `approvals`, `answers`, `admitted`, `orphaned`, `dropped` and `origin`
record what has happened, for the properties alone; so do `since`,
`callsAtStart`, `unread`, `lapsed` and `overwritten` in `SnapshotExport`, which
collect what a request could have seen and which rows an old copy was written
over, and `passed` and `silent` in `RequestMiddleware`. `overlapped` collects
the records on which two requests were at work at once, and `publishersMet`
becomes true when two publish operations were. A property named `Serial...`
speaks of the records, or of the behaviours, where that has not happened: nothing
in this code excludes overlapping requests, so those properties are what holds
when requests take turns. Two more have such a premise and state it:
`ImplementsLineage` maps steps until publishers meet, and
`OncePublishedIsAcyclic` speaks of histories in which no version was published
by two change sets. The others hold whatever races in the module that states
them. No action reads a history variable.

## 3. Runs

| Run | Instance | Distinct states | Shows |
|---|---|---|---|
| `reviews` | 1 revision, 2 threads, 2 values and a broken one, 3 decisions | 110 thousand | `StatusFollowsHistory`, `ContentAlwaysReplays`, `HistoryIsGenuine` under every race and crash; `SerialHistoryComplete`, `SerialContentExplained`, `SerialEscalationHolds` |
| `publication` | 3 change sets, one failing the rules, 2 threads, 7 operations | 353 thousand | `OnlyApprovedPublished`, `LinkIsOwnSnapshot`, `LineageIsAnswered` under every race and crash; `SerialLineage`, `SerialPublishedIsFinal`; and `ImplementsLineage`, the refinement of `SnapshotLineage` |
| `registration` | 2 instruments, one unlisted, 1 version, 4 artifacts in either format, 2 hosts, 2 thresholds, 3 requests; 19608 texts | 493 thousand | `RowsHaveTheirArtifact`, `AnswersNameWhatWasPosted`, `RefusalIsFinal`; `SerialVersionIsPinned`; `StructureIsFaithful` |
| `pipeline` | 3 documents, 2 threads, 2 jobs, 1 restart | 16 thousand | `RunStoresPrefix`, `RevisionHasItsCall`, and `EveryJobEnds` |
| `supersession` | 3 versions, 2 proposers, 1 reader, 3 snapshots | 1.1 million | `OncePublishedIsAcyclic`, `HistoryIsAPath`, and `EveryWalkEnds` |
| `content` | 4 obligations of 3 clauses, at most 3 in a change set, 10 additions of which one is named otherwise and 3 are mistakes, 2 versions | 522 thousand | `MappingFailsOnActorsOnly`, `PassingIsClosedAndTyped`, `DrawnPathsAgree` |
| `export` | 1 clause with a path that is drawn and one that is not, 2 revisions, 2 decisions, 2 change sets, 2 publishers, 2 snapshots, 1 overwrite, 1 export or view | 1.4 million | `AnswersWereApproved`, `LeftOutForAReason` under every race; `SerialChainNamesLatest` |
| `workspace` | 2 revisions, 1 client, 1 command, 2 decisions, a limit of 1 request in a window of 1 tick | 1.2 million | `StaleFindingsAreVisible`, `PreviewIsRecorded` under every race; `RateLimitHolds` |

`TypeOK` is checked in each. Every property of these runs is broken by a named
mutant of the code that stands in the module, next to the definition it mutates.

Why the bounds are enough.

- *Two threads, one record* (`reviews`): a lost update needs two requests and a
  third to observe it, which is what three decisions allow; revisions do not
  interact.
- *Seven operations* (`publication`): validate, approve and publish of two
  change sets and one more that repeats any of them. A snapshot on a stale
  base, two heads, a retry after a crash and a validation that comes late all
  fit in.
- *Three requests* (`registration`): two that overlap and one that repeats or
  observes; both instruments; a text whose annex precedes an article, one whose
  anchors collide, a scan whose bytes are no UTF-8, and a PDF of plain ASCII that
  one host refuses and the other takes, that both refuse under the higher of two
  thresholds, and that is a text without articles when posted as one. Either
  format may be posted for any of them.
  The texts are all of up to five lines over seven: two articles, a numbered
  paragraph, an annex, text, an empty line and one of white space. Five lines
  are enough for every order of two articles, a paragraph each and an annex.
- *Two jobs* (`pipeline`): on the same document, on different ones, or one that
  repeats another that failed; a document with spans around a paragraph that is
  none, one with no span, one whose proposals the store refuses. The paragraphs
  hold two modal verbs of different rank, a date after a period, and a mention
  that is repeated.
- *Three snapshots* (`supersession`): one change set maps v1, the other v2 and a
  version that has moved the article. Three publications are the fewest that
  make a cycle among the edges (v1, the other two, v1 again), and two proposers
  let one look up, propose or commit inside the publication of the other.
- *Three obligations* (`content`): two revisions of one clause, two clauses of
  one paragraph, two versions; an actor with an exact match, one with two
  equally good ones of which the first is an asset, one just below the
  threshold; a complete proof path, every way the additions leave it short, and
  a path through a node whose name the view refuses.
- *Two revisions, two decisions* (`export`): a clause that is approved, exported,
  and rejected, decided on again or parsed again in the middle. Two change sets
  and two publishers are the fewest whose orders of creation and of publication
  could differ; one late update can un-publish a row, restore it, or take the
  snapshot it names away, and the invariant of the proof puts no bound on them.
  Clauses share nothing but the rows, and exports nothing.
- *Two revisions, two decisions* (`workspace`): a command whose revision is no
  longer the latest, a client's decision between what the command has rendered
  and its own, and a request in either service beside them. The smallest window
  and limit for which a count can stay too long or go too early.

Symmetry is declared for threads, publishers, revisions and interchangeable
values in runs that check no liveness. Deadlock is not checked in any: operations and
requests are bounded, and the programs idle when no request comes.

### Expected violations

Four runs check, alone, what a comment or a docstring says and the code does not
do. Each is a finding in `PROJECT.json`.

| Run | Property | What TLC finds |
|---|---|---|
| `reviews_append_only` | `HistoryAppendOnly` | "can never drop a prior entry": of two overlapping decisions the later write drops the entry of the earlier one |
| `publication_link` | `EverySnapshotLinked` | the link "must be persisted": a publisher that dies between the two stores leaves a snapshot without it, and publishing again is refused |
| `registration_conflict` | `ConflictMeansOtherContent` | "already registered with DIFFERENT content": bytes shared by two instruments are answered 409 when they are posted again |
| `registration_annex` | `ArticlesHaveText` | the first annex heading "caps the LAST recognized article's span": it caps every article, and those after it end before they begin and have no paragraphs |

The first needs overlapping requests and the second a crash. The last two need
nothing but a sequence of legal calls, or a single one.

### Fairness

Only two modules state any, because only two have something that must happen.

- `ParsePipeline`: weak fairness of each thread's work. A parse job is executed
  by the thread of its request in one synchronous loop, so a thread that has a
  step takes it, unless the process ends (an action without fairness).
- `Supersession`: weak fairness of a walk's next step, for the same reason.

`RateLimitHolds` needs no fairness: it says of a step that refuses a client that
the client has been heard within the window. The other modules state
none: a request may stop for ever between any two of its statements, and the
safety properties hold all the same.

## 4. Proofs

Eight modules hold the theorems, each about the module in its name and the
operators that module extends: `DocumentRegistrationProofs` also proves what
`Canonicalization` makes of a text, and `ParsePipelineProofs` what
`ObligationExtraction` makes of a paragraph. A theorem holds for every value
of the constants that satisfies the named assumptions: any number of threads,
change sets, clauses, obligations and lines, and without the bounds of the runs
except as guards of the actions that count.

| Module | Theorem | Property | Inductive invariant |
|---|---|---|---|
| `ReviewDecisionsProofs` | `TypeCorrect` | `TypeOK` | itself |
| | `StatusFollowsHistoryAlways` | `StatusFollowsHistory` | `StatusIInv`: the property, and the same for each record about to be written |
| | `ContentReplaysAlways` | `ContentAlwaysReplays` | `ContentIInv`: every edit in flight or staged has passed its check |
| | `SerialHistoryIsComplete`, `SerialContentIsExplained`, `SerialEscalationIsKept` | the three `Serial...` properties | `SerialIInv`: on a record without overlaps a thread works alone (`Alone`), its stamp is later than every committed one (`Stamped`), its copies are current (`CopiesCurrent`), what was committed is in the record (`AppliedToRecords`), and the records are well formed (`RecordsOK`) |
| | `HistoryIsGenuineAlways` | `HistoryIsGenuine` | `GenuineIInv`: an entry in flight has a timestamp of its own, and a staged record is a history of committed decisions with that entry added |
| `ChangesetPublicationProofs` | `TypeCorrect` | `TypeOK` | itself |
| | `OnlyApprovedPublishedAlways` | `OnlyApprovedPublished` | `ApprovedIInv`: what a publisher works on passes and was approved, a status on its way to the table has been earned, and a merged payload has the status of its patch |
| | `LinkIsOwnSnapshotAlways` | `LinkIsOwnSnapshot` | `LinkIInv`: and so is every link in a patch or in a merged payload |
| | `SerialPublishedStays` | `SerialPublishedIsFinal` (an action property) | `FinalIInv`: overlaps are noticed, and a thread that has the change set to itself holds what is in the table |
| | `SerialLineageAlways` | `SerialLineage` | `LineageIInv`: `OrderedIInv` (ids are fresh and a snapshot supersedes an older one, whatever races) and, until publishers meet, `OnePublisher` (what it has read of the graph is still so) and `OneChain` |
| | `ImplementsLineageAlways` | `ImplementsLineage` (a refinement) | `LineageIInv`; the mapping takes the pointer for the head and forgets who made a snapshot |
| | `LineageIsAnsweredAlways` | `LineageIsAnswered` | `LineageIInv`: ids fall along the walk, so it ends, and a least step at which it could miss a snapshot does not exist |
| `DocumentRegistrationProofs` | `TypeCorrect` | `TypeOK` | itself |
| | `RowsHaveTheirArtifactAlways` | `RowsHaveTheirArtifact` | `StoresIInv`: ids are drawn once, and a thread about to commit its row has stored the bytes |
| | `AnswersNameWhatWasPostedAlways` | `AnswersNameWhatWasPosted` | with `TypeOK` it is inductive: rows are never taken away |
| | `SerialVersionIsPinnedAlways` | `SerialVersionIsPinned` | `PinnedIInv`: overlaps are noticed, and what the second lookup found is still so for a thread that is alone |
| | `RefusalIsFinalAlways` | `RefusalIsFinal` | `GateIInv`: the text of every PDF stored as one passed a judgement, and every refusal follows from one; the lemma `JudgementsDiffer` says when two do: another threshold, or other breaks taken for broken words |
| | `StructureIsFaithfulAlways` | `StructureIsFaithful` | `TypeOK`, as it is about the texts that are stored |
| | `EveryStructureIsFaithful`, `EveryNormalizationIsFaithful` | the two halves of `StructureIsFaithful`, of texts of any length | - |
| `ParsePipelineProofs` | `TypeCorrect` | `TypeOK` | part of `PipelineIInv`: the row that a thread stores has a type because its text has one (`ProposalIsOfItsText`) |
| | `RunStoresPrefixAlways`, `RevisionHasItsCallAlways` | `RunStoresPrefix`, `RevisionHasItsCall` | `PipelineIInv`: a job is run by one thread and not completed before that thread lets go of it, ids are fresh (`JobsOK`), a run has stored exactly the candidates its thread has left behind and has counted them as passed (`Progress`), and the call of the span about to be stored is logged (`CallIsLogged`) |
| | `JobsAreShort` | that each step of a thread at work leaves it less to do (`StepsLeft`), and no other step more | `PipelineIInv` |
| `SupersessionProofs` | `TypeCorrect` | `TypeOK` | itself |
| | `OncePublishedIsAcyclicAlways` | `OncePublishedIsAcyclic` | `EdgesIInv`: every edge of a snapshot leads back to a version an earlier one has published, and every edge of a draft to one that is published already, whatever head it was proposed on |
| | `HistoryIsAPathAlways` | `HistoryIsAPath` | `PathIInv`: what a walk has visited is its path, and it stands at the end of it |
| | `WalksAreShort` | that each step of a walk leaves it less to do (`StepsLeft`), and no other step more, for any finite set of versions | `TypeOK` |
| `ChangesetContentProofs` | `TypeCorrect` | `TypeOK` | itself |
| | `PassingIsClosedAndTypedAlways` | `PassingIsClosedAndTyped` | `ReportIInv`: the report is that of the content as it is |
| | `MappingFailsOnActorsOnlyAlways` | `MappingFailsOnActorsOnly` | `MappingIInv`: a node has the type its prefix says, an obligation has its node, its one derivation and its actors, and every relationship is one the agent makes between nodes that exist |
| | `DrawnPathsAgreeAlways` | `DrawnPathsAgree` | `NamingIInv`: as long as tools name what they add as the view expects, every node that can be on a path is so named |
| `SnapshotExportProofs` | `TypeCorrect` | `TypeOK` | part of `ExportIInv` |
| | `AnswersWereApprovedAlways`, `LeftOutForAReasonAlways` | `AnswersWereApproved`, `LeftOutForAReason` | `ExportIInv`: a clause that waits for a gate is one the snapshot was made of, the status of its latest revision is among those seen, and it is found published or that it was not has been noticed (`Waits`); the status the first gate has read has been seen too (`FirstGate`) |
| | `SerialChainNamesLatestAlways` | `SerialChainNamesLatest` | `RecordIInv`: what a change set names, or an update may make it name, was made of it (`RowOK`); until publishers meet, on its base, by one of them at a time (`Turn`), and no change set has a later base than a live one created after it (`InOrder`) |
| `ReviewerWorkspaceProofs` | `TypeCorrect` | `TypeOK` | part of `WorkspaceIInv` |
| | `StaleFindingsAreVisibleAlways`, `PreviewIsRecordedAlways` | `StaleFindingsAreVisible`, `PreviewIsRecorded` | `WorkspaceIInv`: what is stored or staged shows its edits, and what a command has rendered is what is stored unless another decision was committed in between |
| | `RateLimitHoldsAlways` | `RateLimitHolds` | `LimitIInv`: at every age no more was let through than was counted, and nothing counted is younger than the client's last request |
| | `ImplementsReviewDecisions` | that `ReviewerWorkspace` implements `ReviewDecisions`, with clients and reviewers for its threads | `WorkspaceIInv` |
| | `ReviewsArePromised` | that the six properties proved of `ReviewDecisions` hold of the workspace too | the invariants of `ReviewDecisionsProofs`, carried along the refinement |

None of the properties but `AnswersNameWhatWasPosted` is inductive by itself:
what a write will do depends on copies that were read before, so each invariant
also says what the copies in flight may be. The invariant says of a `Serial...`
property what the copies are when nobody else is at work, and notices when
somebody is. Every invariant was checked by TLC, as an invariant of the run of
its module and on the same instance, before or beside its proof; for
`GenuineIInv` TLC needs the history that an entry was added to computed, not
quantified over.

The proof of a step has one case per action and one step per conjunct the action
can disturb. Where an action has many effects on few things, lemmas named
`...Effect` state them once (`UpdateWriteEffect`) and the cases cite those
instead of the definition. `ReviewerWorkspaceProofs` proves nothing about the
handler again: it instantiates `ReviewDecisionsProofs` and uses its lemmas about
the handler's steps. `Total` in `RequestMiddleware` is the size of the set of
requests counted, so that the sum of a window needs no induction: one request
adds at most one element, and a tick maps the set into the one before it.

The assumptions are those the modules name, and no others:

| Assumption | Says | Because |
|---|---|---|
| `BrokenAssumption`, `ValuesAssumption` | the broken value is a value | it stands for what a client may send |
| `NoneAssumption` (five modules), `VersionsAssumption` | None is not one of the things it is the absence of | Python's None is equal to nothing else |
| `PassingAssumption`, `EditsAssumption`, `ThreadsAssumption`, `BoundsAssumption` | constants are of their kind | - |
| `LimitsAssumption` | the limit is at least one request | it is 120 (`shared_contracts/py/middleware.py`), and both services use the default |
| `TextsAssumption`, `ContentsAssumption`, `DocumentsAssumption` | a text is a sequence of lines; an artifact has the text its bytes decode to, or none, the text a PDF library extracts from them, or none, and that text's signals; a threshold is a number; a document is a sequence of paragraphs | they are the inputs of the service |
| `MappingsAssumption` | the paths of a mapping are paths of its clauses | the agent makes a path of an obligation it maps |
| `AdditionsAssumption` | a node that a tool adds has a type of the ontology | `ProposedNode.type` is a `NodeType` (`shared_contracts/py/models.py`) |

What recursion computes is reached without induction over data: a recursive
function is defined by its equation, and a statement about all its values is
proved by the least number for which it fails (`WFMin`). The cursor of the
lineage walk, the list of mentions without repetitions, the lines that a
normalization keeps, `Min` and `Max` are treated so. That a canonical text has
the content of the one it was made of comes down to one fact: two enumerations
of the same places in increasing order are the same (`OneEnumeration`).

Only model-checked:

- `EveryJobEnds`, `EveryWalkEnds`: liveness under fairness. What they need of the
  program is proved, that a job or a walk has only so many steps left and uses
  them up (`JobsAreShort`, `WalksAreShort`); that a thread takes its next step
  is fairness, and that it has one is ENABLED, which the provers cannot reach.
- The four properties that are expected to be violated.

## 5. What is abstracted or left out

- The content of a proposal under review is one value per editable group, a line
  of a text is its kind, an artifact stands for its bytes, and the text of a PDF
  is the signals found in it. Offsets count lines, so what happens within a line
  (Unicode normalization, a paragraph's prefix) is left out.
- The insert of `DocumentRegistration` and its answer are one step: only the
  schema check and the response follow the commit, and neither changes anything
  shared. An answer that is lost after it is a request that is sent again. Bytes
  posted as text never meet the gate, and a checksum is that of the bytes,
  whatever format they were posted with.
- Conditions, exceptions and the anchor's label, which the agent copies from the
  text, are left out; a hash is as good as its text.
- The extraction agent is the rule-based one of the repository. It copies its
  evidence from the document, so only `schema_validity` can fail in
  `ParsePipeline`; with a model behind the gateway other checks could.
- The reference agent exists but the pipeline never calls it.
- `Supersession` has one instrument (no edge relates two) and assumes that a
  version with a node in the graph has a registered document, because its
  obligations were extracted from one. The time a
  snapshot bears is taken in the step that matches the head pointers to delete;
  pointers committed after it may be matched or not (`kept`). The change set it builds is always valid and
  approved, a publication between its statements takes no lock, and a change set
  that is refused is mapped afresh: one that is sent again later is a draft that
  waits, and one that is dropped a draft that never goes on.
- `ChangesetContent` leaves out the properties of nodes other than their type,
  and provenance tags. The likeness of two names is a constant. Its tools add
  what the demonstrations add, a node that is named otherwise, and three kinds of
  mistakes.
- `SnapshotExport` keeps the links of the provenance chain that every stored
  revision carries, and orders revisions as they were stored and rows as SQLite,
  the default database, scans them. A publisher reads the status of its row
  when it reads the head, and a row is overwritten with any payload it has held
  and any status: more than `update_status` can do, and no more than the
  properties bear. Only rows that have been published matter to an export, so
  validation and approval appear as what they may write late.
- The idempotency key is only tested for presence by the middleware, so a
  request that is repeated is a new request in every module.
- `RequestMiddleware` counts in ticks instead of seconds, and up to the limit
  only: what is above it changes no decision. Requests are checked one at a
  time, as the event loop of the service does.
- In `ReviewerWorkspace` the parser finds one of two contents and clients send
  one edit; the panes are the copy they are rendered from. One command
  and one client at a time have a request; a session that would approve a change
  set from the command line is wired to no command.
- A proof-path query answers with the latest revision of each clause, whichever
  was mapped; its rows are what a view picks from and have no reader of their
  own in the model.
- The ontology version is a constant of the program.

### Not modelled

The drawing of a proof path, the panes of the reviewer tool, the manifest of an
export and the log lines are formatting. The evaluation scripts compute metrics
over fixtures and call the operations modelled here; the scripts under
`.specify/` belong to the development process. The allow list, tool policy and
context package of the gateway are checks of fixed configuration. The reference
agent is called by tests alone.

## 6. Plan

Order: what can corrupt shared state first, then the pure algorithms that decide
what is written, then the readers.

Done: the modules above, their runs, and the proofs of section 4. Every safety
property that a run checks is a theorem; what is left to TLC is liveness.

Seen while modelling and not stated as a property, or no longer:

- the store used in tests returns incomplete proof paths where the production
  store returns none, so a clause with one incomplete path is refused by the
  view in one of them and drawn in the other;
- the agent uses the entity a name was matched with before a reviewer has seen
  the match;
- an export of an old snapshot, or a view of it, gives the status of the latest
  revision, which need not be the one that was published; and what a reviewer
  has edited is exported but never drawn;
- two publishers can both pass the head check, and the second lands on a head it
  was not based on. If the two change sets carry one clause, the one published
  first may be the one created last, and `find_published_by_clause_id`, whose
  docstring promises "the most recently published match"
  (`compliance_graph/src/db/changeset_repository.py:72-74`), answers it;
- a validation or an approval that is late un-publishes a row, or leaves it
  published without its snapshot, and the clauses of its snapshot leave every
  export until it is written again;
- a read of the call log that fails is answered with an empty log, and the export
  drops the clause and answers 200;
- a PDF that the gate has refused is registered when its bytes are posted as
  text, which is the default, if they are UTF-8;
- a report that fails routes its proposal to `escalated`, but the store refuses
  such a proposal, so that no run of the pipeline stores an escalated one;
- a record that was escalated can be rejected and then accepted;
- the version a new one is said to supersede is that of the last snapshot with a
  node for the instrument, not always the most recent one;
- a snapshot is served before a change set names it, although `api/query.py`
  says no unpublished change set can have one;
- nothing validates a revision again when it is accepted, and its report is the
  one it was stored with;
- text before the first article of a document gets no anchor and is never
  parsed, and a deadline after the first 200 characters of a paragraph is lost.

Parameters are CONSTANTS with named assumptions and no module that is to be
proved about declares a recursive operator.

## 7. Running it

    tlasany M.tla
    tlc -workers 2 -config ReviewDecisions.cfg MCReviewDecisions
    tlapm ReviewDecisionsProofs.tla        (and the other modules named ...Proofs)

A `.cfg` is named after the module it configures; the four longer names are the
expected violations.
