----------------------------- MODULE ParsePipeline -----------------------------
(***************************************************************************)
(* Parse jobs of clause_parser: POST /v1/parse-jobs and the pipeline it    *)
(* runs (detect, decompose, extract, resolve, validate).                   *)
(*                                                                         *)
(* A job is run to its end by the thread that received the request.  Each  *)
(* candidate span becomes a revision that is committed by itself, so what  *)
(* a failed or interrupted job has stored stays.  Jobs live in the memory  *)
(* of the process and so does the log of agent calls, which is also        *)
(* written to the database when the database will take it.                 *)
(*                                                                         *)
(*   pc           next step of the thread                                  *)
(*   "start"      mark the job running, detect and decompose               *)
(*   "extract"    extract the next span, or leave the loop                 *)
(*   "store"      resolve, validate and store the proposal                 *)
(*   "summarise"  put the summary in the job                               *)
(*   "complete"   mark the job completed                                   *)
(*                                                                         *)
(* What is extracted from a span is a function of the text, in the module  *)
(* ObligationExtraction.                                                   *)
(***************************************************************************)
EXTENDS ObligationExtraction, FiniteSets, FiniteSetsExt

CONSTANTS
    Workers,        \* threads of the service's pool
    MaxJobs,        \* bound: jobs ever created
    MaxRestarts     \* bound: restarts of the process

ASSUME BoundsAssumption == MaxJobs \in Nat /\ MaxRestarts \in Nat

VARIABLES
    jobs,           \* ParseJobStore, in memory: the jobs created and not lost
    revisions,      \* obligation_revisions, in the order of their commits
    memoryLog,      \* the agent call log in memory
    callLog,        \* agent_call_log: its copy in the database
    dropped,        \* history variable: calls the database did not take
    pc,             \* where each thread stands
    running,        \* the job a thread runs
    next,           \* the paragraph from which the thread goes on
    counts,         \* the summary the thread is counting
    created,        \* jobs created so far: the id of the latest
    restarts        \* restarts of the process so far

threadVars == <<pc, running, next, counts>>
logVars == <<memoryLog, callLog, dropped>>
vars == <<jobs, revisions, logVars, threadVars, created, restarts>>

--------------------------------------------------------------------------------

JobIds == 1..MaxJobs

Clauses == Documents \X (Nat \ {0})

Summaries == [{"total", "pass", "needs_review", "fail"} -> Nat]

NoCounts == [k \in {"total", "pass", "needs_review", "fail"} |-> 0]

CountedIn(summary, overall) == [summary EXCEPT !["total"] = @ + 1, ![overall] = @ + 1]

Jobs == [document : Documents,
         status : {"queued", "running", "completed", "failed"},
         summary : Summaries]

Calls == [clause : Clauses, run : JobIds]

Rows == [clause : Clauses, run : JobIds, semantics : Semantics, references : Seq(Articles),
         report : {"pass", "needs_review", "fail"}, status : {"pending", "escalated"}]

ASSUME NoneAssumption == None \notin Nat /\ None \notin Jobs

(* What a thread is about to extract, and then to store. *)
DocumentOf(w) == jobs[running[w]].document
Remaining(w) == {i \in DOMAIN Outcomes[DocumentOf(w)] : i >= next[w]}
NextSpan(w) == Min(Remaining(w))
OutcomeOf(w) == Outcomes[DocumentOf(w)][NextSpan(w)]
ClauseOf(w) == OutcomeOf(w).proposal.clause_id

--------------------------------------------------------------------------------

Init ==
    /\ jobs = [j \in JobIds |-> None]
    /\ revisions = <<>>
    /\ memoryLog = {}
    /\ callLog = {}
    /\ dropped = {}
    /\ pc = [w \in Workers |-> "idle"]
    /\ running = [w \in Workers |-> None]
    /\ next = [w \in Workers |-> 1]
    /\ counts = [w \in Workers |-> NoCounts]
    /\ created = 0
    /\ restarts = 0


(* Mutant: the thread is handed a new job without keeping its id. *)
CreateJobUnkept(w, d) ==
    /\ pc[w] = "idle"
    /\ created < MaxJobs
    /\ created' = created + 1
    /\ jobs' = [jobs EXCEPT ![created'] =
                    [document |-> d, status |-> "queued", summary |-> NoCounts]]
    /\ pc' = [pc EXCEPT ![w] = "start"]
    /\ UNCHANGED <<revisions, logVars, running, next, counts, restarts>>

(* A job is created for a registered document; its id is a fresh UUID, and so  *)
(* is its trace id, which stands for the same run.                             *)
CreateJob(w, d) ==
    /\ pc[w] = "idle"
    /\ created < MaxJobs
    /\ created' = created + 1
    /\ jobs' = [jobs EXCEPT ![created'] =
                    [document |-> d, status |-> "queued", summary |-> NoCounts]]
    /\ running' = [running EXCEPT ![w] = created']
    /\ pc' = [pc EXCEPT ![w] = "start"]
    /\ UNCHANGED <<revisions, logVars, next, counts, restarts>>

(* The pipeline starts: detection and decomposition are pure. *)
StartJob(w) ==
    /\ pc[w] = "start"
    /\ jobs' = [jobs EXCEPT ![running[w]].status = "running"]
    /\ next' = [next EXCEPT ![w] = 1]
    /\ counts' = [counts EXCEPT ![w] = NoCounts]
    /\ pc' = [pc EXCEPT ![w] = "extract"]
    /\ UNCHANGED <<revisions, logVars, running, created, restarts>>


(* Mutant: the call is not kept in memory when the database takes it. *)
ExtractKeepsOneCopy(w) ==
    LET call == [clause |-> ClauseOf(w), run |-> running[w]]
    IN  /\ pc[w] = "extract"
        /\ Remaining(w) # {}
        /\ \/ callLog' = callLog \cup {call} /\ UNCHANGED <<memoryLog, dropped>>
           \/ /\ memoryLog' = memoryLog \cup {call}
              /\ dropped' = dropped \cup {call}
              /\ UNCHANGED callLog
        /\ pc' = [pc EXCEPT ![w] = "store"]
        /\ UNCHANGED <<jobs, revisions, running, next, counts, created, restarts>>

(* The next span goes through the extraction agent, whose call is logged in   *)
(* memory, and in the database unless that write fails; the failure is        *)
(* swallowed.  The reference agent has no mentions to resolve and is not      *)
(* called.                                                                    *)
Extract(w) ==
    LET call == [clause |-> ClauseOf(w), run |-> running[w]]
    IN  /\ pc[w] = "extract"
        /\ Remaining(w) # {}
        /\ memoryLog' = memoryLog \cup {call}
        /\ \/ callLog' = callLog \cup {call} /\ UNCHANGED dropped
           \/ dropped' = dropped \cup {call} /\ UNCHANGED callLog
        /\ pc' = [pc EXCEPT ![w] = "store"]
        /\ UNCHANGED <<jobs, revisions, running, next, counts, created, restarts>>

ExtractNoMore(w) ==
    /\ pc[w] = "extract"
    /\ Remaining(w) = {}
    /\ pc' = [pc EXCEPT ![w] = "summarise"]
    /\ UNCHANGED <<jobs, revisions, logVars, running, next, counts, created, restarts>>


(* The proposal is resolved and validated; with its report it is committed as  *)
(* a revision, and counted.                                                    *)
Store(w) ==
    LET proposal == OutcomeOf(w).proposal
        overall == OutcomeOf(w).overall
    IN  /\ pc[w] = "store"
        /\ Storable(proposal)
        /\ revisions' = Append(revisions,
                [clause |-> proposal.clause_id, run |-> running[w],
                 semantics |-> proposal.legal_semantics, references |-> proposal.related_articles,
                 report |-> overall, status |-> RouteReviewStatus(overall)])
        /\ counts' = [counts EXCEPT ![w] = CountedIn(counts[w], overall)]
        /\ next' = [next EXCEPT ![w] = NextSpan(w) + 1]
        /\ pc' = [pc EXCEPT ![w] = "extract"]
        /\ UNCHANGED <<jobs, logVars, running, created, restarts>>

(* The thread answers its client. *)
Finish(w) ==
    /\ pc' = [pc EXCEPT ![w] = "idle"]
    /\ running' = [running EXCEPT ![w] = None]
    /\ next' = [next EXCEPT ![w] = 1]
    /\ counts' = [counts EXCEPT ![w] = NoCounts]


(* Mutant: the exception is passed on with the job as it stands. *)
StoreFailsUnmarked(w) ==
    /\ pc[w] = "store"
    /\ Finish(w)
    /\ UNCHANGED <<jobs, revisions, logVars, created, restarts>>

(* The proposal is refused, or the database does not take it: the job fails    *)
(* with whatever it has stored so far.                                         *)
StoreFails(w) ==
    /\ pc[w] = "store"
    /\ jobs' = [jobs EXCEPT ![running[w]].status = "failed"]
    /\ Finish(w)
    /\ UNCHANGED <<revisions, logVars, created, restarts>>


(* Mutant: the status is set before the summary. *)
SummariseCompletesFirst(w) ==
    /\ pc[w] = "summarise"
    /\ jobs' = [jobs EXCEPT ![running[w]].status = "completed"]
    /\ pc' = [pc EXCEPT ![w] = "complete"]
    /\ UNCHANGED <<revisions, logVars, running, next, counts, created, restarts>>

(* The summary is put in the job, and only then is the job completed. *)
Summarise(w) ==
    /\ pc[w] = "summarise"
    /\ jobs' = [jobs EXCEPT ![running[w]].summary = counts[w]]
    /\ pc' = [pc EXCEPT ![w] = "complete"]
    /\ UNCHANGED <<revisions, logVars, running, next, counts, created, restarts>>

Complete(w) ==
    /\ pc[w] = "complete"
    /\ jobs' = [jobs EXCEPT ![running[w]].status = "completed"]
    /\ Finish(w)
    /\ UNCHANGED <<revisions, logVars, created, restarts>>

(* The process restarts: threads, jobs and the log in memory are gone. *)
Restart ==
    /\ restarts < MaxRestarts
    /\ restarts' = restarts + 1
    /\ jobs' = [j \in JobIds |-> None]
    /\ memoryLog' = {}
    /\ pc' = [w \in Workers |-> "idle"]
    /\ running' = [w \in Workers |-> None]
    /\ next' = [w \in Workers |-> 1]
    /\ counts' = [w \in Workers |-> NoCounts]
    /\ UNCHANGED <<revisions, callLog, dropped, created>>

(* The next step of the thread's own code. *)
Work(w) ==
    \/ StartJob(w)
    \/ Extract(w)
    \/ ExtractNoMore(w)
    \/ Store(w)
    \/ StoreFails(w)
    \/ Summarise(w)
    \/ Complete(w)

Next ==
    \/ \E w \in Workers, d \in Documents : CreateJob(w, d)
    \/ \E w \in Workers : Work(w)
    \/ Restart

(* A thread that has a statement to run gets to run it: the handler takes no   *)
(* lock, and waits for nothing but a database that answers or raises.          *)
Spec == Init /\ [][Next]_vars /\ \A w \in Workers : WF_vars(Work(w))

--------------------------------------------------------------------------------

(* Every variable holds a value of its kind, and a thread at work has its job. *)
TypeOK ==
    /\ jobs \in [JobIds -> Jobs \cup {None}]
    /\ revisions \in Seq(Rows)
    /\ memoryLog \subseteq Calls
    /\ callLog \subseteq Calls
    /\ dropped \subseteq Calls
    /\ pc \in [Workers -> {"idle", "start", "extract", "store", "summarise", "complete"}]
    /\ running \in [Workers -> JobIds \cup {None}]
    /\ next \in [Workers -> Nat \ {0}]
    /\ counts \in [Workers -> Summaries]
    /\ created \in 0..MaxJobs
    /\ restarts \in 0..MaxRestarts
    /\ \A w \in Workers : pc[w] # "idle" =>
        running[w] \in JobIds /\ jobs[running[w]] \in Jobs

(* The paragraphs of which a run has stored a revision. *)
StoredBy(j) == {revisions[i].clause[2] : i \in {k \in DOMAIN revisions : revisions[k].run = j}}

(* A stored row is ready for its reviewer: it is pending and its report passes *)
(* (what fails is refused by the store, escalated or not), its modality is a   *)
(* modal verb of its paragraph and not the agent's default, and its deadline   *)
(* and references are found there too, no reference twice.                     *)
Reviewable(row) ==
    LET p == Paragraphs[row.clause[1]][row.clause[2]]
    IN  /\ row.status = "pending" /\ row.report = "pass"
        /\ row.semantics.modality \in p.modals
        /\ row.semantics.norm_type = "permission" <=> p.modals = {"may"}
        /\ row.semantics.deadline # None => p.action # <<>>
        /\ \A i, j \in DOMAIN row.references :
              /\ \E k \in DOMAIN p.mentions : p.mentions[k] = row.references[i]
              /\ row.references[i] = row.references[j] => i = j

(* What a run has stored is a prefix of its document's candidate spans, each   *)
(* once, in document order and ready for review, whatever other jobs run at    *)
(* the same time and also when the run failed half way or was lost with the    *)
(* process.  A job that is completed has stored them all, and its summary      *)
(* counts them as passed: no span is skipped (section 4.1).                    *)
RunStoresPrefix ==
    /\ \A i \in DOMAIN revisions : Reviewable(revisions[i])
    /\ \A i, k \in DOMAIN revisions : i < k /\ revisions[i].run = revisions[k].run =>
        revisions[i].clause[2] < revisions[k].clause[2]
    /\ \A i \in DOMAIN revisions : \A a \in Candidates(revisions[i].clause[1]) :
        a <= revisions[i].clause[2] => a \in StoredBy(revisions[i].run)
    /\ \A i \in DOMAIN revisions :
        /\ revisions[i].clause[2] \in Candidates(revisions[i].clause[1])
        /\ jobs[revisions[i].run] # None =>
            revisions[i].clause[1] = jobs[revisions[i].run].document
    /\ \A j \in JobIds : jobs[j] # None /\ jobs[j].status = "completed" =>
        LET spans == Candidates(jobs[j].document)
        IN  /\ StoredBy(j) = spans
            /\ jobs[j].summary.total = Cardinality(spans)
            /\ jobs[j].summary.total = jobs[j].summary.pass

(* Each stored revision has the agent call it came from: in the database, or   *)
(* known to have been dropped, and in memory for as long as the process that   *)
(* extracted it still knows its job (section 7, provenance).                   *)
RevisionHasItsCall ==
    \A i \in DOMAIN revisions :
        LET call == [clause |-> revisions[i].clause, run |-> revisions[i].run]
        IN  /\ call \in callLog \cup dropped
            /\ jobs[revisions[i].run] # None => call \in memoryLog

(* A job that was created is over at some point: completed, failed, or lost in *)
(* a restart.  It is never left queued or running for its client to poll.      *)
EveryJobEnds ==
    \A j \in JobIds :
        jobs[j] # None ~> (jobs[j] = None \/ jobs[j].status \in {"completed", "failed"})
================================================================================
