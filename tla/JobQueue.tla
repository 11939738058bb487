------------------------------ MODULE JobQueue ------------------------------
(***************************************************************************)
(* The background job queue (server/src/jobs/jobQueue.ts, worker.ts):      *)
(* callers enqueue a CSV export under one dedupe key, workers claim and    *)
(* run it, failures are retried and finally dead-lettered, administrators  *)
(* requeue dead letters, and the retention cleanup scrubs old ones.  Each  *)
(* database operation is a step.  Jobs of other keys are independent.      *)
(***************************************************************************)
EXTENDS Integers, FiniteSets

CONSTANTS
    Jobs,           \* ids of the JobRecords that can be created
    JobWorkers,     \* worker loops
    Enqueuers,      \* requests that enqueue
    Admins,         \* administrators at the dead-letter page
    NoJob,
    MaxJobAttempts, \* maxAttempts
    MaxDeaths,      \* bound on crashes and failed writes of workers
    MaxRequeues     \* bound on requeues

ASSUME JobQueueAssumption ==
    /\ NoJob \notin Jobs
    /\ MaxJobAttempts \in Nat \ {0} /\ MaxDeaths \in Nat /\ MaxRequeues \in Nat

VARIABLES
    job,       \* the JobRecord collection
    jobWorker, \* what each worker is doing
    enqueuing, \* enqueuers that have found no job to return
    requeuing, \* the dead letter each administrator is requeueing
    deaths, requeues,
    raced,     \* two calls were enqueueing at once
    contendedJobs \* jobs that two administrators were requeueing at once

jobVars == <<job, jobWorker, enqueuing, requeuing, deaths, requeues, raced, contendedJobs>>

JobStatuses == {"absent", "pending", "processing", "completed", "dead_letter"}

JobRecord == [status : JobStatuses, attempts : Nat, due : BOOLEAN,
              recent : BOOLEAN, archived : BOOLEAN, requeued : BOOLEAN]

JobWorkerSteps == {"idle", "run", "failed", "mark"}

JobTypeOK ==
    /\ job \in [Jobs -> JobRecord]
    /\ jobWorker \in [JobWorkers -> [pc : JobWorkerSteps, job : Jobs \cup {NoJob}, attempts : Nat]]
    /\ enqueuing \in SUBSET Enqueuers
    /\ requeuing \in [Admins -> Jobs \cup {NoJob}]
    /\ deaths \in Nat /\ requeues \in Nat
    /\ raced \in BOOLEAN
    /\ contendedJobs \in SUBSET Jobs

Absent == [status |-> "absent", attempts |-> 0, due |-> FALSE,
           recent |-> FALSE, archived |-> FALSE, requeued |-> FALSE]

NewJob == [Absent EXCEPT !.status = "pending", !.due = TRUE, !.recent = TRUE]

Resting == [pc |-> "idle", job |-> NoJob, attempts |-> 0]

JobInit ==
    /\ job = [j \in Jobs |-> Absent]
    /\ jobWorker = [w \in JobWorkers |-> Resting]
    /\ enqueuing = {}
    /\ requeuing = [a \in Admins |-> NoJob]
    /\ deaths = 0 /\ requeues = 0
    /\ raced = FALSE
    /\ contendedJobs = {}

-----------------------------------------------------------------------------
(* enqueueJob *)

\* Mutant: the query finds jobs that wait, not those that run.
ReturnableWaiting == {j \in Jobs : job[j].status = "pending" /\ job[j].recent}

\* Jobs of the key, created within the window, that enqueueJob returns.
Returnable == {j \in Jobs : job[j].status \in {"pending", "processing"} /\ job[j].recent}

FindExisting(e) ==
    /\ e \notin enqueuing
    /\ Returnable = {}
    /\ enqueuing' = enqueuing \cup {e}
    /\ raced' = (raced \/ enqueuing # {})
    /\ UNCHANGED <<job, jobWorker, requeuing, deaths, requeues, contendedJobs>>

CreateJob(e) ==
    /\ e \in enqueuing
    /\ \E j \in Jobs :
          /\ job[j].status = "absent"
          /\ job' = [job EXCEPT ![j] = NewJob]
    /\ enqueuing' = enqueuing \ {e}
    /\ UNCHANGED <<jobWorker, requeuing, deaths, requeues, raced, contendedJobs>>

\* The dedupe window of a job has passed.
WindowPasses(j) ==
    /\ job[j].recent
    /\ job' = [job EXCEPT ![j].recent = FALSE]
    /\ UNCHANGED <<jobWorker, enqueuing, requeuing, deaths, requeues, raced, contendedJobs>>

-----------------------------------------------------------------------------
(* worker.ts: processOne *)

ClaimJob(w) ==
    /\ jobWorker[w] = Resting
    /\ \E j \in Jobs :
          /\ job[j].status = "pending" /\ job[j].due
          /\ job' = [job EXCEPT ![j].status = "processing"]
          /\ jobWorker' = [jobWorker EXCEPT ![w] = [pc |-> "run", job |-> j, attempts |-> 0]]
    /\ UNCHANGED <<enqueuing, requeuing, deaths, requeues, raced, contendedJobs>>

\* The handler resolves: markJobCompleted.  A scrubbed payload has no creator,
\* and its handler throws.
Complete(w) ==
    /\ jobWorker[w].pc = "run"
    /\ ~job[jobWorker[w].job].archived
    /\ job' = [job EXCEPT ![jobWorker[w].job].status = "completed"]
    /\ jobWorker' = [jobWorker EXCEPT ![w] = Resting]
    /\ UNCHANGED <<enqueuing, requeuing, deaths, requeues, raced, contendedJobs>>

\* The handler, or the write that marks the job completed, throws.
RunFails(w) ==
    /\ jobWorker[w].pc = "run"
    /\ jobWorker' = [jobWorker EXCEPT ![w].pc = "failed"]
    /\ UNCHANGED <<job, enqueuing, requeuing, deaths, requeues, raced, contendedJobs>>

\* markJobFailed reads the attempts, ...
ReadFailed(w) ==
    /\ jobWorker[w].pc = "failed"
    /\ jobWorker' = [jobWorker EXCEPT ![w].pc = "mark",
                                ![w].attempts = job[jobWorker[w].job].attempts + 1]
    /\ UNCHANGED <<job, enqueuing, requeuing, deaths, requeues, raced, contendedJobs>>

\* Mutant: one failure too many.
AfterFailureOneMore(attempts) ==
    IF attempts <= MaxJobAttempts THEN "pending" ELSE "dead_letter"

\* Mutant: an exhausted job is deleted.
AfterFailureDeleted(attempts) ==
    IF attempts < MaxJobAttempts THEN "pending" ELSE "absent"

AfterFailure(attempts) ==
    IF attempts < MaxJobAttempts THEN "pending" ELSE "dead_letter"

\* ... and increments them with the verdict; a retry waits for its backoff.
MarkFailed(w) ==
    LET j == jobWorker[w].job
    IN /\ jobWorker[w].pc = "mark"
       /\ job' = [job EXCEPT ![j].status = AfterFailure(jobWorker[w].attempts),
                             ![j].attempts = @ + 1, ![j].due = FALSE]
       /\ jobWorker' = [jobWorker EXCEPT ![w] = Resting]
       /\ UNCHANGED <<enqueuing, requeuing, deaths, requeues, raced, contendedJobs>>

BackoffEnds(j) ==
    /\ job[j].status = "pending" /\ ~job[j].due
    /\ job' = [job EXCEPT ![j].due = TRUE]
    /\ UNCHANGED <<jobWorker, enqueuing, requeuing, deaths, requeues, raced, contendedJobs>>

\* The process crashes and is started again, or markJobFailed itself throws.
WorkerDies(w) ==
    /\ jobWorker[w] # Resting
    /\ deaths < MaxDeaths
    /\ deaths' = deaths + 1
    /\ jobWorker' = [jobWorker EXCEPT ![w] = Resting]
    /\ UNCHANGED <<job, enqueuing, requeuing, requeues, raced, contendedJobs>>

-----------------------------------------------------------------------------
(* requeueDeadLetter and the retention cleanup *)

\* Mutant: any job can be requeued.
RequeueableAny(j) == job[j].status # "absent" /\ ~job[j].archived

Requeueable(j) == job[j].status = "dead_letter" /\ ~job[j].archived

ReadDeadLetter(a, j) ==
    /\ requeuing[a] = NoJob
    /\ Requeueable(j)
    /\ requeuing' = [requeuing EXCEPT ![a] = j]
    /\ contendedJobs' = contendedJobs \cup {i \in {j} : \E b \in Admins : requeuing[b] = i}
    /\ UNCHANGED <<job, jobWorker, enqueuing, deaths, requeues, raced>>

WriteRequeue(a) ==
    LET j == requeuing[a]
    IN /\ j # NoJob
       /\ requeues < MaxRequeues
       /\ requeues' = requeues + 1
       /\ job' = [job EXCEPT ![j].status = "pending", ![j].due = TRUE,
                             ![j].attempts = 0, ![j].requeued = TRUE]
       /\ requeuing' = [requeuing EXCEPT ![a] = NoJob]
       /\ UNCHANGED <<jobWorker, enqueuing, deaths, raced, contendedJobs>>

\* archiveEligible over finished export jobs: one conditional update per batch.
Archive(j) ==
    /\ job[j].status \in {"completed", "dead_letter"} /\ ~job[j].archived
    /\ job' = [job EXCEPT ![j].archived = TRUE]
    /\ UNCHANGED <<jobWorker, enqueuing, requeuing, deaths, requeues, raced, contendedJobs>>

WorkerStep(w) ==
    ClaimJob(w) \/ Complete(w) \/ RunFails(w) \/ ReadFailed(w) \/ MarkFailed(w)

JobNext ==
    \/ \E e \in Enqueuers : FindExisting(e) \/ CreateJob(e)
    \/ \E w \in JobWorkers : WorkerStep(w) \/ WorkerDies(w)
    \/ \E j \in Jobs :
          \/ WindowPasses(j) \/ BackoffEnds(j) \/ Archive(j)
          \/ \E a \in Admins : ReadDeadLetter(a, j)
    \/ \E a \in Admins : WriteRequeue(a)

JobSpec == JobInit /\ [][JobNext]_jobVars

\* startWorker polls for ever, and backoffs end.
JobFairness ==
    /\ \A w \in JobWorkers : WF_jobVars(WorkerStep(w))
    /\ \A j \in Jobs : WF_jobVars(BackoffEnds(j))

-----------------------------------------------------------------------------
(* Properties *)

Runs(w, j) == jobWorker[w].pc # "idle" /\ jobWorker[w].job = j

\* claimNextJob (jobQueue.ts:117) hands a job to one worker, retries and
\* requeues included; only two administrators who requeue the same dead letter
\* at once can have it run twice.
RunByOne ==
    \A j \in Jobs \ contendedJobs, v, w \in JobWorkers :
        Runs(v, j) /\ Runs(w, j) => v = w

\* markJobFailed (jobQueue.ts:138) reads the attempts it compares in another
\* operation than the one that counts them; a job is a dead letter exactly when
\* it has failed maxAttempts times since it was enqueued or requeued.
DeadLetteredWhenExhausted ==
    \A j \in Jobs \ contendedJobs :
        /\ job[j].attempts <= MaxJobAttempts
        /\ job[j].status = "dead_letter" <=> job[j].attempts = MaxJobAttempts

\* Deduplication (jobQueue.ts:62) has no unique index behind it: two live jobs
\* of a key, both created within the window, come from two calls that
\* overlapped, or from a requeue.
DuplicatesOnlyByRace ==
    \A i, j \in Returnable : i = j \/ raced \/ job[i].requeued \/ job[j].requeued

Abandoned(j) ==
    job[j].status = "processing" /\ \A w \in JobWorkers : ~Runs(w, j)

\* Failed jobs do not silently disappear (jobQueue.ts:6): an enqueued job is
\* completed or dead-lettered, unless the worker that ran it died or could not
\* write its failure: there is no lease that would let another one claim it.
JobsSettle ==
    \A j \in Jobs : job[j].status = "pending" ~>
        job[j].status \in {"completed", "dead_letter"} \/ Abandoned(j)
=============================================================================
