--------------------------- MODULE PublishControl ---------------------------
(***************************************************************************)
(* The control plane of a publish job: the HTTP commands that create,      *)
(* prepare and dispatch it, and the worker executions that persist its     *)
(* result.  Every command is a pair of short PostgreSQL transactions (READ *)
(* COMMITTED) or one transaction that reads rows without a lock and later  *)
(* overwrites all their columns (repository/publish_jobs.py `update`), so  *)
(* reading and writing are separate steps here and other commands and      *)
(* workers may commit in between.                                          *)
(*                                                                         *)
(* The relay and the broker are abstracted to the channel they implement:  *)
(* a committed outbox event may be delivered any number of times (at least *)
(* once delivery, module OutboxRelay).  The workflow against TrueNAS is    *)
(* abstracted to the verdicts it can return (module TrueNASPublish).       *)
(***************************************************************************)
EXTENDS Naturals

CONSTANTS
    Jobs,       \* publish jobs, named by their unique idempotency key
    Stations,   \* stations a job may select
    Commands,   \* HTTP commands; each is executed once, at any time
    Workers,    \* Dramatiq worker threads (DRAMATIQ_WORKER_THREADS)
    MaxEvents   \* bound: outbox events per job

ASSUME JobsAssumption == Jobs # {}
ASSUME MaxEventsAssumption == MaxEvents \in Nat \ {0}

VARIABLES
    job,        \* publish_jobs rows
    targets,    \* publish_targets: the stations selected by each job
    preflight,  \* publish_targets.preflight_status
    outcome,    \* publish_targets.verify_status (the verdict of a worker)
    outbox,     \* number of publish.dispatch events committed for each job
    request,    \* where the execution of each HTTP command stands
    worker      \* the execution each worker thread is running

rows == <<job, targets, preflight, outcome, outbox>>
vars == <<job, targets, preflight, outcome, outbox, request, worker>>

Lifecycle == INSTANCE PublishLifecycle
                 WITH Jobs <- Jobs, status <- [j \in Jobs |-> job[j].status]

-----------------------------------------------------------------------------
(* Data.                                                                   *)

Absent     == "absent"
JobStatus  == {"draft", "preflight", "awaiting_confirmation", "publishing",
               "switching", "verifying", "completed", "partial_failure", "failed"}
Terminal   == {"completed", "partial_failure", "failed"}

\* client_confirmation: None, True or False.
Answer     == {"none", "yes", "no"}

\* preflight_status: "pass" stands for pass and warning (dispatch lets both
\* through), "block" for block and unknown.
Preflight  == {"none", "pass", "block"}

\* The verdict on a target: "failed" stands for error and recovery_required.
Outcome    == {"none", "simulated", "verified", "failed"}

JobRow     == [status : JobStatus \cup {Absent}, confirmation : Answer, dry_run : BOOLEAN]
NoJob      == [status |-> Absent, confirmation |-> "none", dry_run |-> FALSE]

NoReports  == [s \in Stations |-> "none"]

\* What a command holds in memory: where it stands, the row it read, the
\* reports or target columns it read or computed and the operator's answer.
RequestState ==
    [pc           : {"idle", "evaluated", "job_reloaded", "reloaded", "job_read", "validated",
                     "done"},
     job          : Jobs,
     row          : JobRow,
     answer       : Answer,
     ready        : BOOLEAN,
     preflight    : [Stations -> Preflight],
     outcome      : [Stations -> Outcome]]

Idle ==
    [pc |-> "idle", job |-> CHOOSE j \in Jobs : TRUE, row |-> NoJob, answer |-> "none",
     ready |-> FALSE, preflight |-> NoReports, outcome |-> NoReports]

Done == [Idle EXCEPT !.pc = "done"]

\* What a worker thread holds: the job row the handler loaded, the workflow's
\* verdicts, and the preflight columns it read when persisting.
WorkerState ==
    [pc        : {"idle", "running", "persisting"},
     job       : Jobs,
     row       : JobRow,
     preflight : [Stations -> Preflight],
     outcome   : [Stations -> Outcome]]

Free ==
    [pc |-> "idle", job |-> CHOOSE j \in Jobs : TRUE, row |-> NoJob,
     preflight |-> NoReports, outcome |-> NoReports]

Init ==
    /\ job = [j \in Jobs |-> NoJob]
    /\ targets = [j \in Jobs |-> {}]
    /\ preflight = [j \in Jobs |-> NoReports]
    /\ outcome = [j \in Jobs |-> NoReports]
    /\ outbox = [j \in Jobs |-> 0]
    /\ request = [c \in Commands |-> Idle]
    /\ worker = [w \in Workers |-> Free]

-----------------------------------------------------------------------------
(* CreatePublishJobUseCase.  Job and targets are inserted in one           *)
(* transaction; the unique index on idempotency_key makes the lookup and   *)
(* the insert one step: a retry of the same key finds the row (or loses    *)
(* the race to insert it) and changes nothing.                             *)

Create(j, selection, dryRun) ==
    /\ job[j] = NoJob
    /\ selection # {}
    /\ job' = [job EXCEPT ![j] = [status |-> "draft", confirmation |-> "none",
                                  dry_run |-> dryRun]]
    /\ targets' = [targets EXCEPT ![j] = selection]
    /\ UNCHANGED <<preflight, outcome, outbox, request, worker>>

-----------------------------------------------------------------------------
(* PreparePublishJobUseCase.                                               *)

AcceptsPreflight(row) == row.status \in {"draft", "preflight", "awaiting_confirmation"}

\* evaluate_wizard_gate, as PreparePublishJobUseCase uses it: every reason but
\* the missing confirmation keeps the job in preflight.
PreflightReady(j, reports, adminReady) ==
    adminReady /\ targets[j] # {} /\ \A s \in targets[j] : reports[s] = "pass"

\* _update_job: advance the row that was read, keep its confirmation unless
\* the operator answered.
UpdateJob(row, ready, answer) ==
    [row EXCEPT
        !.status = IF row.status \in {"draft", "preflight"}
                   THEN IF ready THEN "awaiting_confirmation" ELSE "preflight"
                   ELSE row.status,
        !.confirmation = IF answer = "none" THEN row.confirmation ELSE answer]

\* First transaction, then the preflight queries: the reports are facts about
\* the stations at this moment.  Reports cover the selected stations.
PrepareEvaluate(c, j, answer, reports, adminReady) ==
    /\ request[c].pc = "idle"
    /\ job[j] # NoJob
    /\ AcceptsPreflight(job[j])
    /\ request' = [request EXCEPT ![c] =
            [Idle EXCEPT !.pc = "evaluated", !.job = j, !.answer = answer,
                         !.preflight = reports,
                         !.ready = PreflightReady(j, reports, adminReady)]]
    /\ UNCHANGED <<rows, worker>>

\* Second transaction: re-read the job without a lock ...
PrepareReadJob(c) ==
    /\ request[c].pc = "evaluated"
    /\ request' = [request EXCEPT ![c].pc = "job_reloaded",
                                  ![c].row = job[request[c].job]]
    /\ UNCHANGED <<rows, worker>>

\* ... then the targets, and check the status of the row that was read.  The
\* selection of a job never changes, so the comparison at line 77 succeeds.
PrepareReload(c) ==
    /\ request[c].pc = "job_reloaded"
    /\ request' = [request EXCEPT ![c] =
            IF AcceptsPreflight(request[c].row)
            THEN [request[c] EXCEPT !.pc = "reloaded", !.outcome = outcome[request[c].job]]
            ELSE Done]
    /\ UNCHANGED <<rows, worker>>

\* ... and overwrite the target rows and the job row with what was read plus
\* the changes.  The outcome columns read by PrepareReload are written back.
PrepareCommit(c) ==
    LET j == request[c].job IN
    /\ request[c].pc = "reloaded"
    /\ preflight' = [preflight EXCEPT ![j] = request[c].preflight]
    /\ outcome' = [outcome EXCEPT ![j] = request[c].outcome]
    /\ job' = [job EXCEPT ![j] =
            UpdateJob(request[c].row, request[c].ready, request[c].answer)]
    /\ request' = [request EXCEPT ![c] = Done]
    /\ UNCHANGED <<targets, outbox, worker>>

-----------------------------------------------------------------------------
(* DispatchPublishJobUseCase: one transaction, three statements that other *)
(* commits may fall between: read the job, read the targets and validate,  *)
(* then write the job row and the outbox event together.                   *)

DispatchRead(c, j) ==
    /\ request[c].pc = "idle"
    /\ job[j] # NoJob
    /\ request' = [request EXCEPT ![c] =
            [Idle EXCEPT !.pc = "job_read", !.job = j, !.row = job[j]]]
    /\ UNCHANGED <<rows, worker>>

\* _validate.
Dispatchable(row, selection, reports) ==
    /\ row.status = "awaiting_confirmation"
    /\ row.confirmation = "yes"
    /\ selection # {}
    /\ \A s \in selection : reports[s] = "pass"

DispatchValidate(c) ==
    LET j == request[c].job IN
    /\ request[c].pc = "job_read"
    /\ request' = [request EXCEPT ![c] =
            IF Dispatchable(request[c].row, targets[j], preflight[j])
            THEN [request[c] EXCEPT !.pc = "validated"]
            ELSE Done]
    /\ UNCHANGED <<rows, worker>>

\* Mutant: the status is committed without its outbox event.
DispatchCommit_NoEvent(c) ==
    LET j == request[c].job IN
    /\ request[c].pc = "validated"
    /\ job' = [job EXCEPT ![j] = [request[c].row EXCEPT !.status = "publishing"]]
    /\ request' = [request EXCEPT ![c] = Done]
    /\ UNCHANGED <<targets, preflight, outcome, outbox, worker>>

DispatchCommit(c) ==
    LET j == request[c].job IN
    /\ request[c].pc = "validated"
    /\ outbox[j] < MaxEvents
    /\ job' = [job EXCEPT ![j] = [request[c].row EXCEPT !.status = "publishing"]]
    /\ outbox' = [outbox EXCEPT ![j] = @ + 1]
    /\ request' = [request EXCEPT ![c] = Done]
    /\ UNCHANGED <<targets, preflight, outcome, worker>>

\* A command fails on the way: an exception or a lost connection rolls its
\* open transaction back (repository/uow.py `__aexit__`).
RequestFails(c) ==
    /\ request[c].pc \notin {"idle", "done"}
    /\ request' = [request EXCEPT ![c] = Done]
    /\ UNCHANGED <<rows, worker>>

-----------------------------------------------------------------------------
(* The worker: PublishTaskApplicationHandler.handle and the executors.     *)

\* Mutant: the check for a terminal job is missing.
WorkerLoad_AnyStatus(w, j) ==
    /\ worker[w].pc = "idle"
    /\ outbox[j] > 0
    /\ job[j].confirmation = "yes"
    /\ worker' = [worker EXCEPT ![w] =
            [Free EXCEPT !.pc = "running", !.job = j, !.row = job[j]]]
    /\ UNCHANGED <<rows, request>>

\* An outbox event is delivered; the handler reloads the job.  A terminal job
\* returns at once and an unconfirmed one, or one that is neither draft nor
\* publishing, is refused by the workflow before any storage call: neither
\* changes anything, so only the accepted case is a step.
WorkerLoad(w, j) ==
    /\ worker[w].pc = "idle"
    /\ outbox[j] > 0
    /\ job[j].status \in {"draft", "publishing"}
    /\ job[j].confirmation = "yes"
    /\ worker' = [worker EXCEPT ![w] =
            [Free EXCEPT !.pc = "running", !.job = j, !.row = job[j]]]
    /\ UNCHANGED <<rows, request>>

\* The verdicts the workflow can return for a job.
Verdicts(j, dryRun) ==
    {v \in [Stations -> Outcome] :
        \A s \in Stations :
            v[s] \in IF s \notin targets[j] THEN {"none"}
                     ELSE IF dryRun THEN {"simulated"} ELSE {"verified", "failed"}}

\* The storage workflow ends and _persist_result opens its transaction, which
\* reads the targets it is about to overwrite.
WorkerReload(w, verdict) ==
    LET j == worker[w].job IN
    /\ worker[w].pc = "running"
    /\ verdict \in Verdicts(j, worker[w].row.dry_run)
    /\ worker' = [worker EXCEPT ![w] =
            [worker[w] EXCEPT !.pc = "persisting", !.outcome = verdict,
                              !.preflight = preflight[j]]]
    /\ UNCHANGED <<rows, request>>

\* The job status the workflow derives from the verdicts.
JobVerdict(dryRun, selection, verdict) ==
    IF dryRun \/ \A s \in selection : verdict[s] = "verified" THEN "completed"
    ELSE IF \A s \in selection : verdict[s] # "verified" THEN "failed"
    ELSE "partial_failure"

\* Mutant: the job is updated, the targets are not.
WorkerPersist_JobOnly(w) ==
    LET j == worker[w].job IN
    /\ worker[w].pc = "persisting"
    /\ job' = [job EXCEPT ![j] =
            [worker[w].row EXCEPT !.status =
                JobVerdict(worker[w].row.dry_run, targets[j], worker[w].outcome)]]
    /\ worker' = [worker EXCEPT ![w] = Free]
    /\ UNCHANGED <<targets, preflight, outcome, outbox, request>>

\* _persist_result: target columns and the job row, in one transaction.  The
\* job row is the one the handler loaded with the new status; the status now
\* in the database is not looked at.
WorkerPersist(w) ==
    LET j == worker[w].job IN
    /\ worker[w].pc = "persisting"
    /\ outcome' = [outcome EXCEPT ![j] = worker[w].outcome]
    /\ preflight' = [preflight EXCEPT ![j] = worker[w].preflight]
    /\ job' = [job EXCEPT ![j] =
            [worker[w].row EXCEPT !.status =
                JobVerdict(worker[w].row.dry_run, targets[j], worker[w].outcome)]]
    /\ worker' = [worker EXCEPT ![w] = Free]
    /\ UNCHANGED <<targets, outbox, request>>

\* An exception anywhere in the execution, or the death of the process: the
\* actor has max_retries=0, nothing is persisted.
WorkerFails(w) ==
    /\ worker[w].pc # "idle"
    /\ worker' = [worker EXCEPT ![w] = Free]
    /\ UNCHANGED <<rows, request>>

-----------------------------------------------------------------------------

\* Reports for the selected stations only.
Reports(j) ==
    {r \in [Stations -> Preflight] :
        \A s \in Stations :
            r[s] \in IF s \in targets[j] THEN {"pass", "block"} ELSE {"none"}}

Next ==
    \/ \E j \in Jobs, sel \in SUBSET Stations, dry \in BOOLEAN : Create(j, sel, dry)
    \/ \E c \in Commands :
        \/ \E j \in Jobs :
            \/ \E a \in Answer, r \in Reports(j), adm \in BOOLEAN :
                    PrepareEvaluate(c, j, a, r, adm)
            \/ DispatchRead(c, j)
        \/ PrepareReadJob(c)
        \/ PrepareReload(c)
        \/ PrepareCommit(c)
        \/ DispatchValidate(c)
        \/ DispatchCommit(c)
        \/ RequestFails(c)
    \/ \E w \in Workers :
        \/ \E j \in Jobs : WorkerLoad(w, j)
        \/ \E v \in [Stations -> Outcome] : WorkerReload(w, v)
        \/ WorkerPersist(w)
        \/ WorkerFails(w)

Spec == Init /\ [][Next]_vars

-----------------------------------------------------------------------------
\* The types of the rows and of what commands and workers keep in memory.
TypeOK ==
    /\ job \in [Jobs -> JobRow]
    /\ targets \in [Jobs -> SUBSET Stations]
    /\ preflight \in [Jobs -> [Stations -> Preflight]]
    /\ outcome \in [Jobs -> [Stations -> Outcome]]
    /\ outbox \in [Jobs -> 0..MaxEvents]
    /\ request \in [Commands -> RequestState]
    /\ worker \in [Workers -> WorkerState]

\* The outbox is transactional: a job that is publishing, or has a verdict,
\* has an outbox event, and a job with an event is past draft and preflight
\* creation - whichever stale row a slower command wrote over it.
TransactionalOutbox ==
    \A j \in Jobs :
        /\ job[j].status \in {"publishing"} \cup Terminal => outbox[j] > 0
        /\ outbox[j] > 0 => job[j].status \notin {Absent, "draft"}

\* The verdict on a job always agrees with the verdicts on its targets, as
\* they stand in the database, even when two executions of the job, or an
\* execution and a late prepare, overwrite each other's rows.
VerdictMatchesTargets ==
    \A j \in Jobs :
        job[j].status \in Terminal =>
            /\ outcome[j] \in Verdicts(j, job[j].dry_run)
            /\ job[j].status = JobVerdict(job[j].dry_run, targets[j], outcome[j])

\* A command or an execution that commits has overtaken job j: the row it
\* read is no longer the one it overwrites (publish_jobs.py `update` neither
\* locks nor compares).
Overtaken(j) ==
    \/ \E c \in Commands :
        /\ request[c].pc \in {"reloaded", "validated"} /\ request[c].job = j
        /\ request'[c] # request[c]
        /\ request[c].row # job[j]
    \/ \E w \in Workers :
        /\ worker[w].pc = "persisting" /\ worker[w].job = j
        /\ worker'[w] # worker[w]
        /\ worker[w].row # job[j]

\* The persisted status implements the abstract life cycle of a job, however
\* commands and executions overlap: it leaves ALLOWED_TRANSITIONS only where a
\* lost update does, a commit over a row that has changed since it was read.
FollowsLifecycle ==
    /\ Lifecycle!Init
    /\ [][Lifecycle!Next \/ \E j \in Jobs : Overtaken(j)]_[j \in Jobs |-> job[j].status]

=============================================================================
