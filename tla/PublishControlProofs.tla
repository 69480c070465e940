------------------------ MODULE PublishControlProofs ------------------------
(***************************************************************************)
(* Proofs about PublishControl for any number of jobs, stations, commands  *)
(* and worker threads, however they overlap.                               *)
(***************************************************************************)
EXTENDS PublishControl, TLAPS

\* What commands and executions in flight carry with them; with it the three
\* invariants are inductive.  A prepare that re-read the job holds a row that
\* still accepts preflight, so its write is never a verdict; a validated
\* dispatch holds a row awaiting confirmation; an execution belongs to a
\* committed event and holds a row without a verdict; and one about to persist
\* holds verdicts of exactly the targets of its job.
InFlight ==
    /\ \A c \in Commands :
        /\ request[c].pc = "reloaded" => AcceptsPreflight(request[c].row)
        /\ request[c].pc = "validated" => request[c].row.status = "awaiting_confirmation"
    /\ \A w \in Workers :
        /\ worker[w].pc # "idle" => outbox[worker[w].job] > 0
        /\ worker[w].pc # "idle" => worker[w].row.status \in {"draft", "publishing"}
        /\ worker[w].pc = "persisting" =>
              worker[w].outcome \in Verdicts(worker[w].job, worker[w].row.dry_run)

\* The inductive invariant.
IInv == TypeOK /\ TransactionalOutbox /\ VerdictMatchesTargets /\ InFlight

-----------------------------------------------------------------------------

\* The in-memory states of a command not begun or ended and of a free worker
\* are well typed.
LEMMA IdleTypes ==
    /\ Idle \in RequestState /\ Done \in RequestState /\ Done.pc = "done"
    /\ Free \in WorkerState /\ NoJob \in JobRow
<1>1. (CHOOSE j \in Jobs : TRUE) \in Jobs
  BY JobsAssumption
<1>2. NoReports \in [Stations -> Preflight] /\ NoReports \in [Stations -> Outcome]
  BY DEF NoReports, Preflight, Outcome
<1>3. NoJob \in JobRow
  BY DEF NoJob, JobRow, Absent, Answer
<1>4. Idle \in RequestState /\ Free \in WorkerState
  BY <1>1, <1>2, <1>3 DEF Idle, Free, RequestState, WorkerState, Answer
<1>5. Done \in RequestState /\ Done.pc = "done"
  BY <1>4 DEF Done, RequestState
<1>6. QED
  BY <1>3, <1>4, <1>5

\* _update_job keeps the row well typed and never yields a draft or a verdict.
LEMMA UpdateJobResult ==
    ASSUME NEW row \in JobRow, NEW ready \in BOOLEAN, NEW answer \in Answer,
           AcceptsPreflight(row)
    PROVE  /\ UpdateJob(row, ready, answer) \in JobRow
           /\ UpdateJob(row, ready, answer).status \in {"preflight", "awaiting_confirmation"}
BY DEF UpdateJob, JobRow, JobStatus, AcceptsPreflight, Answer

\* A step's type correctness.
LEMMA TypeStep == TypeOK /\ InFlight /\ [Next]_vars => TypeOK'
<1> SUFFICES ASSUME TypeOK, InFlight, [Next]_vars PROVE TypeOK'
  OBVIOUS
<1> USE IdleTypes DEF TypeOK
<1>1. ASSUME NEW j \in Jobs, NEW sel \in SUBSET Stations, NEW dry \in BOOLEAN,
             Create(j, sel, dry)
      PROVE  TypeOK'
  BY <1>1 DEF Create, JobRow, JobStatus, Answer
<1>2. ASSUME NEW c \in Commands, NEW j \in Jobs, NEW a \in Answer,
             NEW r \in Reports(j), NEW adm \in BOOLEAN, PrepareEvaluate(c, j, a, r, adm)
      PROVE  TypeOK'
  <2>1. r \in [Stations -> Preflight] /\ PreflightReady(j, r, adm) \in BOOLEAN
    BY DEF Reports, PreflightReady
  <2>2. [Idle EXCEPT !.pc = "evaluated", !.job = j, !.answer = a, !.preflight = r,
                     !.ready = PreflightReady(j, r, adm)] \in RequestState
    BY <2>1 DEF RequestState
  <2>3. QED
    BY <1>2, <2>2 DEF PrepareEvaluate, rows
<1>3. ASSUME NEW c \in Commands, PrepareReload(c)
      PROVE  TypeOK'
  BY <1>3 DEF PrepareReload, rows, RequestState
<1>a. ASSUME NEW c \in Commands, PrepareReadJob(c)
      PROVE  TypeOK'
  <2>1. request[c] \in RequestState /\ job[request[c].job] \in JobRow
    BY DEF RequestState
  <2>2. [request[c] EXCEPT !.pc = "job_reloaded", !.row = job[request[c].job]] \in RequestState
    BY <2>1 DEF RequestState
  <2>3. QED
    BY <1>a, <2>2 DEF PrepareReadJob, rows
<1>4. ASSUME NEW c \in Commands, PrepareCommit(c)
      PROVE  TypeOK'
  <2>1. request[c] \in RequestState
    OBVIOUS
  <2>2. UpdateJob(request[c].row, request[c].ready, request[c].answer) \in JobRow
    BY <1>4, <2>1, UpdateJobResult DEF RequestState, InFlight, PrepareCommit
  <2>3. QED
    BY <1>4, <2>1, <2>2 DEF PrepareCommit, RequestState
<1>5. ASSUME NEW c \in Commands, NEW j \in Jobs, DispatchRead(c, j)
      PROVE  TypeOK'
  BY <1>5 DEF DispatchRead, rows, RequestState
<1>6. ASSUME NEW c \in Commands, DispatchValidate(c)
      PROVE  TypeOK'
  BY <1>6 DEF DispatchValidate, rows, RequestState
<1>7. ASSUME NEW c \in Commands, DispatchCommit(c)
      PROVE  TypeOK'
  <2>1. request[c].row \in JobRow /\ request[c].job \in Jobs
    BY DEF RequestState
  <2>2. [request[c].row EXCEPT !.status = "publishing"] \in JobRow
    BY <2>1 DEF JobRow, JobStatus
  <2>3. outbox' \in [Jobs -> 0..MaxEvents]
    BY <1>7, <2>1, MaxEventsAssumption DEF DispatchCommit
  <2>4. QED
    BY <1>7, <2>1, <2>2, <2>3 DEF DispatchCommit
<1>8. ASSUME NEW c \in Commands, RequestFails(c)
      PROVE  TypeOK'
  BY <1>8 DEF RequestFails, rows
<1>9. ASSUME NEW w \in Workers, NEW j \in Jobs, WorkerLoad(w, j)
      PROVE  TypeOK'
  BY <1>9 DEF WorkerLoad, rows, WorkerState
<1>10. ASSUME NEW w \in Workers, NEW v \in [Stations -> Outcome], WorkerReload(w, v)
       PROVE  TypeOK'
  BY <1>10 DEF WorkerReload, rows, WorkerState
<1>11. ASSUME NEW w \in Workers, WorkerPersist(w)
       PROVE  TypeOK'
  <2>1. worker[w] \in WorkerState
    OBVIOUS
  <2> DEFINE v == JobVerdict(worker[w].row.dry_run, targets[worker[w].job],
                             worker[w].outcome)
  <2>a. v \in Terminal
    BY DEF JobVerdict, Terminal
  <2> HIDE DEF v
  <2>2. [worker[w].row EXCEPT !.status = v] \in JobRow
    BY <2>1, <2>a DEF WorkerState, JobRow, JobStatus, Terminal
  <2>3. /\ worker[w].job \in Jobs
        /\ worker[w].preflight \in [Stations -> Preflight]
        /\ worker[w].outcome \in [Stations -> Outcome]
    BY <2>1 DEF WorkerState
  <2>4. QED
    BY <1>11, <2>2, <2>3 DEF WorkerPersist, v
<1>12. ASSUME NEW w \in Workers, WorkerFails(w)
       PROVE  TypeOK'
  BY <1>12 DEF WorkerFails, rows
<1>13. CASE UNCHANGED vars
  BY <1>13 DEF vars
<1> HIDE DEF TypeOK
<1>14. QED
  BY <1>1, <1>2, <1>3, <1>a, <1>4, <1>5, <1>6, <1>7, <1>8, <1>9, <1>10, <1>11, <1>12, <1>13
  DEF Next

\* No step takes an event away, and a job with an event keeps its targets.
LEMMA EventsStay ==
    TypeOK /\ TransactionalOutbox /\ [Next]_vars =>
        \A j \in Jobs : outbox[j] > 0 => outbox'[j] > 0 /\ targets'[j] = targets[j]
<1> SUFFICES ASSUME TypeOK, TransactionalOutbox, [Next]_vars,
                    NEW j \in Jobs, outbox[j] > 0
             PROVE  outbox'[j] > 0 /\ targets'[j] = targets[j]
  OBVIOUS
<1>1. ASSUME NEW i \in Jobs, NEW sel \in SUBSET Stations, NEW dry \in BOOLEAN,
             Create(i, sel, dry)
      PROVE  outbox'[j] > 0 /\ targets'[j] = targets[j]
  BY <1>1 DEF Create, NoJob, TransactionalOutbox, TypeOK
<1>2. ASSUME NEW c \in Commands, DispatchCommit(c)
      PROVE  outbox'[j] > 0 /\ targets'[j] = targets[j]
  BY <1>2 DEF DispatchCommit, TypeOK
<1>3. CASE UNCHANGED <<outbox, targets>>
  BY <1>3
<1>4. QED
  BY <1>1, <1>2, <1>3
  DEF Next, vars, rows, PrepareEvaluate, PrepareReadJob, PrepareReload, PrepareCommit, DispatchRead,
      DispatchValidate, RequestFails, WorkerLoad, WorkerReload, WorkerPersist, WorkerFails

\* A command reaches "reloaded" only with a row that accepts preflight, and
\* "validated" only with a row that awaits confirmation.
LEMMA CommandStep ==
    ASSUME TypeOK, [Next]_vars, NEW c \in Commands
    PROVE  \/ request'[c] = request[c]
           \/ /\ request'[c].pc = "reloaded" => AcceptsPreflight(request'[c].row)
              /\ request'[c].pc = "validated" => request'[c].row.status = "awaiting_confirmation"
<1> DEFINE P == \/ request'[c] = request[c]
                \/ request'[c].pc \notin {"reloaded", "validated"}
                \/ /\ request'[c].pc = "reloaded"
                   /\ AcceptsPreflight(request'[c].row)
                \/ /\ request'[c].pc = "validated"
                   /\ request'[c].row.status = "awaiting_confirmation"
<1> USE DEF TypeOK
<1>0. Idle \in RequestState /\ Done \in RequestState /\ Done.pc = "done"
  BY IdleTypes
<1>1. ASSUME NEW d \in Commands, NEW j \in Jobs, NEW a \in Answer, NEW r \in Reports(j),
             NEW adm \in BOOLEAN, PrepareEvaluate(d, j, a, r, adm)
      PROVE  P
  BY <1>0, <1>1 DEF PrepareEvaluate, RequestState
<1>a. ASSUME NEW d \in Commands, PrepareReadJob(d) PROVE P
  BY <1>0, <1>a DEF PrepareReadJob, RequestState
<1>2. ASSUME NEW d \in Commands, PrepareReload(d) PROVE P
  BY <1>0, <1>2 DEF PrepareReload, RequestState
<1>3. ASSUME NEW d \in Commands, PrepareCommit(d) PROVE P
  BY <1>0, <1>3 DEF PrepareCommit
<1>4. ASSUME NEW d \in Commands, NEW j \in Jobs, DispatchRead(d, j) PROVE P
  BY <1>0, <1>4 DEF DispatchRead, RequestState
<1>5. ASSUME NEW d \in Commands, DispatchValidate(d) PROVE P
  BY <1>0, <1>5 DEF DispatchValidate, Dispatchable, RequestState
<1>6. ASSUME NEW d \in Commands, DispatchCommit(d) PROVE P
  BY <1>0, <1>6 DEF DispatchCommit
<1>7. ASSUME NEW d \in Commands, RequestFails(d) PROVE P
  BY <1>0, <1>7 DEF RequestFails
<1>8. CASE UNCHANGED request
  BY <1>8
<1> HIDE DEF TypeOK
<1>9. P
  BY <1>1, <1>a, <1>2, <1>3, <1>4, <1>5, <1>6, <1>7, <1>8
  DEF Next, vars, Create, WorkerLoad, WorkerReload, WorkerPersist, WorkerFails
<1>10. QED
  BY <1>9

\* How an execution may change: it ends, starts on a committed event, or
\* finishes its workflow with verdicts of its job's targets.
LEMMA WorkerStep ==
    ASSUME TypeOK, [Next]_vars, NEW w \in Workers
    PROVE  \/ worker'[w] = worker[w]
           \/ worker'[w] = Free
           \/ /\ worker'[w].pc = "running" /\ outbox[worker'[w].job] > 0
              /\ worker'[w].job \in Jobs
              /\ worker'[w].row.status \in {"draft", "publishing"}
           \/ /\ worker[w].pc = "running"
              /\ worker'[w].job = worker[w].job
              /\ worker'[w].row = worker[w].row
              /\ worker'[w].outcome \in Verdicts(worker[w].job, worker[w].row.dry_run)
<1> DEFINE P == \/ worker'[w] = worker[w]
                \/ worker'[w] = Free
                \/ /\ worker'[w].pc = "running"
                   /\ outbox[worker'[w].job] > 0 /\ worker'[w].job \in Jobs
                   /\ worker'[w].row.status \in {"draft", "publishing"}
                \/ /\ worker[w].pc = "running"
                   /\ worker'[w].job = worker[w].job
                   /\ worker'[w].row = worker[w].row
                   /\ worker'[w].outcome \in Verdicts(worker[w].job, worker[w].row.dry_run)
<1> USE DEF TypeOK
<1>1. ASSUME NEW x \in Workers, NEW j \in Jobs, WorkerLoad(x, j) PROVE P
  BY <1>1, IdleTypes DEF WorkerLoad, WorkerState
<1>2. ASSUME NEW x \in Workers, NEW v \in [Stations -> Outcome], WorkerReload(x, v) PROVE P
  BY <1>2 DEF WorkerReload, WorkerState
<1>3. ASSUME NEW x \in Workers, WorkerPersist(x) PROVE P
  BY <1>3 DEF WorkerPersist
<1>4. ASSUME NEW x \in Workers, WorkerFails(x) PROVE P
  BY <1>4 DEF WorkerFails
<1>5. CASE UNCHANGED worker
  BY <1>5
<1> HIDE DEF TypeOK
<1>6. QED
  BY <1>1, <1>2, <1>3, <1>4, <1>5
  DEF Next, vars, Create, PrepareEvaluate, PrepareReadJob, PrepareReload, PrepareCommit, DispatchRead,
      DispatchValidate, DispatchCommit, RequestFails

\* Commands and executions in flight keep what InFlight says of them.
LEMMA InFlightStep == IInv /\ [Next]_vars => InFlight'
<1> SUFFICES ASSUME IInv, [Next]_vars PROVE InFlight'
  OBVIOUS
<1>1. ASSUME NEW c \in Commands
      PROVE  /\ request'[c].pc = "reloaded" => AcceptsPreflight(request'[c].row)
             /\ request'[c].pc = "validated" => request'[c].row.status = "awaiting_confirmation"
  BY CommandStep DEF IInv, InFlight
<1>2. ASSUME NEW w \in Workers
      PROVE  /\ worker'[w].pc # "idle" => outbox'[worker'[w].job] > 0
             /\ worker'[w].pc # "idle" => worker'[w].row.status \in {"draft", "publishing"}
             /\ worker'[w].pc = "persisting" =>
                   worker'[w].outcome \in Verdicts(worker[w].job, worker[w].row.dry_run)'
  <2>1. worker[w].job \in Jobs
    BY DEF IInv, TypeOK, WorkerState
  <2>2. Free.pc = "idle"
    BY DEF Free
  <2>3. CASE worker'[w].pc # "idle"
    <3>1. worker'[w].job \in Jobs /\ outbox[worker'[w].job] > 0
      BY <2>1, <2>2, <2>3, WorkerStep DEF IInv, InFlight
    <3>2. outbox'[worker'[w].job] > 0 /\ targets'[worker'[w].job] = targets[worker'[w].job]
      BY <3>1, EventsStay DEF IInv
    <3>3. Verdicts(worker[w].job, worker[w].row.dry_run)'
            = Verdicts(worker'[w].job, worker'[w].row.dry_run)
      BY <3>2 DEF Verdicts
    <3>4. worker'[w].pc = "persisting" =>
            worker'[w].outcome \in Verdicts(worker'[w].job, worker'[w].row.dry_run)
      BY <2>2, <2>3, WorkerStep DEF IInv, InFlight
    <3>5. worker'[w].row.status \in {"draft", "publishing"}
      BY <2>2, <2>3, WorkerStep DEF IInv, InFlight
    <3>6. QED
      BY <3>2, <3>3, <3>4, <3>5
  <2>4. QED
    BY <2>3
<1>3. QED
  BY <1>1, <1>2 DEF InFlight, AcceptsPreflight

\* How a job row may change: creation, a prepare that leaves it in preflight
\* or awaiting confirmation, a dispatch that adds an event, or a worker's
\* verdict, written together with the verdicts on the targets.
LEMMA JobStep ==
    ASSUME IInv, [Next]_vars, NEW j \in Jobs
    PROVE  \/ /\ UNCHANGED <<job[j], outcome[j], outbox[j], targets[j]>>
           \/ /\ job[j].status = Absent /\ job'[j].status = "draft"
              /\ outbox'[j] = outbox[j]
           \/ /\ job'[j].status \in {"preflight", "awaiting_confirmation"}
              /\ outbox'[j] = outbox[j]
           \/ /\ job'[j].status = "publishing"
              /\ outbox'[j] = outbox[j] + 1
           \/ /\ outbox'[j] = outbox[j] /\ outbox[j] > 0
              /\ targets'[j] = targets[j]
              /\ outcome'[j] \in Verdicts(j, job'[j].dry_run)
              /\ job'[j].status = JobVerdict(job'[j].dry_run, targets[j], outcome'[j])
<1> DEFINE P == \/ /\ UNCHANGED <<job[j], outcome[j], outbox[j], targets[j]>>
                \/ /\ job[j].status = Absent /\ job'[j].status = "draft"
                   /\ outbox'[j] = outbox[j]
                \/ /\ job'[j].status \in {"preflight", "awaiting_confirmation"}
                   /\ outbox'[j] = outbox[j]
                \/ /\ job'[j].status = "publishing"
                   /\ outbox'[j] = outbox[j] + 1
                \/ /\ outbox'[j] = outbox[j] /\ outbox[j] > 0
                   /\ targets'[j] = targets[j]
                   /\ outcome'[j] \in Verdicts(j, job'[j].dry_run)
                   /\ job'[j].status = JobVerdict(job'[j].dry_run, targets[j], outcome'[j])
<1>0. TypeOK
  BY DEF IInv
<1>1. ASSUME NEW i \in Jobs, NEW sel \in SUBSET Stations, NEW dry \in BOOLEAN,
             Create(i, sel, dry)
      PROVE  P
  BY <1>0, <1>1 DEF Create, NoJob, TypeOK
<1>2. ASSUME NEW c \in Commands, PrepareCommit(c) PROVE P
  <2>1. request[c] \in RequestState /\ AcceptsPreflight(request[c].row)
    BY <1>0, <1>2 DEF IInv, InFlight, TypeOK, PrepareCommit
  <2>2. UpdateJob(request[c].row, request[c].ready, request[c].answer).status
            \in {"preflight", "awaiting_confirmation"}
    BY <2>1, UpdateJobResult DEF RequestState
  <2>3. CASE request[c].job = j
    BY <1>0, <1>2, <2>2, <2>3 DEF PrepareCommit, TypeOK
  <2>4. CASE request[c].job # j
    BY <1>0, <1>2, <2>4 DEF PrepareCommit, TypeOK
  <2>5. QED
    BY <2>3, <2>4
<1>3. ASSUME NEW c \in Commands, DispatchCommit(c) PROVE P
  <2>1. request[c].row \in JobRow
    BY <1>0 DEF TypeOK, RequestState
  <2>2. [request[c].row EXCEPT !.status = "publishing"].status = "publishing"
    BY <2>1 DEF JobRow
  <2>3. CASE request[c].job = j
    BY <1>0, <1>3, <2>2, <2>3 DEF DispatchCommit, TypeOK
  <2>4. CASE request[c].job # j
    BY <1>0, <1>3, <2>4 DEF DispatchCommit, TypeOK
  <2>5. QED
    BY <2>3, <2>4
<1>4. ASSUME NEW w \in Workers, WorkerPersist(w) PROVE P
  <2>1. CASE worker[w].job = j
    <3> DEFINE v == JobVerdict(worker[w].row.dry_run, targets[j], worker[w].outcome)
    <3>1. worker[w].row \in JobRow
      BY <1>0 DEF TypeOK, WorkerState
    <3>2. /\ outbox[j] > 0
          /\ worker[w].outcome \in Verdicts(j, worker[w].row.dry_run)
      BY <1>4, <2>1 DEF IInv, InFlight, WorkerPersist
    <3> HIDE DEF v
    <3>3. /\ job'[j] = [worker[w].row EXCEPT !.status = v]
          /\ outcome'[j] = worker[w].outcome
          /\ UNCHANGED <<outbox, targets>>
      BY <1>0, <1>4, <2>1 DEF WorkerPersist, TypeOK, v
    <3>4. job'[j].status = v /\ job'[j].dry_run = worker[w].row.dry_run
      BY <3>1, <3>3 DEF JobRow
    <3>5. job'[j].status = JobVerdict(job'[j].dry_run, targets[j], outcome'[j])
      BY <3>3, <3>4 DEF v
    <3>6. outcome'[j] \in Verdicts(j, job'[j].dry_run)
      BY <3>2, <3>3, <3>4
    <3>7. QED
      BY <3>2, <3>3, <3>5, <3>6
  <2>2. CASE worker[w].job # j
    BY <1>0, <1>4, <2>2 DEF WorkerPersist, TypeOK
  <2>3. QED
    BY <2>1, <2>2
<1>5. CASE UNCHANGED <<job, outcome, outbox, targets>>
  BY <1>5
<1>6. QED
  BY <1>1, <1>2, <1>3, <1>4, <1>5
  DEF Next, vars, rows, PrepareEvaluate, PrepareReadJob, PrepareReload, DispatchRead,
      DispatchValidate, RequestFails, WorkerLoad, WorkerReload, WorkerFails

\* The transactional outbox is preserved by every step.
LEMMA OutboxStep == IInv /\ [Next]_vars => TransactionalOutbox'
<1> SUFFICES ASSUME IInv, [Next]_vars, NEW j \in Jobs
             PROVE  /\ job'[j].status \in {"publishing"} \cup Terminal => outbox'[j] > 0
                    /\ outbox'[j] > 0 => job'[j].status \notin {Absent, "draft"}
  BY DEF TransactionalOutbox
<1>1. outbox[j] \in Nat
  BY MaxEventsAssumption DEF IInv, TypeOK
<1>2. JobVerdict(job'[j].dry_run, targets[j], outcome'[j]) \in Terminal
  BY DEF JobVerdict, Terminal
<1>3. QED
  BY <1>1, <1>2, JobStep DEF IInv, TransactionalOutbox, Terminal, Absent

\* So is the agreement between the verdict on a job and those on its targets.
LEMMA VerdictStep == IInv /\ [Next]_vars => VerdictMatchesTargets'
<1> SUFFICES ASSUME IInv, [Next]_vars, NEW j \in Jobs, job'[j].status \in Terminal
             PROVE  /\ outcome'[j] \in Verdicts(j, job[j].dry_run)'
                    /\ job'[j].status = JobVerdict(job'[j].dry_run, targets'[j], outcome'[j])
  BY DEF VerdictMatchesTargets
<1>1. /\ targets'[j] = targets[j]
      /\ outcome'[j] \in Verdicts(j, job'[j].dry_run)
      /\ job'[j].status = JobVerdict(job'[j].dry_run, targets[j], outcome'[j])
  BY JobStep DEF IInv, VerdictMatchesTargets, Terminal, Absent
<1>2. Verdicts(j, job[j].dry_run)' = Verdicts(j, job'[j].dry_run)
  BY <1>1 DEF Verdicts
<1>3. QED
  BY <1>1, <1>2

\* The invariant holds initially ...
LEMMA InitInv == Init => IInv
<1> SUFFICES ASSUME Init PROVE IInv
  OBVIOUS
<1> USE IdleTypes DEF Init
<1>1. TypeOK
  BY MaxEventsAssumption DEF TypeOK, NoReports, Preflight, Outcome
<1>2. TransactionalOutbox /\ VerdictMatchesTargets
  BY DEF TransactionalOutbox, VerdictMatchesTargets, NoJob, Absent, Terminal
<1>3. InFlight
  BY DEF InFlight, Idle, Free
<1>4. QED
  BY <1>1, <1>2, <1>3 DEF IInv

\* The inductive invariant holds in every reachable state of the control
\* plane, for any number of concurrent commands and worker threads.
THEOREM Invariance == Spec => []IInv
<1>1. IInv /\ [Next]_vars => IInv'
  BY TypeStep, OutboxStep, VerdictStep, InFlightStep DEF IInv
<1>2. QED
  BY InitInv, <1>1, PTL DEF Spec

\* Rows and in-memory states keep their types (publish_jobs, publish_targets).
THEOREM TypeCorrect == Spec => []TypeOK
BY Invariance, PTL DEF IInv

\* DispatchPublishJobUseCase: no interleaving leaves a job publishing, or with
\* a verdict, that has no outbox event.
THEOREM OutboxIsTransactional == Spec => []TransactionalOutbox
BY Invariance, PTL DEF IInv

\* _persist_result: a terminal job status always agrees with the target rows,
\* whatever duplicate executions and late commands write.
THEOREM VerdictsAgree == Spec => []VerdictMatchesTargets
BY Invariance, PTL DEF IInv

-----------------------------------------------------------------------------
(* The life cycle.                                                         *)

\* The ranks of the statuses that jobs take.
LEMMA Ranks ==
    /\ Lifecycle!Rank["draft"] = 0 /\ Lifecycle!Rank["preflight"] = 1
    /\ Lifecycle!Rank["awaiting_confirmation"] = 2 /\ Lifecycle!Rank["publishing"] = 3
    /\ \A t \in Terminal : Lifecycle!Rank[t] = 6
BY DEF Lifecycle!Rank, Lifecycle!JobStatus, Terminal

\* A write that moves one job forward is a step of the life cycle.
LEMMA Forward ==
    ASSUME job \in [Jobs -> JobRow], NEW i \in Jobs, NEW row,
           job' = [job EXCEPT ![i] = row],
           job[i].status # Absent, row.status \in Lifecycle!Later(job[i].status)
    PROVE  Lifecycle!Next
<1> DEFINE bar == [j \in Jobs |-> job[j].status]
<1>1. bar' = [bar EXCEPT ![i] = row.status] /\ bar[i] = job[i].status
  OBVIOUS
<1>2. Lifecycle!Advance(i)
  BY <1>1 DEF Lifecycle!Advance, Lifecycle!Absent, Absent
<1>3. QED
  BY <1>2 DEF Lifecycle!Next

\* A step of the control plane is a step of the life cycle, or none, or it
\* overwrites a row that changed since it was read.
LEMMA LifecycleStep ==
    ASSUME IInv, [Next]_vars
    PROVE  [Lifecycle!Next \/ \E j \in Jobs : Overtaken(j)]_[j \in Jobs |-> job[j].status]
<1> DEFINE bar == [j \in Jobs |-> job[j].status]
           Goal == (Lifecycle!Next \/ \E j \in Jobs : Overtaken(j)) \/ bar' = bar
<1> SUFFICES Goal
  OBVIOUS
<1>0. TypeOK /\ job \in [Jobs -> JobRow]
  BY DEF IInv, TypeOK
<1>1. ASSUME NEW i \in Jobs, NEW sel \in SUBSET Stations, NEW dry \in BOOLEAN,
             Create(i, sel, dry)
      PROVE  Goal
  <2> DEFINE new == [status |-> "draft", confirmation |-> "none", dry_run |-> dry]
  <2>a. job[i] = NoJob /\ new.status = "draft" /\ job' = [job EXCEPT ![i] = new]
    BY <1>1 DEF Create
  <2> HIDE DEF new
  <2>b. bar[i] = Absent
    BY <2>a DEF NoJob
  <2>1. bar' = [bar EXCEPT ![i] = "draft"]
    BY <1>0, <2>a
  <2>2. Lifecycle!Create(i)
    BY <2>b, <2>1 DEF Lifecycle!Create, Lifecycle!Absent, Absent
  <2>3. QED
    BY <2>2 DEF Lifecycle!Next
<1>2. ASSUME NEW c \in Commands, PrepareCommit(c) PROVE Goal
  <2> DEFINE i == request[c].job
             new == UpdateJob(request[c].row, request[c].ready, request[c].answer)
  <2>a. CASE request[c].row # job[i]
    <3>1. request'[c] # request[c]
      BY <1>0, <1>2, IdleTypes DEF TypeOK, PrepareCommit
    <3>2. i \in Jobs /\ Overtaken(i)
      BY <1>0, <1>2, <2>a, <3>1 DEF TypeOK, RequestState, PrepareCommit, Overtaken
    <3>3. QED
      BY <3>2
  <2>b. SUFFICES ASSUME request[c].row = job[i] PROVE Goal
    BY <2>a
  <2>1. /\ i \in Jobs /\ request[c].row = job[i] /\ AcceptsPreflight(job[i])
        /\ job[i] \in JobRow /\ job' = [job EXCEPT ![i] = new]
    BY <1>0, <1>2, <2>b DEF IInv, InFlight, TypeOK, RequestState, PrepareCommit
  <2>2. new.status \in {"preflight", "awaiting_confirmation", job[i].status}
        /\ (job[i].status = "awaiting_confirmation" => new.status = "awaiting_confirmation")
    BY <2>1 DEF UpdateJob, JobRow, AcceptsPreflight
  <2> HIDE DEF new
  <2>3. CASE new.status = job[i].status
    BY <1>0, <2>1, <2>3
  <2>4. CASE new.status # job[i].status
    <3>1. new.status \in Lifecycle!Later(job[i].status) /\ job[i].status # Absent
      BY <2>1, <2>2, <2>4, Ranks
         DEF Lifecycle!Later, Lifecycle!JobStatus, AcceptsPreflight, Absent
    <3>2. QED
      BY <1>0, <2>1, <3>1, Forward
  <2>5. QED
    BY <2>3, <2>4
<1>3. ASSUME NEW c \in Commands, DispatchCommit(c) PROVE Goal
  <2> DEFINE i == request[c].job
             new == [request[c].row EXCEPT !.status = "publishing"]
  <2>a. CASE request[c].row # job[i]
    <3>1. request'[c] # request[c]
      BY <1>0, <1>3, IdleTypes DEF TypeOK, DispatchCommit
    <3>2. i \in Jobs /\ Overtaken(i)
      BY <1>0, <1>3, <2>a, <3>1 DEF TypeOK, RequestState, DispatchCommit, Overtaken
    <3>3. QED
      BY <3>2
  <2>b. SUFFICES ASSUME request[c].row = job[i] PROVE Goal
    BY <2>a
  <2>1. /\ i \in Jobs /\ request[c].row = job[i] /\ job[i].status = "awaiting_confirmation"
        /\ job[i] \in JobRow /\ job' = [job EXCEPT ![i] = new]
    BY <1>0, <1>3, <2>b DEF IInv, InFlight, TypeOK, RequestState, DispatchCommit
  <2>2. new.status = "publishing"
    BY <2>1 DEF JobRow
  <2> HIDE DEF new
  <2>3. new.status \in Lifecycle!Later(job[i].status) /\ job[i].status # Absent
    BY <2>1, <2>2, Ranks DEF Lifecycle!Later, Lifecycle!JobStatus, Absent
  <2>4. QED
    BY <1>0, <2>1, <2>3, Forward
<1>4. ASSUME NEW w \in Workers, WorkerPersist(w) PROVE Goal
  <2> DEFINE i == worker[w].job
             v == JobVerdict(worker[w].row.dry_run, targets[i], worker[w].outcome)
             new == [worker[w].row EXCEPT !.status = v]
  <2>a. CASE worker[w].row # job[i]
    <3>1. worker'[w] # worker[w]
      BY <1>0, <1>4 DEF TypeOK, WorkerPersist, Free
    <3>2. i \in Jobs /\ Overtaken(i)
      BY <1>0, <1>4, <2>a, <3>1 DEF TypeOK, WorkerState, WorkerPersist, Overtaken
    <3>3. QED
      BY <3>2
  <2>b. SUFFICES ASSUME worker[w].row = job[i] PROVE Goal
    BY <2>a
  <2>1. /\ i \in Jobs /\ worker[w].row \in JobRow
        /\ job[i].status \in {"draft", "publishing"}
        /\ job' = [job EXCEPT ![i] = new]
    BY <1>0, <1>4, <2>b DEF IInv, InFlight, TypeOK, WorkerState, WorkerPersist
  <2>2. v \in Terminal
    BY DEF JobVerdict, Terminal
  <2> HIDE DEF v
  <2>3. new.status = v
    BY <2>1 DEF JobRow
  <2> HIDE DEF new
  <2>4. new.status \in Lifecycle!Later(job[i].status) /\ job[i].status # Absent
    BY <2>1, <2>2, <2>3, Ranks DEF Lifecycle!Later, Lifecycle!JobStatus, Absent, Terminal
  <2>5. QED
    BY <1>0, <2>1, <2>4, Forward
<1>5. CASE job' = job
  BY <1>5
<1>6. QED
  BY <1>1, <1>2, <1>3, <1>4, <1>5
  DEF Next, vars, rows, PrepareEvaluate, PrepareReadJob, PrepareReload, DispatchRead, DispatchValidate,
      RequestFails, WorkerLoad, WorkerReload, WorkerFails

\* domain/publish.py ALLOWED_TRANSITIONS: the persisted status of a job moves
\* forward along the table, and a verdict is final, except where a command or
\* an execution commits over a row that has changed since it was read: no
\* other interleaving of any number of them breaks the life cycle.
THEOREM LifecycleImplemented == Spec => FollowsLifecycle
<1>1. Init => Lifecycle!Init
  BY DEF Init, Lifecycle!Init, Lifecycle!Absent, NoJob, Absent
<1>2. IInv /\ [Next]_vars
        => [Lifecycle!Next \/ \E j \in Jobs : Overtaken(j)]_[j \in Jobs |-> job[j].status]
  BY LifecycleStep
<1>3. QED
  BY <1>1, <1>2, Invariance, PTL DEF Spec, FollowsLifecycle

=============================================================================
