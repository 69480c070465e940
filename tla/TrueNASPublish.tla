--------------------------- MODULE TrueNASPublish ---------------------------
(***************************************************************************)
(* TrueNASPublishWorkflow: what an execution of a publish job reads from   *)
(* and does to TrueNAS - one snapshot of the source dataset, one clone for *)
(* each station, one update of the station's existing extent, and the      *)
(* read-back that decides the verdict - together with the Dramatiq message *)
(* that starts it and the transaction that persists its verdicts.          *)
(*                                                                         *)
(* Every call to TrueNAS is a step of its own.  A call may raise, with or  *)
(* without the request having been executed, and a request whose answer    *)
(* was lost (or that the transport repeated) may still be executed later   *)
(* (module RemoteCall).  A worker process may die between any two steps.   *)
(*                                                                         *)
(* What differs from one deployment to the next - the jobs there are, the  *)
(* worker threads, how reliable TrueNAS is - is a record that Init picks   *)
(* and no step changes, so that one run covers several deployments.        *)
(***************************************************************************)
EXTENDS Naturals

CONSTANTS
    Jobs,        \* publish jobs
    Stations,    \* stations, numbered in the order of list_for_job
    Targets,     \* Targets[j]: the stations job j selects
    Slug,        \* Slug[s] = Slug[t] iff s and t share _safe_slug(display_name)
    Workers,     \* Dramatiq worker threads
    Deployments  \* the deployments considered, records of
                 \*   jobs    : the jobs that were dispatched
                 \*   workers : the worker threads that run
                 \*   faulty  : whether calls to TrueNAS may raise
                 \*   late    : the calls that may be executed late
                 \*   crashes : bound, how often a worker process dies

ASSUME PublishAssumption ==
    /\ Jobs # {} /\ "original" \notin Jobs
    /\ Stations \subseteq Nat
    /\ Targets \in [Jobs -> SUBSET Stations]
    /\ \A j \in Jobs : Targets[j] # {}
    /\ Slug \in [Stations -> Stations]
    /\ \A d \in Deployments :
        /\ d.jobs \subseteq Jobs /\ d.workers \subseteq Workers
        /\ d.faulty \in BOOLEAN
        /\ d.late \subseteq {"snapshot", "clone", "update", "delete"}
        /\ d.crashes \in Nat

VARIABLES
    deployment, \* the deployment; never changes
    snapshots,  \* jobs whose snapshot exists on TrueNAS
    clones,     \* clone datasets that exist on TrueNAS
    extent,     \* the device each station's extent exports
    late,       \* requests that TrueNAS may still execute
    queue,      \* jobs with a message in the Dramatiq queue
    run,        \* the execution each worker thread is in
    result,     \* publish_targets: the persisted verdicts
    crashes

nas  == <<snapshots, clones, extent, late>>
vars == <<deployment, snapshots, clones, extent, late, queue, run, result, crashes>>

-----------------------------------------------------------------------------
(* Names and records.                                                      *)

\* _build_station_plan: destination_dataset, and destination_device with it.
Clone(j, s) == <<j, Slug[s]>>

\* The device a station's extent exports before the first publish.
Original(s) == <<"original", s>>

Device == (Jobs \X Stations) \cup ({"original"} \X Stations)

\* The requests that may be executed late: creations, clonings, and updates of
\* a station's extent.
LateCalls ==
    [snapshots : SUBSET Jobs,
     clones    : SUBSET (Jobs \X Stations),
     updates   : SUBSET (Stations \X (Jobs \X Stations))]

Verdict == {"none", "verified", "error", "recovery_required"}

\* PublishTargetResult: status, old_mapping and storage_created.
TargetResult == [status : Verdict, old : Device, created : BOOLEAN]

NoResult == [s \in Stations |-> [status |-> "none", old |-> Original(s), created |-> FALSE]]

\* pc: the next call.  old: the plan's old_device of each station.
RunState ==
    [pc        : {"idle", "plan", "find_snapshot", "create_snapshot", "find_clone",
                  "clone", "switch", "read_back", "recheck", "persist"},
     job       : Jobs,
     todo      : SUBSET Stations,
     attempted : BOOLEAN,
     result    : [Stations -> TargetResult]]

Idle ==
    [pc |-> "idle", job |-> CHOOSE j \in Jobs : TRUE, todo |-> {}, attempted |-> FALSE,
     result |-> NoResult]

\* The station an execution is working on.
Station(w) == CHOOSE s \in run[w].todo : \A t \in run[w].todo : s <= t

\* The clone it is switching that station to.
Destination(w) == Clone(run[w].job, Station(w))

Init ==
    /\ deployment \in Deployments
    /\ snapshots = {}
    /\ clones = {}
    /\ extent = [s \in Stations |-> Original(s)]
    /\ late = [snapshots |-> {}, clones |-> {}, updates |-> {}]
    /\ queue = deployment.jobs
    /\ run = [w \in Workers |-> Idle]
    /\ result = [j \in Jobs |-> NoResult]
    /\ crashes = 0

\* The job has a verdict: its row is terminal.
Finished(j) == \A s \in Targets[j] : result[j][s].status # "none"

At(w, pc) == run[w].pc = pc

Goto(w, pc) == run' = [run EXCEPT ![w].pc = pc]

-----------------------------------------------------------------------------
(* The message and the execution as a whole.                               *)

\* The outbox relay sends the message a second time (module OutboxRelay).
Redeliver(j) ==
    /\ j \in deployment.jobs \ queue
    /\ queue' = queue \cup {j}
    /\ UNCHANGED <<deployment, nas, run, result, crashes>>

\* A worker takes the message.  For a terminal job the executor returns.
Start(w, j) ==
    /\ w \in deployment.workers
    /\ At(w, "idle")
    /\ j \in queue
    /\ queue' = queue \ {j}
    /\ run' = IF Finished(j) THEN run
              ELSE [run EXCEPT ![w] = [Idle EXCEPT !.pc = "plan", !.job = j]]
    /\ UNCHANGED <<deployment, nas, result, crashes>>

\* A call outside _apply_station raises: the exception leaves the actor, which
\* has max_retries=0, and the message is gone.
Raises(w) ==
    /\ deployment.faulty
    /\ run[w].pc \in {"plan", "find_snapshot", "persist"}
    /\ run' = [run EXCEPT ![w] = Idle]
    /\ UNCHANGED <<deployment, nas, queue, result, crashes>>

\* The process dies; the broker hands the unacknowledged message out again.
Crashes(w) ==
    /\ ~ At(w, "idle")
    /\ crashes < deployment.crashes
    /\ run' = [run EXCEPT ![w] = Idle]
    /\ queue' = queue \cup {run[w].job}
    /\ crashes' = crashes + 1
    /\ UNCHANGED <<deployment, nas, result>>

-----------------------------------------------------------------------------
(* TrueNASPublishWorkflow.execute.                                         *)

\* _find_source_dataset and _resolve_mappings: the old devices are read here,
\* for all stations, and not again.
Plan(w) ==
    LET j == run[w].job IN
    /\ At(w, "plan")
    /\ run' = [run EXCEPT ![w].pc = "find_snapshot",
                          ![w].todo = Targets[j],
                          ![w].result = [s \in Stations |->
                              IF s \in Targets[j]
                              THEN [NoResult[s] EXCEPT !.old = extent[s]]
                              ELSE NoResult[s]]]
    /\ UNCHANGED <<deployment, nas, queue, result, crashes>>

\* Mutant: the snapshot of an earlier attempt is not looked for.
FindSnapshot_Never(w) ==
    /\ At(w, "find_snapshot")
    /\ Goto(w, "create_snapshot")
    /\ UNCHANGED <<deployment, nas, queue, result, crashes>>

\* _ensure_snapshot looks for the snapshot of an earlier attempt ...
FindSnapshot(w) ==
    /\ At(w, "find_snapshot")
    /\ Goto(w, IF run[w].job \in snapshots THEN "find_clone" ELSE "create_snapshot")
    /\ UNCHANGED <<deployment, nas, queue, result, crashes>>

\* ... and creates it.  TrueNAS refuses a second snapshot of the same name; an
\* exception ends the execution as in Raises.  pending: the request (or a copy
\* the transport sent before a retry) is still to come.
CreateSnapshot(w, executed, raised, pending) ==
    /\ At(w, "create_snapshot")
    /\ raised => deployment.faulty \/ run[w].job \in snapshots
    /\ IF run[w].job \in snapshots THEN raised /\ ~executed ELSE executed \/ raised
    /\ pending => "snapshot" \in deployment.late
    /\ snapshots' = IF executed THEN snapshots \cup {run[w].job} ELSE snapshots
    /\ late' = IF pending THEN [late EXCEPT !.snapshots = @ \cup {run[w].job}] ELSE late
    /\ IF raised THEN run' = [run EXCEPT ![w] = Idle] ELSE Goto(w, "find_clone")
    /\ UNCHANGED <<deployment, clones, extent, queue, result, crashes>>

\* A target's verdict, and on to the next target or to the end.
Conclude(w, status, created) ==
    LET rest == run[w].todo \ {Station(w)} IN
    run' = [run EXCEPT
        ![w].result[Station(w)] = [@ EXCEPT !.status = status, !.created = created],
        ![w].todo = rest,
        ![w].attempted = FALSE,
        ![w].pc = IF rest = {} THEN "persist" ELSE "find_clone"]

\* _apply_station: an existing dataset of the clone's name is taken for the
\* clone; a failed query ends the target.
FindClone(w, raised) ==
    /\ At(w, "find_clone")
    /\ raised => deployment.faulty
    /\ IF raised THEN Conclude(w, "error", FALSE)
       ELSE Goto(w, IF Destination(w) \in clones THEN "switch" ELSE "clone")
    /\ UNCHANGED <<deployment, nas, queue, result, crashes>>

\* clone_snapshot; storage_created stays false when it raises.
CloneSnapshot(w, executed, raised, pending) ==
    /\ At(w, "clone")
    /\ raised => deployment.faulty \/ Destination(w) \in clones
    /\ IF Destination(w) \in clones THEN raised /\ ~executed ELSE executed \/ raised
    /\ pending => "clone" \in deployment.late
    /\ clones' = IF executed THEN clones \cup {Destination(w)} ELSE clones
    /\ late' = IF pending THEN [late EXCEPT !.clones = @ \cup {Destination(w)}] ELSE late
    /\ IF raised THEN Conclude(w, "error", FALSE) ELSE Goto(w, "switch")
    /\ UNCHANGED <<deployment, snapshots, extent, queue, result, crashes>>

\* The planned old device already is the clone: nothing to write.
SkipSwitch(w) ==
    /\ At(w, "switch")
    /\ run[w].result[Station(w)].old = Destination(w)
    /\ Goto(w, "read_back")
    /\ UNCHANGED <<deployment, nas, queue, result, crashes>>

\* Mutant: write_attempted is set when the call has returned.
Switch_MarksAfter(w, executed, raised, pending) ==
    /\ At(w, "switch")
    /\ run[w].result[Station(w)].old # Destination(w)
    /\ raised => deployment.faulty
    /\ executed \/ raised
    /\ ~pending
    /\ extent' = IF executed THEN [extent EXCEPT ![Station(w)] = Destination(w)] ELSE extent
    /\ IF raised THEN Conclude(w, "error", TRUE)
       ELSE run' = [run EXCEPT ![w].pc = "read_back", ![w].attempted = TRUE]
    /\ UNCHANGED <<deployment, snapshots, clones, late, queue, result, crashes>>

\* update_extent_device; write_attempted is set before the call.
Switch(w, executed, raised, pending) ==
    /\ At(w, "switch")
    /\ run[w].result[Station(w)].old # Destination(w)
    /\ raised => deployment.faulty \/ Destination(w) \notin clones
    /\ executed \/ raised
    /\ executed => Destination(w) \in clones
    /\ pending => "update" \in deployment.late
    /\ extent' = IF executed THEN [extent EXCEPT ![Station(w)] = Destination(w)] ELSE extent
    /\ late' = IF pending
               THEN [late EXCEPT !.updates = @ \cup {<<Station(w), Destination(w)>>}]
               ELSE late
    /\ run' = [run EXCEPT ![w].pc = IF raised THEN "recheck" ELSE "read_back",
                          ![w].attempted = TRUE]
    /\ UNCHANGED <<deployment, snapshots, clones, queue, result, crashes>>

\* Mutant: the second read-back is taken for a confirmation.
ReadBack_Trusting(w, raised) ==
    /\ run[w].pc \in {"read_back", "recheck"}
    /\ raised => deployment.faulty
    /\ CASE At(w, "recheck") -> Conclude(w, "verified", TRUE)
         [] ~raised /\ extent[Station(w)] = Destination(w) -> Conclude(w, "verified", TRUE)
         [] OTHER -> IF run[w].attempted THEN Goto(w, "recheck")
                     ELSE Conclude(w, "error", TRUE)
    /\ UNCHANGED <<deployment, nas, queue, result, crashes>>

\* _verify_read_back, once in the normal course and once more when anything
\* failed after a write was attempted.
ReadBack(w, raised) ==
    LET confirmed == ~raised /\ extent[Station(w)] = Destination(w) IN
    /\ run[w].pc \in {"read_back", "recheck"}
    /\ raised => deployment.faulty
    /\ CASE confirmed -> Conclude(w, "verified", TRUE)
         [] ~confirmed /\ At(w, "recheck") -> Conclude(w, "recovery_required", TRUE)
         [] ~confirmed /\ At(w, "read_back") ->
                IF run[w].attempted THEN Goto(w, "recheck")
                ELSE Conclude(w, "error", TRUE)
    /\ UNCHANGED <<deployment, nas, queue, result, crashes>>

\* _persist_result (the artifact rows are in module DatasetRetention).
Persist(w) ==
    /\ At(w, "persist")
    /\ result' = [result EXCEPT ![run[w].job] = run[w].result]
    /\ run' = [run EXCEPT ![w] = Idle]
    /\ UNCHANGED <<deployment, nas, queue, crashes>>

-----------------------------------------------------------------------------

\* TrueNAS executes a request whose caller has long given up.  It refuses a
\* second snapshot, a second clone and a device that does not exist.
LateSnapshot ==
    /\ \E j \in late.snapshots :
        /\ snapshots' = snapshots \cup {j}
        /\ late' = [late EXCEPT !.snapshots = @ \ {j}]
    /\ UNCHANGED <<deployment, clones, extent, queue, run, result, crashes>>

LateClone ==
    /\ \E c \in late.clones :
        /\ clones' = clones \cup {c}
        /\ late' = [late EXCEPT !.clones = @ \ {c}]
    /\ UNCHANGED <<deployment, snapshots, extent, queue, run, result, crashes>>

LateUpdate ==
    /\ \E u \in late.updates :
        /\ u[2] \in clones
        /\ extent' = [extent EXCEPT ![u[1]] = u[2]]
        /\ late' = [late EXCEPT !.updates = @ \ {u}]
    /\ UNCHANGED <<deployment, snapshots, clones, queue, run, result, crashes>>

\* The calls of an execution, in the order the workflow makes them.
Step(w) ==
    \/ Plan(w)
    \/ FindSnapshot(w)
    \/ \E executed, raised, pending \in BOOLEAN :
        \/ CreateSnapshot(w, executed, raised, pending)
        \/ CloneSnapshot(w, executed, raised, pending)
        \/ Switch(w, executed, raised, pending)
    \/ \E raised \in BOOLEAN : FindClone(w, raised) \/ ReadBack(w, raised)
    \/ SkipSwitch(w)

\* Everything but the transaction at the end.
Progress ==
    \/ \E j \in Jobs : Redeliver(j)
    \/ \E w \in Workers :
        \/ \E j \in Jobs : Start(w, j)
        \/ Step(w)
        \/ Raises(w)
        \/ Crashes(w)
    \/ LateSnapshot \/ LateClone \/ LateUpdate

Next == Progress \/ \E w \in Workers : Persist(w)

Spec == Init /\ [][Next]_vars

\* Worker threads take messages and keep working; TrueNAS answers.
FairSpec ==
    /\ Spec
    /\ \A w \in Workers : WF_vars(Step(w) \/ Persist(w))
    /\ \A j \in Jobs : SF_vars(\E w \in Workers : Start(w, j))

-----------------------------------------------------------------------------

\* The types; an execution in the middle of its targets has one to work on.
TypeOK ==
    /\ deployment \in Deployments
    /\ snapshots \subseteq Jobs
    /\ clones \subseteq Jobs \X Stations
    /\ extent \in [Stations -> Device]
    /\ late \in LateCalls
    /\ queue \subseteq Jobs
    /\ run \in [Workers -> RunState]
    /\ result \in [Jobs -> [Stations -> TargetResult]]
    /\ crashes \in Nat
    /\ \A w \in Workers : run[w].pc \in {"find_snapshot", "create_snapshot", "find_clone",
                                         "clone", "switch", "read_back", "recheck"}
                              => run[w].todo # {}

\* Two stations never export the same writable clone: the clone of a job is
\* made for one station.
NoSharedDevice ==
    \A s, t \in Stations : s # t => extent[s] # extent[t]

\* A verified verdict is true, and stays true until another job has a clone
\* for the station: duplicate executions, failing and late calls and crashes
\* notwithstanding, the station exports the clone of the job that reported it.
VerifiedIsMapped ==
    \A j \in Jobs : \A s \in Targets[j] :
        /\ \A k \in Jobs \ {j} : Clone(k, s) \notin clones
        /\ \/ result[j][s].status = "verified"
           \/ \E w \in Workers : run[w].job = j /\ run[w].result[s].status = "verified"
        => extent[s] = Clone(j, s)

\* With one execution at a time: what an execution has verified is mapped, and
\* what it reports as a plain error it has not touched.
VerdictIsHonest ==
    \A w \in Workers : \A s \in Stations :
        /\ run[w].result[s].status = "verified" => extent[s] = Clone(run[w].job, s)
        /\ run[w].result[s].status = "error" => extent[s] = run[w].result[s].old

\* One worker thread, and a TrueNAS that answers every call.
Reliable ==
    /\ ~deployment.faulty /\ deployment.late = {}
    /\ \A v, w \in deployment.workers : v = w

\* When TrueNAS answers, crashes at any point and repeated messages cost
\* nothing: every job ends and all its targets are verified.
JobSucceeds ==
    \A j \in Jobs :
        Reliable /\ j \in deployment.jobs
            => <>(\A s \in Targets[j] : result[j][s].status = "verified")

=============================================================================
