-------------------------- MODULE DatasetRetention --------------------------
(***************************************************************************)
(* The registry of clones (publish_artifacts) and what is done with it:    *)
(* the worker's _persist_result records a clone and retires its            *)
(* predecessors, DatasetCleanupUseCase deletes retired clones from         *)
(* TrueNAS, and the operator's ListDatasetsUseCase and                     *)
(* QueueDatasetCleanupUseCase reconcile the registry with the live         *)
(* mapping.  Composes with the executions of TrueNASPublish, which run in  *)
(* other threads of the same worker.                                       *)
(***************************************************************************)
EXTENDS TrueNASPublish, FiniteSets

CONSTANTS
    Cleaners,    \* worker threads running a cleanup pass
    Operators,   \* HTTP requests listing or deleting datasets
    BatchSize    \* dataset_cleanup_batch_size

\* A deployment also says
\*   cleaners  : the threads that run cleanup passes
\*   operators : the requests there are
\*   scheduled : dataset_cleanup_enabled, periodic passes
\*   reader    : whether the API has a TrueNAS client to read with
\*   skips     : stations whose extent cannot always be told from its answers
ASSUME RetentionAssumption ==
    /\ BatchSize \in Nat \ {0}
    /\ \A d \in Deployments :
        /\ d.cleaners \subseteq Cleaners /\ d.operators \subseteq Operators
        /\ d.scheduled \in BOOLEAN /\ d.reader \in BOOLEAN
        /\ d.skips \subseteq Stations

VARIABLES
    artifact,  \* publish_artifacts: one row per job and station
    doomed,    \* clones whose deletion TrueNAS may still execute
    tasks,     \* cleanup messages in the Dramatiq queue: the selected rows
    cleaner,   \* the cleanup pass of each thread
    operator   \* the request each operator is executing

retention == <<artifact, doomed, tasks, cleaner, operator>>
allVars   == <<vars, retention>>

-----------------------------------------------------------------------------

Keys == Jobs \X Stations

\* deleted: deleted_at is set.
ArtifactRow ==
    [status  : {"absent", "current", "retired", "deleted", "cleanup_failed"},
     current : BOOLEAN,
     deleted : BOOLEAN]

NoArtifact == [status |-> "absent", current |-> FALSE, deleted |-> FALSE]

\* message: the selected rows the pass was started with, empty for a scheduled
\* pass.
CleanerState ==
    [pc      : {"idle", "delete", "mark_deleted", "mark_failed"},
     message : SUBSET Keys,
     batch   : SUBSET Keys,
     item    : Keys]

Resting ==
    [pc |-> "idle", message |-> {}, batch |-> {}, item |-> CHOOSE k \in Keys : TRUE]

\* rows: the registry as first read.  selected: the rows to be deleted, empty
\* for a mere listing.  mapped: the stations whose extent could be told from
\* what TrueNAS answered, live: those extents.  loaded: the rows as the
\* transaction that rewrites them read them.
OperatorState ==
    [pc       : {"idle", "live", "load", "write", "enqueue"},
     selected : SUBSET Keys,
     rows     : [Keys -> ArtifactRow],
     mapped   : SUBSET Stations,
     live     : [Stations -> Device],
     loaded   : [Keys -> ArtifactRow]]

Away ==
    [pc |-> "idle", selected |-> {}, rows |-> [k \in Keys |-> NoArtifact], mapped |-> {},
     live |-> [s \in Stations |-> Original(s)], loaded |-> [k \in Keys |-> NoArtifact]]

RetentionInit ==
    /\ Init
    /\ artifact = [k \in Keys |-> NoArtifact]
    /\ doomed = {}
    /\ tasks = {}
    /\ cleaner = [c \in Cleaners |-> Resting]
    /\ operator = [o \in Operators |-> Away]

-----------------------------------------------------------------------------
(* The artifact part of _persist_result.                                   *)

\* Mutant: the new clone is recorded as current whatever the verdict.
ArtifactsAfter_AlwaysCurrent(j, verdicts) ==
    [k \in Keys |->
        IF ~verdicts[k[2]].created THEN artifact[k]
        ELSE IF k[1] = j THEN [status |-> "current", current |-> TRUE, deleted |-> FALSE]
        ELSE IF artifact[k].current THEN [artifact[k] EXCEPT !.current = FALSE, !.status = "retired"]
        ELSE artifact[k]]

\* retire_station_artifacts and save, for every target whose clone exists: the
\* predecessors are retired whether or not the switch succeeded.
ArtifactsAfter(j, verdicts) ==
    [k \in Keys |->
        LET verified == verdicts[k[2]].status = "verified" IN
        IF ~verdicts[k[2]].created THEN artifact[k]
        ELSE IF k[1] = j
             THEN [status |-> IF verified THEN "current" ELSE "retired",
                   current |-> verified, deleted |-> FALSE]
        ELSE IF artifact[k].current
             THEN [artifact[k] EXCEPT !.current = FALSE, !.status = "retired"]
        ELSE artifact[k]]

\* One transaction.  Two of them that verified the same station are serialised
\* by the row lock update_last_update takes on the station.
PersistArtifacts(w) ==
    /\ Persist(w)
    /\ artifact' = ArtifactsAfter(run[w].job, run[w].result)
    /\ UNCHANGED <<doomed, tasks, cleaner, operator>>

-----------------------------------------------------------------------------
(* DatasetCleanupUseCase.                                                  *)

Candidate(row) == ~row.current /\ row.status \in {"retired", "cleanup_failed"}

\* A scheduled pass lists retired rows that are old enough; any retired row may
\* be.
CleanupScheduled(c, batch) ==
    /\ deployment.scheduled /\ c \in deployment.cleaners
    /\ cleaner[c].pc = "idle"
    /\ batch # {}
    /\ Cardinality(batch) <= BatchSize
    /\ \A k \in batch : Candidate(artifact[k])
    /\ cleaner' = [cleaner EXCEPT ![c] = [Resting EXCEPT !.pc = "delete", !.batch = batch]]
    /\ UNCHANGED <<vars, artifact, doomed, tasks, operator>>

\* A pass over selected rows looks at them again, but not at TrueNAS.
CleanupSelected(c, selected) ==
    LET batch == {k \in selected : Candidate(artifact[k]) /\ ~artifact[k].deleted} IN
    /\ c \in deployment.cleaners
    /\ cleaner[c].pc = "idle"
    /\ selected \in tasks
    /\ tasks' = tasks \ {selected}
    /\ cleaner' = IF batch = {} THEN cleaner
                  ELSE [cleaner EXCEPT ![c] = [Resting EXCEPT !.pc = "delete", !.batch = batch,
                                                              !.message = selected]]
    /\ UNCHANGED <<vars, artifact, doomed, operator>>

\* Mutant: the answer of TrueNAS is not looked at.
CleanupDelete_Unchecked(c, k, executed, raised, pending) ==
    /\ cleaner[c].pc = "delete"
    /\ k \in cleaner[c].batch
    /\ raised => deployment.faulty
    /\ executed \/ raised
    /\ ~pending
    /\ clones' = IF executed THEN clones \ {Clone(k[1], k[2])} ELSE clones
    /\ cleaner' = [cleaner EXCEPT ![c].pc = "mark_deleted", ![c].item = k]
    /\ UNCHANGED <<deployment, snapshots, extent, late, queue, run, result, crashes,
                   artifact, doomed, tasks, operator>>

\* delete_dataset; a dataset that is absent counts as deleted.
CleanupDelete(c, k, executed, raised, pending) ==
    /\ cleaner[c].pc = "delete"
    /\ k \in cleaner[c].batch
    /\ raised => deployment.faulty
    /\ executed \/ raised
    /\ pending => "delete" \in deployment.late
    /\ clones' = IF executed THEN clones \ {Clone(k[1], k[2])} ELSE clones
    /\ doomed' = IF pending THEN doomed \cup {Clone(k[1], k[2])} ELSE doomed
    /\ cleaner' = [cleaner EXCEPT ![c].pc = IF raised THEN "mark_failed" ELSE "mark_deleted",
                                  ![c].item = k]
    /\ UNCHANGED <<deployment, snapshots, extent, late, queue, run, result, crashes,
                   artifact, tasks, operator>>

\* TrueNAS executes a deletion whose caller has long given up.
LateDelete ==
    /\ \E d \in doomed : clones' = clones \ {d} /\ doomed' = doomed \ {d}
    /\ UNCHANGED <<deployment, snapshots, extent, late, queue, run, result, crashes,
                   artifact, tasks, cleaner, operator>>

\* mark_deleted or mark_cleanup_failed, then the next row.
CleanupMark(c) ==
    LET k == cleaner[c].item
        rest == cleaner[c].batch \ {k}
    IN
    /\ cleaner[c].pc \in {"mark_deleted", "mark_failed"}
    /\ artifact' = [artifact EXCEPT ![k] =
            IF cleaner[c].pc = "mark_deleted"
            THEN [status |-> "deleted", current |-> FALSE, deleted |-> TRUE]
            ELSE [@ EXCEPT !.status = "cleanup_failed"]]
    /\ cleaner' = [cleaner EXCEPT ![c] =
            IF rest = {} THEN Resting
            ELSE [Resting EXCEPT !.pc = "delete", !.batch = rest, !.message = cleaner[c].message]]
    /\ UNCHANGED <<vars, doomed, tasks, operator>>

\* The pass ends early.  When an exception ends it (the database fails), the
\* actor has max_retries=0 and its message is gone; when the process dies, the
\* broker hands the unacknowledged message out again.
CleanupStops(c, died) ==
    /\ cleaner[c].pc # "idle"
    /\ cleaner' = [cleaner EXCEPT ![c] = Resting]
    /\ tasks' = IF died /\ cleaner[c].message # {}
                THEN tasks \cup {cleaner[c].message} ELSE tasks
    /\ UNCHANGED <<vars, artifact, doomed, operator>>

-----------------------------------------------------------------------------
(* ListDatasetsUseCase and QueueDatasetCleanupUseCase.                     *)

\* The stations a request asks TrueNAS about: all, or those of the selected
\* rows.
Scope(o) ==
    IF operator[o].selected = {} THEN Stations ELSE {k[2] : k \in operator[o].selected}

\* First transaction.  Without a TrueNAS client a listing ends here, and a
\* deletion is decided by the registry alone.
DatasetsRead(o, selected) ==
    /\ o \in deployment.operators
    /\ operator[o].pc = "idle"
    /\ deployment.reader \/ selected # {}
    /\ \A k \in selected : artifact[k].status # "absent"
    /\ operator' = [operator EXCEPT ![o] =
            [Away EXCEPT !.pc = IF deployment.reader THEN "live" ELSE "enqueue",
                         !.selected = selected, !.rows = artifact]]
    /\ UNCHANGED <<vars, artifact, doomed, tasks, cleaner>>

\* What follows the reconciliation: a listing ends, a deletion is decided.
Decided(o) == IF operator[o].selected = {} THEN Away ELSE [operator[o] EXCEPT !.pc = "enqueue"]

\* _read_live_state: the request ends when TrueNAS cannot be read.  A station
\* that is gone, has no target name, or whose target, association or extent is
\* missing or ambiguous is left out of the mapping; _persist_current_state
\* returns at once when the mapping is empty.
DatasetsLive(o, raised, mapped) ==
    /\ operator[o].pc = "live"
    /\ raised => deployment.faulty
    /\ mapped \subseteq Scope(o) /\ Scope(o) \ mapped \subseteq deployment.skips
    /\ operator' = [operator EXCEPT ![o] =
            IF raised THEN Away
            ELSE IF mapped = {} THEN Decided(o)
            ELSE [@ EXCEPT !.pc = "load", !.mapped = mapped, !.live = extent]]
    /\ UNCHANGED <<vars, artifact, doomed, tasks, cleaner>>

\* _persist_current_state reads the rows it is going to change ...
DatasetsLoad(o) ==
    /\ operator[o].pc = "load"
    /\ operator' = [operator EXCEPT ![o].pc = "write", ![o].loaded = artifact]
    /\ UNCHANGED <<vars, artifact, doomed, tasks, cleaner>>

\* A row that the live mapping says is in use.  (listing hides deleted rows.)
IsLive(o, k) ==
    LET row == operator[o].rows[k] IN
    /\ row.status # "absent" /\ ~row.deleted
    /\ k[2] \in operator[o].mapped
    /\ operator[o].live[k[2]] = Clone(k[1], k[2])

\* Mutant: a row that is not in use keeps its status.
Reconciled_KeepsStatus(row, live) ==
    IF row.status \in {"absent", "deleted"} THEN row ELSE [row EXCEPT !.current = live]

\* set_current_artifact, for a row as loaded.
Reconciled(row, live) ==
    CASE row.status = "absent"  -> row
      [] row.status = "deleted" -> [row EXCEPT !.current = FALSE]
      [] OTHER ->
            IF live THEN [status |-> "current", current |-> TRUE, deleted |-> FALSE]
            ELSE [row EXCEPT !.current = FALSE,
                             !.status = IF @ = "current" THEN "retired" ELSE @]

\* ... and writes the columns that change, whatever they hold by now; rows of
\* stations that are not in the mapping are left alone.
DatasetsWrite(o) ==
    /\ operator[o].pc = "write"
    /\ artifact' = [k \in Keys |->
            LET old == operator[o].loaded[k]
                new == Reconciled(old, IsLive(o, k))
            IN  IF k[2] \notin operator[o].mapped THEN artifact[k]
                ELSE [f \in {"status", "current", "deleted"} |->
                        IF new[f] = old[f] THEN artifact[k][f] ELSE new[f]]]
    /\ operator' = [operator EXCEPT ![o] = Decided(o)]
    /\ UNCHANGED <<vars, doomed, tasks, cleaner>>

\* The rows as first read, corrected by the live mapping of their station if
\* there is one, say which clones are in use.
InUse(o, k) ==
    IF k[2] \in operator[o].mapped THEN IsLive(o, k) ELSE operator[o].rows[k].current

\* Only rows that are neither in use nor deleted are queued for deletion.
DatasetsEnqueue(o) ==
    LET selected == operator[o].selected IN
    /\ operator[o].pc = "enqueue"
    /\ tasks' = IF \E k \in selected : InUse(o, k) \/ operator[o].rows[k].deleted
                THEN tasks ELSE tasks \cup {selected}
    /\ operator' = [operator EXCEPT ![o] = Away]
    /\ UNCHANGED <<vars, artifact, doomed, cleaner>>

-----------------------------------------------------------------------------

RetentionNext ==
    \/ Progress /\ UNCHANGED retention
    \/ \E w \in Workers : PersistArtifacts(w)
    \/ \E c \in Cleaners :
        \/ \E batch \in SUBSET Keys : CleanupScheduled(c, batch)
        \/ \E selected \in tasks : CleanupSelected(c, selected)
        \/ \E k \in Keys, executed, raised, pending \in BOOLEAN :
                CleanupDelete(c, k, executed, raised, pending)
        \/ CleanupMark(c)
        \/ \E died \in BOOLEAN : CleanupStops(c, died)
    \/ LateDelete
    \/ \E o \in Operators :
        \/ \E selected \in SUBSET Keys : DatasetsRead(o, selected)
        \/ \E raised \in BOOLEAN, mapped \in SUBSET Stations : DatasetsLive(o, raised, mapped)
        \/ DatasetsLoad(o)
        \/ DatasetsWrite(o)
        \/ DatasetsEnqueue(o)

RetentionSpec == RetentionInit /\ [][RetentionNext]_allVars

-----------------------------------------------------------------------------

\* The types of the registry and of the passes and requests over it.  Without
\* periodic passes, and when TrueNAS tells the extent of every station, the
\* column is_current says the same as the status, although requests write
\* columns of rows they read earlier.
RetentionTypeOK ==
    /\ artifact \in [Keys -> ArtifactRow]
    /\ doomed \subseteq Jobs \X Stations
    /\ tasks \subseteq SUBSET Keys
    /\ cleaner \in [Cleaners -> CleanerState]
    /\ operator \in [Operators -> OperatorState]
    /\ ~deployment.scheduled /\ deployment.reader /\ deployment.skips = {} =>
        \A k \in Keys : artifact[k].status \in {"absent", "current", "deleted"}
                             => (artifact[k].current <=> artifact[k].status = "current")

\* Where no request reconciles the registry: a current clone is the one its
\* station exports, unless the station exports a clone that the registry does
\* not know (yet).  _persist_result never prefers the wrong one of two clones.
CurrentIsLive ==
    deployment.operators = {} =>
    \A j \in Jobs : \A s \in Stations :
        artifact[<<j, s>>].current =>
            \/ extent[s] = Clone(j, s)
            \/ \E k \in Jobs : extent[s] = Clone(k, s) /\ artifact[<<k, s>>].status = "absent"

\* The clone that a station exports is no candidate: no cleanup pass has it in
\* its batch.
ExportedIsNoCandidate ==
    \A c \in Cleaners : \A k \in cleaner[c].batch : extent[k[2]] # Clone(k[1], k[2])

\* A row that says its clone was deleted is right.
DeletedIsGone ==
    \A k \in Keys : artifact[k].status = "deleted" => Clone(k[1], k[2]) \notin clones

=============================================================================
