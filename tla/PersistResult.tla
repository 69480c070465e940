---------------------------- MODULE PersistResult ----------------------------
(***************************************************************************)
(* _persist_result (application/publish_executor.py) statement by          *)
(* statement.  PublishControl and DatasetRetention take it as one step;    *)
(* here it is the transaction that PostgreSQL sees under READ COMMITTED:   *)
(* for every target of the job, in the order of list_for_job, a FOR UPDATE *)
(* of the target row, an UPDATE of the station row, the UPDATE that        *)
(* retires the station's current artifacts and the upsert of the new one,  *)
(* then a FOR UPDATE of the job row and COMMIT.                            *)
(*                                                                         *)
(* An execution is one delivery of a task: several may run for one job,    *)
(* and jobs may share stations.  Row locks, the snapshot of a statement    *)
(* and the deadlock detector are the database's (external).  The module is *)
(* about executions among themselves: the other writer of artifact rows,   *)
(* reconcile's set_current_artifact, is in DatasetRetention, where it is   *)
(* one step, and its row locks are not modelled.                           *)
(***************************************************************************)
EXTENDS Naturals, FiniteSets, Sequences

CONSTANTS
    Executions,   \* executions that have a result to persist
    Stations,
    Jobs,
    JobOf,        \* the job of each execution
    Orders,       \* the orders in which the stations of the jobs may be selected
    MaxDeleted,   \* bound: stations deleted meanwhile
    None

ASSUME PersistAssumption ==
    /\ IsFiniteSet(Executions)
    /\ IsFiniteSet(Stations) /\ Stations # {}
    /\ JobOf \in [Executions -> Jobs]
    /\ Orders \subseteq [Jobs -> {q \in [1..Cardinality(Stations) -> Stations] :
                                    \A i, k \in DOMAIN q : q[i] = q[k] => i = k}]
    /\ MaxDeleted \in Nat
    /\ None \notin Executions

VARIABLES
    order,      \* list_for_job: the stations of each job as they were selected
    tx,         \* the transaction of each execution
    holder,     \* who holds the lock of each row
    stationBy,  \* stations.last_update_at: which execution set it
    artifacts,  \* publish_artifacts, one row for a job and a station
    deleted     \* stations.deleted_at is set

tables == <<stationBy, artifacts>>
vars   == <<order, tx, holder, tables, deleted>>

-----------------------------------------------------------------------------

Pairs == Jobs \X Stations

Rows == {<<"job", j>> : j \in Jobs} \cup {<<"station", s>> : s \in Stations}
        \cup {<<kind, p>> : kind \in {"target", "artifact"}, p \in Pairs}

\* verified: cloned, switched and read back.  created: cloned, not verified.
\* failed: nothing was created.
Result == {"verified", "created", "failed"}

\* n: the target it is at.  seen: the rows that the statement in progress found.
\* The last three are what it has written and not committed.
TxState ==
    [pc      : {"target", "select", "station", "retire", "recheck", "save",
                "job", "commit", "done", "aborted"},
     n       : 1..Cardinality(Stations) + 1,
     seen    : SUBSET Pairs,
     results : [Stations -> Result],
     updated : SUBSET Stations,
     retired : SUBSET Pairs,
     saved   : SUBSET Stations]

NewTx == [pc |-> "target", n |-> 1, seen |-> {}, results |-> [s \in Stations |-> "failed"],
          updated |-> {}, retired |-> {}, saved |-> {}]

NoArtifact == [by |-> None, current |-> FALSE]

Init ==
    /\ order \in Orders
    /\ tx = [e \in Executions |-> NewTx]
    /\ holder = [r \in Rows |-> None]
    /\ stationBy = [s \in Stations |-> None]
    /\ artifacts = [p \in Pairs |-> NoArtifact]
    /\ deleted = {}

-----------------------------------------------------------------------------
(* Row locks (external).                                                   *)

Free(e, rows) == \A r \in rows : holder[r] \in {None, e}

Lock(e, rows) ==
    /\ Free(e, rows)
    /\ holder' = [r \in Rows |-> IF r \in rows THEN e ELSE holder[r]]

Release(e) == holder' = [r \in Rows |-> IF holder[r] = e THEN None ELSE holder[r]]

-----------------------------------------------------------------------------
(* The statements of execution e.                                          *)

\* Mutant: the targets are walked in the order of a set, which differs between
\* worker processes.
At_SetOrder(e) ==
    IF e = CHOOSE f \in Executions : JobOf[f] = JobOf[e]
    THEN order[JobOf[e]][tx[e].n]
    ELSE order[JobOf[e]][Cardinality(Stations) + 1 - tx[e].n]

\* The station that e is at: targets are walked in the order of list_for_job.
At(e) == order[JobOf[e]][tx[e].n]

\* Its target row and its artifact row.
PairOf(e) == <<JobOf[e], At(e)>>

Step(e, from, to) ==
    /\ tx[e].pc = from
    /\ tx' = [tx EXCEPT ![e] = to]

\* The next target, or the job.
Advanced(t) ==
    [t EXCEPT !.n = @ + 1, !.pc = IF t.n = Cardinality(Stations) THEN "job" ELSE "target"]

\* publish_targets.update.  What the workflow found is chosen here.
LockTarget(e) ==
    /\ \E r \in Result :
        LET t == [tx[e] EXCEPT !.results[At(e)] = r]
        IN  Step(e, "target",
                 CASE r = "verified" -> [t EXCEPT !.pc = "select"]
                   [] r = "created"  -> [t EXCEPT !.pc = "retire"]
                   [] r = "failed"   -> Advanced(t))
    /\ Lock(e, {<<"target", PairOf(e)>>})
    /\ UNCHANGED <<order, tables, deleted>>

\* update_last_update reads the station.
SelectStation(e) ==
    /\ Step(e, "select", [tx[e] EXCEPT !.pc = "station"])
    /\ At(e) \notin deleted
    /\ UNCHANGED <<order, holder, tables, deleted>>

\* Mutant: the station's row is written only after the artifacts.
LockStation_Late(e) ==
    /\ Step(e, "station", [tx[e] EXCEPT !.pc = "retire", !.updated = @ \cup {At(e)}])
    /\ UNCHANGED <<order, holder, tables, deleted>>

\* Its new last_update_at is flushed before the next statement.
LockStation(e) ==
    /\ Step(e, "station", [tx[e] EXCEPT !.pc = "retire", !.updated = @ \cup {At(e)}])
    /\ Lock(e, {<<"station", At(e)>>})
    /\ UNCHANGED <<order, tables, deleted>>

\* retire_station_artifacts: the statement finds what was committed when it
\* began.
RetireArtifacts(e) ==
    /\ Step(e, "retire", [tx[e] EXCEPT !.pc = "recheck",
               !.seen = {<<j, At(e)>> : j \in {i \in Jobs : artifacts[<<i, At(e)>>].current}}])
    /\ UNCHANGED <<order, holder, tables, deleted>>

\* It waits for the rows it found and updates those that are still current.
RecheckArtifacts(e) ==
    /\ Step(e, "recheck", [tx[e] EXCEPT !.pc = "save", !.seen = {},
               !.retired = @ \cup {p \in tx[e].seen : artifacts[p].current}])
    /\ Lock(e, {<<"artifact", p>> : p \in tx[e].seen})
    /\ UNCHANGED <<order, tables, deleted>>

\* publish_artifacts.save: the row of an earlier execution is overwritten.  Its
\* SELECT takes no lock and the flush comes later, but no execution writes the
\* row in between: those of the same job wait for the target's row, and those of
\* other jobs retire only current rows, which this one is no more after "recheck".
SaveArtifact(e) ==
    /\ Step(e, "save", [Advanced(tx[e]) EXCEPT !.saved = @ \cup {At(e)}])
    /\ Lock(e, IF artifacts[PairOf(e)] = NoArtifact THEN {} ELSE {<<"artifact", PairOf(e)>>})
    /\ UNCHANGED <<order, tables, deleted>>

\* publish_jobs.update.
LockJob(e) ==
    /\ Step(e, "job", [tx[e] EXCEPT !.pc = "commit"])
    /\ Lock(e, {<<"job", JobOf[e]>>})
    /\ UNCHANGED <<order, tables, deleted>>

Commit(e) ==
    LET t == tx[e] IN
    /\ Step(e, "commit", [t EXCEPT !.pc = "done"])
    /\ Release(e)
    /\ stationBy' = [s \in Stations |-> IF s \in t.updated THEN e ELSE stationBy[s]]
    /\ artifacts' = [p \in Pairs |->
            IF p[1] = JobOf[e] /\ p[2] \in t.saved
            THEN [by |-> e, current |-> t.results[p[2]] = "verified"]
            ELSE IF p \in t.retired THEN [artifacts[p] EXCEPT !.current = FALSE]
            ELSE artifacts[p]]
    /\ UNCHANGED <<order, deleted>>

-----------------------------------------------------------------------------
(* How a transaction fails.                                                *)

\* Mutant: the session of a transaction that failed is neither rolled back nor
\* closed.
RollBack_Leaked(e) ==
    /\ tx' = [tx EXCEPT ![e].pc = "aborted"]
    /\ UNCHANGED <<order, holder, tables, deleted>>

\* An exception leaves the unit of work: nothing is written, all locks are
\* released.  The task is not repeated.
RollBack(e) ==
    /\ tx' = [tx EXCEPT ![e].pc = "aborted"]
    /\ Release(e)
    /\ UNCHANGED <<order, tables, deleted>>

\* update_last_update: ValueError, the station was deleted.
StationMissing(e) ==
    /\ tx[e].pc = "select"
    /\ At(e) \in deleted
    /\ RollBack(e)

\* The rows that the next statement of e needs.
Wanted(e) ==
    CASE tx[e].pc = "target"  -> {<<"target", PairOf(e)>>}
      [] tx[e].pc = "station" -> {<<"station", At(e)>>}
      [] tx[e].pc = "recheck" -> {<<"artifact", p>> : p \in tx[e].seen}
      [] tx[e].pc = "save"    -> {<<"artifact", PairOf(e)>>}
      [] tx[e].pc = "job"     -> {<<"job", JobOf[e]>>}
      [] OTHER                -> {}

WaitsFor(e) == {holder[r] : r \in Wanted(e)} \ {None, e}

\* PostgreSQL finds transactions that wait for one another and ends one.
Victim(e) ==
    /\ WaitsFor(e) # {}
    /\ \E d \in SUBSET Executions :
        /\ e \in d
        /\ \A f \in d : WaitsFor(f) \cap d # {}
    /\ RollBack(e)

\* The operator deletes a station.
DeleteStation(s) ==
    /\ s \notin deleted /\ Cardinality(deleted) < MaxDeleted
    /\ holder[<<"station", s>>] = None
    /\ deleted' = deleted \cup {s}
    /\ UNCHANGED <<order, tx, holder, tables>>

-----------------------------------------------------------------------------

Persist(e) ==
    \/ LockTarget(e) \/ SelectStation(e) \/ LockStation(e)
    \/ RetireArtifacts(e) \/ RecheckArtifacts(e) \/ SaveArtifact(e)
    \/ LockJob(e) \/ Commit(e) \/ StationMissing(e)

Next ==
    \/ \E e \in Executions : Persist(e) \/ Victim(e)
    \/ \E s \in Stations : DeleteStation(s)

\* While some execution can go on, or a deadlock can be ended, one of these
\* happens: the workers run and the detector is on.
Spec ==
    /\ Init /\ [][Next]_vars
    /\ WF_vars(\E e \in Executions : Persist(e) \/ Victim(e))

-----------------------------------------------------------------------------
(* Correctness.                                                            *)

\* Every variable has its type.
TypeOK ==
    /\ tx \in [Executions -> TxState]
    /\ holder \in [Rows -> Executions \cup {None}]
    /\ stationBy \in [Stations -> Executions \cup {None}]
    /\ artifacts \in [Pairs -> [by : Executions \cup {None}, current : BOOLEAN]]
    /\ deleted \subseteq Stations

\* However the statements of executions interleave, a current artifact of a
\* station is the one of the execution that last updated the station (which
\* saved one artifact there: at most one is current).  Nothing but the lock on
\* the station's row protects this: the retiring UPDATE cannot see a row
\* inserted after it began.
CurrentIsLastUpdate ==
    \A p \in Pairs : artifacts[p].current => stationBy[p[2]] = artifacts[p].by

\* Job j comes to station s before it comes to t.
Before(j, s, t) == \E i, k \in DOMAIN order[j] : order[j][i] = s /\ order[j][k] = t /\ i < k

\* A result is lost only if a station of the job was deleted meanwhile, or if
\* another job lists two stations the other way round; two executions of one
\* job, or jobs that list their stations alike, never deadlock with each other.
LostForAReason ==
    \A e \in Executions : tx[e].pc = "aborted" =>
        \/ \E s \in deleted : tx[e].results[s] = "verified"
        \/ \E f \in Executions, s, t \in Stations :
              Before(JobOf[e], s, t) /\ Before(JobOf[f], t, s)

\* Every execution ends, with its result committed or lost.
EveryPersistEnds ==
    <>(\A e \in Executions : tx[e].pc \in {"done", "aborted"})

=============================================================================
