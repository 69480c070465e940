# TrueNAS Controller: TLA+ models, model checking and proofs

The controller publishes a new image of a game disk to PCs ("stations") that
boot it over iSCSI. An operator creates a *publish job*, has it checked
(preflight), confirms it and dispatches it; a worker takes a ZFS snapshot of the
source dataset, clones it once per station and points the station's existing
iSCSI extent at the clone. What makes it hard is that three stores change
together without a common transaction - PostgreSQL, the Dramatiq/Redis queue and
TrueNAS - and that every step can be repeated, overlap with another one or be
cut off. Around that core are the agents on the PCs, whose snapshots decide
whether a station may be overwritten, and the installer that puts them there.
This directory models these parts, checks them with TLC and proves the central
properties with TLAPS.

Source paths are relative to the repository root.

## 1. Inventory

| Part | Source | State | Operations | Interacts with |
|---|---|---|---|---|
| Publish job lifecycle | `domain/publish.py`, `application/publish_commands.py`, `publish_confirmation.py`, `publish_dispatch.py`, `repository/publish_jobs.py`, `publish_targets.py` | `publish_jobs`, `publish_targets` rows | create, prepare (with or without an answer), dispatch | frontend (HTTP), outbox, executor |
| Outbox relay | `worker/outbox_relay.py`, `repository/outbox.py` | `outbox_events` rows with lease and attempts | claim, send, mark dispatched, mark failed | dispatch, Redis |
| Publish executor | `application/publish_executor.py`, `worker/tasks.py`, `worker/composition.py` | the execution in memory | load, run the workflow, persist | queue, TrueNAS, rows |
| TrueNAS workflow | `application/truenas_publish.py`, `truenas_adapter/write.py` | TrueNAS: snapshots, datasets, extents | plan, snapshot, clone, update extent, read back | executor, transport |
| JSON-RPC transport | `truenas_adapter/transport.py`, `runtime.py`, `read_only.py`, `write.py` | connection, request ids | login and request with timeout, reconnect, retry, close | workflow, cleanup |
| Dataset registry | `application/datasets.py`, `dataset_cleanup.py`, `repository/publish_artifacts.py` | `publish_artifacts` rows | record, retire, list and reconcile, select, delete, mark | executor, TrueNAS |
| Preflight | `domain/preflight.py`, `application/preflight.py`, `process_rules.py`, `repository/snapshots.py`, `agent/snapshot.py` | `process_snapshots`, `process_rules` | stamp, collect, receive, create and delete rules, read and judge | agents, prepare |
| Stations, enrollment, provisioning | `application/lifecycle.py`, `repository/stations.py`, `agents.py`, `*_tokens.py` | stations, agents, one-shot tokens | create, delete, restore, enroll, bootstrap, heartbeat | agents, operators |
| Agent commands | `application/agent_commands.py`, `repository/agent_commands.py` | `agent_commands` rows with lease | issue, claim on heartbeat, acknowledge | agent |
| Python agent | `agent/` | handled commands, backoff | heartbeat loop, handle, acknowledge | server |
| Agent installation | `scripts/install_windows_agent.py`, `agent/entrypoint.py`, `credentials.py`, `windows_*.py` | credential file, Windows service | check store, enroll, migrate, save, register, start | controller, Windows |
| Fake workflow, HTTP layer, frontend, migrations, Windows agent | `application/publish.py`, `presentation/`, `frontend/`, ... | none that the parts above do not hold | | |

Hard behaviours, and what makes each part correct:

* **Lifecycle.** `update` overwrites all columns of a row that was read without a
  lock under READ COMMITTED, so overlapping requests lose updates. Correct: an
  outbox event exists exactly for dispatched jobs; job row and target rows agree;
  the status moves along `ALLOWED_TRANSITIONS` where no update is lost.
* **Relay.** Sending is outside the transaction, completion does not check the
  lease, the broker may take a message and still raise. Correct: no event is
  lost, attempts are bounded, every event is resolved for good; two relays work
  on one event, or revise its outcome, only after a lease was outlived.
* **Execution.** At-least-once delivery, crashes between two calls, calls whose
  outcome is unknown or that land late. Correct: a verified verdict is true, an
  error verdict means nothing was touched, stations do not share a clone (they
  do, section 3), a repeated execution succeeds.
* **Registry and cleanup.** The registry, the live mapping and the candidates of
  a pass are read at different moments. Correct: current means exported, the
  exported dataset is no candidate for deletion (it can be, section 3), deleted
  means gone.
* **Agent commands.** Answers that carry commands get lost, leases end while an
  acknowledgement is on its way, and the refresh is itself a heartbeat that may
  claim and drop further commands. Correct: acknowledged means refreshed since
  the issue, no refresh after the acknowledgement, one loss does not let a
  command expire.
* **Stations and tokens.** Requests read rows without a lock and write the
  columns they changed; only the two `consume` methods lock. Correct: a token
  buys one credential and no more, a token works only for the registration it was
  issued for, and a binding outlives its registration only after an overlap.
* **Transport.** A connection may be lost between login and method, a request
  that timed out may still be executed, and an answer that comes late stays on a
  connection that later calls use. Correct: no method without a login, a result
  belongs to its call, a call is executed at most once per attempt, every call
  ends.
* **Preflight.** The latest snapshot is the one received last, its age compares
  two machines' clocks, and station, snapshot and rules are read at different
  moments; the collector may pass over programs. Correct: what was collected and
  has been blocking for longer than the freshness window is seen, a ready drive was ready in that window, a good snapshot is not
  reported as stale.
* **Persisting a result.** One transaction writes the rows of all targets under
  row locks taken in the job's order. Correct: the registry follows the stations,
  a result is lost only for a known reason, every execution ends.
* **Installation.** A one-shot token is used between two local steps that may
  fail, and the installer is run again over what an earlier run left. Correct:
  the credential file is whole, a token is not wasted on a broken store, no
  credential is lost, success fits what is on the disk, and an agent that does
  not work after repeated installations fails in a known way.

## 2. Modules

| Module | What it models |
|---|---|
| `PublishLifecycle` | Abstract specification: `domain/publish.py`'s transition table; a transaction may take several transitions, a terminal status is final. |
| `PublishControl` | The commands and the worker's transactions on job, target and outbox rows. Every unlocked read and the write that follows it are separate steps. A command is executed once, at any time (`Commands`). Delivery is abstracted to "a committed event may be delivered any number of times", the workflow to the verdicts it can return. Refines `PublishLifecycle` but for lost updates (`FollowsLifecycle`, `Overtaken`). |
| `OutboxRelay` | Several relays over `outbox_events`. Time is relative: rows hold the time left until `available_at` and `lease_expires_at`, a relay the age of its `relay_time`. A batch may take longer than the lease. `overdue` is history. |
| `TrueNASPublish` | Executions against TrueNAS, one step per call. `executed` and `raised` are independent: a call may take effect and still raise; `pending` leaves a request to be executed later (`LateSnapshot`, `LateClone`, `LateUpdate`), which covers the transport's repeated requests. `Crashes` puts the message back, `Raises` loses it (`max_retries=0`). `deployment` is a record picked by `Init` - jobs, threads, what may fail, be late or die - so that one run covers several deployments. |
| `DatasetRetention` | Extends `TrueNASPublish` with `publish_artifacts`, scheduled and selected cleanup passes and the operator's listing and deletion requests. The live mapping of a request may leave stations out, and there may be no client to read it with (`deployment.skips`, `deployment.reader`). A deletion may be executed late (`LateDelete`); a pass whose process dies gets its message again, one that raises does not (`CleanupStops`). `PersistArtifacts` is `Persist` with the artifact part of the same transaction. |
| `AgentCommands` | `agent_commands` rows with lease and expiry, one agent process with its heartbeat loop, `send_with_retry`, the handler's nested heartbeat (`process_commands=False`) and the acknowledgement. A request the agent gave up may still be carried out (`ServeLate`). A command that is expired by the agent's clock or that it cannot verify (`Invalid`) ends the loop. Snapshots are numbered by how many commands had been issued when they were taken. |
| `StationLifecycle` | `stations`, the two token tables and `agents` under overlapping transactions. A request is a read step and a commit step; between them `consume` holds its row locks. A credential is named by the token it was bought with. `epoch` counts deletions of a station; it and `minted`, `overlapped` are history, used by properties only. A heartbeat is a look at the binding without a lock and `record_heartbeat` with one. |
| `RemoteCall` | Abstract specification of a call to TrueNAS: one that returns was executed; one that raises may have been executed any number of times up to a bound, also later. |
| `JsonRpcTransport` | A client from the adapter's check of a result through `ApiKeyJsonRpcTransport` (login before every request, retries) down to `JsonRpcWebSocketTransport` (numbers, matching, reset). TrueNAS and the network are external and free: late executions, answers in any order, garbage, errors, a revoked key. Refines `RemoteCall` (`ImplementsRemoteCall`), the contract on which `TrueNASPublish` rests: `executed`, `raised` and `pending` there are its outcomes. |
| `Preflight` | One station from the PC to the report. The controller's clock ticks, the PC's is off by `offset` until it is corrected. What was sent stays in `net`, so it may be received late, twice and out of order. The use case is three read steps and a step that takes the time and judges. `at`, `ahead`, `readyAt`, `started`, `steady`, `known`, `skipped` are history or the world outside, used by properties only. |
| `PersistResult` | The transaction of `_persist_result`, one step per statement, with PostgreSQL's row locks, statement snapshots (`RetireArtifacts` finds rows, `RecheckArtifacts` waits for them and looks again) and deadlock detection. `PublishControl` and `DatasetRetention` have it as one step. |
| `AgentInstall` | The installer step by step, a save as write, secure and replace, the service under the service manager, which may fail to bring it up any number of times, crashes, and an operator who follows `docs/AGENT_INSTALL.md`. Credentials are numbered as the controller issues them. `proved` and `outlived` are history. |
| `*Proofs` | Theorems about the module of that name. `TrueNASProofs` is about `TrueNASPublish`, `StationPCProofs` about `Preflight` and `AgentInstall`. |
| `MC*` | Definitions for TLC: constants that are functions, symmetry. `MCPublishControl` also checks that `Rank` orders the statuses as the transition table does. |

Correspondence in detail is in the `map` of `PROJECT.json`, definition by
definition. Abstractions worth knowing:

* `pass` stands for preflight `pass` and `warning` (dispatch treats them alike),
  `block` for `block` and `unknown`. In `PublishControl` a target's `failed`
  stands for `error` and `recovery_required`, which `TrueNASPublish` separates.
* A clone is the pair of its job and the slug of its station, because
  `_build_station_plan` names it `<source>-<slug>-<job>`. `Slug` is a parameter:
  distinct for distinct stations in most runs, the same in `TrueNASPublish_slugs`.
* TrueNAS refuses a second snapshot or clone of the same name and an extent
  update to a dataset that does not exist. It is not assumed to refuse the
  deletion of an exported dataset: nothing in the code relies on that.
* The order of stations is that of `list_for_job`; the order in which a cleanup
  pass deletes its candidates is left open.
* In `JsonRpcTransport` the two login answers and the results a method may give
  are told apart as `granted`, `denied`, `value` and `odd`, but the client treats
  them as the code does: `True` passes for a login and for a clone alike, so only
  the numbers keep them apart.
* In `Preflight` a drive is `ready`, `unknown` or `bad` as `_drive_check`
  distinguishes them, and a program is its name with the casefolding given as a
  constant. The collector may pass over any running programs (`skipped`), which
  covers processes it may not read, processes without a name and an iteration
  that is refused.
* `PersistResult!SaveArtifact` is one step although the code selects the row and
  writes it at the flush. Nothing can come between that the transaction would
  see: another execution of the job waits for the target row, and those of other
  jobs write only rows that are current.
* In `AgentInstall` the copy, `uv sync` and the machine environment are one step;
  their failing is `KillInstaller`.
* Definitions named `X_Something` with a comment "Mutant" are the altered forms
  of `X` that the properties are tested against. They are used by no
  specification.

## 3. Runs

| Run | Bounds | What it shows |
|---|---|---|
| `PublishControl_overlap` | 1 job, 2 stations, 3 commands, 2 executions, all overlapping | `TransactionalOutbox`, `VerdictMatchesTargets`, and `FollowsLifecycle`: the lifecycle is left only by lost updates. |
| `OutboxRelay_slow` | 2 events, 2 relays, batch 2, 2 attempts, lease 2, batch time 3, 1 stop | `NoSilentLoss`, `EventuallyResolved` for relays that outlive their lease; `LeaseExclusive`, `OutcomeIsFinal` for events whose lease was never outlived. |
| `TrueNASPublish_deployments` | `TwoThreads`: 1 job of 2 stations, 2 workers, failing calls, late updates, 1 crash. `LateCreations`: 1 station, every call may be late. `OneThread`: 2 jobs, calls answer, 2 crashes | `VerifiedIsMapped` in all of them, `JobSucceeds` in the last: repeated executions find the snapshot and clones of earlier ones. |
| `TrueNASPublish_slugs` | `OneThread`, both stations have the same slug | Violation of `NoSharedDevice` (below). |
| `DatasetRetention_deployments` | 2 jobs, 1 station, 1 worker, failing calls. `Periodic`: 2 scheduled passes, 1 crash. `LateDeletes`: 1 pass, late deletions. `Manual`: 1 operator, 1 pass, no schedule. `Skipping`, `NoReader`: 1 job, a mapping that may be incomplete, or no client | `VerdictIsHonest`, `DeletedIsGone` in all of them, `CurrentIsLive` where no request reconciles, `RetentionTypeOK`'s tie of `is_current` and status in `Manual`. |
| `DatasetRetention_exported` | `Periodic` with one pass and no crash | Violation of `ExportedIsNoCandidate` (below). |
| `AgentCommands_lossy` | 2 commands, 1 loss, 1 restart, 2 attempts; one tick is 10 s, life 20, lease 3, interval and timeout 1, agent clock 1 ahead | `AckedIsRefreshed`, `NoDuplicateAfterAck`, `DeliveredInTime`. The life of a command is 20 ticks where `COMMAND_TTL` is 30, so in time here is in time there. |
| `StationLifecycle_requests` | 1 station, 2 enrollment tokens, 1 provisioning token, 2 open requests | `TokenBuysOneCredential`, `SurvivorsOverlapped`, `EnrolledAsIssued`. |
| `JsonRpcTransport_faults` | 2 calls, 1 retry, 1 garbage message | `NeverUnauthenticated`, `ResultIsOwn`, the liveness `EveryCallEnds` and the refinement `ImplementsRemoteCall`, which bounds the executions of a call by its attempts. Two calls are needed for an answer that outlives its call, one retry for a new connection and a late first copy. |
| `Preflight_reordered` | 2 snapshots, 2 receipts, 3 ticks, freshness 1, skew 2, PC clock 1 behind, right, 1 or 2 ahead, 3 rules, 1 change of the PC, the station or the rules | `BlockerIsSeen`, `DriveWasReady`, `NoFalseAlarm`. Two snapshots give every overtaking, the clock runs past the freshness window also for a clock that is one ahead (the horizon is then 1), and the allowed skew exceeds the window, as in the code (5 minutes against a default of 30 seconds). |
| `PersistResult_locks` | 3 executions, two of one job; 2 stations, in the same or in opposite orders; 1 deleted station | `CurrentIsLastUpdate`, `LostForAReason`, `EveryPersistEnds`. The smallest instance with a duplicate delivery and another job on the same stations. |
| `AgentInstall_faults` | 4 faults, 7 credentials | `FileIsWhole`, `TokenNotWasted`, `CredentialSurvives`, `SuccessFitsFile`, `Recovers`. Each fault costs at most one credential, so recovery never fails for want of one. |

Every detailed module has a type invariant, `TypeOK` (`InstallTypeOK`). The runs do not spend a check on it
where it is a theorem (section 4). `RetentionTypeOK` is checked, because
it also ties an artifact's `is_current` to its status.

### What the violations show

* `TrueNASPublish_slugs`. `plans/03-state-machine/01-state-machine.md:80` gives a
  clone the key `(job_id, station_id)`, and `NoSharedDevice` says what that is for:
  two stations never export the same device. The code names the clone after
  `_safe_slug(display_name)` (`application/truenas_publish.py:280`), which maps
  different names to one slug. The second station finds the dataset, takes it
  for its clone, and both export one writable zvol. No fault is needed.
* `DatasetRetention_exported`. `plans/37-operator-follow-up/03-dataset-retention.md:12`
  says that a station's current dataset is no candidate for deletion, and
  `application/dataset_cleanup.py:25` that the current artifact of a station is
  never deleted. When an extent update raises and the read-back fails, too, the
  target ends in `recovery_required`; `_persist_result` retires the predecessor
  and records the new clone as retired (`application/publish_executor.py:162`).
  The station exports one of them, and the periodic pass looks at `is_current`
  and the status only. Whether TrueNAS would refuse the deletion is outside the
  model; the property is therefore about the candidate, not about its deletion.

### Limits of the code that the passing runs and the theorems spell out

A property that the code keeps only up to a point says up to which point. What
lies beyond it does happen, and TLC finds it when the exception is taken out:

* `FollowsLifecycle` excepts lost updates (`Overtaken`). A prepare that read the job
  before a dispatch writes `awaiting_confirmation` over `publishing`
  (`repository/publish_jobs.py:61` compares no status), after which the job can be
  dispatched a second time, and two dispatches that overlap write two events. A
  late prepare also replaces the reports on which dispatch checked the gate, so
  invariant 1 of `plans/03-state-machine/01-state-machine.md` (a target is switched
  only after its current preflight) is not ensured.
* `LeaseExclusive` and `OutcomeIsFinal` except `overdue` events: `run_once` never
  looks at the lease again, and the mark of a late relay clears its successor's
  lease, so that a third claim is possible at once.
* `SurvivorsOverlapped` is about the bindings that a deletion leaves behind. An
  enrollment or bootstrap that overlaps the deletion - it commits between the
  `DELETE` of the agent row and the deletion's commit, or, for a bootstrap, it
  read the station before the deletion and commits after it - leaves an agent row
  that a later restore makes valid again. The docstring at
  `application/lifecycle.py:168` ("invalidate its agent") makes no such exception.
  `EnrolledAsIssued` shows that enrollment tokens do not need one.
* `VerifiedIsMapped` holds until another job has a clone for the station; which of
  two jobs a station ends up with is decided by the order of their updates.
* `VerdictIsHonest`, `CurrentIsLive` and `DeletedIsGone` are checked with one worker
  thread and no late creations or updates, where `DRAMATIQ_WORKER_THREADS` is 2
  by default. With two threads publishing to the same station, or an update that
  lands after the read-back, the first two fail; a clone that is created late,
  after the deletion of its row, breaks the third.
* `RetentionTypeOK` ties `is_current` to the status only without a schedule and with
  a complete mapping; a pass that marks a row while a request rewrites it leaves
  the two columns of different origin.
* `CurrentIsLive` supposes that no request reconciles: a request writes what it read
  from TrueNAS some time ago.
* `JobSucceeds` is for a TrueNAS that answers. If the snapshot query or the mapping
  resolution raises, the actor ends, which is declared with `max_retries=0`
  (`worker/tasks.py:68`), and the job stays `publishing`.
* `DeliveredInTime` supposes that the agent verifies the commands. One that it does
  not, or one that is expired by its own clock, ends `run_forever`: only
  `HeartbeatTransportError` is suppressed (`agent/heartbeat.py:103`), although the
  docstring at line 100 says "failed cycles become the next retry opportunity". In
  the run the clock is one tick ahead, and no command expires; with two ticks a
  command that is delivered again after a loss may be expired for the agent,
  while heartbeats are accepted from clocks that are off by
  `HEARTBEAT_CLOCK_SKEW` (`application/lifecycle.py:22`), the whole life of a
  command.
* `BlockerIsSeen` and `DriveWasReady` count from a horizon that lies further back by
  as much as the PC's clock was ever ahead. `BlockerIsSeen` excepts programs that
  the collector passed over in the judged snapshot: the process check then passes
  (`agent/process_monitor.py:40-48` fails open, as
  `tests/agent/test_process_monitor.py:43` wants it). `NoFalseAlarm` supposes that
  nothing older was received after the good snapshot: a repeated older heartbeat
  does take its place (`repository/snapshots.py:24` orders by receipt).
* `LostForAReason` admits two jobs that list two stations in opposite orders: they
  do deadlock, and the victim's whole result is lost because the task is not
  repeated. Deleting a station while it is being published loses the result of
  the other stations too. Transactions of `_persist_current_state` lock artifact
  rows as well; they are not in `PersistResult`, and a deadlock of one of them with
  an execution is possible.
* `SuccessFitsFile` is about the file and the credential. The installer asks the
  service manager for the state, which is running before `SvcDoRun` has loaded
  anything: with a store that breaks in between, success is reported for a service
  that stops at once. A service that is up again when the operator removes the
  credential file keeps its old credential (`outlived`), and error 1056 counts as
  started. A service that is running is not restarted either, so it goes on with
  the environment and code it was started with.
* `Recovers` names what repeated installation does not cure. A credential file that
  the station is not bound to is kept and saved again (`Stale`):
  `scripts/install_windows_agent.py:178` enrolls only if there is no file, while
  `docs/AGENT_INSTALL.md:396` describes the repetition after a deleted station by a
  new token only, and `agent.entrypoint remove` removes the service, not the file.
  And the service may never come up: the service manager starts
  `scripts/windows_agent_service.py` without an argument (line 17), which ends in
  `HandleCommandLine` without an argument (`agent/windows_service.py:120`); whether
  pywin32 then enters the dispatcher is outside the repository, so `SvcRun` and
  `SvcFails` are both possible, any number of times.
* In `StationLifecycle` a commit can fail on the `CHECK`
  `enabled_state_consistent` although each request alone keeps it (guard
  `Consistent`): a restore and an update that overlap write one column each.

Why these bounds: every property is about one job, one station, one event or a
pair of them, and every race needs two actors; three commands give a prepare
that overtakes one dispatch and lets another one in. `MaxEvents`, `crashes` of a
deployment and `MaxStops` bound counters that would otherwise grow for ever; one crash placed
anywhere reaches every partial state, and the next attempt starts from what
TrueNAS and the rows hold. In `DatasetRetention` two jobs suffice for a
predecessor and a successor of a station's clone.

In `StationLifecycle` two open requests give every pair of overlapping use
cases, and two enrollment tokens a registration and its successor.

`CHECK_DEADLOCK FALSE` appears for `OutboxRelay`, where with all events resolved a
relay has nothing left to claim, for `StationLifecycle`, where all tokens of the
instance may have expired with nobody left to ask, for `JsonRpcTransport` and
`PersistResult`, where all calls and executions of the instance may have ended,
for `PublishControl`, whose commands are finitely many, and for `Preflight`, which
ends with the report.

**Fairness.** `OutboxRelay!FairSpec` has weak fairness on each relay's own steps
and on the clock: the worker polls in an endless loop (`worker/runtime.py`) and
the send is a call that returns or raises. `TrueNASPublish!FairSpec` has weak
fairness on the steps of an execution (a running coroutine continues; every
call has a timeout) and strong fairness on taking a queued message (Dramatiq
threads poll the queue and a thread is free again and again). No fairness is
assumed of redelivery, of crashes or of failing calls.
`JsonRpcTransport!Spec` has weak fairness on the client's step and none on
TrueNAS or the network: `asyncio.wait_for` ends every wait, and the backoff is a
sleep. `PersistResult!Spec` has weak fairness on "some execution takes its next
statement or a deadlock is ended": the workers run and PostgreSQL's detector is
on. `AgentInstall!InstallSpec` has weak fairness on the installer and the service, which
are running programs, and describes an operator who does what
`docs/AGENT_INSTALL.md` says until the agent works: the installer is run, a broken
store is repaired, and a new token is made ("HTTP 409 ... получить новый", line 412;
strong fairness, since the chance comes and goes with every run of the installer).
No fairness is put on stopping the service or removing the credential file, which
no document gives as a step of recovery, nor on `SvcRun` against `SvcFails`.

## 4. Proofs

All for every value of the constants that satisfies the named assumptions.

| Module | Theorem | States |
|---|---|---|
| `PublishControlProofs` | `TypeCorrect`, `OutboxIsTransactional`, `VerdictsAgree` | `TypeOK`, `TransactionalOutbox`, `VerdictMatchesTargets` |
| | `LifecycleImplemented` | `FollowsLifecycle`: `PublishLifecycle` but for lost updates |
| `OutboxRelayProofs` | `TypeCorrect`, `NothingIsLost` | `TypeOK`, `NoSilentLoss` |
| | `LeaseIsExclusive`, `OutcomesAreFinal` | `LeaseExclusive`, `OutcomeIsFinal` |
| `TrueNASProofs` | `TypeCorrect`, `VerdictIsTrue` | `TypeOK`, `VerifiedIsMapped` |
| `AgentCommandsProofs` | `TypeCorrect`, `AcknowledgedMeansRefreshed`, `NeverRepeated`, `AcknowledgementIsFinal` | `TypeOK`, `AckedIsRefreshed`, `NoDuplicateAfterAck`, `AckedIsFinal` |
| `StationLifecycleProofs` | `TypeCorrect`, `OneCredentialPerToken` | `TypeOK`, `TokenBuysOneCredential` |
| | `SurvivorsWereOverlapping`, `EnrollmentsAreAsIssued` | `SurvivorsOverlapped`, `EnrolledAsIssued` |
| `JsonRpcTransportProofs` | `TypeCorrect`, `AlwaysAuthenticated`, `ResultsAreOwn` | `TypeOK`, `NeverUnauthenticated`, `ResultIsOwn` |
| | `TransportImplementsContract` | the refinement `ImplementsRemoteCall` |
| `PersistResultProofs` | `TypeCorrect`, `RegistryFollowsStations`, `ResultsLostForAReason` | `TypeOK`, `CurrentIsLastUpdate`, `LostForAReason` |
| `StationPCProofs` | `PreflightTypeCorrect`, `ForbiddenProgramsBlock`, `DriveOfReportWasReady`, `FreshIsFoundFresh` | `Preflight`'s `TypeOK`, `BlockerIsSeen`, `DriveWasReady`, `NoFalseAlarm` |
| | `InstallTypeCorrect`, `CredentialFileIsWhole`, `TokenIsNotWasted`, `CredentialIsNotLost`, `ReportedSuccessFits` | `AgentInstall`'s `InstallTypeOK`, `FileIsWhole`, `TokenNotWasted`, `CredentialSurvives`, `SuccessFitsFile` |

No theorem has a hypothesis beyond the assumptions that the modules state about
their constants (sets, numbers, no name that stands for two things). In
particular there is none on how many requests, executions or relays run at the
same time, how long they take, or which calls are late.

Arguments.

* `PublishControl`. A stale row in the hands of a command or an execution is as
  dangerous as the row in the database, so the invariant speaks of both
  (`InFlight`): a prepare that has read the job again holds a row that accepts
  preflight, a validated dispatch one that awaits confirmation, an execution
  belongs to a job with an outbox event and holds verdicts that fit the targets.
  For the lifecycle, a commit whose row has not changed since it was read moves
  the status forward (`Forward`), and every other commit is `Overtaken`.
* `OutboxRelay`. `NoSilentLoss` needs that a relay about to mark an event
  dispatched has sent it. `LeaseExclusive` is not inductive alone: it needs the
  relation between the age of a relay's batch and the lease left on its rows,
  `lease + age >= LeaseFor`, for events that are not overdue (`Holding`); such an
  event is pending and its lease runs, so nobody else can claim it or has a mark
  to set.
* `TrueNASPublish`. Every step is shown to be of a form given by `NasStep` (clones
  are only added, and an extent only ever receives a clone that was made for its
  station and exists) and `RunStep` (a new verified verdict is about the device the
  station exports). The invariant adds that an update still to come is one to a
  clone made for the station (`LateKnown`): a late write of the same job writes
  the same clone, which is why it does no harm. That the least station of a set
  exists comes from the well-foundedness of `<` on the naturals.
* `AgentCommands`. Where the evidence of a refresh is depends on where the agent
  is: in the nested heartbeat, then in the controller's table, then in
  `_handled_commands` or an acknowledgement on some wire. `Evidence` says so for
  each place, late requests included. `NeverRepeated` adds that a command that
  is acknowledged, or may be by a request still under way, is in
  `_handled_commands` unless the process was restarted.
* `StationLifecycle`. `Held` is the strengthening: requests past `consume` hold
  different tokens, and their tokens are unused. It is what the `FOR UPDATE`
  gives, and with it the commit of a binding counts from zero to one. For
  deletions the invariant is `Current`: a token that is not revoked is of the
  present registration (`TokenCurrent`); an enrollment past `consume` has such a
  token, because it holds the station's row (`EnrollHolds`); nobody else issues the
  token of a creation (`CreateOwns`); the binding a deletion is about to remove is
  the only one, or a later one that is in `overlapped` (`DeleteKnows`); a row that
  was read live is still live unless its epoch has moved on (`SeenIsPast`); and a
  binding is of the present registration unless it is in `overlapped`
  (`BoundIsCurrent`).
* `JsonRpcTransport`. Numbers are used once and grow, so a message under way that
  carries the awaited number was sent for the awaited request; with that an
  answer that matches is of the right call and kind. For the login: a client
  that is about to send a method, or has one under way, is on a connection that
  TrueNAS holds to be authenticated, because a lost connection sends it back to
  the login. For the refinement an account is kept of every call: the executions
  so far and the copies still under way together are at most one per attempt
  that got as far as sending, and a good answer tells of an execution
  (`Accounted`). Sending adds a copy and uses an attempt, executing turns a copy
  into an execution, losing one only makes room. The copies are counted with
  the library's theorems on the cardinality of finite sets.
* `PersistResult`. Four facts about each execution: it is at a target of its list
  (`InPlace`), what it has saved as current it has updated the station for
  (`Honest`), it holds the lock of every station it has updated (`Guarded`), and
  past the retiring statement it has taken every other current artifact of the
  station into `retired` (`Complete`). The last is where interleavings matter:
  it is kept by other executions' commits only because they would have needed
  the station's lock that this one holds. With them a commit leaves no current
  artifact but its own on a station it has updated. `LostForAReason` needs who
  holds which rows (`LockInv`): the target rows an execution has come past are
  locked by it, locks of other rows only by those past their statements, and of
  the artifact rows that executions at one station claim there is never a cycle
  (`NoCycle`). A deadlock is a set of executions each waiting for another one of
  the set. If their lists agree, take those that have least to go: each can only
  wait for another of them, both at the same station and each claiming the
  other's artifact row, which `NoCycle` excludes. So no induction over the length
  of a cycle is needed.
* `Preflight`. What a snapshot proves of the PC - what ran before `at`, that the
  drive was ready then, that its stamp is at most `ahead` beyond `at` - stays true
  however long it is under way (`Faithful`), and the controller and the evaluation
  have theirs from the network (`Filed`). The rules that were there all the time
  are among those the evaluation uses (`RulesRead`). For `NoFalseAlarm`: the row
  the evaluation has read follows all that were there when it began, in the order
  of `latest` (`Chosen`, `Follows`).
* `AgentInstall`. A save goes through a temporary file that is whole and secured
  before it replaces the file, and it never saves another credential over one
  that is there (`Saving`); past the check the store has worked in this run, and
  from the registration on the file is in machine scope (`Checked`); the service
  holds no other credential than the file, unless it has outlived the removal of
  another one (`Holds`).

24 of the 34 properties that the passing runs check are stated by a theorem. Only
model-checked are the liveness properties `EventuallyResolved`, `JobSucceeds`,
`EveryCallEnds`, `EveryPersistEnds` and `Recovers`, because fairness and `ENABLED`
are outside what the installed provers do; `VerdictIsHonest`, `RetentionTypeOK`,
`CurrentIsLive` and `DeletedIsGone`, which hold in the deployments of their run and
not in all; and `DeliveredInTime`, which holds for the run's timing and would need
a condition that the deployed lease and time to live do not meet for two
commands.

## 5. Not modelled, and the plan

Not modelled: the frontend, HTTP schemas and authentication (stateless mapping of
requests to the use cases that are modelled), migrations and container set-up, the
fake workflow (a simulation), the table of method names and the field-by-field
mapping of answers, TLS and URL checks, and the native Windows agent (a second
implementation of the protocol in `AgentCommands`).

Known hazards without a property: a clone whose answer was lost has no artifact
row (by construction of `storage_created`), a job whose execution raised outside
the per-station handling stays `publishing`, and an agent whose loop ended stays
silent.

Next, in this order:

1. `DeliveredInTime` as a theorem: a bound on the time to live, linear in the
   outstanding commands and losses, that the deployed values meet.
2. `CurrentIsLive` and `DeletedIsGone` for several workers of which at most one
   publishes to a given station, checked and then proved.
3. `_persist_current_state` as a third kind of transaction in `PersistResult`.
4. The Windows agent's loop (`AgentWorker.cs`) against `AgentCommands`.
