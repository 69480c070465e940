----------------------------- MODULE Preflight -----------------------------
(***************************************************************************)
(* Is a station fit to be updated?  From the PC to the verdict: the agent  *)
(* stamps and collects a snapshot of programs and drive and delivers it    *)
(* with retries (agent/snapshot.py, agent/heartbeat.py), the controller    *)
(* files it (ReceiveHeartbeatUseCase), the operator edits the process      *)
(* rules (application/process_rules.py), and an evaluation reads station,  *)
(* snapshot and rules one after the other and judges them                  *)
(* (application/preflight.py, domain/preflight.py).                        *)
(*                                                                         *)
(* One station.  `clock` is the controller's clock, the PC's runs `offset` *)
(* ahead of it until it is corrected.  Snapshots carry the true time at    *)
(* which they were stamped (`at`) and the running programs that the        *)
(* collector passed over (`skipped`), which the controller cannot see.     *)
(* Heartbeats are lost, delayed and overtaken.  A heartbeat that was not   *)
(* answered is sent again, also after the newer heartbeat of a refresh     *)
(* command that came with its answer, and each copy may arrive at any      *)
(* later time: so what was sent stays in `net` and may be received again.  *)
(***************************************************************************)
EXTENDS Integers, Sequences

CONSTANTS
    Programs,      \* programs that run on the PC
    Casefold,      \* the casefolded name of a program and of a rule's name
    Rules,         \* rules the operator may create
    Role,          \* the station's role
    Offsets,       \* how far the PC's clock may be off at the start
    MaxAge,        \* PreflightPolicy.max_snapshot_age
    ClockSkew,     \* HEARTBEAT_CLOCK_SKEW
    MaxClock,      \* bound: ticks of the clock
    MaxSnapshots,  \* bound: snapshots the agent takes
    MaxReceived,   \* bound: heartbeats the controller receives
    MaxChanges     \* bound: changes of the PC, the station and the rules

ASSUME PreflightAssumption ==
    /\ Offsets \subseteq Int
    /\ MaxAge \in Nat /\ ClockSkew \in Nat /\ MaxClock \in Nat
    /\ MaxSnapshots \in Nat /\ MaxReceived \in Nat /\ MaxChanges \in Nat

VARIABLES
    clock,     \* the controller's clock
    offset,    \* how far the PC's clock is ahead of it
    ahead,     \* how far it ever was (history)
    started,   \* since when each program has been running, Off if it is not
    drive,     \* the PC's drive
    readyAt,   \* when the drive was last ready
    agent,     \* the snapshot that the agent is taking
    taken,     \* snapshots taken so far
    net,       \* heartbeats that were sent
    received,  \* heartbeats received so far
    handlers,  \* heartbeats accepted and not yet committed
    rows,      \* process_snapshots in the order of their commits
    removed,   \* whether the station is disabled or soft-deleted
    rules,     \* process_rules
    changes,   \* changes so far
    eval       \* the evaluation in progress

pc     == <<offset, ahead, started, drive, readyAt>>
server == <<handlers, rows, removed, rules>>
beats  == <<agent, taken, net, received>>
vars   == <<clock, pc, beats, server, changes, eval>>

-----------------------------------------------------------------------------

Off == -1

Times == 0..MaxClock

\* ready: present with enough space.  unknown: its free space is not known.
\* bad: missing or low on space.
Drive == {"ready", "unknown", "bad"}

Snapshot == [at : Times, captured : Int, programs : SUBSET Programs,
             skipped : SUBSET Programs, drive : Drive]

NoSnapshot == [at |-> 0, captured |-> 0, programs |-> {}, skipped |-> {}, drive |-> "bad"]

Removals == {"disabled", "deleted"}

Row == [snapshot : Snapshot, received : Times]

NoRow == [snapshot |-> NoSnapshot, received |-> 0]

CheckStatus == {"pass", "block", "unknown", "warning"}

AgentState == [stamped : BOOLEAN, at : Times, captured : Int]

NoAgent == [stamped |-> FALSE, at |-> 0, captured |-> 0]

EvalState ==
    [step   : {"idle", "station", "snapshot", "rules", "judged"},
     gone   : BOOLEAN,
     found  : BOOLEAN,
     row    : Row,
     rules  : SUBSET Rules,
     now    : Times,
     status : CheckStatus,
     \* history: rules there from beginning to end, rows there at the beginning
     steady : SUBSET Rules,
     known  : Nat]

NoEval == [step |-> "idle", gone |-> FALSE, found |-> FALSE, row |-> NoRow,
           rules |-> {}, now |-> 0, status |-> "unknown", steady |-> {}, known |-> 0]

Init ==
    /\ clock = 0
    /\ offset \in Offsets
    /\ ahead = IF offset > 0 THEN offset ELSE 0
    /\ started \in [Programs -> {Off, 0}]
    /\ drive = "ready"
    /\ readyAt = 0
    /\ agent = NoAgent
    /\ taken = 0
    /\ net = {}
    /\ received = 0
    /\ handlers = {}
    /\ rows = <<>>
    /\ removed = "no"
    /\ rules \in {{}, Rules}
    /\ changes = 0
    /\ eval = NoEval

\* One of the changes that the instance allows.
Change ==
    /\ changes < MaxChanges
    /\ changes' = changes + 1

-----------------------------------------------------------------------------
(* The PC (external).                                                      *)

Tick ==
    /\ clock < MaxClock
    /\ clock' = clock + 1
    /\ readyAt' = IF drive = "ready" THEN clock + 1 ELSE readyAt
    /\ UNCHANGED <<offset, ahead, changes, started, drive, beats, server, eval>>

\* The operator or a time server sets the PC's clock right.
CorrectClock ==
    /\ Change
    /\ offset # 0
    /\ offset' = 0
    /\ UNCHANGED <<clock, ahead, started, drive, readyAt, beats, server, eval>>

StartOrStop(p) ==
    /\ Change
    /\ started' = [started EXCEPT ![p] = IF @ = Off THEN clock ELSE Off]
    /\ UNCHANGED <<clock, offset, ahead, drive, readyAt, beats, server, eval>>

DriveChanges(d) ==
    /\ Change
    /\ d # drive
    /\ drive' = d
    /\ readyAt' = IF d = "ready" THEN clock ELSE readyAt
    /\ UNCHANGED <<clock, offset, ahead, started, beats, server, eval>>

-----------------------------------------------------------------------------
(* The agent.                                                              *)

\* AgentSnapshotCollector.collect reads the clock first.
Stamp ==
    /\ ~agent.stamped
    /\ taken < MaxSnapshots
    /\ agent' = [stamped |-> TRUE, at |-> clock, captured |-> clock + offset]
    /\ taken' = taken + 1
    /\ UNCHANGED <<clock, pc, net, received, server, changes, eval>>

Running == {p \in Programs : started[p] # Off}

\* Then the programs and the drive.  ProcessSnapshotCollector.collect skips a
\* process that it may not read or that has no name, and reports none at all if
\* the iteration itself is refused.  send_with_retry begins.
CollectAndSend(skipped) ==
    /\ agent.stamped
    /\ net' = net \cup {[at |-> agent.at, captured |-> agent.captured,
                         programs |-> Running \ skipped, skipped |-> skipped,
                         drive |-> drive]}
    /\ agent' = NoAgent
    /\ UNCHANGED <<clock, pc, taken, received, server, changes, eval>>

-----------------------------------------------------------------------------
(* The controller: heartbeats and rules.                                   *)

Abs(n) == IF n < 0 THEN -n ELSE n

\* ReceiveHeartbeatUseCase takes the time of receipt before its transaction,
\* which looks at the binding without a lock.  A heartbeat that is too far off,
\* or that of a station that is gone, is rejected and leaves no trace.
Receive(s) ==
    /\ s \in net
    /\ received < MaxReceived
    /\ removed = "no"
    /\ Abs(clock - s.captured) <= ClockSkew
    /\ received' = received + 1
    /\ handlers' = handlers \cup {[snapshot |-> s, received |-> clock]}
    /\ UNCHANGED <<clock, pc, agent, taken, net, rows, removed, rules, changes, eval>>

\* record_heartbeat and commit.  A deletion meanwhile has taken the binding away;
\* a station disabled meanwhile still gets the row, unless the look at the
\* binding came later than that.
CommitHeartbeat(h) ==
    /\ h \in handlers
    /\ handlers' = handlers \ {h}
    /\ \/ removed # "deleted" /\ rows' = Append(rows, h)
       \/ removed # "no" /\ UNCHANGED rows
    /\ UNCHANGED <<clock, changes, pc, beats, removed, rules, eval>>

\* The station is disabled or deleted (module StationLifecycle).
RemoveStation(how) ==
    /\ Change
    /\ removed \notin {how, "deleted"}
    /\ removed' = how
    /\ UNCHANGED <<clock, pc, beats, handlers, rows, rules, eval>>

\* CreateProcessRuleUseCase.
CreateRule(r) ==
    /\ Change
    /\ r \notin rules
    /\ rules' = rules \cup {r}
    /\ UNCHANGED <<clock, pc, beats, handlers, rows, removed, eval>>

\* DeleteProcessRuleUseCase.
DeleteRule(r) ==
    /\ Change
    /\ r \in rules
    /\ rules' = rules \ {r}
    /\ eval' = [eval EXCEPT !.steady = @ \ {r}]
    /\ UNCHANGED <<clock, pc, beats, handlers, rows, removed>>

-----------------------------------------------------------------------------
(* domain/preflight.py.                                                    *)

\* Mutant: names are compared as they are spelt.
Matches_CaseSensitive(r, p) == r.enabled /\ r.role \in {"any", Role} /\ r.name = p

\* ProcessRule.matches.
Matches(r, p) == r.enabled /\ r.role \in {"any", Role} /\ Casefold[r.name] = Casefold[p]

\* Mutant: the age is counted from the receipt.
FreshnessCheck_Received(row, now) ==
    IF now - row.received > MaxAge THEN "unknown" ELSE "pass"

\* _freshness_check.
FreshnessCheck(row, now) ==
    LET age == now - row.snapshot.captured
    IN  IF age < 0 \/ age > MaxAge THEN "unknown" ELSE "pass"

\* _drive_check.
DriveCheck(s) ==
    CASE s.drive = "bad" -> "block"
      [] s.drive = "unknown" -> "unknown"
      [] s.drive = "ready" -> "pass"

\* _process_check.
ProcessCheck(s, rs) ==
    LET violations == {r \in rs : r.required_closed /\ \E p \in s.programs : Matches(r, p)}
    IN  IF violations = {} THEN "pass"
        ELSE IF \E r \in violations : r.severity = "blocking" THEN "block"
        ELSE "warning"

\* _aggregate_status.
AggregateStatus(statuses) ==
    CASE "block" \in statuses -> "block"
      [] "block" \notin statuses /\ "unknown" \in statuses -> "unknown"
      [] statuses \subseteq {"pass", "warning"} /\ "warning" \in statuses -> "warning"
      [] statuses = {"pass"} -> "pass"

\* evaluate_preflight.
EvaluatePreflight(gone, found, row, rs, now) ==
    IF gone THEN "block"
    ELSE IF ~found THEN "unknown"
    ELSE AggregateStatus({FreshnessCheck(row, now),
                          DriveCheck(row.snapshot),
                          ProcessCheck(row.snapshot, rs)})

\* PreflightReport.can_publish.
CanPublish(status) == status \in {"pass", "warning"}

-----------------------------------------------------------------------------
(* EvaluateStationPreflightUseCase: three reads, then the time.            *)

\* stations.get.
ReadStation ==
    /\ eval.step = "idle"
    /\ eval' = [NoEval EXCEPT !.step = "station", !.gone = (removed # "no"),
                              !.steady = rules, !.known = Len(rows)]
    /\ UNCHANGED <<clock, changes, pc, beats, server>>

\* Mutant: the latest by the PC's clock.
Latest_ByCaptured(row) ==
    \A i \in 1..Len(rows) : rows[i].snapshot.captured <= row.snapshot.captured

\* ORDER BY received_at DESC, captured_at DESC.
Latest(row) ==
    \A i \in 1..Len(rows) :
        \/ rows[i].received < row.received
        \/ rows[i].received = row.received /\ rows[i].snapshot.captured <= row.snapshot.captured

\* process_snapshots.latest.
ReadSnapshot ==
    /\ eval.step = "station"
    /\ \/ /\ rows = <<>>
          /\ eval' = [eval EXCEPT !.step = "snapshot"]
       \/ \E i \in 1..Len(rows) :
            /\ Latest(rows[i])
            /\ eval' = [eval EXCEPT !.step = "snapshot", !.found = TRUE, !.row = rows[i]]
    /\ UNCHANGED <<clock, changes, pc, beats, server>>

\* process_rules.list_for_role.
ReadRules ==
    /\ eval.step = "snapshot"
    /\ eval' = [eval EXCEPT !.step = "rules",
                            !.rules = {r \in rules : r.enabled /\ r.role \in {"any", Role}}]
    /\ UNCHANGED <<clock, changes, pc, beats, server>>

\* The time is read, the report is made.
Judge ==
    /\ eval.step = "rules"
    /\ eval' = [eval EXCEPT !.step = "judged", !.now = clock,
                  !.status = EvaluatePreflight(eval.gone, eval.found, eval.row, eval.rules, clock)]
    /\ UNCHANGED <<clock, changes, pc, beats, server>>

-----------------------------------------------------------------------------

\* An evaluation only reads, so one evaluation stands for all: the story ends
\* with its report.
Next ==
  /\ eval.step # "judged"
  /\ \/ Tick \/ CorrectClock
     \/ \E p \in Programs : StartOrStop(p)
     \/ \E d \in Drive : DriveChanges(d)
     \/ Stamp \/ \E skipped \in SUBSET Running : CollectAndSend(skipped)
     \/ \E s \in net : Receive(s)
     \/ \E h \in handlers : CommitHeartbeat(h)
     \/ \E how \in Removals : RemoveStation(how)
     \/ \E r \in Rules : CreateRule(r) \/ DeleteRule(r)
     \/ ReadStation \/ ReadSnapshot \/ ReadRules \/ Judge

Spec == Init /\ [][Next]_vars

-----------------------------------------------------------------------------
(* Correctness.                                                            *)

\* Every variable has its type.
TypeOK ==
    /\ clock \in Times /\ offset \in Int /\ ahead \in Int
    /\ started \in [Programs -> Times \cup {Off}]
    /\ drive \in Drive /\ readyAt \in Times
    /\ agent \in AgentState
    /\ taken \in 0..MaxSnapshots /\ received \in 0..MaxReceived
    /\ net \subseteq Snapshot
    /\ handlers \subseteq Row
    /\ rows \in Seq(Row)
    /\ removed \in Removals \cup {"no"} /\ rules \subseteq Rules /\ changes \in 0..MaxChanges
    /\ eval \in EvalState

\* The true time before which a publishable report cannot have been collected:
\* a clock that runs ahead makes a snapshot look younger.
Horizon == eval.now - MaxAge - ahead

Publishable == eval.step = "judged" /\ CanPublish(eval.status)

\* A program that has been running since before the horizon, whatever case its
\* name is spelt in, keeps the report from being publishable if a blocking rule
\* for it was there during the whole evaluation: no delayed, repeated or
\* reordered heartbeat hides it.  What hides it is only the collector, when it
\* passed over the program in the very snapshot that the report judges.
BlockerIsSeen ==
    Publishable =>
        \A p \in Programs, r \in eval.steady :
            ~ /\ r.enabled /\ r.role \in {"any", Role}
              /\ r.required_closed /\ r.severity = "blocking"
              /\ Casefold[r.name] = Casefold[p]
              /\ started[p] # Off /\ started[p] < Horizon
              /\ p \notin eval.row.snapshot.skipped

\* A publishable report is made only for a station whose drive was there, with
\* enough free space, at some time after the horizon (_drive_check,
\* _freshness_check).
DriveWasReady == Publishable => readyAt >= Horizon

\* No false alarm (plans/40-preflight-snapshot-freshness): if a young enough
\* snapshot taken by a right clock was filed before the evaluation, and what
\* was received after it is not older and taken by a right clock too, then
\* freshness is not what the report complains about.
NoFalseAlarm ==
    [][eval.step = "rules" /\ eval'.step = "judged" =>
         LET Right(s) == s.captured = s.at IN
         (\E i \in 1..eval.known :
             /\ Right(rows[i].snapshot)
             /\ clock - rows[i].snapshot.at <= MaxAge
             /\ \A j \in 1..Len(rows) :
                    rows[j].received >= rows[i].received =>
                        /\ Right(rows[j].snapshot)
                        /\ rows[j].snapshot.at >= rows[i].snapshot.at)
         => FreshnessCheck(eval.row, eval'.now) = "pass"]_vars

=============================================================================
