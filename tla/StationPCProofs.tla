--------------------------- MODULE StationPCProofs ---------------------------
(***************************************************************************)
(* Proofs about the PC of a station: what it reports (Preflight) and how   *)
(* the agent is put on it (AgentInstall), for any bounds, any programs and *)
(* rules, any clock and any number of faults.                              *)
(***************************************************************************)
EXTENDS Preflight, AgentInstall, TLAPS

USE PreflightAssumption, InstallAssumption DEF Times, Off

-----------------------------------------------------------------------------
(* Preflight: types.                                                       *)

LEMMA SnapshotFacts ==
    ASSUME NEW s \in Snapshot
    PROVE  /\ s.at \in Times /\ s.captured \in Int
           /\ s.programs \subseteq Programs /\ s.skipped \subseteq Programs
           /\ s.drive \in Drive
BY DEF Snapshot

LEMMA NoRowType == NoSnapshot \in Snapshot /\ NoRow \in Row
<1>1. 0 \in Times /\ 0 \in Int /\ {} \in SUBSET Programs /\ "bad" \in Drive
  BY DEF Drive
<1> QED
  BY <1>1 DEF NoSnapshot, Snapshot, NoRow, Row

LEMMA NoEvalType == NoEval \in EvalState
BY NoRowType DEF NoEval, EvalState, CheckStatus

\* The statuses a report may have.
LEMMA StatusType ==
    ASSUME NEW row \in Row, NEW rs, NEW gone \in BOOLEAN, NEW found \in BOOLEAN, NEW now \in Times
    PROVE  EvaluatePreflight(gone, found, row, rs, now) \in CheckStatus
<1>1. row.snapshot.drive \in Drive
  BY DEF Row, Snapshot
<1>2. /\ FreshnessCheck(row, now) \in {"pass", "unknown"}
      /\ DriveCheck(row.snapshot) \in {"pass", "block", "unknown"}
      /\ ProcessCheck(row.snapshot, rs) \in {"pass", "block", "warning"}
  BY <1>1 DEF FreshnessCheck, DriveCheck, ProcessCheck, Drive
<1>3. ASSUME NEW a \in {"pass", "unknown"}, NEW b \in {"pass", "block", "unknown"},
             NEW c \in {"pass", "block", "warning"}
      PROVE  AggregateStatus({a, b, c}) \in CheckStatus
  BY DEF AggregateStatus, CheckStatus
<1>4. "block" \in CheckStatus /\ "unknown" \in CheckStatus
  BY DEF CheckStatus
<1> QED
  BY <1>2, <1>3, <1>4 DEF EvaluatePreflight

\* An evaluation that reads, judges, or loses a rule.
LEMMA EvalType ==
    ASSUME TypeOK, Next
    PROVE  eval' \in EvalState
<1>0. /\ eval \in EvalState /\ rows \in Seq(Row) /\ rules \subseteq Rules /\ (removed # "no") \in BOOLEAN
      /\ clock \in Times /\ Len(rows) \in Nat
  BY DEF TypeOK
<1>1. CASE ReadStation
  BY <1>0, <1>1, NoEvalType DEF ReadStation, EvalState
<1>2. CASE ReadSnapshot
  <2>1. \A i \in 1..Len(rows) : rows[i] \in Row
    BY <1>0
  <2>2. CASE eval' = [eval EXCEPT !.step = "snapshot"]
    BY <1>0, <2>2 DEF EvalState
  <2>3. ASSUME NEW i \in 1..Len(rows),
               eval' = [eval EXCEPT !.step = "snapshot", !.found = TRUE, !.row = rows[i]]
        PROVE  eval' \in EvalState
    BY <1>0, <2>1, <2>3 DEF EvalState
  <2> QED
    BY <1>2, <2>2, <2>3 DEF ReadSnapshot
<1>3. CASE ReadRules
  BY <1>0, <1>3 DEF ReadRules, EvalState
<1>4. CASE Judge
  <2> DEFINE status == EvaluatePreflight(eval.gone, eval.found, eval.row, eval.rules, clock)
  <2>1. eval.gone \in BOOLEAN /\ eval.found \in BOOLEAN /\ eval.row \in Row
    BY <1>0 DEF EvalState
  <2>2. status \in CheckStatus
    BY <1>0, <2>1, StatusType
  <2>3. eval' = [eval EXCEPT !.step = "judged", !.now = clock, !.status = status]
    BY <1>4 DEF Judge
  <2> HIDE DEF status
  <2> QED
    BY <1>0, <2>2, <2>3 DEF EvalState
<1>5. ASSUME NEW r \in Rules, DeleteRule(r) PROVE eval' \in EvalState
  BY <1>0, <1>5 DEF DeleteRule, EvalState
<1>6. CASE UNCHANGED eval
  BY <1>0, <1>6
<1> QED
  BY <1>1, <1>2, <1>3, <1>4, <1>5, <1>6 DEF Next, Tick, CorrectClock, StartOrStop, DriveChanges,
     Stamp, CollectAndSend, Receive, CommitHeartbeat, RemoveStation, CreateRule

LEMMA TypeStep ==
    ASSUME TypeOK, [Next]_vars
    PROVE  TypeOK'
<1> USE DEF TypeOK
<1>e. eval' \in EvalState
  BY EvalType DEF vars
<1>1. CASE Tick
  BY <1>1, <1>e DEF Tick, beats, server
<1>2. CASE CorrectClock
  BY <1>2, <1>e DEF CorrectClock, Change, beats, server
<1>3. ASSUME NEW p \in Programs, StartOrStop(p) PROVE TypeOK'
  BY <1>3, <1>e DEF StartOrStop, Change, beats, server
<1>4. ASSUME NEW d \in Drive, DriveChanges(d) PROVE TypeOK'
  BY <1>4, <1>e DEF DriveChanges, Change, beats, server
<1>5. CASE Stamp
  <2>1. agent' \in AgentState
    BY <1>5 DEF Stamp, AgentState
  <2> QED
    BY <1>5, <1>e, <2>1 DEF Stamp, pc, server
<1>6. ASSUME NEW skipped \in SUBSET Running, CollectAndSend(skipped) PROVE TypeOK'
  <2>1. NoAgent \in AgentState /\ agent.at \in Times /\ agent.captured \in Int
    BY DEF NoAgent, AgentState
  <2>2. [at |-> agent.at, captured |-> agent.captured,
         programs |-> Running \ skipped, skipped |-> skipped, drive |-> drive] \in Snapshot
    BY <2>1 DEF Snapshot, Running
  <2> QED
    BY <1>6, <1>e, <2>1, <2>2 DEF CollectAndSend, pc, server
<1>7. ASSUME NEW s \in net, Receive(s) PROVE TypeOK'
  <2>1. [snapshot |-> s, received |-> clock] \in Row
    BY DEF Row
  <2> QED
    BY <1>7, <1>e, <2>1 DEF Receive, pc
<1>8. ASSUME NEW h \in handlers, CommitHeartbeat(h) PROVE TypeOK'
  BY <1>8, <1>e DEF CommitHeartbeat, pc, beats
<1>9. ASSUME NEW how \in Removals, RemoveStation(how) PROVE TypeOK'
  BY <1>9, <1>e DEF RemoveStation, Change, pc, beats
<1>10. ASSUME NEW r \in Rules, CreateRule(r) PROVE TypeOK'
  BY <1>10, <1>e DEF CreateRule, Change, pc, beats
<1>11. ASSUME NEW r \in Rules, DeleteRule(r) PROVE TypeOK'
  <2>1. changes' \in 0..MaxChanges /\ rules' \subseteq Rules
    BY <1>11 DEF DeleteRule, Change
  <2>2. UNCHANGED <<clock, pc, beats, handlers, rows, removed>>
    BY <1>11 DEF DeleteRule
  <2> QED
    BY <1>e, <2>1, <2>2 DEF pc, beats
<1>12. CASE UNCHANGED <<clock, changes, pc, beats, server>>
  BY <1>12, <1>e DEF pc, beats, server
<1> QED
  BY <1>1, <1>2, <1>3, <1>4, <1>5, <1>6, <1>7, <1>8, <1>9, <1>10, <1>11, <1>12
     DEF Next, vars, ReadStation, ReadSnapshot, ReadRules, Judge

LEMMA TypeInit == Init => TypeOK
<1> SUFFICES ASSUME Init PROVE TypeOK
  OBVIOUS
<1>1. ahead \in Int /\ offset \in Int
  BY DEF Init
<1>2. NoAgent \in AgentState
  BY DEF NoAgent, AgentState
<1>3. started \in [Programs -> Times \cup {Off}]
  BY DEF Init
<1>4. rows \in Seq(Row) /\ eval \in EvalState /\ agent \in AgentState
  BY <1>2, NoEvalType DEF Init
<1>5. rules \subseteq Rules /\ removed \in Removals \cup {"no"} /\ net = {} /\ handlers = {} /\ drive \in Drive
  BY DEF Init, Drive
<1>6. clock = 0 /\ readyAt = 0 /\ taken = 0 /\ received = 0 /\ changes = 0
  BY DEF Init
<1> QED
  BY <1>1, <1>3, <1>4, <1>5, <1>6 DEF TypeOK

\* The types of the agent's, the controller's and the evaluation's state.
THEOREM PreflightTypeCorrect == Spec => []TypeOK
BY TypeInit, TypeStep, PTL DEF Spec

-----------------------------------------------------------------------------
(* Preflight: what a snapshot says of the PC stays true.                   *)

\* What a snapshot proves of the PC, however long it has been under way.
Faithful(s) ==
    /\ s.at <= clock
    /\ s.captured <= s.at + ahead
    /\ \A p \in Programs : started[p] # Off /\ started[p] < s.at => p \in s.programs \cup s.skipped
    /\ s.drive = "ready" => s.at <= readyAt

\* The PC, the agent and everything that was sent.
Reported ==
    /\ 0 <= ahead /\ offset <= ahead
    /\ drive = "ready" => readyAt = clock
    /\ agent.stamped => agent.at <= clock /\ agent.captured <= agent.at + ahead
    /\ \A s \in net : Faithful(s)

\* The controller has its snapshots from the agent.
Filed ==
    /\ \A h \in handlers : h.snapshot \in net
    /\ \A i \in 1..Len(rows) : rows[i].snapshot \in net
    /\ eval.found => eval.row.snapshot \in net

ForRole(r) == r.enabled /\ r.role \in {"any", Role}

\* The rules that were there all the time are among those the evaluation uses.
RulesRead ==
    /\ eval.steady \subseteq rules
    /\ eval.step \in {"rules", "judged"} =>
          \A r \in eval.steady : ForRole(r) => r \in eval.rules

\* A snapshot stays faithful while the PC and the clocks go on.
LEMMA FaithfulStays ==
    ASSUME TypeOK, Reported, NEW s \in Snapshot, Faithful(s), [Next]_vars
    PROVE  Faithful(s)'
<1>0. s.at \in Int /\ s.captured \in Int /\ clock \in Int /\ readyAt \in Int /\ ahead \in Int
  BY SnapshotFacts DEF TypeOK
<1>1. CASE Tick
  BY <1>0, <1>1 DEF Tick, Faithful, TypeOK
<1>2. ASSUME NEW p \in Programs, StartOrStop(p) PROVE Faithful(s)'
  BY <1>0, <1>2 DEF StartOrStop, Faithful, TypeOK
<1>3. ASSUME NEW d \in Drive, DriveChanges(d) PROVE Faithful(s)'
  BY <1>0, <1>3 DEF DriveChanges, Faithful
<1>4. CASE UNCHANGED <<clock, ahead, started, readyAt>>
  BY <1>4 DEF Faithful
<1> QED
  BY <1>1, <1>2, <1>3, <1>4 DEF Next, vars, CorrectClock, Stamp, CollectAndSend, Receive,
     CommitHeartbeat, RemoveStation, CreateRule, DeleteRule, ReadStation, ReadSnapshot, ReadRules,
     Judge, pc

\* Everything that is sent is faithful.
LEMMA ReportedStep ==
    ASSUME TypeOK, Reported, [Next]_vars
    PROVE  Reported'
<1>0. /\ clock \in Int /\ readyAt \in Int /\ ahead \in Int /\ offset \in Int
      /\ agent.at \in Int /\ agent.captured \in Int /\ net \subseteq Snapshot
  BY DEF TypeOK, AgentState
<1>1. \A s \in net : Faithful(s)'
  BY <1>0, FaithfulStays DEF Reported
<1>2. CASE Tick
  BY <1>0, <1>1, <1>2 DEF Tick, Reported, beats
<1>3. CASE CorrectClock
  BY <1>0, <1>1, <1>3 DEF CorrectClock, Reported, beats
<1>4. ASSUME NEW d \in Drive, DriveChanges(d) PROVE Reported'
  BY <1>0, <1>1, <1>4 DEF DriveChanges, Reported, beats
<1>5. CASE Stamp
  <2>1. agent'.at = clock /\ agent'.captured = clock + offset
    BY <1>5 DEF Stamp
  <2> QED
    BY <1>0, <1>1, <1>5, <2>1 DEF Stamp, Reported, pc
<1>6. ASSUME NEW skipped \in SUBSET Running, CollectAndSend(skipped) PROVE Reported'
  <2>0. PICK s : s = [at |-> agent.at, captured |-> agent.captured,
                      programs |-> Running \ skipped, skipped |-> skipped, drive |-> drive]
    OBVIOUS
  <2>1. Faithful(s)
    BY <1>0, <1>6, <2>0 DEF CollectAndSend, Faithful, Reported, Running
  <2>2. net' = net \cup {s} /\ ~ agent'.stamped /\ UNCHANGED <<clock, pc>>
    BY <1>6, <2>0 DEF CollectAndSend, NoAgent
  <2>3. Faithful(s)'
    BY <2>1, <2>2 DEF Faithful, pc
  <2>4. \A t \in net' : Faithful(t)'
    BY <1>1, <2>2, <2>3
  <2> QED
    BY <2>2, <2>4 DEF Reported, pc
<1>7. CASE UNCHANGED <<clock, offset, ahead, drive, readyAt, agent, net>>
  BY <1>1, <1>7 DEF Reported
<1> QED
  BY <1>2, <1>3, <1>4, <1>5, <1>6, <1>7 DEF Next, vars, StartOrStop, Receive, CommitHeartbeat,
     RemoveStation, CreateRule, DeleteRule, ReadStation, ReadSnapshot, ReadRules, Judge, pc, beats

LEMMA FiledStep ==
    ASSUME TypeOK, Filed, [Next]_vars
    PROVE  Filed'
<1>0. rows \in Seq(Row) /\ Len(rows) \in Nat /\ eval \in EvalState
  BY DEF TypeOK
<1>1. net \subseteq net'
  BY DEF Next, vars, Tick, CorrectClock, StartOrStop, DriveChanges, Stamp, CollectAndSend, Receive,
     CommitHeartbeat, RemoveStation, CreateRule, DeleteRule, ReadStation, ReadSnapshot, ReadRules,
     Judge, beats
<1>2. \A h \in handlers' : h.snapshot \in net'
  <2>1. ASSUME NEW s \in net, Receive(s) PROVE \A h \in handlers' : h.snapshot \in net'
    BY <1>1, <2>1 DEF Receive, Filed
  <2>2. CASE handlers' \subseteq handlers
    BY <1>1, <2>2 DEF Filed
  <2> QED
    BY <2>1, <2>2 DEF Next, vars, Tick, CorrectClock, StartOrStop, DriveChanges, Stamp,
       CollectAndSend, CommitHeartbeat, RemoveStation, CreateRule, DeleteRule, ReadStation,
       ReadSnapshot, ReadRules, Judge, server
<1>3. \A i \in 1..Len(rows') : rows'[i].snapshot \in net'
  <2>1. ASSUME NEW h \in handlers, rows' = Append(rows, h)
        PROVE  \A i \in 1..Len(rows') : rows'[i].snapshot \in net'
    BY <1>0, <1>1, <2>1 DEF Filed
  <2>2. CASE rows' = rows
    BY <1>1, <2>2 DEF Filed
  <2> QED
    BY <2>1, <2>2 DEF Next, vars, Tick, CorrectClock, StartOrStop, DriveChanges, Stamp, Receive,
       CollectAndSend, CommitHeartbeat, RemoveStation, CreateRule, DeleteRule, ReadStation,
       ReadSnapshot, ReadRules, Judge, server
<1>4. eval'.found => eval'.row.snapshot \in net'
  <2>1. CASE ReadStation
    BY <2>1 DEF ReadStation, NoEval
  <2>2. CASE ReadSnapshot
    <3>1. CASE eval' = [eval EXCEPT !.step = "snapshot"]
      BY <1>0, <1>1, <3>1 DEF Filed, EvalState
    <3>2. ASSUME NEW i \in 1..Len(rows),
                 eval' = [eval EXCEPT !.step = "snapshot", !.found = TRUE, !.row = rows[i]]
          PROVE  eval'.row.snapshot \in net'
      BY <1>0, <1>1, <3>2 DEF Filed, EvalState
    <3> QED
      BY <2>2, <3>1, <3>2 DEF ReadSnapshot
  <2>3. CASE UNCHANGED <<eval.found, eval.row>>
    BY <1>1, <2>3 DEF Filed
  <2>4. CASE ReadRules \/ Judge \/ \E r \in Rules : DeleteRule(r)
    <3>1. eval'.found = eval.found /\ eval'.row = eval.row
      BY <1>0, <2>4 DEF ReadRules, Judge, DeleteRule, EvalState
    <3> QED
      BY <1>1, <3>1 DEF Filed
  <2> QED
    BY <2>1, <2>2, <2>3, <2>4 DEF Next, vars, Tick, CorrectClock, StartOrStop, DriveChanges, Stamp,
       Receive, CollectAndSend, CommitHeartbeat, RemoveStation, CreateRule
<1> QED
  BY <1>2, <1>3, <1>4 DEF Filed

LEMMA RulesReadStep ==
    ASSUME TypeOK, RulesRead, [Next]_vars
    PROVE  RulesRead'
<1>0. eval \in EvalState
  BY DEF TypeOK
<1>1. CASE ReadStation
  BY <1>1 DEF ReadStation, NoEval, RulesRead, server
<1>2. CASE ReadSnapshot
  <2>1. eval'.steady = eval.steady /\ eval'.step = "snapshot" /\ rules' = rules
    BY <1>0, <1>2 DEF ReadSnapshot, EvalState, server
  <2> QED
    BY <2>1 DEF RulesRead
<1>3. CASE ReadRules
  <2>1. /\ eval'.steady = eval.steady /\ rules' = rules
        /\ eval'.rules = {r \in rules : r.enabled /\ r.role \in {"any", Role}}
    BY <1>0, <1>3 DEF ReadRules, EvalState, server
  <2> QED
    BY <2>1 DEF RulesRead, ForRole
<1>4. CASE Judge
  <2>1. /\ eval'.steady = eval.steady /\ rules' = rules /\ eval'.rules = eval.rules
        /\ eval.step = "rules"
    BY <1>0, <1>4 DEF Judge, EvalState, server
  <2> QED
    BY <2>1 DEF RulesRead, ForRole
<1>5. ASSUME NEW r \in Rules, DeleteRule(r) PROVE RulesRead'
  <2>1. /\ eval'.steady = eval.steady \ {r} /\ rules' = rules \ {r} /\ eval'.rules = eval.rules
        /\ eval'.step = eval.step
    BY <1>0, <1>5 DEF DeleteRule, EvalState
  <2> QED
    BY <2>1 DEF RulesRead, ForRole
<1>6. CASE eval' = eval /\ rules \subseteq rules'
  BY <1>6 DEF RulesRead, ForRole
<1> QED
  BY <1>1, <1>2, <1>3, <1>4, <1>5, <1>6 DEF Next, vars, Tick, CorrectClock, StartOrStop,
     DriveChanges, Stamp, CollectAndSend, Receive, CommitHeartbeat, RemoveStation, CreateRule,
     server

\* What a publishable verdict says of the snapshot and the rules it is about.
LEMMA PublishableFacts ==
    ASSUME NEW row \in Row, NEW rs, NEW gone \in BOOLEAN, NEW found \in BOOLEAN, NEW now \in Times,
           CanPublish(EvaluatePreflight(gone, found, row, rs, now))
    PROVE  /\ found
           /\ 0 <= now - row.snapshot.captured /\ now - row.snapshot.captured <= MaxAge
           /\ row.snapshot.drive = "ready"
           /\ ~ \E r \in rs, p \in row.snapshot.programs :
                   r.required_closed /\ r.severity = "blocking" /\ Matches(r, p)
<1> DEFINE young == FreshnessCheck(row, now)
           ready == DriveCheck(row.snapshot)
           closed == ProcessCheck(row.snapshot, rs)
<1>0. row.snapshot.drive \in Drive /\ row.snapshot.captured \in Int
  BY DEF Row, Snapshot
<1>1. found /\ CanPublish(AggregateStatus({young, ready, closed}))
  BY DEF EvaluatePreflight, CanPublish
<1>2. /\ young \in {"pass", "unknown"} /\ ready \in {"pass", "block", "unknown"}
      /\ closed \in {"pass", "block", "warning"}
  BY <1>0 DEF FreshnessCheck, DriveCheck, ProcessCheck, Drive
<1> HIDE DEF young, ready, closed
<1>3. young = "pass" /\ ready = "pass" /\ closed # "block"
  <2>1. "block" \notin {young, ready, closed}
    BY <1>1 DEF AggregateStatus, CanPublish
  <2>2. "unknown" \notin {young, ready, closed}
    BY <1>1, <2>1 DEF AggregateStatus, CanPublish
  <2> QED
    BY <1>2, <2>1, <2>2
<1>4. 0 <= now - row.snapshot.captured /\ now - row.snapshot.captured <= MaxAge
  BY <1>0, <1>3 DEF young, FreshnessCheck
<1>5. row.snapshot.drive = "ready"
  BY <1>0, <1>3 DEF ready, DriveCheck, Drive
<1>6. ~ \E r \in rs, p \in row.snapshot.programs :
           r.required_closed /\ r.severity = "blocking" /\ Matches(r, p)
  BY <1>3 DEF closed, ProcessCheck
<1> QED
  BY <1>1, <1>4, <1>5, <1>6

\* The report, when it is made.
LEMMA JudgeFacts ==
    ASSUME TypeOK, Reported, Filed, RulesRead, Judge
    PROVE  BlockerIsSeen' /\ DriveWasReady'
<1> DEFINE row == eval.row
           s == eval.row.snapshot
<1>0. /\ eval \in EvalState /\ row \in Row /\ s \in Snapshot
      /\ eval.gone \in BOOLEAN /\ eval.found \in BOOLEAN
      /\ clock \in Times /\ ahead \in Int /\ readyAt \in Int
  BY DEF TypeOK, EvalState, Row
<1>1. /\ eval'.step = "judged" /\ eval'.now = clock /\ eval'.steady = eval.steady
      /\ eval'.row = eval.row
      /\ eval'.status = EvaluatePreflight(eval.gone, eval.found, eval.row, eval.rules, clock)
      /\ UNCHANGED <<ahead, started, readyAt>> /\ eval.step = "rules"
  BY <1>0 DEF Judge, EvalState, pc
<1> SUFFICES ASSUME CanPublish(eval'.status)
             PROVE  BlockerIsSeen' /\ DriveWasReady'
  BY DEF BlockerIsSeen, DriveWasReady, Publishable
<1>2. /\ eval.found
      /\ 0 <= clock - s.captured /\ clock - s.captured <= MaxAge
      /\ s.drive = "ready"
      /\ ~ \E r \in eval.rules, p \in s.programs :
              r.required_closed /\ r.severity = "blocking" /\ Matches(r, p)
  <2>1. CanPublish(EvaluatePreflight(eval.gone, eval.found, row, eval.rules, clock))
    BY <1>1
  <2> HIDE DEF row
  <2>2. /\ eval.found
        /\ 0 <= clock - row.snapshot.captured /\ clock - row.snapshot.captured <= MaxAge
        /\ row.snapshot.drive = "ready"
        /\ ~ \E r \in eval.rules, p \in row.snapshot.programs :
                r.required_closed /\ r.severity = "blocking" /\ Matches(r, p)
    BY ONLY <1>0, <2>1, PublishableFacts
  <2> QED
    BY <2>2 DEF row
<1>3. Faithful(s)
  BY <1>2 DEF Filed, Reported
<1>4. s.at \in Int /\ s.captured \in Int /\ s.captured <= s.at + ahead
  BY <1>0, <1>3, SnapshotFacts DEF Faithful
<1>5. Horizon' = clock - MaxAge - ahead
  BY <1>1 DEF Horizon
<1>6. Horizon' <= s.at
  BY <1>0, <1>2, <1>4, <1>5
<1>7. DriveWasReady'
  <2>1. s.at <= readyAt
    BY <1>2, <1>3 DEF Faithful
  <2> QED
    BY <1>0, <1>1, <1>4, <1>5, <1>6, <2>1 DEF DriveWasReady
<1>8. BlockerIsSeen'
  <2> SUFFICES ASSUME NEW p \in Programs, NEW r \in eval.steady,
                      ForRole(r), r.required_closed, r.severity = "blocking",
                      Casefold[r.name] = Casefold[p],
                      started[p] # Off, started[p] < Horizon', p \notin s.skipped
               PROVE  FALSE
    BY <1>1 DEF BlockerIsSeen, ForRole
  <2>1. started[p] < s.at
    <3>1. started[p] \in Int /\ Horizon' \in Int
      BY <1>0, <1>5 DEF TypeOK
    <3> QED
      BY <1>4, <1>6, <3>1
  <2>2. p \in s.programs
    BY <1>3, <2>1 DEF Faithful
  <2>3. r \in eval.rules
    BY <1>1 DEF RulesRead
  <2> QED
    BY <1>2, <2>2, <2>3 DEF Matches, ForRole
<1> QED
  BY <1>7, <1>8

\* What the two theorems rest on.
Judged == Reported /\ Filed /\ RulesRead /\ BlockerIsSeen /\ DriveWasReady

LEMMA JudgedInvariance == Spec => []Judged
<1>1. Init => Judged
  <2> SUFFICES ASSUME Init PROVE Judged
    OBVIOUS
  <2>1. offset \in Int /\ clock = 0 /\ readyAt = 0 /\ ~ agent.stamped /\ net = {}
    BY DEF Init, NoAgent
  <2>2. Reported
    BY <2>1 DEF Init, Reported
  <2>3. Filed
    BY DEF Init, Filed, NoEval
  <2>4. eval.step = "idle" /\ eval.steady = {}
    BY DEF Init, NoEval
  <2> QED
    BY <2>2, <2>3, <2>4 DEF Judged, RulesRead, BlockerIsSeen, DriveWasReady, Publishable
<1>2. TypeOK /\ Judged /\ [Next]_vars => Judged'
  <2> SUFFICES ASSUME TypeOK, Judged, [Next]_vars PROVE Judged'
    OBVIOUS
  <2>1. Reported' /\ Filed' /\ RulesRead'
    BY ReportedStep, FiledStep, RulesReadStep DEF Judged
  <2>2. CASE Judge
    BY <2>1, <2>2, JudgeFacts DEF Judged
  <2>3. CASE eval'.step # "judged"
    BY <2>1, <2>3 DEF Judged, BlockerIsSeen, DriveWasReady, Publishable
  <2>4. CASE UNCHANGED vars
    BY <2>1, <2>4 DEF vars, pc, Judged, BlockerIsSeen, DriveWasReady, Publishable, Horizon
  <2>5. Next /\ ~ Judge => eval'.step # "judged"
    <3>1. eval \in EvalState
      BY DEF TypeOK
    <3>2. CASE ReadStation
      BY <3>2, NoEvalType DEF ReadStation, EvalState
    <3>3. CASE ReadSnapshot \/ ReadRules
      BY <3>1, <3>3 DEF ReadSnapshot, ReadRules, EvalState
    <3>4. ASSUME NEW r \in Rules, DeleteRule(r), Next PROVE eval'.step # "judged"
      BY <3>1, <3>4 DEF DeleteRule, EvalState, Next
    <3>5. CASE UNCHANGED eval /\ Next
      BY <3>5 DEF Next
    <3> QED
      BY <3>2, <3>3, <3>4, <3>5 DEF Next, Tick, CorrectClock, StartOrStop, DriveChanges, Stamp,
         CollectAndSend, Receive, CommitHeartbeat, RemoveStation, CreateRule
  <2> QED
    BY <2>2, <2>3, <2>4, <2>5
<1> QED
  BY <1>1, <1>2, PreflightTypeCorrect, PTL DEF Spec

\* No delayed, repeated or reordered heartbeat, no wrong clock within ahead and
\* no rule edited during the evaluation hides a forbidden program: if it has
\* been running since before the horizon and its blocking rule was there during
\* the whole evaluation, the report is not publishable (evaluate_preflight),
\* unless the collector passed over the program in the snapshot that is judged.
THEOREM ForbiddenProgramsBlock == Spec => []BlockerIsSeen
<1>1. Judged => BlockerIsSeen
  BY DEF Judged
<1> QED
  BY <1>1, JudgedInvariance, PTL

\* A publishable report is made only if the drive was ready at some time after
\* the horizon (_drive_check and _freshness_check).
THEOREM DriveOfReportWasReady == Spec => []DriveWasReady
<1>1. Judged => DriveWasReady
  BY DEF Judged
<1> QED
  BY <1>1, JudgedInvariance, PTL

-----------------------------------------------------------------------------
(* Preflight: no false alarm.                                              *)

\* One row is preferred to another by process_snapshots.latest.
Follows(row, other) ==
    \/ other.received < row.received
    \/ other.received = row.received /\ other.snapshot.captured <= row.snapshot.captured

\* The row the evaluation has read is one of the table, and follows those that
\* were there when it began.
Chosen ==
    /\ eval.step # "idle" => eval.known <= Len(rows)
    /\ eval.step \in {"idle", "station"} => ~ eval.found
    /\ eval.step \in {"snapshot", "rules"} =>
          /\ eval.known > 0 => eval.found
          /\ eval.found => /\ \E m \in 1..Len(rows) : eval.row = rows[m]
                           /\ \A i \in 1..eval.known : Follows(eval.row, rows[i])

\* The table only grows.
LEMMA RowsGrow ==
    ASSUME TypeOK, [Next]_vars
    PROVE  /\ rows' \in Seq(Row) /\ Len(rows) \in Nat /\ Len(rows') \in Nat
           /\ Len(rows) <= Len(rows')
           /\ \A i \in 1..Len(rows) : rows'[i] = rows[i]
<1>0. rows \in Seq(Row) /\ Len(rows) \in Nat /\ handlers \subseteq Row
  BY DEF TypeOK
<1>1. ASSUME NEW h \in Row, rows' = Append(rows, h)
      PROVE  /\ rows' \in Seq(Row) /\ Len(rows') \in Nat
             /\ Len(rows) <= Len(rows')
             /\ \A i \in 1..Len(rows) : rows'[i] = rows[i]
  BY <1>0, <1>1
<1>2. CASE rows' = rows
  BY <1>0, <1>2
<1> QED
  BY <1>0, <1>1, <1>2 DEF Next, vars, Tick, CorrectClock, StartOrStop, DriveChanges, Stamp, Receive,
     CollectAndSend, CommitHeartbeat, RemoveStation, CreateRule, DeleteRule, ReadStation,
     ReadSnapshot, ReadRules, Judge, server

LEMMA ChosenStep ==
    ASSUME TypeOK, Chosen, [Next]_vars
    PROVE  Chosen'
<1>0. eval \in EvalState /\ Len(rows) \in Nat /\ eval.known \in Nat
  BY DEF TypeOK, EvalState
<1>1. CASE ReadStation
  <2>1. eval'.step = "station" /\ eval'.known = Len(rows) /\ rows' = rows /\ ~ eval'.found
    BY <1>1 DEF ReadStation, NoEval, server
  <2> QED
    BY <1>0, <2>1 DEF Chosen
<1>2. CASE ReadSnapshot
  <2>0. eval.step = "station" /\ rows' = rows
    BY <1>2 DEF ReadSnapshot, server
  <2>1. CASE rows = <<>> /\ eval' = [eval EXCEPT !.step = "snapshot"]
    <3>1. eval.known <= Len(rows) /\ Len(rows) = 0
      BY <2>0, <2>1 DEF Chosen
    <3>2. eval'.known = 0 /\ eval'.step = "snapshot" /\ eval'.found = eval.found
      BY <1>0, <2>1, <3>1 DEF EvalState
    <3>3. ~ eval.found
      BY <2>0 DEF Chosen
    <3> QED
      BY <2>0, <3>1, <3>2, <3>3 DEF Chosen
  <2>2. ASSUME NEW m \in 1..Len(rows), Latest(rows[m]),
               eval' = [eval EXCEPT !.step = "snapshot", !.found = TRUE, !.row = rows[m]]
        PROVE  Chosen'
    <3>1. /\ eval'.known = eval.known /\ eval'.step = "snapshot" /\ eval'.found
          /\ eval'.row = rows[m]
      BY <1>0, <2>2 DEF EvalState
    <3>2. eval.known <= Len(rows)
      BY <2>0 DEF Chosen
    <3>3. \A i \in 1..eval.known : Follows(rows[m], rows[i])
      BY <1>0, <2>2, <3>2 DEF Latest, Follows
    <3> QED
      BY <2>0, <3>1, <3>2, <3>3 DEF Chosen, Follows
  <2> QED
    BY <1>2, <2>1, <2>2 DEF ReadSnapshot
<1>3. ASSUME eval'.known = eval.known, eval'.found = eval.found, eval'.row = eval.row,
             \/ eval'.step = eval.step
             \/ eval.step = "snapshot" /\ eval'.step = "rules"
             \/ eval.step = "rules" /\ eval'.step = "judged"
      PROVE  Chosen'
  <2>1. eval.step # "idle" => eval.known <= Len(rows')
    BY <1>0, RowsGrow DEF Chosen
  <2>2. \A i \in 1..Len(rows) : i \in 1..Len(rows') /\ rows'[i] = rows[i]
    BY <1>0, RowsGrow
  <2>3. eval.step \in {"snapshot", "rules"} /\ eval.found =>
           /\ \E m \in 1..Len(rows') : eval.row = rows'[m]
           /\ \A i \in 1..eval.known : Follows(eval.row, rows'[i])
    <3> SUFFICES ASSUME eval.step \in {"snapshot", "rules"}, eval.found
                 PROVE  /\ \E m \in 1..Len(rows') : eval.row = rows'[m]
                        /\ \A i \in 1..eval.known : Follows(eval.row, rows'[i])
      OBVIOUS
    <3>1. \A i \in 1..eval.known : i \in 1..Len(rows)
      BY <1>0 DEF Chosen
    <3>2. \A i \in 1..eval.known : rows'[i] = rows[i] /\ Follows(eval.row, rows[i])
      BY <2>2, <3>1 DEF Chosen
    <3>3. PICK m \in 1..Len(rows) : eval.row = rows[m]
      BY DEF Chosen
    <3> QED
      BY <2>2, <3>2, <3>3
  <2> QED
    BY <1>3, <2>1, <2>3 DEF Chosen, Follows
<1>4. CASE ReadRules \/ Judge \/ \E r \in Rules : DeleteRule(r)
  <2>1. /\ eval'.known = eval.known /\ eval'.found = eval.found /\ eval'.row = eval.row
        /\ \/ eval'.step = eval.step
           \/ eval.step = "snapshot" /\ eval'.step = "rules"
           \/ eval.step = "rules" /\ eval'.step = "judged"
    BY <1>0, <1>4 DEF ReadRules, Judge, DeleteRule, EvalState
  <2> QED
    BY <1>3, <2>1
<1> QED
  BY <1>1, <1>2, <1>3, <1>4 DEF Next, vars, Tick, CorrectClock, StartOrStop, DriveChanges, Stamp,
     CollectAndSend, Receive, CommitHeartbeat, RemoveStation, CreateRule

\* No false alarm: heartbeats that are repeated, delayed or reordered do not
\* make a report complain of freshness, if a young enough snapshot by a right
\* clock was filed before the evaluation began and nothing older, or by a wrong
\* clock, was received after it.
THEOREM FreshIsFoundFresh == Spec => NoFalseAlarm
<1>1. Init => Chosen
  BY DEF Init, NoEval, Chosen
<1>2. ASSUME TypeOK, Judged, Chosen, Next
      PROVE  eval.step = "rules" /\ eval'.step = "judged" =>
               LET Right(s) == s.captured = s.at IN
               (\E i \in 1..eval.known :
                   /\ Right(rows[i].snapshot)
                   /\ clock - rows[i].snapshot.at <= MaxAge
                   /\ \A j \in 1..Len(rows) :
                          rows[j].received >= rows[i].received =>
                              /\ Right(rows[j].snapshot)
                              /\ rows[j].snapshot.at >= rows[i].snapshot.at)
               => FreshnessCheck(eval.row, eval'.now) = "pass"
  <2> SUFFICES ASSUME eval.step = "rules", eval'.step = "judged",
                      NEW i \in 1..eval.known,
                      clock - rows[i].snapshot.at <= MaxAge,
                      \A j \in 1..Len(rows) :
                         rows[j].received >= rows[i].received =>
                             /\ rows[j].snapshot.captured = rows[j].snapshot.at
                             /\ rows[j].snapshot.at >= rows[i].snapshot.at
               PROVE  FreshnessCheck(eval.row, eval'.now) = "pass"
    OBVIOUS
  <2>0. /\ eval \in EvalState /\ eval.known \in Nat /\ rows \in Seq(Row) /\ Len(rows) \in Nat
        /\ clock \in Int
    BY <1>2 DEF TypeOK, EvalState
  <2>1. eval'.now = clock
    <3>1. CASE Judge
      BY <2>0, <3>1 DEF Judge, EvalState
    <3>2. CASE ReadStation \/ ReadSnapshot \/ ReadRules
      BY <3>2 DEF ReadStation, ReadSnapshot, ReadRules
    <3>3. ASSUME NEW r \in Rules, DeleteRule(r) PROVE FALSE
      BY <2>0, <3>3 DEF DeleteRule, EvalState
    <3> QED
      BY <1>2, <3>1, <3>2, <3>3 DEF Next, Tick, CorrectClock, StartOrStop, DriveChanges, Stamp,
         CollectAndSend, Receive, CommitHeartbeat, RemoveStation, CreateRule
  <2>2. eval.found /\ Follows(eval.row, rows[i]) /\ i \in 1..Len(rows)
    BY <1>2, <2>0 DEF Chosen
  <2>3. PICK m \in 1..Len(rows) : eval.row = rows[m]
    BY <1>2, <2>2 DEF Chosen
  <2>a. \A j \in 1..Len(rows) : rows[j] \in Row
    BY <2>0
  <2>4. /\ rows[i].received \in Int /\ rows[m].received \in Int
        /\ rows[i].snapshot \in Snapshot /\ rows[m].snapshot \in Snapshot
    BY <2>2, <2>3, <2>a DEF Row
  <2>5. rows[m].received >= rows[i].received
    BY <2>2, <2>3, <2>4 DEF Follows
  <2>6. /\ rows[m].snapshot.captured = rows[m].snapshot.at
        /\ rows[m].snapshot.at >= rows[i].snapshot.at
    BY <2>5
  <2>7. rows[m].snapshot.at <= clock
    BY <1>2 DEF Judged, Filed, Reported, Faithful
  <2>8. rows[m].snapshot.at \in Int /\ rows[i].snapshot.at \in Int
    BY <2>4, SnapshotFacts
  <2> QED
    BY <2>0, <2>1, <2>3, <2>6, <2>7, <2>8 DEF FreshnessCheck
<1>3. TypeOK /\ Chosen /\ [Next]_vars => Chosen'
  BY ChosenStep
<1>4. TypeOK /\ Judged /\ Chosen /\ [Next]_vars =>
         [eval.step = "rules" /\ eval'.step = "judged" =>
            LET Right(s) == s.captured = s.at IN
            (\E i \in 1..eval.known :
                /\ Right(rows[i].snapshot)
                /\ clock - rows[i].snapshot.at <= MaxAge
                /\ \A j \in 1..Len(rows) :
                       rows[j].received >= rows[i].received =>
                           /\ Right(rows[j].snapshot)
                           /\ rows[j].snapshot.at >= rows[i].snapshot.at)
            => FreshnessCheck(eval.row, eval'.now) = "pass"]_vars
  BY <1>2
<1> QED
  BY <1>1, <1>3, <1>4, PreflightTypeCorrect, JudgedInvariance, PTL DEF Spec, NoFalseAlarm

-----------------------------------------------------------------------------
(* AgentInstall.                                                           *)

\* A save: what is in the temporary file, and whose credential it is.
Saving ==
    /\ step = "secure" => tmp = [cred |-> memory, scope |-> "machine",
                                 whole |-> FALSE, secured |-> FALSE]
    /\ step = "replace" => tmp = [cred |-> memory, scope |-> "machine",
                                  whole |-> TRUE, secured |-> TRUE]
    /\ step \in {"check", "enroll", "answer"} => ~ Exists(file)
    /\ step \in {"write", "secure", "replace"} /\ Exists(file) => memory = file.cred

\* What was checked or done before a step still holds.
Checked ==
    /\ step \notin {"idle", "done"} /\ sound => proved
    /\ step = "enroll" => proved
    /\ step \in {"register", "start", "wait"} => ServiceLoads(file)

\* A running service holds no other credential than the file, unless it has
\* outlived the removal of another one.
Holds == service.cred \in {0, file.cred} \/ outlived

Installed == InstallTypeOK /\ Saving /\ Checked /\ Holds /\ FileIsWhole

LEMMA NoBlobType == NoBlob \in Blob /\ NoBlob.cred = 0 /\ ~ NoBlob.whole
BY DEF NoBlob, Blob, Credentials

LEMMA FaultType ==
    ASSUME InstallTypeOK, Fault
    PROVE  faults' \in 0..MaxFaults
BY DEF InstallTypeOK, Fault

\* The service after a step.
LEMMA ServiceType ==
    ASSUME InstallTypeOK, [InstallNext]_installVars
    PROVE  service' \in Service
<1>0. /\ service \in Service /\ file.cred \in Credentials
      /\ 0 \in Credentials
  BY DEF InstallTypeOK, Blob, Credentials
<1>1. CASE Register
  BY <1>0, <1>1 DEF Register, Service
<1>2. CASE Start
  BY <1>0, <1>2 DEF Start, Service
<1>3. CASE SvcRun
  BY <1>0, <1>3 DEF SvcRun, Service
<1>4. CASE SvcDoRun
  BY <1>0, <1>4 DEF SvcDoRun, Service
<1>5. CASE Reboot
  <2> DEFINE state == IF service.registered THEN "starting" ELSE "stopped"
  <2>1. service' = [service EXCEPT !.state = state, !.cred = 0] /\ state \in {"starting", "stopped"}
    BY <1>5 DEF Reboot
  <2> HIDE DEF state
  <2> QED
    BY <1>0, <2>1 DEF Service
<1>6. CASE StopService
  BY <1>0, <1>6 DEF StopService, Service
<1>7. CASE SvcFails
  BY <1>0, <1>7 DEF SvcFails, Service
<1>8. CASE UNCHANGED service
  BY <1>0, <1>8
<1> QED
  BY <1>1, <1>2, <1>3, <1>4, <1>5, <1>6, <1>7, <1>8 DEF InstallNext, InstallerStep,
     installVars, windows, StartInstaller, Prepare, Branch, Migrate,
     CheckStore, Enroll, Answer, Write, Secure,
     Replace, StartFails, Wait, KillInstaller, ReplaceFails, AnswerLost,
     StoreBreaks, StoreRepaired, NewToken, DeleteStation,
     RemoveCredential, Fail

LEMMA InstallTypeStep ==
    ASSUME InstallTypeOK, [InstallNext]_installVars
    PROVE  InstallTypeOK'
<1>s. service' \in Service
  BY ServiceType
<1>i. 0 \in Credentials /\ (issued < MaxIssued => issued + 1 \in Credentials)
  BY DEF InstallTypeOK, Credentials
<1>b. /\ NoBlob \in Blob /\ file \in Blob /\ tmp \in Blob
      /\ file.cred \in Credentials /\ memory \in Credentials
  BY NoBlobType DEF InstallTypeOK, Blob
<1>w. /\ [cred |-> memory, scope |-> "machine", whole |-> FALSE, secured |-> FALSE] \in Blob
      /\ [tmp EXCEPT !.whole = TRUE, !.secured = TRUE] \in Blob
  BY <1>b DEF Blob
<1>f. Fault => faults' \in 0..MaxFaults
  BY FaultType
<1> USE DEF InstallTypeOK, Steps, controller, windows
<1>1. CASE StartInstaller
  BY <1>s, <1>1 DEF StartInstaller
<1>2. CASE Prepare
  BY <1>s, <1>2 DEF Prepare, Go
<1>3. CASE Branch
  BY <1>s, <1>3 DEF Branch, Go
<1>4. CASE Migrate
  BY <1>s, <1>i, <1>b, <1>4 DEF Migrate, Fail
<1>5. CASE CheckStore
  BY <1>s, <1>i, <1>5 DEF CheckStore, Fail
<1>6. CASE Enroll
  BY <1>s, <1>i, <1>6 DEF Enroll, Fail
<1>7. CASE Answer
  BY <1>s, <1>7 DEF Answer, Go
<1>8. CASE Write
  BY <1>s, <1>i, <1>w, <1>8 DEF Write, Fail
<1>9. CASE Secure
  BY <1>s, <1>i, <1>b, <1>w, <1>9 DEF Secure
<1>10. CASE Replace
  BY <1>s, <1>i, <1>b, <1>10 DEF Replace, Go
<1>11. CASE Register
  BY <1>s, <1>11 DEF Register, Go
<1>12. CASE Start
  BY <1>s, <1>12 DEF Start, Go
<1>13. CASE Wait
  BY <1>s, <1>i, <1>13 DEF Wait, Fail
<1>14. CASE SvcRun
  BY <1>s, <1>14 DEF SvcRun
<1>15. CASE SvcDoRun
  BY <1>s, <1>15 DEF SvcDoRun
<1>16. CASE KillInstaller
  BY <1>s, <1>i, <1>f, <1>16 DEF KillInstaller
<1>17. CASE Reboot
  BY <1>s, <1>i, <1>f, <1>17 DEF Reboot
<1>18. CASE AnswerLost
  BY <1>s, <1>f, <1>18 DEF AnswerLost, Go
<1>19. CASE StoreBreaks
  BY <1>s, <1>f, <1>19 DEF StoreBreaks
<1>20. CASE StoreRepaired
  BY <1>s, <1>20 DEF StoreRepaired
<1>21. CASE NewToken
  BY <1>s, <1>i, <1>21 DEF NewToken
<1>22. CASE DeleteStation
  BY <1>s, <1>i, <1>f, <1>22 DEF DeleteStation
<1>23. CASE RemoveCredential
  BY <1>s, <1>i, <1>b, <1>23 DEF RemoveCredential
<1>24. CASE StopService
  BY <1>s, <1>24 DEF StopService, Stale
<1>25. CASE SvcFails
  BY <1>s, <1>25 DEF SvcFails
<1>26. CASE StartFails
  BY <1>s, <1>i, <1>26 DEF StartFails, Fail
<1>27. CASE ReplaceFails
  BY <1>s, <1>i, <1>b, <1>f, <1>27 DEF ReplaceFails, Go
<1>28. CASE UNCHANGED installVars
  BY <1>28 DEF installVars
<1> QED
  BY <1>1, <1>2, <1>3, <1>4, <1>5, <1>6, <1>7, <1>8, <1>9, <1>10, <1>11, <1>12,
     <1>13, <1>14, <1>15, <1>16, <1>17, <1>18, <1>19, <1>20, <1>21, <1>22, <1>23, <1>24,
     <1>25, <1>26, <1>27, <1>28 DEF InstallNext, InstallerStep

\* A save and the steps before it.
LEMMA SavingStep ==
    ASSUME Installed, [InstallNext]_installVars
    PROVE  Saving'
<1> USE DEF Installed, Saving, controller, windows, Exists, NoBlob
<1>1. CASE StartInstaller
  BY <1>1 DEF StartInstaller
<1>2. CASE Prepare
  BY <1>2 DEF Prepare, Go
<1>3. CASE Branch
  BY <1>3 DEF Branch, Go
<1>4. CASE Migrate
  BY <1>4 DEF Migrate, Fail
<1>5. CASE CheckStore
  BY <1>5 DEF CheckStore, Fail
<1>6. CASE Enroll
  BY <1>6 DEF Enroll, Fail
<1>7. CASE Answer
  BY <1>7 DEF Answer, Go
<1>8. CASE Write
  BY <1>8 DEF Write, Fail
<1>9. CASE Secure
  <2>1. CASE tmp' = [tmp EXCEPT !.whole = TRUE, !.secured = TRUE] /\ step' = "replace"
    <3>1. tmp = [cred |-> memory, scope |-> "machine", whole |-> FALSE, secured |-> FALSE]
      BY <1>9 DEF Secure
    <3>2. tmp' = [cred |-> memory, scope |-> "machine", whole |-> TRUE, secured |-> TRUE]
      BY <2>1, <3>1
    <3> QED
      BY <1>9, <2>1, <3>2 DEF Secure
  <2>2. CASE step' = "idle"
    BY <1>9, <2>2 DEF Secure
  <2> QED
    BY <1>9, <2>1, <2>2 DEF Secure
<1>10. CASE Replace
  BY <1>10 DEF Replace, Go
<1>11. CASE Register
  BY <1>11 DEF Register, Go
<1>12. CASE Start
  BY <1>12 DEF Start, Go
<1>13. CASE Wait
  BY <1>13 DEF Wait, Fail
<1>14. CASE SvcRun
  BY <1>14 DEF SvcRun
<1>15. CASE SvcDoRun
  BY <1>15 DEF SvcDoRun
<1>16. CASE KillInstaller
  BY <1>16 DEF KillInstaller
<1>17. CASE Reboot
  BY <1>17 DEF Reboot
<1>18. CASE AnswerLost
  BY <1>18 DEF AnswerLost, Go
<1>19. CASE StoreBreaks
  BY <1>19 DEF StoreBreaks
<1>20. CASE StoreRepaired
  BY <1>20 DEF StoreRepaired
<1>21. CASE NewToken
  BY <1>21 DEF NewToken
<1>22. CASE DeleteStation
  BY <1>22 DEF DeleteStation
<1>23. CASE RemoveCredential
  BY <1>23 DEF RemoveCredential
<1>24. CASE StopService
  BY <1>24 DEF StopService
<1>25. CASE SvcFails
  BY <1>25 DEF SvcFails
<1>26. CASE StartFails
  BY <1>26 DEF StartFails, Fail
<1>27. CASE ReplaceFails
  BY <1>27 DEF ReplaceFails, Go
<1>28. CASE UNCHANGED installVars
  BY <1>28 DEF installVars
<1> QED
  BY <1>1, <1>2, <1>3, <1>4, <1>5, <1>6, <1>7, <1>8, <1>9, <1>10, <1>11, <1>12,
     <1>13, <1>14, <1>15, <1>16, <1>17, <1>18, <1>19, <1>20, <1>21, <1>22, <1>23, <1>24,
     <1>25, <1>26, <1>27, <1>28 DEF InstallNext, InstallerStep

\* What a step relies on is not undone by the service, a fault or the operator.
LEMMA CheckedStep ==
    ASSUME Installed, [InstallNext]_installVars
    PROVE  Checked'
<1> USE DEF Installed, Saving, Checked, controller, windows, ServiceLoads
<1>1. CASE StartInstaller
  BY <1>1 DEF StartInstaller
<1>2. CASE Prepare
  BY <1>2 DEF Prepare, Go
<1>3. CASE Branch
  BY <1>3 DEF Branch, Go
<1>4. CASE Migrate
  BY <1>4 DEF Migrate, Fail
<1>5. CASE CheckStore
  BY <1>5 DEF CheckStore, Fail
<1>6. CASE Enroll
  BY <1>6 DEF Enroll, Fail
<1>7. CASE Answer
  BY <1>7 DEF Answer, Go
<1>8. CASE Write
  BY <1>8 DEF Write, Fail
<1>9. CASE Secure
  BY <1>9 DEF Secure
<1>10. CASE Replace
  BY <1>10 DEF Replace, Go
<1>11. CASE Register
  BY <1>11 DEF Register, Go
<1>12. CASE Start
  BY <1>12 DEF Start, Go
<1>13. CASE Wait
  BY <1>13 DEF Wait, Fail
<1>14. CASE SvcRun
  BY <1>14 DEF SvcRun
<1>15. CASE SvcDoRun
  BY <1>15 DEF SvcDoRun
<1>16. CASE KillInstaller
  BY <1>16 DEF KillInstaller
<1>17. CASE Reboot
  BY <1>17 DEF Reboot
<1>18. CASE AnswerLost
  BY <1>18 DEF AnswerLost, Go
<1>19. CASE StoreBreaks
  BY <1>19 DEF StoreBreaks
<1>20. CASE StoreRepaired
  BY <1>20 DEF StoreRepaired
<1>21. CASE NewToken
  BY <1>21 DEF NewToken
<1>22. CASE DeleteStation
  BY <1>22 DEF DeleteStation
<1>23. CASE RemoveCredential
  BY <1>23 DEF RemoveCredential
<1>24. CASE StopService
  BY <1>24 DEF StopService
<1>25. CASE SvcFails
  BY <1>25 DEF SvcFails
<1>26. CASE StartFails
  BY <1>26 DEF StartFails, Fail
<1>27. CASE ReplaceFails
  BY <1>27 DEF ReplaceFails, Go
<1>28. CASE UNCHANGED installVars
  BY <1>28 DEF installVars
<1> QED
  BY <1>1, <1>2, <1>3, <1>4, <1>5, <1>6, <1>7, <1>8, <1>9, <1>10, <1>11, <1>12,
     <1>13, <1>14, <1>15, <1>16, <1>17, <1>18, <1>19, <1>20, <1>21, <1>22, <1>23, <1>24,
     <1>25, <1>26, <1>27, <1>28 DEF InstallNext, InstallerStep

\* The file is replaced by the credential it held, or there was none.
LEMMA FileStep ==
    ASSUME Installed, [InstallNext]_installVars
    PROVE  /\ FileIsWhole' /\ Holds'
           /\ \/ file' = file
              \/ file' = NoBlob /\ step \in {"idle", "done"}
              \/ /\ step = "replace" /\ file'.cred = memory
                 /\ Exists(file) => file'.cred = file.cred
<1>0. service \in Service
  BY DEF Installed, InstallTypeOK
<1>1. CASE Replace
  <2>1. /\ step = "replace" /\ service' = service
        /\ file' = [cred |-> memory, scope |-> "machine", whole |-> TRUE, secured |-> TRUE]
    BY <1>1 DEF Replace, Go, windows, Installed, Saving
  <2>2. Exists(file) => memory = file.cred
    BY <2>1 DEF Installed, Saving
  <2>3. ~ Exists(file) => service.cred = 0 \/ outlived
    BY DEF Exists, NoBlob, Installed, Holds
  <2>4. outlived' = outlived
    BY <1>1 DEF Replace, windows
  <2> QED
    BY <2>1, <2>2, <2>3, <2>4 DEF Installed, FileIsWhole, Holds
<1>2. CASE RemoveCredential
  <2>1. /\ service' = service /\ file' = NoBlob /\ step \in {"idle", "done"}
        /\ outlived' = (service.cred # 0)
    BY <1>2 DEF RemoveCredential
  <2> QED
    BY <2>1 DEF FileIsWhole, Exists, Holds
<1>3. CASE Register \/ Start \/ SvcRun \/ SvcFails
  <2>1. service'.cred = service.cred /\ file' = file /\ outlived' = outlived
    BY <1>0, <1>3 DEF Register, Start, SvcRun, SvcFails, Service
  <2> QED
    BY <2>1 DEF Installed, FileIsWhole, Exists, Holds
<1>4. CASE SvcDoRun
  <2>1. service'.cred \in {0, file.cred} /\ file' = file
    BY <1>0, <1>4 DEF SvcDoRun, Service
  <2> QED
    BY <2>1 DEF Installed, FileIsWhole, Exists, Holds
<1>5. CASE Reboot \/ StopService
  <2>1. service'.cred = 0 /\ file' = file
    BY <1>0, <1>5 DEF Reboot, StopService, Service
  <2> QED
    BY <2>1 DEF Installed, FileIsWhole, Exists, Holds
<1>6. CASE UNCHANGED <<file, service, outlived>>
  BY <1>6 DEF Installed, FileIsWhole, Exists, Holds
<1> QED
  BY <1>1, <1>2, <1>3, <1>4, <1>5, <1>6 DEF InstallNext, InstallerStep, installVars, windows,
     StartInstaller, Prepare, Branch, Migrate,
     CheckStore, Enroll, Answer, Write, Secure,
     StartFails, Wait, KillInstaller, ReplaceFails, AnswerLost, StoreBreaks,
     StoreRepaired, NewToken, DeleteStation, Fail

LEMMA InstalledInit ==
    ASSUME InstallInit
    PROVE  Installed
<1>1. 0 \in Credentials /\ 1 \in Credentials
  BY DEF Credentials
<1>a. /\ step \in Steps /\ memory \in Credentials /\ tmp \in Blob
      /\ sound \in BOOLEAN /\ proved \in BOOLEAN
      /\ removal \in BOOLEAN /\ outlived \in BOOLEAN
  BY <1>1, NoBlobType DEF InstallInit, Steps
<1>b. service \in Service /\ faults \in 0..MaxFaults
  BY <1>1 DEF InstallInit, Service
<1>2. CASE file = NoBlob /\ bound = 0 /\ issued = 0 /\ fresh = TRUE
  <2>1. InstallTypeOK
    BY <1>1, <1>a, <1>b, <1>2, NoBlobType DEF InstallTypeOK
  <2> QED
    BY <1>2, <2>1 DEF InstallInit, Installed, Saving, Checked, Holds, FileIsWhole,
       Exists
<1>3. CASE /\ file \in [cred : {1}, scope : {"user", "stranger"}, whole : {TRUE}, secured : {FALSE}]
           /\ bound = 1 /\ issued = 1 /\ fresh = FALSE
  <2>1. file \in Blob /\ file.whole /\ file.scope # "machine"
    BY <1>1, <1>3 DEF Blob
  <2>2. InstallTypeOK
    BY <1>1, <1>a, <1>b, <1>3, <2>1 DEF InstallTypeOK
  <2> QED
    BY <2>1, <2>2 DEF InstallInit, Installed, Saving, Checked, Holds, FileIsWhole
<1> QED
  BY <1>2, <1>3 DEF InstallInit

\* The inductive invariant of the installation.
LEMMA InstalledInvariance == InstallSpec => []Installed
<1>1. InstallInit => Installed
  BY InstalledInit
<1>2. Installed /\ [InstallNext]_installVars => Installed'
  BY InstallTypeStep, SavingStep, CheckedStep, FileStep DEF Installed
<1> QED
  BY <1>1, <1>2, PTL DEF InstallSpec

\* The installer's steps, the credential blobs, the service and the counters keep
\* their types, for any number of faults and installations.
THEOREM InstallTypeCorrect == InstallSpec => []InstallTypeOK
<1>1. Installed => InstallTypeOK
  BY DEF Installed
<1> QED
  BY <1>1, InstalledInvariance, PTL

\* Whenever the installer is killed or the PC goes down, the credential file is
\* complete, and in machine scope only with its ACL set
\* (_write_bytes_atomically).
THEOREM CredentialFileIsWhole == InstallSpec => []FileIsWhole
<1>1. Installed => FileIsWhole
  BY DEF Installed
<1> QED
  BY <1>1, InstalledInvariance, PTL

\* The token is used only after the credential store has worked since the
\* installer was started (check_credential_store before ensure_credential).
THEOREM TokenIsNotWasted == InstallSpec => TokenNotWasted
<1>1. ASSUME Installed, InstallNext, issued' # issued PROVE proved
  <2>1. CASE Enroll
    BY <1>1, <2>1 DEF Enroll, Installed, Checked
  <2> QED
    BY <1>1, <2>1 DEF InstallNext, InstallerStep, StartInstaller, Prepare,
       Branch, Migrate, CheckStore, Answer, Write,
       Secure, Replace, Register, Start, Wait,
       SvcRun, SvcDoRun, KillInstaller, Reboot,
       SvcFails, StartFails, ReplaceFails, StopService,
       AnswerLost, StoreBreaks, StoreRepaired, NewToken,
       DeleteStation, RemoveCredential, Fail, controller
<1>2. Installed /\ [InstallNext]_installVars => [issued' # issued => proved]_installVars
  BY <1>1
<1> QED
  BY <1>2, InstalledInvariance, PTL DEF InstallSpec, TokenNotWasted

\* An installation, finished or cut off anywhere, does not lose or replace the
\* credential that the PC holds; only the operator removes it.
THEOREM CredentialIsNotLost == InstallSpec => CredentialSurvives
<1>1. Installed /\ [InstallNext]_installVars =>
         [Exists(file) =>
             \/ file'.cred = file.cred
             \/ file' = NoBlob /\ step \in {"idle", "done"}]_installVars
  BY FileStep
<1> QED
  BY <1>1, InstalledInvariance, PTL DEF InstallSpec, CredentialSurvives

\* "Agent installed and running" is said only with a credential file that
\* LocalSystem can decrypt, and of a service that holds no other credential,
\* except that it came up again before the operator removed the old file: for
\* any number of faults, failed starts and installations (wait_for_service).
THEOREM ReportedSuccessFits == InstallSpec => SuccessFitsFile
<1>1. ASSUME Installed, InstallNext, step # "done", step' = "done"
      PROVE  /\ service.state = "running"
             /\ ServiceLoads(file)
             /\ service.cred \in {0, file.cred} \/ outlived
  <2>1. CASE Wait
    BY <1>1, <2>1 DEF Wait, Fail, Installed, Checked, Holds
  <2> QED
    BY <1>1, <2>1 DEF InstallNext, InstallerStep, StartInstaller, Prepare,
       Branch, Migrate, CheckStore, Enroll, Answer,
       Write, Secure, Replace, Register, Start, StartFails,
       SvcRun, SvcFails, SvcDoRun, KillInstaller, Reboot, ReplaceFails,
       AnswerLost, StoreBreaks, StoreRepaired, NewToken,
       DeleteStation, StopService, RemoveCredential, Fail, Go
<1>2. Installed /\ [InstallNext]_installVars =>
         [step # "done" /\ step' = "done" =>
             /\ service.state = "running"
             /\ ServiceLoads(file)
             /\ service.cred \in {0, file.cred} \/ outlived]_installVars
  BY <1>1
<1> QED
  BY <1>2, InstalledInvariance, PTL DEF InstallSpec, SuccessFitsFile

=============================================================================
