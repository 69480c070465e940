---------------------------- MODULE TrueNASProofs ----------------------------
(***************************************************************************)
(* Proofs about what the executions of publish jobs do to TrueNAS, for any *)
(* sets of jobs, stations and worker threads and any deployment: any       *)
(* number of crashes, calls that raise and calls that are executed late.   *)
(***************************************************************************)
EXTENDS TrueNASPublish, WellFoundedInduction, TLAPS

-----------------------------------------------------------------------------
(* The inductive invariant.                                                *)

\* Where an execution has a target to work on.
Working == {"find_snapshot", "create_snapshot", "find_clone", "clone", "switch",
            "read_back", "recheck"}

\* An update still to come is one of a station's extent to a clone made for it.
LateKnown ==
    \A u \in late.updates : \E s \in Stations, j \in Jobs : u = <<s, Clone(j, s)>>

Inv == TypeOK /\ LateKnown /\ VerifiedIsMapped

-----------------------------------------------------------------------------
(* What every step may do, to TrueNAS and to one execution.                *)

\* Clones are only added, and a station is only ever switched to a clone that
\* was made for it and exists.
NasStep ==
    /\ snapshots' \subseteq Jobs
    /\ clones \subseteq clones' /\ clones' \subseteq Jobs \X Stations
    /\ extent' \in [Stations -> Device]
    /\ late' \in LateCalls
    /\ \A s \in Stations :
        extent'[s] = extent[s] \/ \E j \in Jobs : extent'[s] = Clone(j, s) /\ Clone(j, s) \in clones'
    /\ \A u \in late'.updates :
        u \in late.updates \/ \E s \in Stations, j \in Jobs : u = <<s, Clone(j, s)>>

\* A new verified verdict is about the device the station exports.
RunStep(w) ==
    /\ run' \in [Workers -> RunState]
    /\ \A v \in Workers : v # w => run'[v] = run[v]
    /\ run'[w].pc \in Working => run'[w].todo # {}
    /\ \A s \in Stations : run'[w].result[s].status = "verified" =>
        \/ run'[w].job = run[w].job /\ run[w].result[s].status = "verified"
        \/ extent[s] = Clone(run'[w].job, s)

-----------------------------------------------------------------------------
(* Helpers.                                                                *)

\* A set of numbers that is not empty has a least member.
LEMMA Least ==
    ASSUME NEW S \in SUBSET Nat, S # {}
    PROVE  \E s \in S : \A t \in S : s <= t
<1> DEFINE less == OpToRel(<, Nat)
<1>1. IsWellFoundedOn(less, Nat)
  BY NatLessThanWellFounded
<1>2. \A p, q \in Nat : <<p, q>> \in less <=> p < q
  BY DEF OpToRel
<1> HIDE DEF less
<1>3. PICK s \in S : \A t \in S : ~(<<t, s>> \in less)
  BY <1>1, WFMin
<1>4. ASSUME NEW t \in S PROVE s <= t
  <2>1. s \in Nat /\ t \in Nat
    OBVIOUS
  <2>2. ~ (t < s)
    BY <1>2, <1>3, <2>1, Zenon
  <2> QED
    BY <2>1, <2>2
<1> QED
  BY <1>3, <1>4

\* An execution with targets left works on one of them, and its clone has a
\* name of the right form.
LEMMA StationType ==
    ASSUME TypeOK, NEW w \in Workers, run[w].todo # {}
    PROVE  /\ Station(w) \in run[w].todo
           /\ Station(w) \in Stations
           /\ run[w].job \in Jobs
           /\ Destination(w) \in Jobs \X Stations
           /\ Destination(w) \in Device
<1>1. run[w] \in RunState
  BY DEF TypeOK
<1>2. run[w].todo \in SUBSET Nat /\ run[w].todo \subseteq Stations /\ run[w].job \in Jobs
  BY <1>1, PublishAssumption DEF RunState
<1>3. \E s \in run[w].todo : \A t \in run[w].todo : s <= t
  BY <1>2, Least
<1>4. Station(w) \in run[w].todo
  BY <1>3 DEF Station
<1>5. Station(w) \in Stations /\ Slug[Station(w)] \in Stations
  BY <1>2, <1>4, PublishAssumption
<1> QED
  BY <1>2, <1>4, <1>5 DEF Destination, Clone, Device

\* An idle execution has reached no verdict.
LEMMA IdleType ==
    /\ Idle \in RunState
    /\ Idle.pc = "idle"
    /\ \A s \in Stations : Idle.result[s].status = "none"
    /\ NoResult \in [Stations -> TargetResult]
<1>1. (CHOOSE j \in Jobs : TRUE) \in Jobs
  BY PublishAssumption
<1>2. NoResult \in [Stations -> TargetResult]
  BY DEF NoResult, TargetResult, Verdict, Original, Device
<1> QED
  BY <1>1, <1>2 DEF Idle, RunState, NoResult

\* A verdict is entered in the execution's results and nowhere else.
LEMMA ConcludeStep ==
    ASSUME TypeOK, NEW w \in Workers, run[w].todo # {},
           NEW status \in Verdict, NEW created \in BOOLEAN,
           status = "verified" => extent[Station(w)] = Destination(w),
           Conclude(w, status, created)
    PROVE  RunStep(w)
<1> DEFINE st == Station(w)
           rest == run[w].todo \ {st}
           verdict == [run[w].result[st] EXCEPT !.status = status, !.created = created]
           new == [run[w] EXCEPT !.result = [@ EXCEPT ![st] = verdict],
                                 !.todo = rest,
                                 !.attempted = FALSE,
                                 !.pc = IF rest = {} THEN "persist" ELSE "find_clone"]
<1>1. run[w] \in RunState /\ st \in Stations /\ run \in [Workers -> RunState]
  BY StationType DEF TypeOK
<1>2. run' = [run EXCEPT ![w] = new]
  BY <1>1 DEF Conclude
<1>3. verdict \in TargetResult /\ verdict.status = status
  <2>1. run[w].result[st] \in TargetResult
    BY <1>1 DEF RunState
  <2> QED
    BY <2>1 DEF TargetResult
<1> HIDE DEF verdict
<1>4. new \in RunState
  BY <1>1, <1>3 DEF RunState
<1>5. /\ new.job = run[w].job
      /\ new.pc \in Working => new.todo # {}
      /\ \A s \in Stations : new.result[s] = IF s = st THEN verdict ELSE run[w].result[s]
  BY <1>1 DEF RunState, Working
<1> HIDE DEF new
<1>6. run'[w] = new /\ run' \in [Workers -> RunState] /\ \A v \in Workers : v # w => run'[v] = run[v]
  BY <1>1, <1>2, <1>4
<1>7. Destination(w) = Clone(run[w].job, st)
  BY DEF Destination
<1> QED
  BY <1>3, <1>5, <1>6, <1>7 DEF RunStep

\* An execution goes on to another call.
LEMMA GotoStep ==
    ASSUME TypeOK, NEW w \in Workers,
           NEW pc \in Working \cup {"persist"}, Goto(w, pc),
           pc \in Working => run[w].todo # {}
    PROVE  RunStep(w)
<1> DEFINE new == [run[w] EXCEPT !.pc = pc]
<1>1. run \in [Workers -> RunState] /\ run[w] \in RunState /\ run' = [run EXCEPT ![w] = new]
  BY DEF TypeOK, Goto
<1>2. /\ new \in RunState /\ new.pc = pc /\ new.todo = run[w].todo
      /\ new.job = run[w].job /\ new.result = run[w].result
  BY <1>1 DEF RunState, Working
<1> HIDE DEF new
<1>3. run'[w] = new /\ run' \in [Workers -> RunState] /\ \A v \in Workers : v # w => run'[v] = run[v]
  BY <1>1, <1>2
<1> QED
  BY <1>2, <1>3 DEF RunStep

\* An execution ends: with its verdicts persisted, by an exception or a crash.
LEMMA IdleStep ==
    ASSUME TypeOK, NEW w \in Workers, run' = [run EXCEPT ![w] = Idle]
    PROVE  RunStep(w)
<1>1. run \in [Workers -> RunState]
  BY DEF TypeOK
<1>2. run'[w] = Idle /\ run' \in [Workers -> RunState] /\ \A v \in Workers : v # w => run'[v] = run[v]
  BY <1>1, IdleType
<1> QED
  BY <1>2, IdleType DEF RunStep, Working

\* Steps of these two forms, with the results either as they were or as one
\* execution has them, keep the invariant.
LEMMA Preserved ==
    ASSUME Inv, NasStep, NEW w \in Workers, RunStep(w),
           queue' \subseteq Jobs, crashes' \in Nat,
           UNCHANGED deployment,
           \/ result' = result
           \/ result' = [result EXCEPT ![run[w].job] = run[w].result]
    PROVE  Inv'
<1>0. /\ TypeOK
      /\ run[w] \in RunState /\ run[w].job \in Jobs /\ run[w].result \in [Stations -> TargetResult]
      /\ result \in [Jobs -> [Stations -> TargetResult]]
  BY DEF Inv, TypeOK, RunState
<1>1. TypeOK'
  <2>1. result' \in [Jobs -> [Stations -> TargetResult]]
    BY <1>0
  <2>2. \A v \in Workers : run'[v].pc \in Working => run'[v].todo # {}
    BY <1>0 DEF RunStep, TypeOK, Working
  <2> QED
    BY <1>0, <2>1, <2>2 DEF NasStep, RunStep, TypeOK, Working
<1>2. LateKnown'
  <2> SUFFICES ASSUME NEW u \in late'.updates
               PROVE  \E s \in Stations, j \in Jobs : u = <<s, Clone(j, s)>>
    BY DEF LateKnown, Clone
  <2> QED
    BY DEF Inv, NasStep, LateKnown
<1>3. VerifiedIsMapped'
  <2> SUFFICES ASSUME NEW j \in Jobs, NEW s \in Targets[j], \A k \in Jobs \ {j} : Clone(k, s) \notin clones',
                      \/ result'[j][s].status = "verified"
                      \/ \E v \in Workers : run'[v].job = j /\ run'[v].result[s].status = "verified"
               PROVE  extent'[s] = Clone(j, s)
    BY DEF VerifiedIsMapped, Clone
  <2>1. s \in Stations /\ \A k \in Jobs \ {j} : Clone(k, s) \notin clones
    BY PublishAssumption DEF NasStep
  <2>2. ASSUME NEW v \in Workers, run[v].job = j, run[v].result[s].status = "verified"
        PROVE  extent[s] = Clone(j, s)
    BY <2>1, <2>2 DEF Inv, VerifiedIsMapped
  <2>3. ASSUME result[j][s].status = "verified"
        PROVE  extent[s] = Clone(j, s)
    BY <2>1, <2>3 DEF Inv, VerifiedIsMapped
  <2>4. extent[s] = Clone(j, s)
    <3>1. CASE result'[j][s].status = "verified"
      <4>1. result[j][s].status = "verified" \/ (run[w].job = j /\ run[w].result[s].status = "verified")
        BY <1>0, <2>1, <3>1
      <4> QED
        BY <2>2, <2>3, <4>1
    <3>2. CASE \E v \in Workers : run'[v].job = j /\ run'[v].result[s].status = "verified"
      <4>1. PICK v \in Workers : run'[v].job = j /\ run'[v].result[s].status = "verified"
        BY <3>2
      <4>2. CASE v # w
        <5>1. run'[v] = run[v]
          BY <4>2 DEF RunStep
        <5> QED
          BY <2>2, <4>1, <5>1
      <4>3. CASE v = w
        <5>1. \/ run[w].job = j /\ run[w].result[s].status = "verified"
              \/ extent[s] = Clone(j, s)
          BY <2>1, <4>1, <4>3 DEF RunStep
        <5> QED
          BY <2>2, <5>1
      <4> QED
        BY <4>2, <4>3
    <3> QED
      BY <3>1, <3>2
  <2> QED
    BY <2>1, <2>4 DEF NasStep
<1> QED
  BY <1>1, <1>2, <1>3 DEF Inv

-----------------------------------------------------------------------------
(* The steps.                                                              *)

\* TrueNAS as it was.
LEMMA SameNas ==
    ASSUME Inv, UNCHANGED nas
    PROVE  NasStep
BY DEF Inv, TypeOK, nas, NasStep

\* The calls of an execution: each changes TrueNAS and the execution as
\* NasStep and RunStep say.
LEMMA CallStep ==
    ASSUME Inv, NEW w \in Workers, Step(w)
    PROVE  NasStep /\ RunStep(w) /\ UNCHANGED <<deployment, queue, result, crashes>>
<1>0. TypeOK /\ run[w] \in RunState /\ run \in [Workers -> RunState]
  BY DEF Inv, TypeOK
<1>1. CASE Plan(w)
  <2> DEFINE j == run[w].job
             planned == [s \in Stations |-> IF s \in Targets[j]
                                            THEN [NoResult[s] EXCEPT !.old = extent[s]]
                                            ELSE NoResult[s]]
             new == [run[w] EXCEPT !.pc = "find_snapshot", !.todo = Targets[j], !.result = planned]
  <2>1. /\ j \in Jobs /\ Targets[j] \in SUBSET Stations /\ Targets[j] # {}
        /\ extent \in [Stations -> Device]
    BY <1>0, PublishAssumption DEF RunState, TypeOK
  <2>2. planned \in [Stations -> TargetResult] /\ \A s \in Stations : planned[s].status = "none"
    BY <2>1, IdleType DEF NoResult, TargetResult
  <2>3. run' = [run EXCEPT ![w] = new]
    BY <1>0, <1>1 DEF Plan
  <2> HIDE DEF planned
  <2>4. new \in RunState /\ new.pc = "find_snapshot" /\ new.todo # {} /\ new.result = planned
    BY <1>0, <2>1, <2>2 DEF RunState
  <2> HIDE DEF new
  <2>5. run'[w] = new /\ run' \in [Workers -> RunState] /\ \A v \in Workers : v # w => run'[v] = run[v]
    BY <1>0, <2>3, <2>4
  <2>6. RunStep(w)
    BY <2>2, <2>4, <2>5 DEF RunStep
  <2> QED
    BY <1>1, <2>6, SameNas DEF Plan
<1>2. CASE FindSnapshot(w)
  <2>1. UNCHANGED nas /\ UNCHANGED <<deployment, queue, result, crashes>> /\ run[w].todo # {}
    BY <1>0, <1>2 DEF FindSnapshot, At, TypeOK
  <2>3. CASE run[w].job \in snapshots
    BY <1>0, <1>2, <2>1, <2>3, GotoStep, SameNas DEF FindSnapshot, Working
  <2>4. CASE run[w].job \notin snapshots
    BY <1>0, <1>2, <2>1, <2>4, GotoStep, SameNas DEF FindSnapshot, Working
  <2> QED
    BY <2>3, <2>4
<1>3. ASSUME NEW executed \in BOOLEAN, NEW raised \in BOOLEAN, NEW pending \in BOOLEAN,
             CreateSnapshot(w, executed, raised, pending)
      PROVE  NasStep /\ RunStep(w) /\ UNCHANGED <<deployment, queue, result, crashes>>
  <2>1. /\ run[w].todo # {} /\ run[w].job \in Jobs
        /\ UNCHANGED <<deployment, clones, extent, queue, result, crashes>>
    BY <1>0, <1>3 DEF CreateSnapshot, At, TypeOK, RunState
  <2>2. NasStep
    <3>1. late' \in LateCalls /\ late'.updates = late.updates
      <4>1. late \in LateCalls
        BY <1>0 DEF TypeOK
      <4>2. late' = late \/ late' = [late EXCEPT !.snapshots = @ \cup {run[w].job}]
        BY <1>3 DEF CreateSnapshot
      <4> QED
        BY <2>1, <4>1, <4>2 DEF LateCalls
    <3>2. snapshots' \subseteq Jobs
      BY <1>0, <1>3, <2>1 DEF CreateSnapshot, TypeOK
    <3> QED
      BY <1>0, <2>1, <3>1, <3>2 DEF NasStep, TypeOK
  <2>3. CASE raised
    BY <1>0, <1>3, <2>1, <2>2, <2>3, IdleStep DEF CreateSnapshot
  <2>4. CASE ~raised
    <3>1. Goto(w, "find_clone")
      BY <1>3, <2>4 DEF CreateSnapshot
    <3> QED
      BY <1>0, <2>1, <2>2, <3>1, GotoStep DEF Working
  <2> QED
    BY <2>3, <2>4
<1>4. ASSUME NEW executed \in BOOLEAN, NEW raised \in BOOLEAN, NEW pending \in BOOLEAN,
             CloneSnapshot(w, executed, raised, pending)
      PROVE  NasStep /\ RunStep(w) /\ UNCHANGED <<deployment, queue, result, crashes>>
  <2>1. /\ run[w].todo # {}
        /\ UNCHANGED <<deployment, snapshots, extent, queue, result, crashes>>
    BY <1>0, <1>4 DEF CloneSnapshot, At, TypeOK
  <2>2. Destination(w) \in Jobs \X Stations
    BY <1>0, <2>1, StationType
  <2>3. NasStep
    <3>1. late' \in LateCalls /\ late'.updates = late.updates
      <4>1. late \in LateCalls
        BY <1>0 DEF TypeOK
      <4>2. late' = late \/ late' = [late EXCEPT !.clones = @ \cup {Destination(w)}]
        BY <1>4 DEF CloneSnapshot
      <4> HIDE DEF Destination
      <4> QED
        BY <2>2, <4>1, <4>2 DEF LateCalls
    <3>2. clones \subseteq clones' /\ clones' \subseteq Jobs \X Stations
      BY <1>0, <1>4, <2>2 DEF CloneSnapshot, TypeOK
    <3> QED
      BY <1>0, <2>1, <3>1, <3>2 DEF NasStep, TypeOK
  <2>4. CASE raised
    <3>1. Conclude(w, "error", FALSE)
      BY <1>4, <2>4 DEF CloneSnapshot
    <3> QED
      BY <1>0, <2>1, <2>3, <3>1, ConcludeStep DEF Verdict
  <2>5. CASE ~raised
    <3>1. Goto(w, "switch")
      BY <1>4, <2>5 DEF CloneSnapshot
    <3> QED
      BY <1>0, <2>1, <2>3, <3>1, GotoStep DEF Working
  <2> QED
    BY <2>4, <2>5
<1>5. ASSUME NEW executed \in BOOLEAN, NEW raised \in BOOLEAN, NEW pending \in BOOLEAN,
             Switch(w, executed, raised, pending)
      PROVE  NasStep /\ RunStep(w) /\ UNCHANGED <<deployment, queue, result, crashes>>
  <2> DEFINE pc == IF raised THEN "recheck" ELSE "read_back"
             new == [run[w] EXCEPT !.pc = pc, !.attempted = TRUE]
  <2>1. /\ run[w].todo # {}
        /\ UNCHANGED <<deployment, snapshots, clones, queue, result, crashes>>
    BY <1>0, <1>5 DEF Switch, At, TypeOK
  <2>2. /\ Station(w) \in Stations /\ Destination(w) \in Jobs \X Stations /\ run[w].job \in Jobs
        /\ Destination(w) \in Device /\ Destination(w) = Clone(run[w].job, Station(w))
    BY <1>0, <2>1, StationType DEF Destination
  <2>3. NasStep
    <3>1. extent \in [Stations -> Device] /\ snapshots \subseteq Jobs
          /\ clones \subseteq Jobs \X Stations /\ late \in LateCalls
      BY <1>0 DEF TypeOK
    <3>2. /\ \/ extent' = extent
             \/ extent' = [extent EXCEPT ![Station(w)] = Destination(w)] /\ Destination(w) \in clones
          /\ \/ late' = late
             \/ late' = [late EXCEPT !.updates = @ \cup {<<Station(w), Destination(w)>>}]
      BY <1>5 DEF Switch
    <3> HIDE DEF Station, Destination
    <3>3. \A s \in Stations : extent'[s] = extent[s]
                               \/ \E j \in Jobs : extent'[s] = Clone(j, s) /\ Clone(j, s) \in clones'
      BY <2>1, <2>2, <3>1, <3>2
    <3>4. late' \in LateCalls
      BY <2>2, <3>1, <3>2 DEF LateCalls
    <3>5. \/ late'.updates = late.updates
          \/ late'.updates = late.updates \cup {<<Station(w), Destination(w)>>}
      BY <3>1, <3>2 DEF LateCalls
    <3>6. \A u \in late'.updates :
            u \in late.updates \/ \E s \in Stations, j \in Jobs : u = <<s, Clone(j, s)>>
      BY <2>2, <3>5
    <3> QED
      BY <2>1, <2>2, <3>1, <3>2, <3>3, <3>4, <3>6 DEF NasStep
  <2>4. run' = [run EXCEPT ![w] = new]
    BY <1>0, <1>5 DEF Switch
  <2>5. /\ new \in RunState /\ new.pc = pc /\ new.todo = run[w].todo
        /\ new.job = run[w].job /\ new.result = run[w].result
    BY <1>0 DEF RunState
  <2> HIDE DEF new
  <2>6. run'[w] = new /\ run' \in [Workers -> RunState] /\ \A v \in Workers : v # w => run'[v] = run[v]
    BY <1>0, <2>4, <2>5
  <2>7. RunStep(w)
    BY <2>1, <2>5, <2>6 DEF RunStep
  <2> QED
    BY <2>1, <2>3, <2>7
<1>6. ASSUME NEW raised \in BOOLEAN, FindClone(w, raised)
      PROVE  NasStep /\ RunStep(w) /\ UNCHANGED <<deployment, queue, result, crashes>>
  <2>1. run[w].todo # {} /\ UNCHANGED nas /\ UNCHANGED <<deployment, queue, result, crashes>>
    BY <1>0, <1>6 DEF FindClone, At, TypeOK
  <2>2. NasStep
    BY <2>1, SameNas
  <2>3. CASE raised
    BY <1>0, <1>6, <2>1, <2>2, <2>3, ConcludeStep DEF FindClone, Verdict
  <2>4. CASE ~raised
    <3>1. PICK pc \in {"switch", "clone"} : Goto(w, pc)
      BY <1>6, <2>4 DEF FindClone
    <3> QED
      BY <1>0, <2>1, <2>2, <3>1, GotoStep DEF Working
  <2> QED
    BY <2>3, <2>4
<1>7. ASSUME NEW raised \in BOOLEAN, ReadBack(w, raised)
      PROVE  NasStep /\ RunStep(w) /\ UNCHANGED <<deployment, queue, result, crashes>>
  <2>1. run[w].todo # {} /\ UNCHANGED nas /\ UNCHANGED <<deployment, queue, result, crashes>>
    BY <1>0, <1>7 DEF ReadBack, TypeOK
  <2>2. NasStep
    BY <2>1, SameNas
  <2>3. \/ Conclude(w, "verified", TRUE) /\ extent[Station(w)] = Destination(w)
        \/ Conclude(w, "recovery_required", TRUE)
        \/ Conclude(w, "error", TRUE)
        \/ Goto(w, "recheck")
    BY <1>7 DEF ReadBack, At
  <2>4. CASE Conclude(w, "verified", TRUE) /\ extent[Station(w)] = Destination(w)
    BY <1>0, <2>1, <2>2, <2>4, ConcludeStep DEF Verdict
  <2>5. CASE Conclude(w, "recovery_required", TRUE)
    BY <1>0, <2>1, <2>2, <2>5, ConcludeStep DEF Verdict
  <2>6. CASE Conclude(w, "error", TRUE)
    BY <1>0, <2>1, <2>2, <2>6, ConcludeStep DEF Verdict
  <2>7. CASE Goto(w, "recheck")
    BY <1>0, <2>1, <2>2, <2>7, GotoStep DEF Working
  <2> QED
    BY <2>3, <2>4, <2>5, <2>6, <2>7
<1>8. CASE SkipSwitch(w)
  <2>1. run[w].todo # {} /\ UNCHANGED nas /\ UNCHANGED <<deployment, queue, result, crashes>>
    BY <1>0, <1>8 DEF SkipSwitch, At, TypeOK
  <2>2. NasStep
    BY <2>1, SameNas
  <2> QED
    BY <1>0, <1>8, <2>1, <2>2, GotoStep DEF SkipSwitch, Working
<1> QED
  BY <1>1, <1>2, <1>3, <1>4, <1>5, <1>6, <1>7, <1>8 DEF Step

\* A step of the queue alone disturbs nothing.
LEMMA OnlyTheQueue ==
    ASSUME Inv, queue' \subseteq Jobs,
           UNCHANGED <<deployment, snapshots, clones, extent, late, run, result, crashes>>
    PROVE  Inv'
<1>1. TypeOK'
  BY DEF Inv, TypeOK
<1>2. LateKnown'
  BY DEF Inv, LateKnown, Clone
<1>3. VerifiedIsMapped'
  BY DEF Inv, VerifiedIsMapped, Clone
<1> QED
  BY <1>1, <1>2, <1>3 DEF Inv

\* A late execution of a call is one more step of TrueNAS.
LEMMA LateStep ==
    ASSUME Inv, LateSnapshot \/ LateClone \/ LateUpdate
    PROVE  NasStep /\ UNCHANGED <<deployment, queue, run, result, crashes>>
<1>0. /\ late \in LateCalls /\ late.snapshots \subseteq Jobs /\ late.clones \subseteq Jobs \X Stations
      /\ extent \in [Stations -> Device] /\ clones \subseteq Jobs \X Stations /\ snapshots \subseteq Jobs
  BY DEF Inv, TypeOK, LateCalls
<1>1. CASE LateSnapshot
  <2>1. PICK j \in late.snapshots : snapshots' = snapshots \cup {j}
                                    /\ late' = [late EXCEPT !.snapshots = @ \ {j}]
    BY <1>1 DEF LateSnapshot
  <2>2. UNCHANGED <<deployment, clones, extent, queue, run, result, crashes>>
    BY <1>1 DEF LateSnapshot
  <2>3. late' \in LateCalls /\ late'.updates = late.updates
    BY <1>0, <2>1 DEF LateCalls
  <2> QED
    BY <1>0, <2>1, <2>2, <2>3 DEF NasStep
<1>2. CASE LateClone
  <2>1. PICK c \in late.clones : clones' = clones \cup {c}
                                 /\ late' = [late EXCEPT !.clones = @ \ {c}]
    BY <1>2 DEF LateClone
  <2>2. UNCHANGED <<deployment, snapshots, extent, queue, run, result, crashes>>
    BY <1>2 DEF LateClone
  <2>3. late' \in LateCalls /\ late'.updates = late.updates
    BY <1>0, <2>1 DEF LateCalls
  <2> QED
    BY <1>0, <2>1, <2>2, <2>3 DEF NasStep
<1>3. CASE LateUpdate
  <2>1. PICK u \in late.updates : /\ u[2] \in clones /\ extent' = [extent EXCEPT ![u[1]] = u[2]]
                                  /\ late' = [late EXCEPT !.updates = @ \ {u}]
    BY <1>3 DEF LateUpdate
  <2>2. PICK s \in Stations, j \in Jobs : u = <<s, Clone(j, s)>>
    BY <2>1 DEF Inv, LateKnown
  <2>3. UNCHANGED <<deployment, snapshots, clones, queue, run, result, crashes>>
    BY <1>3 DEF LateUpdate
  <2>4. late' \in LateCalls /\ late'.updates \subseteq late.updates
    BY <1>0, <2>1 DEF LateCalls
  <2>5. /\ extent' = [extent EXCEPT ![s] = Clone(j, s)]
        /\ Clone(j, s) \in clones /\ Clone(j, s) \in Device
    BY <1>0, <2>1, <2>2 DEF Device
  <2>6. extent' \in [Stations -> Device]
    BY <1>0, <2>5
  <2>7. \A t \in Stations : extent'[t] = extent[t]
                             \/ \E k \in Jobs : extent'[t] = Clone(k, t) /\ Clone(k, t) \in clones'
    BY <1>0, <2>3, <2>5
  <2> QED
    BY <1>0, <2>3, <2>4, <2>6, <2>7 DEF NasStep
<1> QED
  BY <1>1, <1>2, <1>3

\* A step of TrueNAS alone disturbs no execution and no verdict.
LEMMA OnlyTrueNAS ==
    ASSUME Inv, NasStep, UNCHANGED <<deployment, queue, run, result, crashes>>
    PROVE  Inv'
<1>1. TypeOK'
  BY DEF Inv, TypeOK, NasStep
<1>2. LateKnown'
  <2> SUFFICES ASSUME NEW u \in late'.updates
               PROVE  \E s \in Stations, j \in Jobs : u = <<s, Clone(j, s)>>
    BY DEF LateKnown, Clone
  <2> QED
    BY DEF Inv, NasStep, LateKnown
<1>3. VerifiedIsMapped'
  <2> SUFFICES ASSUME NEW j \in Jobs, NEW s \in Targets[j],
                      \A k \in Jobs \ {j} : Clone(k, s) \notin clones',
                      \/ result[j][s].status = "verified"
                      \/ \E v \in Workers : run[v].job = j /\ run[v].result[s].status = "verified"
               PROVE  extent'[s] = Clone(j, s)
    BY DEF VerifiedIsMapped, Clone
  <2>1. s \in Stations /\ \A k \in Jobs \ {j} : Clone(k, s) \notin clones
    BY PublishAssumption DEF NasStep
  <2>2. extent[s] = Clone(j, s)
    BY <2>1 DEF Inv, VerifiedIsMapped
  <2> QED
    BY <2>1, <2>2 DEF NasStep
<1> QED
  BY <1>1, <1>2, <1>3 DEF Inv

\* The invariant is inductive.
LEMMA InvInductive ==
    /\ Init => Inv
    /\ Inv /\ [Next]_vars => Inv'
<1>1. Init => Inv
  <2> SUFFICES ASSUME Init PROVE Inv
    OBVIOUS
  <2>1. \A w \in Workers : run[w] = Idle
    BY DEF Init
  <2>2. TypeOK
    <3>1. late \in LateCalls
      BY DEF Init, LateCalls
    <3>2. deployment \in Deployments /\ queue \subseteq Jobs
      BY PublishAssumption DEF Init
    <3>3. extent \in [Stations -> Device]
      BY DEF Init, Device, Original
    <3> QED
      BY <2>1, <3>1, <3>2, <3>3, IdleType DEF Init, TypeOK
  <2>3. LateKnown
    BY DEF Init, LateKnown
  <2>4. VerifiedIsMapped
    <3>1. ASSUME NEW j \in Jobs, NEW s \in Targets[j]
          PROVE  result[j][s].status = "none"
      BY <3>1, IdleType, PublishAssumption DEF Init, NoResult
    <3>2. ASSUME NEW j \in Jobs, NEW s \in Targets[j], NEW w \in Workers
          PROVE  run[w].result[s].status = "none"
      BY <2>1, <3>2, IdleType, PublishAssumption
    <3> QED
      BY <3>1, <3>2 DEF VerifiedIsMapped
  <2> QED
    BY <2>2, <2>3, <2>4 DEF Inv
<1>2. Inv /\ [Next]_vars => Inv'
  <2> SUFFICES ASSUME Inv, [Next]_vars PROVE Inv'
    OBVIOUS
  <2>0. /\ TypeOK /\ run \in [Workers -> RunState] /\ queue \subseteq Jobs
        /\ crashes \in Nat /\ deployment \in Deployments
    BY DEF Inv, TypeOK
  <2>1. ASSUME NEW j \in Jobs, Redeliver(j) PROVE Inv'
    <3>1. UNCHANGED <<deployment, snapshots, clones, extent, late, run, result, crashes>>
          /\ queue' \subseteq Jobs
      BY <2>0, <2>1, PublishAssumption DEF Redeliver, nas
    <3> QED
      BY <3>1, OnlyTheQueue
  <2>2. ASSUME NEW w \in Workers, NEW j \in Jobs, Start(w, j) PROVE Inv'
    <3>1. UNCHANGED nas /\ UNCHANGED <<deployment, result, crashes>> /\ queue' \subseteq Jobs
      BY <2>0, <2>2 DEF Start
    <3>2. NasStep
      BY <3>1, SameNas
    <3>3. CASE Finished(j)
      <4>1. UNCHANGED <<deployment, snapshots, clones, extent, late, run, result, crashes>>
        BY <2>2, <3>1, <3>3 DEF Start, nas
      <4> QED
        BY <3>1, <4>1, OnlyTheQueue
    <3>4. CASE ~Finished(j)
      <4> DEFINE new == [Idle EXCEPT !.pc = "plan", !.job = j]
      <4>1. run' = [run EXCEPT ![w] = new]
        BY <2>2, <3>4 DEF Start
      <4>2. new \in RunState /\ new.pc = "plan" /\ new.result = Idle.result
        BY IdleType DEF RunState
      <4> HIDE DEF new
      <4>3. run'[w] = new /\ run' \in [Workers -> RunState] /\ \A v \in Workers : v # w => run'[v] = run[v]
        BY <2>0, <4>1, <4>2
      <4>4. RunStep(w)
        BY <4>2, <4>3, IdleType DEF RunStep, Working
      <4> QED
        BY <2>0, <3>1, <3>2, <4>4, Preserved
    <3> QED
      BY <3>3, <3>4
  <2>3. ASSUME NEW w \in Workers, Step(w) PROVE Inv'
    <3>1. NasStep /\ RunStep(w) /\ UNCHANGED <<deployment, queue, result, crashes>>
      BY <2>3, CallStep
    <3> QED
      BY <2>0, <3>1, Preserved
  <2>4. ASSUME NEW w \in Workers, Raises(w) PROVE Inv'
    <3>1. UNCHANGED nas /\ UNCHANGED <<deployment, queue, result, crashes>> /\ run' = [run EXCEPT ![w] = Idle]
      BY <2>4 DEF Raises
    <3> QED
      BY <2>0, <3>1, SameNas, IdleStep, Preserved
  <2>5. ASSUME NEW w \in Workers, Crashes(w) PROVE Inv'
    <3>1. UNCHANGED nas /\ UNCHANGED <<deployment, result>> /\ run' = [run EXCEPT ![w] = Idle]
      BY <2>5 DEF Crashes
    <3>2. queue' \subseteq Jobs /\ crashes' \in Nat
      BY <2>0, <2>5 DEF Crashes, RunState
    <3> QED
      BY <2>0, <3>1, <3>2, SameNas, IdleStep, Preserved
  <2>6. ASSUME LateSnapshot \/ LateClone \/ LateUpdate PROVE Inv'
    <3>1. NasStep /\ UNCHANGED <<deployment, queue, run, result, crashes>>
      BY <2>6, LateStep
    <3> QED
      BY <2>0, <3>1, OnlyTrueNAS
  <2>7. ASSUME NEW w \in Workers, Persist(w) PROVE Inv'
    <3>1. /\ UNCHANGED nas /\ UNCHANGED <<deployment, queue, crashes>> /\ run' = [run EXCEPT ![w] = Idle]
          /\ result' = [result EXCEPT ![run[w].job] = run[w].result]
      BY <2>7 DEF Persist
    <3> QED
      BY <2>0, <3>1, SameNas, IdleStep, Preserved
  <2>8. ASSUME UNCHANGED vars PROVE Inv'
    <3>1. UNCHANGED <<deployment, snapshots, clones, extent, late, run, result, crashes>> /\ queue' = queue
      BY <2>8 DEF vars
    <3> QED
      BY <2>0, <3>1, OnlyTheQueue
  <2> QED
    BY <2>1, <2>2, <2>3, <2>4, <2>5, <2>6, <2>7, <2>8 DEF Next, Progress
<1> QED
  BY <1>1, <1>2

-----------------------------------------------------------------------------
(* The theorems.                                                           *)

\* Every reachable state satisfies the invariant.
THEOREM Invariance == Spec => []Inv
<1>1. Init => Inv
  BY InvInductive
<1>2. Inv /\ [Next]_vars => Inv'
  BY InvInductive
<1> QED
  BY <1>1, <1>2, PTL DEF Spec

\* Types, and: an execution between two calls has a target to work on, so that
\* the station and the clone the next call is about exist.
THEOREM TypeCorrect == Spec => []TypeOK
<1>1. Inv => TypeOK
  BY DEF Inv
<1> QED
  BY <1>1, Invariance, PTL

\* A verified verdict is true: however often the message of a job is delivered
\* and executed, by however many threads, whatever calls raise, land late or
\* are cut off by crashes, a station that an execution or the database reports
\* as verified exports that job's clone until another job has a clone for it.
THEOREM VerdictIsTrue == Spec => []VerifiedIsMapped
<1>1. Inv => VerifiedIsMapped
  BY DEF Inv
<1> QED
  BY <1>1, Invariance, PTL

=============================================================================
