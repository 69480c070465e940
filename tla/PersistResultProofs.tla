------------------------ MODULE PersistResultProofs ------------------------
(***************************************************************************)
(* Proofs about PersistResult for any number of executions, jobs and       *)
(* stations: the lock that update_last_update leaves on the station's row  *)
(* is enough to keep the registry of artifacts right, and executions       *)
(* deadlock only if their jobs list stations in different orders.          *)
(***************************************************************************)
EXTENDS PersistResult, FiniteSetTheorems, TLAPS

N == Cardinality(Stations)

\* The transaction has not ended.
Open(e) == tx[e].pc \notin {"done", "aborted"}

\* It is at a target; it is at the artifacts of that target.
AtTarget(e)    == tx[e].pc \in {"target", "select", "station", "retire", "recheck", "save"}
AtArtifacts(e) == tx[e].pc \in {"retire", "recheck", "save"}

\* The stations whose targets it is done with.
Visited(e) == {order[JobOf[e]][i] : i \in 1..(tx[e].n - 1)}

\* It walks the targets one by one and saves an artifact at the end of each.
InPlace(e) == Open(e) =>
    /\ AtTarget(e) => tx[e].n \in 1..N
    /\ tx[e].saved \subseteq Visited(e)
    /\ \A s \in tx[e].updated : s \in tx[e].saved \/ (AtArtifacts(e) /\ s = At(e))

\* It saves no artifact as current without having updated the station.
Honest(e) == Open(e) =>
    /\ \A s \in tx[e].saved : tx[e].results[s] = "verified" => s \in tx[e].updated
    /\ AtArtifacts(e) /\ tx[e].results[At(e)] = "verified" => At(e) \in tx[e].updated

\* It holds the rows of the stations that it has updated.
Guarded(e) == Open(e) => \A s \in tx[e].updated : holder[<<"station", s>>] = e

\* Of a station that it has updated it knows every current artifact: nobody
\* can add one.
Complete(e) ==
    Open(e) => \A s \in tx[e].updated : \A j \in Jobs :
        artifacts[<<j, s>>].current =>
            \/ j = JobOf[e]
            \/ <<j, s>> \in tx[e].retired
            \/ tx[e].pc = "retire" /\ s = At(e)
            \/ tx[e].pc = "recheck" /\ s = At(e) /\ <<j, s>> \in tx[e].seen

TxInv(e) == InPlace(e) /\ Honest(e) /\ Guarded(e) /\ Complete(e)

\* The inductive invariant.
PersistInv ==
    /\ TypeOK
    /\ order \in Orders
    /\ \A e \in Executions : TxInv(e)
    /\ CurrentIsLastUpdate

-----------------------------------------------------------------------------
(* The order of the targets, the locks and the frame of a step.            *)

LEMMA NType == N \in Nat
BY PersistAssumption, FS_CardinalityType DEF N

\* Every position of the list is a station, and no station is listed twice.
LEMMA OrderFacts ==
    ASSUME order \in Orders, NEW e \in Executions
    PROVE  /\ \A i \in 1..N : order[JobOf[e]][i] \in Stations
           /\ \A i, k \in 1..N : order[JobOf[e]][i] = order[JobOf[e]][k] => i = k
<1>1. JobOf[e] \in Jobs
  BY PersistAssumption
<1>2. order[JobOf[e]] \in {q \in [1..N -> Stations] :
                              \A i, k \in DOMAIN q : q[i] = q[k] => i = k}
  BY <1>1, PersistAssumption DEF N
<1>3. QED
  BY <1>2

\* The station that an execution is at, which it has not been at before.
LEMMA AtFacts ==
    ASSUME order \in Orders, NEW e \in Executions, tx[e].n \in 1..N
    PROVE  At(e) \in Stations /\ At(e) \notin Visited(e)
<1>1. At(e) = order[JobOf[e]][tx[e].n]
  BY DEF At
<1>2. \A i \in 1..(tx[e].n - 1) : i \in 1..N /\ i # tx[e].n
  BY NType
<1>3. QED
  BY <1>1, <1>2, OrderFacts DEF Visited

\* A lock is taken from nobody, and none is given up before the end.
LEMMA LockFacts ==
    ASSUME TypeOK, NEW f \in Executions, NEW rows, Lock(f, rows)
    PROVE  /\ holder' \in [Rows -> Executions \cup {None}]
           /\ \A r \in Rows, e \in Executions : holder[r] = e => holder'[r] = e
           /\ \A r \in Rows : r \in rows => holder'[r] = f
<1>1. holder' = [r \in Rows |-> IF r \in rows THEN f ELSE holder[r]]
  BY DEF Lock
<1>2. \A r \in rows : holder[r] \in {None, f}
  BY DEF Lock, Free
<1>3. QED
  BY <1>1, <1>2, PersistAssumption DEF TypeOK

LEMMA ReleaseFacts ==
    ASSUME TypeOK, NEW f \in Executions, Release(f)
    PROVE  /\ holder' \in [Rows -> Executions \cup {None}]
           /\ \A r \in Rows, e \in Executions : e # f /\ holder[r] = e => holder'[r] = e
BY PersistAssumption DEF Release, TypeOK

LEMMA StationRow == \A s \in Stations : <<"station", s>> \in Rows
BY DEF Rows

\* What a step of f leaves to another execution.
LEMMA Frame ==
    ASSUME PersistInv, NEW e \in Executions, tx'[e] = tx[e], order' = order,
           \A r \in Rows : holder[r] = e => holder'[r] = e,
           Open(e) => \A s \in tx[e].updated : \A j \in Jobs :
                         artifacts'[<<j, s>>].current => artifacts[<<j, s>>].current
    PROVE  TxInv(e)'
<1>1. TxInv(e) /\ tx[e] \in TxState
  BY DEF PersistInv, TypeOK
<1>2. At(e)' = At(e) /\ Visited(e)' = Visited(e)
  BY DEF At, Visited
<1>3. /\ Open(e)' = Open(e) /\ AtTarget(e)' = AtTarget(e)
      /\ AtArtifacts(e)' = AtArtifacts(e)
  BY DEF Open, AtTarget, AtArtifacts
<1>4. InPlace(e)'
  BY <1>1, <1>2, <1>3 DEF TxInv, InPlace
<1>5. Honest(e)'
  BY <1>1, <1>2, <1>3 DEF TxInv, Honest
<1>6. Guarded(e)'
  <2>1. \A s \in tx[e].updated : <<"station", s>> \in Rows
    BY <1>1, StationRow DEF TxState
  <2>2. QED
    BY <1>1, <1>3, <2>1 DEF TxInv, Guarded
<1>7. Complete(e)'
  BY <1>1, <1>2, <1>3 DEF TxInv, Complete
<1>8. QED
  BY <1>4, <1>5, <1>6, <1>7 DEF TxInv

\* A step of f that only locks rows, given what it makes of f's transaction.
LEMMA LocalStep ==
    ASSUME PersistInv, NEW f \in Executions, NEW t \in TxState,
           tx' = [tx EXCEPT ![f] = t],
           UNCHANGED <<order, tables, deleted>>,
           holder' \in [Rows -> Executions \cup {None}],
           \A r \in Rows, e \in Executions : e # f /\ holder[r] = e => holder'[r] = e,
           TxInv(f)'
    PROVE  PersistInv'
<1>1. TypeOK'
  BY DEF PersistInv, TypeOK, tables
<1>2. order' \in Orders
  BY DEF PersistInv
<1>3. ASSUME NEW e \in Executions PROVE TxInv(e)'
  <2>1. CASE e = f
    BY <2>1
  <2>2. CASE e # f
    <3>1. tx'[e] = tx[e]
      BY <2>2 DEF PersistInv, TypeOK
    <3>2. artifacts' = artifacts
      BY DEF tables
    <3>3. QED
      BY <2>2, <3>1, <3>2, Frame
  <2>3. QED
    BY <2>1, <2>2
<1>4. CurrentIsLastUpdate'
  BY DEF PersistInv, CurrentIsLastUpdate, tables
<1>5. QED
  BY <1>1, <1>2, <1>3, <1>4 DEF PersistInv

-----------------------------------------------------------------------------
(* The steps of one execution.                                             *)

\* The next target, or the job.
LEMMA AdvancedFacts ==
    ASSUME NEW t \in TxState, t.n \in 1..N
    PROVE  /\ Advanced(t) \in TxState
           /\ Advanced(t).n = t.n + 1
           /\ Advanced(t).pc \in {"target", "job"}
           /\ Advanced(t).pc = "target" => t.n + 1 \in 1..N
           /\ Advanced(t).seen = t.seen /\ Advanced(t).results = t.results
           /\ Advanced(t).updated = t.updated /\ Advanced(t).retired = t.retired
           /\ Advanced(t).saved = t.saved
<1>1. t.n + 1 \in 1..(N + 1) /\ (t.n # N => t.n + 1 \in 1..N)
  BY NType
<1>2. ASSUME NEW pc \in {"target", "job"}, NEW n \in 1..(N + 1),
             Advanced(t) = [t EXCEPT !.n = n, !.pc = pc]
      PROVE  /\ Advanced(t) \in TxState
             /\ Advanced(t).n = n /\ Advanced(t).pc = pc
             /\ Advanced(t).seen = t.seen /\ Advanced(t).results = t.results
             /\ Advanced(t).updated = t.updated /\ Advanced(t).retired = t.retired
             /\ Advanced(t).saved = t.saved
  BY <1>2 DEF TxState, N
<1>3. CASE t.n = N
  <2>1. Advanced(t) = [t EXCEPT !.n = t.n + 1, !.pc = "job"]
    BY <1>3 DEF Advanced, N
  <2>2. QED
    BY <1>1, <1>2, <2>1
<1>4. CASE t.n # N
  <2>1. Advanced(t) = [t EXCEPT !.n = t.n + 1, !.pc = "target"]
    BY <1>4 DEF Advanced, N
  <2>2. QED
    BY <1>1, <1>2, <1>4, <2>1
<1>5. QED
  BY <1>3, <1>4

\* Where an execution stands at one of its targets.
LEMMA Here ==
    ASSUME PersistInv, NEW f \in Executions, AtTarget(f)
    PROVE  /\ tx[f] \in TxState /\ tx[f].n \in 1..N /\ Open(f)
           /\ At(f) \in Stations /\ At(f) \notin Visited(f) /\ At(f) \notin tx[f].saved
<1>1. Open(f)
  BY DEF AtTarget, Open
<1>2. tx[f] \in TxState /\ InPlace(f) /\ order \in Orders
  BY DEF PersistInv, TypeOK, TxInv
<1>3. tx[f].n \in 1..N /\ tx[f].saved \subseteq Visited(f)
  BY <1>1, <1>2 DEF InPlace
<1>4. QED
  BY <1>1, <1>2, <1>3, AtFacts

\* A step that stays at its target.
LEMMA StayStep ==
    ASSUME PersistInv, NEW f \in Executions, AtTarget(f),
           NEW t \in TxState, tx' = [tx EXCEPT ![f] = t], order' = order,
           t.n = tx[f].n, t.saved = tx[f].saved
    PROVE  tx'[f] = t /\ At(f)' = At(f) /\ Visited(f)' = Visited(f)
<1>1. tx'[f] = t
  BY DEF PersistInv, TypeOK
<1>2. QED
  BY <1>1 DEF At, Visited

\* A step that goes on to the next target: what is left to show is about the
\* station that is left behind.
LEMMA LeaveStep ==
    ASSUME PersistInv, NEW f \in Executions, AtTarget(f),
           NEW t \in TxState, tx' = [tx EXCEPT ![f] = t], order' = order,
           t.n = tx[f].n + 1, t.pc \in {"target", "job"},
           t.pc = "target" => t.n \in 1..N
    PROVE  /\ tx'[f] = t /\ Visited(f) \subseteq Visited(f)' /\ At(f) \in Visited(f)'
           /\ Open(f)' /\ ~ AtArtifacts(f)' /\ (AtTarget(f)' => t.n \in 1..N)
<1>1. tx'[f] = t
  BY DEF PersistInv, TypeOK
<1>2. tx[f].n \in 1..N
  BY Here
<1>3. \A i \in 1..(tx[f].n - 1) : i \in 1..(t.n - 1)
  BY <1>2, NType
<1>4. tx[f].n \in 1..(t.n - 1)
  BY <1>2, NType
<1>5. Visited(f)' = {order[JobOf[f]][i] : i \in 1..(t.n - 1)}
  BY <1>1 DEF Visited
<1>6. Visited(f) \subseteq Visited(f)'
  BY <1>3, <1>5 DEF Visited
<1>7. At(f) \in Visited(f)'
  BY <1>4, <1>5 DEF At
<1>8. QED
  BY <1>1, <1>6, <1>7 DEF Open, AtArtifacts, AtTarget

\* publish_targets.update.
LEMMA LockTargetStep ==
    ASSUME PersistInv, NEW f \in Executions, LockTarget(f)
    PROVE  PersistInv'
<1>1. PICK r \in Result :
        LET t == [tx[f] EXCEPT !.results[At(f)] = r]
        IN  Step(f, "target", CASE r = "verified" -> [t EXCEPT !.pc = "select"]
                                [] r = "created"  -> [t EXCEPT !.pc = "retire"]
                                [] r = "failed"   -> Advanced(t))
  BY DEF LockTarget
<1>2. tx[f].pc = "target" /\ AtTarget(f) /\ ~ AtArtifacts(f)
  BY <1>1 DEF Step, AtTarget, AtArtifacts
<1>3. /\ tx[f] \in TxState /\ tx[f].n \in 1..N /\ Open(f)
      /\ At(f) \in Stations /\ At(f) \notin Visited(f) /\ At(f) \notin tx[f].saved
  BY <1>2, Here
<1>4. InPlace(f) /\ Honest(f) /\ Guarded(f) /\ Complete(f)
  BY DEF PersistInv, TxInv
<1>5. /\ holder' \in [Rows -> Executions \cup {None}]
      /\ \A x \in Rows, e \in Executions : holder[x] = e => holder'[x] = e
      /\ order' = order /\ artifacts' = artifacts /\ UNCHANGED <<order, tables, deleted>>
  BY LockFacts DEF LockTarget, PersistInv, tables
<1> DEFINE t == [tx[f] EXCEPT !.results[At(f)] = r]
<1>6. /\ t \in TxState /\ t.n = tx[f].n /\ t.updated = tx[f].updated
      /\ t.saved = tx[f].saved /\ t.retired = tx[f].retired
      /\ t.results[At(f)] = r
      /\ \A s \in Stations \ {At(f)} : t.results[s] = tx[f].results[s]
  BY <1>3 DEF TxState
<1>7. \A s \in tx[f].updated : <<"station", s>> \in Rows /\ holder'[<<"station", s>>] = f
  BY <1>3, <1>4, <1>5, StationRow DEF TxState, Guarded
<1>8. \A s \in tx[f].updated : s \in tx[f].saved /\ s # At(f)
  BY <1>2, <1>3, <1>4 DEF InPlace
<1>9. \A s \in tx[f].updated, j \in Jobs :
        artifacts'[<<j, s>>].current => j = JobOf[f] \/ <<j, s>> \in tx[f].retired
  BY <1>2, <1>3, <1>4, <1>5 DEF Complete
<1>10. \A s \in tx[f].saved : s \in Stations \ {At(f)}
  BY <1>3 DEF TxState
<1>11. tx' = [tx EXCEPT ![f] = CASE r = "verified" -> [t EXCEPT !.pc = "select"]
                                 [] r = "created"  -> [t EXCEPT !.pc = "retire"]
                                 [] r = "failed"   -> Advanced(t)]
  BY <1>1 DEF Step
<1> HIDE DEF t
<1>12. ASSUME NEW pc \in {"select", "retire"}, pc = "retire" => r # "verified",
              tx' = [tx EXCEPT ![f] = [t EXCEPT !.pc = pc]]
       PROVE  PersistInv'
  <2> DEFINE u == [t EXCEPT !.pc = pc]
  <2>1. /\ u \in TxState /\ u.pc = pc /\ u.n = t.n /\ u.updated = t.updated
        /\ u.saved = t.saved /\ u.retired = t.retired /\ u.results = t.results
    BY <1>6, <1>12 DEF TxState
  <2>2. tx' = [tx EXCEPT ![f] = u]
    BY <1>12
  <2> HIDE DEF u
  <2>3. tx'[f] = u /\ At(f)' = At(f) /\ Visited(f)' = Visited(f)
    BY <1>2, <1>5, <1>6, <2>1, <2>2, StayStep
  <2>4. InPlace(f)'
    BY <1>3, <1>4, <1>6, <1>8, <2>1, <2>3 DEF InPlace, Open, AtTarget
  <2>5. Honest(f)'
    BY <1>3, <1>4, <1>6, <1>10, <1>12, <2>1, <2>3 DEF Honest, AtArtifacts
  <2>6. Guarded(f)'
    BY <1>6, <1>7, <2>1, <2>3 DEF Guarded
  <2>7. Complete(f)'
    BY <1>6, <1>9, <2>1, <2>3 DEF Complete
  <2>8. QED
    BY <1>5, <2>1, <2>2, <2>4, <2>5, <2>6, <2>7, LocalStep DEF TxInv
<1>13. CASE r = "verified"
  <2>1. tx' = [tx EXCEPT ![f] = [t EXCEPT !.pc = "select"]]
    BY <1>11, <1>13
  <2>2. QED
    BY <1>12, <2>1
<1>14. CASE r = "created"
  <2>1. tx' = [tx EXCEPT ![f] = [t EXCEPT !.pc = "retire"]]
    BY <1>11, <1>14
  <2>2. QED
    BY <1>12, <1>14, <2>1
<1>15. CASE r = "failed"
  <2>1. tx' = [tx EXCEPT ![f] = Advanced(t)]
    BY <1>11, <1>15
  <2> DEFINE u == Advanced(t)
  <2>2. /\ u \in TxState /\ u.n = tx[f].n + 1 /\ u.pc \in {"target", "job"}
        /\ u.pc = "target" => u.n \in 1..N
        /\ u.updated = t.updated /\ u.saved = t.saved /\ u.retired = t.retired
        /\ u.results = t.results
    BY <1>3, <1>6, AdvancedFacts
  <2>3. tx' = [tx EXCEPT ![f] = u]
    BY <2>1
  <2> HIDE DEF u
  <2>4. /\ tx'[f] = u /\ Visited(f) \subseteq Visited(f)' /\ Open(f)' /\ ~ AtArtifacts(f)'
        /\ (AtTarget(f)' => u.n \in 1..N)
    BY <1>2, <1>5, <2>2, <2>3, LeaveStep
  <2>5. InPlace(f)'
    BY <1>3, <1>4, <1>6, <1>8, <2>2, <2>4 DEF InPlace
  <2>6. Honest(f)'
    BY <1>3, <1>4, <1>6, <1>10, <2>2, <2>4 DEF Honest
  <2>7. Guarded(f)'
    BY <1>6, <1>7, <2>2, <2>4 DEF Guarded
  <2>8. Complete(f)'
    BY <1>6, <1>9, <2>2, <2>4 DEF Complete
  <2>9. QED
    BY <1>5, <2>2, <2>3, <2>5, <2>6, <2>7, <2>8, LocalStep DEF TxInv
<1>16. QED
  BY <1>13, <1>14, <1>15 DEF Result

\* update_last_update reads the station.
LEMMA SelectStationStep ==
    ASSUME PersistInv, NEW f \in Executions, SelectStation(f)
    PROVE  PersistInv'
<1>1. /\ tx[f].pc = "select" /\ tx' = [tx EXCEPT ![f] = [tx[f] EXCEPT !.pc = "station"]]
      /\ AtTarget(f) /\ ~ AtArtifacts(f)
  BY DEF SelectStation, Step, AtTarget, AtArtifacts
<1>2. tx[f] \in TxState /\ tx[f].n \in 1..N /\ Open(f)
  BY <1>1, Here
<1>3. InPlace(f) /\ Honest(f) /\ Guarded(f) /\ Complete(f)
  BY DEF PersistInv, TxInv
<1>4. holder' = holder /\ order' = order /\ artifacts' = artifacts /\ UNCHANGED <<order, tables, deleted>>
  BY DEF SelectStation, tables
<1> DEFINE u == [tx[f] EXCEPT !.pc = "station"]
<1>5. /\ u \in TxState /\ u.pc = "station" /\ u.n = tx[f].n /\ u.updated = tx[f].updated
      /\ u.saved = tx[f].saved /\ u.retired = tx[f].retired /\ u.results = tx[f].results
  BY <1>2 DEF TxState
<1>6. tx' = [tx EXCEPT ![f] = u]
  BY <1>1
<1> HIDE DEF u
<1>7. tx'[f] = u /\ At(f)' = At(f) /\ Visited(f)' = Visited(f)
  BY <1>1, <1>4, <1>5, <1>6, StayStep
<1>8. ~ AtArtifacts(f)'
  BY <1>5, <1>7 DEF AtArtifacts
<1>9. InPlace(f)'
  BY <1>1, <1>2, <1>3, <1>5, <1>7 DEF InPlace, Open, AtTarget
<1>10. Honest(f)'
  BY <1>2, <1>3, <1>5, <1>7, <1>8 DEF Honest
<1>11. Guarded(f)'
  BY <1>2, <1>3, <1>4, <1>5, <1>7 DEF Guarded
<1>12. Complete(f)'
  BY <1>1, <1>2, <1>3, <1>4, <1>5, <1>7 DEF Complete
<1>13. QED
  BY <1>4, <1>5, <1>6, <1>9, <1>10, <1>11, <1>12, LocalStep DEF TxInv, PersistInv, TypeOK

\* ... and its UPDATE locks it: from here on nobody else can make an artifact
\* of this station current.
LEMMA LockStationStep ==
    ASSUME PersistInv, NEW f \in Executions, LockStation(f)
    PROVE  PersistInv'
<1>1. /\ tx[f].pc = "station" /\ AtTarget(f) /\ ~ AtArtifacts(f)
      /\ tx' = [tx EXCEPT ![f] = [tx[f] EXCEPT !.pc = "retire",
                                              !.updated = tx[f].updated \cup {At(f)}]]
  BY DEF LockStation, Step, AtTarget, AtArtifacts
<1>2. tx[f] \in TxState /\ tx[f].n \in 1..N /\ Open(f) /\ At(f) \in Stations
  BY <1>1, Here
<1>3. InPlace(f) /\ Honest(f) /\ Guarded(f) /\ Complete(f)
  BY DEF PersistInv, TxInv
<1>4. /\ holder' \in [Rows -> Executions \cup {None}]
      /\ \A x \in Rows, e \in Executions : holder[x] = e => holder'[x] = e
      /\ \A x \in Rows : x \in {<<"station", At(f)>>} => holder'[x] = f
      /\ order' = order /\ artifacts' = artifacts /\ UNCHANGED <<order, tables, deleted>>
  BY LockFacts DEF LockStation, PersistInv, tables
<1> DEFINE new == tx[f].updated \cup {At(f)}
           u == [tx[f] EXCEPT !.pc = "retire", !.updated = new]
<1>5. new \in SUBSET Stations
  BY <1>2 DEF TxState
<1>6. /\ u \in TxState /\ u.pc = "retire" /\ u.n = tx[f].n /\ u.updated = new
      /\ u.saved = tx[f].saved /\ u.retired = tx[f].retired /\ u.results = tx[f].results
  <2> HIDE DEF new
  <2>1. QED
    BY <1>2, <1>5 DEF TxState
<1>7. tx' = [tx EXCEPT ![f] = u]
  BY <1>1
<1> HIDE DEF u
<1>8. tx'[f] = u /\ At(f)' = At(f) /\ Visited(f)' = Visited(f)
  BY <1>1, <1>4, <1>6, <1>7, StayStep
<1>9. AtArtifacts(f)' /\ AtTarget(f)' /\ Open(f)'
  BY <1>6, <1>8 DEF AtArtifacts, AtTarget, Open
<1>10. InPlace(f)'
  BY <1>1, <1>2, <1>3, <1>6, <1>8, <1>9 DEF InPlace
<1>11. Honest(f)'
  BY <1>2, <1>3, <1>6, <1>8 DEF Honest
<1>12. Guarded(f)'
  <2>1. \A s \in new : <<"station", s>> \in Rows
    BY <1>5, StationRow
  <2>2. \A s \in new : holder'[<<"station", s>>] = f
    BY <1>2, <1>3, <1>4, <2>1 DEF Guarded
  <2>3. QED
    BY <1>6, <1>8, <2>2 DEF Guarded
<1>13. Complete(f)'
  BY <1>1, <1>2, <1>3, <1>4, <1>6, <1>8 DEF Complete
<1>14. TxInv(f)'
  BY <1>10, <1>11, <1>12, <1>13 DEF TxInv
<1>15. /\ u \in TxState /\ holder' \in [Rows -> Executions \cup {None}]
       /\ \A x \in Rows, e \in Executions : holder[x] = e => holder'[x] = e
       /\ UNCHANGED <<order, tables, deleted>>
  BY <1>4, <1>6
<1>16. QED
  BY <1>7, <1>14, <1>15, LocalStep

\* The statement that retires artifacts finds all that are current.
LEMMA RetireArtifactsStep ==
    ASSUME PersistInv, NEW f \in Executions, RetireArtifacts(f)
    PROVE  PersistInv'
<1> DEFINE found == {<<j, At(f)>> : j \in {i \in Jobs : artifacts[<<i, At(f)>>].current}}
           u == [tx[f] EXCEPT !.pc = "recheck", !.seen = found]
<1>1. tx[f].pc = "retire" /\ AtTarget(f) /\ AtArtifacts(f) /\ tx' = [tx EXCEPT ![f] = u]
  BY DEF RetireArtifacts, Step, AtTarget, AtArtifacts
<1>2. tx[f] \in TxState /\ tx[f].n \in 1..N /\ Open(f) /\ At(f) \in Stations
  BY <1>1, Here
<1>3. InPlace(f) /\ Honest(f) /\ Guarded(f) /\ Complete(f)
  BY DEF PersistInv, TxInv
<1>4. holder' = holder /\ order' = order /\ artifacts' = artifacts /\ UNCHANGED <<order, tables, deleted>>
  BY DEF RetireArtifacts, tables
<1>5. found \in SUBSET Pairs
  <2>1. \A j \in Jobs : <<j, At(f)>> \in Pairs
    BY <1>2 DEF Pairs
  <2>2. \A p \in found : \E j \in Jobs : p = <<j, At(f)>>
    OBVIOUS
  <2> HIDE DEF found
  <2>3. QED
    BY <2>1, <2>2
<1>6. \A j \in Jobs : artifacts[<<j, At(f)>>].current => <<j, At(f)>> \in found
  OBVIOUS
<1>7. /\ u \in TxState /\ u.pc = "recheck" /\ u.n = tx[f].n /\ u.updated = tx[f].updated
      /\ u.saved = tx[f].saved /\ u.retired = tx[f].retired /\ u.results = tx[f].results
      /\ u.seen = found
  <2> HIDE DEF found
  <2>1. QED
    BY <1>2, <1>5 DEF TxState
<1> HIDE DEF u, found
<1>8. tx'[f] = u /\ At(f)' = At(f) /\ Visited(f)' = Visited(f)
  BY <1>1, <1>4, <1>7, StayStep
<1>9. AtArtifacts(f)' /\ AtTarget(f)' /\ Open(f)'
  BY <1>7, <1>8 DEF AtArtifacts, AtTarget, Open
<1>10. InPlace(f)'
  BY <1>1, <1>2, <1>3, <1>7, <1>8, <1>9 DEF InPlace
<1>11. Honest(f)'
  BY <1>1, <1>2, <1>3, <1>7, <1>8 DEF Honest
<1>12. Guarded(f)'
  BY <1>2, <1>3, <1>4, <1>7, <1>8 DEF Guarded
<1>13. Complete(f)'
  BY <1>1, <1>2, <1>3, <1>4, <1>6, <1>7, <1>8 DEF Complete
<1>14. QED
  BY <1>1, <1>4, <1>7, <1>10, <1>11, <1>12, <1>13, LocalStep DEF TxInv, PersistInv, TypeOK

\* Those that are still current when their locks are free are retired.
LEMMA RecheckArtifactsStep ==
    ASSUME PersistInv, NEW f \in Executions, RecheckArtifacts(f)
    PROVE  PersistInv'
<1> DEFINE old == tx[f].retired \cup {p \in tx[f].seen : artifacts[p].current}
           u == [tx[f] EXCEPT !.pc = "save", !.seen = {}, !.retired = old]
<1>1. tx[f].pc = "recheck" /\ AtTarget(f) /\ AtArtifacts(f) /\ tx' = [tx EXCEPT ![f] = u]
  BY DEF RecheckArtifacts, Step, AtTarget, AtArtifacts
<1>2. tx[f] \in TxState /\ tx[f].n \in 1..N /\ Open(f)
  BY <1>1, Here
<1>3. InPlace(f) /\ Honest(f) /\ Guarded(f) /\ Complete(f)
  BY DEF PersistInv, TxInv
<1>4. /\ holder' \in [Rows -> Executions \cup {None}]
      /\ \A x \in Rows, e \in Executions : holder[x] = e => holder'[x] = e
      /\ order' = order /\ artifacts' = artifacts /\ UNCHANGED <<order, tables, deleted>>
  BY LockFacts DEF RecheckArtifacts, PersistInv, tables
<1>5. old \in SUBSET Pairs
  BY <1>2 DEF TxState
<1>6. /\ \A p \in tx[f].seen : artifacts[p].current => p \in old
      /\ tx[f].retired \subseteq old
  OBVIOUS
<1>7. /\ u \in TxState /\ u.pc = "save" /\ u.n = tx[f].n /\ u.updated = tx[f].updated
      /\ u.saved = tx[f].saved /\ u.retired = old /\ u.results = tx[f].results
  <2> HIDE DEF old
  <2>1. QED
    BY <1>2, <1>5 DEF TxState
<1> HIDE DEF u, old
<1>8. tx'[f] = u /\ At(f)' = At(f) /\ Visited(f)' = Visited(f)
  BY <1>1, <1>4, <1>7, StayStep
<1>9. AtArtifacts(f)' /\ AtTarget(f)' /\ Open(f)'
  BY <1>7, <1>8 DEF AtArtifacts, AtTarget, Open
<1>10. InPlace(f)'
  BY <1>1, <1>2, <1>3, <1>7, <1>8, <1>9 DEF InPlace
<1>11. Honest(f)'
  BY <1>1, <1>2, <1>3, <1>7, <1>8 DEF Honest
<1>12. Guarded(f)'
  <2>1. \A s \in tx[f].updated : <<"station", s>> \in Rows
    BY <1>2, StationRow DEF TxState
  <2>2. QED
    BY <1>2, <1>3, <1>4, <1>7, <1>8, <2>1 DEF Guarded
<1>13. Complete(f)'
  BY <1>1, <1>2, <1>3, <1>4, <1>6, <1>7, <1>8 DEF Complete
<1>14. QED
  BY <1>1, <1>4, <1>7, <1>10, <1>11, <1>12, <1>13, LocalStep DEF TxInv

\* publish_artifacts.save: done with this target.
LEMMA SaveArtifactStep ==
    ASSUME PersistInv, NEW f \in Executions, SaveArtifact(f)
    PROVE  PersistInv'
<1> DEFINE a == Advanced(tx[f])
           new == tx[f].saved \cup {At(f)}
           u == [a EXCEPT !.saved = new]
<1>1. tx[f].pc = "save" /\ AtTarget(f) /\ AtArtifacts(f)
  BY DEF SaveArtifact, Step, AtTarget, AtArtifacts
<1>2. tx[f] \in TxState /\ tx[f].n \in 1..N /\ Open(f) /\ At(f) \in Stations
  BY <1>1, Here
<1>3. InPlace(f) /\ Honest(f) /\ Guarded(f) /\ Complete(f)
  BY DEF PersistInv, TxInv
<1>4. PICK rows : Lock(f, rows)
  BY DEF SaveArtifact
<1>5. /\ holder' \in [Rows -> Executions \cup {None}]
      /\ \A x \in Rows, e \in Executions : holder[x] = e => holder'[x] = e
      /\ order' = order /\ artifacts' = artifacts /\ UNCHANGED <<order, tables, deleted>>
  BY <1>4, LockFacts DEF SaveArtifact, PersistInv, tables
<1>6. /\ a \in TxState /\ a.n = tx[f].n + 1 /\ a.pc \in {"target", "job"}
      /\ a.pc = "target" => a.n \in 1..N
      /\ a.updated = tx[f].updated /\ a.saved = tx[f].saved
      /\ a.retired = tx[f].retired /\ a.results = tx[f].results
  BY <1>2, AdvancedFacts
<1>7. new \in SUBSET Stations
  BY <1>2 DEF TxState
<1>8. tx' = [tx EXCEPT ![f] = u]
  <2>1. u = [a EXCEPT !.saved = a.saved \cup {At(f)}]
    BY <1>6
  <2>2. QED
    BY <2>1 DEF SaveArtifact, Step
<1>9. /\ u \in TxState /\ u.n = a.n /\ u.pc = a.pc /\ u.updated = a.updated
      /\ u.saved = new /\ u.retired = a.retired /\ u.results = a.results
  <2> HIDE DEF new, a
  <2>1. QED
    BY <1>6, <1>7 DEF TxState
<1>10. /\ At(f) \in new /\ tx[f].saved \subseteq new
       /\ \A s \in new : s \in tx[f].saved \/ s = At(f)
  OBVIOUS
<1> HIDE DEF u, a, new
<1>11. /\ tx'[f] = u /\ Visited(f) \subseteq Visited(f)' /\ At(f) \in Visited(f)'
       /\ Open(f)' /\ ~ AtArtifacts(f)' /\ (AtTarget(f)' => u.n \in 1..N)
  BY <1>1, <1>5, <1>6, <1>8, <1>9, LeaveStep
<1>12. InPlace(f)'
  <2>1. new \subseteq Visited(f)'
    BY <1>2, <1>3, <1>10, <1>11 DEF InPlace
  <2>2. \A s \in tx[f].updated : s \in new
    BY <1>2, <1>3, <1>10 DEF InPlace
  <2>3. QED
    BY <1>6, <1>9, <1>11, <2>1, <2>2 DEF InPlace
<1>13. Honest(f)'
  <2>1. \A s \in new : tx[f].results[s] = "verified" => s \in tx[f].updated
    BY <1>1, <1>2, <1>3, <1>10 DEF Honest
  <2>2. QED
    BY <1>6, <1>9, <1>11, <2>1 DEF Honest
<1>14. Guarded(f)'
  <2>1. \A s \in tx[f].updated : <<"station", s>> \in Rows
    BY <1>2, StationRow DEF TxState
  <2>2. QED
    BY <1>2, <1>3, <1>5, <1>6, <1>9, <1>11, <2>1 DEF Guarded
<1>15. Complete(f)'
  <2>1. \A s \in tx[f].updated, j \in Jobs :
          artifacts'[<<j, s>>].current => j = JobOf[f] \/ <<j, s>> \in tx[f].retired
    BY <1>1, <1>2, <1>3, <1>5 DEF Complete
  <2>2. QED
    BY <1>6, <1>9, <1>11, <2>1 DEF Complete
<1>16. TxInv(f)'
  BY <1>12, <1>13, <1>14, <1>15 DEF TxInv
<1>17. QED
  BY <1>5, <1>8, <1>9, <1>16, LocalStep

\* What is known of a transaction that is past its targets.
LEMMA Finished ==
    ASSUME PersistInv, NEW f \in Executions, tx[f].pc \in {"job", "commit"}
    PROVE  /\ tx[f] \in TxState /\ Open(f) /\ TxInv(f)
           /\ tx[f].saved \subseteq Visited(f)
           /\ tx[f].updated \subseteq tx[f].saved
           /\ \A s \in tx[f].saved : tx[f].results[s] = "verified" => s \in tx[f].updated
           /\ \A s \in tx[f].updated : holder[<<"station", s>>] = f
           /\ \A s \in tx[f].updated, j \in Jobs :
                 artifacts[<<j, s>>].current => j = JobOf[f] \/ <<j, s>> \in tx[f].retired
<1>1. Open(f) /\ ~ AtArtifacts(f)
  BY DEF Open, AtArtifacts
<1>2. tx[f] \in TxState /\ TxInv(f)
  BY DEF PersistInv, TypeOK
<1>3. QED
  BY <1>1, <1>2 DEF TxInv, InPlace, Honest, Guarded, Complete

\* publish_jobs.update.
LEMMA LockJobStep ==
    ASSUME PersistInv, NEW f \in Executions, LockJob(f)
    PROVE  PersistInv'
<1> DEFINE u == [tx[f] EXCEPT !.pc = "commit"]
<1>1. tx[f].pc = "job" /\ tx' = [tx EXCEPT ![f] = u]
  BY DEF LockJob, Step
<1>2. /\ tx[f] \in TxState /\ Open(f)
      /\ tx[f].saved \subseteq Visited(f)
      /\ tx[f].updated \subseteq tx[f].saved
      /\ \A s \in tx[f].saved : tx[f].results[s] = "verified" => s \in tx[f].updated
      /\ \A s \in tx[f].updated : holder[<<"station", s>>] = f
      /\ \A s \in tx[f].updated, j \in Jobs :
            artifacts[<<j, s>>].current => j = JobOf[f] \/ <<j, s>> \in tx[f].retired
  BY <1>1, Finished
<1>3. /\ holder' \in [Rows -> Executions \cup {None}]
      /\ \A x \in Rows, e \in Executions : holder[x] = e => holder'[x] = e
      /\ order' = order /\ artifacts' = artifacts /\ UNCHANGED <<order, tables, deleted>>
  BY LockFacts DEF LockJob, PersistInv, tables
<1>4. /\ u \in TxState /\ u.pc = "commit" /\ u.n = tx[f].n /\ u.updated = tx[f].updated
      /\ u.saved = tx[f].saved /\ u.retired = tx[f].retired /\ u.results = tx[f].results
  BY <1>2 DEF TxState
<1> HIDE DEF u
<1>5. tx'[f] = u
  BY <1>1 DEF PersistInv, TypeOK
<1>6. ~ AtTarget(f)' /\ ~ AtArtifacts(f)' /\ Visited(f)' = Visited(f)
  BY <1>3, <1>4, <1>5 DEF AtTarget, AtArtifacts, Visited
<1>7. InPlace(f)' /\ Honest(f)'
  BY <1>2, <1>4, <1>5, <1>6 DEF InPlace, Honest
<1>8. Guarded(f)'
  <2>1. \A s \in tx[f].updated : <<"station", s>> \in Rows
    BY <1>2, StationRow DEF TxState
  <2>2. QED
    BY <1>2, <1>3, <1>4, <1>5, <2>1 DEF Guarded
<1>9. Complete(f)'
  BY <1>2, <1>3, <1>4, <1>5 DEF Complete
<1>10. TxInv(f)'
  BY <1>7, <1>8, <1>9 DEF TxInv
<1>11. QED
  BY <1>1, <1>3, <1>4, <1>10, LocalStep

-----------------------------------------------------------------------------
(* The end of a transaction.                                               *)

\* A transaction that has ended has nothing left to keep.
LEMMA EndedInv ==
    ASSUME NEW f \in Executions, tx'[f].pc \in {"done", "aborted"}
    PROVE  TxInv(f)'
<1>1. ~ Open(f)'
  BY DEF Open
<1>2. QED
  BY <1>1 DEF TxInv, InPlace, Honest, Guarded, Complete

\* An exception leaves the unit of work.
LEMMA RollBackStep ==
    ASSUME PersistInv, NEW f \in Executions, RollBack(f)
    PROVE  PersistInv'
<1> DEFINE u == [tx[f] EXCEPT !.pc = "aborted"]
<1>1. tx' = [tx EXCEPT ![f] = u] /\ UNCHANGED <<order, tables, deleted>>
  BY DEF RollBack
<1>2. tx[f] \in TxState
  BY DEF PersistInv, TypeOK
<1>3. u \in TxState /\ u.pc = "aborted"
  BY <1>2 DEF TxState
<1> HIDE DEF u
<1>4. tx'[f].pc = "aborted"
  BY <1>1, <1>3 DEF PersistInv, TypeOK
<1>5. TxInv(f)'
  BY <1>4, EndedInv
<1>6. /\ holder' \in [Rows -> Executions \cup {None}]
      /\ \A r \in Rows, e \in Executions : e # f /\ holder[r] = e => holder'[r] = e
  BY ReleaseFacts DEF RollBack, PersistInv
<1>7. QED
  BY <1>1, <1>3, <1>5, <1>6, LocalStep

\* COMMIT: an artifact becomes current only at a station whose row f holds, and
\* every other one of that station is retired.
LEMMA CommitStep ==
    ASSUME PersistInv, NEW f \in Executions, Commit(f)
    PROVE  PersistInv'
<1> DEFINE t == tx[f]
           u == [t EXCEPT !.pc = "done"]
<1>1. t.pc = "commit" /\ tx' = [tx EXCEPT ![f] = u] /\ order' = order /\ deleted' = deleted
  BY DEF Commit, Step
<1>2. /\ t \in TxState /\ Open(f)
      /\ t.updated \subseteq t.saved
      /\ \A s \in t.saved : t.results[s] = "verified" => s \in t.updated
      /\ \A s \in t.updated : holder[<<"station", s>>] = f
      /\ \A s \in t.updated, j \in Jobs :
            artifacts[<<j, s>>].current => j = JobOf[f] \/ <<j, s>> \in t.retired
  BY <1>1, Finished
<1>3. /\ holder' \in [Rows -> Executions \cup {None}]
      /\ \A r \in Rows, e \in Executions : e # f /\ holder[r] = e => holder'[r] = e
  BY ReleaseFacts DEF Commit, PersistInv
<1>4. stationBy' = [s \in Stations |-> IF s \in t.updated THEN f ELSE stationBy[s]]
  BY DEF Commit
<1>5. ASSUME NEW p \in Pairs
      PROVE  artifacts'[p] = IF p[1] = JobOf[f] /\ p[2] \in t.saved
                             THEN [by |-> f, current |-> t.results[p[2]] = "verified"]
                             ELSE IF p \in t.retired THEN [artifacts[p] EXCEPT !.current = FALSE]
                             ELSE artifacts[p]
  BY DEF Commit
<1>6. artifacts' \in [Pairs -> [by : Executions \cup {None}, current : BOOLEAN]]
  <2>1. ASSUME NEW p \in Pairs
        PROVE  /\ [by |-> f, current |-> t.results[p[2]] = "verified"]
                       \in [by : Executions \cup {None}, current : BOOLEAN]
               /\ [artifacts[p] EXCEPT !.current = FALSE]
                       \in [by : Executions \cup {None}, current : BOOLEAN]
               /\ artifacts[p] \in [by : Executions \cup {None}, current : BOOLEAN]
    BY <2>1 DEF PersistInv, TypeOK
  <2>2. ASSUME NEW p \in Pairs
        PROVE  artifacts'[p] \in [by : Executions \cup {None}, current : BOOLEAN]
    BY <1>5, <2>1, <2>2
  <2>3. artifacts' = [p \in Pairs |-> artifacts'[p]]
    BY DEF Commit
  <2>4. QED
    BY <2>2, <2>3
<1>7. u \in TxState /\ u.pc = "done"
  BY <1>2 DEF TxState
<1> HIDE DEF u
<1>8. TypeOK'
  <2>1. tx' \in [Executions -> TxState]
    BY <1>1, <1>7 DEF PersistInv, TypeOK
  <2>2. stationBy' \in [Stations -> Executions \cup {None}]
    BY <1>4 DEF PersistInv, TypeOK
  <2>3. QED
    BY <1>1, <1>3, <1>6, <2>1, <2>2 DEF PersistInv, TypeOK
<1>9. TxInv(f)'
  <2>1. tx'[f].pc = "done"
    BY <1>1, <1>7 DEF PersistInv, TypeOK
  <2>2. QED
    BY <2>1, EndedInv
\* What becomes current belongs to a station that f has updated.
<1>10. ASSUME NEW p \in Pairs, artifacts'[p].current
       PROVE  \/ p[2] \in t.updated /\ artifacts'[p].by = f
              \/ /\ artifacts'[p] = artifacts[p] /\ artifacts[p].current
                 /\ ~ (p[1] = JobOf[f] /\ p[2] \in t.saved) /\ p \notin t.retired
  <2>1. CASE p[1] = JobOf[f] /\ p[2] \in t.saved
    <3>1. artifacts'[p] = [by |-> f, current |-> t.results[p[2]] = "verified"]
      BY <1>5, <2>1
    <3>2. artifacts'[p].by = f
      BY <3>1
    <3>3. ASSUME NEW v \in BOOLEAN, artifacts'[p] = [by |-> f, current |-> v] PROVE v
      BY <1>10, <3>3
    <3>4. t.results[p[2]] = "verified"
      BY <3>1, <3>3
    <3>5. QED
      BY <1>2, <2>1, <3>2, <3>4
  <2>2. CASE ~ (p[1] = JobOf[f] /\ p[2] \in t.saved) /\ p \in t.retired
    <3>1. artifacts'[p] = [artifacts[p] EXCEPT !.current = FALSE]
      BY <1>5, <2>2
    <3>2. artifacts[p] \in [by : Executions \cup {None}, current : BOOLEAN]
      BY DEF PersistInv, TypeOK
    <3>3. artifacts'[p].current = FALSE
      BY <3>1, <3>2
    <3>4. QED
      BY <1>10, <3>3
  <2>3. CASE ~ (p[1] = JobOf[f] /\ p[2] \in t.saved) /\ p \notin t.retired
    <3>1. artifacts'[p] = artifacts[p]
      BY <1>5, <2>3
    <3>2. QED
      BY <1>10, <2>3, <3>1
  <2>4. QED
    BY <2>1, <2>2, <2>3
<1>11. CurrentIsLastUpdate'
  <2>1. SUFFICES ASSUME NEW p \in Pairs, artifacts'[p].current
                 PROVE  stationBy'[p[2]] = artifacts'[p].by
    BY DEF CurrentIsLastUpdate
  <2>2. p[1] \in Jobs /\ p[2] \in Stations /\ p = <<p[1], p[2]>>
    BY DEF Pairs
  <2>3. CASE p[2] \in t.updated /\ artifacts'[p].by = f
    BY <1>4, <2>2, <2>3
  <2>4. CASE /\ artifacts'[p] = artifacts[p] /\ artifacts[p].current
             /\ ~ (p[1] = JobOf[f] /\ p[2] \in t.saved) /\ p \notin t.retired
    <3>1. p[2] \notin t.updated
      <4>1. SUFFICES ASSUME p[2] \in t.updated PROVE FALSE
        OBVIOUS
      <4>2. p[1] = JobOf[f] \/ p \in t.retired
        BY <1>2, <2>2, <2>4, <4>1
      <4>3. QED
        BY <1>2, <2>4, <4>1, <4>2
    <3>2. stationBy'[p[2]] = stationBy[p[2]]
      BY <1>4, <2>2, <3>1
    <3>3. QED
      BY <2>4, <3>2 DEF PersistInv, CurrentIsLastUpdate
  <2>5. QED
    BY <1>10, <2>1, <2>3, <2>4
<1>12. ASSUME NEW e \in Executions, e # f PROVE TxInv(e)'
  <2>1. tx'[e] = tx[e]
    BY <1>1, <1>12 DEF PersistInv, TypeOK
  <2>2. ASSUME Open(e), NEW s \in tx[e].updated, NEW j \in Jobs,
               artifacts'[<<j, s>>].current
        PROVE  artifacts[<<j, s>>].current
    <3>1. tx[e] \in TxState /\ Guarded(e)
      BY DEF PersistInv, TypeOK, TxInv
    <3>2. s \in Stations /\ holder[<<"station", s>>] = e
      BY <2>2, <3>1 DEF TxState, Guarded
    <3>3. <<j, s>> \in Pairs /\ <<j, s>>[2] = s
      BY <3>2 DEF Pairs
    <3>4. s \notin t.updated
      BY <1>2, <1>12, <3>2
    <3>5. QED
      BY <1>10, <2>2, <3>3, <3>4
  <2>3. QED
    BY <1>1, <1>3, <1>12, <2>1, <2>2, Frame
<1>13. QED
  BY <1>1, <1>8, <1>9, <1>11, <1>12 DEF PersistInv

\* The operator deletes a station.
LEMMA DeleteStationStep ==
    ASSUME PersistInv, NEW s \in Stations, DeleteStation(s)
    PROVE  PersistInv'
<1>1. UNCHANGED <<order, tx, holder, tables>> /\ deleted' = deleted \cup {s}
  BY DEF DeleteStation
<1>2. TypeOK' /\ CurrentIsLastUpdate' /\ order' \in Orders
  BY <1>1 DEF PersistInv, TypeOK, CurrentIsLastUpdate, tables
<1>3. ASSUME NEW e \in Executions PROVE TxInv(e)'
  BY <1>1, Frame DEF tables
<1>4. QED
  BY <1>2, <1>3 DEF PersistInv

-----------------------------------------------------------------------------

LEMMA InitInv == Init => PersistInv
<1> SUFFICES ASSUME Init PROVE PersistInv
  OBVIOUS
<1>1. NewTx \in TxState /\ NewTx.updated = {} /\ NewTx.saved = {} /\ NewTx.pc = "target" /\ NewTx.n = 1
  <2>1. 1 \in 1..Cardinality(Stations) + 1
    BY NType DEF N
  <2>2. [s \in Stations |-> "failed"] \in [Stations -> Result]
    BY DEF Result
  <2>3. QED
    BY <2>1, <2>2 DEF NewTx, TxState
<1>2. NoArtifact \in [by : Executions \cup {None}, current : BOOLEAN] /\ NoArtifact.current = FALSE
  BY DEF NoArtifact
<1>3. TypeOK
  BY <1>1, <1>2 DEF Init, TypeOK
<1>4. CurrentIsLastUpdate
  BY <1>2 DEF Init, CurrentIsLastUpdate
<1>5. ASSUME NEW e \in Executions PROVE TxInv(e)
  <2>1. /\ tx[e].updated = {} /\ tx[e].saved = {} /\ tx[e].pc = "target" /\ tx[e].n = 1
    BY <1>1 DEF Init
  <2>2. N \in Nat \ {0}
    BY NType, PersistAssumption, FS_EmptySet DEF N
  <2>3. ~ AtArtifacts(e) /\ tx[e].n \in 1..N
    BY <2>1, <2>2 DEF AtArtifacts
  <2>4. QED
    BY <2>1, <2>3 DEF TxInv, InPlace, Honest, Guarded, Complete
<1>6. QED
  BY <1>3, <1>4, <1>5 DEF PersistInv, Init

LEMMA NextInv ==
    ASSUME PersistInv, [Next]_vars
    PROVE  PersistInv'
<1>1. ASSUME NEW e \in Executions, Persist(e) PROVE PersistInv'
  BY <1>1, LockTargetStep, SelectStationStep, LockStationStep, RetireArtifactsStep,
     RecheckArtifactsStep, SaveArtifactStep, LockJobStep, CommitStep, RollBackStep
     DEF Persist, StationMissing
<1>2. ASSUME NEW e \in Executions, Victim(e) PROVE PersistInv'
  BY <1>2, RollBackStep DEF Victim
<1>3. CASE UNCHANGED vars
  <2>1. UNCHANGED <<order, tx, holder, stationBy, artifacts, deleted>>
    BY <1>3 DEF vars, tables
  <2>2. TypeOK' /\ CurrentIsLastUpdate' /\ order' \in Orders
    BY <2>1 DEF PersistInv, TypeOK, CurrentIsLastUpdate
  <2>3. ASSUME NEW e \in Executions PROVE TxInv(e)'
    BY <2>1, Frame
  <2>4. QED
    BY <2>2, <2>3 DEF PersistInv
<1>4. QED
  BY <1>1, <1>2, <1>3, DeleteStationStep DEF Next

LEMMA Invariance == Spec => []PersistInv
<1>1. PersistInv /\ [Next]_vars => PersistInv'
  BY NextInv
<1>2. QED
  BY <1>1, InitInv, PTL DEF Spec

-----------------------------------------------------------------------------

\* Type correctness, for any number of executions, jobs and stations.
THEOREM TypeCorrect == Spec => []TypeOK
<1>1. PersistInv => TypeOK
  BY DEF PersistInv
<1>2. QED
  BY <1>1, Invariance, PTL

\* However the statements of _persist_result interleave, in whatever orders the
\* targets are walked and whichever transactions are rolled back, the current
\* artifact of a station is the one of the execution that last updated it.
THEOREM RegistryFollowsStations == Spec => []CurrentIsLastUpdate
<1>1. PersistInv => CurrentIsLastUpdate
  BY DEF PersistInv
<1>2. QED
  BY <1>1, Invariance, PTL

-----------------------------------------------------------------------------
(* Who holds which rows.                                                   *)

\* An execution has come past the target of s, or stands there at one of the
\* given statements.
Past(g, s, pcs) == Open(g) /\ (s \in Visited(g) \/ (tx[g].pc \in pcs /\ s = At(g)))

\* The statements at a target that follow the lock of its row.
Locked == {"select", "station", "retire", "recheck", "save"}

\* The target rows that it has come past are locked, and no others.
TargetsHeld(g) ==
    \A p \in Pairs : holder[<<"target", p>>] = g <=> p[1] = JobOf[g] /\ Past(g, p[2], Locked)

\* Locks of other rows are held by those who have come past their statements.
OthersHeld(g) ==
    /\ \A s \in Stations : holder[<<"station", s>>] = g => Open(g) /\ s \in tx[g].updated
    /\ \A p \in Pairs : holder[<<"artifact", p>>] = g => Past(g, p[2], {"save"})
    /\ \A j \in Jobs : holder[<<"job", j>>] = g => tx[g].pc = "commit"

\* The artifact rows, of the station it is at, that it found current: it holds
\* them or is about to lock them.
Claim(g) ==
    {p \in Pairs : /\ tx[g].pc \in {"recheck", "save"} /\ p[2] = At(g)
                   /\ p \in tx[g].seen \/ holder[<<"artifact", p>>] = g}

\* What its statements have found.
Found(g) ==
    /\ tx[g].pc \in {"select", "station"} => tx[g].results[At(g)] = "verified"
    /\ tx[g].pc = "recheck" => \A p \in tx[g].seen : p[2] = At(g)
    /\ tx[g].pc = "save" => tx[g].seen = {}
    /\ tx[g].pc \in {"recheck", "save"} /\ artifacts[PairOf(g)].current
          => Claim(g) \subseteq {PairOf(g)}

\* A current artifact was saved by an execution of its job.
Authors ==
    \A p \in Pairs : artifacts[p].current =>
        artifacts[p].by \in Executions /\ JobOf[artifacts[p].by] = p[1]

\* No executions claim each other's rows all round.
ClaimedAllRound(D) ==
    \A f \in D : /\ tx[f].pc \in {"recheck", "save"}
                 /\ \E g \in D : g # f /\ PairOf(f) \in Claim(g)

NoCycle == \A D \in SUBSET Executions : ClaimedAllRound(D) => D = {}

\* The inductive invariant behind LostForAReason.
LockInv ==
    /\ Authors
    /\ NoCycle
    /\ \A g \in Executions : TargetsHeld(g) /\ OthersHeld(g) /\ Found(g)

LEMMA PairRow ==
    /\ \A p \in Pairs : <<"target", p>> \in Rows /\ <<"artifact", p>> \in Rows
    /\ \A j \in Jobs : <<"job", j>> \in Rows
    /\ \A j \in Jobs, s \in Stations : <<j, s>> \in Pairs
BY DEF Rows, Pairs

\* The place of an execution at a target.
LEMMA PairFacts ==
    ASSUME PersistInv, NEW f \in Executions, AtTarget(f)
    PROVE  /\ PairOf(f) \in Pairs /\ PairOf(f)[1] = JobOf[f] /\ PairOf(f)[2] = At(f)
           /\ JobOf[f] \in Jobs
<1>1. At(f) \in Stations
  BY Here
<1>2. JobOf[f] \in Jobs
  BY PersistAssumption
<1>3. QED
  BY <1>1, <1>2 DEF PairOf, Pairs

\* Two executions never stand past the same target row.
LEMMA TargetIsExclusive ==
    ASSUME LockInv, NEW f \in Executions, NEW g \in Executions, NEW p \in Pairs,
           p[1] = JobOf[f], p[1] = JobOf[g], Past(f, p[2], Locked), Past(g, p[2], Locked)
    PROVE  f = g
<1>1. holder[<<"target", p>>] = f
  BY DEF LockInv, TargetsHeld
<1>2. holder[<<"target", p>>] = g
  BY DEF LockInv, TargetsHeld
<1>3. QED
  BY <1>1, <1>2

\* At most one artifact of a station is current.
LEMMA OneCurrent ==
    ASSUME PersistInv, LockInv, NEW p \in Pairs, NEW q \in Pairs, p[2] = q[2],
           artifacts[p].current, artifacts[q].current
    PROVE  p = q
<1>1. artifacts[p].by = artifacts[q].by
  BY DEF PersistInv, CurrentIsLastUpdate
<1>2. p[1] = q[1]
  BY <1>1 DEF LockInv, Authors
<1>3. QED
  BY <1>2 DEF Pairs

\* What a step of f leaves to the others.
OthersKept(f) ==
    /\ order' = order
    /\ \A g \in Executions \ {f} :
        /\ tx'[g] = tx[g]
        /\ \A r \in Rows : holder'[r] = g <=> holder[r] = g

LEMMA OthersFrame ==
    ASSUME PersistInv, LockInv, NEW f \in Executions, OthersKept(f),
           NEW g \in Executions \ {f},
           tx[g].pc \in {"recheck", "save"} /\ artifacts'[PairOf(g)].current
              => artifacts[PairOf(g)].current
    PROVE  /\ TargetsHeld(g)' /\ OthersHeld(g)' /\ Found(g)'
           /\ Claim(g)' = Claim(g) /\ PairOf(g)' = PairOf(g)
<1>1. /\ tx'[g] = tx[g] /\ order' = order
      /\ \A r \in Rows : holder'[r] = g <=> holder[r] = g
  BY DEF OthersKept
<1>2. /\ At(g)' = At(g) /\ PairOf(g)' = PairOf(g) /\ Visited(g)' = Visited(g)
      /\ Open(g)' = Open(g)
  BY <1>1 DEF At, PairOf, Visited, Open
<1>3. \A s, pcs : Past(g, s, pcs)' <=> Past(g, s, pcs)
  BY <1>1, <1>2 DEF Past
<1>4. TargetsHeld(g)'
  BY <1>1, <1>3, PairRow DEF LockInv, TargetsHeld
<1>5. OthersHeld(g)'
  BY <1>1, <1>2, <1>3, PairRow, StationRow DEF LockInv, OthersHeld
<1>6. Claim(g)' = Claim(g)
  BY <1>1, <1>2, PairRow DEF Claim
<1>7. Found(g)'
  BY <1>1, <1>2, <1>6 DEF LockInv, Found
<1>8. QED
  BY <1>2, <1>4, <1>5, <1>6, <1>7

\* A step of f after which it is not about to lock or save claims nothing, and
\* one that claims no more than before closes no round.
LEMMA NoCycleKept ==
    ASSUME NoCycle, NEW f \in Executions,
           \A g \in Executions \ {f} : /\ tx'[g] = tx[g] /\ Claim(g)' = Claim(g)
                                       /\ PairOf(g)' = PairOf(g),
           \/ tx'[f].pc \notin {"recheck", "save"}
           \/ /\ tx[f].pc \in {"recheck", "save"} /\ PairOf(f)' = PairOf(f)
              /\ Claim(f)' \subseteq Claim(f)
    PROVE  NoCycle'
<1> SUFFICES ASSUME NEW D \in SUBSET Executions, ClaimedAllRound(D)' PROVE D = {}
  BY DEF NoCycle
<1>1. ClaimedAllRound(D)
  <2> SUFFICES ASSUME NEW h \in D
               PROVE  /\ tx[h].pc \in {"recheck", "save"}
                      /\ \E g \in D : g # h /\ PairOf(h) \in Claim(g)
    BY DEF ClaimedAllRound
  <2>1. \A g \in D : /\ tx[g].pc \in {"recheck", "save"} /\ PairOf(g)' = PairOf(g)
                     /\ Claim(g)' \subseteq Claim(g)
    BY DEF ClaimedAllRound
  <2>2. PICK g \in D : g # h /\ (PairOf(h))' \in Claim(g)'
    BY DEF ClaimedAllRound
  <2>3. QED
    BY <2>1, <2>2
<1>2. QED
  BY <1>1 DEF NoCycle

\* A step of f that changes no table, given what becomes of f.
LEMMA LockLocal ==
    ASSUME PersistInv, LockInv, NEW f \in Executions, OthersKept(f), artifacts' = artifacts,
           TargetsHeld(f)', OthersHeld(f)', Found(f)',
           \/ tx'[f].pc \notin {"recheck", "save"}
           \/ /\ tx[f].pc \in {"recheck", "save"} /\ PairOf(f)' = PairOf(f)
              /\ Claim(f)' \subseteq Claim(f)
    PROVE  LockInv'
<1>1. ASSUME NEW g \in Executions \ {f}
      PROVE  /\ TargetsHeld(g)' /\ OthersHeld(g)' /\ Found(g)'
             /\ Claim(g)' = Claim(g) /\ PairOf(g)' = PairOf(g)
  BY OthersFrame
<1>2. NoCycle'
  BY <1>1, NoCycleKept DEF LockInv, OthersKept
<1>3. Authors'
  BY DEF LockInv, Authors
<1>4. QED
  BY <1>1, <1>2, <1>3 DEF LockInv

\* Taking locks, and giving all of them up.
LEMMA LockOthers ==
    ASSUME PersistInv, NEW f \in Executions, NEW rows, Lock(f, rows),
           NEW t, tx' = [tx EXCEPT ![f] = t], order' = order
    PROVE  /\ OthersKept(f)
           /\ \A r \in Rows : holder'[r] = f <=> holder[r] = f \/ r \in rows
<1>1. holder' = [r \in Rows |-> IF r \in rows THEN f ELSE holder[r]]
  BY DEF Lock
<1>2. \A r \in rows : holder[r] \in {None, f}
  BY DEF Lock, Free
<1>3. \A g \in Executions : g # None
  BY PersistAssumption
<1>4. \A g \in Executions \ {f} : tx'[g] = tx[g]
  BY DEF PersistInv, TypeOK
<1>5. \A g \in Executions \ {f} : \A r \in Rows : holder'[r] = g <=> holder[r] = g
  BY <1>1, <1>2, <1>3
<1>6. QED
  BY <1>1, <1>4, <1>5 DEF OthersKept

LEMMA ReleaseOthers ==
    ASSUME PersistInv, NEW f \in Executions, Release(f),
           NEW t, tx' = [tx EXCEPT ![f] = t], order' = order
    PROVE  /\ OthersKept(f)
           /\ \A r \in Rows : holder'[r] # f
<1>1. holder' = [r \in Rows |-> IF holder[r] = f THEN None ELSE holder[r]]
  BY DEF Release
<1>2. \A g \in Executions : g # None
  BY PersistAssumption
<1>3. \A g \in Executions \ {f} : tx'[g] = tx[g]
  BY DEF PersistInv, TypeOK
<1>4. QED
  BY <1>1, <1>2, <1>3 DEF OthersKept

\* Going on to the next target adds the one that is left to those visited.
LEMMA VisitedNext ==
    ASSUME PersistInv, NEW f \in Executions, AtTarget(f), order' = order,
           tx'[f].n = tx[f].n + 1
    PROVE  Visited(f)' = Visited(f) \cup {At(f)}
<1>1. tx[f].n \in 1..N /\ N \in Nat
  BY Here, NType
<1>2. \A i : i \in 1..(tx'[f].n - 1) <=> i \in 1..(tx[f].n - 1) \/ i = tx[f].n
  BY <1>1
<1>3. QED
  BY <1>2 DEF Visited, At

LEMMA VisitedSame ==
    ASSUME NEW f \in Executions, order' = order, tx'[f].n = tx[f].n
    PROVE  Visited(f)' = Visited(f) /\ At(f)' = At(f) /\ PairOf(f)' = PairOf(f)
BY DEF Visited, At, PairOf

\* publish_targets.update takes the lock of the target row.
LEMMA LockTargetLocks ==
    ASSUME PersistInv, LockInv, NEW f \in Executions, LockTarget(f)
    PROVE  LockInv'
<1>1. PICK r \in Result :
        LET t == [tx[f] EXCEPT !.results[At(f)] = r]
        IN  Step(f, "target", CASE r = "verified" -> [t EXCEPT !.pc = "select"]
                                [] r = "created"  -> [t EXCEPT !.pc = "retire"]
                                [] r = "failed"   -> Advanced(t))
  BY DEF LockTarget
<1>2. tx[f].pc = "target" /\ AtTarget(f)
  BY <1>1 DEF Step, AtTarget
<1>3. /\ tx[f] \in TxState /\ tx[f].n \in 1..N /\ Open(f) /\ At(f) \in Stations
      /\ At(f) \notin Visited(f)
  BY <1>2, Here
<1> DEFINE t == [tx[f] EXCEPT !.results[At(f)] = r]
           u == CASE r = "verified" -> [t EXCEPT !.pc = "select"]
                  [] r = "created"  -> [t EXCEPT !.pc = "retire"]
                  [] r = "failed"   -> Advanced(t)
<1>4. /\ t \in TxState /\ t.n = tx[f].n /\ t.updated = tx[f].updated
      /\ t.results[At(f)] = r
  BY <1>3 DEF TxState
<1>5. tx' = [tx EXCEPT ![f] = u]
  BY <1>1 DEF Step
<1> HIDE DEF t
<1>a. /\ r = "verified" => u = [t EXCEPT !.pc = "select"]
      /\ r = "created" => u = [t EXCEPT !.pc = "retire"]
      /\ r = "failed" => u = Advanced(t)
  OBVIOUS
<1> HIDE DEF u
<1>6. /\ u.updated = tx[f].updated
      /\ \/ /\ u.pc \in {"select", "retire"} /\ u.n = tx[f].n
            /\ u.pc = "select" => u.results[At(f)] = "verified"
         \/ u.pc \in {"target", "job"} /\ u.n = tx[f].n + 1
  <2>1. ASSUME NEW pc \in {"select", "retire"}, u = [t EXCEPT !.pc = pc]
        PROVE  /\ u.pc = pc /\ u.n = t.n /\ u.updated = t.updated /\ u.results = t.results
    BY <1>4, <2>1 DEF TxState
  <2>2. CASE r = "verified"
    <3>1. u = [t EXCEPT !.pc = "select"]
      BY <1>a, <2>2
    <3>2. QED
      BY <1>4, <2>1, <2>2, <3>1
  <2>3. CASE r = "created"
    <3>1. u = [t EXCEPT !.pc = "retire"]
      BY <1>a, <2>3
    <3>2. QED
      BY <1>4, <2>1, <3>1
  <2>4. CASE r = "failed"
    <3>1. u = Advanced(t)
      BY <1>a, <2>4
    <3>2. QED
      BY <1>3, <1>4, <3>1, AdvancedFacts
  <2>5. QED
    BY <2>2, <2>3, <2>4 DEF Result
<1>7. tx'[f] = u /\ order' = order /\ artifacts' = artifacts
  BY <1>5 DEF PersistInv, TypeOK, LockTarget, tables
<1>8. /\ OthersKept(f)
      /\ \A x \in Rows : holder'[x] = f <=> holder[x] = f \/ x = <<"target", PairOf(f)>>
  <2>1. Lock(f, {<<"target", PairOf(f)>>})
    BY DEF LockTarget
  <2>2. /\ OthersKept(f)
        /\ \A x \in Rows :
              holder'[x] = f <=> holder[x] = f \/ x \in {<<"target", PairOf(f)>>}
    BY <1>5, <1>7, <2>1, LockOthers
  <2>3. QED
    BY <2>2
<1>9. PairOf(f) \in Pairs /\ PairOf(f)[1] = JobOf[f] /\ PairOf(f)[2] = At(f)
  BY <1>2, PairFacts
<1>10. \A p \in Pairs : holder[<<"target", p>>] = f <=> p[1] = JobOf[f] /\ p[2] \in Visited(f)
  BY <1>2, <1>3 DEF LockInv, TargetsHeld, Past, Locked
<1>11. \A p \in Pairs : holder'[<<"target", p>>] = f <=>
            p[1] = JobOf[f] /\ p[2] \in Visited(f) \cup {At(f)}
  <2>1. \A p \in Pairs : p = PairOf(f) <=> p[1] = JobOf[f] /\ p[2] = At(f)
    BY <1>9 DEF Pairs
  <2>2. QED
    BY <1>8, <1>10, <2>1, PairRow
<1>12. Open(f)' /\ \A s : Past(f, s, Locked)' <=> s \in Visited(f) \cup {At(f)}
  <2>1. CASE u.pc \in {"select", "retire"} /\ u.n = tx[f].n
    BY <1>7, <2>1, VisitedSame DEF Past, Locked, Open
  <2>2. CASE u.pc \in {"target", "job"} /\ u.n = tx[f].n + 1
    <3>1. Visited(f)' = Visited(f) \cup {At(f)}
      BY <1>2, <1>7, <2>2, VisitedNext
    <3>2. QED
      BY <1>7, <2>2, <3>1 DEF Past, Locked, Open
  <2>3. QED
    BY <1>6, <2>1, <2>2
<1>13. TargetsHeld(f)'
  BY <1>11, <1>12 DEF TargetsHeld
<1>14. OthersHeld(f)'
  <2>1. \A s \in Stations : holder'[<<"station", s>>] = f => s \in u.updated
    BY <1>6, <1>8, StationRow DEF LockInv, OthersHeld
  <2>2. \A p \in Pairs : holder'[<<"artifact", p>>] = f => p[2] \in Visited(f)
    BY <1>2, <1>8, PairRow DEF LockInv, OthersHeld, Past
  <2>3. Visited(f) \subseteq Visited(f)'
    BY <1>2, <1>6, <1>7, VisitedSame, VisitedNext
  <2>4. \A j \in Jobs : holder'[<<"job", j>>] # f
    BY <1>2, <1>8, PairRow DEF LockInv, OthersHeld
  <2>5. QED
    BY <1>7, <1>12, <2>1, <2>2, <2>3, <2>4 DEF OthersHeld, Past
<1>15. Found(f)'
  BY <1>6, <1>7, VisitedSame DEF Found
<1>16. QED
  BY <1>6, <1>7, <1>8, <1>13, <1>14, <1>15, LockLocal

\* A statement that stays at the target and locks no target row.
LEMMA StayHeld ==
    ASSUME PersistInv, LockInv, NEW f \in Executions,
           tx[f].pc \in Locked, tx'[f].pc \in Locked, tx'[f].n = tx[f].n, order' = order,
           \A p \in Pairs : holder'[<<"target", p>>] = f <=> holder[<<"target", p>>] = f
    PROVE  TargetsHeld(f)'
<1>1. Visited(f)' = Visited(f) /\ At(f)' = At(f)
  BY VisitedSame
<1>2. \A s : Past(f, s, Locked)' <=> Past(f, s, Locked)
  BY <1>1 DEF Past, Open, Locked
<1>3. QED
  BY <1>2 DEF LockInv, TargetsHeld

\* update_last_update reads, and then locks, the station's row.
LEMMA StationLocks ==
    ASSUME PersistInv, LockInv, NEW f \in Executions, SelectStation(f) \/ LockStation(f)
    PROVE  LockInv'
<1>1. CASE SelectStation(f)
  <2>1. tx[f].pc = "select" /\ tx' = [tx EXCEPT ![f] = [tx[f] EXCEPT !.pc = "station"]]
    BY <1>1 DEF SelectStation, Step
  <2>2. tx[f] \in TxState
    BY DEF PersistInv, TypeOK
  <2>3. /\ tx'[f].pc = "station" /\ tx'[f].n = tx[f].n /\ tx'[f].updated = tx[f].updated
        /\ tx'[f].results = tx[f].results
        /\ \A g \in Executions \ {f} : tx'[g] = tx[g]
    BY <2>1, <2>2 DEF TxState, PersistInv, TypeOK
  <2>4. order' = order /\ holder' = holder /\ artifacts' = artifacts
    BY <1>1 DEF SelectStation, tables
  <2>5. Visited(f)' = Visited(f) /\ At(f)' = At(f)
    BY <2>3, <2>4, VisitedSame
  <2>6. TargetsHeld(f)'
    BY <2>1, <2>3, <2>4, StayHeld DEF Locked
  <2>7. OthersHeld(f)'
    BY <2>1, <2>3, <2>4, <2>5 DEF LockInv, OthersHeld, Past, Open
  <2>8. Found(f)'
    BY <2>1, <2>3, <2>5 DEF LockInv, Found
  <2>9. QED
    BY <2>3, <2>4, <2>6, <2>7, <2>8, LockLocal DEF OthersKept
<1>2. CASE LockStation(f)
  <2> DEFINE u == [tx[f] EXCEPT !.pc = "retire", !.updated = @ \cup {At(f)}]
  <2>1. tx[f].pc = "station" /\ tx' = [tx EXCEPT ![f] = u]
    BY <1>2 DEF LockStation, Step
  <2>2. tx[f] \in TxState
    BY DEF PersistInv, TypeOK
  <2>3. /\ tx'[f].pc = "retire" /\ tx'[f].n = tx[f].n
        /\ tx'[f].updated = tx[f].updated \cup {At(f)}
    BY <2>1, <2>2 DEF TxState, PersistInv, TypeOK
  <2> HIDE DEF u
  <2>4. order' = order /\ artifacts' = artifacts
    BY <1>2 DEF LockStation, tables
  <2>5. /\ OthersKept(f)
        /\ \A x \in Rows : holder'[x] = f <=> holder[x] = f \/ x = <<"station", At(f)>>
    <3>1. Lock(f, {<<"station", At(f)>>})
      BY <1>2 DEF LockStation
    <3>2. /\ OthersKept(f)
          /\ \A x \in Rows :
                holder'[x] = f <=> holder[x] = f \/ x \in {<<"station", At(f)>>}
      BY <2>1, <2>4, <3>1, LockOthers
    <3>3. QED
      BY <3>2
  <2>6. Visited(f)' = Visited(f) /\ At(f)' = At(f)
    BY <2>3, <2>4, VisitedSame
  <2>7. TargetsHeld(f)'
    BY <2>1, <2>3, <2>4, <2>5, PairRow, StayHeld DEF Locked
  <2>8. OthersHeld(f)'
    <3>1. \A s \in Stations : holder'[<<"station", s>>] = f => s \in tx'[f].updated
      BY <2>3, <2>5, StationRow DEF LockInv, OthersHeld
    <3>2. \A p \in Pairs : holder'[<<"artifact", p>>] = f => p[2] \in Visited(f)
      BY <2>1, <2>5, PairRow DEF LockInv, OthersHeld, Past
    <3>3. \A j \in Jobs : holder'[<<"job", j>>] # f
      BY <2>1, <2>5, PairRow DEF LockInv, OthersHeld
    <3>4. QED
      BY <2>3, <2>6, <3>1, <3>2, <3>3 DEF OthersHeld, Past, Open
  <2>9. Found(f)'
    BY <2>3 DEF Found
  <2>10. QED
    BY <2>3, <2>4, <2>5, <2>7, <2>8, <2>9, LockLocal
<1>3. QED
  BY <1>1, <1>2

\* retire_station_artifacts finds at most one current artifact, which belongs
\* to nobody who has found another's current.
LEMMA RetireLocks ==
    ASSUME PersistInv, LockInv, NEW f \in Executions, RetireArtifacts(f)
    PROVE  LockInv'
<1> DEFINE found == {<<j, At(f)>> : j \in {i \in Jobs : artifacts[<<i, At(f)>>].current}}
           u == [tx[f] EXCEPT !.pc = "recheck", !.seen = found]
<1>1. tx[f].pc = "retire" /\ tx' = [tx EXCEPT ![f] = u] /\ AtTarget(f)
  BY DEF RetireArtifacts, Step, AtTarget
<1>2. tx[f] \in TxState /\ At(f) \in Stations /\ At(f) \notin Visited(f)
  BY <1>1, Here
<1>3. /\ found \subseteq Pairs /\ \A p \in found : p[2] = At(f) /\ artifacts[p].current
  <2> SUFFICES ASSUME NEW p \in found
               PROVE  p \in Pairs /\ p[2] = At(f) /\ artifacts[p].current
    BY Zenon
  <2>1. PICK j \in Jobs : p = <<j, At(f)>> /\ artifacts[<<j, At(f)>>].current
    OBVIOUS
  <2> HIDE DEF found
  <2>2. QED
    BY <1>2, <2>1 DEF Pairs
<1> HIDE DEF found
<1>4. /\ tx'[f].pc = "recheck" /\ tx'[f].n = tx[f].n /\ tx'[f].updated = tx[f].updated
      /\ tx'[f].seen = found
  BY <1>1, <1>2, <1>3 DEF TxState, PersistInv, TypeOK
<1> HIDE DEF u
<1>5. /\ order' = order /\ holder' = holder /\ artifacts' = artifacts
      /\ \A g \in Executions \ {f} : tx'[g] = tx[g]
  BY <1>1 DEF RetireArtifacts, tables, PersistInv, TypeOK
<1>6. /\ Visited(f)' = Visited(f) /\ At(f)' = At(f) /\ PairOf(f)' = PairOf(f)
  BY <1>4, <1>5, VisitedSame
<1>7. TargetsHeld(f)'
  BY <1>1, <1>4, <1>5, StayHeld DEF Locked
<1>8. OthersHeld(f)'
  BY <1>1, <1>4, <1>5, <1>6 DEF LockInv, OthersHeld, Past, Open
<1>9. Claim(f)' = found
  <2>1. \A p \in Pairs : p[2] = At(f) => holder[<<"artifact", p>>] # f
    BY <1>1, <1>2 DEF LockInv, OthersHeld, Past
  <2>2. QED
    BY <1>3, <1>4, <1>5, <1>6, <2>1 DEF Claim
<1>a. PairOf(f) \in Pairs /\ PairOf(f)[1] = JobOf[f] /\ PairOf(f)[2] = At(f)
  BY <1>1, PairFacts
<1>10. Found(f)'
  <2>1. artifacts[PairOf(f)].current => found \subseteq {PairOf(f)}
    BY <1>a, <1>3, OneCurrent
  <2>2. QED
    BY <1>3, <1>4, <1>5, <1>6, <1>9, <2>1 DEF Found
<1>11. OthersKept(f)
  BY <1>5 DEF OthersKept
<1>12. ASSUME NEW g \in Executions \ {f}
       PROVE  /\ TargetsHeld(g)' /\ OthersHeld(g)' /\ Found(g)'
              /\ Claim(g)' = Claim(g) /\ PairOf(g)' = PairOf(g)
  BY <1>5, <1>11, OthersFrame
<1>13. NoCycle'
  <2> SUFFICES ASSUME NEW D \in SUBSET Executions, ClaimedAllRound(D)', D # {} PROVE FALSE
    BY DEF NoCycle
  <2>1. \A h \in D : /\ tx'[h].pc \in {"recheck", "save"} /\ PairOf(h)' = PairOf(h)
                     /\ h # f => tx[h].pc \in {"recheck", "save"} /\ AtTarget(h)
    BY <1>5, <1>6, <1>12 DEF ClaimedAllRound, AtTarget
  <2>2. \A h \in D : \E g \in D : g # h /\ PairOf(h) \in Claim(g)'
    BY <2>1 DEF ClaimedAllRound
  <2>3. ASSUME NEW x \in D, x # f, PairOf(x) \in found
        PROVE  FALSE
    <3>1. /\ artifacts[PairOf(x)].current /\ PairOf(x)[1] = JobOf[x]
          /\ PairOf(x) \in Pairs /\ PairOf(x)[2] = At(x) /\ At(x) = At(f)
      BY <1>3, <2>1, <2>3, PairFacts
    <3>2. Claim(x) \subseteq {PairOf(x)}
      BY <2>1, <2>3, <3>1 DEF LockInv, Found
    <3>3. \A g \in D : g # x => PairOf(g) # PairOf(x)
      <4>1. ASSUME NEW g \in D, g # x, PairOf(g) = PairOf(x) PROVE FALSE
        <5>1. AtTarget(g) /\ AtTarget(x) /\ tx[g].pc \in Locked /\ tx[x].pc \in Locked
          BY <1>1, <2>1, <2>3 DEF Locked
        <5>2. Past(g, PairOf(g)[2], Locked) /\ Past(x, PairOf(x)[2], Locked)
          BY <5>1, PairFacts, Here DEF Past
        <5>3. PairOf(g)[1] = JobOf[g]
          BY <5>1, PairFacts
        <5>4. QED
          BY <3>1, <4>1, <5>2, <5>3, TargetIsExclusive
      <4>2. QED
        BY <4>1
    <3>4. \A g \in D : g # x => PairOf(g) \notin Claim(x)'
      BY <1>12, <2>3, <3>2, <3>3
    <3>5. \A p \in found : p = PairOf(x)
      BY <1>3, <3>1, OneCurrent
    <3>6. ClaimedAllRound(D \ {x, f})
      <4> SUFFICES ASSUME NEW h \in D \ {x, f}
                   PROVE  /\ tx[h].pc \in {"recheck", "save"}
                          /\ \E g \in D \ {x, f} : g # h /\ PairOf(h) \in Claim(g)
        BY DEF ClaimedAllRound
      <4>1. PICK g \in D : g # h /\ PairOf(h) \in Claim(g)'
        BY <2>2
      <4>2. g # x
        BY <3>4, <4>1
      <4>3. g # f
        BY <1>9, <3>3, <3>5, <4>1
      <4>4. QED
        BY <1>12, <2>1, <4>1, <4>2, <4>3
    <3>7. D \ {x, f} = {}
      BY <3>6 DEF LockInv, NoCycle
    <3>8. CASE f \in D
      <4>1. PICK g \in D : g # f /\ PairOf(f) \in Claim(g)'
        BY <2>2, <3>8
      <4>2. g = x
        BY <3>7, <4>1
      <4>3. QED
        BY <2>3, <3>4, <3>8, <4>1, <4>2
    <3>9. CASE f \notin D
      <4>1. PICK g \in D : g # x /\ PairOf(x) \in Claim(g)'
        BY <2>2
      <4>2. QED
        BY <3>7, <3>9, <4>1
    <3>10. QED
      BY <3>8, <3>9
  <2>4. ClaimedAllRound(D \ {f})
    <3> SUFFICES ASSUME NEW h \in D \ {f}
                 PROVE  /\ tx[h].pc \in {"recheck", "save"}
                        /\ \E g \in D \ {f} : g # h /\ PairOf(h) \in Claim(g)
      BY DEF ClaimedAllRound
    <3>1. PICK g \in D : g # h /\ PairOf(h) \in Claim(g)'
      BY <2>2
    <3>2. g # f
      BY <1>9, <2>3, <3>1
    <3>3. QED
      BY <1>12, <2>1, <3>1, <3>2
  <2>5. D \ {f} = {}
    BY <2>4 DEF LockInv, NoCycle
  <2>6. QED
    BY <2>2, <2>5
<1>14. Authors'
  BY <1>5 DEF LockInv, Authors
<1>15. QED
  BY <1>7, <1>8, <1>10, <1>12, <1>13, <1>14 DEF LockInv

\* The retiring UPDATE locks the rows that it found.
LEMMA RecheckLocks ==
    ASSUME PersistInv, LockInv, NEW f \in Executions, RecheckArtifacts(f)
    PROVE  LockInv'
<1> DEFINE old == tx[f].retired \cup {p \in tx[f].seen : artifacts[p].current}
           u == [tx[f] EXCEPT !.pc = "save", !.seen = {}, !.retired = old]
<1>1. tx[f].pc = "recheck" /\ tx' = [tx EXCEPT ![f] = u] /\ AtTarget(f)
  BY DEF RecheckArtifacts, Step, AtTarget
<1>2. tx[f] \in TxState /\ tx[f].seen \subseteq Pairs
  BY DEF PersistInv, TypeOK, TxState
<1> HIDE DEF old
<1>3. /\ tx'[f].pc = "save" /\ tx'[f].n = tx[f].n /\ tx'[f].updated = tx[f].updated
      /\ tx'[f].seen = {}
  BY <1>1, <1>2 DEF TxState, PersistInv, TypeOK
<1> HIDE DEF u
<1>4. order' = order /\ artifacts' = artifacts
  BY DEF RecheckArtifacts, tables
<1>5. /\ OthersKept(f)
      /\ \A x \in Rows :
            holder'[x] = f <=> holder[x] = f \/ x \in {<<"artifact", p>> : p \in tx[f].seen}
  <2> DEFINE found == {<<"artifact", p>> : p \in tx[f].seen}
  <2>1. Lock(f, found)
    BY DEF RecheckArtifacts
  <2> HIDE DEF found
  <2>2. OthersKept(f) /\ \A x \in Rows : holder'[x] = f <=> holder[x] = f \/ x \in found
    BY <1>1, <1>4, <2>1, LockOthers
  <2>3. QED
    BY <2>2 DEF found
<1>6. /\ Visited(f)' = Visited(f) /\ At(f)' = At(f) /\ PairOf(f)' = PairOf(f)
  BY <1>3, <1>4, VisitedSame
<1>7. \A p \in tx[f].seen : p[2] = At(f)
  BY <1>1 DEF LockInv, Found
<1>8. TargetsHeld(f)'
  <2>1. \A p \in Pairs : holder'[<<"target", p>>] = f <=> holder[<<"target", p>>] = f
    BY <1>5, PairRow
  <2>2. QED
    BY <1>1, <1>3, <1>4, <2>1, StayHeld DEF Locked
<1>9. \A p \in Pairs : holder'[<<"artifact", p>>] = f <=>
                            holder[<<"artifact", p>>] = f \/ p \in tx[f].seen
  BY <1>5, PairRow
<1>10. OthersHeld(f)'
  <2>1. \A s \in Stations : holder'[<<"station", s>>] = f => s \in tx'[f].updated
    BY <1>3, <1>5, StationRow DEF LockInv, OthersHeld
  <2>2. \A p \in Pairs : holder'[<<"artifact", p>>] = f => p[2] \in Visited(f) \/ p[2] = At(f)
    BY <1>1, <1>7, <1>9 DEF LockInv, OthersHeld, Past
  <2>3. \A j \in Jobs : holder'[<<"job", j>>] # f
    BY <1>1, <1>5, PairRow DEF LockInv, OthersHeld
  <2>4. QED
    BY <1>3, <1>6, <2>1, <2>2, <2>3 DEF OthersHeld, Past, Open
<1>11. Claim(f)' = Claim(f)
  BY <1>1, <1>3, <1>6, <1>9 DEF Claim
<1>12. Found(f)'
  BY <1>1, <1>3, <1>4, <1>6, <1>11 DEF LockInv, Found
<1>13. QED
  BY <1>1, <1>4, <1>5, <1>6, <1>8, <1>10, <1>11, <1>12, LockLocal

\* publish_artifacts.save leaves the target.
LEMMA SaveLocks ==
    ASSUME PersistInv, LockInv, NEW f \in Executions, SaveArtifact(f)
    PROVE  LockInv'
<1> DEFINE a == Advanced(tx[f])
           u == [a EXCEPT !.saved = @ \cup {At(f)}]
           mine == IF artifacts[PairOf(f)] = NoArtifact THEN {} ELSE {<<"artifact", PairOf(f)>>}
<1>1. /\ tx[f].pc = "save" /\ tx' = [tx EXCEPT ![f] = u] /\ AtTarget(f)
      /\ Lock(f, mine) /\ order' = order /\ artifacts' = artifacts
  BY DEF SaveArtifact, Step, AtTarget, tables
<1>2. tx[f] \in TxState /\ tx[f].n \in 1..N /\ Open(f)
  BY <1>1, Here
<1>3. /\ a \in TxState /\ a.n = tx[f].n + 1 /\ a.pc \in {"target", "job"}
      /\ a.updated = tx[f].updated
  BY <1>2, AdvancedFacts
<1> HIDE DEF a
<1>4. /\ tx'[f].pc \in {"target", "job"} /\ tx'[f].n = tx[f].n + 1
      /\ tx'[f].updated = tx[f].updated
  BY <1>1, <1>3 DEF TxState, PersistInv, TypeOK
<1> HIDE DEF u
<1>5. mine \subseteq {<<"artifact", PairOf(f)>>}
  OBVIOUS
<1> HIDE DEF mine
<1>6. /\ OthersKept(f)
      /\ \A x \in Rows : holder'[x] = f => holder[x] = f \/ x = <<"artifact", PairOf(f)>>
      /\ \A x \in Rows : holder[x] = f => holder'[x] = f
  <2>1. /\ OthersKept(f)
        /\ \A x \in Rows : holder'[x] = f <=> holder[x] = f \/ x \in mine
    BY <1>1, LockOthers
  <2>2. QED
    BY <1>5, <2>1
<1>7. Visited(f)' = Visited(f) \cup {At(f)}
  BY <1>1, <1>4, VisitedNext
<1>8. PairOf(f)[2] = At(f) /\ Open(f)'
  BY <1>1, <1>4, PairFacts DEF Open
<1>9. TargetsHeld(f)'
  <2>1. \A s : Past(f, s, Locked)' <=> Past(f, s, Locked)
    BY <1>1, <1>2, <1>4, <1>7, <1>8 DEF Past, Locked
  <2>2. \A p \in Pairs : holder'[<<"target", p>>] = f <=> holder[<<"target", p>>] = f
    BY <1>6, PairRow
  <2>3. QED
    BY <2>1, <2>2 DEF LockInv, TargetsHeld
<1>10. OthersHeld(f)'
  <2>1. \A s \in Stations : holder'[<<"station", s>>] = f => s \in tx'[f].updated
    BY <1>4, <1>6, StationRow DEF LockInv, OthersHeld
  <2>2. \A p \in Pairs : holder'[<<"artifact", p>>] = f => p[2] \in Visited(f)'
    BY <1>6, <1>7, <1>8, PairRow DEF LockInv, OthersHeld, Past
  <2>3. \A j \in Jobs : holder'[<<"job", j>>] # f
    BY <1>1, <1>6, PairRow DEF LockInv, OthersHeld
  <2>4. QED
    BY <1>8, <2>1, <2>2, <2>3 DEF OthersHeld, Past
<1>11. Found(f)'
  BY <1>4 DEF Found
<1>12. QED
  BY <1>1, <1>4, <1>6, <1>9, <1>10, <1>11, LockLocal

\* publish_jobs.update takes the lock of the job's row.
LEMMA JobLocks ==
    ASSUME PersistInv, LockInv, NEW f \in Executions, LockJob(f)
    PROVE  LockInv'
<1> DEFINE u == [tx[f] EXCEPT !.pc = "commit"]
<1>1. /\ tx[f].pc = "job" /\ tx' = [tx EXCEPT ![f] = u]
      /\ Lock(f, {<<"job", JobOf[f]>>}) /\ order' = order /\ artifacts' = artifacts
  BY DEF LockJob, Step, tables
<1>2. /\ tx'[f].pc = "commit" /\ tx'[f].n = tx[f].n /\ tx'[f].updated = tx[f].updated
  BY <1>1 DEF TxState, PersistInv, TypeOK
<1> HIDE DEF u
<1>3. /\ OthersKept(f)
      /\ \A x \in Rows : holder'[x] = f <=> holder[x] = f \/ x \in {<<"job", JobOf[f]>>}
  BY <1>1, LockOthers
<1>4. Visited(f)' = Visited(f)
  BY <1>1, <1>2, VisitedSame
<1>5. TargetsHeld(f)'
  <2>1. \A s : Past(f, s, Locked)' <=> Past(f, s, Locked)
    BY <1>1, <1>2, <1>4 DEF Past, Locked, Open
  <2>2. \A p \in Pairs : holder'[<<"target", p>>] = f <=> holder[<<"target", p>>] = f
    BY <1>3, PairRow
  <2>3. QED
    BY <2>1, <2>2 DEF LockInv, TargetsHeld
<1>6. OthersHeld(f)'
  <2>1. \A s \in Stations : holder'[<<"station", s>>] = f => s \in tx'[f].updated
    BY <1>2, <1>3, StationRow DEF LockInv, OthersHeld
  <2>2. \A p \in Pairs : holder'[<<"artifact", p>>] = f => p[2] \in Visited(f)
    BY <1>1, <1>3, PairRow DEF LockInv, OthersHeld, Past
  <2>3. QED
    BY <1>2, <1>4, <2>1, <2>2 DEF OthersHeld, Past, Open
<1>7. Found(f)'
  BY <1>2 DEF Found
<1>8. QED
  BY <1>1, <1>2, <1>3, <1>5, <1>6, <1>7, LockLocal

\* The end of a transaction frees all its rows.
LEMMA EndedHolds ==
    ASSUME NEW f \in Executions, tx'[f].pc \in {"done", "aborted"}, \A r \in Rows : holder'[r] # f
    PROVE  TargetsHeld(f)' /\ OthersHeld(f)' /\ Found(f)'
<1>1. ~ Open(f)'
  BY DEF Open
<1>2. \A s, pcs : ~ Past(f, s, pcs)'
  BY <1>1 DEF Past
<1>3. TargetsHeld(f)'
  BY <1>2, PairRow DEF TargetsHeld
<1>4. OthersHeld(f)'
  BY PairRow, StationRow DEF OthersHeld
<1>5. Found(f)'
  BY DEF Found
<1>6. QED
  BY <1>3, <1>4, <1>5

LEMMA RollBackLocks ==
    ASSUME PersistInv, LockInv, NEW f \in Executions, RollBack(f)
    PROVE  LockInv'
<1> DEFINE u == [tx[f] EXCEPT !.pc = "aborted"]
<1>1. tx' = [tx EXCEPT ![f] = u] /\ Release(f) /\ order' = order /\ artifacts' = artifacts
  BY DEF RollBack, tables
<1>2. tx'[f].pc = "aborted"
  BY <1>1 DEF TxState, PersistInv, TypeOK
<1> HIDE DEF u
<1>3. OthersKept(f) /\ \A r \in Rows : holder'[r] # f
  BY <1>1, ReleaseOthers
<1>4. QED
  BY <1>1, <1>2, <1>3, EndedHolds, LockLocal

\* What is committed is of the execution's own job, whose target rows nobody
\* else has come past.
LEMMA CommitLocks ==
    ASSUME PersistInv, LockInv, NEW f \in Executions, Commit(f)
    PROVE  LockInv'
<1> DEFINE t == tx[f]
           u == [t EXCEPT !.pc = "done"]
<1>1. tx[f].pc = "commit" /\ tx' = [tx EXCEPT ![f] = u] /\ Release(f) /\ order' = order
  BY DEF Commit, Step
<1>2. tx'[f].pc = "done"
  BY <1>1 DEF TxState, PersistInv, TypeOK
<1> HIDE DEF u
<1>3. OthersKept(f) /\ \A r \in Rows : holder'[r] # f
  BY <1>1, ReleaseOthers
<1>4. artifacts' = [p \in Pairs |->
            IF p[1] = JobOf[f] /\ p[2] \in t.saved
            THEN [by |-> f, current |-> t.results[p[2]] = "verified"]
            ELSE IF p \in t.retired THEN [artifacts[p] EXCEPT !.current = FALSE]
            ELSE artifacts[p]]
  BY DEF Commit
<1>5. t.saved \subseteq Visited(f) /\ Open(f)
  BY <1>1, Finished
<1>6. \A p \in Pairs : artifacts[p] \in [by : Executions \cup {None}, current : BOOLEAN]
  BY DEF PersistInv, TypeOK
<1> HIDE DEF t
<1>7. \A p \in Pairs :
        \/ p[1] = JobOf[f] /\ p[2] \in t.saved /\ artifacts'[p].by = f
        \/ ~ artifacts'[p].current
        \/ artifacts'[p] = artifacts[p]
  BY <1>4, <1>6
<1>8. ASSUME NEW g \in Executions \ {f}
      PROVE  /\ TargetsHeld(g)' /\ OthersHeld(g)' /\ Found(g)'
             /\ Claim(g)' = Claim(g) /\ PairOf(g)' = PairOf(g)
  <2>1. CASE tx[g].pc \in {"recheck", "save"}
    <3>1. AtTarget(g) /\ tx[g].pc \in Locked
      BY <2>1 DEF AtTarget, Locked
    <3>2. PairOf(g) \in Pairs /\ PairOf(g)[1] = JobOf[g] /\ PairOf(g)[2] = At(g)
      BY <3>1, PairFacts
    <3>3. Past(g, PairOf(g)[2], Locked)
      BY <3>1, <3>2, Here DEF Past
    <3>4. ~ (PairOf(g)[1] = JobOf[f] /\ PairOf(g)[2] \in t.saved)
      BY <1>5, <3>2, <3>3, TargetIsExclusive DEF Past
    <3>5. artifacts'[PairOf(g)].current => artifacts[PairOf(g)].current
      BY <1>7, <3>2, <3>4
    <3>6. QED
      BY <1>3, <3>5, OthersFrame
  <2>2. CASE tx[g].pc \notin {"recheck", "save"}
    BY <1>3, <2>2, OthersFrame
  <2>3. QED
    BY <2>1, <2>2
<1>9. TargetsHeld(f)' /\ OthersHeld(f)' /\ Found(f)'
  BY <1>2, <1>3, EndedHolds
<1>10. NoCycle'
  BY <1>2, <1>3, <1>8, NoCycleKept DEF LockInv, OthersKept
<1>11. Authors'
  BY <1>7 DEF LockInv, Authors
<1>12. QED
  BY <1>8, <1>9, <1>10, <1>11 DEF LockInv

\* Every step keeps the locks in order.
LEMMA LockStep ==
    ASSUME PersistInv, LockInv, [Next]_vars
    PROVE  LockInv'
<1>1. ASSUME NEW e \in Executions, Persist(e) PROVE LockInv'
  BY <1>1, LockTargetLocks, StationLocks, RetireLocks, RecheckLocks, SaveLocks, JobLocks,
     CommitLocks, RollBackLocks DEF Persist, StationMissing
<1>2. ASSUME NEW e \in Executions, Victim(e) PROVE LockInv'
  BY <1>2, RollBackLocks DEF Victim
<1>3. ASSUME UNCHANGED <<order, tx, holder, artifacts>> PROVE LockInv'
  <2>1. ASSUME NEW g \in Executions
        PROVE  /\ At(g)' = At(g) /\ PairOf(g)' = PairOf(g) /\ Claim(g)' = Claim(g)
               /\ TargetsHeld(g)' = TargetsHeld(g) /\ OthersHeld(g)' = OthersHeld(g)
    BY <1>3 DEF At, PairOf, Claim, TargetsHeld, OthersHeld, Past, Open, Visited
  <2>2. \A g \in Executions : Found(g)'
    BY <1>3, <2>1 DEF LockInv, Found
  <2>3. NoCycle'
    <3> SUFFICES ASSUME NEW D \in SUBSET Executions, ClaimedAllRound(D)' PROVE D = {}
      BY DEF NoCycle
    <3>1. ClaimedAllRound(D)
      BY <1>3, <2>1 DEF ClaimedAllRound
    <3>2. QED
      BY <3>1 DEF LockInv, NoCycle
  <2>4. Authors'
    BY <1>3 DEF LockInv, Authors
  <2>5. QED
    BY <2>1, <2>2, <2>3, <2>4 DEF LockInv
<1>4. QED
  BY <1>1, <1>2, <1>3 DEF Next, DeleteStation, vars, tables

-----------------------------------------------------------------------------
(* Deadlocks.                                                              *)

\* No job lists two stations the other way round than the job of e does.
Agreed(e) ==
    \A f \in Executions, s, t \in Stations : ~ (Before(JobOf[e], s, t) /\ Before(JobOf[f], t, s))

\* Where the job of e lists station s.
Pos(e, s) == CHOOSE i \in 1..N : order[JobOf[e]][i] = s

\* How far an execution is with the target it is at.
Stage(g) ==
    IF tx[g].pc = "target" THEN 0
    ELSE IF tx[g].pc \in {"select", "station"} THEN 1
    ELSE IF tx[g].pc \in {"retire", "recheck"} THEN 2
    ELSE 3

\* How much lies before an execution, along the list of e.
ToGo(e, g) ==
    IF AtTarget(g) THEN 4 * (N + 2 - Pos(e, At(g))) - Stage(g)
    ELSE IF tx[g].pc = "job" THEN 1 ELSE 0

\* Every station is in every list.
LEMMA PosFacts ==
    ASSUME order \in Orders, NEW e \in Executions, NEW s \in Stations
    PROVE  Pos(e, s) \in 1..N /\ order[JobOf[e]][Pos(e, s)] = s
<1> DEFINE q == order[JobOf[e]]
<1>1. JobOf[e] \in Jobs
  BY PersistAssumption
<1>2. q \in [1..N -> Stations] /\ \A i, k \in 1..N : q[i] = q[k] => i = k
  <2>1. q \in {p \in [1..N -> Stations] : \A i, k \in DOMAIN p : p[i] = p[k] => i = k}
    BY <1>1, PersistAssumption DEF N
  <2>2. QED
    BY <2>1
<1> HIDE DEF q
<1>3. q \in Injection(1..N, Stations)
  BY <1>2 DEF Injection, IsInjective
<1>4. IsFiniteSet(Stations) /\ Cardinality(Stations) = N /\ N \in Nat
  BY PersistAssumption, NType DEF N
<1>5. Cardinality(1..N) = Cardinality(Stations)
  <2>1. Cardinality(1..N) = IF 1 > N THEN 0 ELSE N - 1 + 1
    BY <1>4, FS_Interval
  <2>2. QED
    BY <1>4, <2>1
<1>6. q \in Surjection(1..N, Stations)
  BY <1>3, <1>4, <1>5, FS_Injection
<1>7. \E i \in 1..N : q[i] = s
  BY <1>6 DEF Surjection
<1>8. QED
  BY <1>7 DEF Pos, q

\* What an execution has visited lies before where it is.
LEMMA VisitedBefore ==
    ASSUME PersistInv, NEW e \in Executions, Agreed(e), NEW g \in Executions, AtTarget(g),
           NEW s \in Visited(g)
    PROVE  s \in Stations /\ Pos(e, s) < Pos(e, At(g))
<1>0. order \in Orders /\ N \in Nat
  BY NType DEF PersistInv
<1>1. PICK i \in 1..(tx[g].n - 1) : s = order[JobOf[g]][i]
  BY DEF Visited
<1>2. tx[g].n \in 1..N /\ At(g) \in Stations /\ At(g) \notin Visited(g)
  BY Here
<1>3. i \in 1..N /\ i < tx[g].n
  BY <1>0, <1>1, <1>2
<1>4. s \in Stations
  BY <1>0, <1>1, <1>3, OrderFacts
<1>5. \A f \in Executions : DOMAIN order[JobOf[f]] = 1..N
  <2>1. \A f \in Executions : order[JobOf[f]] \in [1..N -> Stations]
    BY <1>0, PersistAssumption DEF N
  <2>2. QED
    BY <2>1
<1>6. Before(JobOf[g], s, At(g))
  BY <1>1, <1>2, <1>3, <1>5 DEF Before, At
<1>7. /\ Pos(e, s) \in 1..N /\ order[JobOf[e]][Pos(e, s)] = s
      /\ Pos(e, At(g)) \in 1..N /\ order[JobOf[e]][Pos(e, At(g))] = At(g)
  BY <1>0, <1>2, <1>4, PosFacts
<1>8. ~ (Pos(e, At(g)) < Pos(e, s))
  <2>1. Pos(e, At(g)) < Pos(e, s) => Before(JobOf[e], At(g), s)
    BY <1>5, <1>7 DEF Before
  <2>2. QED
    BY <1>2, <1>4, <1>6, <2>1 DEF Agreed
<1>9. Pos(e, s) # Pos(e, At(g))
  BY <1>2, <1>7
<1>10. QED
  BY <1>0, <1>4, <1>7, <1>8, <1>9

LEMMA ToGoType ==
    ASSUME PersistInv, NEW e \in Executions, NEW g \in Executions
    PROVE  /\ ToGo(e, g) \in Nat /\ Stage(g) \in 0..3
           /\ AtTarget(g) => /\ ToGo(e, g) > 1 /\ Pos(e, At(g)) \in 1..N
                             /\ ToGo(e, g) = 4 * (N + 2 - Pos(e, At(g))) - Stage(g)
<1>1. Stage(g) \in 0..3 /\ N \in Nat
  BY NType DEF Stage
<1>2. CASE AtTarget(g)
  <2>1. Pos(e, At(g)) \in 1..N
    BY <1>2, Here, PosFacts DEF PersistInv
  <2>2. QED
    BY <1>1, <1>2, <2>1 DEF ToGo
<1>3. CASE ~ AtTarget(g)
  BY <1>1, <1>3 DEF ToGo
<1>4. QED
  BY <1>2, <1>3

\* Who has come past the station that f is at has less to go, or stands there.
LEMMA PastIsAhead ==
    ASSUME PersistInv, NEW e \in Executions, Agreed(e),
           NEW f \in Executions, NEW g \in Executions, AtTarget(f), NEW pcs,
           Past(g, At(f), pcs)
    PROVE  \/ ToGo(e, g) < ToGo(e, f)
           \/ /\ At(g) = At(f) /\ tx[g].pc \in pcs
              /\ AtTarget(g) => ToGo(e, g) = ToGo(e, f) + Stage(f) - Stage(g)
<1>0. /\ N \in Nat /\ ToGo(e, f) > 1 /\ ToGo(e, f) \in Nat /\ Pos(e, At(f)) \in 1..N
      /\ ToGo(e, f) = 4 * (N + 2 - Pos(e, At(f))) - Stage(f)
      /\ Stage(f) \in 0..3 /\ Stage(g) \in 0..3
  BY ToGoType, NType
<1>1. CASE ~ AtTarget(g) /\ At(f) \in Visited(g)
  BY <1>0, <1>1 DEF ToGo
<1>2. CASE AtTarget(g) /\ At(f) \in Visited(g)
  <2>1. /\ ToGo(e, g) = 4 * (N + 2 - Pos(e, At(g))) - Stage(g) /\ Pos(e, At(g)) \in 1..N
    BY <1>2, ToGoType
  <2>2. Pos(e, At(f)) < Pos(e, At(g))
    BY <1>2, VisitedBefore
  <2>3. QED
    BY <1>0, <2>1, <2>2
<1>3. CASE tx[g].pc \in pcs /\ At(f) = At(g)
  <2>1. AtTarget(g) => ToGo(e, g) = 4 * (N + 2 - Pos(e, At(g))) - Stage(g)
    BY ToGoType
  <2>2. QED
    BY <1>0, <1>3, <2>1
<1>4. QED
  BY <1>1, <1>2, <1>3 DEF Past

\* Who makes f wait has less to go; only at the artifacts of one station may
\* both be about to save, the other claiming the row of f.
LEMMA WaitsAhead ==
    ASSUME PersistInv, LockInv, NEW e \in Executions, Agreed(e),
           NEW f \in Executions, NEW g \in Executions, g \in WaitsFor(f)
    PROVE  \/ ToGo(e, g) < ToGo(e, f)
           \/ /\ ToGo(e, g) = ToGo(e, f)
              /\ tx[f].pc = "save" /\ tx[g].pc = "save" /\ PairOf(f) \in Claim(g)
<1>1. PICK r \in Wanted(f) : holder[r] = g /\ g # f
  BY DEF WaitsFor
<1>2. ToGo(e, f) \in Nat /\ ToGo(e, g) \in Nat
  BY ToGoType
<1>3. CASE tx[f].pc = "target"
  <2>1. AtTarget(f) /\ Stage(f) = 0
    BY <1>3 DEF AtTarget, Stage
  <2>2. r = <<"target", PairOf(f)>>
    BY <1>1, <1>3 DEF Wanted
  <2>3. Past(g, At(f), Locked)
    BY <1>1, <2>1, <2>2, PairFacts DEF LockInv, TargetsHeld
  <2>4. tx[g].pc \in Locked => AtTarget(g) /\ Stage(g) \in 1..3
    BY DEF Locked, AtTarget, Stage
  <2>5. QED
    BY <1>2, <2>1, <2>3, <2>4, PastIsAhead
<1>4. CASE tx[f].pc = "station"
  <2>1. AtTarget(f) /\ Stage(f) = 1
    BY <1>4 DEF AtTarget, Stage
  <2>2. r = <<"station", At(f)>>
    BY <1>1, <1>4 DEF Wanted
  <2>3. At(f) \in tx[g].updated /\ Open(g)
    BY <1>1, <2>1, <2>2, Here DEF LockInv, OthersHeld
  <2>4. Past(g, At(f), {"retire", "recheck", "save"})
    BY <2>3 DEF PersistInv, TxInv, InPlace, AtArtifacts, Past
  <2>5. tx[g].pc \in {"retire", "recheck", "save"} => AtTarget(g) /\ Stage(g) \in 2..3
    BY DEF AtTarget, Stage
  <2>6. QED
    BY <1>2, <2>1, <2>4, <2>5, PastIsAhead
<1>5. CASE tx[f].pc \in {"recheck", "save"}
  <2>1. AtTarget(f) /\ PairOf(f) \in Pairs /\ PairOf(f)[2] = At(f)
    BY <1>5, PairFacts DEF AtTarget
  <2>2. PICK p \in Pairs : /\ r = <<"artifact", p>> /\ p[2] = At(f)
                           /\ tx[f].pc = "save" => p = PairOf(f)
    <3>1. CASE tx[f].pc = "recheck"
      <4>1. tx[f].seen \subseteq Pairs /\ \A p \in tx[f].seen : p[2] = At(f)
        BY <3>1 DEF PersistInv, TypeOK, TxState, LockInv, Found
      <4>2. r \in {<<"artifact", p>> : p \in tx[f].seen}
        BY <1>1, <3>1 DEF Wanted
      <4>3. QED
        BY <3>1, <4>1, <4>2
    <3>2. CASE tx[f].pc = "save"
      <4>1. r = <<"artifact", PairOf(f)>>
        BY <1>1, <3>2 DEF Wanted
      <4>2. QED
        BY <2>1, <4>1
    <3>3. QED
      BY <1>5, <3>1, <3>2
  <2>3. Past(g, At(f), {"save"})
    BY <1>1, <2>2 DEF LockInv, OthersHeld
  <2>4. tx[g].pc = "save" => AtTarget(g) /\ Stage(g) = 3
    BY DEF AtTarget, Stage
  <2>5. CASE ToGo(e, g) < ToGo(e, f)
    BY <2>5
  <2>6. CASE At(g) = At(f) /\ tx[g].pc = "save"
    <3>1. CASE tx[f].pc = "recheck"
      <4>1. Stage(f) = 2
        BY <3>1 DEF Stage
      <4>2. QED
        BY <1>2, <2>1, <2>3, <2>4, <2>6, <4>1, PastIsAhead
    <3>2. CASE tx[f].pc = "save"
      <4>1. Stage(f) = 3
        BY <3>2 DEF Stage
      <4>2. PairOf(f) \in Claim(g)
        BY <1>1, <2>1, <2>2, <2>6, <3>2 DEF Claim
      <4>3. QED
        BY <1>2, <2>1, <2>3, <2>4, <2>6, <3>2, <4>1, <4>2, PastIsAhead
    <3>3. QED
      BY <1>5, <3>1, <3>2
  <2>7. QED
    BY <2>1, <2>3, <2>5, <2>6, PastIsAhead
<1>6. CASE tx[f].pc = "job"
  <2>1. r = <<"job", JobOf[f]>> /\ JobOf[f] \in Jobs
    BY <1>1, <1>6, PersistAssumption DEF Wanted
  <2>2. tx[g].pc = "commit"
    BY <1>1, <2>1 DEF LockInv, OthersHeld
  <2>3. QED
    BY <1>6, <2>2 DEF ToGo, AtTarget
<1>7. CASE tx[f].pc \notin {"target", "station", "recheck", "save", "job"}
  BY <1>1, <1>7 DEF Wanted
<1>8. QED
  BY <1>3, <1>4, <1>5, <1>6, <1>7

\* A set of numbers that is not empty has a least member.
LEMMA LeastNumber ==
    ASSUME NEW S \in SUBSET Nat, S # {}
    PROVE  \E s \in S : \A t \in S : s <= t
<1> DEFINE less == OpToRel(<, Nat)
<1>1. IsWellFoundedOn(less, Nat)
  BY NatLessThanWellFounded
<1>2. \A p, q \in Nat : <<p, q>> \in less <=> p < q
  BY DEF OpToRel
<1> HIDE DEF less
<1>3. PICK s \in S : \A t \in S : ~ (<<t, s>> \in less)
  BY <1>1, WFMin
<1>4. ASSUME NEW t \in S PROVE s <= t
  <2>1. s \in Nat /\ t \in Nat
    OBVIOUS
  <2>2. ~ (t < s)
    BY <1>2, <1>3, <2>1, Zenon
  <2>3. QED
    BY <2>1, <2>2
<1>5. QED
  BY <1>3, <1>4

\* Executions that wait for one another list stations in different orders: of
\* those with least to go each would wait for another of them, both about to
\* save an artifact that the other claims.
LEMMA DeadlockNeedsDisagreement ==
    ASSUME PersistInv, LockInv, NEW e \in Executions, NEW d \in SUBSET Executions, e \in d,
           \A f \in d : WaitsFor(f) \cap d # {}
    PROVE  ~ Agreed(e)
<1> SUFFICES ASSUME Agreed(e) PROVE FALSE
  OBVIOUS
<1> DEFINE S == {ToGo(e, f) : f \in d}
<1>1. S \in SUBSET Nat /\ S # {}
  BY ToGoType
<1>2. PICK m \in S : \A t \in S : m <= t
  BY <1>1, LeastNumber
<1>3. \A f \in d : m <= ToGo(e, f) /\ ToGo(e, f) \in Nat /\ m \in Nat
  BY <1>1, <1>2, ToGoType
<1> DEFINE D == {f \in d : ToGo(e, f) = m}
<1>4. D # {}
  BY <1>2
<1> HIDE DEF S
<1>5. ClaimedAllRound(D)
  <2> SUFFICES ASSUME NEW f \in D
               PROVE  /\ tx[f].pc \in {"recheck", "save"}
                      /\ \E g \in D : g # f /\ PairOf(f) \in Claim(g)
    BY DEF ClaimedAllRound
  <2>1. PICK g \in d : g \in WaitsFor(f)
    OBVIOUS
  <2>2. g # f
    BY <2>1 DEF WaitsFor
  <2>3. /\ ToGo(e, g) = ToGo(e, f)
        /\ tx[f].pc = "save" /\ tx[g].pc = "save" /\ PairOf(f) \in Claim(g)
    BY <1>3, <2>1, WaitsAhead
  <2>4. QED
    BY <2>2, <2>3
<1>6. QED
  BY <1>4, <1>5 DEF LockInv, NoCycle

-----------------------------------------------------------------------------
(* Results that are lost.                                                  *)

LEMMA InitLocks == Init => LockInv
<1> SUFFICES ASSUME Init PROVE LockInv
  OBVIOUS
<1>1. \A r \in Rows, g \in Executions : holder[r] # g
  BY PersistAssumption DEF Init
<1>2. \A p \in Pairs : ~ artifacts[p].current
  BY DEF Init, NoArtifact
<1>3. ASSUME NEW g \in Executions
      PROVE  tx[g].pc = "target" /\ Visited(g) = {}
  <2>1. tx[g].pc = "target" /\ tx[g].n = 1
    BY DEF Init, NewTx
  <2>2. 1..(tx[g].n - 1) = {}
    BY <2>1
  <2>3. QED
    BY <2>1, <2>2 DEF Visited
<1>4. Authors
  BY <1>2 DEF Authors
<1>5. NoCycle
  BY <1>3 DEF NoCycle, ClaimedAllRound
<1>6. ASSUME NEW g \in Executions PROVE TargetsHeld(g) /\ OthersHeld(g) /\ Found(g)
  <2>1. \A s : ~ Past(g, s, Locked)
    BY <1>3 DEF Past, Locked
  <2>2. TargetsHeld(g)
    BY <1>1, <2>1, PairRow DEF TargetsHeld
  <2>3. OthersHeld(g)
    BY <1>1, PairRow, StationRow DEF OthersHeld
  <2>4. Found(g)
    BY <1>3 DEF Found
  <2>5. QED
    BY <2>2, <2>3, <2>4
<1>7. QED
  BY <1>4, <1>5, <1>6 DEF LockInv

\* Why the result of e is lost.
Excused(e) == (\E s \in deleted : tx[e].results[s] = "verified") \/ ~ Agreed(e)

\* An execution that goes on with its statements has not been rolled back, and
\* the others are as they were.
LEMMA GoesOn ==
    ASSUME PersistInv, NEW f \in Executions, Persist(f), ~ StationMissing(f)
    PROVE  /\ tx'[f].pc # "aborted" /\ order' = order /\ deleted' = deleted
           /\ \A g \in Executions : g # f => tx'[g] = tx[g]
<1>1. tx \in [Executions -> TxState] /\ tx[f] \in TxState
  BY DEF PersistInv, TypeOK
<1>2. CASE LockTarget(f)
  <2>1. PICK r \in Result :
          LET t == [tx[f] EXCEPT !.results[At(f)] = r]
          IN  Step(f, "target", CASE r = "verified" -> [t EXCEPT !.pc = "select"]
                                  [] r = "created"  -> [t EXCEPT !.pc = "retire"]
                                  [] r = "failed"   -> Advanced(t))
    BY <1>2 DEF LockTarget
  <2>2. tx[f].pc = "target" /\ AtTarget(f)
    BY <2>1 DEF Step, AtTarget
  <2>3. tx[f].n \in 1..N /\ At(f) \in Stations
    BY <2>2, Here
  <2> DEFINE t == [tx[f] EXCEPT !.results[At(f)] = r]
             u == CASE r = "verified" -> [t EXCEPT !.pc = "select"]
                    [] r = "created"  -> [t EXCEPT !.pc = "retire"]
                    [] r = "failed"   -> Advanced(t)
  <2>4. t \in TxState /\ t.n = tx[f].n
    BY <1>1, <2>3 DEF TxState
  <2>5. tx' = [tx EXCEPT ![f] = u]
    BY <2>1 DEF Step
  <2> HIDE DEF t
  <2>6. /\ r = "verified" => u = [t EXCEPT !.pc = "select"]
        /\ r = "created" => u = [t EXCEPT !.pc = "retire"]
        /\ r = "failed" => u = Advanced(t)
    OBVIOUS
  <2> HIDE DEF u
  <2>7. u.pc # "aborted"
    BY <2>3, <2>4, <2>6, AdvancedFacts DEF Result, TxState
  <2>8. UNCHANGED <<order, deleted>>
    BY <1>2 DEF LockTarget
  <2>9. QED
    BY <1>1, <2>5, <2>7, <2>8
<1>3. CASE SelectStation(f) \/ LockStation(f) \/ RetireArtifacts(f) \/ LockJob(f)
  <2>1. CASE SelectStation(f)
    BY <1>1, <2>1 DEF SelectStation, Step, TxState
  <2>2. CASE LockStation(f)
    BY <1>1, <2>2 DEF LockStation, Step, TxState
  <2>3. CASE RetireArtifacts(f)
    BY <1>1, <2>3 DEF RetireArtifacts, Step, TxState
  <2>4. CASE LockJob(f)
    BY <1>1, <2>4 DEF LockJob, Step, TxState
  <2>5. QED
    BY <1>3, <2>1, <2>2, <2>3, <2>4
<1>4. CASE RecheckArtifacts(f)
  BY <1>1, <1>4 DEF RecheckArtifacts, Step, TxState
<1>5. CASE SaveArtifact(f)
  <2>1. tx[f].pc = "save" /\ AtTarget(f)
    BY <1>5 DEF SaveArtifact, Step, AtTarget
  <2>2. Advanced(tx[f]) \in TxState /\ Advanced(tx[f]).pc # "aborted"
    BY <1>1, <2>1, Here, AdvancedFacts
  <2> DEFINE a == Advanced(tx[f])
             u == [a EXCEPT !.saved = @ \cup {At(f)}]
  <2>3. tx' = [tx EXCEPT ![f] = u] /\ UNCHANGED <<order, deleted>>
    BY <1>5 DEF SaveArtifact, Step
  <2>4. a \in TxState /\ a.pc # "aborted"
    BY <2>2
  <2> HIDE DEF a
  <2>5. u.pc = a.pc
    BY <2>4 DEF TxState
  <2> HIDE DEF u
  <2>6. QED
    BY <1>1, <2>3, <2>4, <2>5
<1>6. CASE Commit(f)
  <2>1. tx' = [tx EXCEPT ![f] = [tx[f] EXCEPT !.pc = "done"]] /\ UNCHANGED <<order, deleted>>
    BY <1>6 DEF Commit, Step
  <2>2. QED
    BY <1>1, <2>1 DEF TxState
<1>7. QED
  BY <1>2, <1>3, <1>4, <1>5, <1>6 DEF Persist

\* A transaction is rolled back for a reason, and the reason stays.
LEMMA LostStep ==
    ASSUME PersistInv, LockInv, [Next]_vars,
           \A g \in Executions : tx[g].pc = "aborted" => Excused(g)
    PROVE  \A g \in Executions : tx'[g].pc = "aborted" => Excused(g)'
<1>1. tx \in [Executions -> TxState]
  BY DEF PersistInv, TypeOK
<1>2. ASSUME order' = order, deleted \subseteq deleted', NEW g \in Executions,
             tx'[g].results = tx[g].results, Excused(g)
      PROVE  Excused(g)'
  BY <1>2 DEF Excused, Agreed, Before
<1>3. ASSUME NEW e \in Executions, Persist(e), ~ StationMissing(e), NEW g \in Executions,
             tx'[g].pc = "aborted"
      PROVE  Excused(g)'
  <2>1. g # e /\ tx'[g] = tx[g] /\ order' = order /\ deleted' = deleted
    BY <1>3, GoesOn
  <2>2. QED
    BY <1>2, <1>3, <2>1
<1>4. ASSUME NEW e \in Executions, RollBack(e), Excused(e), NEW g \in Executions,
             tx'[g].pc = "aborted"
      PROVE  Excused(g)'
  <2>1. order' = order /\ deleted' = deleted /\ tx'[g].results = tx[g].results
    BY <1>1, <1>4 DEF RollBack, TxState
  <2>2. Excused(g)
    BY <1>1, <1>4 DEF RollBack
  <2>3. QED
    BY <1>2, <2>1, <2>2
<1>5. ASSUME NEW e \in Executions, StationMissing(e) PROVE Excused(e) /\ RollBack(e)
  <2>1. tx[e].results[At(e)] = "verified"
    BY <1>5 DEF StationMissing, LockInv, Found
  <2>2. QED
    BY <1>5, <2>1 DEF StationMissing, Excused
<1>6. ASSUME NEW e \in Executions, Victim(e) PROVE Excused(e) /\ RollBack(e)
  <2>1. PICK d \in SUBSET Executions : e \in d /\ \A f \in d : WaitsFor(f) \cap d # {}
    BY <1>6 DEF Victim
  <2>2. QED
    BY <1>6, <2>1, DeadlockNeedsDisagreement DEF Victim, Excused
<1>7. ASSUME NEW s \in Stations, DeleteStation(s), NEW g \in Executions, tx'[g].pc = "aborted"
      PROVE  Excused(g)'
  <2>1. order' = order /\ deleted \subseteq deleted' /\ tx' = tx
    BY <1>7 DEF DeleteStation
  <2>2. QED
    BY <1>2, <1>7, <2>1
<1>8. ASSUME UNCHANGED vars, NEW g \in Executions, tx'[g].pc = "aborted"
      PROVE  Excused(g)'
  <2>1. order' = order /\ deleted' = deleted /\ tx' = tx
    BY <1>8 DEF vars
  <2>2. QED
    BY <1>2, <1>8, <2>1
<1>9. QED
  BY <1>3, <1>4, <1>5, <1>6, <1>7, <1>8 DEF Next

\* A result of _persist_result is lost only if a station of the job was deleted
\* meanwhile or another job lists two stations the other way round: two
\* executions of one job, and jobs whose lists agree, never deadlock, however
\* many there are and however their statements interleave.
THEOREM ResultsLostForAReason == Spec => []LostForAReason
<1> DEFINE Lost == \A g \in Executions : tx[g].pc = "aborted" => Excused(g)
<1>1. Init => LockInv /\ Lost
  <2>1. Init => Lost
    BY DEF Init, NewTx
  <2>2. QED
    BY <2>1, InitLocks
<1>2. PersistInv /\ LockInv /\ Lost /\ [Next]_vars => LockInv' /\ Lost'
  BY LockStep, LostStep
<1>3. Lost => LostForAReason
  BY DEF LostForAReason, Excused, Agreed
<1>4. QED
  BY <1>1, <1>2, <1>3, Invariance, PTL DEF Spec

=============================================================================
