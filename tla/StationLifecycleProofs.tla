------------------------ MODULE StationLifecycleProofs ------------------------
(***************************************************************************)
(* Proofs about StationLifecycle, for any number of stations, tokens and   *)
(* overlapping requests.                                                   *)
(***************************************************************************)
EXTENDS StationLifecycle, TLAPS

USE LifecycleAssumption DEF Tokens

-----------------------------------------------------------------------------
(* Types.                                                                  *)

\* What the operation of a request says about the rows it works on.
Formed(q) ==
    /\ q.op \in {"create", "enroll"} => q.token \in Enrollment
    /\ q.op = "bootstrap" => q.token \in Provisioning
    /\ q.op \in {"enroll", "bootstrap"} => q.pc \in Stations
    /\ q.op # "idle" => q.station \in Stations
    /\ q.op \notin {"idle", "enroll"} => q.seen \in StationRow

Requested == {q \in Tx : Formed(q)}

Typed == TypeOK /\ tx \in [Requests -> Requested]

LEMMA IdleIsFormed == Idle \in Requested /\ Idle.op = "idle"
  BY DEF Idle, Requested, Tx, Roles, Formed

\* The requests that are opened.
LEMMA Opened ==
  ASSUME NEW s \in Stations, NEW row \in StationRow
  PROVE  /\ \A k \in Enrollment, role \in Roles :
              [Idle EXCEPT !.op = "create", !.station = s, !.token = k,
                           !.seen = row, !.role = role] \in Requested
         /\ [Idle EXCEPT !.op = "delete", !.station = s, !.seen = row] \in Requested
         /\ \A role \in Roles, e \in BOOLEAN :
              [Idle EXCEPT !.op = "update", !.station = s, !.seen = row,
                           !.role = role, !.enabled = e] \in Requested
         /\ \A k \in Tokens :
              [Idle EXCEPT !.op = "heartbeat", !.station = s, !.token = k,
                           !.seen = row] \in Requested
  <1>1. ASSUME NEW k \in Enrollment, NEW role \in Roles
        PROVE  [Idle EXCEPT !.op = "create", !.station = s, !.token = k,
                            !.seen = row, !.role = role] \in Requested
    BY DEF Idle, Requested, Tx, Formed
  <1>2. [Idle EXCEPT !.op = "delete", !.station = s, !.seen = row] \in Requested
    BY DEF Idle, Requested, Tx, Formed, Roles
  <1>3. ASSUME NEW role \in Roles, NEW e \in BOOLEAN
        PROVE  [Idle EXCEPT !.op = "update", !.station = s, !.seen = row,
                            !.role = role, !.enabled = e] \in Requested
    BY DEF Idle, Requested, Tx, Formed
  <1>4. ASSUME NEW k \in Tokens
        PROVE  [Idle EXCEPT !.op = "heartbeat", !.station = s, !.token = k,
                            !.seen = row] \in Requested
    BY DEF Idle, Requested, Tx, Formed, Roles
  <1> QED
    BY <1>1, <1>2, <1>3, <1>4

LEMMA Consuming ==
  ASSUME NEW s \in Stations, NEW p \in Stations, NEW row \in StationRow
  PROVE  /\ \A k \in Enrollment :
              [Idle EXCEPT !.op = "enroll", !.station = s, !.token = k,
                           !.pc = p, !.waits = TRUE] \in Requested
         /\ \A k \in Provisioning :
              [Idle EXCEPT !.op = "bootstrap", !.station = p, !.token = k, !.pc = p,
                           !.waits = TRUE, !.seen = row] \in Requested
  <1>1. ASSUME NEW k \in Enrollment
        PROVE  [Idle EXCEPT !.op = "enroll", !.station = s, !.token = k,
                            !.pc = p, !.waits = TRUE] \in Requested
    BY DEF Idle, Requested, Tx, Formed, Roles
  <1>2. ASSUME NEW k \in Provisioning
        PROVE  [Idle EXCEPT !.op = "bootstrap", !.station = p, !.token = k, !.pc = p,
                            !.waits = TRUE, !.seen = row] \in Requested
    BY DEF Idle, Requested, Tx, Formed, Roles
  <1> QED
    BY <1>1, <1>2

LEMMA OpenTyped ==
  ASSUME Typed, NEW r \in Requests, NEW q \in Requested, Open(r, q),
         UNCHANGED <<station, token, agent, minted, store, overlapped>>
  PROVE  Typed'
  BY DEF Typed, TypeOK, Open, Requested

LEMMA CloseTyped ==
  ASSUME Typed, NEW r \in Requests, Close(r)
  PROVE  tx' \in [Requests -> Tx] /\ tx' \in [Requests -> Requested]
  BY IdleIsFormed DEF Typed, Close, Requested

LEMMA RegisteredTyped ==
  ASSUME Typed, NEW s \in Stations, NEW seen \in StationRow, NEW role \in Roles
  PROVE  Registered(s, seen, role) \in StationRow
  <1>1. station[s] \in StationRow
    BY DEF Typed, TypeOK
  <1> QED
    BY <1>1 DEF Registered, StationRow

\* A write of columns of a row of one table.
LEMMA BindTyped ==
  ASSUME Typed, NEW r \in Requests, NEW s \in Stations, NEW p \in Stations,
         NEW k \in Tokens, NEW epoch \in Nat, Bind(r, s, p, k, epoch)
  PROVE  /\ agent' \in [Stations -> AgentRow \cup {None}]
         /\ token' \in [Tokens -> TokenRow]
         /\ \A c \in Tokens : /\ token'[c].station = token[c].station
                              /\ token'[c].issued = token[c].issued
         /\ minted' \in [Tokens -> Nat]
         /\ store' \in [Stations -> Tokens \cup {None}]
  <1>1. agent' \in [Stations -> AgentRow \cup {None}]
    <2>1. [pc |-> p, cred |-> k, epoch |-> epoch] \in AgentRow
      BY DEF AgentRow
    <2> QED
      BY <2>1 DEF Bind, Typed, TypeOK
  <1>2. token' = [token EXCEPT ![k].used = TRUE] /\ token \in [Tokens -> TokenRow]
    BY DEF Bind, Typed, TypeOK
  <1>3. [token[k] EXCEPT !.used = TRUE] \in TokenRow
    BY <1>2 DEF TokenRow
  <1>4. token' = [token EXCEPT ![k] = [token[k] EXCEPT !.used = TRUE]]
    BY <1>2
  <1>5. token' \in [Tokens -> TokenRow]
    BY <1>2, <1>3, <1>4
  <1>6. \A c \in Tokens : /\ token'[c].station = token[c].station
                          /\ token'[c].issued = token[c].issued
    BY <1>2 DEF TokenRow
  <1>7. minted' \in [Tokens -> Nat]
    BY DEF Bind, Typed, TypeOK
  <1>8. store' \in [Stations -> Tokens \cup {None}]
    BY DEF Bind, Typed, TypeOK
  <1> QED
    BY <1>1, <1>5, <1>6, <1>7, <1>8

LEMMA IssuedTyped ==
  ASSUME NEW old \in TokenRow, NEW s \in Stations, NEW n \in Nat
  PROVE  LET row == [old EXCEPT !.issued = TRUE, !.station = s, !.epoch = n]
         IN  row \in TokenRow /\ row.station = s /\ row.issued
  BY DEF TokenRow

LEMMA CreateTyped ==
  ASSUME Typed, NEW r \in Requests, CreateCommit(r)
  PROVE  Typed'
  <1> DEFINE s == tx[r].station
             k == tx[r].token
             row == [token[k] EXCEPT !.issued = TRUE, !.station = s, !.epoch = station[s].epoch]
  <1>1. /\ s \in Stations /\ k \in Enrollment
        /\ tx[r].seen \in StationRow /\ tx[r].role \in Roles
    BY DEF Typed, Requested, Formed, Tx, CreateCommit
  <1>2. station' = [station EXCEPT ![s] = Registered(s, tx[r].seen, tx[r].role)]
    BY DEF CreateCommit
  <1>3. token' = [token EXCEPT ![k] = row]
    BY DEF CreateCommit
  <1>4. token \in [Tokens -> TokenRow] /\ station \in [Stations -> StationRow]
    BY DEF Typed, TypeOK
  <1>5. row \in TokenRow /\ row.station = s /\ row.issued
    <2>1. token[k] \in TokenRow /\ station[s].epoch \in Nat
      BY <1>1, <1>4 DEF StationRow
    <2> QED
      BY <1>1, <2>1, IssuedTyped
  <1> HIDE DEF s, k, row
  <1>6. station' \in [Stations -> StationRow]
    BY <1>1, <1>2, <1>4, RegisteredTyped
  <1>7. token' \in [Tokens -> TokenRow]
    BY <1>1, <1>3, <1>4, <1>5
  <1>8. \A c \in Tokens : (token'[c].station # None) <=> (c \in Enrollment /\ token'[c].issued)
    BY <1>1, <1>3, <1>4, <1>5 DEF Typed, TypeOK
  <1> QED
    BY <1>6, <1>7, <1>8, CloseTyped DEF Typed, TypeOK, CreateCommit

LEMMA EnrollTyped ==
  ASSUME Typed, NEW r \in Requests, EnrollCommit(r)
  PROVE  Typed'
  <1> DEFINE s == tx[r].station
             p == tx[r].pc
             k == tx[r].token
  <1>1. s \in Stations /\ p \in Stations /\ k \in Tokens
    BY DEF Typed, Requested, Formed, EnrollCommit
  <1>2. token[k].epoch \in Nat
    BY <1>1 DEF Typed, TypeOK, TokenRow
  <1>3. Bind(r, s, p, k, token[k].epoch)
    BY DEF EnrollCommit
  <1>4. overlapped' \subseteq Tokens
    BY <1>1 DEF Typed, TypeOK, EnrollCommit
  <1> HIDE DEF s, p, k
  <1>5. /\ agent' \in [Stations -> AgentRow \cup {None}]
        /\ token' \in [Tokens -> TokenRow]
        /\ \A c \in Tokens : /\ token'[c].station = token[c].station
                             /\ token'[c].issued = token[c].issued
        /\ minted' \in [Tokens -> Nat]
        /\ store' \in [Stations -> Tokens \cup {None}]
    BY <1>1, <1>2, <1>3, BindTyped
  <1> QED
    BY <1>4, <1>5, CloseTyped DEF Typed, TypeOK, EnrollCommit

LEMMA BootstrapTyped ==
  ASSUME Typed, NEW r \in Requests, BootstrapCommit(r)
  PROVE  Typed'
  <1> DEFINE s == tx[r].station
             k == tx[r].token
             seen == tx[r].seen
             epoch == IF seen.row = "live" THEN seen.epoch ELSE station[s].epoch
  <1>1. s \in Stations /\ k \in Tokens /\ seen \in StationRow
    BY DEF Typed, Requested, Formed, BootstrapCommit
  <1>2. epoch \in Nat
    BY <1>1 DEF Typed, TypeOK, StationRow
  <1>3. Bind(r, s, s, k, epoch)
    BY DEF BootstrapCommit
  <1>4. overlapped' \subseteq Tokens
    BY <1>1 DEF Typed, TypeOK, BootstrapCommit
  <1>5. \/ UNCHANGED station
        \/ station' = [station EXCEPT ![s] = Registered(s, seen, "client")]
    BY DEF BootstrapCommit
  <1> HIDE DEF s, k, seen, epoch
  <1>6. station' \in [Stations -> StationRow]
    BY <1>1, <1>5, RegisteredTyped DEF Typed, TypeOK, Roles
  <1>7. /\ agent' \in [Stations -> AgentRow \cup {None}]
        /\ token' \in [Tokens -> TokenRow]
        /\ \A c \in Tokens : /\ token'[c].station = token[c].station
                             /\ token'[c].issued = token[c].issued
        /\ minted' \in [Tokens -> Nat]
        /\ store' \in [Stations -> Tokens \cup {None}]
    BY <1>1, <1>2, <1>3, BindTyped
  <1> QED
    BY <1>4, <1>6, <1>7, CloseTyped DEF Typed, TypeOK, BootstrapCommit

LEMMA DeleteTyped ==
  ASSUME Typed, NEW r \in Requests, DeleteCommit(r)
  PROVE  Typed'
  <1> DEFINE s == tx[r].station
             seen == tx[r].seen
             row == [station[s] EXCEPT
                       !.row = "deleted",
                       !.enabled = IF seen.enabled THEN FALSE ELSE @,
                       !.state = IF seen.state # "disabled" THEN "disabled" ELSE @,
                       !.epoch = IF station[s].row = "live" THEN @ + 1 ELSE @]
             cut(c) == [token[c] EXCEPT !.revoked = @ \/ token[c].station = s]
  <1>1. s \in Stations /\ seen \in StationRow
    BY DEF Typed, Requested, Formed, DeleteCommit
  <1>2. token \in [Tokens -> TokenRow] /\ station \in [Stations -> StationRow]
    BY DEF Typed, TypeOK
  <1>3. row \in StationRow
    <2>1. station[s] \in StationRow
      BY <1>1, <1>2
    <2> HIDE DEF s, seen
    <2> DEFINE e == IF seen.enabled THEN FALSE ELSE station[s].enabled
               st == IF seen.state # "disabled" THEN "disabled" ELSE station[s].state
               n == IF station[s].row = "live" THEN station[s].epoch + 1 ELSE station[s].epoch
    <2>2. st \in {"offline", "online", "disabled"} /\ n \in Nat
      BY <2>1 DEF StationRow
    <2>3. e \in BOOLEAN
      <3>1. station[s].enabled \in BOOLEAN
        BY <2>1 DEF StationRow
      <3>2. CASE seen.enabled
        BY <3>2
      <3>3. CASE ~seen.enabled
        BY <3>1, <3>3
      <3> QED
        BY <3>2, <3>3
    <2>4. row = [station[s] EXCEPT !.row = "deleted", !.enabled = e, !.state = st, !.epoch = n]
      BY <2>1 DEF StationRow
    <2> HIDE DEF e, st, n, row
    <2> QED
      BY <2>1, <2>2, <2>3, <2>4 DEF StationRow
  <1>4. \A c \in Tokens : /\ cut(c) \in TokenRow
                          /\ cut(c).station = token[c].station
                          /\ cut(c).issued = token[c].issued
    BY <1>2 DEF TokenRow
  <1>5. station' = [station EXCEPT ![s] = row]
    BY DEF DeleteCommit
  <1>6. token' = [c \in Tokens |-> cut(c)]
    BY DEF DeleteCommit
  <1>7. agent' \in [Stations -> AgentRow \cup {None}] /\ overlapped' \subseteq Tokens
    BY <1>1 DEF Typed, TypeOK, DeleteCommit
  <1> HIDE DEF s, seen, row, cut
  <1>8. station' \in [Stations -> StationRow]
    BY <1>1, <1>2, <1>3, <1>5
  <1>9. /\ token' \in [Tokens -> TokenRow]
        /\ \A c \in Tokens : (token'[c].station # None) <=> (c \in Enrollment /\ token'[c].issued)
    BY <1>4, <1>6 DEF Typed, TypeOK
  <1> QED
    BY <1>7, <1>8, <1>9, CloseTyped DEF Typed, TypeOK, DeleteCommit

LEMMA UpdateTyped ==
  ASSUME Typed, NEW r \in Requests, UpdateCommit(r)
  PROVE  Typed'
  <1> DEFINE s == tx[r].station
             seen == tx[r].seen
             state == UpdatedState(seen, tx[r].enabled)
             newRole == IF tx[r].role # seen.role THEN tx[r].role ELSE station[s].role
             newEnabled == IF tx[r].enabled # seen.enabled THEN tx[r].enabled
                           ELSE station[s].enabled
             newState == IF state # seen.state THEN state ELSE station[s].state
             row == [station[s] EXCEPT !.role = newRole, !.enabled = newEnabled, !.state = newState]
  <1>1. /\ s \in Stations /\ seen \in StationRow
        /\ tx[r].role \in Roles /\ tx[r].enabled \in BOOLEAN
    BY DEF Typed, Requested, Formed, Tx, UpdateCommit
  <1>2. station \in [Stations -> StationRow]
    BY DEF Typed, TypeOK
  <1>3. state \in {"offline", "online", "disabled"}
    BY <1>1 DEF UpdatedState, StationRow
  <1>4. station' = [station EXCEPT ![s] = row]
    BY DEF UpdateCommit
  <1> HIDE DEF state
  <1>5. row \in StationRow
    <2>1. newRole \in Roles
      BY <1>1, <1>2 DEF StationRow
    <2>2. newEnabled \in BOOLEAN
      BY <1>1, <1>2 DEF StationRow
    <2>3. newState \in {"offline", "online", "disabled"}
      BY <1>1, <1>2, <1>3 DEF StationRow
    <2> HIDE DEF newRole, newEnabled, newState
    <2> QED
      BY <1>1, <1>2, <2>1, <2>2, <2>3 DEF StationRow
  <1> HIDE DEF s, seen, row
  <1>6. station' \in [Stations -> StationRow]
    BY <1>1, <1>2, <1>4, <1>5
  <1> QED
    BY <1>6, CloseTyped DEF Typed, TypeOK, UpdateCommit

LEMMA InitTyped == Init => Typed
  <1> SUFFICES ASSUME Init PROVE Typed
    OBVIOUS
  <1>1. station \in [Stations -> StationRow]
    BY DEF Init, StationRow, Roles
  <1>2. token \in [Tokens -> TokenRow] /\ \A k \in Tokens : token[k].station = None /\ ~token[k].issued
    BY DEF Init, TokenRow
  <1>3. tx \in [Requests -> Tx] /\ tx \in [Requests -> Requested]
    BY IdleIsFormed DEF Init, Requested
  <1> QED
    BY <1>1, <1>2, <1>3 DEF Init, Typed, TypeOK

\* A step on one column of one request keeps the shape of the request.
LEMMA RequestColumns ==
  ASSUME NEW q \in Requested
  PROVE  /\ [q EXCEPT !.waits = FALSE] \in Requested
         /\ \A a \in AgentRow \cup {None} :
              q.op = "delete" => [q EXCEPT !.op = "deleting", !.doomed = a] \in Requested
  <1>1. [q EXCEPT !.waits = FALSE] \in Requested
    BY DEF Requested, Tx, Formed
  <1>2. ASSUME NEW a \in AgentRow \cup {None}, q.op = "delete"
        PROVE  [q EXCEPT !.op = "deleting", !.doomed = a] \in Requested
    BY <1>2 DEF Requested, Tx, Formed
  <1> QED
    BY <1>1, <1>2

LEMMA TokenColumns ==
  ASSUME NEW old \in TokenRow
  PROVE  /\ [old EXCEPT !.issued = TRUE] \in TokenRow
         /\ [old EXCEPT !.expired = TRUE] \in TokenRow
         /\ [old EXCEPT !.expired = TRUE].station = old.station
         /\ [old EXCEPT !.expired = TRUE].issued = old.issued
  BY DEF TokenRow

LEMMA NextTyped ==
  ASSUME Typed, [Next]_vars
  PROVE  Typed'
  <1> USE DEF Typed, TypeOK
  <1>1. ASSUME NEW r \in Requests, NEW s \in Stations, NEW role \in Roles, CreateRead(r, s, role)
        PROVE  Typed'
    <2>1. PICK k \in Enrollment :
             Open(r, [Idle EXCEPT !.op = "create", !.station = s, !.token = k,
                                  !.seen = station[s], !.role = role])
      BY <1>1 DEF CreateRead
    <2>2. station[s] \in StationRow
      OBVIOUS
    <2> QED
      BY <1>1, <2>1, <2>2, Opened, OpenTyped DEF CreateRead
  <1>2. ASSUME NEW r \in Requests, NEW s \in Stations, DeleteRead(r, s)
        PROVE  Typed'
    <2>1. station[s] \in StationRow
      OBVIOUS
    <2> QED
      BY <1>2, <2>1, Opened, OpenTyped DEF DeleteRead
  <1>3. ASSUME NEW r \in Requests, NEW s \in Stations, NEW role \in Roles, NEW e \in BOOLEAN,
               UpdateRead(r, s, role, e)
        PROVE  Typed'
    <2>1. station[s] \in StationRow
      OBVIOUS
    <2> QED
      BY <1>3, <2>1, Opened, OpenTyped DEF UpdateRead
  <1>4. ASSUME NEW r \in Requests, NEW p \in Stations, NEW k \in Enrollment, EnrollRead(r, k, p)
        PROVE  Typed'
    <2>1. token[k].issued
      BY <1>4 DEF EnrollRead, Usable
    <2>2. token[k].station \in Stations /\ station[p] \in StationRow
      BY <2>1 DEF TokenRow
    <2> QED
      BY <1>4, <2>2, Consuming, OpenTyped DEF EnrollRead
  <1>5. ASSUME NEW r \in Requests, NEW p \in Stations, NEW k \in Provisioning,
               BootstrapRead(r, k, p)
        PROVE  Typed'
    <2>1. station[p] \in StationRow
      OBVIOUS
    <2> QED
      BY <1>5, <2>1, Consuming, OpenTyped DEF BootstrapRead
  <1>6. ASSUME NEW r \in Requests, DeleteAgents(r)
        PROVE  Typed'
    <2>1. tx[r].station \in Stations /\ tx[r] \in Requested
      BY <1>6 DEF DeleteAgents, Requested, Formed
    <2>2. [tx[r] EXCEPT !.op = "deleting", !.doomed = agent[tx[r].station]] \in Requested
      BY <1>6, <2>1, RequestColumns DEF DeleteAgents
    <2>3. tx' = [tx EXCEPT ![r] = [tx[r] EXCEPT !.op = "deleting",
                                                !.doomed = agent[tx[r].station]]]
      BY <1>6 DEF DeleteAgents
    <2>4. tx' \in [Requests -> Requested]
      BY <2>2, <2>3
    <2> QED
      BY <1>6, <2>4 DEF DeleteAgents, Requested
  <1>7. ASSUME NEW r \in Requests, GiveUp(r)
        PROVE  Typed'
    <2>1. [tx[r] EXCEPT !.waits = FALSE] \in Requested
      BY RequestColumns
    <2>2. tx' = [tx EXCEPT ![r] = [tx[r] EXCEPT !.waits = FALSE]]
      BY <1>7 DEF GiveUp
    <2>3. tx' \in [Requests -> Requested]
      BY <2>1, <2>2
    <2> QED
      BY <1>7, <2>3 DEF GiveUp, Requested
  <1>8. ASSUME NEW r \in Requests, Rollback(r)
        PROVE  Typed'
    BY <1>8, CloseTyped DEF Rollback
  <1>9. ASSUME NEW k \in Provisioning, CreateProvisioningToken(k)
        PROVE  Typed'
    <2>1. [token[k] EXCEPT !.issued = TRUE] \in TokenRow
      BY TokenColumns
    <2>2. token' = [token EXCEPT ![k] = [token[k] EXCEPT !.issued = TRUE]]
      BY <1>9 DEF CreateProvisioningToken
    <2>3. [token[k] EXCEPT !.issued = TRUE].station = token[k].station
      BY DEF TokenRow
    <2>4. token' \in [Tokens -> TokenRow]
      BY <2>1, <2>2
    <2>5. \A c \in Tokens : (token'[c].station # None) <=> (c \in Enrollment /\ token'[c].issued)
      BY <2>2, <2>3
    <2> QED
      BY <1>9, <2>4, <2>5 DEF CreateProvisioningToken
  <1>10. ASSUME NEW k \in Tokens, Expire(k)
         PROVE  Typed'
    <2> DEFINE row == [token[k] EXCEPT !.expired = TRUE]
    <2>1. row \in TokenRow /\ row.station = token[k].station /\ row.issued = token[k].issued
      BY TokenColumns
    <2>2. token' = [token EXCEPT ![k] = row]
      BY <1>10 DEF Expire
    <2> HIDE DEF row
    <2>3. token' \in [Tokens -> TokenRow]
      BY <2>1, <2>2
    <2>4. \A c \in Tokens : (token'[c].station # None) <=> (c \in Enrollment /\ token'[c].issued)
      BY <2>1, <2>2
    <2> QED
      BY <1>10, <2>3, <2>4 DEF Expire
  <1>11. ASSUME NEW p \in Stations, ClearCredential(p)
         PROVE  Typed'
    BY <1>11 DEF ClearCredential
  <1>12. ASSUME NEW r \in Requests, NEW p \in Stations, NEW s \in Stations,
                HeartbeatRead(r, p, s)
         PROVE  Typed'
    <2>1. station[s] \in StationRow /\ store[p] \in Tokens
      BY <1>12 DEF HeartbeatRead
    <2> QED
      BY <1>12, <2>1, Opened, OpenTyped DEF HeartbeatRead
  <1>13. ASSUME NEW r \in Requests, HeartbeatCommit(r)
         PROVE  Typed'
    <2> DEFINE s == tx[r].station
    <2>1. s \in Stations
      BY <1>13 DEF HeartbeatCommit, Requested, Formed
    <2>2. [station[s] EXCEPT !.state = "online"] \in StationRow
      BY <2>1 DEF StationRow
    <2>3. \/ station' = station
          \/ station' = [station EXCEPT ![s] = [station[s] EXCEPT !.state = "online"]]
      BY <1>13 DEF HeartbeatCommit
    <2> HIDE DEF s
    <2>4. station' \in [Stations -> StationRow]
      BY <2>1, <2>2, <2>3
    <2> QED
      BY <1>13, <2>4, CloseTyped DEF HeartbeatCommit
  <1>14. CASE UNCHANGED vars
    BY <1>14 DEF vars
  <1> QED
    BY <1>1, <1>2, <1>3, <1>4, <1>5, <1>6, <1>7, <1>8, <1>9, <1>10, <1>11, <1>12, <1>13,
       <1>14, CreateTyped, EnrollTyped, BootstrapTyped, DeleteTyped, UpdateTyped DEF Next

\* Rows, one-time tokens and open requests keep their types; an enrollment token
\* names a station from the moment CreateStationUseCase issues it, for any
\* number of stations, tokens and overlapping requests.
THEOREM TypeCorrect == Spec => []TypeOK
  <1>1. Typed => TypeOK
    BY DEF Typed
  <1> QED
    BY InitTyped, NextTyped, <1>1, PTL DEF Spec

LEMMA AlwaysTyped == Spec => []Typed
  BY InitTyped, NextTyped, PTL DEF Spec

-----------------------------------------------------------------------------
(* One credential per token.                                               *)

Consumes(r) == tx[r].op \in {"enroll", "bootstrap"}

\* A request past consume holds its token's row lock, and the token is unused
\* in the rows that others see.
Held ==
    /\ \A r \in Requests : Consumes(r) => tx[r].token \in Tokens /\ ~token[tx[r].token].used
    /\ \A r, q \in Requests : Consumes(r) /\ Consumes(q) /\ tx[r].token = tx[q].token => r = q

\* The inductive invariant: the number of credentials is exact only because
\* nobody else can use up the token of a request that is past consume.
Once == Held /\ TokenBuysOneCredential

\* A step that keeps the used flags and does not get a request past consume.
LEMMA KeptByOthers ==
  ASSUME Once, minted' = minted,
         \A k \in Tokens : token'[k].used = token[k].used,
         \A r \in Requests : Consumes(r)' => Consumes(r) /\ tx'[r].token = tx[r].token
  PROVE  Once'
  <1>1. Held'
    BY DEF Once, Held
  <1>2. TokenBuysOneCredential'
    BY DEF Once, TokenBuysOneCredential
  <1> QED
    BY <1>1, <1>2 DEF Once

\* Opening, changing or closing a request that is not past consume.
LEMMA OtherRequest ==
  ASSUME Typed, Once, NEW r \in Requests, NEW request,
         request.op \notin {"enroll", "bootstrap"},
         tx' = [tx EXCEPT ![r] = request], minted' = minted,
         \A k \in Tokens : token'[k].used = token[k].used
  PROVE  Once'
  <1>1. \A q \in Requests : Consumes(q)' => Consumes(q) /\ tx'[q].token = tx[q].token
    BY DEF Typed, Consumes
  <1> QED
    BY <1>1, KeptByOthers

LEMMA CloseKeeps ==
  ASSUME Typed, Once, NEW r \in Requests, Close(r), minted' = minted,
         \A k \in Tokens : token'[k].used = token[k].used
  PROVE  Once'
  BY OtherRequest, IdleIsFormed DEF Close

\* consume takes a lock nobody holds on a token nobody used.
LEMMA ConsumeKeeps ==
  ASSUME Typed, Once, NEW r \in Requests, NEW request, NEW k \in Tokens,
         request.token = k, Usable(k), ~TokenLocked(k),
         tx' = [tx EXCEPT ![r] = request], UNCHANGED <<token, minted>>
  PROVE  Once'
  <1>1. \A q \in Requests : q # r => tx'[q] = tx[q]
    BY DEF Typed
  <1>2. tx'[r].token = k
    BY DEF Typed
  <1>3. \A q \in Requests : q # r /\ Consumes(q)' => tx'[q].token # k
    BY <1>1 DEF TokenLocked, Consumes
  <1>4. Held'
    BY <1>1, <1>2, <1>3 DEF Once, Held, Usable, Consumes
  <1> QED
    BY <1>4 DEF Once, TokenBuysOneCredential

\* The transaction that binds an agent uses up the token it holds.
LEMMA BindKeeps ==
  ASSUME Typed, Once, NEW r \in Requests, Consumes(r), Close(r),
         NEW s, NEW p, NEW epoch, Bind(r, s, p, tx[r].token, epoch)
  PROVE  Once'
  <1> DEFINE k == tx[r].token
  <1>1. k \in Tokens /\ ~token[k].used /\ minted[k] = 0
    <2>1. k \in Tokens /\ ~token[k].used
      BY DEF Once, Held
    <2>2. minted \in [Tokens -> Nat]
      BY DEF Typed, TypeOK
    <2> HIDE DEF k
    <2>3. minted[k] \in Nat /\ minted[k] <= 1 /\ minted[k] # 1
      BY <2>1, <2>2 DEF Once, TokenBuysOneCredential
    <2> QED
      BY <2>1, <2>3
  <1>2. /\ token' = [token EXCEPT ![k].used = TRUE]
        /\ minted' = [minted EXCEPT ![k] = @ + 1]
        /\ tx' = [tx EXCEPT ![r] = Idle]
    BY DEF Bind, Close
  <1>3. /\ token \in [Tokens -> TokenRow] /\ minted \in [Tokens -> Nat]
        /\ tx \in [Requests -> Requested]
    BY DEF Typed, TypeOK
  <1> HIDE DEF k
  <1>4. \A c \in Tokens : c # k => token'[c] = token[c] /\ minted'[c] = minted[c]
    BY <1>2, <1>3
  <1>5. token'[k].used /\ minted'[k] = 1
    BY <1>1, <1>2, <1>3 DEF TokenRow
  <1>6. \A q \in Requests : Consumes(q)' => q # r /\ tx'[q] = tx[q] /\ Consumes(q)
    BY <1>2, <1>3, IdleIsFormed DEF Consumes
  <1>7. \A q \in Requests : Consumes(q)' => tx[q].token # k
    BY <1>6 DEF Once, Held, k
  <1>8. Held'
    BY <1>4, <1>6, <1>7 DEF Once, Held
  <1>9. TokenBuysOneCredential'
    BY <1>4, <1>5 DEF Once, TokenBuysOneCredential
  <1> QED
    BY <1>8, <1>9 DEF Once

LEMMA InitOnce == Init => Once
  <1> SUFFICES ASSUME Init PROVE Once
    OBVIOUS
  <1>1. \A r \in Requests : ~Consumes(r)
    BY IdleIsFormed DEF Init, Consumes
  <1>2. \A k \in Tokens : minted[k] = 0 /\ ~token[k].used
    BY DEF Init
  <1> QED
    BY <1>1, <1>2 DEF Once, Held, TokenBuysOneCredential

LEMMA NextOnce ==
  ASSUME Typed, Once, [Next]_vars
  PROVE  Once'
  <1>0. token \in [Tokens -> TokenRow] /\ tx \in [Requests -> Requested]
    BY DEF Typed, TypeOK
  <1>1. ASSUME NEW r \in Requests, NEW s \in Stations, NEW role \in Roles, CreateRead(r, s, role)
        PROVE  Once'
    <2>1. PICK k \in Enrollment :
             tx' = [tx EXCEPT ![r] = [Idle EXCEPT !.op = "create", !.station = s, !.token = k,
                                                  !.seen = station[s], !.role = role]]
      BY <1>1 DEF CreateRead, Open
    <2>2. [Idle EXCEPT !.op = "create", !.station = s, !.token = k,
                       !.seen = station[s], !.role = role].op = "create"
      BY DEF Idle
    <2> QED
      BY <1>1, <2>1, <2>2, OtherRequest DEF CreateRead
  <1>2. ASSUME NEW r \in Requests, NEW s \in Stations, DeleteRead(r, s)
        PROVE  Once'
    <2>1. [Idle EXCEPT !.op = "delete", !.station = s, !.seen = station[s]].op = "delete"
      BY DEF Idle
    <2> QED
      BY <1>2, <2>1, OtherRequest DEF DeleteRead, Open
  <1>3. ASSUME NEW r \in Requests, NEW s \in Stations, NEW role \in Roles, NEW e \in BOOLEAN,
               UpdateRead(r, s, role, e)
        PROVE  Once'
    <2>1. [Idle EXCEPT !.op = "update", !.station = s, !.seen = station[s],
                       !.role = role, !.enabled = e].op = "update"
      BY DEF Idle
    <2> QED
      BY <1>3, <2>1, OtherRequest DEF UpdateRead, Open
  <1>4. ASSUME NEW r \in Requests, NEW p \in Stations, NEW k \in Enrollment, EnrollRead(r, k, p)
        PROVE  Once'
    <2>1. [Idle EXCEPT !.op = "enroll", !.station = token[k].station, !.token = k,
                       !.pc = p, !.waits = TRUE].token = k
      BY DEF Idle
    <2> QED
      BY <1>4, <2>1, ConsumeKeeps DEF EnrollRead, Open
  <1>5. ASSUME NEW r \in Requests, NEW p \in Stations, NEW k \in Provisioning,
               BootstrapRead(r, k, p)
        PROVE  Once'
    <2>1. [Idle EXCEPT !.op = "bootstrap", !.station = p, !.token = k, !.pc = p,
                       !.waits = TRUE, !.seen = station[p]].token = k
      BY DEF Idle
    <2> QED
      BY <1>5, <2>1, ConsumeKeeps DEF BootstrapRead, Open
  <1>6. ASSUME NEW r \in Requests, EnrollCommit(r)
        PROVE  Once'
    BY <1>6, BindKeeps DEF EnrollCommit, Consumes
  <1>7. ASSUME NEW r \in Requests, BootstrapCommit(r)
        PROVE  Once'
    BY <1>7, BindKeeps DEF BootstrapCommit, Consumes
  <1>8. ASSUME NEW r \in Requests, CreateCommit(r)
        PROVE  Once'
    <2>1. \A k \in Tokens : token'[k].used = token[k].used
      BY <1>0, <1>8 DEF CreateCommit, TokenRow
    <2> QED
      BY <1>8, <2>1, CloseKeeps DEF CreateCommit
  <1>9. ASSUME NEW r \in Requests, DeleteAgents(r)
        PROVE  Once'
    <2> DEFINE request == [tx[r] EXCEPT !.op = "deleting", !.doomed = agent[tx[r].station]]
    <2>1. tx' = [tx EXCEPT ![r] = request]
      BY <1>9 DEF DeleteAgents
    <2>2. request.op = "deleting"
      BY <1>0 DEF Requested, Tx
    <2> HIDE DEF request
    <2> QED
      BY <1>9, <2>1, <2>2, OtherRequest DEF DeleteAgents
  <1>10. ASSUME NEW r \in Requests, DeleteCommit(r)
         PROVE  Once'
    <2>1. \A k \in Tokens : token'[k].used = token[k].used
      BY <1>0, <1>10 DEF DeleteCommit, TokenRow
    <2> QED
      BY <1>10, <2>1, CloseKeeps DEF DeleteCommit
  <1>11. ASSUME NEW r \in Requests, UpdateCommit(r) \/ HeartbeatCommit(r) \/ Rollback(r)
         PROVE  Once'
    BY <1>11, CloseKeeps DEF UpdateCommit, HeartbeatCommit, Rollback
  <1>12. ASSUME NEW r \in Requests, GiveUp(r)
         PROVE  Once'
    <2>1. \A q \in Requests : tx'[q].op = tx[q].op /\ tx'[q].token = tx[q].token
      BY <1>0, <1>12 DEF GiveUp, Requested, Tx
    <2> QED
      BY <1>12, <2>1, KeptByOthers DEF GiveUp, Consumes
  <1>13. ASSUME NEW k \in Tokens, CreateProvisioningToken(k) \/ Expire(k)
         PROVE  Once'
    <2>1. \A c \in Tokens : token'[c].used = token[c].used
      BY <1>0, <1>13 DEF CreateProvisioningToken, Expire, TokenRow
    <2> QED
      BY <1>13, <2>1, KeptByOthers DEF CreateProvisioningToken, Expire, Consumes
  <1>14. ASSUME NEW p \in Stations, ClearCredential(p)
         PROVE  Once'
    BY <1>14, KeptByOthers DEF ClearCredential, Consumes
  <1>15. ASSUME NEW r \in Requests, NEW p \in Stations, NEW s \in Stations,
                HeartbeatRead(r, p, s)
         PROVE  Once'
    <2>1. [Idle EXCEPT !.op = "heartbeat", !.station = s, !.token = store[p],
                       !.seen = station[s]].op = "heartbeat"
      BY DEF Idle
    <2> QED
      BY <1>15, <2>1, OtherRequest DEF HeartbeatRead, Open
  <1>16. CASE UNCHANGED vars
    BY <1>16, KeptByOthers DEF vars, Consumes
  <1> QED
    BY <1>1, <1>2, <1>3, <1>4, <1>5, <1>6, <1>7, <1>8, <1>9, <1>10, <1>11, <1>12, <1>13,
       <1>14, <1>15, <1>16 DEF Next

\* An enrollment or provisioning token buys exactly one credential: overlapping
\* enrollments, rolled back ones, deletions and lost answers neither mint a
\* second one nor use up the token without one.
THEOREM OneCredentialPerToken == Spec => []TokenBuysOneCredential
  <1>1. Once => TokenBuysOneCredential
    BY DEF Once
  <1> QED
    BY AlwaysTyped, InitOnce, NextOnce, <1>1, PTL DEF Spec

-----------------------------------------------------------------------------
(* Deletion and the registration a binding belongs to.                     *)

\* An enrollment token that the deletion has not revoked belongs to the present
\* registration of its station.
TokenCurrent(k) ==
    token[k].issued /\ ~token[k].revoked =>
        /\ station[token[k].station].row = "live"
        /\ token[k].epoch = station[token[k].station].epoch

\* An enrollment keeps its token from being revoked: it holds the station's row.
EnrollHolds(r) ==
    tx[r].op = "enroll" =>
        /\ token[tx[r].token].issued /\ ~token[tx[r].token].revoked
        /\ token[tx[r].token].station = tx[r].station

\* Nobody else issues the token of a creation.
CreateOwns(r) ==
    tx[r].op = "create" =>
        /\ ~token[tx[r].token].issued
        /\ \A q \in Requests : tx[q].op = "create" /\ tx[q].token = tx[r].token => q = r

\* The binding that a deletion is about to remove is the only one, unless a
\* later one overlapped it.
DeleteKnows(r) ==
    tx[r].op = "deleting" =>
        \/ agent[tx[r].station] \in {None, tx[r].doomed}
        \/ agent[tx[r].station].cred \in overlapped

\* A row that was read live is still live unless its epoch has moved on.
SeenIsPast(r) ==
    tx[r].op \notin {"idle", "enroll"} =>
        LET now == station[tx[r].station] IN
        /\ tx[r].seen.epoch <= now.epoch
        /\ tx[r].seen.row = "live" /\ tx[r].seen.epoch = now.epoch => now.row = "live"

\* A binding belongs to the present registration of a live station, unless it
\* was made while a deletion was under way.
BoundIsCurrent(s) ==
    agent[s] # None /\ agent[s].cred \notin overlapped =>
        station[s].row = "live" /\ agent[s].epoch = station[s].epoch

\* The inductive invariant behind SurvivorsOverlapped and EnrolledAsIssued.
Current ==
    /\ \A k \in Enrollment : TokenCurrent(k)
    /\ \A r \in Requests : EnrollHolds(r) /\ CreateOwns(r) /\ DeleteKnows(r) /\ SeenIsPast(r)
    /\ \A s \in Stations : BoundIsCurrent(s)

\* The columns of a token that Current is about.
TokenKept(k) ==
    /\ token'[k].issued = token[k].issued /\ token'[k].revoked = token[k].revoked
    /\ token'[k].station = token[k].station /\ token'[k].epoch = token[k].epoch

\* A station stays registered as it was.
StationKept(s) ==
    /\ station'[s].epoch = station[s].epoch
    /\ station[s].row = "live" => station'[s].row = "live"

\* A request is as it was, or over.
RequestKept(r) ==
    \/ tx'[r].op = "idle"
    \/ /\ tx'[r].op = tx[r].op /\ tx'[r].station = tx[r].station
       /\ tx'[r].token = tx[r].token /\ tx'[r].seen = tx[r].seen
       /\ tx'[r].doomed = tx[r].doomed

\* What the rows that a request works on are.
LEMMA RequestRows ==
  ASSUME Typed, NEW r \in Requests
  PROVE  /\ tx[r].op # "idle" => tx[r].station \in Stations
         /\ tx[r].op \in {"create", "enroll"} => tx[r].token \in Enrollment
         /\ tx[r].op \notin {"idle", "enroll"} => tx[r].seen \in StationRow
         /\ \A k \in Enrollment : token[k].issued => token[k].station \in Stations
         /\ \A s \in Stations : station[s] \in StationRow
  <1>1. tx[r] \in Requested
    BY DEF Typed
  <1>2. \A k \in Enrollment : token[k].issued => token[k].station \in Stations
    BY DEF Typed, TypeOK, TokenRow
  <1> QED
    BY <1>1, <1>2 DEF Requested, Formed, Typed, TypeOK

\* A request that a step leaves alone.
LEMMA RequestStays ==
  ASSUME Typed, Current, NEW r \in Requests, RequestKept(r),
         \A s \in Stations : StationKept(s),
         \A k \in Enrollment : TokenKept(k),
         agent' = agent, overlapped' = overlapped,
         \A q \in Requests : q # r => RequestKept(q)
  PROVE  EnrollHolds(r)' /\ CreateOwns(r)' /\ DeleteKnows(r)' /\ SeenIsPast(r)'
  <1>1. EnrollHolds(r) /\ CreateOwns(r) /\ DeleteKnows(r) /\ SeenIsPast(r)
    BY DEF Current
  <1>2. EnrollHolds(r)'
    BY <1>1, RequestRows DEF EnrollHolds, RequestKept, TokenKept
  <1>3. CreateOwns(r)'
    BY <1>1, RequestRows DEF CreateOwns, RequestKept, TokenKept
  <1>4. DeleteKnows(r)'
    BY <1>1, RequestRows DEF DeleteKnows, RequestKept
  <1>5. SeenIsPast(r)'
    BY <1>1, RequestRows DEF SeenIsPast, RequestKept, StationKept
  <1> QED
    BY <1>2, <1>3, <1>4, <1>5

LEMMA TokenStays ==
  ASSUME Typed, NEW k \in Enrollment, TokenCurrent(k), TokenKept(k),
         \A s \in Stations : StationKept(s)
  PROVE  TokenCurrent(k)'
  <1>1. token[k].issued => token[k].station \in Stations
    BY DEF Typed, TypeOK, TokenRow
  <1> QED
    BY <1>1 DEF TokenCurrent, TokenKept, StationKept

\* A step that neither binds nor deletes nor issues.
LEMMA CurrentStays ==
  ASSUME Typed, Current, agent' = agent, overlapped' = overlapped,
         \A s \in Stations : StationKept(s),
         \A k \in Enrollment : TokenKept(k),
         \A q \in Requests : RequestKept(q)
  PROVE  Current'
  <1>1. \A k \in Enrollment : TokenCurrent(k)'
    BY TokenStays DEF Current
  <1>2. ASSUME NEW r \in Requests
        PROVE  EnrollHolds(r)' /\ CreateOwns(r)' /\ DeleteKnows(r)' /\ SeenIsPast(r)'
    BY RequestStays
  <1>3. \A s \in Stations : BoundIsCurrent(s)'
    BY DEF Current, BoundIsCurrent, StationKept
  <1> QED
    BY <1>1, <1>2, <1>3 DEF Current

\* A request is opened, or goes on.
LEMMA CurrentOpens ==
  ASSUME Typed, Current, NEW r \in Requests, NEW request,
         tx' = [tx EXCEPT ![r] = request],
         UNCHANGED <<station, token, agent, overlapped>>,
         EnrollHolds(r)', DeleteKnows(r)', SeenIsPast(r)',
         request.op = "create" => /\ ~token[request.token].issued
                                  /\ \A q \in Requests : tx[q].token # request.token
  PROVE  Current'
  <1>1. tx'[r] = request /\ \A q \in Requests : q # r => tx'[q] = tx[q]
    BY DEF Typed
  <1>2. \A k \in Enrollment : TokenCurrent(k)'
    BY DEF Current, TokenCurrent
  <1>3. \A s \in Stations : BoundIsCurrent(s)'
    BY DEF Current, BoundIsCurrent
  <1>4. CreateOwns(r)'
    BY <1>1 DEF CreateOwns
  <1>5. ASSUME NEW q \in Requests, q # r
        PROVE  EnrollHolds(q)' /\ CreateOwns(q)' /\ DeleteKnows(q)' /\ SeenIsPast(q)'
    <2>1. tx'[q] = tx[q] /\ EnrollHolds(q) /\ CreateOwns(q) /\ DeleteKnows(q) /\ SeenIsPast(q)
      BY <1>1, <1>5 DEF Current
    <2>2. EnrollHolds(q)' /\ DeleteKnows(q)' /\ SeenIsPast(q)'
      BY <2>1 DEF EnrollHolds, DeleteKnows, SeenIsPast
    <2>3. CreateOwns(q)'
      BY <1>1, <2>1 DEF CreateOwns
    <2> QED
      BY <2>2, <2>3
  <1> QED
    BY <1>2, <1>3, <1>4, <1>5 DEF Current

LEMMA RegisteredFacts ==
  ASSUME Typed, NEW s \in Stations, NEW seen \in StationRow, NEW role \in Roles
  PROVE  /\ Registered(s, seen, role).row = "live"
         /\ Registered(s, seen, role).epoch = station[s].epoch
  <1>1. station[s] \in StationRow
    BY DEF Typed, TypeOK
  <1> QED
    BY <1>1 DEF Registered, StationRow

LEMMA CreateCurrent ==
  ASSUME Typed, Current, NEW r \in Requests, CreateCommit(r)
  PROVE  Current'
  <1> DEFINE s == tx[r].station
             k == tx[r].token
             new == Registered(s, tx[r].seen, tx[r].role)
             row == [token[k] EXCEPT !.issued = TRUE, !.station = s, !.epoch = station[s].epoch]
  <1>1. /\ s \in Stations /\ k \in Enrollment
        /\ tx[r].seen \in StationRow /\ tx[r].role \in Roles /\ tx[r].op = "create"
    BY DEF Typed, Requested, Formed, Tx, CreateCommit
  <1>2. /\ station' = [station EXCEPT ![s] = new] /\ token' = [token EXCEPT ![k] = row]
        /\ tx' = [tx EXCEPT ![r] = Idle] /\ agent' = agent /\ overlapped' = overlapped
    BY DEF CreateCommit, Close
  <1>3. /\ token \in [Tokens -> TokenRow] /\ station \in [Stations -> StationRow]
        /\ tx \in [Requests -> Requested]
    BY DEF Typed, TypeOK
  <1>4. new.row = "live" /\ new.epoch = station[s].epoch
    BY <1>1, RegisteredFacts
  <1>5. row.station = s /\ row.epoch = station[s].epoch /\ row.issued
    BY <1>1, <1>3 DEF TokenRow
  <1>6. tx[r].op = "create" /\ CreateOwns(r)
    BY <1>1 DEF Current
  <1>7. ~ token[k].issued /\ \A q \in Requests : tx[q].op = "create" /\ tx[q].token = k => q = r
    BY <1>6 DEF CreateOwns
  <1> HIDE DEF s, k, new, row
  <1>8. \A t \in Stations : StationKept(t)
    BY <1>1, <1>2, <1>3, <1>4 DEF StationKept
  <1>9. \A c \in Enrollment : c # k => TokenKept(c)
    BY <1>2, <1>3 DEF TokenKept
  <1>10. ASSUME NEW c \in Enrollment PROVE TokenCurrent(c)'
    <2>1. CASE c = k
      BY <1>1, <1>2, <1>3, <1>4, <1>5, <2>1 DEF TokenCurrent
    <2>2. CASE c # k
      BY <1>8, <1>9, <2>2, TokenStays DEF Current
    <2> QED
      BY <2>1, <2>2
  <1>11. tx'[r].op = "idle" /\ \A q \in Requests : q # r => tx'[q] = tx[q]
    BY <1>2, <1>3, IdleIsFormed
  <1>12. ASSUME NEW q \in Requests
         PROVE  EnrollHolds(q)' /\ CreateOwns(q)' /\ DeleteKnows(q)' /\ SeenIsPast(q)'
    <2>1. CASE q = r
      BY <1>11, <2>1 DEF EnrollHolds, CreateOwns, DeleteKnows, SeenIsPast
    <2>2. CASE q # r
      <3>1. tx'[q] = tx[q] /\ EnrollHolds(q) /\ CreateOwns(q) /\ DeleteKnows(q) /\ SeenIsPast(q)
        BY <1>11, <2>2 DEF Current
      <3>2. tx[q].op \in {"create", "enroll"} => TokenKept(tx[q].token)
        BY <1>7, <1>9, <2>2, <3>1, RequestRows DEF EnrollHolds
      <3>3. EnrollHolds(q)'
        BY <3>1, <3>2 DEF EnrollHolds, TokenKept
      <3>4. CreateOwns(q)'
        BY <1>11, <3>1, <3>2 DEF CreateOwns, TokenKept
      <3>5. DeleteKnows(q)'
        BY <1>2, <3>1 DEF DeleteKnows
      <3>6. SeenIsPast(q)'
        BY <1>8, <3>1, RequestRows DEF SeenIsPast, StationKept
      <3> QED
        BY <3>3, <3>4, <3>5, <3>6
    <2> QED
      BY <2>1, <2>2
  <1>13. \A t \in Stations : BoundIsCurrent(t)'
    BY <1>2, <1>8 DEF Current, BoundIsCurrent, StationKept
  <1> QED
    BY <1>10, <1>12, <1>13 DEF Current

\* A binding of s made for its present registration, or while a deletion overlaps.
LEMMA BindCurrent ==
  ASSUME Typed, Current, NEW r \in Requests, NEW s \in Stations, NEW p \in Stations,
         NEW k \in Tokens, NEW epoch \in Nat, Bind(r, s, p, k, epoch), Close(r),
         \A t \in Stations : StationKept(t),
         overlapped' = overlapped \cup {k} \/ overlapped' = overlapped,
         k \in overlapped' \/ (station'[s].row = "live" /\ epoch = station'[s].epoch),
         Deleting(s) => k \in overlapped'
  PROVE  Current'
  <1>1. /\ token \in [Tokens -> TokenRow] /\ tx \in [Requests -> Requested]
        /\ agent \in [Stations -> AgentRow \cup {None}]
    BY DEF Typed, TypeOK
  <1>2. \A c \in Enrollment : TokenKept(c)
    BY <1>1 DEF Bind, TokenKept, TokenRow
  <1>3. tx'[r].op = "idle" /\ \A q \in Requests : q # r => tx'[q] = tx[q]
    BY <1>1, IdleIsFormed DEF Close
  <1> DEFINE new == [pc |-> p, cred |-> k, epoch |-> epoch]
  <1>4. agent' = [agent EXCEPT ![s] = new] /\ new.epoch = epoch /\ new.cred = k
    BY DEF Bind
  <1> HIDE DEF new
  <1>5. /\ agent'[s].epoch = epoch /\ agent'[s].cred = k
        /\ \A t \in Stations : t # s => agent'[t] = agent[t]
    BY <1>1, <1>4
  <1>6. \A c \in Enrollment : TokenCurrent(c)'
    BY <1>2, TokenStays DEF Current
  <1>7. ASSUME NEW t \in Stations PROVE BoundIsCurrent(t)'
    <2>1. CASE t = s
      BY <1>5, <2>1 DEF BoundIsCurrent
    <2>2. CASE t # s
      BY <1>5, <2>2 DEF Current, BoundIsCurrent, StationKept
    <2> QED
      BY <2>1, <2>2
  <1>8. ASSUME NEW q \in Requests
        PROVE  EnrollHolds(q)' /\ CreateOwns(q)' /\ DeleteKnows(q)' /\ SeenIsPast(q)'
    <2>1. CASE q = r
      BY <1>3, <2>1 DEF EnrollHolds, CreateOwns, DeleteKnows, SeenIsPast
    <2>2. CASE q # r
      <3>1. tx'[q] = tx[q] /\ EnrollHolds(q) /\ CreateOwns(q) /\ DeleteKnows(q) /\ SeenIsPast(q)
        BY <1>3, <2>2 DEF Current
      <3>2. EnrollHolds(q)'
        BY <1>2, <3>1, RequestRows DEF EnrollHolds, TokenKept
      <3>3. CreateOwns(q)'
        BY <1>2, <1>3, <3>1, RequestRows DEF CreateOwns, TokenKept
      <3>4. DeleteKnows(q)'
        BY <1>5, <3>1, RequestRows DEF DeleteKnows, Deleting
      <3>5. SeenIsPast(q)'
        BY <3>1, RequestRows DEF SeenIsPast, StationKept
      <3> QED
        BY <3>2, <3>3, <3>4, <3>5
    <2> QED
      BY <2>1, <2>2
  <1> QED
    BY <1>6, <1>7, <1>8 DEF Current

LEMMA EnrollCurrent ==
  ASSUME Typed, Current, NEW r \in Requests, EnrollCommit(r)
  PROVE  Current'
  <1> DEFINE s == tx[r].station
             p == tx[r].pc
             k == tx[r].token
  <1>1. s \in Stations /\ p \in Stations /\ k \in Enrollment
    BY DEF Typed, Requested, Formed, EnrollCommit
  <1>2. token[k].epoch \in Nat
    BY <1>1 DEF Typed, TypeOK, TokenRow
  <1>3. /\ tx[r].op = "enroll" /\ EnrollHolds(r) /\ TokenCurrent(k)
    BY <1>1 DEF Current, EnrollCommit
  <1>4. station[s].row = "live" /\ token[k].epoch = station[s].epoch
    BY <1>3 DEF EnrollHolds, TokenCurrent
  <1>5. Bind(r, s, p, k, token[k].epoch) /\ Close(r) /\ station' = station
    BY DEF EnrollCommit
  <1>6. overlapped' = IF Deleting(s) THEN overlapped \cup {k} ELSE overlapped
    BY DEF EnrollCommit
  <1> HIDE DEF s, p, k
  <1>7. \A t \in Stations : StationKept(t)
    BY <1>5 DEF StationKept
  <1> QED
    BY <1>1, <1>2, <1>4, <1>5, <1>6, <1>7, BindCurrent

LEMMA BootstrapCurrent ==
  ASSUME Typed, Current, NEW r \in Requests, BootstrapCommit(r)
  PROVE  Current'
  <1> DEFINE s == tx[r].station
             k == tx[r].token
             seen == tx[r].seen
             epoch == IF seen.row = "live" THEN seen.epoch ELSE station[s].epoch
  <1>1. s \in Stations /\ k \in Tokens /\ seen \in StationRow
    BY DEF Typed, Requested, Formed, BootstrapCommit
  <1>2. epoch \in Nat
    BY <1>1 DEF Typed, TypeOK, StationRow
  <1>3. SeenIsPast(r) /\ tx[r].op = "bootstrap"
    BY DEF Current, BootstrapCommit
  <1>4. seen.row = "live" /\ seen.epoch = station[s].epoch => station[s].row = "live"
    BY <1>3 DEF SeenIsPast
  <1>5. Bind(r, s, s, k, epoch) /\ Close(r)
    BY DEF BootstrapCommit
  <1>6. overlapped' = IF Deleting(s) \/ (seen.row = "live" /\ station[s].epoch # seen.epoch)
                      THEN overlapped \cup {k} ELSE overlapped
    BY DEF BootstrapCommit
  <1>7. \/ seen.row = "live" /\ station' = station
        \/ /\ seen.row # "live"
           /\ station' = [station EXCEPT ![s] = Registered(s, seen, "client")]
    BY DEF BootstrapCommit, Registers
  <1>8. /\ Registered(s, seen, "client").row = "live"
        /\ Registered(s, seen, "client").epoch = station[s].epoch
    BY <1>1, RegisteredFacts DEF Roles
  <1>9. station \in [Stations -> StationRow]
    BY DEF Typed, TypeOK
  <1>10. seen.row = "live" => epoch = seen.epoch
    OBVIOUS
  <1>11. seen.row # "live" => epoch = station[s].epoch
    OBVIOUS
  <1> HIDE DEF s, k, seen, epoch
  <1>12. \A t \in Stations : StationKept(t)
    BY <1>1, <1>7, <1>8, <1>9 DEF StationKept
  <1>13. k \in overlapped' \/ (station'[s].row = "live" /\ epoch = station'[s].epoch)
    BY <1>1, <1>4, <1>6, <1>7, <1>8, <1>9, <1>10, <1>11
  <1> QED
    BY <1>1, <1>2, <1>5, <1>6, <1>12, <1>13, BindCurrent

LEMMA DeleteCurrent ==
  ASSUME Typed, Current, NEW r \in Requests, DeleteCommit(r)
  PROVE  Current'
  <1> DEFINE s == tx[r].station
             seen == tx[r].seen
             n == IF station[s].row = "live" THEN station[s].epoch + 1 ELSE station[s].epoch
             row == [station[s] EXCEPT
                       !.row = "deleted",
                       !.enabled = IF seen.enabled THEN FALSE ELSE @,
                       !.state = IF seen.state # "disabled" THEN "disabled" ELSE @,
                       !.epoch = IF station[s].row = "live" THEN @ + 1 ELSE @]
             cut(c) == [token[c] EXCEPT !.revoked = @ \/ token[c].station = s]
  <1>1. s \in Stations /\ tx[r].op = "deleting"
    BY DEF Typed, Requested, Formed, DeleteCommit
  <1>2. /\ token \in [Tokens -> TokenRow] /\ station \in [Stations -> StationRow]
        /\ tx \in [Requests -> Requested] /\ agent \in [Stations -> AgentRow \cup {None}]
    BY DEF Typed, TypeOK
  <1>3. row.row = "deleted" /\ row.epoch = n
    BY <1>1, <1>2 DEF StationRow
  <1>4. \A c \in Tokens : /\ cut(c).issued = token[c].issued /\ cut(c).station = token[c].station
                          /\ cut(c).epoch = token[c].epoch
                          /\ cut(c).revoked = (token[c].revoked \/ token[c].station = s)
    BY <1>2 DEF TokenRow
  <1>5. /\ station' = [station EXCEPT ![s] = row]
        /\ token' = [c \in Tokens |-> cut(c)]
        /\ tx' = [tx EXCEPT ![r] = Idle]
        /\ ~ StationLocked(s)
    BY DEF DeleteCommit, Close
  <1>6. /\ agent' = IF agent[s] = tx[r].doomed THEN [agent EXCEPT ![s] = None] ELSE agent
        /\ overlapped' = overlapped
    BY DEF DeleteCommit
  <1>7. agent[s] \in {None, tx[r].doomed} \/ agent[s].cred \in overlapped
    BY <1>1 DEF Current, DeleteKnows
  <1>8. station[s].epoch \in Nat
    BY <1>1, <1>2 DEF StationRow
  <1>9. n \in Nat /\ station[s].epoch <= n /\ (station[s].row = "live" => station[s].epoch < n)
    BY <1>8
  <1> HIDE DEF s, seen, n, row, cut
  <1>10. /\ station'[s].row = "deleted" /\ station'[s].epoch = n
         /\ \A t \in Stations : t # s => station'[t] = station[t]
    BY <1>1, <1>2, <1>3, <1>5
  <1>11. agent'[s] = None \/ (agent' = agent /\ agent[s].cred \in overlapped)
    BY <1>1, <1>2, <1>6, <1>7
  <1>12. \A t \in Stations : t # s => agent'[t] = agent[t]
    BY <1>1, <1>2, <1>6
  <1>13. \A t \in Stations : BoundIsCurrent(t)'
    BY <1>6, <1>10, <1>11, <1>12 DEF Current, BoundIsCurrent
  <1>14. \A c \in Enrollment : token'[c] = cut(c)
    BY <1>5
  <1>15. ASSUME NEW c \in Enrollment PROVE TokenCurrent(c)'
    <2>1. token'[c].issued /\ ~ token'[c].revoked
             => /\ token[c].issued /\ ~ token[c].revoked /\ token[c].station # s
                /\ token'[c].station = token[c].station /\ token'[c].epoch = token[c].epoch
      BY <1>4, <1>14
    <2>2. token[c].issued => token[c].station \in Stations
      BY DEF Typed, TypeOK, TokenRow
    <2> QED
      BY <1>10, <2>1, <2>2 DEF Current, TokenCurrent
  <1>16. tx'[r].op = "idle" /\ \A q \in Requests : q # r => tx'[q] = tx[q]
    BY <1>2, <1>5, IdleIsFormed
  <1>17. ASSUME NEW q \in Requests
         PROVE  EnrollHolds(q)' /\ CreateOwns(q)' /\ DeleteKnows(q)' /\ SeenIsPast(q)'
    <2>1. CASE q = r
      BY <1>16, <2>1 DEF EnrollHolds, CreateOwns, DeleteKnows, SeenIsPast
    <2>2. CASE q # r
      <3>1. tx'[q] = tx[q] /\ EnrollHolds(q) /\ CreateOwns(q) /\ DeleteKnows(q) /\ SeenIsPast(q)
        BY <1>16, <2>2 DEF Current
      <3>2. tx[q].op = "enroll" => tx[q].station # s
        BY <1>5 DEF StationLocked
      <3>3. EnrollHolds(q)'
        <4>1. CASE tx[q].op = "enroll"
          <5>1. tx[q].token \in Enrollment
            BY <4>1, RequestRows
          <5> DEFINE c == tx[q].token
          <5>2. token[c].issued /\ ~ token[c].revoked /\ token[c].station = tx[q].station
            BY <3>1, <4>1 DEF EnrollHolds
          <5>3. token'[c] = cut(c) /\ c \in Tokens
            BY <1>14, <5>1
          <5>4. token'[c].issued /\ ~ token'[c].revoked /\ token'[c].station = tx[q].station
            BY <1>4, <3>2, <4>1, <5>2, <5>3
          <5> QED
            BY <3>1, <5>4 DEF EnrollHolds
        <4>2. CASE tx[q].op # "enroll"
          BY <3>1, <4>2 DEF EnrollHolds
        <4> QED
          BY <4>1, <4>2
      <3>4. CreateOwns(q)'
        BY <1>4, <1>14, <1>16, <3>1, RequestRows DEF CreateOwns
      <3>5. DeleteKnows(q)'
        BY <1>6, <1>11, <1>12, <3>1, RequestRows DEF DeleteKnows
      <3>6. SeenIsPast(q)'
        <4>1. CASE tx[q].op \notin {"idle", "enroll"}
          <5> DEFINE t == tx[q].station
          <5>1. t \in Stations /\ tx[q].seen.epoch \in Nat /\ station[t].epoch \in Nat
            BY <1>2, <4>1, RequestRows DEF StationRow
          <5>2. /\ tx[q].seen.epoch <= station[t].epoch
                /\ tx[q].seen.row = "live" /\ tx[q].seen.epoch = station[t].epoch
                     => station[t].row = "live"
            BY <3>1, <4>1 DEF SeenIsPast
          <5>3. /\ tx[q].seen.epoch <= station'[t].epoch
                /\ tx[q].seen.row = "live" /\ tx[q].seen.epoch = station'[t].epoch
                     => station'[t].row = "live"
            <6>1. CASE t = s
              <7>1. station[s].row # "live" => n = station[s].epoch
                BY DEF n
              <7> QED
                BY <1>9, <1>10, <5>1, <5>2, <6>1, <7>1
            <6>2. CASE t # s
              BY <1>10, <5>1, <5>2, <6>2
            <6> QED
              BY <6>1, <6>2
          <5> QED
            BY <3>1, <5>3 DEF SeenIsPast
        <4>2. CASE tx[q].op \in {"idle", "enroll"}
          BY <3>1, <4>2 DEF SeenIsPast
        <4> QED
          BY <4>1, <4>2
      <3> QED
        BY <3>3, <3>4, <3>5, <3>6
    <2> QED
      BY <2>1, <2>2
  <1> QED
    BY <1>13, <1>15, <1>17 DEF Current

LEMMA InitCurrent == Init => Current
  <1> SUFFICES ASSUME Init PROVE Current
    OBVIOUS
  <1>1. \A r \in Requests : tx[r].op = "idle"
    BY IdleIsFormed DEF Init
  <1>2. \A k \in Enrollment : ~ token[k].issued
    BY DEF Init
  <1>3. \A s \in Stations : agent[s] = None
    BY DEF Init
  <1> QED
    BY <1>1, <1>2, <1>3 DEF Current, TokenCurrent, BoundIsCurrent, EnrollHolds, CreateOwns,
                            DeleteKnows, SeenIsPast

LEMMA NextCurrent ==
  ASSUME Typed, Current, [Next]_vars
  PROVE  Current'
  <1>0. /\ token \in [Tokens -> TokenRow] /\ tx \in [Requests -> Requested]
        /\ station \in [Stations -> StationRow]
    BY DEF Typed, TypeOK
  <1>1. ASSUME NEW r \in Requests, NEW s \in Stations, NEW role \in Roles, CreateRead(r, s, role)
        PROVE  Current'
    <2>1. PICK k \in Enrollment :
             /\ ~ token[k].issued /\ \A q \in Requests : tx[q].token # k
             /\ tx' = [tx EXCEPT ![r] = [Idle EXCEPT !.op = "create", !.station = s, !.token = k,
                                                     !.seen = station[s], !.role = role]]
      BY <1>1 DEF CreateRead, Open
    <2> DEFINE request == [Idle EXCEPT !.op = "create", !.station = s, !.token = k,
                                       !.seen = station[s], !.role = role]
    <2>2. /\ request.op = "create" /\ request.token = k /\ request.station = s
          /\ request.seen = station[s]
      BY DEF Idle
    <2>3. tx' = [tx EXCEPT ![r] = request]
      BY <2>1
    <2> HIDE DEF request
    <2>4. UNCHANGED <<station, token, agent, overlapped>> /\ tx'[r] = request
      BY <1>0, <1>1, <2>3 DEF CreateRead
    <2>5. EnrollHolds(r)' /\ DeleteKnows(r)' /\ SeenIsPast(r)'
      BY <1>0, <2>2, <2>4 DEF EnrollHolds, DeleteKnows, SeenIsPast, StationRow
    <2> QED
      BY <2>1, <2>2, <2>3, <2>4, <2>5, CurrentOpens
  <1>2. ASSUME NEW r \in Requests, NEW s \in Stations, DeleteRead(r, s)
        PROVE  Current'
    <2> DEFINE request == [Idle EXCEPT !.op = "delete", !.station = s, !.seen = station[s]]
    <2>1. request.op = "delete" /\ request.station = s /\ request.seen = station[s]
      BY DEF Idle
    <2>2. tx' = [tx EXCEPT ![r] = request]
      BY <1>2 DEF DeleteRead, Open
    <2> HIDE DEF request
    <2>3. UNCHANGED <<station, token, agent, overlapped>> /\ tx'[r] = request
      BY <1>0, <1>2, <2>2 DEF DeleteRead
    <2>4. EnrollHolds(r)' /\ DeleteKnows(r)' /\ SeenIsPast(r)'
      BY <1>0, <2>1, <2>3 DEF EnrollHolds, DeleteKnows, SeenIsPast, StationRow
    <2> QED
      BY <2>1, <2>2, <2>3, <2>4, CurrentOpens
  <1>3. ASSUME NEW r \in Requests, NEW s \in Stations, NEW role \in Roles, NEW e \in BOOLEAN,
               UpdateRead(r, s, role, e)
        PROVE  Current'
    <2> DEFINE request == [Idle EXCEPT !.op = "update", !.station = s, !.seen = station[s],
                                       !.role = role, !.enabled = e]
    <2>1. request.op = "update" /\ request.station = s /\ request.seen = station[s]
      BY DEF Idle
    <2>2. tx' = [tx EXCEPT ![r] = request]
      BY <1>3 DEF UpdateRead, Open
    <2> HIDE DEF request
    <2>3. UNCHANGED <<station, token, agent, overlapped>> /\ tx'[r] = request
      BY <1>0, <1>3, <2>2 DEF UpdateRead
    <2>4. EnrollHolds(r)' /\ DeleteKnows(r)' /\ SeenIsPast(r)'
      BY <1>0, <2>1, <2>3 DEF EnrollHolds, DeleteKnows, SeenIsPast, StationRow
    <2> QED
      BY <2>1, <2>2, <2>3, <2>4, CurrentOpens
  <1>4. ASSUME NEW r \in Requests, NEW p \in Stations, NEW k \in Enrollment, EnrollRead(r, k, p)
        PROVE  Current'
    <2> DEFINE request == [Idle EXCEPT !.op = "enroll", !.station = token[k].station, !.token = k,
                                       !.pc = p, !.waits = TRUE]
    <2>1. request.op = "enroll" /\ request.station = token[k].station /\ request.token = k
      BY DEF Idle
    <2>2. tx' = [tx EXCEPT ![r] = request] /\ token[k].issued /\ ~ token[k].revoked
      BY <1>4 DEF EnrollRead, Open, Usable
    <2> HIDE DEF request
    <2>3. UNCHANGED <<station, token, agent, overlapped>> /\ tx'[r] = request
      BY <1>0, <1>4, <2>2 DEF EnrollRead
    <2>4. EnrollHolds(r)' /\ DeleteKnows(r)' /\ SeenIsPast(r)'
      BY <2>1, <2>2, <2>3 DEF EnrollHolds, DeleteKnows, SeenIsPast
    <2> QED
      BY <2>1, <2>2, <2>3, <2>4, CurrentOpens
  <1>5. ASSUME NEW r \in Requests, NEW p \in Stations, NEW k \in Provisioning,
               BootstrapRead(r, k, p)
        PROVE  Current'
    <2> DEFINE request == [Idle EXCEPT !.op = "bootstrap", !.station = p, !.token = k, !.pc = p,
                                       !.waits = TRUE, !.seen = station[p]]
    <2>1. request.op = "bootstrap" /\ request.station = p /\ request.seen = station[p]
      BY DEF Idle
    <2>2. tx' = [tx EXCEPT ![r] = request]
      BY <1>5 DEF BootstrapRead, Open
    <2> HIDE DEF request
    <2>3. UNCHANGED <<station, token, agent, overlapped>> /\ tx'[r] = request
      BY <1>0, <1>5, <2>2 DEF BootstrapRead
    <2>4. EnrollHolds(r)' /\ DeleteKnows(r)' /\ SeenIsPast(r)'
      BY <1>0, <2>1, <2>3 DEF EnrollHolds, DeleteKnows, SeenIsPast, StationRow
    <2> QED
      BY <2>1, <2>2, <2>3, <2>4, CurrentOpens
  <1>6. ASSUME NEW r \in Requests, DeleteAgents(r)
        PROVE  Current'
    <2> DEFINE request == [tx[r] EXCEPT !.op = "deleting", !.doomed = agent[tx[r].station]]
    <2>1. tx' = [tx EXCEPT ![r] = request] /\ tx[r].op = "delete"
      BY <1>6 DEF DeleteAgents
    <2>2. /\ request.op = "deleting" /\ request.station = tx[r].station
          /\ request.seen = tx[r].seen /\ request.doomed = agent[tx[r].station]
      BY <1>0 DEF Requested, Tx
    <2> HIDE DEF request
    <2>3. UNCHANGED <<station, token, agent, overlapped>> /\ tx'[r] = request
      BY <1>0, <1>6, <2>1 DEF DeleteAgents
    <2>4. SeenIsPast(r)
      BY DEF Current
    <2>5. EnrollHolds(r)' /\ DeleteKnows(r)' /\ SeenIsPast(r)'
      BY <2>1, <2>2, <2>3, <2>4 DEF EnrollHolds, DeleteKnows, SeenIsPast
    <2> QED
      BY <2>1, <2>2, <2>3, <2>5, CurrentOpens
  <1>7. ASSUME NEW r \in Requests, UpdateCommit(r)
        PROVE  Current'
    <2> DEFINE s == tx[r].station
    <2>1. s \in Stations
      BY <1>7, RequestRows DEF UpdateCommit
    <2>2. \A t \in Stations : StationKept(t)
      <3>1. /\ station'[s].row = station[s].row /\ station'[s].epoch = station[s].epoch
            /\ \A t \in Stations : t # s => station'[t] = station[t]
        BY <1>0, <1>7, <2>1 DEF UpdateCommit, StationRow
      <3> QED
        BY <3>1 DEF StationKept
    <2>3. \A q \in Requests : RequestKept(q)
      BY <1>0, <1>7, IdleIsFormed DEF UpdateCommit, Close, RequestKept
    <2> QED
      BY <1>7, <2>2, <2>3, CurrentStays DEF UpdateCommit, TokenKept
  <1>8. ASSUME NEW r \in Requests, Rollback(r) \/ GiveUp(r)
        PROVE  Current'
    <2>1. \A q \in Requests : RequestKept(q)
      BY <1>0, <1>8, IdleIsFormed DEF Rollback, GiveUp, Close, RequestKept, Requested, Tx
    <2>2. UNCHANGED <<station, token, agent, overlapped>>
      BY <1>8 DEF Rollback, GiveUp
    <2> QED
      BY <2>1, <2>2, CurrentStays DEF TokenKept, StationKept
  <1>9. ASSUME NEW k \in Tokens, Expire(k) \/ (k \in Provisioning /\ CreateProvisioningToken(k))
        PROVE  Current'
    <2>1. \A c \in Enrollment : TokenKept(c)
      BY <1>0, <1>9 DEF Expire, CreateProvisioningToken, TokenKept, TokenRow
    <2>2. UNCHANGED <<station, agent, overlapped, tx>>
      BY <1>9 DEF Expire, CreateProvisioningToken
    <2> QED
      BY <2>1, <2>2, CurrentStays DEF StationKept, RequestKept
  <1>10. ASSUME NEW r \in Requests, HeartbeatCommit(r)
         PROVE  Current'
    <2>1. \A t \in Stations : StationKept(t)
      BY <1>0, <1>10, RequestRows DEF HeartbeatCommit, StationKept, StationRow
    <2>2. \A q \in Requests : RequestKept(q)
      BY <1>0, <1>10, IdleIsFormed DEF HeartbeatCommit, Close, RequestKept
    <2> QED
      BY <1>10, <2>1, <2>2, CurrentStays DEF HeartbeatCommit, TokenKept
  <1>12. ASSUME NEW r \in Requests, NEW p \in Stations, NEW s \in Stations,
                HeartbeatRead(r, p, s)
         PROVE  Current'
    <2> DEFINE request == [Idle EXCEPT !.op = "heartbeat", !.station = s, !.token = store[p],
                                       !.seen = station[s]]
    <2>1. request.op = "heartbeat" /\ request.station = s /\ request.seen = station[s]
      BY DEF Idle
    <2>2. tx' = [tx EXCEPT ![r] = request]
      BY <1>12 DEF HeartbeatRead, Open
    <2> HIDE DEF request
    <2>3. UNCHANGED <<station, token, agent, overlapped>> /\ tx'[r] = request
      BY <1>0, <1>12, <2>2 DEF HeartbeatRead
    <2>4. EnrollHolds(r)' /\ DeleteKnows(r)' /\ SeenIsPast(r)'
      BY <1>0, <2>1, <2>3 DEF EnrollHolds, DeleteKnows, SeenIsPast, StationRow
    <2> QED
      BY <2>1, <2>2, <2>3, <2>4, CurrentOpens
  <1>11. ASSUME UNCHANGED <<station, token, agent, overlapped, tx>>
         PROVE  Current'
    BY <1>11, CurrentStays DEF TokenKept, RequestKept, StationKept
  <1> QED
    BY <1>1, <1>2, <1>3, <1>4, <1>5, <1>6, <1>7, <1>8, <1>9, <1>10, <1>11, <1>12,
       CreateCurrent, EnrollCurrent, BootstrapCurrent, DeleteCurrent
       DEF Next, vars, ClearCredential

LEMMA AlwaysCurrent == Spec => [](Typed /\ Current)
  BY AlwaysTyped, InitCurrent, NextCurrent, PTL DEF Spec

\* The only bindings that outlive the registration they were made for are those
\* of an enrollment or a bootstrap that overlapped a deletion of the station:
\* whatever was bound when DeleteStationUseCase began is gone after it, for any
\* number of overlapping requests and restorations.
THEOREM SurvivorsWereOverlapping == Spec => []SurvivorsOverlapped
  <1>1. Current => SurvivorsOverlapped
    BY DEF Current, BoundIsCurrent, SurvivorsOverlapped
  <1> QED
    BY <1>1, AlwaysCurrent, PTL

\* Of all steps only an enrollment's commit binds an agent with an enrollment
\* token, and the row lock of consume has kept the token and its station as they
\* were.
LEMMA OnlyEnrollmentBinds ==
  ASSUME Typed, Current, [Next]_vars, NEW s \in Stations,
         agent'[s] # agent[s], agent'[s] # None, agent'[s].cred \in Enrollment
  PROVE  station[s].row = "live" /\ agent'[s].epoch = station[s].epoch
  <1>1. agent \in [Stations -> AgentRow \cup {None}]
    BY DEF Typed, TypeOK
  <1>2. ASSUME NEW r \in Requests, EnrollCommit(r)
        PROVE  station[s].row = "live" /\ agent'[s].epoch = station[s].epoch
    <2> DEFINE st == tx[r].station
               k == tx[r].token
               new == [pc |-> tx[r].pc, cred |-> k, epoch |-> token[k].epoch]
    <2>1. k \in Enrollment /\ EnrollHolds(r) /\ tx[r].op = "enroll"
      BY <1>2, RequestRows DEF EnrollCommit, Current
    <2>2. TokenCurrent(k)
      BY <2>1 DEF Current
    <2>3. station[st].row = "live" /\ token[k].epoch = station[st].epoch
      BY <2>1, <2>2 DEF EnrollHolds, TokenCurrent
    <2>4. agent' = [agent EXCEPT ![st] = new] /\ new.epoch = token[k].epoch
      BY <1>2 DEF EnrollCommit, Bind
    <2> HIDE DEF st, k, new
    <2>5. s = st /\ agent'[s] = new
      BY <1>1, <2>4
    <2> QED
      BY <2>3, <2>4, <2>5
  <1>3. ASSUME NEW r \in Requests, BootstrapCommit(r)
        PROVE  FALSE
    <2> DEFINE st == tx[r].station
               k == tx[r].token
               n == IF tx[r].seen.row = "live" THEN tx[r].seen.epoch ELSE station[st].epoch
               new == [pc |-> st, cred |-> k, epoch |-> n]
    <2>1. k \in Provisioning
      BY <1>3 DEF BootstrapCommit, Typed, Requested, Formed
    <2>2. agent' = [agent EXCEPT ![st] = new] /\ new.cred = k
      BY <1>3 DEF BootstrapCommit, Bind
    <2> HIDE DEF st, k, n, new
    <2>3. agent'[s] = new
      BY <1>1, <2>2
    <2> QED
      BY <2>1, <2>2, <2>3
  <1>4. ASSUME NEW r \in Requests, DeleteCommit(r)
        PROVE  FALSE
    <2>1. agent' = agent \/ agent' = [agent EXCEPT ![tx[r].station] = None]
      BY <1>4 DEF DeleteCommit
    <2> QED
      BY <1>1, <2>1
  <1> QED
    BY <1>2, <1>3, <1>4
       DEF Next, vars, CreateRead, DeleteRead, UpdateRead, EnrollRead, BootstrapRead,
           HeartbeatRead, CreateCommit, DeleteAgents, UpdateCommit, HeartbeatCommit,
           Rollback, GiveUp, CreateProvisioningToken, Expire, ClearCredential

\* EnrollAgentUseCase binds an agent only to the registration that its token was
\* issued for, while it is live: between consume and the commit no deletion can
\* come in, and a token that a deletion has overtaken stays refused after the
\* station is restored.
THEOREM EnrollmentsAreAsIssued == Spec => EnrolledAsIssued
  <1>1. ASSUME Typed, Current, [Next]_vars
        PROVE  [\A s \in Stations :
                   agent'[s] # agent[s] /\ agent'[s] # None /\ agent'[s].cred \in Enrollment
                     => station[s].row = "live" /\ agent'[s].epoch = station[s].epoch]_vars
    BY <1>1, OnlyEnrollmentBinds
  <1> QED
    BY <1>1, AlwaysCurrent, PTL DEF Spec, EnrolledAsIssued

=============================================================================
