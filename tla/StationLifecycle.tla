--------------------------- MODULE StationLifecycle ---------------------------
(***************************************************************************)
(* The station registry, the one-time tokens and the agent bindings:       *)
(* application/lifecycle.py and application/stations.py over their         *)
(* repositories, with the agent's enrollment coordinator.                  *)
(*                                                                         *)
(* Requests are transactions under READ COMMITTED.  consume locks its      *)
(* token row (and an enrollment token's station row) until the commit;     *)
(* other reads take no lock, so a request may commit on a row it read      *)
(* before others changed it.  An UPDATE writes the columns the request     *)
(* changed.                                                                *)
(***************************************************************************)
EXTENDS Naturals, FiniteSets

CONSTANTS
    Stations,     \* stable UUIDs, of stations and of the PCs they run on
    Enrollment,   \* enrollment tokens
    Provisioning, \* provisioning tokens
    Requests,     \* requests that may be open at the same time
    None          \* SQL NULL, or no credential

ASSUME LifecycleAssumption ==
    /\ Enrollment \cap Provisioning = {}
    /\ None \notin Enrollment \cup Provisioning \cup Stations

Tokens == Enrollment \cup Provisioning
Roles == {"client", "admin"}

VARIABLES
    station,   \* the stations table
    token,     \* enrollment_tokens and provisioning_tokens
    agent,     \* the agents table: station_id is unique
    minted,    \* credentials issued for each token
    store,     \* the credential stored on each PC, named by its token
    tx,        \* the open requests
    overlapped \* credentials bound by a request that overlapped a deletion

vars == <<station, token, agent, minted, store, tx, overlapped>>

\* row: absent, live (deleted_at is NULL) or deleted; epoch: deletions so far.
StationRow ==
    [row : {"absent", "live", "deleted"}, enabled : BOOLEAN,
     state : {"offline", "online", "disabled"}, role : Roles, epoch : Nat]

TokenRow ==
    [issued : BOOLEAN, station : Stations \cup {None}, used : BOOLEAN,
     revoked : BOOLEAN, expired : BOOLEAN, epoch : Nat]

\* epoch: the registration the binding was made for.
AgentRow == [pc : Stations, cred : Tokens, epoch : Nat]

Idle ==
    [op |-> "idle", station |-> None, token |-> None, pc |-> None, waits |-> FALSE,
     seen |-> None, doomed |-> None, role |-> "client", enabled |-> TRUE]

Tx ==
    [op      : {"idle", "create", "enroll", "bootstrap", "delete", "deleting", "update",
               "heartbeat"},
     station : Stations \cup {None},
     token   : Tokens \cup {None},
     pc      : Stations \cup {None},
     waits   : BOOLEAN,                  \* the PC still waits for the answer
     seen    : StationRow \cup {None},   \* the station row as it was read
     doomed  : AgentRow \cup {None},     \* the agent row the deletion removed
     role    : Roles,
     enabled : BOOLEAN]

TypeOK ==
    /\ station \in [Stations -> StationRow]
    /\ token \in [Tokens -> TokenRow]
    /\ \A k \in Tokens : (token[k].station # None) <=> (k \in Enrollment /\ token[k].issued)
    /\ agent \in [Stations -> AgentRow \cup {None}]
    /\ minted \in [Tokens -> Nat]
    /\ store \in [Stations -> Tokens \cup {None}]
    /\ tx \in [Requests -> Tx]
    /\ overlapped \subseteq Tokens

Init ==
    /\ station = [s \in Stations |->
          [row |-> "absent", enabled |-> TRUE, state |-> "offline", role |-> "client", epoch |-> 0]]
    /\ token = [k \in Tokens |->
          [issued |-> FALSE, station |-> None, used |-> FALSE, revoked |-> FALSE,
           expired |-> FALSE, epoch |-> 0]]
    /\ agent = [s \in Stations |-> None]
    /\ minted = [k \in Tokens |-> 0]
    /\ store = [s \in Stations |-> None]
    /\ tx = [r \in Requests |-> Idle]
    /\ overlapped = {}

-----------------------------------------------------------------------------

\* is_usable.
Usable(k) == token[k].issued /\ ~token[k].used /\ ~token[k].revoked /\ ~token[k].expired

\* SELECT ... FOR UPDATE in the two consume methods.
TokenLocked(k) == \E r \in Requests : tx[r].op \in {"enroll", "bootstrap"} /\ tx[r].token = k
StationLocked(s) == \E r \in Requests : tx[r].op = "enroll" /\ tx[r].station = s

\* The CHECK constraint enabled_state_consistent: the commit of a row that was
\* put together from two requests' columns may fail on it.
Consistent(s) == station'[s].enabled <=> station'[s].state # "disabled"

\* Rows an open deletion has removed; touching them waits for its end.
Doomed(a) == a # None /\ \E r \in Requests : tx[r].doomed = a

Open(r, request) ==
    /\ tx[r] = Idle
    /\ tx' = [tx EXCEPT ![r] = request]

Close(r) == tx' = [tx EXCEPT ![r] = Idle]

\* The PC p runs its one-shot enrollment only without a stored credential.
Asks(p) == store[p] = None /\ \A r \in Requests : tx[r].pc = p => ~tx[r].waits

\* A new station row, or the columns restore changes of the row it read.
Registered(s, seen, role) ==
    [station[s] EXCEPT
        !.row = "live",
        !.enabled = IF seen.enabled THEN @ ELSE TRUE,
        !.state = IF seen.state = "offline" THEN @ ELSE "offline",
        !.role = IF seen.role = role THEN @ ELSE role]

\* add and restore: a row added by others meanwhile makes the INSERT fail, and
\* one restored by others may or may not be noticed by restore.
Registers(s, seen) ==
    \/ seen.row = "absent" /\ station[s].row = "absent"
    \/ seen.row = "deleted"

\* agents.add: station_id and agent_uuid are unique.  The INSERT waits for an
\* open deletion of the row it collides with.
Bindable(s, p) ==
    /\ agent[s] = None
    /\ \A q \in Stations : agent[q] # None => agent[q].pc # p

\* An open deletion of s has removed the agents it found and not committed yet.
Deleting(s) == \E q \in Requests : tx[q].op = "deleting" /\ tx[q].station = s

\* The binding, the token's use and the credential's answer; the answer may be
\* lost, or find nobody waiting.
Bind(r, s, p, k, epoch) ==
    /\ agent' = [agent EXCEPT ![s] = [pc |-> p, cred |-> k, epoch |-> epoch]]
    /\ token' = [token EXCEPT ![k].used = TRUE]
    /\ minted' = [minted EXCEPT ![k] = @ + 1]
    /\ store' \in {store} \cup (IF tx[r].waits THEN {[store EXCEPT ![p] = k]} ELSE {})

-----------------------------------------------------------------------------
(* CreateStationUseCase and CreateProvisioningTokenUseCase.                *)

CreateRead(r, s, role) ==
    /\ station[s].row # "live"
    /\ \E k \in Enrollment :
          /\ ~token[k].issued
          /\ \A q \in Requests : tx[q].token # k
          /\ Open(r, [Idle EXCEPT !.op = "create", !.station = s, !.token = k,
                                  !.seen = station[s], !.role = role])
    /\ UNCHANGED <<station, token, agent, minted, store, overlapped>>

CreateCommit(r) ==
    LET s == tx[r].station
        k == tx[r].token
    IN  /\ tx[r].op = "create"
        /\ ~StationLocked(s)
        /\ Registers(s, tx[r].seen)
        /\ station' = [station EXCEPT ![s] = Registered(s, tx[r].seen, tx[r].role)]
        /\ Consistent(s)
        /\ token' = [token EXCEPT ![k].issued = TRUE, ![k].station = s,
                                  ![k].epoch = station[s].epoch]
        /\ Close(r)
        /\ UNCHANGED <<agent, minted, store, overlapped>>

CreateProvisioningToken(k) ==
    /\ ~token[k].issued
    /\ token' = [token EXCEPT ![k].issued = TRUE]
    /\ UNCHANGED <<station, agent, minted, store, tx, overlapped>>

-----------------------------------------------------------------------------
(* EnrollAgentUseCase.                                                     *)

EnrollRead(r, k, p) ==
    /\ Asks(p) /\ Usable(k) /\ ~TokenLocked(k)
    /\ ~StationLocked(token[k].station)
    /\ Open(r, [Idle EXCEPT !.op = "enroll", !.station = token[k].station, !.token = k,
                            !.pc = p, !.waits = TRUE])
    /\ UNCHANGED <<station, token, agent, minted, store, overlapped>>

EnrollCommit(r) ==
    LET s == tx[r].station
        p == tx[r].pc
    IN  /\ tx[r].op = "enroll"
        /\ Bindable(s, p)
        /\ Bind(r, s, p, tx[r].token, token[tx[r].token].epoch)
        /\ overlapped' = IF Deleting(s) THEN overlapped \cup {tx[r].token} ELSE overlapped
        /\ Close(r)
        /\ UNCHANGED station

-----------------------------------------------------------------------------
(* BootstrapAgentUseCase: the station's UUID is the PC's.                  *)

\* Mutant: the token is read without FOR UPDATE.
BootstrapRead_NoLock(r, k, p) ==
    /\ Asks(p) /\ Usable(k)
    /\ \A q \in Stations : agent[q] # None => agent[q].pc # p
    /\ Open(r, [Idle EXCEPT !.op = "bootstrap", !.station = p, !.token = k, !.pc = p,
                            !.waits = TRUE, !.seen = station[p]])
    /\ UNCHANGED <<station, token, agent, minted, store, overlapped>>

BootstrapRead(r, k, p) ==
    /\ Asks(p) /\ Usable(k) /\ ~TokenLocked(k)
    /\ \A q \in Stations : agent[q] # None => agent[q].pc # p
    /\ station[p].row = "live" => station[p].role = "client" /\ agent[p] = None
    /\ Open(r, [Idle EXCEPT !.op = "bootstrap", !.station = p, !.token = k, !.pc = p,
                            !.waits = TRUE, !.seen = station[p]])
    /\ UNCHANGED <<station, token, agent, minted, store, overlapped>>

\* A live station keeps its row (update_hostname does not look at deleted_at).
BootstrapCommit(r) ==
    LET s == tx[r].station
        seen == tx[r].seen
    IN  /\ tx[r].op = "bootstrap"
        /\ ~StationLocked(s)
        /\ Bindable(s, s)
        /\ \/ seen.row = "live" /\ UNCHANGED station
           \/ /\ Registers(s, seen)
              /\ station' = [station EXCEPT ![s] = Registered(s, seen, "client")]
              /\ Consistent(s)
        /\ Bind(r, s, s, tx[r].token, IF seen.row = "live" THEN seen.epoch ELSE station[s].epoch)
        /\ overlapped' = IF Deleting(s) \/ (seen.row = "live" /\ station[s].epoch # seen.epoch)
                         THEN overlapped \cup {tx[r].token} ELSE overlapped
        /\ Close(r)

-----------------------------------------------------------------------------
(* DeleteStationUseCase.                                                   *)

DeleteRead(r, s) ==
    /\ station[s].row = "live"
    /\ Open(r, [Idle EXCEPT !.op = "delete", !.station = s, !.seen = station[s]])
    /\ UNCHANGED <<station, token, agent, minted, store, overlapped>>

\* DELETE of the station's commands and agent, not visible to others yet.
DeleteAgents(r) ==
    /\ tx[r].op = "delete"
    /\ ~Doomed(agent[tx[r].station])
    /\ tx' = [tx EXCEPT ![r].op = "deleting", ![r].doomed = agent[tx[r].station]]
    /\ UNCHANGED <<station, token, agent, minted, store, overlapped>>

\* Mutant: the station's enrollment tokens stay valid.
DeleteCommit_KeepsTokens(r) ==
    LET s == tx[r].station
    IN  /\ tx[r].op = "deleting"
        /\ ~StationLocked(s)
        /\ agent' = IF agent[s] = tx[r].doomed THEN [agent EXCEPT ![s] = None] ELSE agent
        /\ station' = [station EXCEPT ![s].row = "deleted", ![s].enabled = FALSE,
                                      ![s].state = "disabled", ![s].epoch = @ + 1]
        /\ Close(r)
        /\ UNCHANGED <<token, minted, store, overlapped>>

\* Mutant: the agent row is left for can_accept_heartbeat to refuse.
DeleteCommit_KeepsAgent(r) ==
    LET s == tx[r].station
    IN  /\ tx[r].op = "deleting"
        /\ ~StationLocked(s)
        /\ token' = [k \in Tokens |-> [token[k] EXCEPT !.revoked = @ \/ token[k].station = s]]
        /\ station' = [station EXCEPT ![s].row = "deleted", ![s].enabled = FALSE,
                                      ![s].state = "disabled", ![s].epoch = @ + 1]
        /\ Close(r)
        /\ UNCHANGED <<agent, minted, store, overlapped>>

\* UPDATE of the tokens, which waits for a consume that holds one, and of the
\* station, then the commit.
DeleteCommit(r) ==
    LET s == tx[r].station
        seen == tx[r].seen
    IN  /\ tx[r].op = "deleting"
        /\ ~StationLocked(s)
        /\ agent' = IF agent[s] = tx[r].doomed THEN [agent EXCEPT ![s] = None] ELSE agent
        /\ token' = [k \in Tokens |-> [token[k] EXCEPT !.revoked = @ \/ token[k].station = s]]
        /\ station' = [station EXCEPT
              ![s].row = "deleted",
              ![s].enabled = IF seen.enabled THEN FALSE ELSE @,
              ![s].state = IF seen.state # "disabled" THEN "disabled" ELSE @,
              ![s].epoch = IF station[s].row = "live" THEN @ + 1 ELSE @]
        /\ Consistent(s)
        /\ Close(r)
        /\ UNCHANGED <<minted, store, overlapped>>

-----------------------------------------------------------------------------
(* UpdateStationUseCase, and heartbeats as far as they touch the registry. *)

UpdateRead(r, s, role, enabled) ==
    /\ station[s].row = "live"
    /\ Open(r, [Idle EXCEPT !.op = "update", !.station = s, !.seen = station[s],
                            !.role = role, !.enabled = enabled])
    /\ UNCHANGED <<station, token, agent, minted, store, overlapped>>

\* The state update_details computes from the row it read.
UpdatedState(seen, enabled) ==
    IF ~enabled THEN "disabled" ELSE IF seen.state = "disabled" THEN "offline" ELSE seen.state

UpdateCommit(r) ==
    LET s == tx[r].station
        seen == tx[r].seen
        state == UpdatedState(seen, tx[r].enabled)
    IN  /\ tx[r].op = "update"
        /\ ~StationLocked(s)
        /\ station' = [station EXCEPT
              ![s].role = IF tx[r].role # seen.role THEN tx[r].role ELSE @,
              ![s].enabled = IF tx[r].enabled # seen.enabled THEN tx[r].enabled ELSE @,
              ![s].state = IF state # seen.state THEN state ELSE @]
        /\ Consistent(s)
        /\ Close(r)
        /\ UNCHANGED <<token, agent, minted, store, overlapped>>

\* can_accept_heartbeat for the binding of s.
Accepts(s) == agent[s] # None /\ station[s].row = "live" /\ station[s].enabled

\* ReceiveHeartbeatUseCase from the PC p looks at the binding without a lock ...
HeartbeatRead(r, p, s) ==
    /\ store[p] # None
    /\ Accepts(s) /\ agent[s].cred = store[p]
    /\ Open(r, [Idle EXCEPT !.op = "heartbeat", !.station = s, !.token = store[p],
                            !.seen = station[s]])
    /\ UNCHANGED <<station, token, agent, minted, store, overlapped>>

\* ... and record_heartbeat reads and locks it again.  The snapshot it adds is in
\* module Preflight, the commands it claims are in module AgentCommands.
HeartbeatCommit(r) ==
    LET s == tx[r].station
    IN  /\ tx[r].op = "heartbeat"
        /\ agent[s] # None /\ agent[s].cred = tx[r].token
        /\ ~StationLocked(s) /\ ~Doomed(agent[s])
        /\ station' = IF Accepts(s) THEN [station EXCEPT ![s].state = "online"] ELSE station
        /\ Close(r)
        /\ UNCHANGED <<token, agent, minted, store, overlapped>>

-----------------------------------------------------------------------------
(* The environment.                                                        *)

\* The use case raises: a lost database connection, a duplicate key, the CHECK, or, with
\* the same outcome, a row that restore finds already restored.
Rollback(r) ==
    /\ tx[r].op # "idle"
    /\ Close(r)
    /\ UNCHANGED <<station, token, agent, minted, store, overlapped>>

\* The PC's request times out while the controller is still at it.
GiveUp(r) ==
    /\ tx[r].waits
    /\ tx' = [tx EXCEPT ![r].waits = FALSE]
    /\ UNCHANGED <<station, token, agent, minted, store, overlapped>>

Expire(k) ==
    /\ token[k].issued /\ ~token[k].expired
    /\ token' = [token EXCEPT ![k].expired = TRUE]
    /\ UNCHANGED <<station, agent, minted, store, tx, overlapped>>

\* The operator removes the credential file before a new enrollment.
ClearCredential(p) ==
    /\ store[p] # None
    /\ store' = [store EXCEPT ![p] = None]
    /\ UNCHANGED <<station, token, agent, minted, tx, overlapped>>

Next ==
    \/ \E r \in Requests :
          \/ \E s \in Stations : \/ \E role \in Roles : CreateRead(r, s, role)
                                 \/ DeleteRead(r, s)
                                 \/ \E role \in Roles, e \in BOOLEAN : UpdateRead(r, s, role, e)
                                 \/ \E k \in Enrollment : EnrollRead(r, k, s)
                                 \/ \E k \in Provisioning : BootstrapRead(r, k, s)
                                 \/ \E p \in Stations : HeartbeatRead(r, p, s)
          \/ CreateCommit(r) \/ EnrollCommit(r) \/ BootstrapCommit(r)
          \/ DeleteAgents(r) \/ DeleteCommit(r) \/ UpdateCommit(r)
          \/ HeartbeatCommit(r)
          \/ Rollback(r) \/ GiveUp(r)
    \/ \E k \in Provisioning : CreateProvisioningToken(k)
    \/ \E k \in Tokens : Expire(k)
    \/ \E p \in Stations : ClearCredential(p)

Spec == Init /\ [][Next]_vars

-----------------------------------------------------------------------------
(* Properties.                                                             *)

\* A token buys one credential, and it is used up exactly when it did: an
\* enrollment that fails after consume leaves it usable, two that overlap do
\* not both succeed.
TokenBuysOneCredential ==
    \A k \in Tokens : minted[k] <= 1 /\ (token[k].used <=> minted[k] = 1)

\* An enrollment token binds an agent only to the registration it was issued
\* for, while that is live: a token that a deletion has overtaken buys nothing,
\* neither then nor after the station is restored.
EnrolledAsIssued ==
    [][\A s \in Stations :
          agent'[s] # agent[s] /\ agent'[s] # None /\ agent'[s].cred \in Enrollment
            => station[s].row = "live" /\ agent'[s].epoch = station[s].epoch]_vars

\* Which bindings outlive the deletion of the registration they were made for,
\* and are accepted again when the station is restored: only such that an
\* enrollment or a bootstrap made while it overlapped a deletion of the station.
\* Whatever was bound before, DeleteStationUseCase "invalidates".
SurvivorsOverlapped ==
    \A s \in Stations :
        /\ agent[s] # None
        /\ station[s].row = "deleted" \/ agent[s].epoch # station[s].epoch
        => agent[s].cred \in overlapped

=============================================================================
