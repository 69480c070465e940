---------------------------- MODULE AgentCommands ----------------------------
(***************************************************************************)
(* Delivery of signed commands to a station agent.  The controller hands   *)
(* commands out under a lease in the answer to a heartbeat; the agent      *)
(* refreshes its process snapshot with a nested heartbeat and then         *)
(* acknowledges.  Requests and answers get lost, a request the agent gave  *)
(* up on may still be carried out later, and the agent may restart.        *)
(*                                                                         *)
(* Time is relative: a row keeps the ticks left until expires_at and until *)
(* lease_until.  Commands are numbered by created_at, and a snapshot is    *)
(* the number of commands issued before it was captured: it is newer than  *)
(* the issue of c iff c <= snapshot.                                       *)
(***************************************************************************)
EXTENDS Integers, FiniteSets

CONSTANTS
    MaxCommands,   \* bound: commands issued
    TTL,           \* COMMAND_TTL
    Lease,         \* AGENT_COMMAND_LEASE
    BatchSize,     \* AGENT_COMMAND_BATCH_SIZE
    Interval,      \* heartbeat_interval_seconds
    Timeout,       \* timeout_seconds of the HTTP client
    Backoff,       \* the longest delay of BackoffPolicy between attempts
    MaxAttempts,   \* BackoffPolicy.max_attempts
    ClockAhead,    \* how far the station's clock is ahead of the controller's
    MaxFaults,     \* bound: requests or answers lost
    MaxRestarts,   \* bound: restarts of the agent
    Tolerated      \* losses and restarts that TTL leaves time for

ASSUME CommandAssumption ==
    /\ MaxCommands \in Nat
    /\ TTL \in Nat \ {0}
    /\ Lease \in Nat \ {0}
    /\ BatchSize \in Nat \ {0}
    /\ Interval \in Nat
    /\ Timeout \in Nat
    /\ Backoff \in Nat
    /\ MaxAttempts \in Nat \ {0}
    /\ ClockAhead \in Nat
    /\ MaxFaults \in Nat
    /\ MaxRestarts \in Nat
    /\ Tolerated \in Nat

Commands == 1 .. MaxCommands

VARIABLES
    \* the controller's database
    issued,      \* number of commands issued so far
    status,      \* agent_commands.status
    ttl,         \* ticks until expires_at
    lease,       \* ticks until lease_until; -1 when it lies in the past
    mismatched,  \* commands signed with a key that the agent's does not verify
    newest,      \* the newest snapshot, by captured_at, among all recorded
    \* the agent process
    pc,          \* what run_forever is waiting for
    timer,       \* ticks until that wait ends
    snapshot,    \* what run_once collected, resent by every attempt
    attempt,     \* attempts of send_with_retry
    batch,       \* commands of the answer still to be worked off
    cur,         \* the command being worked on
    inner,       \* what the nested run_once collected
    tries,       \* attempts of the nested send_with_retry
    handled,     \* AgentCommandHandler._handled_commands
    \* the network
    wire,        \* the outstanding request
    reply,       \* commands in its answer
    late,        \* requests given up by the agent and still on their way
    faults,      \* requests or answers lost so far
    restarts     \* restarts so far

rows == <<issued, status, ttl, lease, mismatched>>
outer == <<snapshot, attempt>>
nested == <<inner, tries>>
bounds == <<faults, restarts>>
vars == <<issued, status, ttl, lease, mismatched, newest, pc, timer, snapshot, attempt,
          batch, cur, inner, tries, handled, wire, reply, late, faults, restarts>>

Waiting == {"beat", "refresh", "ack"}

\* A request on its way: a heartbeat with its snapshot, or an acknowledgement.
Request ==
    [kind : {"heartbeat"}, body : 0 .. MaxCommands] \cup [kind : {"ack"}, body : Commands]

TypeOK ==
    /\ issued \in 0 .. MaxCommands
    /\ status \in [Commands -> {"absent", "pending", "leased", "acknowledged"}]
    /\ ttl \in [Commands -> 0 .. TTL]
    /\ lease \in [Commands -> -1 .. Lease]
    /\ mismatched \subseteq Commands
    /\ newest \in 0 .. MaxCommands
    /\ pc \in Waiting \cup {"sleep", "backoff", "nestedBackoff", "dead"}
    /\ timer \in Nat
    /\ snapshot \in 0 .. MaxCommands
    /\ attempt \in 1 .. MaxAttempts
    /\ batch \subseteq Commands
    /\ cur \in 0 .. MaxCommands
    /\ inner \in 0 .. MaxCommands
    /\ tries \in 1 .. MaxAttempts
    /\ handled \subseteq Commands
    /\ wire \in {"none", "request", "answer", "refused"}
    /\ reply \subseteq Commands
    /\ late \subseteq Request
    /\ faults \in 0 .. MaxFaults
    /\ restarts \in 0 .. MaxRestarts
    /\ pc \in {"refresh", "nestedBackoff", "ack"} => cur \in Commands

Init ==
    /\ issued = 0
    /\ status = [c \in Commands |-> "absent"]
    /\ ttl = [c \in Commands |-> 0]
    /\ lease = [c \in Commands |-> -1]
    /\ mismatched = {}
    /\ newest = 0
    /\ pc = "sleep" /\ timer = 0
    /\ snapshot = 0 /\ attempt = 1
    /\ batch = {} /\ cur = 0
    /\ inner = 0 /\ tries = 1
    /\ handled = {}
    /\ wire = "none" /\ reply = {} /\ late = {}
    /\ faults = 0 /\ restarts = 0

-----------------------------------------------------------------------------
(* The controller.                                                         *)

\* IssueAgentCommandUseCase.  AGENT_COMMAND_VERIFY_KEY on the station need not
\* be the counterpart of the key the controller signs with (any more).
Issue(verifiable) ==
    /\ issued < MaxCommands
    /\ issued' = issued + 1
    /\ status' = [status EXCEPT ![issued + 1] = "pending"]
    /\ ttl' = [ttl EXCEPT ![issued + 1] = TTL]
    /\ mismatched' = IF verifiable THEN mismatched ELSE mismatched \cup {issued + 1}
    /\ UNCHANGED <<lease, newest, pc, timer, outer, batch, cur, nested, handled,
                   wire, reply, late, bounds>>

\* Mutant: leased commands are not handed out again.
Claimable_PendingOnly == {c \in Commands : ttl[c] > 0 /\ status[c] = "pending"}

\* The rows claim_for_agent selects, before its limit.
Claimable ==
    {c \in Commands : /\ ttl[c] > 0
                      /\ \/ status[c] = "pending"
                         \/ status[c] = "leased" /\ lease[c] <= 0}

\* The oldest BatchSize of them.
Claimed == {c \in Claimable : Cardinality({d \in Claimable : d < c}) < BatchSize}

\* ReceiveHeartbeatUseCase: the snapshot and the claim are one transaction.
ReceiveHeartbeat(snap) ==
    /\ newest' = IF snap > newest THEN snap ELSE newest
    /\ status' = [c \in Commands |-> IF c \in Claimed THEN "leased" ELSE status[c]]
    /\ lease' = [c \in Commands |-> IF c \in Claimed THEN Lease ELSE lease[c]]
    /\ UNCHANGED <<issued, ttl, mismatched>>

\* What acknowledge answers.  A row found expired is set to "expired", but the
\* use case raises and the transaction is rolled back.
Accepts(c) ==
    \/ status[c] = "acknowledged"
    \/ ttl[c] > 0 /\ status[c] = "leased" /\ lease[c] >= 0

\* AcknowledgeAgentCommandUseCase.
Acknowledge(c) ==
    /\ \/ /\ Accepts(c)
          /\ status' = [status EXCEPT ![c] = "acknowledged"]
          /\ lease' = [lease EXCEPT ![c] = -1]
       \/ ~Accepts(c) /\ UNCHANGED <<status, lease>>
    /\ UNCHANGED <<issued, ttl, mismatched, newest>>

-----------------------------------------------------------------------------
(* The network and the controller serving what is on it.                   *)

Outstanding ==
    IF pc = "ack" THEN [kind |-> "ack", body |-> cur]
    ELSE [kind |-> "heartbeat", body |-> IF pc = "beat" THEN snapshot ELSE inner]

ServeHeartbeat ==
    /\ pc \in {"beat", "refresh"} /\ wire = "request"
    /\ ReceiveHeartbeat(IF pc = "beat" THEN snapshot ELSE inner)
    /\ wire' = "answer"
    /\ reply' = Claimed
    /\ UNCHANGED <<pc, timer, outer, batch, cur, nested, handled, late, bounds>>

ServeAck ==
    /\ pc = "ack" /\ wire = "request"
    /\ Acknowledge(cur)
    /\ wire' = IF Accepts(cur) THEN "answer" ELSE "refused"
    /\ UNCHANGED <<pc, timer, outer, batch, cur, nested, handled, reply, late, bounds>>

\* The controller carries out a request whose sender no longer waits.
ServeLate(r) ==
    /\ late' = late \ {r}
    /\ IF r.kind = "heartbeat" THEN ReceiveHeartbeat(r.body) ELSE Acknowledge(r.body)
    /\ UNCHANGED <<pc, timer, outer, batch, cur, nested, handled, wire, reply, bounds>>

-----------------------------------------------------------------------------
(* The agent.                                                              *)

Send(state) == pc' = state /\ timer' = Timeout /\ wire' = "request" /\ reply' = {}

Pause(state, ticks) == pc' = state /\ timer' = ticks /\ wire' = "none" /\ reply' = {}

\* run_forever sleeps until the next cycle; the locals of run_once are gone.
Rest(ticks) ==
    /\ Pause("sleep", ticks)
    /\ snapshot' = 0 /\ attempt' = 1
    /\ batch' = {} /\ cur' = 0
    /\ inner' = 0 /\ tries' = 1

\* run_forever: collect a snapshot and send it.
Wake ==
    /\ pc = "sleep" /\ timer = 0
    /\ snapshot' = issued
    /\ attempt' = 1
    /\ Send("beat")
    /\ UNCHANGED <<rows, newest, batch, cur, nested, handled, late, bounds>>

\* What AgentCommandValidator refuses: the agent compares expires_at with its
\* own clock.  (The controller issues no command of another name, and signs all.)
Invalid(c) == ttl[c] <= ClockAhead \/ c \in mismatched

\* Mutant: the nested heartbeat sends the snapshot of the cycle again.
Handle_ReusesSnapshot(c) ==
    /\ cur' = c
    /\ tries' = 1
    /\ inner' = snapshot
    /\ Send(IF c \in handled THEN "ack" ELSE "refresh")

\* handle of command c: an invalid command raises InvalidAgentCommand, which
\* nothing catches, so that run_forever ends; one handled before
\* is acknowledged again; for another one the nested heartbeat is sent.
Handle(c) ==
    /\ cur' = c
    /\ tries' = 1
    /\ \/ /\ Invalid(c)
          /\ inner' = 0
          /\ Pause("dead", 0)
       \/ /\ ~Invalid(c)
          /\ c \in handled
          /\ inner' = 0
          /\ Send("ack")
       \/ /\ ~Invalid(c)
          /\ c \notin handled
          /\ inner' = issued
          /\ Send("refresh")

\* The loop of send_once over the commands left, oldest first.
WorkOff(left) ==
    \/ left = {} /\ Rest(Interval)
    \/ \E c \in left :
          /\ \A d \in left : c <= d
          /\ batch' = left \ {c}
          /\ Handle(c)
          /\ UNCHANGED outer

GetCommands ==
    /\ pc = "beat" /\ wire = "answer"
    /\ WorkOff(reply)
    /\ UNCHANGED <<rows, newest, handled, late, bounds>>

\* Mutant: a command is remembered as handled only once it is acknowledged.
GetRefreshed_Forgets ==
    /\ pc = "refresh" /\ wire = "answer"
    /\ Send("ack")
    /\ inner' = 0 /\ tries' = 1
    /\ UNCHANGED <<rows, newest, outer, batch, cur, handled, late, bounds>>

\* The nested heartbeat was answered.  The commands in its answer are dropped
\* (process_commands=False) although they are leased now.
GetRefreshed ==
    /\ pc = "refresh" /\ wire = "answer"
    /\ handled' = handled \cup {cur}
    /\ Send("ack")
    /\ inner' = 0 /\ tries' = 1
    /\ UNCHANGED <<rows, newest, outer, batch, cur, late, bounds>>

GetAcknowledged ==
    /\ pc = "ack" /\ wire = "answer"
    /\ WorkOff(batch)
    /\ UNCHANGED <<rows, newest, handled, late, bounds>>

\* HeartbeatTransportError in send_once: back off and send the same snapshot
\* again, or leave the cycle.
RetryBeat ==
    \/ /\ attempt < MaxAttempts
       /\ \E d \in 0 .. Backoff : Pause("backoff", d)
       /\ batch' = {} /\ cur' = 0
       /\ inner' = 0 /\ tries' = 1
       /\ UNCHANGED outer
    \/ attempt = MaxAttempts /\ Rest(Interval)

\* HeartbeatTransportError while the agent waits for an answer: the nested
\* send_with_retry retries first, its last failure is one of the outer attempt.
Raise ==
    \/ /\ pc = "refresh" /\ tries < MaxAttempts
       /\ \E d \in 0 .. Backoff : Pause("nestedBackoff", d)
       /\ UNCHANGED <<outer, batch, cur, nested>>
    \/ /\ pc # "refresh" \/ tries = MaxAttempts
       /\ RetryBeat

\* An acknowledgement the controller rejected.
Refused ==
    /\ wire = "refused"
    /\ Raise
    /\ UNCHANGED <<rows, newest, handled, late, bounds>>

\* A request on the wire is lost or still arrives.
Abandon ==
    late' \in {late} \cup (IF wire = "request" THEN {late \cup {Outstanding}} ELSE {})

\* The connection breaks, the request times out, or the answer is not a 2xx.
Lose ==
    /\ pc \in Waiting /\ wire \in {"request", "answer"}
    /\ faults < MaxFaults
    /\ faults' = faults + 1
    /\ Abandon
    /\ Raise
    /\ UNCHANGED <<rows, newest, handled, restarts>>

Resume ==
    /\ pc = "backoff" /\ timer = 0
    /\ attempt' = attempt + 1
    /\ Send("beat")
    /\ UNCHANGED <<rows, newest, snapshot, batch, cur, nested, handled, late, bounds>>

ResumeNested ==
    /\ pc = "nestedBackoff" /\ timer = 0
    /\ tries' = tries + 1
    /\ Send("refresh")
    /\ UNCHANGED <<rows, newest, outer, batch, cur, inner, handled, late, bounds>>

\* The service is restarted; what it had handled is forgotten.
Restart ==
    /\ restarts < MaxRestarts
    /\ restarts' = restarts + 1
    /\ Abandon
    /\ Rest(0)
    /\ handled' = {}
    /\ UNCHANGED <<rows, newest, faults>>

\* Time passes while the agent waits; what it can do at once it does at once.
Tick ==
    /\ timer > 0 \/ pc = "dead"
    /\ timer' = IF timer > 0 THEN timer - 1 ELSE 0
    /\ ttl' = [c \in Commands |-> IF ttl[c] > 0 THEN ttl[c] - 1 ELSE 0]
    /\ lease' = [c \in Commands |-> IF lease[c] > -1 THEN lease[c] - 1 ELSE -1]
    /\ UNCHANGED <<issued, status, mismatched, newest, pc, outer, batch, cur, nested, handled,
                   wire, reply, late, bounds>>

Next ==
    \/ \E verifiable \in BOOLEAN : Issue(verifiable)
    \/ ServeHeartbeat \/ ServeAck \/ \E r \in late : ServeLate(r)
    \/ Wake \/ GetCommands \/ GetRefreshed \/ GetAcknowledged
    \/ Refused \/ Lose \/ Resume \/ ResumeNested \/ Restart
    \/ Tick

Spec == Init /\ [][Next]_vars

-----------------------------------------------------------------------------
(* Properties.                                                             *)

\* "Ack is sent only after a successful local refresh": when a command is
\* acknowledged the controller has recorded a snapshot captured after the
\* command was issued, whatever was lost, late or restarted in between.
AckedIsRefreshed ==
    \A c \in Commands : status[c] = "acknowledged" => c <= newest

\* "A command survives the loss of a heartbeat answer": after at most Tolerated
\* losses and restarts no command has expired before it was acknowledged,
\* although nested heartbeats lease other commands and drop them - provided that
\* the agent verifies the commands: one that it does not ends its loop.
DeliveredInTime ==
    mismatched = {} /\ faults + restarts <= Tolerated =>
        \A c \in Commands : status[c] \in {"pending", "leased"} => ttl[c] > 0

\* "Retry, no duplicate after ack": a process does not refresh for a command
\* that the controller already holds as acknowledged, even when the
\* acknowledgement was carried out after the agent had given up on it.
NoDuplicateAfterAck ==
    pc = "refresh" /\ status[cur] = "acknowledged" => restarts > 0

\* An acknowledged command is final: claims never take it back.
AckedIsFinal ==
    [][\A c \in Commands : status[c] = "acknowledged" => status'[c] = "acknowledged"]_vars

=============================================================================
