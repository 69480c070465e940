----------------------------- MODULE OutboxRelay -----------------------------
(***************************************************************************)
(* PublishOutboxRelay and the outbox_events table: relays lease pending    *)
(* events, send them to the broker outside the transaction and record the  *)
(* outcome in another one.  Neither mark_dispatched nor mark_failed looks  *)
(* at who holds the lease, a send may fail after the broker took the       *)
(* message, and a relay may stop anywhere.                                 *)
(*                                                                         *)
(* Time is relative: a row keeps the seconds left until it is available    *)
(* and until its lease runs out, a relay the age of its relay_time.        *)
(***************************************************************************)
EXTENDS Naturals, FiniteSets

CONSTANTS
    Events,        \* outbox events, numbered in the order of created_at
    Relays,        \* worker processes, each polling the outbox
    BatchSize,     \* batch_size
    MaxAttempts,   \* max_attempts
    LeaseFor,      \* lease_seconds
    MaxDelayExp,   \* the cap on the exponent in _retry_delay
    MaxBatchTime,  \* the longest time a relay spends on the batch it claimed
    MaxStops       \* bound: how often relays stop in the middle of a batch

ASSUME OutboxAssumption ==
    /\ Events \subseteq Nat
    /\ BatchSize \in Nat \ {0}
    /\ MaxAttempts \in Nat \ {0}
    /\ LeaseFor \in Nat \ {0}
    /\ MaxDelayExp \in Nat
    /\ MaxBatchTime \in Nat
    /\ MaxStops \in Nat

VARIABLES
    event,   \* the outbox_events rows
    relay,   \* what each relay is doing
    sent,    \* messages the broker took for each event: 0, 1 or 2 (several)
    stops,   \* how often a relay has stopped in the middle of a batch
    overdue  \* history: events whose lease ran out while a relay worked on them

vars == <<event, relay, sent, stops, overdue>>

-----------------------------------------------------------------------------

Minimum(a, b) == IF a <= b THEN a ELSE b
Minus(a, b) == IF a <= b THEN 0 ELSE a - b

\* _retry_delay.
RetryDelay(attempts) == 2 ^ Minimum(attempts + 1, MaxDelayExp)

EventRow ==
    [status   : {"absent", "pending", "dispatched", "failed"},
     attempts : Nat,
     wait     : Nat,    \* until available_at
     lease    : Nat]    \* until lease_expires_at; 0 also when not locked

\* attempts: the attempts of each claimed event as the claim read them.
RelayState ==
    [pc       : {"idle", "send", "sent", "raised"},
     batch    : SUBSET Events,
     attempts : [Events -> Nat],
     age      : Nat]

Resting == [pc |-> "idle", batch |-> {}, attempts |-> [e \in Events |-> 0], age |-> 0]

\* The event a relay is working on: batches are processed in claim order.
Current(r) ==
    CHOOSE e \in relay[r].batch : \A f \in relay[r].batch : e <= f

Init ==
    /\ event = [e \in Events |-> [status |-> "absent", attempts |-> 0, wait |-> 0, lease |-> 0]]
    /\ relay = [r \in Relays |-> Resting]
    /\ sent = [e \in Events |-> 0]
    /\ stops = 0
    /\ overdue = {}

\* DispatchPublishJobUseCase adds an event (module PublishControl).
Add(e) ==
    /\ event[e].status = "absent"
    /\ \A f \in Events : f < e => event[f].status # "absent"
    /\ event' = [event EXCEPT ![e].status = "pending"]
    /\ UNCHANGED <<relay, sent, stops, overdue>>

-----------------------------------------------------------------------------

\* Mutant: rows under an unexpired lease are claimed, too.
Claimable_IgnoresLease == {e \in Events : event[e].status = "pending" /\ event[e].wait = 0}

\* Mutant: resolved rows are claimed, too.
Claimable_AnyStatus ==
    {e \in Events : /\ event[e].status # "absent"
                    /\ event[e].wait = 0
                    /\ event[e].lease = 0}

\* claim_pending: available, and not leased or the lease has run out.
Claimable ==
    {e \in Events : /\ event[e].status = "pending"
                    /\ event[e].wait = 0
                    /\ event[e].lease = 0}

\* ORDER BY created_at LIMIT n.
Oldest(S, n) == {e \in S : Cardinality({f \in S : f < e}) < n}

\* run_once reads the clock and leases a batch in one transaction; FOR UPDATE
\* SKIP LOCKED keeps two relays from taking the same row at the same time.
RelayClaim(r) ==
    LET batch == Oldest(Claimable, BatchSize) IN
    /\ relay[r].pc = "idle"
    /\ batch # {}
    /\ event' = [e \in Events |->
            IF e \in batch THEN [event[e] EXCEPT !.lease = LeaseFor] ELSE event[e]]
    /\ relay' = [relay EXCEPT ![r] =
            [pc |-> "send", batch |-> batch, age |-> 0,
             attempts |-> [e \in Events |-> IF e \in batch THEN event[e].attempts ELSE 0]]]
    /\ UNCHANGED <<sent, stops, overdue>>

\* Mutant: the event is taken for sent before the broker has it.
RelaySend_MarksFirst(r, taken, raised) ==
    /\ relay[r].pc = "send"
    /\ relay' = [relay EXCEPT ![r].pc = "sent"]
    /\ sent' = [sent EXCEPT ![Current(r)] = IF taken THEN Minimum(@ + 1, 2) ELSE @]
    /\ UNCHANGED <<event, stops, overdue>>

\* _send: the broker takes the message and the call returns, or the call
\* raises, with or without the broker having taken the message.
RelaySend(r, taken, raised) ==
    /\ relay[r].pc = "send"
    /\ taken \/ raised
    /\ relay' = [relay EXCEPT ![r].pc = IF raised THEN "raised" ELSE "sent"]
    /\ sent' = [sent EXCEPT ![Current(r)] = IF taken THEN Minimum(@ + 1, 2) ELSE @]
    /\ UNCHANGED <<event, stops, overdue>>

\* The rest of the batch once the current event is recorded.
Proceed(r) ==
    LET rest == relay[r].batch \ {Current(r)} IN
    IF rest = {} THEN Resting
    ELSE [relay[r] EXCEPT !.pc = "send", !.batch = rest]

\* Mutant: the row stays pending.
RelayMarkDispatched_KeepsPending(r) ==
    /\ relay[r].pc = "sent"
    /\ event' = [event EXCEPT ![Current(r)].lease = 0]
    /\ relay' = [relay EXCEPT ![r] = Proceed(r)]
    /\ UNCHANGED <<sent, stops, overdue>>

\* mark_dispatched.
RelayMarkDispatched(r) ==
    /\ relay[r].pc = "sent"
    /\ event' = [event EXCEPT ![Current(r)].status = "dispatched",
                              ![Current(r)].lease = 0]
    /\ relay' = [relay EXCEPT ![r] = Proceed(r)]
    /\ UNCHANGED <<sent, stops, overdue>>

AfterFailure(attempts) == IF attempts >= MaxAttempts THEN "failed" ELSE "pending"

\* mark_failed: the row's attempts decide the status, the attempts read at the
\* claim and the time of the claim decide when the row is available again.
RelayMarkFailed(r) ==
    LET e == Current(r) IN
    /\ relay[r].pc = "raised"
    /\ event' = [event EXCEPT ![e] =
            [status   |-> AfterFailure(event[e].attempts + 1),
             attempts |-> event[e].attempts + 1,
             wait     |-> Minus(RetryDelay(relay[r].attempts[e]), relay[r].age),
             lease    |-> 0]]
    /\ relay' = [relay EXCEPT ![r] = Proceed(r)]
    /\ UNCHANGED <<sent, stops, overdue>>

\* The process dies, or a database error leaves run_once by an exception that
\* the worker loop swallows: the rest of the batch stays leased.
RelayStops(r) ==
    /\ relay[r].pc # "idle"
    /\ stops < MaxStops
    /\ relay' = [relay EXCEPT ![r] = Resting]
    /\ stops' = stops + 1
    /\ UNCHANGED <<event, sent, overdue>>

\* One second passes.  No relay spends more than MaxBatchTime on a batch.
Tick ==
    /\ \A r \in Relays : relay[r].pc # "idle" => relay[r].age < MaxBatchTime
    /\ \/ \E e \in Events : event[e].wait > 0 \/ event[e].lease > 0
       \/ \E r \in Relays : relay[r].pc # "idle"
    /\ event' = [e \in Events |->
            [event[e] EXCEPT !.wait = Minus(@, 1), !.lease = Minus(@, 1)]]
    /\ relay' = [r \in Relays |->
            IF relay[r].pc = "idle" THEN relay[r] ELSE [relay[r] EXCEPT !.age = @ + 1]]
    /\ overdue' = overdue \cup
            UNION {relay[r].batch : r \in {q \in Relays : relay[q].age + 1 >= LeaseFor}}
    /\ UNCHANGED <<sent, stops>>

RelayStep(r) ==
    \/ RelayClaim(r)
    \/ \E taken, raised \in BOOLEAN : RelaySend(r, taken, raised)
    \/ RelayMarkDispatched(r)
    \/ RelayMarkFailed(r)

Next ==
    \/ \E e \in Events : Add(e)
    \/ \E r \in Relays : RelayStep(r) \/ RelayStops(r)
    \/ Tick

Spec == Init /\ [][Next]_vars

\* The worker loop polls for ever and finishes what it claimed; time passes.
FairSpec == Spec /\ WF_vars(Tick) /\ \A r \in Relays : WF_vars(RelayStep(r))

-----------------------------------------------------------------------------

\* The types of rows and relays; a relay is idle when its batch is empty.
TypeOK ==
    /\ event \in [Events -> EventRow]
    /\ relay \in [Relays -> RelayState]
    /\ sent \in [Events -> 0..2]
    /\ stops \in 0..MaxStops
    /\ overdue \subseteq Events
    /\ \A r \in Relays : relay[r].pc = "idle" <=> relay[r].batch = {}

\* An event leaves the outbox only by being delivered or by failing
\* max_attempts times: no crash, lost lease or late writer loses it.
NoSilentLoss ==
    \A e \in Events :
        /\ event[e].status = "dispatched" => sent[e] > 0
        /\ event[e].status = "failed" => event[e].attempts >= MaxAttempts

\* claim_pending keeps an event to one relay at a time.  Two relays have it in
\* hand only if its lease has once run out under a relay at work: run_once does
\* not look at the lease again, and the late relay's mark clears the lease of
\* its successor, so from then on any number of relays may have it.
LeaseExclusive ==
    \A r, q \in Relays : r # q => relay[r].batch \cap relay[q].batch \subseteq overdue

\* mark_dispatched and mark_failed check neither status nor lease.  They revise
\* a recorded outcome only for an event whose lease has once run out under a
\* relay at work.
OutcomeIsFinal ==
    [][\A e \in Events \ overdue :
        event[e].status \in {"dispatched", "failed"} => event'[e].status = event[e].status]_vars

\* Every event is resolved for good, whatever the broker answers, as long as
\* relays do not keep stopping half way.
EventuallyResolved ==
    \A e \in Events :
        event[e].status = "pending" ~> [](event[e].status \in {"dispatched", "failed"})

=============================================================================
