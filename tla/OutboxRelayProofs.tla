-------------------------- MODULE OutboxRelayProofs --------------------------
(***************************************************************************)
(* Proofs about OutboxRelay for any number of events and relays: nothing   *)
(* is lost however slow or unreliable relays are, and an event is in the   *)
(* hands of one relay until its lease runs out under a relay at work.      *)
(***************************************************************************)
EXTENDS OutboxRelay, WellFoundedInduction, TLAPS

\* A relay about to record a success has given the broker a message.
SentIsSent == \A r \in Relays : relay[r].pc = "sent" => sent[Current(r)] > 0

\* The inductive invariant behind NoSilentLoss.
LossInv == TypeOK /\ SentIsSent /\ NoSilentLoss

\* What a relay knows of an event whose lease has never run out at work: it is
\* pending, and its lease is the one the relay took, which still runs.
Holding ==
    \A r \in Relays : \A e \in relay[r].batch \ overdue :
        /\ event[e].status = "pending"
        /\ relay[r].age < LeaseFor
        /\ event[e].lease + relay[r].age >= LeaseFor

\* The inductive invariant behind LeaseExclusive.
LeaseInv == TypeOK /\ Holding /\ LeaseExclusive

-----------------------------------------------------------------------------

\* A batch that is not empty has an oldest event, the one being processed.
LEMMA CurrentInBatch ==
    ASSUME TypeOK, NEW r \in Relays, relay[r].batch # {}
    PROVE  Current(r) \in relay[r].batch /\ Current(r) \in Events
<1> DEFINE B == relay[r].batch
<1>1. B \subseteq Nat /\ B # {} /\ B \subseteq Events
  BY OutboxAssumption DEF TypeOK, RelayState
<1> DEFINE Less == OpToRel(<, Nat)
<1>a. IsWellFoundedOn(Less, Nat)
  BY NatLessThanWellFounded
<1>b. \A x, y \in Nat : x < y => <<x, y>> \in Less
  BY DEF OpToRel
<1> HIDE DEF Less, B
<1>2. PICK x \in B : \A y \in B : ~ (<<y, x>> \in Less)
  BY <1>1, <1>a, WFMin, Zenon
<1>3. ASSUME NEW y \in B PROVE x <= y
  <2>1. x \in Nat /\ y \in Nat
    BY <1>1
  <2>2. ~ (y < x)
    BY <1>2, <1>b, <2>1, Zenon
  <2>3. QED
    BY <2>1, <2>2
<1>4. QED
  BY <1>1, <1>3 DEF Current, B

\* What remains of a batch is a resting relay or a smaller batch.
LEMMA ProceedResult ==
    ASSUME TypeOK, NEW r \in Relays
    PROVE  /\ Proceed(r) \in RelayState
           /\ Proceed(r).batch = relay[r].batch \ {Current(r)}
           /\ Proceed(r).pc = "idle" <=> Proceed(r).batch = {}
           /\ Proceed(r).pc # "sent"
           /\ \/ Proceed(r).age = relay[r].age
              \/ Proceed(r).batch = {} /\ Proceed(r).age = 0
<1>1. relay[r] \in RelayState
  BY DEF TypeOK
<1>2. CASE relay[r].batch \ {Current(r)} = {}
  <2>1. Proceed(r) = Resting
    BY <1>2 DEF Proceed
  <2>2. QED
    BY <1>2, <2>1 DEF Resting, RelayState
<1>3. CASE relay[r].batch \ {Current(r)} # {}
  <2>1. Proceed(r) = [relay[r] EXCEPT !.pc = "send", !.batch = relay[r].batch \ {Current(r)}]
    BY <1>3 DEF Proceed
  <2> DEFINE rest == relay[r].batch \ {Current(r)}
  <2>2. rest \in SUBSET Events
    BY <1>1 DEF RelayState
  <2> HIDE DEF rest
  <2>3. Proceed(r) = [relay[r] EXCEPT !.pc = "send", !.batch = rest]
    BY <2>1 DEF rest
  <2>4. /\ Proceed(r) \in RelayState
        /\ Proceed(r).batch = rest /\ Proceed(r).pc = "send" /\ Proceed(r).age = relay[r].age
    BY <1>1, <2>2, <2>3 DEF RelayState
  <2>5. QED
    BY <1>3, <2>4 DEF rest
<1>4. QED
  BY <1>2, <1>3

\* The wait after a failure is a number of seconds.
LEMMA WaitType ==
    ASSUME NEW attempts \in Nat, NEW age \in Nat
    PROVE  Minus(RetryDelay(attempts), age) \in Nat
<1> DEFINE d == RetryDelay(attempts)
           m == Minimum(attempts + 1, MaxDelayExp)
<1>1. m \in Nat
  BY OutboxAssumption DEF Minimum
<1>a. d = 2 ^ m
  BY DEF RetryDelay
<1> HIDE DEF d, m
<1>2. d \in Int
  BY <1>1, <1>a, Z3
<1>3. Minus(d, age) \in Nat
  BY <1>2 DEF Minus
<1>4. QED
  BY <1>3 DEF d

\* Every step keeps the types.
LEMMA TypeStep == TypeOK /\ [Next]_vars => TypeOK'
<1> SUFFICES ASSUME TypeOK, [Next]_vars PROVE TypeOK'
  OBVIOUS
<1>0. Resting \in RelayState /\ Resting.pc = "idle" /\ Resting.batch = {}
  BY DEF Resting, RelayState
<1> USE OutboxAssumption
<1>1. ASSUME NEW e \in Events, Add(e) PROVE TypeOK'
  BY <1>1 DEF TypeOK, Add, EventRow
<1>2. ASSUME NEW r \in Relays, RelayClaim(r) PROVE TypeOK'
  <2> DEFINE batch == Oldest(Claimable, BatchSize)
             st == [pc |-> "send", batch |-> batch, age |-> 0,
                    attempts |-> [e \in Events |->
                        IF e \in batch THEN event[e].attempts ELSE 0]]
  <2>1. batch \in SUBSET Events
    BY DEF Oldest, Claimable
  <2> HIDE DEF batch
  <2>2. st \in RelayState /\ st.pc = "send" /\ st.batch = batch
    BY <2>1 DEF TypeOK, RelayState, EventRow
  <2> HIDE DEF st
  <2>3. relay' = [relay EXCEPT ![r] = st] /\ batch # {} /\ UNCHANGED <<sent, stops, overdue>>
    BY <1>2 DEF RelayClaim, st, batch
  <2>4. event' = [e \in Events |->
            IF e \in batch THEN [event[e] EXCEPT !.lease = LeaseFor] ELSE event[e]]
    BY <1>2 DEF RelayClaim, batch
  <2>5. event' \in [Events -> EventRow]
    BY <2>4 DEF TypeOK, EventRow
  <2>6. QED
    BY <2>2, <2>3, <2>5 DEF TypeOK
<1>3. ASSUME NEW r \in Relays, NEW taken \in BOOLEAN, NEW raised \in BOOLEAN,
             RelaySend(r, taken, raised)
      PROVE  TypeOK'
  <2>a. Current(r) \in Events
    BY <1>3, CurrentInBatch DEF TypeOK, RelaySend
  <2>b. \A n \in 0..2 : Minimum(n + 1, 2) \in 0..2
    BY DEF Minimum
  <2>1. sent' \in [Events -> 0..2]
    BY <1>3, <2>a, <2>b DEF TypeOK, RelaySend
  <2>2. relay' \in [Relays -> RelayState]
    <3>1. relay[r] \in RelayState
      BY DEF TypeOK
    <3>2. [relay[r] EXCEPT !.pc = IF raised THEN "raised" ELSE "sent"] \in RelayState
      BY <3>1 DEF RelayState
    <3>3. QED
      BY <1>3, <3>2 DEF TypeOK, RelaySend
  <2>3. \A q \in Relays : relay'[q].pc = "idle" <=> relay'[q].batch = {}
    BY <1>3 DEF TypeOK, RelaySend, RelayState
  <2>4. QED
    BY <1>3, <2>1, <2>2, <2>3 DEF TypeOK, RelaySend
<1>4. ASSUME NEW r \in Relays, RelayMarkDispatched(r) PROVE TypeOK'
  <2>1. event' \in [Events -> EventRow]
    <3> DEFINE k == Current(r)
               row == [event[k] EXCEPT !.status = "dispatched", !.lease = 0]
    <3>1. k \in Events
      BY <1>4, CurrentInBatch DEF TypeOK, RelayMarkDispatched
    <3>2. row \in EventRow
      <4>1. event[k] \in EventRow
        BY <3>1 DEF TypeOK
      <4> HIDE DEF k
      <4>2. QED
        BY <4>1 DEF EventRow
    <3>3. event' = [event EXCEPT ![k] = row]
      BY <1>4 DEF RelayMarkDispatched
    <3> HIDE DEF k, row
    <3>4. QED
      BY <3>1, <3>2, <3>3 DEF TypeOK
  <2>2. QED
    BY <1>4, <2>1, ProceedResult DEF TypeOK, RelayMarkDispatched
<1>5. ASSUME NEW r \in Relays, RelayMarkFailed(r) PROVE TypeOK'
  <2> DEFINE wait == Minus(RetryDelay(relay[r].attempts[Current(r)]), relay[r].age)
             status == AfterFailure(event[Current(r)].attempts + 1)
  <2>1. Current(r) \in Events
    BY <1>5, CurrentInBatch DEF TypeOK, RelayMarkFailed
  <2>2. wait \in Nat
    BY <2>1, WaitType DEF TypeOK, RelayState
  <2>3. status \in {"pending", "failed"}
    BY DEF AfterFailure
  <2> HIDE DEF wait, status
  <2>4. event' = [event EXCEPT ![Current(r)] =
                    [status |-> status, attempts |-> event[Current(r)].attempts + 1,
                     wait |-> wait, lease |-> 0]]
    BY <1>5 DEF RelayMarkFailed, wait, status
  <2>c. event[Current(r)].attempts \in Nat
    BY <2>1 DEF TypeOK, EventRow
  <2>d. [status |-> status, attempts |-> event[Current(r)].attempts + 1,
         wait |-> wait, lease |-> 0] \in EventRow
    BY <2>2, <2>3, <2>c DEF EventRow
  <2>5. event' \in [Events -> EventRow]
    BY <2>4, <2>d DEF TypeOK
  <2>6. QED
    BY <1>5, <2>5, ProceedResult DEF TypeOK, RelayMarkFailed
<1>6. ASSUME NEW r \in Relays, RelayStops(r) PROVE TypeOK'
  BY <1>0, <1>6 DEF TypeOK, RelayStops
<1>7. CASE Tick
  <2>a. \A n \in Nat : Minus(n, 1) \in Nat
    BY DEF Minus
  <2>1. event' \in [Events -> EventRow]
    BY <1>7, <2>a DEF TypeOK, Tick, EventRow
  <2>2. /\ relay' \in [Relays -> RelayState]
        /\ \A q \in Relays : relay'[q].pc = relay[q].pc /\ relay'[q].batch = relay[q].batch
    <3>1. ASSUME NEW q \in Relays
          PROVE  /\ relay'[q] \in RelayState
                 /\ relay'[q].pc = relay[q].pc /\ relay'[q].batch = relay[q].batch
      <4>1. relay[q] \in RelayState
        BY DEF TypeOK
      <4>2. CASE relay[q].pc = "idle"
        BY <1>7, <4>1, <4>2 DEF Tick
      <4>3. CASE relay[q].pc # "idle"
        <5>1. relay'[q] = [relay[q] EXCEPT !.age = relay[q].age + 1]
          BY <1>7, <4>3 DEF Tick
        <5>2. QED
          BY <4>1, <5>1 DEF RelayState
      <4>4. QED
        BY <4>2, <4>3
    <3>2. QED
      BY <1>7, <3>1 DEF Tick
  <2>3. \A q \in Relays : relay'[q].pc = "idle" <=> relay'[q].batch = {}
    BY <2>2 DEF TypeOK
  <2>4. overdue' \subseteq Events
    <3>1. \A q \in Relays : relay[q].batch \subseteq Events
      BY DEF TypeOK, RelayState
    <3>2. overdue' = overdue \cup
            UNION {relay[r].batch : r \in {q \in Relays : relay[q].age + 1 >= LeaseFor}}
      BY <1>7 DEF Tick
    <3>3. overdue \subseteq Events
      BY DEF TypeOK
    <3>4. QED
      BY <3>1, <3>2, <3>3, Zenon
  <2>5. QED
    BY <1>7, <2>1, <2>2, <2>3, <2>4 DEF TypeOK, Tick
<1>8. CASE UNCHANGED vars
  BY <1>8 DEF TypeOK, vars
<1>9. QED
  BY <1>1, <1>2, <1>3, <1>4, <1>5, <1>6, <1>7, <1>8 DEF Next, RelayStep

-----------------------------------------------------------------------------
(* Nothing is lost, whatever relays, broker and time do.                   *)

\* A step changes the event a relay works on only by working on it.
LEMMA CurrentUnchanged ==
    ASSUME NEW r \in Relays, relay'[r].batch = relay[r].batch
    PROVE  Current(r)' = Current(r)
BY DEF Current

\* Every step keeps LossInv.
LEMMA LossStep == LossInv /\ [Next]_vars => SentIsSent' /\ NoSilentLoss'
<1> SUFFICES ASSUME LossInv, [Next]_vars PROVE SentIsSent' /\ NoSilentLoss'
  OBVIOUS
<1>0. TypeOK /\ SentIsSent /\ NoSilentLoss
  BY DEF LossInv
<1>1. ASSUME NEW e \in Events, Add(e) PROVE SentIsSent' /\ NoSilentLoss'
  BY <1>0, <1>1 DEF Add, SentIsSent, NoSilentLoss, TypeOK, EventRow, Current
<1>2. ASSUME NEW r \in Relays, RelayClaim(r) PROVE SentIsSent' /\ NoSilentLoss'
  <2>1. \A e \in Events : event'[e].status = event[e].status /\ event'[e].attempts = event[e].attempts
    BY <1>0, <1>2 DEF RelayClaim, TypeOK, EventRow
  <2>2. relay'[r].pc = "send" /\ \A q \in Relays : q # r => relay'[q] = relay[q]
    BY <1>0, <1>2 DEF RelayClaim, TypeOK
  <2>3. SentIsSent'
    BY <1>0, <1>2, <2>2 DEF RelayClaim, SentIsSent, Current
  <2>4. QED
    BY <1>0, <1>2, <2>1, <2>3 DEF RelayClaim, NoSilentLoss
<1>3. ASSUME NEW r \in Relays, NEW taken \in BOOLEAN, NEW raised \in BOOLEAN,
             RelaySend(r, taken, raised)
      PROVE  SentIsSent' /\ NoSilentLoss'
  <2>1. Current(r) \in Events
    BY <1>0, <1>3, CurrentInBatch DEF TypeOK, RelaySend
  <2>2. \A n \in 0..2 : Minimum(n + 1, 2) > 0 /\ Minimum(n + 1, 2) >= n
    BY DEF Minimum
  <2>3. \A e \in Events : sent'[e] >= sent[e] /\ sent'[e] \in 0..2
    <3>1. TypeOK'
      BY <1>0, TypeStep
    <3>2. QED
      BY <1>0, <1>3, <2>1, <2>2, <3>1 DEF RelaySend, TypeOK
  <2>4. ~raised => sent'[Current(r)] > 0
    BY <1>0, <1>3, <2>1, <2>2 DEF RelaySend, TypeOK
  <2>5. \A q \in Relays : relay'[q].batch = relay[q].batch /\ Current(q)' = Current(q)
    BY <1>0, <1>3, CurrentUnchanged DEF RelaySend, TypeOK, RelayState
  <2>6. ASSUME NEW q \in Relays, relay'[q].pc = "sent" PROVE sent'[Current(q)] > 0
    <3>1. CASE q = r
      BY <1>0, <1>3, <2>4, <2>6, <3>1 DEF RelaySend, TypeOK, RelayState
    <3>2. CASE q # r
      <4>1. relay'[q] = relay[q]
        BY <1>0, <1>3, <3>2 DEF RelaySend, TypeOK
      <4>2. sent[Current(q)] > 0 /\ Current(q) \in Events
        BY <1>0, <2>6, <4>1, CurrentInBatch DEF SentIsSent, TypeOK
      <4>3. QED
        BY <1>0, <2>3, <4>2 DEF TypeOK
    <3>3. QED
      BY <3>1, <3>2
  <2>7. SentIsSent'
    BY <2>5, <2>6 DEF SentIsSent
  <2>8. NoSilentLoss'
    BY <1>0, <1>3, <2>3 DEF RelaySend, NoSilentLoss, TypeOK
  <2>9. QED
    BY <2>7, <2>8
<1>4. ASSUME NEW r \in Relays, RelayMarkDispatched(r) PROVE SentIsSent' /\ NoSilentLoss'
  <2>1. Current(r) \in Events /\ sent[Current(r)] > 0
    BY <1>0, <1>4, CurrentInBatch DEF TypeOK, RelayMarkDispatched, SentIsSent
  <2>2. relay'[r].pc # "sent" /\ \A q \in Relays : q # r => relay'[q] = relay[q]
    BY <1>0, <1>4, ProceedResult DEF RelayMarkDispatched, TypeOK
  <2>3. SentIsSent'
    BY <1>0, <1>4, <2>2 DEF RelayMarkDispatched, SentIsSent, Current
  <2>4. NoSilentLoss'
    BY <1>0, <1>4, <2>1 DEF RelayMarkDispatched, NoSilentLoss, TypeOK, EventRow
  <2>5. QED
    BY <2>3, <2>4
<1>5. ASSUME NEW r \in Relays, RelayMarkFailed(r) PROVE SentIsSent' /\ NoSilentLoss'
  <2>1. Current(r) \in Events
    BY <1>0, <1>5, CurrentInBatch DEF TypeOK, RelayMarkFailed
  <2>2. relay'[r].pc # "sent" /\ \A q \in Relays : q # r => relay'[q] = relay[q]
    BY <1>0, <1>5, ProceedResult DEF RelayMarkFailed, TypeOK
  <2>3. SentIsSent'
    BY <1>0, <1>5, <2>2 DEF RelayMarkFailed, SentIsSent, Current
  <2>4. NoSilentLoss'
    BY <1>0, <1>5, <2>1 DEF RelayMarkFailed, NoSilentLoss, TypeOK, AfterFailure
  <2>5. QED
    BY <2>3, <2>4
<1>6. ASSUME NEW r \in Relays, RelayStops(r) PROVE SentIsSent' /\ NoSilentLoss'
  BY <1>0, <1>6 DEF RelayStops, SentIsSent, NoSilentLoss, Current, Resting, TypeOK
<1>7. CASE Tick
  <2>1. \A e \in Events : event'[e].status = event[e].status /\ event'[e].attempts = event[e].attempts
    BY <1>0, <1>7 DEF Tick, TypeOK, EventRow
  <2>2. \A q \in Relays : relay'[q].pc = relay[q].pc /\ relay'[q].batch = relay[q].batch
    BY <1>0, <1>7 DEF Tick, TypeOK, RelayState
  <2>3. QED
    BY <1>0, <1>7, <2>1, <2>2 DEF Tick, SentIsSent, NoSilentLoss, Current
<1>8. CASE UNCHANGED vars
  BY <1>0, <1>8 DEF vars, SentIsSent, NoSilentLoss, Current
<1>9. QED
  BY <1>1, <1>2, <1>3, <1>4, <1>5, <1>6, <1>7, <1>8 DEF Next, RelayStep

\* The initial state is well typed.
LEMMA InitType == Init => TypeOK
BY OutboxAssumption DEF Init, TypeOK, EventRow, RelayState, Resting

\* The rows and relays keep their types.
THEOREM TypeCorrect == Spec => []TypeOK
BY InitType, TypeStep, PTL DEF Spec

\* mark_dispatched and mark_failed: an event is recorded as dispatched only
\* when the broker took a message for it, and as failed only after
\* max_attempts failures - for any number of relays, slow or crashing.
THEOREM NothingIsLost == Spec => []NoSilentLoss
<1>1. Init => LossInv
  BY InitType DEF Init, LossInv, SentIsSent, NoSilentLoss, Resting
<1>2. LossInv /\ [Next]_vars => LossInv'
  BY TypeStep, LossStep DEF LossInv
<1>3. LossInv => NoSilentLoss
  BY DEF LossInv
<1>4. QED
  BY <1>1, <1>2, <1>3, PTL DEF Spec

-----------------------------------------------------------------------------
(* The lease is exclusive until it runs out under a relay at work.         *)

\* An event is not claimed while a relay within its lease holds it.
LEMMA HeldIsNotClaimable ==
    ASSUME LeaseInv, NEW q \in Relays, NEW e \in relay[q].batch \ overdue
    PROVE  e \in Events /\ e \notin Oldest(Claimable, BatchSize)
<1>1. e \in Events /\ event[e].lease \in Nat /\ relay[q].age \in Nat
  BY DEF LeaseInv, TypeOK, EventRow, RelayState
<1>2. event[e].lease # 0
  BY <1>1, OutboxAssumption DEF LeaseInv, Holding
<1>3. QED
  BY <1>1, <1>2 DEF Oldest, Claimable

\* A relay that records an outcome touches no event that another relay holds
\* within its lease, and keeps only events it held.
LEMMA RecordStep ==
    ASSUME LeaseInv, NEW r \in Relays, relay[r].batch # {}, NEW row,
           event' = [event EXCEPT ![Current(r)] = row],
           relay' = [relay EXCEPT ![r] = Proceed(r)],
           overdue' = overdue
    PROVE  Holding' /\ LeaseExclusive'
<1>0. TypeOK /\ Holding /\ LeaseExclusive
  BY DEF LeaseInv
<1>1. Current(r) \in relay[r].batch /\ Current(r) \in Events
  BY <1>0, CurrentInBatch
<1>2. /\ relay'[r].batch = relay[r].batch \ {Current(r)}
      /\ relay'[r].age = relay[r].age \/ relay'[r].batch = {}
      /\ \A q \in Relays : q # r => relay'[q] = relay[q]
  BY <1>0, ProceedResult DEF TypeOK
<1>3. \A e \in Events : e # Current(r) => event'[e] = event[e]
  BY <1>0 DEF TypeOK
<1>4. \A q \in Relays : Current(r) \notin relay'[q].batch \ overdue
  BY <1>0, <1>1, <1>2 DEF LeaseExclusive
<1>5. \A q \in Relays : relay'[q].batch \subseteq relay[q].batch /\ relay[q].batch \subseteq Events
  BY <1>0, <1>2 DEF TypeOK, RelayState
<1>6. LeaseExclusive'
  BY <1>0, <1>5 DEF LeaseExclusive
<1>7. ASSUME NEW q \in Relays, NEW e \in relay'[q].batch \ overdue
      PROVE  /\ event'[e].status = "pending"
             /\ relay'[q].age < LeaseFor
             /\ event'[e].lease + relay'[q].age >= LeaseFor
  <2>1. event'[e] = event[e] /\ e \in relay[q].batch /\ relay'[q].age = relay[q].age
    BY <1>2, <1>3, <1>4, <1>5
  <2>2. QED
    BY <1>0, <2>1 DEF Holding
<1>8. QED
  BY <1>6, <1>7 DEF Holding

\* Every step keeps LeaseInv.
LEMMA LeaseStep ==
    ASSUME LeaseInv, [Next]_vars
    PROVE  Holding' /\ LeaseExclusive'
<1>0. TypeOK /\ Holding /\ LeaseExclusive
  BY DEF LeaseInv
<1>b. \A q \in Relays : relay[q] \in RelayState /\ relay[q].batch \subseteq Events
  BY <1>0 DEF TypeOK, RelayState
<1>1. ASSUME NEW e \in Events, Add(e) PROVE Holding' /\ LeaseExclusive'
  <2>1. \A f \in Events : /\ event'[f].lease = event[f].lease
                          /\ event'[f].status = event[f].status \/ event'[f].status = "pending"
    BY <1>0, <1>1 DEF Add, TypeOK, EventRow
  <2>2. Holding'
    BY <1>0, <1>1, <1>b, <2>1 DEF Add, Holding
  <2>3. QED
    BY <1>0, <1>1, <2>2 DEF Add, LeaseExclusive
<1>2. ASSUME NEW r \in Relays, RelayClaim(r) PROVE Holding' /\ LeaseExclusive'
  <2> DEFINE batch == Oldest(Claimable, BatchSize)
  <2>1. \A q \in Relays : \A e \in relay[q].batch \ overdue : e \in Events /\ e \notin batch
    BY HeldIsNotClaimable
  <2>2. \A e \in batch : e \in Events /\ event[e].status = "pending"
    BY DEF Oldest, Claimable
  <2> HIDE DEF batch
  <2>3. event' = [e \in Events |->
            IF e \in batch THEN [event[e] EXCEPT !.lease = LeaseFor] ELSE event[e]]
    BY <1>2 DEF RelayClaim, batch
  <2>4. /\ relay'[r].batch = batch /\ relay'[r].age = 0
        /\ \A q \in Relays : q # r => relay'[q] = relay[q]
        /\ overdue' = overdue
    BY <1>0, <1>2 DEF RelayClaim, TypeOK, batch
  <2>5. \A e \in batch : event'[e].lease = LeaseFor /\ event'[e].status = "pending"
    BY <1>0, <2>2, <2>3 DEF TypeOK, EventRow
  <2>6. \A q \in Relays : \A e \in relay[q].batch \ overdue : event'[e] = event[e]
    BY <2>1, <2>3
  <2>7. ASSUME NEW q \in Relays, NEW e \in relay'[q].batch \ overdue
        PROVE  /\ event'[e].status = "pending"
               /\ relay'[q].age < LeaseFor
               /\ event'[e].lease + relay'[q].age >= LeaseFor
    <3>1. CASE q = r
      BY <2>4, <2>5, <3>1, OutboxAssumption
    <3>2. CASE q # r
      BY <1>0, <2>4, <2>6, <3>2 DEF Holding
    <3>3. QED
      BY <3>1, <3>2
  <2>8. LeaseExclusive'
    BY <1>0, <2>1, <2>4 DEF LeaseExclusive
  <2>9. QED
    BY <2>4, <2>7, <2>8 DEF Holding
<1>3. ASSUME NEW r \in Relays, NEW taken \in BOOLEAN, NEW raised \in BOOLEAN,
             RelaySend(r, taken, raised)
      PROVE  Holding' /\ LeaseExclusive'
  <2>1. \A q \in Relays : relay'[q].batch = relay[q].batch /\ relay'[q].age = relay[q].age
    BY <1>0, <1>3 DEF RelaySend, TypeOK, RelayState
  <2>2. event' = event /\ overdue' = overdue
    BY <1>3 DEF RelaySend
  <2>3. QED
    BY <1>0, <2>1, <2>2 DEF Holding, LeaseExclusive
<1>4. ASSUME NEW r \in Relays, RelayMarkDispatched(r) PROVE Holding' /\ LeaseExclusive'
  <2> DEFINE row == [event[Current(r)] EXCEPT !.status = "dispatched", !.lease = 0]
  <2>1. relay[r].batch # {}
    BY <1>0, <1>4 DEF RelayMarkDispatched, TypeOK
  <2>2. Current(r) \in Events
    BY <1>0, <2>1, CurrentInBatch
  <2>3. event' = [event EXCEPT ![Current(r)] = row]
    BY <1>0, <1>4, <2>2 DEF RelayMarkDispatched, TypeOK, EventRow
  <2>4. QED
    BY <1>4, <2>1, <2>3, RecordStep DEF RelayMarkDispatched
<1>5. ASSUME NEW r \in Relays, RelayMarkFailed(r) PROVE Holding' /\ LeaseExclusive'
  BY <1>0, <1>5, RecordStep DEF RelayMarkFailed, TypeOK
<1>6. ASSUME NEW r \in Relays, RelayStops(r) PROVE Holding' /\ LeaseExclusive'
  <2>1. \A q \in Relays : relay'[q] = relay[q] \/ relay'[q].batch = {}
    BY <1>0, <1>6 DEF RelayStops, Resting, TypeOK
  <2>2. Holding'
    BY <1>0, <1>6, <2>1 DEF Holding, RelayStops
  <2>3. QED
    BY <1>0, <1>6, <2>1, <2>2 DEF LeaseExclusive, RelayStops
<1>7. CASE Tick
  <2>1. \A q \in Relays :
            /\ relay'[q].batch = relay[q].batch
            /\ relay[q].batch # {} => relay'[q].age = relay[q].age + 1
    BY <1>0, <1>7 DEF Tick, TypeOK, RelayState
  <2>2. \A e \in Events : event'[e].status = event[e].status
                          /\ event'[e].lease = Minus(event[e].lease, 1)
    BY <1>0, <1>7 DEF Tick, TypeOK, EventRow
  <2>a. \A n \in Nat : Minus(n, 1) \in Nat /\ Minus(n, 1) + 1 >= n
    BY DEF Minus
  <2>b. /\ overdue \subseteq overdue'
        /\ \A q \in Relays : relay[q].age + 1 >= LeaseFor => relay[q].batch \subseteq overdue'
    BY <1>7 DEF Tick
  <2>3. ASSUME NEW q \in Relays, NEW e \in relay'[q].batch \ overdue'
        PROVE  /\ event'[e].status = "pending"
               /\ relay'[q].age < LeaseFor
               /\ event'[e].lease + relay'[q].age >= LeaseFor
    <3>1. relay[q].age \in Nat /\ \A f \in Events : event[f].lease \in Nat
      BY <1>0 DEF TypeOK, RelayState, EventRow
    <3>2. e \in relay[q].batch \ overdue /\ e \in Events
      BY <1>b, <2>1, <2>b
    <3>3. event[e].status = "pending" /\ event[e].lease + relay[q].age >= LeaseFor
      BY <1>0, <3>2 DEF Holding
    <3>4. relay'[q].age = relay[q].age + 1
      BY <2>1, <3>2
    <3>5. relay'[q].age < LeaseFor
      BY <2>1, <2>b, <3>1, <3>4, OutboxAssumption
    <3>6. event'[e].lease \in Nat /\ event'[e].lease + 1 >= event[e].lease
      BY <2>2, <2>a, <3>1, <3>2
    <3>7. event'[e].lease + relay'[q].age >= LeaseFor
      BY <3>1, <3>2, <3>3, <3>4, <3>6, OutboxAssumption
    <3>8. QED
      BY <2>2, <3>2, <3>3, <3>5, <3>7
  <2>4. QED
    BY <1>0, <2>1, <2>3, <2>b DEF Holding, LeaseExclusive
<1>8. CASE UNCHANGED vars
  BY <1>0, <1>8 DEF vars, Holding, LeaseExclusive
<1>9. QED
  BY <1>1, <1>2, <1>3, <1>4, <1>5, <1>6, <1>7, <1>8 DEF Next, RelayStep

\* A relay within its lease records an outcome only for a pending event.
LEMMA FinalStep ==
    ASSUME LeaseInv, [Next]_vars, NEW e \in Events \ overdue,
           event[e].status \in {"dispatched", "failed"}
    PROVE  event'[e].status = event[e].status
<1>0. TypeOK /\ Holding
  BY DEF LeaseInv
<1>1. \A r \in Relays : relay[r].batch # {} => Current(r) # e
  BY <1>0, CurrentInBatch DEF Holding
<1>2. ASSUME NEW f \in Events, Add(f) PROVE event'[e].status = event[e].status
  BY <1>0, <1>2 DEF Add, TypeOK, EventRow
<1>3. ASSUME NEW r \in Relays, RelayClaim(r) PROVE event'[e].status = event[e].status
  BY <1>0, <1>3 DEF RelayClaim, TypeOK, EventRow
<1>4. ASSUME NEW r \in Relays, RelayMarkDispatched(r) PROVE event'[e].status = event[e].status
  BY <1>0, <1>1, <1>4 DEF RelayMarkDispatched, TypeOK
<1>5. ASSUME NEW r \in Relays, RelayMarkFailed(r) PROVE event'[e].status = event[e].status
  BY <1>0, <1>1, <1>5 DEF RelayMarkFailed, TypeOK
<1>6. CASE Tick
  BY <1>0, <1>6 DEF Tick, TypeOK, EventRow
<1>7. CASE event' = event
  BY <1>7
<1>8. QED
  BY <1>2, <1>3, <1>4, <1>5, <1>6, <1>7
     DEF Next, RelayStep, RelaySend, RelayStops, vars

\* LeaseInv is inductive, however slow relays are.
LEMMA LeaseInvariance == Spec => []LeaseInv
<1>1. Init => LeaseInv
  BY InitType DEF Init, LeaseInv, Holding, LeaseExclusive, Resting
<1>2. LeaseInv /\ [Next]_vars => LeaseInv'
  BY TypeStep, LeaseStep DEF LeaseInv
<1>3. QED
  BY <1>1, <1>2, PTL DEF Spec

\* claim_pending: two relays have an event in hand only if its lease once ran
\* out under a relay at work, for any lease and any time a batch takes.
THEOREM LeaseIsExclusive == Spec => []LeaseExclusive
<1>1. LeaseInv => LeaseExclusive
  BY DEF LeaseInv
<1>2. QED
  BY <1>1, LeaseInvariance, PTL

\* mark_dispatched and mark_failed do not look at the row they overwrite; only
\* for an event whose lease once ran out at work do they revise an outcome.
THEOREM OutcomesAreFinal == Spec => OutcomeIsFinal
<1>1. LeaseInv /\ [Next]_vars =>
        [\A e \in Events \ overdue : event[e].status \in {"dispatched", "failed"}
                             => event'[e].status = event[e].status]_vars
  BY FinalStep
<1>2. QED
  BY <1>1, LeaseInvariance, PTL DEF Spec, OutcomeIsFinal

=============================================================================
