------------------------- MODULE AgentCommandsProofs -------------------------
(***************************************************************************)
(* Proofs about AgentCommands, for any number of commands, any timing and  *)
(* any number of losses and restarts.                                      *)
(***************************************************************************)
EXTENDS AgentCommands, TLAPS

USE CommandAssumption DEF Commands

\* The types of the controller's tables.
TablesOK ==
    /\ issued \in 0 .. MaxCommands
    /\ status \in [Commands -> {"absent", "pending", "leased", "acknowledged"}]
    /\ ttl \in [Commands -> 0 .. TTL]
    /\ lease \in [Commands -> -1 .. Lease]
    /\ mismatched \subseteq Commands
    /\ newest \in 0 .. MaxCommands

\* The types of what the agent's loop works on; a pause between two attempts
\* comes before the last attempt, which makes the counters' types inductive.
LoopOK ==
    /\ pc \in Waiting \cup {"sleep", "backoff", "nestedBackoff", "dead"}
    /\ timer \in Nat
    /\ snapshot \in 0 .. MaxCommands
    /\ attempt \in 1 .. MaxAttempts
    /\ batch \subseteq Commands
    /\ cur \in 0 .. MaxCommands
    /\ inner \in 0 .. MaxCommands
    /\ tries \in 1 .. MaxAttempts
    /\ wire \in {"none", "request", "answer", "refused"}
    /\ reply \subseteq Commands
    /\ pc \in {"refresh", "nestedBackoff", "ack"} => cur \in Commands
    /\ pc = "backoff" => attempt < MaxAttempts
    /\ pc = "nestedBackoff" => tries < MaxAttempts
    /\ wire = "request" => pc \in Waiting

OthersOK ==
    /\ handled \subseteq Commands
    /\ late \subseteq Request
    /\ faults \in 0 .. MaxFaults
    /\ restarts \in 0 .. MaxRestarts

Typed == TablesOK /\ LoopOK /\ OthersOK

LEMMA TypedIsTypeOK == Typed => TypeOK
  BY DEF Typed, TablesOK, LoopOK, OthersOK, TypeOK

LEMMA ClaimedAreCommands == Claimed \subseteq Commands
  BY DEF Claimed, Claimable

LEMMA HeartbeatTyped ==
  ASSUME TablesOK
  PROVE  \A snap \in 0 .. MaxCommands : ReceiveHeartbeat(snap) => TablesOK'
  BY DEF TablesOK, ReceiveHeartbeat

LEMMA AcknowledgeTyped ==
  ASSUME TablesOK
  PROVE  \A c \in Commands : Acknowledge(c) => TablesOK'
  <1> SUFFICES ASSUME NEW c \in Commands, Acknowledge(c)
               PROVE  TablesOK'
    OBVIOUS
  <1>1. -1 \in -1 .. Lease
    OBVIOUS
  <1>2. CASE /\ status' = [status EXCEPT ![c] = "acknowledged"]
             /\ lease' = [lease EXCEPT ![c] = -1]
    BY <1>1, <1>2 DEF TablesOK, Acknowledge
  <1>3. CASE UNCHANGED <<status, lease>>
    BY <1>3 DEF TablesOK, Acknowledge
  <1> QED
    BY <1>2, <1>3 DEF Acknowledge

LEMMA HandleTyped ==
  ASSUME Typed
  PROVE  \A c \in Commands :
            Handle(c) /\ batch' \subseteq Commands /\ UNCHANGED outer => LoopOK'
  <1> SUFFICES ASSUME NEW c \in Commands,
                      Handle(c), batch' \subseteq Commands, UNCHANGED outer
               PROVE  LoopOK'
    OBVIOUS
  <1>1. CASE inner' = 0 /\ Pause("dead", 0)
    BY <1>1 DEF Typed, LoopOK, Handle, Pause, Waiting, outer
  <1>2. CASE inner' = 0 /\ Send("ack")
    BY <1>2 DEF Typed, LoopOK, Handle, Send, Waiting, outer
  <1>3. CASE inner' = issued /\ Send("refresh")
    BY <1>3 DEF Typed, TablesOK, LoopOK, Handle, Send, Waiting, outer
  <1> QED
    BY <1>1, <1>2, <1>3 DEF Handle

LEMMA RestTyped == \A ticks \in Nat : Rest(ticks) => LoopOK'
  BY DEF LoopOK, Rest, Pause, Waiting

LEMMA WorkOffTyped ==
  ASSUME Typed
  PROVE  \A left \in SUBSET Commands : WorkOff(left) => LoopOK'
  <1> TAKE left \in SUBSET Commands
  <1>1. CASE left = {} /\ Rest(Interval)
    BY <1>1, RestTyped
  <1>2. ASSUME NEW c \in left,
               batch' = left \ {c}, Handle(c), UNCHANGED outer
        PROVE  LoopOK'
    <2>1. batch' \subseteq Commands /\ c \in Commands
      BY <1>2
    <2> QED
      BY <1>2, <2>1, HandleTyped
  <1> QED
    BY <1>1, <1>2 DEF WorkOff

LEMMA RaiseTyped ==
  ASSUME Typed, Raise
  PROVE  LoopOK'
  <1>1. CASE /\ pc = "refresh" /\ tries < MaxAttempts
             /\ \E d \in 0 .. Backoff : Pause("nestedBackoff", d)
             /\ UNCHANGED <<outer, batch, cur, nested>>
    BY <1>1 DEF Typed, LoopOK, Pause, Waiting, outer, nested
  <1>2. CASE RetryBeat
    <2>1. CASE attempt = MaxAttempts /\ Rest(Interval)
      BY <2>1, RestTyped
    <2>2. CASE /\ attempt < MaxAttempts
               /\ \E d \in 0 .. Backoff : Pause("backoff", d)
               /\ batch' = {} /\ cur' = 0
               /\ inner' = 0 /\ tries' = 1
               /\ UNCHANGED outer
      BY <2>2 DEF Typed, LoopOK, Pause, Waiting, outer
    <2> QED
      BY <1>2, <2>1, <2>2 DEF RetryBeat
  <1> QED
    BY <1>1, <1>2 DEF Raise

LEMMA AbandonTyped ==
  ASSUME Typed, Abandon
  PROVE  late' \subseteq Request
  <1>1. wire = "request" => Outstanding \in Request
    BY DEF Typed, LoopOK, Outstanding, Request, Waiting
  <1> QED
    BY <1>1 DEF Typed, OthersOK, Abandon

LEMMA NextTyped ==
  ASSUME Typed, [Next]_vars
  PROVE  Typed'
  <1>1. CASE \E verifiable \in BOOLEAN : Issue(verifiable)
    <2>1. TablesOK'
      BY <1>1 DEF Issue, Typed, TablesOK
    <2> QED
      BY <1>1, <2>1 DEF Issue, Typed, LoopOK, OthersOK, outer, nested, bounds
  <1>2. CASE ServeHeartbeat
    <2>1. TablesOK'
      BY <1>2, HeartbeatTyped DEF ServeHeartbeat, Typed, LoopOK
    <2>2. LoopOK'
      BY <1>2, ClaimedAreCommands DEF ServeHeartbeat, Typed, LoopOK, outer, nested, Waiting
    <2> QED
      BY <1>2, <2>1, <2>2 DEF ServeHeartbeat, Typed, OthersOK, bounds
  <1>3. CASE ServeAck
    <2>1. TablesOK'
      BY <1>3, AcknowledgeTyped DEF ServeAck, Typed, LoopOK
    <2>2. LoopOK'
      BY <1>3 DEF ServeAck, Typed, LoopOK, outer, nested, Waiting
    <2> QED
      BY <1>3, <2>1, <2>2 DEF ServeAck, Typed, OthersOK, bounds
  <1>4. ASSUME NEW r \in late, ServeLate(r) PROVE Typed'
    <2>1. r \in Request
      BY DEF Typed, OthersOK
    <2>2. TablesOK'
      BY <1>4, <2>1, HeartbeatTyped, AcknowledgeTyped DEF ServeLate, Typed, Request
    <2> QED
      BY <1>4, <2>2 DEF ServeLate, Typed, LoopOK, OthersOK, outer, nested, bounds
  <1>5. CASE Wake
    <2>1. LoopOK'
      BY <1>5 DEF Wake, Send, Typed, TablesOK, LoopOK, Waiting, nested
    <2> QED
      BY <1>5, <2>1 DEF Wake, Typed, TablesOK, OthersOK, rows, bounds
  <1>6. CASE GetCommands
    <2>1. LoopOK'
      BY <1>6, WorkOffTyped DEF GetCommands, Typed, LoopOK
    <2> QED
      BY <1>6, <2>1 DEF GetCommands, Typed, TablesOK, OthersOK, rows, bounds
  <1>7. CASE GetRefreshed
    <2>1. LoopOK'
      BY <1>7 DEF GetRefreshed, Send, Typed, LoopOK, Waiting, outer
    <2> QED
      BY <1>7, <2>1 DEF GetRefreshed, Typed, TablesOK, LoopOK, OthersOK, rows, bounds
  <1>8. CASE GetAcknowledged
    <2>1. LoopOK'
      BY <1>8, WorkOffTyped DEF GetAcknowledged, Typed, LoopOK
    <2> QED
      BY <1>8, <2>1 DEF GetAcknowledged, Typed, TablesOK, OthersOK, rows, bounds
  <1>9. CASE Refused
    BY <1>9, RaiseTyped DEF Refused, Typed, TablesOK, OthersOK, rows, bounds
  <1>10. CASE Lose
    <2>1. LoopOK' /\ late' \subseteq Request
      BY <1>10, RaiseTyped, AbandonTyped DEF Lose
    <2> QED
      BY <1>10, <2>1 DEF Lose, Typed, TablesOK, OthersOK, rows
  <1>11. CASE Resume
    <2>1. LoopOK'
      BY <1>11 DEF Resume, Send, Typed, LoopOK, Waiting, nested
    <2> QED
      BY <1>11, <2>1 DEF Resume, Typed, TablesOK, OthersOK, rows, bounds
  <1>12. CASE ResumeNested
    <2>1. LoopOK'
      BY <1>12 DEF ResumeNested, Send, Typed, LoopOK, Waiting, outer
    <2> QED
      BY <1>12, <2>1 DEF ResumeNested, Typed, TablesOK, OthersOK, rows, bounds
  <1>13. CASE Restart
    BY <1>13, RestTyped, AbandonTyped DEF Restart, Typed, TablesOK, OthersOK, rows
  <1>14. CASE Tick
    <2>1. TablesOK'
      <3>1. ttl' \in [Commands -> 0 .. TTL]
        BY <1>14 DEF Tick, Typed, TablesOK
      <3>2. lease' \in [Commands -> -1 .. Lease]
        BY <1>14 DEF Tick, Typed, TablesOK
      <3> QED
        BY <1>14, <3>1, <3>2 DEF Tick, Typed, TablesOK
    <2>2. LoopOK'
      BY <1>14 DEF Tick, Typed, LoopOK, outer, nested
    <2> QED
      BY <1>14, <2>1, <2>2 DEF Tick, Typed, OthersOK, bounds
  <1>15. CASE UNCHANGED vars
    BY <1>15 DEF vars, Typed, TablesOK, LoopOK, OthersOK
  <1> QED
    BY <1>1, <1>2, <1>3, <1>4, <1>5, <1>6, <1>7, <1>8, <1>9, <1>10, <1>11, <1>12,
       <1>13, <1>14, <1>15 DEF Next

LEMMA AlwaysTyped == Spec => []Typed
  <1>1. Init => Typed
    BY DEF Init, Typed, TablesOK, LoopOK, OthersOK, Waiting, Request
  <1> QED
    BY <1>1, NextTyped, PTL DEF Spec

\* The controller's rows and the agent's local state keep their types, and no
\* more than MaxAttempts attempts are made.
THEOREM TypeCorrect == Spec => []TypeOK
  BY AlwaysTyped, TypedIsTypeOK, PTL

-----------------------------------------------------------------------------
(* Acknowledged commands were refreshed.                                   *)

\* Only issued commands have a row, and only rows reach the agent.
IssuedOnly ==
    /\ \A c \in Commands : status[c] # "absent" => c <= issued
    /\ \A c \in reply \cup batch : c <= issued

\* Where a snapshot newer than the issue of a command is known to exist: in the
\* nested heartbeat, then, once that was answered, in the controller's tables,
\* before handled or an acknowledgement on any wire can name the command.
Evidence ==
    /\ pc \in {"refresh", "nestedBackoff"} => cur <= inner
    /\ pc = "refresh" /\ wire = "answer" => inner <= newest
    /\ \A c \in handled : c <= newest
    /\ pc = "ack" => cur <= newest
    /\ \A r \in late : r.kind = "ack" => r.body <= newest
    /\ AckedIsRefreshed

Refreshed == Typed /\ IssuedOnly /\ Evidence

\* A heartbeat keeps or raises the newest snapshot and leaves every
\* acknowledged row alone.
LEMMA HeartbeatKeeps ==
  ASSUME Typed, IssuedOnly
  PROVE  \A snap \in 0 .. MaxCommands : ReceiveHeartbeat(snap) =>
            /\ newest <= newest' /\ snap <= newest'
            /\ issued' = issued
            /\ \A c \in Commands : (status'[c] = "acknowledged") <=> (status[c] = "acknowledged")
            /\ \A c \in Commands : status'[c] # "absent" => c <= issued
            /\ \A c \in Claimed : c <= issued
  BY DEF Typed, TablesOK, IssuedOnly, ReceiveHeartbeat, Claimed, Claimable

LEMMA AcknowledgeKeeps ==
  ASSUME Typed, IssuedOnly
  PROVE  \A d \in Commands : Acknowledge(d) =>
            /\ newest' = newest /\ issued' = issued
            /\ \A c \in Commands : status[c] = "acknowledged" => status'[c] = "acknowledged"
            /\ \A c \in Commands : status'[c] = "acknowledged" =>
                   c = d \/ status[c] = "acknowledged"
            /\ \A c \in Commands : status'[c] # "absent" => c <= issued
  <1> SUFFICES ASSUME NEW d \in Commands, Acknowledge(d)
               PROVE  /\ newest' = newest /\ issued' = issued
                      /\ \A c \in Commands :
                            /\ status[c] = "acknowledged" => status'[c] = "acknowledged"
                            /\ status'[c] = "acknowledged" => c = d \/ status[c] = "acknowledged"
                            /\ status'[c] # "absent" => c <= issued
    OBVIOUS
  <1>1. CASE Accepts(d) /\ status' = [status EXCEPT ![d] = "acknowledged"]
    <2>1. status[d] # "absent"
      BY <1>1 DEF Accepts
    <2> QED
      BY <1>1, <2>1 DEF Typed, TablesOK, IssuedOnly, Acknowledge
  <1>2. CASE UNCHANGED status
    BY <1>2 DEF IssuedOnly, Acknowledge
  <1> QED
    BY <1>1, <1>2 DEF Acknowledge

\* Going on to the next command: it was issued before the snapshot its nested
\* heartbeat will send, or it is in handled.
LEMMA WorkOffKeeps ==
  ASSUME Typed
  PROVE  \A left \in SUBSET Commands :
            (\A c \in left : c <= issued) /\ WorkOff(left) =>
               /\ reply' = {} /\ batch' \subseteq left
               /\ pc' # "nestedBackoff"
               /\ pc' = "refresh" => /\ wire' = "request"
                                     /\ cur' <= inner'
                                     /\ cur' \notin handled
               /\ pc' = "ack" => cur' \in handled
  <1> SUFFICES ASSUME NEW left \in SUBSET Commands,
                      \A c \in left : c <= issued,
                      WorkOff(left)
               PROVE  /\ reply' = {} /\ batch' \subseteq left
                      /\ pc' # "nestedBackoff"
                      /\ pc' = "refresh" => /\ wire' = "request"
                                            /\ cur' <= inner'
                                            /\ cur' \notin handled
                      /\ pc' = "ack" => cur' \in handled
    OBVIOUS
  <1>1. CASE left = {} /\ Rest(Interval)
    BY <1>1 DEF Rest, Pause
  <1>2. ASSUME NEW c \in left, batch' = left \ {c}, Handle(c)
        PROVE  /\ reply' = {} /\ batch' \subseteq left
               /\ pc' # "nestedBackoff"
               /\ pc' = "refresh" => /\ wire' = "request"
                                     /\ cur' <= inner'
                                     /\ cur' \notin handled
               /\ pc' = "ack" => cur' \in handled
    <2>1. CASE Pause("dead", 0)
      BY <1>2, <2>1 DEF Pause
    <2>2. CASE c \in handled /\ Send("ack")
      BY <1>2, <2>2 DEF Handle, Send
    <2>3. CASE c \notin handled /\ inner' = issued /\ Send("refresh")
      BY <1>2, <2>3 DEF Handle, Send
    <2> QED
      BY <1>2, <2>1, <2>2, <2>3 DEF Handle
  <1> QED
    BY <1>1, <1>2 DEF WorkOff

\* A failed request leaves no answer and starts no request by itself.
LEMMA RaiseKeeps ==
  ASSUME Raise
  PROVE  /\ reply' = {} /\ batch' \subseteq batch
         /\ pc' \notin {"refresh", "ack"}
         /\ pc' = "nestedBackoff" => pc = "refresh" /\ cur' = cur /\ inner' = inner
  <1>1. CASE /\ pc = "refresh" /\ tries < MaxAttempts
             /\ \E d \in 0 .. Backoff : Pause("nestedBackoff", d)
             /\ UNCHANGED <<outer, batch, cur, nested>>
    BY <1>1 DEF Pause, nested
  <1>2. CASE RetryBeat
    BY <1>2 DEF RetryBeat, Rest, Pause
  <1> QED
    BY <1>1, <1>2 DEF Raise

\* An acknowledgement on its way is one the agent was waiting for.
LEMMA AbandonKeeps ==
  ASSUME Abandon
  PROVE  \A r \in late' : r.kind = "ack" => r \in late \/ (pc = "ack" /\ r.body = cur)
  BY DEF Abandon, Outstanding

LEMMA NextRefreshed ==
  ASSUME Refreshed, [Next]_vars
  PROVE  Refreshed'
  <1>0. Typed /\ Typed'
    BY NextTyped DEF Refreshed
  <1> SUFFICES IssuedOnly' /\ Evidence'
    BY <1>0 DEF Refreshed
  <1> USE DEF Refreshed
  <1>1. CASE \E verifiable \in BOOLEAN : Issue(verifiable)
    BY <1>0, <1>1 DEF Issue, Typed, TablesOK, LoopOK, IssuedOnly, Evidence, AckedIsRefreshed,
       nested
  <1>2. CASE ServeHeartbeat
    <2> DEFINE snap == IF pc = "beat" THEN snapshot ELSE inner
    <2>1. snap \in 0 .. MaxCommands
      BY DEF Typed, LoopOK
    <2>2. /\ newest <= newest' /\ snap <= newest'
          /\ issued' = issued
          /\ \A c \in Commands : (status'[c] = "acknowledged") <=> (status[c] = "acknowledged")
          /\ \A c \in Commands : status'[c] # "absent" => c <= issued
          /\ \A c \in Claimed : c <= issued
      BY <1>0, <1>2, <2>1, HeartbeatKeeps DEF ServeHeartbeat
    <2>3. IssuedOnly'
      BY <1>2, <2>2 DEF ServeHeartbeat, IssuedOnly
    <2>4. /\ pc' = pc /\ cur' = cur /\ inner' = inner
          /\ handled' = handled /\ late' = late
      BY <1>2 DEF ServeHeartbeat, nested
    <2>5. \A n \in 0 .. MaxCommands : n <= newest => n <= newest'
      BY <1>0, <2>2 DEF Typed, TablesOK
    <2>6. pc = "refresh" => inner <= newest'
      BY <2>2
    <2>7. \A r \in late : r.body \in 0 .. MaxCommands
      BY DEF Typed, OthersOK, Request
    <2>8. Evidence'
      BY <1>0, <2>2, <2>4, <2>5, <2>6, <2>7 DEF Evidence, AckedIsRefreshed, Typed, LoopOK, OthersOK
    <2> QED
      BY <2>3, <2>8
  <1>3. CASE ServeAck
    <2>1. cur \in Commands /\ cur <= newest
      BY <1>3 DEF ServeAck, Typed, LoopOK, Evidence
    <2>2. /\ newest' = newest /\ issued' = issued
          /\ \A c \in Commands : status'[c] = "acknowledged" =>
                 c = cur \/ status[c] = "acknowledged"
          /\ \A c \in Commands : status'[c] # "absent" => c <= issued
      BY <1>0, <1>3, <2>1, AcknowledgeKeeps DEF ServeAck
    <2> QED
      BY <1>3, <2>1, <2>2 DEF ServeAck, IssuedOnly, Evidence, AckedIsRefreshed, nested
  <1>4. ASSUME NEW r \in late, ServeLate(r) PROVE IssuedOnly' /\ Evidence'
    <2>0. r \in Request
      BY DEF Typed, OthersOK
    <2>1. CASE r.kind = "heartbeat"
      <3>1. /\ newest <= newest'
            /\ issued' = issued
            /\ \A c \in Commands : (status'[c] = "acknowledged") <=> (status[c] = "acknowledged")
            /\ \A c \in Commands : status'[c] # "absent" => c <= issued
        BY <1>0, <1>4, <2>0, <2>1, HeartbeatKeeps DEF ServeLate, Request
      <3>2. \A n \in 0 .. MaxCommands : n <= newest => n <= newest'
        BY <1>0, <3>1 DEF Typed, TablesOK
      <3>3. late' \subseteq late /\ UNCHANGED <<pc, wire, cur, inner, handled, batch, reply>>
        BY <1>4 DEF ServeLate, nested
      <3>4. IssuedOnly'
        BY <3>1, <3>3 DEF IssuedOnly
      <3>5. \A q \in late' : q.kind = "ack" => q.body <= newest'
        BY <3>2, <3>3 DEF Evidence, Typed, OthersOK, Request
      <3>6. /\ pc = "refresh" /\ wire = "answer" => inner <= newest'
            /\ \A c \in handled : c <= newest'
            /\ pc = "ack" => cur <= newest'
        BY <3>2 DEF Evidence, Typed, LoopOK, OthersOK
      <3>7. AckedIsRefreshed'
        BY <3>1, <3>2 DEF Evidence, AckedIsRefreshed
      <3> QED
        BY <3>3, <3>4, <3>5, <3>6, <3>7 DEF Evidence
    <2>2. CASE r.kind = "ack"
      <3>1. r.body \in Commands /\ r.body <= newest
        BY <2>0, <2>2 DEF Request, Evidence
      <3>2. /\ newest' = newest /\ issued' = issued
            /\ \A c \in Commands : status'[c] = "acknowledged" =>
                   c = r.body \/ status[c] = "acknowledged"
            /\ \A c \in Commands : status'[c] # "absent" => c <= issued
        BY <1>0, <1>4, <2>2, <3>1, AcknowledgeKeeps DEF ServeLate
      <3> QED
        BY <1>4, <3>1, <3>2 DEF ServeLate, IssuedOnly, Evidence, AckedIsRefreshed, nested
    <2> QED
      BY <2>0, <2>1, <2>2 DEF Request
  <1>5. CASE Wake
    BY <1>5 DEF Wake, Send, IssuedOnly, Evidence, AckedIsRefreshed, rows
  <1>6. CASE GetCommands
    <2>1. reply \in SUBSET Commands /\ \A c \in reply : c <= issued
      BY DEF Typed, LoopOK, IssuedOnly
    <2>2. /\ reply' = {} /\ batch' \subseteq reply
          /\ pc' # "nestedBackoff"
          /\ pc' = "refresh" => wire' = "request" /\ cur' <= inner'
          /\ pc' = "ack" => cur' \in handled
      BY <1>0, <1>6, <2>1, WorkOffKeeps DEF GetCommands
    <2> QED
      BY <1>6, <2>2 DEF GetCommands, IssuedOnly, Evidence, AckedIsRefreshed, rows
  <1>7. CASE GetRefreshed
    <2>1. cur <= newest
      BY <1>7 DEF GetRefreshed, Evidence, Typed, TablesOK, LoopOK
    <2> QED
      BY <1>7, <2>1 DEF GetRefreshed, Send, IssuedOnly, Evidence, AckedIsRefreshed, rows
  <1>8. CASE GetAcknowledged
    <2>1. batch \in SUBSET Commands /\ \A c \in batch : c <= issued
      BY DEF Typed, LoopOK, IssuedOnly
    <2>2. /\ reply' = {} /\ batch' \subseteq batch
          /\ pc' # "nestedBackoff"
          /\ pc' = "refresh" => wire' = "request" /\ cur' <= inner'
          /\ pc' = "ack" => cur' \in handled
      BY <1>0, <1>8, <2>1, WorkOffKeeps DEF GetAcknowledged
    <2> QED
      BY <1>8, <2>2 DEF GetAcknowledged, IssuedOnly, Evidence, AckedIsRefreshed, rows
  <1>9. CASE Refused
    BY <1>9, RaiseKeeps DEF Refused, IssuedOnly, Evidence, AckedIsRefreshed, rows
  <1>10. CASE Lose
    <2>1. \A r \in late' : r.kind = "ack" => r.body <= newest
      BY <1>10, AbandonKeeps DEF Lose, Evidence
    <2> QED
      BY <1>10, <2>1, RaiseKeeps DEF Lose, IssuedOnly, Evidence, AckedIsRefreshed, rows
  <1>11. CASE Resume
    BY <1>11 DEF Resume, Send, IssuedOnly, Evidence, AckedIsRefreshed, rows
  <1>12. CASE ResumeNested
    BY <1>12 DEF ResumeNested, Send, IssuedOnly, Evidence, AckedIsRefreshed, rows
  <1>13. CASE Restart
    <2>1. \A r \in late' : r.kind = "ack" => r.body <= newest
      BY <1>13, AbandonKeeps DEF Restart, Evidence
    <2> QED
      BY <1>13, <2>1 DEF Restart, Rest, Pause, IssuedOnly, Evidence, AckedIsRefreshed, rows
  <1>14. CASE Tick
    BY <1>14 DEF Tick, IssuedOnly, Evidence, AckedIsRefreshed, nested
  <1>15. CASE UNCHANGED vars
    BY <1>15 DEF vars, IssuedOnly, Evidence, AckedIsRefreshed
  <1> QED
    BY <1>1, <1>2, <1>3, <1>4, <1>5, <1>6, <1>7, <1>8, <1>9, <1>10, <1>11, <1>12,
       <1>13, <1>14, <1>15 DEF Next

\* A command is acknowledged only after the controller recorded a snapshot
\* captured after the command was issued (heartbeat.py sends the
\* acknowledgement after handle returned), with any losses, late requests and
\* restarts.
THEOREM AcknowledgedMeansRefreshed == Spec => []AckedIsRefreshed
  <1>1. Init => Refreshed
    <2>1. Init => Typed
      BY DEF Init, Typed, TablesOK, LoopOK, OthersOK, Waiting, Request
    <2> QED
      BY <2>1 DEF Init, Refreshed, IssuedOnly, Evidence, AckedIsRefreshed
  <1>2. Refreshed => AckedIsRefreshed
    BY DEF Refreshed, Evidence
  <1> QED
    BY <1>1, <1>2, NextRefreshed, PTL DEF Spec

-----------------------------------------------------------------------------
(* Acknowledged commands are not repeated.                                 *)

\* As long as the process is the first one, every command that is acknowledged,
\* or that an acknowledgement under way names, is in handled; and a refresh is
\* only under way for a command that is not.
Remembered ==
    /\ pc \in {"refresh", "nestedBackoff"} => cur \notin handled
    /\ pc = "ack" => cur \in handled
    /\ restarts = 0 =>
          /\ \A c \in Commands : status[c] = "acknowledged" => c \in handled
          /\ \A r \in late : r.kind = "ack" => r.body \in handled

Once == Refreshed /\ Remembered

LEMMA NextOnce ==
  ASSUME Once, [Next]_vars
  PROVE  Once'
  <1>0. Typed /\ IssuedOnly /\ Refreshed'
    BY NextRefreshed DEF Once, Refreshed
  <1> SUFFICES Remembered'
    BY <1>0 DEF Once
  <1> USE DEF Once
  <1>1. CASE \E verifiable \in BOOLEAN : Issue(verifiable)
    BY <1>0, <1>1 DEF Issue, Typed, TablesOK, Remembered, bounds
  <1>2. CASE ServeHeartbeat
    <2> DEFINE snap == IF pc = "beat" THEN snapshot ELSE inner
    <2>1. snap \in 0 .. MaxCommands
      BY <1>0 DEF Typed, LoopOK
    <2>2. \A c \in Commands : (status'[c] = "acknowledged") <=> (status[c] = "acknowledged")
      BY <1>0, <1>2, <2>1, HeartbeatKeeps DEF ServeHeartbeat
    <2> QED
      BY <1>2, <2>2 DEF ServeHeartbeat, Remembered, bounds
  <1>3. CASE ServeAck
    <2>1. cur \in Commands /\ cur \in handled
      BY <1>0, <1>3 DEF ServeAck, Typed, LoopOK, Remembered
    <2>2. \A c \in Commands : status'[c] = "acknowledged" =>
             c = cur \/ status[c] = "acknowledged"
      BY <1>0, <1>3, <2>1, AcknowledgeKeeps DEF ServeAck
    <2> QED
      BY <1>3, <2>1, <2>2 DEF ServeAck, Remembered, bounds
  <1>4. ASSUME NEW r \in late, ServeLate(r) PROVE Remembered'
    <2>0. r \in Request
      BY <1>0 DEF Typed, OthersOK
    <2>1. CASE r.kind = "heartbeat"
      <3>1. \A c \in Commands : (status'[c] = "acknowledged") <=> (status[c] = "acknowledged")
        BY <1>0, <1>4, <2>0, <2>1, HeartbeatKeeps DEF ServeLate, Request
      <3> QED
        BY <1>4, <3>1 DEF ServeLate, Remembered, bounds
    <2>2. CASE r.kind = "ack"
      <3>1. r.body \in Commands
        BY <2>0, <2>2 DEF Request
      <3>2. \A c \in Commands : status'[c] = "acknowledged" =>
               c = r.body \/ status[c] = "acknowledged"
        BY <1>0, <1>4, <2>2, <3>1, AcknowledgeKeeps DEF ServeLate
      <3> QED
        BY <1>4, <2>2, <3>2 DEF ServeLate, Remembered, bounds
    <2> QED
      BY <2>0, <2>1, <2>2 DEF Request
  <1>5. CASE Wake
    BY <1>5 DEF Wake, Send, Remembered, rows, bounds
  <1>6. CASE GetCommands
    <2>1. reply \in SUBSET Commands /\ \A c \in reply : c <= issued
      BY <1>0 DEF Typed, LoopOK, IssuedOnly
    <2>2. /\ pc' # "nestedBackoff"
          /\ pc' = "refresh" => cur' \notin handled
          /\ pc' = "ack" => cur' \in handled
      BY <1>0, <1>6, <2>1, WorkOffKeeps DEF GetCommands
    <2> QED
      BY <1>6, <2>2 DEF GetCommands, Remembered, rows, bounds
  <1>7. CASE GetRefreshed
    BY <1>7 DEF GetRefreshed, Send, Remembered, rows, bounds
  <1>8. CASE GetAcknowledged
    <2>1. batch \in SUBSET Commands /\ \A c \in batch : c <= issued
      BY <1>0 DEF Typed, LoopOK, IssuedOnly
    <2>2. /\ pc' # "nestedBackoff"
          /\ pc' = "refresh" => cur' \notin handled
          /\ pc' = "ack" => cur' \in handled
      BY <1>0, <1>8, <2>1, WorkOffKeeps DEF GetAcknowledged
    <2> QED
      BY <1>8, <2>2 DEF GetAcknowledged, Remembered, rows, bounds
  <1>9. CASE Refused
    BY <1>9, RaiseKeeps DEF Refused, Remembered, rows, bounds
  <1>10. CASE Lose
    <2>1. restarts = 0 => \A r \in late' : r.kind = "ack" => r.body \in handled
      BY <1>10, AbandonKeeps DEF Lose, Remembered
    <2> QED
      BY <1>10, <2>1, RaiseKeeps DEF Lose, Remembered, rows
  <1>11. CASE Resume
    BY <1>11 DEF Resume, Send, Remembered, rows, bounds
  <1>12. CASE ResumeNested
    BY <1>12 DEF ResumeNested, Send, Remembered, rows, bounds
  <1>13. CASE Restart
    <2>1. restarts' # 0
      BY <1>0, <1>13 DEF Restart, Typed, OthersOK
    <2> QED
      BY <1>13, <2>1 DEF Restart, Rest, Pause, Remembered
  <1>14. CASE Tick
    BY <1>14 DEF Tick, Remembered, bounds
  <1>15. CASE UNCHANGED vars
    BY <1>15 DEF vars, Remembered
  <1> QED
    BY <1>1, <1>2, <1>3, <1>4, <1>5, <1>6, <1>7, <1>8, <1>9, <1>10, <1>11, <1>12,
       <1>13, <1>14, <1>15 DEF Next

\* "No duplicate after ack": an agent that was not restarted never refreshes
\* for a command the controller holds as acknowledged, because handled is
\* extended before the first acknowledgement leaves (commands.py:25).
THEOREM NeverRepeated == Spec => []NoDuplicateAfterAck
  <1>1. Init => Once
    <2>1. Init => Typed
      BY DEF Init, Typed, TablesOK, LoopOK, OthersOK, Waiting, Request
    <2> QED
      BY <2>1 DEF Init, Once, Refreshed, IssuedOnly, Evidence, AckedIsRefreshed, Remembered
  <1>2. Once => NoDuplicateAfterAck
    BY DEF Once, Refreshed, Typed, LoopOK, OthersOK, Remembered, NoDuplicateAfterAck
  <1> QED
    BY <1>1, <1>2, NextOnce, PTL DEF Spec

\* No claim and no late request takes an acknowledged command back.
THEOREM AcknowledgementIsFinal == Spec => AckedIsFinal
  <1>1. Init => Refreshed
    <2>1. Init => Typed
      BY DEF Init, Typed, TablesOK, LoopOK, OthersOK, Waiting, Request
    <2> QED
      BY <2>1 DEF Init, Refreshed, IssuedOnly, Evidence, AckedIsRefreshed
  <1>2. ASSUME Refreshed, Next, NEW c \in Commands, status[c] = "acknowledged"
        PROVE  status'[c] = "acknowledged"
    <2>0. Typed /\ IssuedOnly
      BY <1>2 DEF Refreshed
    <2>1. CASE \E verifiable \in BOOLEAN : Issue(verifiable)
      BY <1>2, <2>0, <2>1 DEF Issue, Typed, TablesOK, IssuedOnly
    <2>2. CASE ServeHeartbeat
      <3>1. (IF pc = "beat" THEN snapshot ELSE inner) \in 0 .. MaxCommands
        BY <2>0 DEF Typed, LoopOK
      <3> QED
        BY <1>2, <2>0, <2>2, <3>1, HeartbeatKeeps DEF ServeHeartbeat
    <2>3. CASE ServeAck
      <3>1. cur \in Commands
        BY <2>0, <2>3 DEF ServeAck, Typed, LoopOK
      <3> QED
        BY <1>2, <2>0, <2>3, <3>1, AcknowledgeKeeps DEF ServeAck
    <2>4. ASSUME NEW r \in late, ServeLate(r) PROVE status'[c] = "acknowledged"
      <3>1. r \in Request
        BY <2>0 DEF Typed, OthersOK
      <3> QED
        BY <1>2, <2>0, <2>4, <3>1, HeartbeatKeeps, AcknowledgeKeeps DEF ServeLate, Request
    <2>5. CASE UNCHANGED status
      BY <1>2, <2>5
    <2>6. \/ \E verifiable \in BOOLEAN : Issue(verifiable)
          \/ ServeHeartbeat \/ ServeAck \/ \E r \in late : ServeLate(r)
          \/ UNCHANGED status
      BY <1>2 DEF Next, Wake, GetCommands, GetRefreshed, GetAcknowledged, Refused, Lose,
         Resume, ResumeNested, Restart, Tick, rows
    <2> QED
      BY <2>1, <2>2, <2>3, <2>4, <2>5, <2>6
  <1>3. Refreshed /\ [Next]_vars =>
           [\A c \in Commands : status[c] = "acknowledged" => status'[c] = "acknowledged"]_vars
    BY <1>2
  <1> QED
    BY <1>1, <1>3, NextRefreshed, PTL DEF Spec, AckedIsFinal

=============================================================================
