----------------------- MODULE JsonRpcTransportProofs -----------------------
(***************************************************************************)
(* Proofs about JsonRpcTransport for any number of calls, attempts and     *)
(* unreadable messages: no method reaches TrueNAS on a session that did    *)
(* not log in, a result is the answer to its own call, and the transport   *)
(* implements the contract of module RemoteCall.                           *)
(***************************************************************************)
EXTENDS JsonRpcTransport, FiniteSetTheorems, TLAPS

\* A retry is only begun when an attempt is left.
AttemptLeft == client.pc = "retry" => client.attempt < RetryAttempts

TypeInv == TypeOK /\ AttemptLeft

\* Who has been authenticated: the client relies on its connection's login
\* from the answer to it until the connection is dropped, methods are only
\* sent on such connections, and only sessions that logged in give good
\* answers.
LoggedIn ==
    /\ \A r \in requests : r.conn # 0 /\ (r.kind = "method" => r.conn \in sessions)
    /\ \A a \in answers : a.conn # 0 /\ (a.what \in {"granted", "value"} => a.conn \in sessions)
    /\ client.pc \in {"method", "wait_method"} => conn # 0 /\ conn \in sessions

\* The inductive invariant behind NeverUnauthenticated.
AuthInv == TypeInv /\ LoggedIn /\ NeverUnauthenticated

\* Numbers are never used twice, so whatever carries the number the client
\* waits for belongs to the request it has sent.
Numbered ==
    /\ client.id <= ids
    /\ \A r \in requests : r.id <= ids
    /\ \A a \in answers : a.id <= ids
    /\ client.pc = "wait_method" =>
        /\ \A r \in requests : r.id = client.id => r.kind = "method" /\ r.call = client.call
        /\ \A a \in answers : a.id = client.id =>
                a.call = client.call /\ a.what \notin {"granted", "denied"}

\* The inductive invariant behind ResultIsOwn.
OwnInv == TypeInv /\ Numbered

\* The requests that TrueNAS may still execute for a call.
Pending(k) == {r \in requests : r.kind = "method" /\ r.call = k}

\* How often a call can have been sent: once in every attempt that got so far.
Allowed(k) ==
    IF client.pc # "idle" /\ client.call = k
    THEN IF client.pc \in {"wait_method", "retry"} THEN client.attempt + 1 ELSE client.attempt
    ELSE IF done[k] = "none" THEN 0 ELSE RetryAttempts + 1

\* What was executed and what may still be executed never exceeds what was
\* sent, and a good answer tells of an execution.
Accounted ==
    /\ IsFiniteSet(requests)
    /\ client.pc # "idle" => done[client.call] = "none"
    /\ \A k \in Calls : effects[k] + Cardinality(Pending(k)) <= Allowed(k)
    /\ \A a \in answers : a.what = "value" => effects[a.call] > 0

\* The inductive invariant behind the refinement.
RefInv == TypeInv /\ Numbered /\ Accounted

-----------------------------------------------------------------------------
(* Types.                                                                  *)

LEMMA IdleType == Idle \in ClientState
BY TransportAssumption DEF Idle, ClientState, Calls, Attempts

LEMMA InitType == Init => TypeInv
<1> SUFFICES ASSUME Init PROVE TypeInv
  OBVIOUS
<1>1. client \in ClientState /\ AttemptLeft
  BY IdleType DEF Init, AttemptLeft, Idle
<1>2. conn \in Nat /\ opened \in Nat /\ ids \in Nat /\ garbage \in Nat
  BY DEF Init
<1>3. closed \in BOOLEAN /\ keyValid \in BOOLEAN
  BY DEF Init
<1>4. done \in [Calls -> Outcome] /\ effects \in [Calls -> Nat]
  BY DEF Init, Outcome
<1>5. /\ requests \subseteq Request /\ answers \subseteq Answer
      /\ sessions \subseteq Nat /\ refused \subseteq Calls
  BY DEF Init
<1>6. QED
  BY <1>1, <1>2, <1>3, <1>4, <1>5 DEF TypeInv, TypeOK

\* The end of a call.
LEMMA FinishType ==
    ASSUME TypeOK, NEW o \in Outcome, Finish(o)
    PROVE  client' \in ClientState /\ done' \in [Calls -> Outcome] /\ client' = Idle
BY IdleType DEF TypeOK, Finish

LEMMA RetryType ==
    ASSUME TypeOK, Retry
    PROVE  /\ client' \in ClientState /\ done' \in [Calls -> Outcome]
           /\ client'.pc \in {"idle", "retry"} /\ client'.id \in {0, client.id}
           /\ AttemptLeft'
<1>1. CASE client.attempt < RetryAttempts
  BY <1>1 DEF Retry, TypeOK, ClientState, AttemptLeft
<1>2. CASE ~ (client.attempt < RetryAttempts)
  <2>1. Finish("connection") /\ "connection" \in Outcome
    BY <1>2 DEF Retry, Outcome
  <2>2. QED
    BY <2>1, FinishType DEF Idle, AttemptLeft
<1>3. QED
  BY <1>1, <1>2

\* What a step of TrueNAS puts on the wire.
LEMMA ReplyType ==
    ASSUME TypeOK, NEW r \in requests,
           NEW what \in {"granted", "denied", "value", "odd", "error"}, Reply(r, what)
    PROVE  /\ answers' \subseteq Answer
           /\ \A a \in answers' : \/ a \in answers
                                  \/ /\ a.id = r.id /\ a.conn = r.conn
                                     /\ a.call = r.call /\ a.what = what
<1>1. r \in Request
  BY DEF TypeOK
<1> DEFINE new == [id |-> r.id, conn |-> r.conn, call |-> r.call, what |-> what]
<1>2. /\ new \in Answer /\ new.id = r.id /\ new.conn = r.conn
      /\ new.call = r.call /\ new.what = what
  BY <1>1 DEF Request, Answer
<1>3. answers' \subseteq answers \cup {new}
  BY DEF Reply
<1> HIDE DEF new
<1>4. QED
  BY <1>2, <1>3 DEF TypeOK

\* What a good answer makes of the client.
LEMMA ReceiveResult ==
    ASSUME TypeOK, NEW a \in answers, Receive(a)
    PROVE  /\ client' \in ClientState /\ done' \in [Calls -> Outcome]
           /\ \/ client' = Idle
              \/ /\ client.pc = "wait_auth" /\ a.what \in {"granted", "value"}
                 /\ client' = [client EXCEPT !.pc = "method"] /\ done' = done
           /\ \A k \in Calls : done[k] = "none" /\ done'[k] = "result" =>
                k = client.call /\ client.pc = "wait_method" /\ a.what \in {"granted", "value"}
<1>0. a \in Answer /\ client \in ClientState /\ done \in [Calls -> Outcome]
  BY DEF TypeOK
<1>1. CASE a.what \in {"granted", "value"} /\ client.pc = "wait_auth"
  <2>1. client' = [client EXCEPT !.pc = "method"] /\ done' = done
    BY <1>1 DEF Receive
  <2>2. QED
    BY <1>0, <1>1, <2>1 DEF ClientState
<1>2. CASE a.what \in {"granted", "value"} /\ client.pc = "wait_method"
  <2>1. Finish("result") /\ "result" \in Outcome
    BY <1>2 DEF Receive, Outcome
  <2>2. done' = [done EXCEPT ![client.call] = "result"]
    BY <2>1 DEF Finish
  <2>3. QED
    BY <1>0, <1>2, <2>1, <2>2, FinishType
<1>3. ASSUME NEW o \in Outcome, o # "result", Finish(o)
      PROVE  /\ client' \in ClientState /\ done' \in [Calls -> Outcome] /\ client' = Idle
             /\ \A k \in Calls : ~ (done[k] = "none" /\ done'[k] = "result")
  <2>1. done' = [done EXCEPT ![client.call] = o]
    BY <1>3 DEF Finish
  <2>2. QED
    BY <1>0, <1>3, <2>1, FinishType
<1>4. CASE a.what = "error"
  <2>1. Finish("remote") /\ "remote" \in Outcome
    BY <1>4 DEF Receive, Outcome
  <2>2. QED
    BY <1>3, <2>1
<1>5. CASE a.what \in {"denied", "odd"} /\ client.pc = "wait_auth"
  <2>1. Finish("unauthenticated") /\ "unauthenticated" \in Outcome
    BY <1>5 DEF Receive, Outcome
  <2>2. QED
    BY <1>3, <2>1
<1>6. CASE a.what \in {"denied", "odd"} /\ client.pc = "wait_method"
  <2>1. Finish("malformed") /\ "malformed" \in Outcome
    BY <1>6 DEF Receive, Outcome
  <2>2. QED
    BY <1>3, <2>1
<1>7. QED
  BY <1>0, <1>1, <1>2, <1>4, <1>5, <1>6 DEF Receive, Answer

\* What a request put on the wire looks like.
LEMMA SendResult ==
    ASSUME TypeOK, Send
    PROVE  /\ client' \in ClientState /\ client'.id = ids + 1
           /\ client'.call = client.call
           /\ client'.pc = IF client.pc = "auth" THEN "wait_auth" ELSE "wait_method"
           /\ conn' \in Nat /\ opened' \in Nat /\ ids' = ids + 1
           /\ conn' # 0 /\ (conn # 0 => conn' = conn)
           /\ requests' \subseteq Request
           /\ \A r \in requests' : \/ r \in requests
                                   \/ /\ r.id = ids + 1 /\ r.conn = conn'
                                      /\ r.kind = client.pc /\ r.call = client.call
<1>0. client \in ClientState /\ conn \in Nat /\ opened \in Nat /\ ids \in Nat
  BY DEF TypeOK
<1>1. /\ client.pc \in {"auth", "method"} /\ client.call \in Calls
      /\ conn' = IF conn = 0 THEN opened + 1 ELSE conn
      /\ opened' = IF conn = 0 THEN opened + 1 ELSE opened
      /\ ids' = ids + 1
      /\ client' = [client EXCEPT !.id = ids + 1,
                        !.pc = IF client.pc = "auth" THEN "wait_auth" ELSE "wait_method"]
  BY <1>0 DEF Send, ClientState
<1>2. /\ client' \in ClientState /\ client'.id = ids + 1 /\ client'.call = client.call
      /\ client'.pc = IF client.pc = "auth" THEN "wait_auth" ELSE "wait_method"
  <2>1. ids + 1 \in Nat
    BY <1>0
  <2>2. ASSUME NEW pc \in {"wait_auth", "wait_method"}, NEW i \in Nat,
               client' = [client EXCEPT !.id = i, !.pc = pc]
        PROVE  /\ client' \in ClientState /\ client'.id = i
               /\ client'.call = client.call /\ client'.pc = pc
    BY <1>0, <2>2 DEF ClientState
  <2>3. CASE client.pc = "auth"
    BY <1>1, <2>1, <2>2, <2>3
  <2>4. CASE client.pc = "method"
    BY <1>1, <2>1, <2>2, <2>4
  <2>5. QED
    BY <1>1, <2>3, <2>4
<1>3. conn' \in Nat /\ opened' \in Nat /\ conn' # 0 /\ (conn # 0 => conn' = conn)
  BY <1>0, <1>1
<1> DEFINE new == [id |-> ids + 1, conn |-> conn', kind |-> client.pc, call |-> client.call]
<1>4. /\ new \in Request /\ new.id = ids + 1 /\ new.conn = conn'
      /\ new.kind = client.pc /\ new.call = client.call
  BY <1>0, <1>1, <1>3 DEF Request
<1>5. requests' = requests \cup {new}
  BY <1>1 DEF Send
<1> HIDE DEF new
<1>6. requests \subseteq Request
  BY DEF TypeOK
<1>7. requests' \subseteq Request
  BY <1>4, <1>5, <1>6
<1>8. \A r \in requests' : \/ r \in requests
                            \/ /\ r.id = ids + 1 /\ r.conn = conn'
                               /\ r.kind = client.pc /\ r.call = client.call
  BY <1>4, <1>5
<1>9. QED
  BY <1>1, <1>2, <1>3, <1>7, <1>8

\* TypeInv is inductive.
LEMMA TypeOKStep ==
    ASSUME TypeOK, AttemptLeft, [Next]_vars
    PROVE  TypeOK'
<1>1. ASSUME NEW k \in Calls, Call(k) PROVE TypeOK'
  <2>1. client' \in ClientState
    BY <1>1, IdleType DEF Call, ClientState
  <2>2. QED
    BY <1>1, <2>1 DEF Call, TypeOK, server
<1>2. CASE Backoff
  <2>1. client \in ClientState /\ client.attempt < RetryAttempts
    BY <1>2 DEF Backoff, TypeOK, AttemptLeft
  <2>2. client.attempt + 1 \in Attempts
    BY <2>1, TransportAssumption DEF ClientState, Attempts
  <2>3. client' = [client EXCEPT !.pc = "auth", !.attempt = client.attempt + 1]
    BY <1>2 DEF Backoff
  <2>4. client' \in ClientState
    BY <2>1, <2>2, <2>3 DEF ClientState
  <2>5. QED
    BY <1>2, <2>4 DEF Backoff, TypeOK, server
<1>3. CASE Send
  BY <1>3, SendResult DEF Send, TypeOK
<1>4. CASE ConnectionFails
  <2>1. ids' \in Nat /\ conn' \in Nat /\ answers' \subseteq Answer
    BY <1>4 DEF ConnectionFails, Reset, TypeOK
  <2>2. client' \in ClientState /\ done' \in [Calls -> Outcome]
    BY <1>4, RetryType DEF ConnectionFails
  <2>3. QED
    BY <1>4, <2>1, <2>2 DEF ConnectionFails, TypeOK, server
<1>5. ASSUME NEW a \in answers, Discard(a) PROVE TypeOK'
  BY <1>5 DEF Discard, TypeOK, server
<1>6. ASSUME NEW a \in answers, Receive(a) PROVE TypeOK'
  <2>1. client' \in ClientState /\ done' \in [Calls -> Outcome]
    BY <1>6, ReceiveResult
  <2>2. QED
    BY <1>6, <2>1 DEF Receive, TypeOK, server
<1>7. CASE ReceiveGarbage
  <2>1. Finish("protocol") /\ "protocol" \in Outcome
    BY <1>7 DEF ReceiveGarbage, Outcome
  <2>2. client' \in ClientState /\ done' \in [Calls -> Outcome]
    BY <2>1, FinishType
  <2>3. QED
    BY <1>7, <2>2 DEF ReceiveGarbage, TypeOK, server
<1>8. ASSUME NEW r \in requests, Login(r) PROVE TypeOK'
  <2>1. answers' \subseteq Answer
    BY <1>8, ReplyType DEF Login
  <2>2. r.conn \in Nat
    BY DEF TypeOK, Request
  <2>3. QED
    BY <1>8, <2>1, <2>2 DEF Login, TypeOK
<1>9. ASSUME NEW r \in requests, NEW effect \in BOOLEAN,
             NEW what \in {"value", "odd", "error"}, Execute(r, effect, what)
      PROVE  TypeOK'
  <2>1. answers' \subseteq Answer
    BY <1>9, ReplyType DEF Execute
  <2>2. r.call \in Calls
    BY DEF TypeOK, Request
  <2>3. effects' \in [Calls -> Nat]
    BY <1>9, <2>2 DEF Execute, TypeOK
  <2>4. QED
    BY <1>9, <2>1, <2>3 DEF Execute, TypeOK
<1>10. ASSUME NEW r \in requests, Refuse(r) PROVE TypeOK'
  <2>1. answers' \subseteq Answer
    BY <1>10, ReplyType DEF Refuse
  <2>2. r.call \in Calls
    BY DEF TypeOK, Request
  <2>3. QED
    BY <1>10, <2>1, <2>2 DEF Refuse, TypeOK
<1>11. CASE Revoke
  BY <1>11 DEF Revoke, TypeOK
<1>12. CASE Close
  BY <1>12 DEF Close, Reset, TypeOK, server
<1>13. CASE UNCHANGED vars
  BY <1>13 DEF vars, server, TypeOK
<1>14. QED
  BY <1>1, <1>2, <1>3, <1>4, <1>5, <1>6, <1>7, <1>8, <1>9, <1>10, <1>11, <1>12, <1>13
     DEF Next, ClientStep, ServerStep

LEMMA AttemptStep ==
    ASSUME TypeOK, AttemptLeft, [Next]_vars
    PROVE  AttemptLeft'
<1>0. client \in ClientState
  BY DEF TypeOK
<1>1. ASSUME NEW k \in Calls, Call(k) PROVE AttemptLeft'
  BY <1>1 DEF Call, Idle, AttemptLeft
<1>2. CASE Backoff
  BY <1>0, <1>2 DEF Backoff, ClientState, AttemptLeft
<1>3. CASE Send
  BY <1>3, SendResult DEF AttemptLeft
<1>4. CASE ConnectionFails
  BY <1>4, RetryType DEF ConnectionFails
<1>5. ASSUME NEW a \in answers, Receive(a) PROVE AttemptLeft'
  BY <1>0, <1>5, ReceiveResult DEF ClientState, Idle, AttemptLeft
<1>6. CASE ReceiveGarbage
  BY <1>6 DEF ReceiveGarbage, Finish, Idle, AttemptLeft
<1>7. CASE client' = client
  BY <1>7 DEF AttemptLeft
<1>8. QED
  BY <1>1, <1>2, <1>3, <1>4, <1>5, <1>6, <1>7
     DEF Next, ClientStep, ServerStep, Discard, Login, Execute, Refuse, Revoke, Close, vars

LEMMA TypeStep == TypeInv /\ [Next]_vars => TypeInv'
BY TypeOKStep, AttemptStep DEF TypeInv

\* The client's memory, the wire and the counters keep their types, and the
\* attempts stay within TRUENAS_RETRY_ATTEMPTS.
THEOREM TypeCorrect == Spec => []TypeOK
<1>1. QED
  BY InitType, TypeStep, PTL DEF Spec, TypeInv

-----------------------------------------------------------------------------
(* Authentication.                                                         *)

LEMMA AuthStep ==
    ASSUME TypeOK, LoggedIn, NeverUnauthenticated, [Next]_vars
    PROVE  LoggedIn' /\ NeverUnauthenticated'
<1> DEFINE Goal == LoggedIn' /\ NeverUnauthenticated'
<1>0. client \in ClientState
  BY DEF TypeOK
<1>1. ASSUME NEW k \in Calls, Call(k) PROVE Goal
  BY <1>1 DEF Call, Idle, LoggedIn, NeverUnauthenticated, server
<1>2. CASE Backoff
  BY <1>0, <1>2 DEF Backoff, ClientState, LoggedIn, NeverUnauthenticated, server
<1>3. CASE Send
  <2>1. /\ client.pc \in {"auth", "method"}
        /\ answers' = answers /\ sessions' = sessions /\ refused' = refused
    BY <1>3 DEF Send
  <2>2. client.pc = "method" => conn' = conn /\ conn \in sessions
    BY <1>3, SendResult DEF LoggedIn
  <2>3. \A r \in requests' : r.conn # 0 /\ (r.kind = "method" => r.conn \in sessions)
    BY <1>3, <2>1, <2>2, SendResult DEF LoggedIn
  <2>4. client'.pc = "wait_method" => conn' # 0 /\ conn' \in sessions
    BY <1>3, <2>1, <2>2, SendResult
  <2>5. client'.pc # "method"
    BY <1>3, <2>1, SendResult
  <2>6. QED
    BY <2>1, <2>3, <2>4, <2>5 DEF LoggedIn, NeverUnauthenticated
<1>4. CASE ConnectionFails
  <2>1. client'.pc \notin {"method", "wait_method"}
    BY <1>4, RetryType DEF ConnectionFails
  <2>2. QED
    BY <1>4, <2>1 DEF ConnectionFails, Reset, LoggedIn, NeverUnauthenticated, server
<1>5. ASSUME NEW a \in answers, Discard(a) PROVE Goal
  BY <1>5 DEF Discard, LoggedIn, NeverUnauthenticated, server
<1>6. ASSUME NEW a \in answers, Receive(a) PROVE Goal
  <2>1. client'.pc \in {"method", "wait_method"} => conn # 0 /\ conn \in sessions
    <3>1. CASE client' = Idle
      BY <3>1 DEF Idle
    <3>2. CASE a.what \in {"granted", "value"}
      BY <1>6, <3>2 DEF Receive, Matches, LoggedIn
    <3>3. QED
      BY <1>6, <3>1, <3>2, ReceiveResult
  <2>2. QED
    BY <1>6, <2>1 DEF Receive, LoggedIn, NeverUnauthenticated, server
<1>7. CASE ReceiveGarbage
  BY <1>7 DEF ReceiveGarbage, Finish, Idle, LoggedIn, NeverUnauthenticated, server
<1>8. ASSUME NEW r \in requests, Login(r) PROVE Goal
  <2>1. /\ sessions \subseteq sessions' /\ requests' \subseteq requests
        /\ client' = client /\ conn' = conn /\ refused' = refused
    BY <1>8 DEF Login
  <2>2. \A a \in answers' : a.conn # 0 /\ (a.what \in {"granted", "value"} => a.conn \in sessions')
    <3>1. CASE keyValid
      <4>1. Reply(r, "granted") /\ r.conn \in sessions'
        BY <1>8, <3>1 DEF Login
      <4>2. QED
        BY <2>1, <4>1, ReplyType DEF LoggedIn
    <3>2. CASE ~ keyValid
      <4>1. Reply(r, "denied")
        BY <1>8, <3>2 DEF Login
      <4>2. QED
        BY <2>1, <4>1, ReplyType DEF LoggedIn
    <3>3. QED
      BY <3>1, <3>2
  <2>3. QED
    BY <2>1, <2>2 DEF LoggedIn, NeverUnauthenticated
<1>9. ASSUME NEW r \in requests, NEW effect \in BOOLEAN,
             NEW what \in {"value", "odd", "error"}, Execute(r, effect, what)
      PROVE  Goal
  <2>1. /\ sessions' = sessions /\ requests' \subseteq requests
        /\ client' = client /\ conn' = conn /\ refused' = refused
        /\ Reply(r, what) /\ r.conn \in sessions
    BY <1>9 DEF Execute
  <2>2. \A a \in answers' : a.conn # 0 /\ (a.what \in {"granted", "value"} => a.conn \in sessions)
    BY <2>1, ReplyType DEF LoggedIn
  <2>3. QED
    BY <2>1, <2>2 DEF LoggedIn, NeverUnauthenticated
<1>10. ASSUME NEW r \in requests, Refuse(r) PROVE Goal
  BY <1>10 DEF Refuse, LoggedIn
<1>11. CASE Revoke
  BY <1>11 DEF Revoke, LoggedIn, NeverUnauthenticated
<1>12. CASE Close
  BY <1>0, <1>12 DEF Close, Reset, LoggedIn, NeverUnauthenticated, server
<1>13. CASE UNCHANGED vars
  BY <1>13 DEF vars, server, LoggedIn, NeverUnauthenticated
<1>14. QED
  BY <1>1, <1>2, <1>3, <1>4, <1>5, <1>6, <1>7, <1>8, <1>9, <1>10, <1>11, <1>12, <1>13
     DEF Next, ClientStep, ServerStep

\* ApiKeyJsonRpcTransport: however often connections fail, no method is sent on
\* a session whose login was not answered.
THEOREM AlwaysAuthenticated == Spec => []NeverUnauthenticated
<1>1. Init => AuthInv
  BY InitType DEF AuthInv, Init, Idle, LoggedIn, NeverUnauthenticated
<1>2. AuthInv /\ [Next]_vars => AuthInv'
  BY TypeStep, AuthStep DEF AuthInv, TypeInv
<1>3. AuthInv => NeverUnauthenticated
  BY DEF AuthInv
<1>4. QED
  BY <1>1, <1>2, <1>3, PTL DEF Spec

-----------------------------------------------------------------------------
(* Answers belong to their requests.                                       *)

LEMMA NumberedStep ==
    ASSUME TypeOK, Numbered, [Next]_vars
    PROVE  Numbered'
<1>0. client \in ClientState /\ ids \in Nat /\ requests \subseteq Request /\ answers \subseteq Answer
  BY DEF TypeOK
<1>a. \A r \in requests : r.id \in Nat /\ r.id <= ids
  BY <1>0 DEF Request, Numbered
<1>b. \A a \in answers : a.id \in Nat /\ a.id <= ids
  BY <1>0 DEF Answer, Numbered
<1>1. ASSUME NEW k \in Calls, Call(k) PROVE Numbered'
  BY <1>0, <1>1 DEF Call, Idle, Numbered, server
<1>2. CASE Backoff
  BY <1>0, <1>2 DEF Backoff, ClientState, Numbered, server
<1>3. CASE Send
  <2>1. /\ client.pc \in {"auth", "method"} /\ answers' = answers
        /\ ids' = ids + 1 /\ client'.id = ids + 1 /\ client'.call = client.call
        /\ client'.pc = "wait_method" => client.pc = "method"
    BY <1>3, SendResult DEF Send
  <2>2. \A r \in requests' : r.id <= ids' /\ (r.id = client'.id =>
                                 r.kind = client.pc /\ r.call = client.call)
    BY <1>0, <1>3, <1>a, <2>1, SendResult
  <2>3. \A a \in answers' : a.id <= ids' /\ a.id # client'.id
    BY <1>0, <1>b, <2>1
  <2>4. client'.id <= ids'
    BY <1>0, <2>1
  <2>5. QED
    BY <2>1, <2>2, <2>3, <2>4 DEF Numbered
<1>4. CASE ConnectionFails
  <2>1. client'.pc # "wait_method" /\ client'.id \in {0, client.id}
    BY <1>4, RetryType DEF ConnectionFails
  <2>2. ids' \in {ids, ids + 1} /\ requests' = requests /\ answers' \subseteq answers
    BY <1>4 DEF ConnectionFails, Reset, server
  <2>3. client'.id <= ids'
    BY <1>0, <2>1, <2>2 DEF Numbered, ClientState
  <2>4. /\ \A r \in requests' : r.id <= ids'
        /\ \A a \in answers' : a.id <= ids'
    BY <1>0, <1>a, <1>b, <2>2
  <2>5. QED
    BY <2>1, <2>3, <2>4 DEF Numbered
<1>5. ASSUME NEW a \in answers, Discard(a) PROVE Numbered'
  BY <1>5 DEF Discard, Numbered, server
<1>6. ASSUME NEW a \in answers, Receive(a) PROVE Numbered'
  <2>1. client'.pc # "wait_method" /\ client'.id \in {0, client.id}
    BY <1>0, <1>6, ReceiveResult DEF Idle, ClientState
  <2>2. ids' = ids /\ requests' = requests /\ answers' \subseteq answers
    BY <1>6 DEF Receive, server
  <2>3. QED
    BY <1>0, <2>1, <2>2 DEF Numbered
<1>7. CASE ReceiveGarbage
  BY <1>0, <1>7 DEF ReceiveGarbage, Finish, Idle, Numbered, server
<1>8. ASSUME NEW r \in requests, NEW what \in {"granted", "denied", "value", "odd", "error"},
             Reply(r, what), r.kind = "auth" <=> what \in {"granted", "denied"},
             requests' \subseteq requests, client' = client, ids' = ids
      PROVE  Numbered'
  <2>1. \A a \in answers' : \/ a \in answers
                             \/ /\ a.id = r.id /\ a.call = r.call /\ a.what = what
    BY <1>8, ReplyType
  <2>2. client.pc = "wait_method" /\ r.id = client.id =>
            r.call = client.call /\ what \notin {"granted", "denied"}
    BY <1>8 DEF Numbered
  <2>3. QED
    BY <1>8, <1>a, <2>1, <2>2 DEF Numbered
<1>9. ASSUME NEW r \in requests, Login(r) PROVE Numbered'
  <2>1. r.kind = "auth" /\ requests' \subseteq requests /\ client' = client /\ ids' = ids
    BY <1>9 DEF Login
  <2>2. Reply(r, "granted") \/ Reply(r, "denied")
    BY <1>9 DEF Login
  <2>3. QED
    BY <1>8, <2>1, <2>2
<1>10. ASSUME NEW r \in requests, NEW effect \in BOOLEAN,
              NEW what \in {"value", "odd", "error"}, Execute(r, effect, what)
       PROVE  Numbered'
  BY <1>8, <1>10 DEF Execute
<1>11. ASSUME NEW r \in requests, Refuse(r) PROVE Numbered'
  BY <1>8, <1>11 DEF Refuse
<1>12. CASE Revoke
  BY <1>12 DEF Revoke, Numbered
<1>13. CASE Close
  BY <1>13 DEF Close, Reset, Numbered, server
<1>14. CASE UNCHANGED vars
  BY <1>14 DEF vars, server, Numbered
<1>15. QED
  BY <1>1, <1>2, <1>3, <1>4, <1>5, <1>6, <1>7, <1>9, <1>10, <1>11, <1>12, <1>13, <1>14
     DEF Next, ClientStep, ServerStep

\* The step in which a call gets its result reads the answer to that call.
LEMMA OwnStep ==
    ASSUME TypeOK, Numbered, [Next]_vars, NEW k \in Calls,
           done[k] = "none", done'[k] = "result"
    PROVE  \E a \in answers \ answers' : a.call = k /\ a.what = "value"
<1>0. done \in [Calls -> Outcome] /\ client \in ClientState
  BY DEF TypeOK
<1>1. ASSUME NEW o \in Outcome, o # "result", Finish(o) PROVE FALSE
  BY <1>0, <1>1 DEF Finish
<1>2. PICK a \in answers : Receive(a)
  <2>1. CASE ConnectionFails
    <3>1. Finish("connection") \/ done' = done
      BY <2>1 DEF ConnectionFails, Retry
    <3>2. QED
      BY <1>1, <3>1 DEF Outcome
  <2>2. CASE ReceiveGarbage
    BY <1>1, <2>2 DEF ReceiveGarbage, Outcome
  <2>3. CASE done' = done
    BY <2>3
  <2>4. QED
    BY <2>1, <2>2, <2>3
       DEF Next, ClientStep, ServerStep, Call, Backoff, Send, Discard, Login, Execute, Refuse,
           Revoke, Close, vars
<1>3. k = client.call /\ client.pc = "wait_method" /\ a.what \in {"granted", "value"}
  BY <1>2, ReceiveResult
<1>4. a.call = client.call /\ a.what = "value"
  BY <1>2, <1>3 DEF Receive, Matches, Numbered
<1>5. a \notin answers'
  BY <1>2 DEF Receive
<1>6. QED
  BY <1>2, <1>3, <1>4, <1>5

\* _request_once: a result that reaches the application is the answer to its
\* own request, whatever late answers the connection still carries.
THEOREM ResultsAreOwn == Spec => ResultIsOwn
<1>1. Init => OwnInv
  BY InitType DEF OwnInv, Init, Idle, Numbered
<1>2. OwnInv /\ [Next]_vars => OwnInv'
  BY TypeStep, NumberedStep DEF OwnInv, TypeInv
<1>3. OwnInv /\ [Next]_vars =>
        [\A k \in Calls :
            done[k] = "none" /\ done'[k] = "result"
               => \E a \in answers \ answers' : a.call = k /\ a.what = "value"]_vars
  BY OwnStep DEF OwnInv, TypeInv
<1>4. QED
  BY <1>1, <1>2, <1>3, PTL DEF Spec, ResultIsOwn

-----------------------------------------------------------------------------
(* The contract of RemoteCall.                                             *)

\* A finite set of requests can be counted.
LEMMA PendingCount ==
    ASSUME IsFiniteSet(requests), NEW k
    PROVE  IsFiniteSet(Pending(k)) /\ Cardinality(Pending(k)) \in Nat
<1>1. Pending(k) \in SUBSET requests
  BY DEF Pending
<1>2. IsFiniteSet(Pending(k))
  BY <1>1, FS_Subset
<1>3. QED
  BY <1>2, FS_CardinalityType

\* No call is sent more often than the attempts permit.
LEMMA AllowedBound ==
    ASSUME TypeInv, NEW k \in Calls
    PROVE  Allowed(k) \in 0 .. RetryAttempts + 1
<1>1. /\ client.attempt \in 0..RetryAttempts /\ RetryAttempts \in Nat
      /\ client.pc = "retry" => client.attempt < RetryAttempts
  BY TransportAssumption DEF TypeInv, TypeOK, AttemptLeft, ClientState, Attempts
<1>2. QED
  BY <1>1 DEF Allowed

\* A step that sends nothing and executes nothing keeps the account, provided
\* that it takes no permission back.
LEMMA AccountKept ==
    ASSUME TypeInv, TypeInv', Accounted,
           requests' = requests, effects' = effects, answers' \subseteq answers,
           \A k \in Calls : Allowed(k) <= Allowed(k)',
           client'.pc # "idle" => done'[client'.call] = "none"
    PROVE  Accounted'
<1>1. ASSUME NEW k \in Calls
      PROVE  effects'[k] + Cardinality(Pending(k)') <= Allowed(k)'
  <2>1. Pending(k)' = Pending(k)
    BY DEF Pending
  <2>2. Cardinality(Pending(k)) \in Nat /\ effects[k] \in Nat
    BY PendingCount DEF Accounted, TypeInv, TypeOK
  <2>3. Allowed(k) \in Nat /\ effects[k] + Cardinality(Pending(k)) <= Allowed(k)
    BY AllowedBound, TransportAssumption DEF Accounted
  <2>4. Allowed(k)' \in Nat
    <3>1. /\ client'.attempt \in Nat /\ RetryAttempts \in Nat
      BY TransportAssumption DEF TypeInv, TypeOK, ClientState, Attempts
    <3>2. QED
      BY <3>1 DEF Allowed
  <2>5. QED
    BY <2>1, <2>2, <2>3, <2>4
<1>2. QED
  BY <1>1 DEF Accounted

\* The end of a call permits no less than the call did, and closes it.
LEMMA FinishAccount ==
    ASSUME TypeInv, NEW o \in Outcome, o # "none", Finish(o)
    PROVE  /\ \A k \in Calls : Allowed(k) <= Allowed(k)'
           /\ client'.pc = "idle"
<1>0. /\ client.call \in Calls /\ done \in [Calls -> Outcome]
      /\ client' = Idle /\ done' = [done EXCEPT ![client.call] = o]
  BY DEF TypeInv, TypeOK, ClientState, Finish
<1>1. client'.pc = "idle"
  BY <1>0 DEF Idle
<1>2. ASSUME NEW k \in Calls PROVE Allowed(k) <= Allowed(k)'
  <2>0. Allowed(k) \in 0 .. RetryAttempts + 1 /\ RetryAttempts \in Nat
    BY AllowedBound, TransportAssumption
  <2>1. CASE k = client.call
    <3>1. done'[k] = o
      BY <1>0, <2>1
    <3>2. Allowed(k)' = RetryAttempts + 1
      BY <1>1, <3>1 DEF Allowed
    <3>3. QED
      BY <2>0, <3>2
  <2>2. CASE k # client.call
    <3>1. done'[k] = done[k]
      BY <1>0, <2>2
    <3>2. Allowed(k)' = Allowed(k)
      BY <1>1, <2>2, <3>1 DEF Allowed
    <3>3. QED
      BY <2>0, <3>2
  <2>3. QED
    BY <2>1, <2>2
<1>3. QED
  BY <1>1, <1>2

\* A step that moves the call in progress on, and permits it no less.
LEMMA MoveAccount ==
    ASSUME TypeInv, TypeInv', Accounted,
           client.pc # "idle", client'.pc # "idle", client'.call = client.call, done' = done,
           client'.attempt >= client.attempt,
           client.pc \in {"wait_method", "retry"} =>
                client'.pc \in {"wait_method", "retry"} \/ client'.attempt > client.attempt
    PROVE  /\ \A k \in Calls : Allowed(k) <= Allowed(k)'
           /\ done'[client'.call] = "none"
<1>0. client.attempt \in Nat /\ client'.attempt \in Nat /\ RetryAttempts \in Nat
  BY TransportAssumption DEF TypeInv, TypeOK, ClientState, Attempts
<1>1. ASSUME NEW k \in Calls PROVE Allowed(k) <= Allowed(k)'
  BY <1>0 DEF Allowed
<1>2. QED
  BY <1>1 DEF Accounted

\* How a call in progress gives way to a retry or ends.
LEMMA RetryAccount ==
    ASSUME TypeInv, TypeInv', Accounted, Retry, client.pc \notin {"idle", "retry"}
    PROVE  /\ \A k \in Calls : Allowed(k) <= Allowed(k)'
           /\ client'.pc # "idle" => done'[client'.call] = "none"
<1>0. client \in ClientState
  BY DEF TypeInv, TypeOK
<1>1. CASE client.attempt < RetryAttempts
  <2>1. client' = [client EXCEPT !.pc = "retry"] /\ done' = done
    BY <1>1 DEF Retry
  <2>2. /\ client'.pc = "retry" /\ client'.call = client.call
        /\ client'.attempt = client.attempt /\ client.attempt \in Nat
    BY <1>0, <2>1 DEF ClientState, Attempts
  <2>3. QED
    BY <2>1, <2>2, MoveAccount
<1>2. CASE ~ (client.attempt < RetryAttempts)
  <2>1. Finish("connection") /\ "connection" \in Outcome
    BY <1>2 DEF Retry, Outcome
  <2>2. QED
    BY <2>1, FinishAccount
<1>3. QED
  BY <1>1, <1>2

\* What an answer makes of a call in progress.
LEMMA ReceiveCases ==
    ASSUME TypeOK, NEW a \in answers, Receive(a)
    PROVE  \/ \E o \in Outcome : o \notin {"none", "result"} /\ Finish(o)
           \/ /\ Finish("result") /\ client.pc = "wait_method"
              /\ a.what \in {"granted", "value"}
           \/ /\ client.pc = "wait_auth" /\ client' = [client EXCEPT !.pc = "method"]
              /\ done' = done
<1>1. a.what \in {"granted", "denied", "value", "odd", "error"}
  BY DEF TypeOK, Answer
<1>2. client.pc \in {"wait_auth", "wait_method"}
  BY DEF Receive
<1>3. CASE a.what = "error"
  BY <1>3 DEF Receive, Outcome
<1>4. CASE a.what \in {"granted", "value"} /\ client.pc = "wait_auth"
  BY <1>4 DEF Receive
<1>5. CASE a.what \in {"denied", "odd"} /\ client.pc = "wait_auth"
  BY <1>5 DEF Receive, Outcome
<1>6. CASE a.what \in {"granted", "value"} /\ client.pc = "wait_method"
  BY <1>6 DEF Receive
<1>7. CASE a.what \in {"denied", "odd"} /\ client.pc = "wait_method"
  BY <1>7 DEF Receive, Outcome
<1>8. QED
  BY <1>1, <1>2, <1>3, <1>4, <1>5, <1>6, <1>7

LEMMA ReceiveAccount ==
    ASSUME TypeInv, TypeInv', Accounted, NEW a \in answers, Receive(a)
    PROVE  /\ \A k \in Calls : Allowed(k) <= Allowed(k)'
           /\ client'.pc # "idle" => done'[client'.call] = "none"
<1>0. client \in ClientState /\ TypeOK
  BY DEF TypeInv, TypeOK
<1>1. ASSUME NEW o \in Outcome, o # "none", Finish(o)
      PROVE  (\A k \in Calls : Allowed(k) <= Allowed(k)') /\ client'.pc = "idle"
  BY <1>1, FinishAccount
<1>2. CASE /\ client.pc = "wait_auth" /\ client' = [client EXCEPT !.pc = "method"]
           /\ done' = done
  <2>1. /\ client'.pc = "method" /\ client'.call = client.call
        /\ client'.attempt = client.attempt /\ client.attempt \in Nat
    BY <1>0, <1>2 DEF ClientState, Attempts
  <2>2. QED
    BY <1>2, <2>1, MoveAccount
<1>3. "result" \in Outcome
  BY DEF Outcome
<1>4. QED
  BY <1>0, <1>1, <1>2, <1>3, ReceiveCases

\* A new request is one more to be executed, in an attempt that had sent none.
LEMMA SendAccount ==
    ASSUME TypeInv, TypeInv', Accounted, Send
    PROVE  Accounted'
<1>0. /\ client \in ClientState /\ client.attempt \in Nat /\ client.pc \in {"auth", "method"}
      /\ effects' = effects /\ answers' = answers /\ done' = done
      /\ RetryAttempts \in Nat
  BY TransportAssumption DEF TypeInv, TypeOK, ClientState, Attempts, Send
<1> DEFINE new == [id |-> ids + 1, conn |-> conn', kind |-> client.pc, call |-> client.call]
<1>1. requests' = requests \cup {new} /\ new.kind = client.pc /\ new.call = client.call
  BY DEF Send
<1> HIDE DEF new
<1>2. /\ client'.call = client.call
      /\ client'.pc = IF client.pc = "auth" THEN "wait_auth" ELSE "wait_method"
  BY SendResult DEF TypeInv
<1>3. client'.attempt = client.attempt
  <2>1. ASSUME NEW i, NEW pc, client' = [client EXCEPT !.id = i, !.pc = pc]
        PROVE  client'.attempt = client.attempt
    BY <1>0, <2>1 DEF ClientState
  <2>2. QED
    BY <2>1 DEF Send
<1>4. IsFiniteSet(requests')
  BY <1>1, FS_AddElement DEF Accounted
<1>5. ASSUME NEW k \in Calls
      PROVE  effects'[k] + Cardinality(Pending(k)') <= Allowed(k)'
  <2>0. /\ IsFiniteSet(Pending(k)) /\ Cardinality(Pending(k)) \in Nat
        /\ effects[k] \in Nat /\ Allowed(k) \in Nat
        /\ effects[k] + Cardinality(Pending(k)) <= Allowed(k)
    BY PendingCount, AllowedBound, TransportAssumption DEF Accounted, TypeInv, TypeOK
  <2>1. CASE client.pc = "method" /\ k = client.call
    <3>1. Pending(k)' = Pending(k) \cup {new}
      BY <1>1, <2>1 DEF Pending
    <3>2. /\ Cardinality(Pending(k)') <= Cardinality(Pending(k)) + 1
          /\ Cardinality(Pending(k)') \in Nat
      <4>1. Cardinality(Pending(k)') =
                IF new \in Pending(k) THEN Cardinality(Pending(k))
                                      ELSE Cardinality(Pending(k)) + 1
        BY <2>0, <3>1, FS_AddElement
      <4>2. QED
        BY <2>0, <4>1
    <3>3. Allowed(k) = client.attempt /\ Allowed(k)' = client.attempt + 1
      BY <1>2, <1>3, <2>1 DEF Allowed
    <3>4. QED
      BY <1>0, <2>0, <3>2, <3>3
  <2>2. CASE ~ (client.pc = "method" /\ k = client.call)
    <3>1. Pending(k)' = Pending(k)
      BY <1>0, <1>1, <2>2 DEF Pending
    <3>2. Allowed(k)' = Allowed(k)
      BY <1>0, <1>2, <1>3, <2>2 DEF Allowed
    <3>3. QED
      BY <1>0, <2>0, <3>1, <3>2
  <2>3. QED
    BY <2>1, <2>2
<1>6. QED
  BY <1>0, <1>2, <1>4, <1>5 DEF Accounted

\* A step of TrueNAS takes a request off; what it executes it had to execute.
LEMMA ServerAccount ==
    ASSUME TypeInv, Accounted, NEW r \in requests,
           NEW what \in {"granted", "denied", "value", "odd", "error"},
           Reply(r, what), requests' = requests \ {r},
           client' = client, done' = done, r.call \in Calls,
           \/ effects' = effects /\ what # "value"
           \/ effects' = [effects EXCEPT ![r.call] = @ + 1] /\ r.kind = "method"
    PROVE  Accounted'
<1>0. effects \in [Calls -> Nat] /\ answers \subseteq Answer /\ TypeOK
  BY DEF TypeInv, TypeOK
<1>1. IsFiniteSet(requests')
  BY FS_RemoveElement DEF Accounted
<1>2. ASSUME NEW k \in Calls
      PROVE  effects'[k] + Cardinality(Pending(k)') <= Allowed(k)'
  <2>0. /\ IsFiniteSet(Pending(k)) /\ Cardinality(Pending(k)) \in Nat
        /\ effects[k] \in Nat /\ Allowed(k) \in Nat
        /\ effects[k] + Cardinality(Pending(k)) <= Allowed(k)
    BY PendingCount, AllowedBound, TransportAssumption DEF Accounted, TypeInv, TypeOK
  <2>1. Pending(k)' = Pending(k) \ {r}
    BY DEF Pending
  <2>2. /\ Cardinality(Pending(k)') \in Nat
        /\ Cardinality(Pending(k)') =
            IF r \in Pending(k) THEN Cardinality(Pending(k)) - 1 ELSE Cardinality(Pending(k))
    <3>1. IsFiniteSet(Pending(k)')
      BY <2>0, <2>1, FS_RemoveElement
    <3>2. QED
      BY <2>0, <2>1, <3>1, FS_RemoveElement, FS_CardinalityType
  <2>3. Allowed(k)' = Allowed(k)
    BY DEF Allowed
  <2>4. CASE r.call = k /\ r.kind = "method"
    <3>1. r \in Pending(k)
      BY <2>4 DEF Pending
    <3>2. effects'[k] \in Nat /\ effects'[k] <= effects[k] + 1
      BY <1>0, <2>0
    <3>3. QED
      BY <2>0, <2>2, <2>3, <3>1, <3>2
  <2>5. CASE ~ (r.call = k /\ r.kind = "method")
    <3>1. effects'[k] = effects[k]
      BY <1>0, <2>5
    <3>2. QED
      BY <2>0, <2>2, <2>3, <3>1
  <2>6. QED
    BY <2>4, <2>5
<1>3. \A k \in Calls : effects[k] \in Nat /\ effects'[k] \in Nat /\ effects'[k] >= effects[k]
  BY <1>0
<1>4. ASSUME NEW a \in answers', a.what = "value" PROVE effects'[a.call] > 0
  <2>1. CASE a \in answers
    <3>1. a.call \in Calls /\ effects[a.call] > 0
      BY <1>0, <1>4, <2>1 DEF Accounted, Answer
    <3>2. QED
      BY <1>3, <3>1
  <2>2. CASE a.call = r.call /\ a.what = what
    <3>1. effects' = [effects EXCEPT ![r.call] = @ + 1]
      BY <1>4, <2>2
    <3>2. effects'[r.call] = effects[r.call] + 1 /\ effects[r.call] \in Nat
      BY <1>0, <3>1
    <3>3. QED
      BY <2>2, <3>2
  <2>3. QED
    BY <1>0, <2>1, <2>2, ReplyType
<1>5. QED
  BY <1>1, <1>2, <1>4 DEF Accounted

LEMMA AccountStep ==
    ASSUME TypeInv, TypeInv', Accounted, [Next]_vars
    PROVE  Accounted'
<1>0. client \in ClientState /\ TypeOK
  BY DEF TypeInv, TypeOK
<1>a. \A k \in Calls : Allowed(k) \in Nat
  BY AllowedBound, TransportAssumption
<1>b. ASSUME requests' = requests, effects' = effects, answers' \subseteq answers,
             client' = client, done' = done
      PROVE  Accounted'
  <2>1. \A k \in Calls : Allowed(k)' = Allowed(k)
    BY <1>b DEF Allowed
  <2>2. QED
    BY <1>a, <1>b, <2>1, AccountKept DEF Accounted
<1>1. ASSUME NEW k \in Calls, Call(k) PROVE Accounted'
  <2>1. /\ client'.pc = "auth" /\ client'.call = k /\ client'.attempt = 0
        /\ client.pc = "idle" /\ done[k] = "none" /\ done' = done
    BY <1>1 DEF Call, Idle
  <2>2. \A j \in Calls : Allowed(j)' = Allowed(j)
    BY <2>1 DEF Allowed
  <2>3. requests' = requests /\ effects' = effects /\ answers' = answers
    BY <1>1 DEF Call, server
  <2>4. QED
    BY <1>a, <2>1, <2>2, <2>3, AccountKept
<1>2. CASE Backoff
  <2>1. /\ client.pc = "retry" /\ done' = done
        /\ client' = [client EXCEPT !.pc = "auth", !.attempt = client.attempt + 1]
        /\ requests' = requests /\ effects' = effects /\ answers' = answers
    BY <1>2 DEF Backoff, server
  <2>2. /\ client'.pc = "auth" /\ client'.call = client.call
        /\ client'.attempt = client.attempt + 1 /\ client.attempt \in Nat
    BY <1>0, <2>1 DEF ClientState, Attempts
  <2>3. QED
    BY <2>1, <2>2, MoveAccount, AccountKept
<1>3. CASE Send
  BY <1>3, SendAccount
<1>4. CASE ConnectionFails
  <2>1. /\ requests' = requests /\ effects' = effects /\ answers' \subseteq answers
        /\ Retry /\ client.pc \notin {"idle", "retry"}
    BY <1>4 DEF ConnectionFails, Reset, server
  <2>2. QED
    BY <2>1, RetryAccount, AccountKept
<1>5. ASSUME NEW a \in answers, Discard(a) PROVE Accounted'
  BY <1>5, <1>b DEF Discard, server
<1>6. ASSUME NEW a \in answers, Receive(a) PROVE Accounted'
  <2>1. requests' = requests /\ effects' = effects /\ answers' \subseteq answers
    BY <1>6 DEF Receive, server
  <2>2. QED
    BY <1>6, <2>1, ReceiveAccount, AccountKept
<1>7. CASE ReceiveGarbage
  <2>1. /\ requests' = requests /\ effects' = effects /\ answers' = answers
        /\ Finish("protocol") /\ "protocol" \in Outcome
    BY <1>7 DEF ReceiveGarbage, server, Outcome
  <2>2. QED
    BY <2>1, FinishAccount, AccountKept
<1>8. \A r \in requests : r.call \in Calls
  BY <1>0 DEF TypeOK, Request
<1>9. ASSUME NEW r \in requests, Login(r) PROVE Accounted'
  <2>1. /\ requests' = requests \ {r} /\ effects' = effects
        /\ client' = client /\ done' = done
        /\ Reply(r, "granted") \/ Reply(r, "denied")
    BY <1>9 DEF Login
  <2>2. QED
    BY <1>8, <2>1, ServerAccount
<1>10. ASSUME NEW r \in requests, NEW effect \in BOOLEAN,
              NEW what \in {"value", "odd", "error"}, Execute(r, effect, what)
       PROVE  Accounted'
  <2>1. /\ requests' = requests \ {r} /\ r.kind = "method" /\ Reply(r, what)
        /\ client' = client /\ done' = done
        /\ \/ effects' = effects /\ what # "value"
           \/ effects' = [effects EXCEPT ![r.call] = @ + 1]
    BY <1>10 DEF Execute
  <2>2. QED
    BY <1>8, <2>1, ServerAccount
<1>11. ASSUME NEW r \in requests, Refuse(r) PROVE Accounted'
  <2>1. /\ requests' = requests \ {r} /\ effects' = effects /\ Reply(r, "error")
        /\ client' = client /\ done' = done
    BY <1>11 DEF Refuse
  <2>2. QED
    BY <1>8, <2>1, ServerAccount
<1>12. CASE Revoke
  BY <1>12, <1>b DEF Revoke
<1>13. CASE Close
  BY <1>13, <1>b DEF Close, Reset, server
<1>14. CASE UNCHANGED vars
  BY <1>14, <1>b DEF vars, server
<1>15. QED
  BY <1>1, <1>2, <1>3, <1>4, <1>5, <1>6, <1>7, <1>9, <1>10, <1>11, <1>12, <1>13, <1>14
     DEF Next, ClientStep, ServerStep

\* How the end of a call shows in the contract.
LEMMA FinishMaps ==
    ASSUME TypeInv, Accounted, NEW o \in Outcome, o # "none", Finish(o),
           client.pc # "idle", effects' = effects,
           o = "result" => effects[client.call] > 0
    PROVE  Contract!Next
<1> DEFINE k == client.call
           bar == [j \in Calls |-> CallState(j)]
           to == IF o = "result" THEN "returned" ELSE "raised"
<1>0. /\ k \in Calls /\ done \in [Calls -> Outcome] /\ done[k] = "none"
      /\ done' = [done EXCEPT ![k] = o] /\ client'.pc = "idle"
  BY DEF TypeInv, TypeOK, ClientState, Accounted, Finish, Idle
<1>1. bar[k] = "open"
  BY <1>0 DEF CallState
<1>2. \A j \in Calls : CallState(j)' = IF j = k THEN to ELSE CallState(j)
  BY <1>0 DEF CallState
<1>3. bar' = [bar EXCEPT ![k] = to]
  BY <1>0, <1>2
<1>4. CASE o = "result"
  <2>1. Contract!Return(k)
    BY <1>1, <1>3, <1>4 DEF Contract!Return
  <2>2. QED
    BY <1>0, <2>1 DEF Contract!Next
<1>5. CASE o # "result"
  <2>1. Contract!Raise(k)
    BY <1>1, <1>3, <1>5 DEF Contract!Raise
  <2>2. QED
    BY <1>0, <2>1 DEF Contract!Next
<1>6. QED
  BY <1>4, <1>5

\* A request that TrueNAS executes was sent for a call that had been made, and
\* the attempts leave room for it.
LEMMA ExecuteMaps ==
    ASSUME TypeInv, Accounted, NEW r \in requests, r.kind = "method",
           effects' = [effects EXCEPT ![r.call] = @ + 1], client' = client, done' = done
    PROVE  Contract!Next
<1> DEFINE k == r.call
           bar == [j \in Calls |-> CallState(j)]
<1>0. k \in Calls /\ effects \in [Calls -> Nat] /\ RetryAttempts \in Nat
  BY TransportAssumption DEF TypeInv, TypeOK, Request
<1>1. /\ IsFiniteSet(Pending(k)) /\ Cardinality(Pending(k)) \in Nat
      /\ effects[k] + Cardinality(Pending(k)) <= Allowed(k)
      /\ effects[k] \in Nat /\ Allowed(k) \in 0 .. RetryAttempts + 1
  BY <1>0, PendingCount, AllowedBound DEF Accounted
<1>2. Cardinality(Pending(k)) # 0
  <2>1. r \in Pending(k)
    BY DEF Pending
  <2>2. QED
    BY <1>1, <2>1, FS_EmptySet
<1>3. effects[k] < RetryAttempts + 1 /\ Allowed(k) # 0
  BY <1>0, <1>1, <1>2
<1>4. CallState(k) # "none"
  BY <1>3 DEF Allowed, CallState
<1>5. bar' = bar
  BY DEF CallState
<1>6. Contract!Effect(k)
  BY <1>0, <1>3, <1>4, <1>5 DEF Contract!Effect
<1>7. QED
  BY <1>0, <1>6 DEF Contract!Next

\* Every step of the transport is a step of the contract or none.
LEMMA StepMaps ==
    ASSUME TypeInv, Numbered, Accounted, [Next]_vars
    PROVE  [Contract!Next]_<<[k \in Calls |-> CallState(k)], effects>>
<1> DEFINE bar == [k \in Calls |-> CallState(k)]
           Goal == Contract!Next \/ (bar' = bar /\ effects' = effects)
<1> SUFFICES Goal
  OBVIOUS
<1>0. client \in ClientState /\ TypeOK
  BY DEF TypeInv, TypeOK
<1>a. ASSUME done' = done, client'.call = client.call, effects' = effects,
             client'.pc = "idle" <=> client.pc = "idle"
      PROVE  Goal
  BY <1>a DEF CallState
<1>1. ASSUME NEW k \in Calls, Call(k) PROVE Goal
  <2>1. /\ client.pc = "idle" /\ done[k] = "none" /\ done' = done /\ effects' = effects
        /\ client'.pc = "auth" /\ client'.call = k
    BY <1>1 DEF Call, Idle, server
  <2>2. CallState(k) = "none"
    BY <2>1 DEF CallState
  <2>3. \A j \in Calls : CallState(j)' = IF j = k THEN "open" ELSE CallState(j)
    BY <2>1 DEF CallState
  <2>4. bar' = [bar EXCEPT ![k] = "open"]
    BY <2>3
  <2>5. Contract!Open(k)
    BY <2>1, <2>2, <2>4 DEF Contract!Open
  <2>6. QED
    BY <2>5 DEF Contract!Next
<1>2. CASE Backoff
  BY <1>0, <1>2, <1>a DEF Backoff, ClientState, server
<1>3. CASE Send
  <2>1. client.pc # "idle" /\ done' = done /\ effects' = effects
    BY <1>3 DEF Send
  <2>2. client'.pc # "idle" /\ client'.call = client.call
    BY <1>0, <1>3, SendResult
  <2>3. QED
    BY <1>a, <2>1, <2>2
<1>4. CASE ConnectionFails
  <2>0. client.pc # "idle" /\ effects' = effects /\ Retry
    BY <1>4 DEF ConnectionFails, server
  <2>1. CASE client.attempt < RetryAttempts
    <3>1. client' = [client EXCEPT !.pc = "retry"] /\ done' = done
      BY <2>0, <2>1 DEF Retry
    <3>2. client'.pc = "retry" /\ client'.call = client.call
      BY <1>0, <3>1 DEF ClientState
    <3>3. QED
      BY <1>a, <2>0, <3>1, <3>2
  <2>2. CASE ~ (client.attempt < RetryAttempts)
    <3>1. Finish("connection") /\ "connection" \in Outcome
      BY <2>0, <2>2 DEF Retry, Outcome
    <3>2. QED
      BY <2>0, <3>1, FinishMaps
  <2>3. QED
    BY <2>1, <2>2
<1>5. ASSUME NEW a \in answers, Receive(a) PROVE Goal
  <2>0. client.pc # "idle" /\ effects' = effects /\ a.id = client.id
    BY <1>5 DEF Receive, server, Matches
  <2>1. ASSUME NEW o \in Outcome, o \notin {"none", "result"}, Finish(o) PROVE Goal
    BY <2>0, <2>1, FinishMaps
  <2>2. CASE Finish("result") /\ client.pc = "wait_method" /\ a.what \in {"granted", "value"}
    <3>1. a.call = client.call /\ a.what = "value"
      BY <2>0, <2>2 DEF Numbered
    <3>2. effects[client.call] > 0
      BY <3>1 DEF Accounted
    <3>3. QED
      BY <2>0, <2>2, <3>2, FinishMaps DEF Outcome
  <2>3. CASE /\ client.pc = "wait_auth" /\ client' = [client EXCEPT !.pc = "method"]
             /\ done' = done
    <3>1. client'.pc = "method" /\ client'.call = client.call
      BY <1>0, <2>3 DEF ClientState
    <3>2. QED
      BY <1>a, <2>0, <2>3, <3>1
  <2>4. QED
    BY <1>0, <1>5, <2>1, <2>2, <2>3, ReceiveCases
<1>6. CASE ReceiveGarbage
  <2>1. /\ client.pc # "idle" /\ effects' = effects
        /\ Finish("protocol") /\ "protocol" \in Outcome
    BY <1>6 DEF ReceiveGarbage, server, Outcome
  <2>2. QED
    BY <2>1, FinishMaps
<1>7. ASSUME NEW r \in requests, NEW effect \in BOOLEAN,
             NEW what \in {"value", "odd", "error"}, Execute(r, effect, what)
      PROVE  Goal
  <2>1. /\ r.kind = "method" /\ client' = client /\ done' = done
        /\ effects' = effects \/ effects' = [effects EXCEPT ![r.call] = @ + 1]
    BY <1>7 DEF Execute
  <2>2. QED
    BY <1>a, <2>1, ExecuteMaps
<1>8. CASE client' = client /\ done' = done /\ effects' = effects
  BY <1>8, <1>a
<1>9. QED
  BY <1>1, <1>2, <1>3, <1>4, <1>5, <1>6, <1>7, <1>8
     DEF Next, ClientStep, ServerStep, Discard, Login, Refuse, Revoke, Close, vars, server

\* The clients of TrueNAS keep what module RemoteCall promises the publish
\* workflow: a call that returns was executed, a call is executed at most once
\* per attempt (TRUENAS_RETRY_ATTEMPTS and the first), and a call that was
\* never made is never executed.
THEOREM TransportImplementsContract == Spec => ImplementsRemoteCall
<1>1. Init => RefInv
  <2> SUFFICES ASSUME Init PROVE RefInv
    OBVIOUS
  <2>1. TypeInv /\ Numbered
    BY InitType DEF Init, Idle, Numbered
  <2>2. IsFiniteSet(requests)
    BY FS_EmptySet DEF Init
  <2>3. ASSUME NEW k \in Calls
        PROVE  effects[k] + Cardinality(Pending(k)) <= Allowed(k)
    <3>1. Pending(k) = {}
      BY DEF Init, Pending
    <3>2. effects[k] = 0 /\ Cardinality(Pending(k)) = 0 /\ Allowed(k) = 0
      BY <3>1, FS_EmptySet DEF Init, Idle, Allowed
    <3>3. QED
      BY <3>2
  <2>4. QED
    BY <2>1, <2>2, <2>3 DEF RefInv, Accounted, Init, Idle
<1>2. RefInv /\ [Next]_vars => RefInv'
  BY TypeStep, NumberedStep, AccountStep DEF RefInv, TypeInv
<1>3. Init => Contract!Init
  BY DEF Init, Contract!Init, CallState, Idle
<1>4. RefInv /\ [Next]_vars => [Contract!Next]_<<[k \in Calls |-> CallState(k)], effects>>
  BY StepMaps DEF RefInv
<1>5. QED
  BY <1>1, <1>2, <1>3, <1>4, PTL DEF Spec, ImplementsRemoteCall, Contract!Spec

=============================================================================
