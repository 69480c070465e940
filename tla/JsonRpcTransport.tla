-------------------------- MODULE JsonRpcTransport --------------------------
(***************************************************************************)
(* A client of TrueNAS from the application's call down to the WebSocket:  *)
(* the adapters (truenas_adapter/write.py, read_only.py) check the shape   *)
(* of a result, ApiKeyJsonRpcTransport authenticates before every request  *)
(* and repeats both when the connection fails, JsonRpcWebSocketTransport   *)
(* numbers requests, matches answers by number and drops a connection that *)
(* failed or was silent for too long.                                      *)
(*                                                                         *)
(* A client serves one execution or one HTTP request and its calls follow  *)
(* one another.  TrueNAS and the network are external: a request that was  *)
(* sent may be executed at any later time, also when its connection is     *)
(* gone; answers arrive in any order or never; a message may be garbage; a *)
(* connection may be lost; the API key may be revoked.                     *)
(***************************************************************************)
EXTENDS Naturals

CONSTANTS
    MaxCalls,       \* bound: calls made with one client
    RetryAttempts,  \* TRUENAS_RETRY_ATTEMPTS
    MaxGarbage      \* bound: messages that are not JSON-RPC

ASSUME TransportAssumption ==
    /\ MaxCalls \in Nat \ {0}
    /\ RetryAttempts \in 0..10
    /\ MaxGarbage \in Nat

Calls    == 1..MaxCalls
Attempts == 0..RetryAttempts

VARIABLES
    client,    \* the request in progress
    conn,      \* _connection: its number, 0 for None
    opened,    \* connections opened so far
    ids,       \* _next_request_id - 1
    closed,    \* _closed
    done,      \* what each call returned or raised
    requests,  \* requests TrueNAS may still execute
    answers,   \* messages on their way to the client
    sessions,  \* connections that TrueNAS holds to be authenticated
    effects,   \* how often TrueNAS has executed each call
    refused,   \* calls TrueNAS refused for want of authentication
    keyValid,  \* the API key is valid
    garbage    \* messages sent that are not JSON-RPC

server == <<requests, sessions, effects, refused, keyValid>>
vars   == <<client, conn, opened, ids, closed, done, answers, garbage, server>>

-----------------------------------------------------------------------------

\* pc: auth and method are about to be sent, or their answer is awaited;
\* retry sleeps.  id: the number of the request that is awaited.
ClientState ==
    [pc      : {"idle", "auth", "wait_auth", "method", "wait_method", "retry"},
     call    : Calls,
     attempt : Attempts,
     id      : Nat]

Idle == [pc |-> "idle", call |-> 1, attempt |-> 0, id |-> 0]

\* none: not answered yet.  result: the application has it.
Outcome == {"none", "result", "malformed", "remote", "protocol", "connection",
            "unauthenticated"}

Request == [id : Nat, conn : Nat, kind : {"auth", "method"}, call : Calls]

\* granted, denied: the answers to a login.  value, odd: a result the adapter
\* takes or finds malformed.  error: an error response.
Answer == [id : Nat, conn : Nat, call : Calls,
           what : {"granted", "denied", "value", "odd", "error"}]

Init ==
    /\ client = Idle
    /\ conn = 0
    /\ opened = 0
    /\ ids = 0
    /\ closed = FALSE
    /\ done = [k \in Calls |-> "none"]
    /\ requests = {}
    /\ answers = {}
    /\ sessions = {}
    /\ effects = [k \in Calls |-> 0]
    /\ refused = {}
    /\ keyValid = TRUE
    /\ garbage = 0

-----------------------------------------------------------------------------
(* ApiKeyJsonRpcTransport.request and the adapter around it.               *)

\* Mutant: a call whose answer could not be read is made again.
Call_AfterProtocolError(k) ==
    /\ client.pc = "idle"
    /\ done[k] \in {"none", "protocol"}
    /\ \A j \in Calls : j < k => done[j] # "none"
    /\ client' = [Idle EXCEPT !.pc = "auth", !.call = k]
    /\ UNCHANGED <<conn, opened, ids, closed, done, answers, garbage, server>>

\* The adapter makes its next call.
Call(k) ==
    /\ client.pc = "idle"
    /\ done[k] = "none"
    /\ \A j \in Calls : j < k => done[j] # "none"
    /\ client' = [Idle EXCEPT !.pc = "auth", !.call = k]
    /\ UNCHANGED <<conn, opened, ids, closed, done, answers, garbage, server>>

\* The call ends.
Finish(outcome) ==
    /\ done' = [done EXCEPT ![client.call] = outcome]
    /\ client' = Idle

\* Mutant: the socket layer repeats the request itself, on a new connection.
Retry_SameRequest ==
    IF client.attempt < RetryAttempts
    THEN /\ client' = [client EXCEPT !.attempt = @ + 1,
                         !.pc = IF client.pc \in {"auth", "wait_auth"} THEN "auth" ELSE "method"]
         /\ UNCHANGED done
    ELSE Finish("connection")

\* JSONRPCConnectionError or JSONRPCTimeoutError: both requests once more, as
\* long as attempts are left.
Retry ==
    IF client.attempt < RetryAttempts
    THEN client' = [client EXCEPT !.pc = "retry"] /\ UNCHANGED done
    ELSE Finish("connection")

\* _wait_before_retry.
Backoff ==
    /\ client.pc = "retry"
    /\ client' = [client EXCEPT !.pc = "auth", !.attempt = @ + 1]
    /\ UNCHANGED <<conn, opened, ids, closed, done, answers, garbage, server>>

-----------------------------------------------------------------------------
(* JsonRpcWebSocketTransport.request, with retry_attempts = 0.             *)

\* _reset_connection: what was on its way is lost with the connection.
Reset ==
    /\ conn' = 0
    /\ answers' = {a \in answers : a.conn # conn}

\* _get_connection and send succeed.  A number is taken first.
Send ==
    LET c == IF conn = 0 THEN opened + 1 ELSE conn
        kind == client.pc
    IN
    /\ client.pc \in {"auth", "method"}
    /\ ~closed
    /\ conn' = c
    /\ opened' = IF conn = 0 THEN opened + 1 ELSE opened
    /\ ids' = ids + 1
    /\ requests' = requests \cup
            {[id |-> ids + 1, conn |-> c, kind |-> kind, call |-> client.call]}
    /\ client' = [client EXCEPT !.id = ids + 1,
                                !.pc = IF kind = "auth" THEN "wait_auth" ELSE "wait_method"]
    /\ UNCHANGED <<closed, done, answers, garbage, sessions, effects, refused, keyValid>>

\* Mutant: nothing ends the wait for an answer that never comes.
ConnectionFails_NoTimeout ==
    /\ client.pc \in {"auth", "method"}
    /\ ids' = IF closed THEN ids ELSE ids + 1
    /\ Reset
    /\ Retry
    /\ UNCHANGED <<opened, closed, garbage, server>>

\* The transport is closed, no connection can be opened, the connection is
\* found dead on send, it is lost while waiting, or the time is up.  A number
\* was taken unless the transport was closed.
ConnectionFails ==
    /\ client.pc \in {"auth", "method", "wait_auth", "wait_method"}
    /\ ids' = IF client.pc \in {"auth", "method"} /\ ~closed THEN ids + 1 ELSE ids
    /\ Reset
    /\ Retry
    /\ UNCHANGED <<opened, closed, garbage, server>>

\* Mutant: any answer will do.
Matches_Any(a) == a.conn = conn

\* An answer that the client reads on its connection and whose number is that
\* of the request.
Matches(a) == a.conn = conn /\ a.id = client.id

\* An answer to an earlier request is read and dropped.
Discard(a) ==
    /\ client.pc \in {"wait_auth", "wait_method"}
    /\ a \in answers /\ a.conn = conn /\ ~Matches(a)
    /\ answers' = answers \ {a}
    /\ UNCHANGED <<client, conn, opened, ids, closed, done, garbage, server>>

\* The awaited answer.  A login must be answered with True; some methods are,
\* too, so a value is as good.  Errors are not repeated and leave the
\* connection open.
Receive(a) ==
    /\ client.pc \in {"wait_auth", "wait_method"}
    /\ a \in answers /\ Matches(a)
    /\ answers' = answers \ {a}
    /\ CASE a.what = "error" -> Finish("remote")
         [] a.what \in {"granted", "value"} /\ client.pc = "wait_auth" ->
                client' = [client EXCEPT !.pc = "method"] /\ UNCHANGED done
         [] a.what \in {"denied", "odd"} /\ client.pc = "wait_auth" -> Finish("unauthenticated")
         [] a.what \in {"granted", "value"} /\ client.pc = "wait_method" -> Finish("result")
         [] a.what \in {"denied", "odd"} /\ client.pc = "wait_method" -> Finish("malformed")
    /\ UNCHANGED <<conn, opened, ids, closed, garbage, server>>

\* A message that _decode_message refuses, or an answer with neither result
\* nor error.  The connection stays open, with the answer still to come.
ReceiveGarbage ==
    /\ client.pc \in {"wait_auth", "wait_method"}
    /\ garbage < MaxGarbage
    /\ garbage' = garbage + 1
    /\ Finish("protocol")
    /\ UNCHANGED <<conn, opened, ids, closed, answers, server>>

\* close, in the finally of the executor or of the HTTP request.
Close ==
    /\ client.pc = "idle"
    /\ ~closed
    /\ closed' = TRUE
    /\ Reset
    /\ UNCHANGED <<client, opened, ids, done, garbage, server>>

-----------------------------------------------------------------------------
(* TrueNAS, as the client sees it (external).                              *)

\* The answer reaches the client if its connection is still there.
Reply(r, what) ==
    answers' = IF r.conn = conn
               THEN answers \cup {[id |-> r.id, conn |-> r.conn, call |-> r.call, what |-> what]}
               ELSE answers

\* auth.login_with_api_key.
Login(r) ==
    /\ r \in requests /\ r.kind = "auth"
    /\ requests' = requests \ {r}
    /\ sessions' = IF keyValid THEN sessions \cup {r.conn} ELSE sessions
    /\ Reply(r, IF keyValid THEN "granted" ELSE "denied")
    /\ UNCHANGED <<client, conn, opened, ids, closed, done, garbage, effects, refused, keyValid>>

\* Any other method: it is executed with a result, or fails with or without
\* having had an effect.
Execute(r, effect, what) ==
    /\ r \in requests /\ r.kind = "method"
    /\ r.conn \in sessions
    /\ what \in {"value", "odd"} => effect
    /\ requests' = requests \ {r}
    /\ effects' = IF effect THEN [effects EXCEPT ![r.call] = @ + 1] ELSE effects
    /\ Reply(r, what)
    /\ UNCHANGED <<client, conn, opened, ids, closed, done, garbage, sessions, refused, keyValid>>

\* A method on a session that has not logged in.
Refuse(r) ==
    /\ r \in requests /\ r.kind = "method"
    /\ r.conn \notin sessions
    /\ requests' = requests \ {r}
    /\ refused' = refused \cup {r.call}
    /\ Reply(r, "error")
    /\ UNCHANGED <<client, conn, opened, ids, closed, done, garbage, sessions, effects, keyValid>>

\* The key is revoked.
Revoke ==
    /\ keyValid
    /\ keyValid' = FALSE
    /\ UNCHANGED <<client, conn, opened, ids, closed, done, answers, garbage,
                   requests, sessions, effects, refused>>

-----------------------------------------------------------------------------

\* What the client does, whatever TrueNAS does.
ClientStep ==
    \/ Backoff
    \/ Send
    \/ ConnectionFails
    \/ \E a \in answers : Discard(a) \/ Receive(a)

ServerStep ==
    \/ \E r \in requests :
        \/ Login(r)
        \/ \E effect \in BOOLEAN, what \in {"value", "odd", "error"} : Execute(r, effect, what)
        \/ Refuse(r)
    \/ Revoke

Next ==
    \/ \E k \in Calls : Call(k)
    \/ ClientStep
    \/ ReceiveGarbage
    \/ ServerStep
    \/ Close

\* asyncio.wait_for ends every wait, so the client always takes a step.
\* Nothing is assumed of TrueNAS or of the network.
Spec == Init /\ [][Next]_vars /\ WF_vars(ClientStep)

-----------------------------------------------------------------------------
(* Correctness.                                                            *)

\* Every variable has its type.
TypeOK ==
    /\ client \in ClientState
    /\ conn \in Nat /\ opened \in Nat /\ ids \in Nat /\ garbage \in Nat
    /\ closed \in BOOLEAN /\ keyValid \in BOOLEAN
    /\ done \in [Calls -> Outcome]
    /\ requests \subseteq Request
    /\ answers \subseteq Answer
    /\ sessions \subseteq Nat
    /\ effects \in [Calls -> Nat]
    /\ refused \subseteq Calls

\* A session that was never authenticated gets no method, however often the
\* connection under the client was replaced: the docstring of
\* ApiKeyJsonRpcTransport ("the next read cannot accidentally run on an
\* unauthenticated session").
NeverUnauthenticated == refused = {}

\* A result given to the application is the answer to that very call: never
\* the answer to its login, nor the late answer to an earlier call that was
\* left on the connection by a malformed message (_request_once).
ResultIsOwn ==
    [][\A k \in Calls :
         done[k] = "none" /\ done'[k] = "result"
            => \E a \in answers \ answers' : a.call = k /\ a.what = "value"]_vars

\* Whatever TrueNAS and the network do, every call ends, with a result or an
\* exception (asyncio.wait_for, the bounded retries).
EveryCallEnds ==
    \A k \in Calls : (client.pc # "idle" /\ client.call = k) ~> (done[k] # "none")

\* What the application may rely on.
CallState(k) ==
    IF done[k] = "result" THEN "returned"
    ELSE IF done[k] # "none" THEN "raised"
    ELSE IF client.pc # "idle" /\ client.call = k THEN "open"
    ELSE "none"

Contract == INSTANCE RemoteCall WITH
    MaxEffects <- RetryAttempts + 1,
    state      <- [k \in Calls |-> CallState(k)]

\* The transport implements the contract of module RemoteCall, against which
\* the publish workflow is written.
ImplementsRemoteCall == Contract!Spec

=============================================================================
