----------------------------- MODULE RemoteCall -----------------------------
(***************************************************************************)
(* What a caller of the TrueNAS clients may rely on.  A call that returns  *)
(* was executed.  A call that raises says nothing: it may have been        *)
(* executed any number of times up to a bound, and copies of it may be     *)
(* executed after the caller has given up, or even after it has its        *)
(* answer.  Module TrueNASPublish is written against this contract         *)
(* (`executed`, `raised` and `pending` there), module JsonRpcTransport     *)
(* implements it.                                                          *)
(***************************************************************************)
EXTENDS Naturals

CONSTANTS
    Calls,      \* calls of the application
    MaxEffects  \* how often one call may be executed

VARIABLES
    state,    \* what the caller knows of each call
    effects   \* how often TrueNAS has executed it

Init ==
    /\ state = [k \in Calls |-> "none"]
    /\ effects = [k \in Calls |-> 0]

\* The application makes the call.
Open(k) ==
    /\ state[k] = "none"
    /\ state' = [state EXCEPT ![k] = "open"]
    /\ UNCHANGED effects

\* TrueNAS executes it.
Effect(k) ==
    /\ state[k] # "none"
    /\ effects[k] < MaxEffects
    /\ effects' = [effects EXCEPT ![k] = @ + 1]
    /\ UNCHANGED state

\* The caller gets the result.
Return(k) ==
    /\ state[k] = "open"
    /\ effects[k] > 0
    /\ state' = [state EXCEPT ![k] = "returned"]
    /\ UNCHANGED effects

\* The caller gets an exception.
Raise(k) ==
    /\ state[k] = "open"
    /\ state' = [state EXCEPT ![k] = "raised"]
    /\ UNCHANGED effects

Next == \E k \in Calls : Open(k) \/ Effect(k) \/ Return(k) \/ Raise(k)

Spec == Init /\ [][Next]_<<state, effects>>

=============================================================================
