----------------------------- MODULE Lifecycle -----------------------------
(***************************************************************************)
(* What a connection promises to those who watch it, and nothing about how *)
(* it keeps the promise: the state shown by Connection::state and the last *)
(* lifecycle event on the stream of Connection::events, as documented on   *)
(* ConnectionState and Event in connection.rs.  Ready and Resubscribe are  *)
(* always emitted together and are one event here; Frame and Lagged are    *)
(* not lifecycle events.                                                   *)
(***************************************************************************)
VARIABLES
  state,   \* the ConnectionState observers see
  event    \* the last lifecycle event emitted, "none" before the first

lifecycleVars == <<state, event>>

Init ==
  /\ state = "Disconnected"
  /\ event = "none"

Attempt ==
  /\ state = "Disconnected"
  /\ event \in {"none", "Disconnected"}
  /\ state' = "Connecting"
  /\ event' = "Connecting"

Opened ==
  /\ state = "Connecting"
  /\ state' = "Handshaking"
  /\ UNCHANGED event

Greeted ==
  /\ state = "Handshaking"
  /\ event = "Connecting"
  /\ state' = "Authenticating"
  /\ event' = "Connected"

LoggedIn ==
  /\ state = "Authenticating"
  /\ event = "Connected"
  /\ state' = "Ready"
  /\ event' = "Resubscribe"

(* Every end of a connection that will be retried is announced.            *)
Lost ==
  /\ state \in {"Connecting", "Handshaking", "Authenticating", "Ready"}
  /\ state' = "Disconnected"
  /\ event' = "Disconnected"

Refused ==
  /\ state \in {"Handshaking", "Authenticating"}
  /\ state' = "Fatal"
  /\ UNCHANGED event

(* Event::Fatal is the last event: nothing follows it.                     *)
Report ==
  /\ state = "Fatal"
  /\ event # "Fatal"
  /\ event' = "Fatal"
  /\ UNCHANGED state

Close ==
  /\ state \in {"Disconnected", "Handshaking", "Authenticating", "Ready"}
  /\ state' = "Closed"
  /\ UNCHANGED event

Next ==
  \/ Attempt \/ Opened \/ Greeted \/ LoggedIn
  \/ Lost \/ Refused \/ Report \/ Close

Spec == Init /\ [][Next]_lifecycleVars

=============================================================================
