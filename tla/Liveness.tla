------------------------------ MODULE Liveness ------------------------------
(***************************************************************************)
(* How a silent connection is noticed: the LivenessPolicy of crates/       *)
(* rocketsocket-realtime/src/liveness.rs and the one timer of the runner   *)
(* that drives it together with the handshake budget (arm_timer and        *)
(* on_deadline of connection.rs).                                          *)
(*                                                                         *)
(* Time is counted in ticks.  The runner gets to a timer that is due       *)
(* within Delay ticks: the runtime polls it in time, and the reads and     *)
(* commands that poll_step prefers run dry for that long.                  *)
(***************************************************************************)
EXTENDS Integers

CONSTANTS
  PingAfter,         \* Config::ping_after
  DeadAfter,         \* Config::dead_after
  HandshakeTimeout,  \* Config::handshake_timeout
  Delay,             \* how late the runner may get to its timer
  MaxTime            \* bound: time stops there

ASSUME LivenessAssumption ==
  /\ PingAfter \in Nat /\ DeadAfter \in Nat /\ HandshakeTimeout \in Nat
  /\ Delay \in Nat /\ MaxTime \in Nat
  /\ PingAfter < DeadAfter           \* asserted by with_thresholds

VARIABLES
  now,
  lastSeen,      \* LivenessPolicy::last_seen
  pingInFlight,  \* LivenessPolicy::ping_in_flight
  budget,        \* Runner::handshake_deadline is set, to HandshakeTimeout
  ready,         \* the session's phase is Ready
  timer,         \* when Runner::timer fires
  waited,        \* for how many ticks the timer has been due
  outcome,       \* "open", or why drive returned
  probes,        \* history: pings sent since the last frame
  lastText       \* history: when the last text frame arrived

policyVars == <<lastSeen, pingInFlight>>
vars == <<now, policyVars, budget, ready, timer, waited, outcome, probes, lastText>>

Outcomes == {"open", "handshake", "dead"}

Idle == now - lastSeen

Later(a, b) == IF a < b THEN b ELSE a
Earlier(a, b) == IF a < b THEN a ELSE b

\* LivenessPolicy::next_deadline, of the policy as a step leaves it.
NextDeadline(seen, inFlight) ==
  seen + Later(IF inFlight THEN DeadAfter ELSE PingAfter, now - seen)

\* Mutant: once a ping is out, the timer is armed for the next ping.
ArmTimerForPing ==
  /\ timer' = LET liveness == NextDeadline(lastSeen', FALSE)
              IN IF budget' THEN Earlier(liveness, HandshakeTimeout) ELSE liveness
  /\ waited' = IF timer' > now THEN 0 ELSE waited

\* Mutant: the timer is armed for the end only.
ArmTimerForDeath ==
  /\ timer' = LET liveness == NextDeadline(lastSeen', TRUE)
              IN IF budget' THEN Earlier(liveness, HandshakeTimeout) ELSE liveness
  /\ waited' = IF timer' > now THEN 0 ELSE waited

\* Mutant: without the minimum, the liveness deadline hides the budget.
ArmTimerForLiveness ==
  /\ timer' = NextDeadline(lastSeen', pingInFlight')
  /\ waited' = IF timer' > now THEN 0 ELSE waited

\* Runner::arm_timer, run at the end of every step of drive.
ArmTimer ==
  /\ timer' = LET liveness == NextDeadline(lastSeen', pingInFlight')
              IN IF budget' THEN Earlier(liveness, HandshakeTimeout) ELSE liveness
  /\ waited' = IF timer' > now THEN 0 ELSE waited

Init ==
  /\ now = 0
  /\ lastSeen = 0 /\ pingInFlight = FALSE
  /\ budget = TRUE
  /\ ready = FALSE
  /\ timer = Earlier(NextDeadline(0, FALSE), HandshakeTimeout)
  /\ waited = 0
  /\ outcome = "open"
  /\ probes = 0
  /\ lastText = 0

Tick ==
  /\ outcome = "open"
  /\ now < MaxTime
  /\ now >= timer => waited < Delay
  /\ waited' = IF now >= timer THEN waited + 1 ELSE 0
  /\ now' = now + 1
  /\ UNCHANGED <<policyVars, budget, ready, timer, outcome, probes, lastText>>

\* Mutant: an answered ping still counts as outstanding.
SawTrafficOnly ==
  /\ lastSeen' = now
  /\ probes' = 0
  /\ UNCHANGED pingInFlight

\* LivenessPolicy::saw_traffic.
SawTraffic ==
  /\ lastSeen' = now
  /\ pingInFlight' = FALSE
  /\ probes' = 0

\* A text frame; it may be the answer to the login.
TextFrame(login) ==
  /\ outcome = "open"
  /\ SawTraffic
  /\ lastText' = now
  /\ ready' = (ready \/ login)
  /\ budget' = (budget /\ ~ login)
  /\ UNCHANGED <<now, outcome>>
  /\ ArmTimer

\* A websocket ping, pong or binary frame.
OtherFrame ==
  /\ outcome = "open"
  /\ SawTraffic
  /\ UNCHANGED <<now, budget, ready, outcome, lastText>>
  /\ ArmTimer

\* A command re-arms the timer too.
Command ==
  /\ outcome = "open"
  /\ UNCHANGED <<now, policyVars, budget, ready, outcome, probes, lastText>>
  /\ ArmTimer

\* Runner::on_deadline.
HandshakeOver == ~ ready /\ budget /\ now >= HandshakeTimeout

GiveUpHandshake ==
  /\ outcome' = "handshake"
  /\ UNCHANGED <<policyVars, budget, timer, waited, probes>>

\* LivenessPolicy::poll.
Die ==
  /\ Idle >= DeadAfter
  /\ outcome' = "dead"
  /\ budget' = (budget /\ ~ ready)
  /\ UNCHANGED <<policyVars, timer, waited, probes>>

\* Mutant: the policy does not remember that it asked for a ping.
ProbeForgotten ==
  /\ Idle >= PingAfter /\ Idle < DeadAfter
  /\ ~ pingInFlight
  /\ probes' = probes + 1
  /\ budget' = (budget /\ ~ ready)
  /\ UNCHANGED <<policyVars, outcome>>
  /\ ArmTimer

Probe ==
  /\ Idle >= PingAfter /\ Idle < DeadAfter
  /\ ~ pingInFlight
  /\ pingInFlight' = TRUE
  /\ probes' = probes + 1
  /\ budget' = (budget /\ ~ ready)
  /\ UNCHANGED <<lastSeen, outcome>>
  /\ ArmTimer

Healthy ==
  /\ Idle < DeadAfter
  /\ Idle < PingAfter \/ pingInFlight
  /\ budget' = (budget /\ ~ ready)
  /\ UNCHANGED <<policyVars, outcome, probes>>
  /\ ArmTimer

OnDeadline ==
  /\ outcome = "open"
  /\ now >= timer
  /\ \/ HandshakeOver /\ GiveUpHandshake
     \/ ~ HandshakeOver /\ (Die \/ Probe \/ Healthy)
  /\ UNCHANGED <<now, ready, lastText>>

Next ==
  \/ Tick
  \/ \E login \in BOOLEAN : TextFrame(login)
  \/ OtherFrame
  \/ Command
  \/ OnDeadline

Spec == Init /\ [][Next]_vars

-----------------------------------------------------------------------------
TypeOK ==
  /\ now \in Nat /\ lastSeen \in Nat /\ lastText \in Nat /\ timer \in Nat /\ waited \in 0..Delay /\ probes \in Nat
  /\ pingInFlight \in BOOLEAN /\ budget \in BOOLEAN /\ ready \in BOOLEAN
  /\ outcome \in Outcomes

\* The deadline that binds, before arm_timer raises it to the present.
DueOf(seen, inFlight, open) ==
  LET liveness == seen + (IF inFlight THEN DeadAfter ELSE PingAfter)
  IN IF open THEN Earlier(liveness, HandshakeTimeout) ELSE liveness

Due == DueOf(lastSeen, pingInFlight, budget)

(* The policy and the timer agree: a timer that lies in the future is the  *)
(* deadline that binds, and that deadline has passed for no longer than    *)
(* the timer has been due (arm_timer after every step of drive).           *)
LivenessInvariant ==
  /\ TypeOK
  /\ lastSeen <= now
  /\ probes = IF pingInFlight THEN 1 ELSE 0
  /\ budget <=> ~ ready
  /\ outcome = "open" => /\ now <= Due + waited
                         /\ timer > now => timer = Due /\ waited = 0
  /\ outcome = "dead" => pingInFlight \/ DeadAfter <= PingAfter + Delay

(* A server that struggles is not buried in pings: one per silent stretch, *)
(* however often commands and timers have the policy polled again.         *)
OneProbePerSilence == probes <= 1

(* No connection is given up for silence without having been probed, as    *)
(* long as the runner is not polled later than the two thresholds lie      *)
(* apart (the assertion of with_thresholds).                               *)
ProbedBeforeDead == outcome = "dead" /\ PingAfter + Delay < DeadAfter => probes = 1

(* Silence is noticed: no timer ever lies beyond the point where the       *)
(* connection has to be given up, whatever re-armed it last.               *)
SilenceBounded ==
  outcome = "open" =>
    /\ now <= lastSeen + DeadAfter + Delay
    /\ ~ ready => now <= HandshakeTimeout + Delay

(* A deadline that leaves the connection open moves the timer into the     *)
(* future: drive does not spin (next_deadline).                            *)
NoSpin == [][OnDeadline /\ outcome' = "open" => timer' > now]_vars

=============================================================================
