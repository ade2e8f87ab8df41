------------------------------- MODULE Pacing -------------------------------
(***************************************************************************)
(* When the runner tries again: Backoff of crates/rocketsocket-realtime/   *)
(* src/backoff.rs and the reconnect loop of connection.rs around it.  A    *)
(* connection that stands is the policy of module Liveness, started afresh *)
(* on every socket; this module adds what lies between two sockets.        *)
(***************************************************************************)
EXTENDS Liveness

CONSTANTS
  Base, Cap,     \* Backoff::base and cap, in ticks
  Width,         \* bits of the counter and of the factor, 32 in the code
  StableAfter,   \* Config::stable_after
  MaxFailures    \* bound: failures in a row

\* 1u32.checked_shl: a bit moved n places up.
Doubled[n \in Nat] == IF n = 0 THEN 1 ELSE 2 * Doubled[n - 1]

MaxWord == Doubled[Width] - 1

ASSUME PacingAssumption ==
  /\ Base \in Nat \ {0} /\ Cap \in Nat /\ Width \in Nat \ {0}
  /\ StableAfter \in Nat /\ MaxFailures \in Nat
  /\ Cap <= Base * MaxWord   \* 64 s and 2^32 - 1 s in the code

VARIABLES
  loop,       \* where run is
  attempt,    \* Backoff::attempt
  window,     \* the window of the last delay
  delay,      \* the delay drawn from it
  readyAt,    \* Runner::ready_at, or Never
  failures,   \* history: connections since one was stable
  readyFor    \* history: for how many ticks the last connection was Ready

pacingVars ==
  <<vars, loop, attempt, window, delay, readyAt, failures, readyFor>>

Never == -1
LoopStates == {"paused", "opening", "driving", "over"}

\* u32::saturating_add, and the saturated factor of the window.
Saturated(n) == Earlier(n, MaxWord)
Factor(n) == IF n <= Width THEN Doubled[n - 1] ELSE MaxWord
\* Mutant: the counter wraps.
CountedWrapping(n) == (n + 1) % (MaxWord + 1)
Counted(n) == Saturated(n + 1)

\* The window next_delay draws from at the n-th call since a reset.
Window(n) == IF n = 0 THEN 0 ELSE Earlier(Base * Factor(n), Cap)

\* Backoff::next_delay at the head of the loop; without a delay the socket
\* is opened at once.
NextDelay(n) ==
  /\ window' = Window(n)
  /\ attempt' = Counted(n)
  /\ delay' \in 0..window'
  /\ loop' = IF delay' = 0 THEN "opening" ELSE "paused"

PacingInit ==
  /\ Init
  /\ attempt = Counted(0) /\ window = Window(0) /\ delay = 0
  /\ loop = "opening"
  /\ readyAt = Never
  /\ failures = 0 /\ readyFor = 0

\* The session did real work before dying.
EarnsReset == readyAt # Never /\ now - readyAt >= StableAfter

\* Runner::disconnected, and the loop from its head.
Retry ==
  /\ NextDelay(IF EarnsReset THEN 0 ELSE attempt)
  /\ readyAt' = Never

Failed(stable) ==
  /\ failures' = IF stable THEN 0 ELSE failures + 1
  /\ failures' <= MaxFailures

Wake ==
  /\ loop = "paused"
  /\ loop' = "opening"
  /\ UNCHANGED <<vars, attempt, window, delay, readyAt, failures, readyFor>>

\* connect_async fails or times out.
OpenFails ==
  /\ loop = "opening"
  /\ Retry
  /\ Failed(FALSE)
  /\ readyFor' = 0
  /\ UNCHANGED vars

\* The clock of Liveness is counted from the socket on.
OpenSucceeds ==
  /\ loop = "opening"
  /\ loop' = "driving"
  /\ now' = 0 /\ lastSeen' = 0 /\ pingInFlight' = FALSE
  /\ budget' = TRUE /\ ready' = FALSE
  /\ timer' = Earlier(NextDeadline(0, FALSE)', HandshakeTimeout)
  /\ waited' = 0 /\ outcome' = "open" /\ probes' = 0 /\ lastText' = 0
  /\ readyFor' = 0
  /\ UNCHANGED <<attempt, window, delay, readyAt, failures>>

Drive ==
  /\ loop = "driving"
  /\ Next
  /\ readyAt' = IF ready' /\ ~ ready THEN now ELSE readyAt
  /\ readyFor' = IF ready /\ now' > now THEN readyFor + 1 ELSE readyFor
  /\ UNCHANGED <<loop, attempt, window, delay, failures>>

\* Outcome::Closed: given up by on_deadline, or the socket ends or fails.
Closed ==
  /\ loop = "driving"
  /\ Retry
  /\ Failed(ready /\ readyFor >= StableAfter)
  /\ UNCHANGED <<vars, readyFor>>

\* A shutdown or the last handle dropped; a login refused for good.
Stop ==
  /\ loop = "paused" \/ (loop = "driving" /\ outcome = "open")
  /\ loop' = "over"
  /\ UNCHANGED <<vars, attempt, window, delay, readyAt, failures, readyFor>>

PacingNext ==
  \/ Wake
  \/ OpenFails
  \/ OpenSucceeds
  \/ Drive
  \/ Closed
  \/ Stop

PacingSpec == PacingInit /\ [][PacingNext]_pacingVars

-----------------------------------------------------------------------------
(* What the loop and the policy agree on: the counter and the window are   *)
(* those of the failures so far, only a driven connection has become       *)
(* Ready, and it has been so for as long as its clock says.                *)
PacingInvariant ==
  /\ LivenessInvariant
  /\ loop \in LoopStates /\ failures \in Nat /\ readyFor \in Nat
  /\ attempt = Saturated(failures + 1)
  /\ window = Window(Saturated(failures))
  /\ delay \in 0..window
  /\ loop \in {"paused", "opening"} => readyAt = Never
  /\ loop = "driving" =>
       IF ready THEN readyAt \in Nat /\ now = readyAt + readyFor
                ELSE readyAt = Never /\ readyFor = 0

(* The window before an attempt doubles with every connection in a row     *)
(* that was not Ready for stable_after, up to the cap, for as long as the  *)
(* outage lasts: no counter wraps to a short window, and neither a login   *)
(* that is dropped at once nor a session of an earlier outage earns an     *)
(* immediate retry (Backoff::next_delay, Runner::disconnected).            *)
PacedRetries ==
  /\ window = IF failures = 0 THEN 0 ELSE Earlier(Base * Doubled[failures - 1], Cap)
  /\ delay \in 0..window

=============================================================================
