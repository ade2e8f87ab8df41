CONSTANTS
  PingAfter = 3
  DeadAfter = 5
  HandshakeTimeout = 4
  Delay = 1
  MaxTime = 16
  Base = 1
  Cap = 5
  Width = 3
  StableAfter = 4
  MaxFailures = 9
SPECIFICATION PacingSpec
CHECK_DEADLOCK FALSE
INVARIANT PacingInvariant
INVARIANT OneProbePerSilence
INVARIANT ProbedBeforeDead
INVARIANT SilenceBounded
INVARIANT PacedRetries
PROPERTY NoSpin
