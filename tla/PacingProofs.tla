---------------------------- MODULE PacingProofs ----------------------------
(***************************************************************************)
(* Whatever the thresholds and however traffic, commands and timers        *)
(* interleave, a connection is probed once per silence and is not kept     *)
(* open beyond its deadlines; and whatever the words, the base and the cap *)
(* of the backoff, the retries after it are paced by the doubling window.  *)
(***************************************************************************)
EXTENDS Pacing, SubsequenceLemmas

USE LivenessAssumption

LEMMA DueType == TypeOK => Due \in Nat
BY DEF TypeOK, Due, DueOf, Earlier

(* The next deadline is the one that binds, but never one in the past.     *)
LEMMA NextDeadlineValue ==
  ASSUME NEW time \in Nat, time = now, NEW seen \in Nat, seen <= time, NEW inFlight \in BOOLEAN,
         NEW target \in Nat, target = IF inFlight THEN DeadAfter ELSE PingAfter
  PROVE  NextDeadline(seen, inFlight) = IF seen + target < time THEN time ELSE seen + target
<1>1. NextDeadline(seen, inFlight) = seen + Later(target, time - seen)
  BY DEF NextDeadline
<1>2. Later(target, time - seen) = IF target < time - seen THEN time - seen ELSE target
  BY DEF Later
<1>3. CASE target < time - seen
  BY <1>1, <1>2, <1>3
<1>4. CASE ~ (target < time - seen)
  BY <1>1, <1>2, <1>4
<1> QED BY <1>3, <1>4

LEMMA InvariantInit == Init => LivenessInvariant
<1> SUFFICES ASSUME Init PROVE LivenessInvariant
  OBVIOUS
<1>1. now = 0 /\ PingAfter \in Nat /\ 0 \in Nat /\ 0 <= 0 /\ PingAfter >= 0
  BY DEF Init
<1>2. Later(PingAfter, now - 0) = PingAfter
  BY <1>1 DEF Later
<1>3. NextDeadline(0, FALSE) = PingAfter
  BY <1>1, <1>2 DEF NextDeadline
<1>4. timer = Earlier(PingAfter, HandshakeTimeout) /\ Due = Earlier(0 + PingAfter, HandshakeTimeout)
  BY <1>3 DEF Init, Due, DueOf
<1>5. timer = Due /\ timer \in Nat
  BY <1>4 DEF Earlier
<1>6. 0 \in 0..Delay
  OBVIOUS
<1>7. TypeOK
  BY <1>5, <1>6 DEF Init, TypeOK, Outcomes
<1>8. PICK due \in Nat : due = Due
  BY <1>5
<1>9. now <= due + waited
  BY <1>8 DEF Init
<1>10. now <= Due + waited
  BY <1>8, <1>9
<1>11. lastSeen <= now /\ probes = 0 /\ ~ pingInFlight /\ budget /\ ~ ready /\ outcome = "open" /\ waited = 0
  BY DEF Init
<1> QED
  BY <1>5, <1>7, <1>10, <1>11 DEF LivenessInvariant

(* Where arm_timer leaves the timer, in terms of the fields a step of      *)
(* drive leaves behind: a timer in the future is the deadline that binds.  *)
LEMMA ArmedValue ==
  ASSUME NEW time \in Nat, time = now, NEW seen \in Nat, seen <= time,
         NEW inFlight \in BOOLEAN, NEW open \in BOOLEAN, NEW late \in 0..Delay,
         time <= DueOf(seen, inFlight, open) + late,
         NEW fires, fires = LET liveness == NextDeadline(seen, inFlight)
                            IN IF open THEN Earlier(liveness, HandshakeTimeout) ELSE liveness,
         NEW left, left = IF fires > time THEN 0 ELSE late
  PROVE  /\ fires \in Nat /\ left \in 0..Delay
         /\ time <= DueOf(seen, inFlight, open) + left
         /\ fires > time => fires = DueOf(seen, inFlight, open) /\ left = 0
<1>1. PICK target \in Nat : target = IF inFlight THEN DeadAfter ELSE PingAfter
  OBVIOUS
<1>2. PICK due \in Nat : due = seen + target
  OBVIOUS
<1>3. PICK raised \in Nat : raised = IF due < time THEN time ELSE due
  OBVIOUS
<1>4. NextDeadline(seen, inFlight) = raised
  BY <1>1, <1>2, <1>3, NextDeadlineValue
<1>5. CASE open
  <2>1. fires = IF raised < HandshakeTimeout THEN raised ELSE HandshakeTimeout
    BY <1>4, <1>5 DEF Earlier
  <2>2. DueOf(seen, inFlight, open) = IF due < HandshakeTimeout THEN due ELSE HandshakeTimeout
    BY <1>1, <1>2, <1>5 DEF DueOf, Earlier
  <2> QED BY <1>3, <2>1, <2>2
<1>6. CASE ~ open
  <2>1. fires = raised
    BY <1>4, <1>6
  <2>2. DueOf(seen, inFlight, open) = due
    BY <1>1, <1>2, <1>6 DEF DueOf
  <2> QED BY <1>3, <2>1, <2>2
<1> QED BY <1>5, <1>6

(* The same of a step that arms the timer while time stands still.         *)
LEMMA Armed ==
  ASSUME TypeOK, ArmTimer,
         lastSeen' \in Nat, pingInFlight' \in BOOLEAN, budget' \in BOOLEAN,
         lastSeen' <= now, now' = now,
         now <= DueOf(lastSeen', pingInFlight', budget') + waited
  PROVE  /\ timer' \in Nat /\ waited' \in 0..Delay
         /\ now' <= DueOf(lastSeen', pingInFlight', budget') + waited'
         /\ timer' > now' => timer' = DueOf(lastSeen', pingInFlight', budget') /\ waited' = 0
<1>1. PICK seen, inFlight, open, fires, left :
        seen = lastSeen' /\ inFlight = pingInFlight' /\ open = budget' /\ fires = timer' /\ left = waited'
  OBVIOUS
<1>2. PICK time, late : time = now /\ late = waited
  OBVIOUS
<1>3. time \in Nat /\ late \in 0..Delay
  BY <1>2 DEF TypeOK
<1>4. seen \in Nat /\ inFlight \in BOOLEAN /\ open \in BOOLEAN
  BY <1>1
<1>5. seen <= time /\ time <= DueOf(seen, inFlight, open) + late
  BY <1>1, <1>2
<1>6. fires = LET liveness == NextDeadline(seen, inFlight)
              IN IF open THEN Earlier(liveness, HandshakeTimeout) ELSE liveness
  BY <1>1 DEF ArmTimer
<1>7. left = IF fires > time THEN 0 ELSE late
  BY <1>1, <1>2 DEF ArmTimer
<1>8. /\ fires \in Nat /\ left \in 0..Delay
      /\ time <= DueOf(seen, inFlight, open) + left
      /\ fires > time => fires = DueOf(seen, inFlight, open) /\ left = 0
  BY <1>2, <1>3, <1>4, <1>5, <1>6, <1>7, ArmedValue
<1> QED BY <1>1, <1>2, <1>8

LEMMA InvariantStep == LivenessInvariant /\ [Next]_vars => LivenessInvariant'
<1> SUFFICES ASSUME LivenessInvariant, [Next]_vars PROVE LivenessInvariant'
  OBVIOUS
<1> USE DEF LivenessInvariant
<1>1. CASE Tick
  <2>1. DueOf(lastSeen', pingInFlight', budget') = Due
    BY <1>1 DEF Tick, Due, DueOf, policyVars
  <2>2. Due \in Nat
    BY DueType
  <2>3. PICK due \in Nat : due = Due
    BY <2>2
  <2>4. PICK time, late : time = now' /\ late = waited'
    OBVIOUS
  <2>5. /\ time = now + 1
        /\ late = IF now >= timer THEN waited + 1 ELSE 0
        /\ now >= timer => waited < Delay
    BY <1>1, <2>4 DEF Tick
  <2>6. now \in Nat /\ lastSeen \in Nat /\ timer \in Nat /\ waited \in 0..Delay /\ lastSeen <= now
    BY DEF TypeOK
  <2>7. now <= due + waited /\ (timer > now => timer = due /\ waited = 0)
    BY <1>1, <2>3 DEF Tick
  <2>8. /\ time \in Nat /\ late \in 0..Delay /\ lastSeen <= time
        /\ time <= due + late
        /\ timer > time => timer = due /\ late = 0
    BY <2>5, <2>6, <2>7
  <2>9. now' \in Nat /\ waited' \in 0..Delay /\ lastSeen <= now'
        /\ now' <= Due + waited' /\ (timer > now' => timer = Due /\ waited' = 0)
    BY <2>3, <2>4, <2>8
  <2>10. /\ outcome = "open"
         /\ UNCHANGED <<lastSeen, pingInFlight, budget, ready, timer, outcome, probes, lastText>>
    BY <1>1 DEF Tick, policyVars
  <2> QED BY <2>1, <2>9, <2>10 DEF TypeOK, Due
<1>2. ASSUME NEW login \in BOOLEAN, TextFrame(login) PROVE LivenessInvariant'
  <2>1. now <= DueOf(lastSeen', pingInFlight', budget') + waited
    BY <1>2 DEF TextFrame, SawTraffic, TypeOK, Due, DueOf, Earlier
  <2>2. budget' \in BOOLEAN /\ ready' \in BOOLEAN /\ (budget' <=> ~ ready')
    BY <1>2 DEF TextFrame, TypeOK
  <2>3. lastSeen' = now /\ pingInFlight' = FALSE /\ now' = now /\ lastSeen' <= now /\ now \in Nat
    BY <1>2 DEF TextFrame, SawTraffic, TypeOK
  <2>4. /\ timer' \in Nat /\ waited' \in 0..Delay
        /\ now' <= DueOf(lastSeen', pingInFlight', budget') + waited'
        /\ timer' > now' => timer' = DueOf(lastSeen', pingInFlight', budget') /\ waited' = 0
    <3>1. ArmTimer
      BY <1>2 DEF TextFrame
    <3> QED BY <2>1, <2>2, <2>3, <3>1, Armed
  <2> QED BY <1>2, <2>2, <2>3, <2>4 DEF TextFrame, SawTraffic, TypeOK, Outcomes, Due
<1>3. CASE OtherFrame
  <2>1. now <= DueOf(lastSeen', pingInFlight', budget') + waited
    BY <1>3 DEF OtherFrame, SawTraffic, TypeOK, Due, DueOf, Earlier
  <2>2. budget' = budget /\ ready' = ready /\ outcome' = outcome /\ lastText' = lastText
    BY <1>3 DEF OtherFrame
  <2>3. /\ lastSeen' = now /\ pingInFlight' = FALSE /\ probes' = 0 /\ now' = now
        /\ lastSeen' <= now /\ now \in Nat
    BY <1>3 DEF OtherFrame, SawTraffic, TypeOK
  <2>4. /\ timer' \in Nat /\ waited' \in 0..Delay
        /\ now' <= DueOf(lastSeen', pingInFlight', budget') + waited'
        /\ timer' > now' => timer' = DueOf(lastSeen', pingInFlight', budget') /\ waited' = 0
    <3>1. ArmTimer
      BY <1>3 DEF OtherFrame
    <3>2. budget' \in BOOLEAN
      BY <2>2 DEF TypeOK
    <3> QED BY <2>1, <2>3, <3>1, <3>2, Armed
  <2>5. outcome = "open"
    BY <1>3 DEF OtherFrame
  <2> QED BY <2>2, <2>3, <2>4, <2>5 DEF TypeOK, Outcomes, Due
<1>4. CASE Command
  <2>1. DueOf(lastSeen', pingInFlight', budget') = Due
    BY <1>4 DEF Command, Due, DueOf, policyVars
  <2>2. /\ timer' \in Nat /\ waited' \in 0..Delay
        /\ now' <= DueOf(lastSeen', pingInFlight', budget') + waited'
        /\ timer' > now' => timer' = DueOf(lastSeen', pingInFlight', budget') /\ waited' = 0
    BY <1>4, <2>1, Armed DEF Command, TypeOK, policyVars
  <2> QED BY <1>4, <2>2 DEF Command, TypeOK, policyVars, Outcomes, Due
<1>5. CASE OnDeadline
  <2>1. CASE HandshakeOver /\ GiveUpHandshake
    BY <1>5, <2>1 DEF OnDeadline, GiveUpHandshake, TypeOK, policyVars, Outcomes, Due
  <2>2. CASE ~ HandshakeOver /\ Die
    <3>1. ~ pingInFlight => DeadAfter <= PingAfter + Delay
      BY <1>5, <2>2 DEF OnDeadline, Die, Idle, TypeOK, Due, DueOf, Earlier
    <3>2. budget' \in BOOLEAN /\ (budget' <=> ~ ready')
      BY <1>5, <2>2 DEF OnDeadline, Die, TypeOK
    <3>3. outcome' = "dead" /\ UNCHANGED <<now, policyVars, ready, timer, waited, probes, lastText>>
      BY <1>5, <2>2 DEF OnDeadline, Die
    <3> QED BY <3>1, <3>2, <3>3 DEF TypeOK, policyVars, Outcomes, Due
  <2>3. CASE ~ HandshakeOver /\ Probe
    <3>1. now <= DueOf(lastSeen', pingInFlight', budget') + waited
      BY <1>5, <2>3 DEF OnDeadline, Probe, HandshakeOver, Idle, TypeOK, Due, DueOf, Earlier
    <3>2. /\ timer' \in Nat /\ waited' \in 0..Delay
          /\ now' <= DueOf(lastSeen', pingInFlight', budget') + waited'
          /\ timer' > now' => timer' = DueOf(lastSeen', pingInFlight', budget') /\ waited' = 0
      BY <1>5, <2>3, <3>1, Armed DEF OnDeadline, Probe, TypeOK
    <3>3. budget' \in BOOLEAN /\ (budget' <=> ~ ready')
      BY <1>5, <2>3 DEF OnDeadline, Probe, TypeOK
    <3>4. probes' = 1 /\ pingInFlight' = TRUE
      BY <2>3 DEF Probe
    <3>5. UNCHANGED <<now, lastSeen, outcome, ready, lastText>> /\ outcome = "open"
      BY <1>5, <2>3 DEF OnDeadline, Probe
    <3> QED BY <3>2, <3>3, <3>4, <3>5 DEF TypeOK, Outcomes, Due
  <2>4. CASE ~ HandshakeOver /\ Healthy
    <3>1. now <= DueOf(lastSeen', pingInFlight', budget') + waited
      BY <1>5, <2>4 DEF OnDeadline, Healthy, HandshakeOver, Idle, TypeOK, Due, DueOf, Earlier, policyVars
    <3>2. /\ timer' \in Nat /\ waited' \in 0..Delay
          /\ now' <= DueOf(lastSeen', pingInFlight', budget') + waited'
          /\ timer' > now' => timer' = DueOf(lastSeen', pingInFlight', budget') /\ waited' = 0
      BY <1>5, <2>4, <3>1, Armed DEF OnDeadline, Healthy, TypeOK, policyVars
    <3> QED BY <1>5, <2>4, <3>2 DEF OnDeadline, Healthy, TypeOK, policyVars, Outcomes, Due
  <2> QED BY <1>5, <2>1, <2>2, <2>3, <2>4 DEF OnDeadline
<1>6. CASE UNCHANGED vars
  BY <1>6 DEF vars, policyVars, TypeOK, Due, DueOf
<1> QED BY <1>1, <1>2, <1>3, <1>4, <1>5, <1>6 DEF Next

(* The policy and the timer agree in every reachable state, for all        *)
(* thresholds and delays (arm_timer after every step of drive).            *)
THEOREM PolicyHolds == Spec => []LivenessInvariant
BY InvariantInit, InvariantStep, PTL DEF Spec

LEMMA OneProbe == LivenessInvariant => OneProbePerSilence
BY DEF LivenessInvariant, OneProbePerSilence

(* One ping per silent stretch (LivenessPolicy::poll).                     *)
THEOREM ProbesOnce == Spec => []OneProbePerSilence
BY OneProbe, PolicyHolds, PTL

LEMMA ProbeBeforeDeath == LivenessInvariant => ProbedBeforeDead
BY DEF LivenessInvariant, ProbedBeforeDead, TypeOK

(* A connection is only given up for silence after a ping went unanswered  *)
(* (the assertion of LivenessPolicy::with_thresholds).                     *)
THEOREM ProbesFirst == Spec => []ProbedBeforeDead
BY ProbeBeforeDeath, PolicyHolds, PTL

(* The timer is never armed beyond either of the two deadlines.            *)
LEMMA DeadlinesBind == LivenessInvariant => SilenceBounded
<1> SUFFICES ASSUME LivenessInvariant, outcome = "open"
             PROVE  /\ now <= lastSeen + DeadAfter + Delay
                    /\ ~ ready => now <= HandshakeTimeout + Delay
  BY DEF SilenceBounded
<1> DEFINE liveness == lastSeen + (IF pingInFlight THEN DeadAfter ELSE PingAfter)
<1>1. now <= Due + waited /\ Due \in Nat
  BY DueType DEF LivenessInvariant
<1>2. waited <= Delay /\ waited \in Nat /\ now \in Nat /\ lastSeen \in Nat
  BY DEF LivenessInvariant, TypeOK
<1>3. liveness \in Nat /\ liveness <= lastSeen + DeadAfter
  BY <1>2
<1>4. Due = IF budget THEN Earlier(liveness, HandshakeTimeout) ELSE liveness
  BY DEF Due, DueOf
<1> HIDE DEF liveness
<1>5. Due <= liveness
  BY <1>3, <1>4 DEF Earlier
<1>6. ~ ready => Due <= HandshakeTimeout
  BY <1>3, <1>4 DEF LivenessInvariant, Earlier
<1> QED BY <1>1, <1>2, <1>3, <1>5, <1>6

(* Silence is noticed within dead_after, and a handshake within its        *)
(* budget, plus the delay of the runtime (Runner::on_deadline).            *)
THEOREM SilenceNoticed == Spec => []SilenceBounded
BY DeadlinesBind, PolicyHolds, PTL

(* The deadline that binds after a poll that left the connection open.     *)
LEMMA DeadlineMoves ==
  ASSUME LivenessInvariant, OnDeadline, outcome' = "open"
  PROVE  timer' > now
<1>1. /\ now \in Nat /\ lastSeen \in Nat /\ lastSeen <= now
      /\ pingInFlight \in BOOLEAN /\ budget \in BOOLEAN /\ ready \in BOOLEAN
  BY DEF LivenessInvariant, TypeOK
<1>2. ~ HandshakeOver /\ (Probe \/ Healthy)
  BY DEF OnDeadline, GiveUpHandshake, Die
<1>3. /\ lastSeen' = lastSeen /\ (budget' => budget /\ ~ ready) /\ budget' \in BOOLEAN
      /\ ArmTimer /\ pingInFlight' \in BOOLEAN
      /\ now - lastSeen < IF pingInFlight' THEN DeadAfter ELSE PingAfter
  <2>1. CASE Probe
    <3>1. pingInFlight' = TRUE /\ lastSeen' = lastSeen /\ now - lastSeen < DeadAfter
      BY <2>1 DEF Probe, Idle
    <3>2. ArmTimer /\ (budget' => budget /\ ~ ready) /\ budget' \in BOOLEAN
      BY <2>1, Zenon DEF Probe
    <3> QED BY <3>1, <3>2
  <2>2. CASE Healthy
    <3>1. /\ pingInFlight' = pingInFlight /\ lastSeen' = lastSeen /\ now - lastSeen < DeadAfter
          /\ now - lastSeen < PingAfter \/ pingInFlight
      BY <2>2 DEF Healthy, Idle, policyVars
    <3>2. ArmTimer /\ (budget' => budget /\ ~ ready) /\ budget' \in BOOLEAN
      BY <2>2, Zenon DEF Healthy
    <3> QED BY <1>1, <3>1, <3>2
  <2> QED BY <1>2, <2>1, <2>2
<1>4. PICK seen \in Nat, target \in Nat, inFlight \in BOOLEAN :
        /\ seen = lastSeen' /\ inFlight = pingInFlight'
        /\ target = IF inFlight THEN DeadAfter ELSE PingAfter
  BY <1>1, <1>3
<1>5. NextDeadline(seen, inFlight) = seen + target /\ seen + target > now
  <2>1. seen + target > now
    BY <1>1, <1>3, <1>4
  <2> QED BY <1>1, <1>3, <1>4, <2>1, NextDeadlineValue
<1>6. budget' => now < HandshakeTimeout
  <2> SUFFICES ASSUME budget' PROVE now < HandshakeTimeout
    OBVIOUS
  <2>1. ~ (now >= HandshakeTimeout)
    BY <1>2, <1>3, Zenon DEF HandshakeOver
  <2> QED BY <1>1, <2>1
<1>7. timer' = IF budget' THEN Earlier(seen + target, HandshakeTimeout) ELSE seen + target
  BY <1>3, <1>4, <1>5 DEF ArmTimer
<1> QED BY <1>4, <1>5, <1>6, <1>7 DEF Earlier

(* A deadline that leaves the connection open moves the timer into the     *)
(* future, for all thresholds: drive does not spin (next_deadline).        *)
THEOREM DeadlinesAdvance == Spec => NoSpin
<1>1. LivenessInvariant /\ [Next]_vars => [OnDeadline /\ outcome' = "open" => timer' > now]_vars
  BY DeadlineMoves
<1> QED BY <1>1, PolicyHolds, PTL DEF Spec, NoSpin

-----------------------------------------------------------------------------
(* The doubling is a recursive function over all numbers, which has to be  *)
(* shown to exist: f doubles up to the n-th number.                        *)
Doubles(f, n) == f[0] = 1 /\ \A i \in 1 .. n : f[i] = 2 * f[i - 1]

LEMMA DoublesExists == \A n \in Nat : \E f \in [0 .. n -> Nat] : Doubles(f, n)
<1> DEFINE N == {n \in Nat : \E f \in [0 .. n -> Nat] : Doubles(f, n)}
<1>1. 0 \in N
  <2>1. [i \in 0 .. 0 |-> 1] \in [0 .. 0 -> Nat] /\ Doubles([i \in 0 .. 0 |-> 1], 0)
    BY DEF Doubles
  <2> QED BY <2>1
<1>2. ASSUME NEW n \in Nat, n \in N PROVE n + 1 \in N
  <2>1. PICK f \in [0 .. n -> Nat] : Doubles(f, n)
    BY <1>2
  <2>2. PICK last \in Nat : last = 2 * f[n]
    OBVIOUS
  <2>3. PICK g : g = [i \in 0 .. n + 1 |-> IF i <= n THEN f[i] ELSE last]
    OBVIOUS
  <2>4. g \in [0 .. n + 1 -> Nat] /\ g[0] = 1
    BY <2>1, <2>3 DEF Doubles
  <2>5. ASSUME NEW i \in 1 .. n + 1 PROVE g[i] = 2 * g[i - 1]
    <3>1. CASE i <= n
      <4>1. i \in 1 .. n /\ g[i] = f[i] /\ g[i - 1] = f[i - 1]
        BY <2>3, <3>1
      <4> QED BY <2>1, <4>1 DEF Doubles
    <3>2. CASE i = n + 1
      BY <2>2, <2>3, <3>2
    <3> QED BY <3>1, <3>2
  <2>6. Doubles(g, n + 1)
    BY <2>4, <2>5 DEF Doubles
  <2>7. \E h \in [0 .. n + 1 -> Nat] : Doubles(h, n + 1)
    BY <2>4, <2>6
  <2> QED BY <2>7
<1>3. Nat \subseteq N
  <2> HIDE DEF N
  <2> QED BY <1>1, <1>2, InductionOnNat
<1> QED BY <1>3

LEMMA DoublesUnique ==
  ASSUME NEW f, NEW g, NEW m \in Nat, Doubles(f, m), Doubles(g, m)
  PROVE  \A n \in 0 .. m : f[n] = g[n]
<1> DEFINE N == {n \in Nat : n <= m => f[n] = g[n]}
<1>1. 0 \in N
  BY DEF Doubles
<1>2. ASSUME NEW n \in Nat, n \in N PROVE n + 1 \in N
  <2>1. ASSUME n + 1 <= m PROVE f[n + 1] = g[n + 1]
    <3>1. n + 1 \in 1 .. m /\ (n + 1) - 1 = n /\ f[n] = g[n]
      BY <1>2, <2>1
    <3> QED BY <3>1 DEF Doubles
  <2> QED BY <2>1
<1>3. Nat \subseteq N
  <2> HIDE DEF N
  <2> QED BY <1>1, <1>2, InductionOnNat
<1> QED BY <1>3

(* What the definition says of every number, and that it is one.           *)
LEMMA DoubledStep ==
  /\ Doubled[0] = 1
  /\ \A n \in Nat : Doubled[n] \in Nat /\ Doubled[n + 1] = 2 * Doubled[n]
<1>1. PICK f : f = [n \in Nat |-> CHOOSE g \in [0 .. n -> Nat] : Doubles(g, n)]
  OBVIOUS
<1>2. \A n \in Nat : f[n] \in [0 .. n -> Nat] /\ Doubles(f[n], n)
  BY <1>1, DoublesExists
<1>3. PICK d : d = [n \in Nat |-> f[n][n]]
  OBVIOUS
<1>4. d[0] = 1
  BY <1>2, <1>3 DEF Doubles
<1>5. ASSUME NEW n \in Nat PROVE d[n] \in Nat /\ d[n + 1] = 2 * d[n]
  <2>1. /\ f[n] \in [0 .. n -> Nat] /\ Doubles(f[n], n)
        /\ f[n + 1] \in [0 .. n + 1 -> Nat] /\ Doubles(f[n + 1], n + 1)
    BY <1>2
  <2>2. Doubles(f[n + 1], n)
    BY <2>1 DEF Doubles
  <2>3. f[n + 1][n] = f[n][n]
    BY <2>1, <2>2, DoublesUnique
  <2>4. f[n + 1][n + 1] = 2 * f[n + 1][(n + 1) - 1]
    BY <2>1 DEF Doubles
  <2>5. (n + 1) - 1 = n /\ d[n] = f[n][n] /\ d[n + 1] = f[n + 1][n + 1] /\ f[n][n] \in Nat
    BY <1>3, <2>1
  <2> QED BY <2>3, <2>4, <2>5
<1>6. d = [n \in Nat |-> IF n = 0 THEN 1 ELSE 2 * d[n - 1]]
  <2>1. ASSUME NEW n \in Nat PROVE d[n] = IF n = 0 THEN 1 ELSE 2 * d[n - 1]
    <3>1. CASE n = 0
      BY <1>4, <3>1
    <3>2. CASE n # 0
      <4>1. n - 1 \in Nat /\ (n - 1) + 1 = n
        BY <3>2
      <4> QED BY <1>5, <3>2, <4>1
    <3> QED BY <3>1, <3>2
  <2> QED BY <1>3, <2>1
<1>7. Doubled = CHOOSE h : h = [n \in Nat |-> IF n = 0 THEN 1 ELSE 2 * h[n - 1]]
  BY DEF Doubled
<1>8. Doubled = [n \in Nat |-> IF n = 0 THEN 1 ELSE 2 * Doubled[n - 1]]
  BY <1>6, <1>7
<1>9. Doubled[0] = 1 /\ \A n \in Nat : Doubled[n + 1] = 2 * Doubled[n]
  BY <1>8
<1>10. \A n \in Nat : Doubled[n] \in Nat
  <2> DEFINE N == {n \in Nat : Doubled[n] \in Nat}
  <2>1. 0 \in N
    BY <1>9
  <2>2. \A n \in Nat : n \in N => n + 1 \in N
    BY <1>9
  <2>3. Nat \subseteq N
    <3> HIDE DEF N
    <3> QED BY <2>1, <2>2, InductionOnNat
  <2> QED BY <2>3
<1> QED BY <1>9, <1>10

(* It exceeds its argument, and grows with it.                             *)
LEMMA DoubledGrows ==
  ASSUME NEW n \in Nat
  PROVE  /\ Doubled[n] > n
         /\ \A k \in Nat : Doubled[n + k] >= Doubled[n]
<1> DEFINE N == {m \in Nat : Doubled[m] > m}
<1>1. 0 \in N /\ \A m \in Nat : m \in N => m + 1 \in N
  BY DoubledStep
<1>2. Nat \subseteq N
  <2> HIDE DEF N
  <2> QED BY <1>1, InductionOnNat
<1> DEFINE K == {k \in Nat : Doubled[n + k] >= Doubled[n]}
<1>3. 0 \in K
  BY DoubledStep
<1>4. ASSUME NEW k \in Nat, k \in K PROVE k + 1 \in K
  <2>1. /\ n + k \in Nat /\ n + (k + 1) = (n + k) + 1
        /\ Doubled[(n + k) + 1] = 2 * Doubled[n + k]
        /\ Doubled[n + k] \in Nat /\ Doubled[n] \in Nat
    BY DoubledStep
  <2> QED BY <1>4, <2>1
<1>5. Nat \subseteq K
  <2> HIDE DEF K
  <2> QED BY <1>3, <1>4, InductionOnNat
<1> QED BY <1>2, <1>5

-----------------------------------------------------------------------------
LEMMA WordBounds == MaxWord \in Nat /\ MaxWord >= Width /\ MaxWord >= 1
BY PacingAssumption, DoubledStep, DoubledGrows DEF MaxWord

LEMMA SaturatedValue ==
  ASSUME NEW n \in Nat
  PROVE  /\ Saturated(n) \in 0 .. MaxWord
         /\ Saturated(n) = IF n < MaxWord THEN n ELSE MaxWord
BY WordBounds DEF Saturated, Earlier

(* Counting a saturated counter is counting and saturating.                *)
LEMMA CountedValue ==
  ASSUME NEW n \in Nat
  PROVE  Counted(Saturated(n)) = Saturated(n + 1)
<1>1. PICK s \in Nat : s = Saturated(n) /\ s = IF n < MaxWord THEN n ELSE MaxWord
  BY WordBounds, SaturatedValue
<1>2. Saturated(s + 1) = IF s + 1 < MaxWord THEN s + 1 ELSE MaxWord
  BY <1>1, SaturatedValue
<1>3. Saturated(n + 1) = IF n + 1 < MaxWord THEN n + 1 ELSE MaxWord
  BY SaturatedValue
<1>4. Counted(s) = Saturated(s + 1)
  BY DEF Counted
<1> QED BY <1>1, <1>2, <1>3, <1>4, WordBounds

(* However the words are saturated, the window is the one of the failures: *)
(* a factor that no longer fits in a word has long reached the cap.        *)
LEMMA WindowValue ==
  ASSUME NEW n \in Nat
  PROVE  Window(Saturated(n)) = IF n = 0 THEN 0 ELSE Earlier(Base * Doubled[n - 1], Cap)
<1>1. CASE n = 0
  BY <1>1, SaturatedValue, WordBounds DEF Window
<1>2. CASE n # 0
  <2>1. PICK m \in Nat : n = m + 1
    BY <1>2
  <2>2. PICK s \in Nat : s = Saturated(n) /\ s = IF n < MaxWord THEN n ELSE MaxWord
    BY WordBounds, SaturatedValue
  <2>3. s # 0 /\ Window(s) = Earlier(Base * Factor(s), Cap)
    BY <1>2, <2>2, WordBounds DEF Window
  <2>4. CASE n <= Width
    <3>1. s = n /\ Factor(s) = Doubled[n - 1]
      BY <2>2, <2>4, WordBounds, PacingAssumption DEF Factor
    <3> QED BY <1>2, <2>2, <2>3, <3>1
  <2>5. CASE n > Width
    <3>1. PICK word \in Nat : word = MaxWord
      BY WordBounds
    <3>2. Factor(s) = word
      <4>1. CASE s > Width
        BY <3>1, <4>1, PacingAssumption DEF Factor
      <4>2. CASE s <= Width
        <5>1. s = word /\ word = Width
          BY <2>2, <2>5, <3>1, <4>2, WordBounds, PacingAssumption
        <5>2. Factor(s) = Doubled[s - 1] /\ s - 1 \in Nat /\ s = (s - 1) + 1
          BY <2>3, <4>2 DEF Factor
        <5>3. Doubled[s] = 2 * Doubled[s - 1] /\ Doubled[s - 1] > s - 1 /\ Doubled[s - 1] \in Nat
          BY <5>2, DoubledStep, DoubledGrows
        <5>4. Doubled[s] = s + 1
          BY <3>1, <5>1, <5>3 DEF MaxWord
        <5> QED BY <2>2, <2>3, <5>1, <5>2, <5>3, <5>4
      <4> QED BY <2>2, <4>1, <4>2, PacingAssumption
    <3>3. PICK k \in Nat : m = Width + k
      BY <2>1, <2>5, PacingAssumption
    <3>4. PICK factor \in Nat : factor = Doubled[m] /\ factor >= word
      <4>1. Doubled[Width + k] >= Doubled[Width] /\ Doubled[Width] \in Nat /\ Doubled[m] \in Nat
        BY <3>3, PacingAssumption, DoubledStep, DoubledGrows
      <4> QED BY <3>1, <3>3, <4>1 DEF MaxWord
    <3>5. Base * word \in Nat /\ Base * factor \in Nat /\ Base * factor >= Base * word
      <4>1. PICK more \in Nat : factor = word + more
        BY <3>4
      <4>2. Base * (word + more) = Base * word + Base * more /\ Base * more \in Nat
        BY PacingAssumption
      <4> QED BY <4>1, <4>2, PacingAssumption
    <3>6. Cap <= Base * word /\ Cap \in Nat
      BY <3>1, PacingAssumption
    <3>7. Earlier(Base * word, Cap) = Cap /\ Earlier(Base * factor, Cap) = Cap
      BY <3>5, <3>6 DEF Earlier
    <3>8. n - 1 = m
      BY <2>1
    <3> QED BY <1>2, <2>2, <2>3, <3>2, <3>4, <3>7, <3>8
  <2> QED BY <2>4, <2>5, PacingAssumption
<1> QED BY <1>1, <1>2

-----------------------------------------------------------------------------
(* The loop around the policy.                                             *)
LEMMA PacingInitHolds == PacingInit => PacingInvariant
<1> SUFFICES ASSUME PacingInit PROVE PacingInvariant
  OBVIOUS
<1>1. LivenessInvariant
  BY InvariantInit DEF PacingInit
<1>2. attempt = Saturated(failures + 1)
  BY DEF PacingInit, Counted
<1>3. window = Window(Saturated(failures)) /\ delay \in 0 .. window
  <2>1. Window(Saturated(0)) = 0 /\ Window(0) = 0
    BY WindowValue DEF Window
  <2>2. failures = 0 /\ window = 0 /\ delay = 0
    BY <2>1 DEF PacingInit
  <2>3. window = Window(Saturated(failures))
    BY <2>1, <2>2
  <2> QED BY <2>2, <2>3
<1> QED BY <1>1, <1>2, <1>3 DEF PacingInvariant, PacingInit, LoopStates

(* A delay is asked for with the counter as it stands, or from the start.  *)
LEMMA RetryKeeps ==
  ASSUME PacingInvariant, NEW stable \in BOOLEAN, EarnsReset <=> stable, Retry, Failed(stable)
  PROVE  /\ failures' \in Nat /\ attempt' = Saturated(failures' + 1)
         /\ window' = Window(Saturated(failures')) /\ delay' \in 0 .. window'
         /\ loop' \in {"paused", "opening"} /\ readyAt' = Never
<1>1. failures \in Nat /\ attempt = Saturated(failures + 1)
  BY DEF PacingInvariant
<1>2. readyAt' = Never /\ NextDelay(IF stable THEN 0 ELSE attempt)
  BY DEF Retry
<1>3. failures' = IF stable THEN 0 ELSE failures + 1
  BY DEF Failed
<1>4. (IF stable THEN 0 ELSE attempt) = Saturated(failures') /\ failures' \in Nat
  <2>1. Saturated(0) = 0
    BY SaturatedValue, WordBounds
  <2> QED BY <1>1, <1>3, <2>1
<1>5. NextDelay(Saturated(failures'))
  BY <1>2, <1>4
<1>6. /\ window' = Window(Saturated(failures')) /\ attempt' = Counted(Saturated(failures'))
      /\ delay' \in 0 .. window' /\ loop' \in {"paused", "opening"}
  BY <1>5 DEF NextDelay
<1>7. attempt' = Saturated(failures' + 1)
  <2>1. PICK k \in Nat : k = failures'
    BY <1>4
  <2> QED BY <1>6, <2>1, CountedValue
<1> QED BY <1>2, <1>4, <1>6, <1>7

LEMMA PacingStep == PacingInvariant /\ [PacingNext]_pacingVars => PacingInvariant'
<1> SUFFICES ASSUME PacingInvariant, [PacingNext]_pacingVars PROVE PacingInvariant'
  OBVIOUS
<1>0. LivenessInvariant
  BY DEF PacingInvariant
<1>1. UNCHANGED vars => LivenessInvariant'
  BY <1>0, InvariantStep
<1>2. CASE Wake
  BY <1>1, <1>2 DEF Wake, PacingInvariant, LoopStates
<1>3. CASE OpenFails
  <2>1. /\ failures' \in Nat /\ attempt' = Saturated(failures' + 1)
        /\ window' = Window(Saturated(failures')) /\ delay' \in 0 .. window'
        /\ loop' \in {"paused", "opening"} /\ readyAt' = Never
    <3>1. ~ EarnsReset
      BY <1>3 DEF OpenFails, PacingInvariant, EarnsReset
    <3>2. Retry /\ Failed(FALSE)
      BY <1>3 DEF OpenFails
    <3> QED BY <3>1, <3>2, RetryKeeps
  <2>2. UNCHANGED vars /\ readyFor' \in Nat
    BY <1>3 DEF OpenFails
  <2> QED BY <1>1, <2>1, <2>2 DEF PacingInvariant, LoopStates
<1>4. CASE OpenSucceeds
  <2>1. Init'
    BY <1>4 DEF OpenSucceeds, Init
  <2>2. LivenessInvariant'
    <3>1. (Init => LivenessInvariant)'
      BY InvariantInit, PTL
    <3> QED BY <2>1, <3>1
  <2>3. /\ loop' = "driving" /\ ready' = FALSE /\ readyFor' = 0 /\ readyAt' = Never
        /\ UNCHANGED <<attempt, window, delay, failures>>
    BY <1>4 DEF OpenSucceeds, PacingInvariant
  <2> QED BY <2>2, <2>3 DEF PacingInvariant, LoopStates
<1>5. CASE Drive
  <2>1. LivenessInvariant'
    BY <1>0, <1>5, InvariantStep DEF Drive
  <2>2. /\ loop = "driving" /\ loop' = "driving"
        /\ UNCHANGED <<attempt, window, delay, failures>>
    BY <1>5 DEF Drive
  <2>3. ready \in BOOLEAN /\ ready' \in BOOLEAN /\ now \in Nat
    BY <1>0, <2>1 DEF LivenessInvariant, TypeOK
  <2>4. (ready => ready') /\ (now' = now \/ (now' = now + 1 /\ ready' = ready))
    <3>1. Next
      BY <1>5 DEF Drive
    <3>2. CASE Tick
      BY <3>2 DEF Tick
    <3>3. CASE \E login \in BOOLEAN : TextFrame(login)
      BY <2>3, <3>3 DEF TextFrame
    <3>4. CASE OtherFrame \/ Command \/ OnDeadline
      BY <3>4 DEF OtherFrame, Command, OnDeadline
    <3> QED BY <3>1, <3>2, <3>3, <3>4 DEF Next
  <2>5. /\ readyAt' = IF ready' /\ ~ ready THEN now ELSE readyAt
        /\ readyFor' = IF ready /\ now' > now THEN readyFor + 1 ELSE readyFor
    BY <1>5 DEF Drive
  <2>6. IF ready THEN readyAt \in Nat /\ now = readyAt + readyFor
                 ELSE readyAt = Never /\ readyFor = 0
    BY <2>2 DEF PacingInvariant
  <2>7. readyFor \in Nat
    BY DEF PacingInvariant
  <2>8. /\ readyFor' \in Nat
        /\ IF ready' THEN readyAt' \in Nat /\ now' = readyAt' + readyFor'
                     ELSE readyAt' = Never /\ readyFor' = 0
    <3>1. CASE ready
      BY <2>3, <2>4, <2>5, <2>6, <2>7, <3>1
    <3>2. CASE ~ ready
      BY <2>3, <2>4, <2>5, <2>6, <2>7, <3>2
    <3> QED BY <2>3, <3>1, <3>2
  <2> QED BY <2>1, <2>2, <2>8 DEF PacingInvariant, LoopStates
<1>6. CASE Closed
  <2>1. /\ failures' \in Nat /\ attempt' = Saturated(failures' + 1)
        /\ window' = Window(Saturated(failures')) /\ delay' \in 0 .. window'
        /\ loop' \in {"paused", "opening"} /\ readyAt' = Never
    <3>1. ready \in BOOLEAN /\ now \in Nat
      BY <1>0 DEF LivenessInvariant, TypeOK
    <3>2. IF ready THEN readyAt \in Nat /\ now = readyAt + readyFor
                   ELSE readyAt = Never /\ readyFor = 0
      BY <1>6 DEF Closed, PacingInvariant
    <3>3. EarnsReset <=> ready /\ readyFor >= StableAfter
      <4>1. readyFor \in Nat
        BY DEF PacingInvariant
      <4>2. CASE ready
        <5>1. readyAt \in Nat /\ readyAt # Never /\ now - readyAt = readyFor
          BY <3>1, <3>2, <4>1, <4>2 DEF Never
        <5> QED BY <4>2, <5>1 DEF EarnsReset
      <4>3. CASE ~ ready
        BY <3>2, <4>3 DEF EarnsReset
      <4> QED BY <3>1, <4>2, <4>3
    <3>4. Retry /\ Failed(ready /\ readyFor >= StableAfter)
      BY <1>6 DEF Closed
    <3>5. (ready /\ readyFor >= StableAfter) \in BOOLEAN
      OBVIOUS
    <3> QED BY <3>3, <3>4, <3>5, RetryKeeps
  <2>2. UNCHANGED vars /\ readyFor' \in Nat
    BY <1>6 DEF Closed, PacingInvariant
  <2> QED BY <1>1, <2>1, <2>2 DEF PacingInvariant, LoopStates
<1>7. CASE Stop
  BY <1>1, <1>7 DEF Stop, PacingInvariant, LoopStates
<1>8. CASE UNCHANGED pacingVars
  <2>1. UNCHANGED vars /\ UNCHANGED <<loop, attempt, window, delay, readyAt, failures, readyFor>>
    BY <1>8 DEF pacingVars
  <2>2. UNCHANGED <<now, ready>>
    BY <2>1 DEF vars
  <2> QED BY <1>1, <2>1, <2>2 DEF PacingInvariant
<1> QED BY <1>2, <1>3, <1>4, <1>5, <1>6, <1>7, <1>8 DEF PacingNext

(* The counter, the window and the clock of the reconnect loop agree with  *)
(* the failures so far, and the policy with its timer, over any number of  *)
(* sockets (Runner::run, Runner::disconnected, Backoff::next_delay).       *)
THEOREM PacingHolds == PacingSpec => []PacingInvariant
BY PacingInitHolds, PacingStep, PTL DEF PacingSpec

(* Every window is the doubled one up to the cap, for every word width,    *)
(* base and cap: the saturated counter and factor never shorten it, and    *)
(* only a stable connection starts it afresh (Backoff::next_delay).        *)
THEOREM RetriesArePaced == PacingSpec => []PacedRetries
<1>1. PacingInvariant => PacedRetries
  <2> SUFFICES ASSUME PacingInvariant PROVE PacedRetries
    OBVIOUS
  <2>1. failures \in Nat /\ window = Window(Saturated(failures)) /\ delay \in 0 .. window
    BY DEF PacingInvariant
  <2>2. window = IF failures = 0 THEN 0 ELSE Earlier(Base * Doubled[failures - 1], Cap)
    BY <2>1, WindowValue
  <2> QED BY <2>1, <2>2 DEF PacedRetries
<1> QED BY <1>1, PacingHolds, PTL

(* What holds of one socket holds of all the sockets of a runner: the      *)
(* policy is started afresh with each (Runner::drive).                     *)
THEOREM SocketsArePoliced ==
  PacingSpec => [](OneProbePerSilence /\ ProbedBeforeDead /\ SilenceBounded)
<1>1. PacingInvariant => LivenessInvariant
  BY DEF PacingInvariant
<1> QED BY <1>1, OneProbe, ProbeBeforeDeath, DeadlinesBind, PacingHolds, PTL

(* ... and no deadline of any of them leaves the timer in the past         *)
(* (next_deadline, arm_timer).                                             *)
THEOREM SocketsDoNotSpin == PacingSpec => NoSpin
<1>1. PacingInvariant /\ [PacingNext]_pacingVars
        => [OnDeadline /\ outcome' = "open" => timer' > now]_vars
  BY DeadlineMoves DEF PacingInvariant
<1> QED BY <1>1, PacingHolds, PTL DEF PacingSpec, NoSpin

=============================================================================
