---------------------------- MODULE StandbyProofs ----------------------------
(***************************************************************************)
(* Standby implements Rendezvous, for any number of futures, callers of    *)
(* process and events.                                                     *)
(***************************************************************************)
EXTENDS Standby, SubsequenceLemmas

States == {"none", "pending", "dropped", "ended"}
Progress == [pc : {"returned", "reaped", "sending"}, event : Events \cup {Nothing},
             winner : Waiters \cup {Nothing}]
Enrolled(w) == \E x \in Range(waiters) : x.who = w

StandbyTypeOK ==
  /\ waiters \in Seq(Registered) /\ exists \in BOOLEAN /\ poisoned \in BOOLEAN
  /\ future \in [Waiters -> States]
  /\ result \in [Waiters -> Events \cup {Nothing, Canceled}]
  /\ matched \in [Waiters -> Events \cup {Nothing}]
  /\ offered \in [event : Events \cup {Nothing}, bit : BOOLEAN]
  /\ driver \in [Drivers -> Progress]

(* A future is registered once, and for as long as it waits: until a call  *)
(* of process took its sender to send.                                     *)
EnrolledOnce ==
  /\ IsInjective(waiters) /\ \A x, y \in Range(waiters) : x.who = y.who => x = y
  /\ \A w \in Waiters :
       /\ Enrolled(w) => future[w] \in {"pending", "dropped"}
       /\ future[w] = "pending" =>
            Enrolled(w) \/ \E d \in Drivers : driver[d].pc = "sending" /\ driver[d].winner = w

(* One call has the lock, with the event it offered; one that sends has    *)
(* what it matched, and its winner is no longer registered.                *)
DriversApart ==
  \A d \in Drivers :
    /\ driver[d].pc = "reaped" =>
         /\ exists /\ ~ poisoned
         /\ driver[d].event \in Events /\ offered.event = driver[d].event
         /\ \A x \in Drivers : driver[x].pc = "reaped" => x = d
    /\ driver[d].pc = "sending" =>
         /\ driver[d].winner \in Waiters /\ driver[d].event \in Events
         /\ ~ Enrolled(driver[d].winner) /\ future[driver[d].winner] # "none"
         /\ matched[driver[d].winner] = driver[d].event
    /\ driver[d].pc = "returned" => driver[d] = Returned

StandbyInvariant == StandbyTypeOK /\ EnrolledOnce /\ DriversApart

(***************************************************************************)
(* The first predicate that does not say no.                               *)
(***************************************************************************)
First(s, e) ==
  LET I == {i \in 1 .. Len(s) : s[i].predicate[e] # "no"}
  IN IF I # {} THEN Min(I) ELSE 0
Said(s, e) == IF First(s, e) = 0 THEN "no" ELSE s[First(s, e)].predicate[e]

LEMMA ReachedFirst ==
  \A e \in Events : /\ Reached(e) = First(waiters, e) /\ Answer(e) = Said(waiters, e)
                    /\ Reached(e)' = First(waiters', e) /\ Answer(e)' = Said(waiters', e)
<1>1. \A e \in Events : Reached(e) = First(waiters, e) /\ Reached(e)' = First(waiters', e)
  BY DEF Reached, SelectInSeq, First
<1> QED BY <1>1 DEF Answer, Said

LEMMA FirstFacts ==
  ASSUME NEW s \in Seq(Registered), NEW e \in Events
  PROVE  \/ /\ First(s, e) = 0 /\ Said(s, e) = "no"
            /\ \A i \in 1 .. Len(s) : s[i].predicate[e] = "no"
         \/ /\ First(s, e) \in 1 .. Len(s) /\ Said(s, e) = s[First(s, e)].predicate[e]
            /\ Said(s, e) \in {"yes", "panic"}
            /\ \A i \in 1 .. First(s, e) - 1 : s[i].predicate[e] = "no"
<1>1. Len(s) \in Nat /\ \A i \in 1 .. Len(s) : s[i] \in Registered
  BY LenProperties
<1>2. PICK I : I = {i \in 1 .. Len(s) : s[i].predicate[e] # "no"}
  OBVIOUS
<1>3. First(s, e) = IF I # {} THEN Min(I) ELSE 0
  BY <1>2 DEF First
<1>4. CASE I = {}
  BY <1>2, <1>3, <1>4 DEF Said
<1>5. CASE I # {}
  <2>1. I \in SUBSET Nat
    BY <1>1, <1>2
  <2>2. PICK n \in I : \A m \in I : n <= m
    BY <1>5, <2>1, LeastNumber
  <2>3. Min(I) \in I /\ \A m \in I : Min(I) <= m
    BY <2>2 DEF Min
  <2>4. PICK k : k = First(s, e)
    OBVIOUS
  <2>5. k \in I /\ (\A m \in I : k <= m) /\ k \in 1 .. Len(s)
    BY <1>2, <1>3, <1>5, <2>3, <2>4
  <2>6. s[k].predicate[e] \in {"yes", "panic"}
    BY <1>1, <1>2, <2>5 DEF Registered, Predicates
  <2>7. \A i \in 1 .. k - 1 : s[i].predicate[e] = "no"
    <3> SUFFICES ASSUME NEW i \in 1 .. k - 1, i \in I PROVE FALSE
      BY <1>1, <1>2, <2>5
    <3> QED BY <1>1, <2>5
  <2> QED BY <2>4, <2>5, <2>6, <2>7 DEF Said
<1> QED BY <1>4, <1>5

LEMMA ReturnedFacts ==
  Returned \in Progress /\ Returned.pc = "returned"
  BY DEF Returned, Progress

(***************************************************************************)
(* The registry as a sequence of distinct waiters.                         *)
(***************************************************************************)
LEMMA Leaving ==
  ASSUME NEW s \in Seq(Registered), IsInjective(s), NEW S
  PROVE  /\ Kept(s, S) \in Seq(Registered) /\ IsInjective(Kept(s, S))
         /\ Range(Kept(s, S)) = Range(s) \cap S
<1>1. Kept(s, S) \in Seq(Registered \cap S)
  BY KeptType
<1>2. Kept(s, S) \in Seq(Registered)
  BY <1>1, SeqMonotonic
<1> QED BY <1>2, KeptElements, KeptInjective

LEMMA Members ==
  ASSUME NEW s \in Seq(Registered)
  PROVE  /\ Len(s) \in Nat /\ DOMAIN s = 1 .. Len(s)
         /\ Range(s) \subseteq Registered
         /\ \A x \in Registered : x.who \in Waiters
         /\ \A i \in 1 .. Len(s) : s[i] \in Range(s)
<1>1. Len(s) \in Nat /\ DOMAIN s = 1 .. Len(s) /\ s \in [1 .. Len(s) -> Registered]
  BY LenProperties
<1>2. Range(s) \subseteq Registered /\ \A i \in 1 .. Len(s) : s[i] \in Range(s)
  BY <1>1 DEF Range
<1>3. \A x \in Registered : x.who \in Waiters
  BY DEF Registered
<1> QED BY <1>1, <1>2, <1>3

LEMMA Removing ==
  ASSUME NEW s \in Seq(Registered), IsInjective(s), NEW i \in 1 .. Len(s)
  PROVE  /\ RemoveAt(s, i) = Kept(s, Registered \ {s[i]})
         /\ RemoveAt(s, i) \in Seq(Registered) /\ IsInjective(RemoveAt(s, i))
         /\ Range(RemoveAt(s, i)) = Range(s) \ {s[i]}
<1>1. RemoveAt(s, i) = Kept(s, Registered \ {s[i]})
  BY KeptWithout
<1>2. PICK S : S = Registered \ {s[i]}
  OBVIOUS
<1>3. /\ Kept(s, S) \in Seq(Registered) /\ IsInjective(Kept(s, S))
      /\ Range(Kept(s, S)) = Range(s) \cap S
  BY Leaving
<1>4. Range(s) \cap S = Range(s) \ {s[i]}
  BY <1>2, Members
<1> QED BY <1>1, <1>2, <1>3, <1>4

(***************************************************************************)
(* The invariant, action by action.                                        *)
(***************************************************************************)
LEMMA StandbyInit == Init => StandbyInvariant
<1> SUFFICES ASSUME Init PROVE StandbyInvariant
  OBVIOUS
<1>1. waiters = <<>> /\ Range(waiters) = {} /\ IsInjective(waiters) /\ waiters \in Seq(Registered)
  BY DEF Init, Range, IsInjective
<1>2. \A d \in Drivers : driver[d] = Returned
  BY DEF Init
<1>3. \A w \in Waiters : future[w] = "none"
  BY DEF Init
<1>4. StandbyTypeOK
  BY <1>1, ReturnedFacts DEF Init, StandbyTypeOK, States
<1>5. EnrolledOnce
  BY <1>1, <1>3 DEF EnrolledOnce, Enrolled
<1>6. DriversApart
  BY <1>2, ReturnedFacts DEF DriversApart
<1> QED BY <1>4, <1>5, <1>6 DEF StandbyInvariant

LEMMA WaitForKeeps ==
  ASSUME StandbyInvariant, NEW w \in Waiters, WaitFor(w)
  PROVE  StandbyInvariant'
<1>0. StandbyTypeOK /\ EnrolledOnce /\ DriversApart
  BY DEF StandbyInvariant
<1>1. ~ Enrolled(w) /\ future[w] = "none"
  BY <1>0 DEF EnrolledOnce, WaitFor
<1>2. CASE poisoned /\ waiters' = waiters /\ future' = [future EXCEPT ![w] = "ended"]
           /\ result' = [result EXCEPT ![w] = Canceled]
  <2>1. StandbyTypeOK'
    BY <1>0, <1>2 DEF WaitFor, StandbyTypeOK, States
  <2>2. EnrolledOnce'
    BY <1>0, <1>1, <1>2 DEF WaitFor, EnrolledOnce, Enrolled, StandbyTypeOK
  <2>3. DriversApart'
    BY <1>0, <1>1, <1>2 DEF WaitFor, DriversApart, Enrolled, StandbyTypeOK
  <2> QED BY <2>1, <2>2, <2>3 DEF StandbyInvariant
<1>3. ASSUME NEW p \in Predicates, waiters' = Append(waiters, [who |-> w, predicate |-> p]),
             future' = [future EXCEPT ![w] = "pending"], UNCHANGED result
      PROVE  StandbyInvariant'
  <2>1. PICK x \in Registered : x = [who |-> w, predicate |-> p]
    BY DEF Registered
  <2>2. waiters \in Seq(Registered) /\ IsInjective(waiters) /\ x \notin Range(waiters) /\ x.who = w
    BY <1>0, <1>1, <2>1 DEF StandbyTypeOK, EnrolledOnce, Enrolled
  <2>3. /\ waiters' \in Seq(Registered) /\ IsInjective(waiters')
        /\ Range(waiters') = Range(waiters) \cup {x}
    <3>1. waiters' = Append(waiters, x)
      BY <1>3, <2>1
    <3>2. IsInjective(Append(waiters, x)) /\ Range(Append(waiters, x)) = Range(waiters) \cup {x}
      BY <2>2, InjectiveAppend, RangeAppend
    <3>3. Append(waiters, x) \in Seq(Registered)
      BY <2>2, AppendProperties
    <3> QED BY <3>1, <3>2, <3>3
  <2>4. StandbyTypeOK'
    BY <1>0, <1>3, <2>3 DEF WaitFor, StandbyTypeOK, States
  <2>5. \A v \in Waiters : Enrolled(v)' <=> Enrolled(v) \/ v = w
    BY <2>2, <2>3 DEF Enrolled
  <2>6. EnrolledOnce'
    <3>1. \A y, z \in Range(waiters') : y.who = z.who => y = z
      BY <1>0, <1>1, <2>2, <2>3 DEF EnrolledOnce, Enrolled
    <3>2. \A v \in Waiters :
            /\ Enrolled(v)' => future'[v] \in {"pending", "dropped"}
            /\ future'[v] = "pending" =>
                 Enrolled(v)' \/ \E d \in Drivers : driver'[d].pc = "sending" /\ driver'[d].winner = v
      BY <1>0, <1>3, <2>5 DEF EnrolledOnce, WaitFor, StandbyTypeOK
    <3> QED BY <2>3, <3>1, <3>2 DEF EnrolledOnce
  <2>7. DriversApart'
    BY <1>0, <1>1, <1>3, <2>5 DEF DriversApart, WaitFor, StandbyTypeOK
  <2> QED BY <2>4, <2>6, <2>7 DEF StandbyInvariant
<1> QED BY <1>2, <1>3 DEF WaitFor

LEMMA DropFutureKeeps ==
  ASSUME StandbyInvariant, NEW w \in Waiters, DropFuture(w)
  PROVE  StandbyInvariant'
<1>0. StandbyTypeOK /\ EnrolledOnce /\ DriversApart
  BY DEF StandbyInvariant
<1>1. /\ future[w] = "pending" /\ future' = [future EXCEPT ![w] = "dropped"]
      /\ UNCHANGED <<waiters, exists, poisoned, result, driver, matched, offered>>
  BY DEF DropFuture
<1>2. StandbyTypeOK'
  BY <1>0, <1>1 DEF StandbyTypeOK, States
<1>3. EnrolledOnce'
  BY <1>0, <1>1 DEF EnrolledOnce, Enrolled, StandbyTypeOK
<1>4. DriversApart'
  BY <1>0, <1>1 DEF DriversApart, Enrolled, StandbyTypeOK
<1> QED BY <1>2, <1>3, <1>4 DEF StandbyInvariant

LEMMA ReapKeeps ==
  ASSUME StandbyInvariant, NEW d \in Drivers, NEW e \in Events, Reap(d, e)
  PROVE  StandbyInvariant'
<1>0. StandbyTypeOK /\ EnrolledOnce /\ DriversApart
  BY DEF StandbyInvariant
<1>1. PICK S : S = {x \in Registered : future[x.who] # "dropped"}
  OBVIOUS
<1>2. PICK r : r = [pc |-> "reaped", event |-> e, winner |-> Nothing]
  OBVIOUS
<1>3. /\ exists /\ ~ Held /\ ~ poisoned /\ driver[d].pc = "returned"
      /\ waiters' = Kept(waiters, S)
      /\ driver' = [driver EXCEPT ![d] = r]
      /\ offered' = [event |-> e, bit |-> ~ offered.bit]
      /\ UNCHANGED <<exists, poisoned, future, result, matched>>
  BY <1>1, <1>2 DEF Reap
<1>4. waiters \in Seq(Registered) /\ IsInjective(waiters)
  BY <1>0 DEF StandbyTypeOK, EnrolledOnce
<1>5. /\ waiters' \in Seq(Registered) /\ IsInjective(waiters')
      /\ Range(waiters') = Range(waiters) \cap S
  BY <1>3, <1>4, Leaving
<1>6. \A v \in Waiters : /\ Enrolled(v)' => Enrolled(v)
                         /\ Enrolled(v) /\ future[v] = "pending" => Enrolled(v)'
  <2>1. \A v \in Waiters : Enrolled(v)' => Enrolled(v)
    BY <1>5 DEF Enrolled
  <2>2. ASSUME NEW v \in Waiters, Enrolled(v), future[v] = "pending" PROVE Enrolled(v)'
    <3>1. PICK x \in Range(waiters) : x.who = v
      BY <2>2 DEF Enrolled
    <3>2. x \in S
      BY <1>1, <1>4, <2>2, <3>1, Members
    <3> QED BY <1>5, <3>1, <3>2 DEF Enrolled
  <2> QED BY <2>1, <2>2
<1>7. r \in Progress /\ r.pc = "reaped" /\ r.event = e
  BY <1>2 DEF Progress
<1>8. /\ driver' \in [Drivers -> Progress] /\ driver'[d] = r
      /\ \A x \in Drivers \ {d} : driver'[x] = driver[x]
  BY <1>0, <1>3, <1>7 DEF StandbyTypeOK
<1>9. StandbyTypeOK'
  BY <1>0, <1>3, <1>5, <1>8 DEF StandbyTypeOK
<1>10. EnrolledOnce'
  <2>1. \A y, z \in Range(waiters') : y.who = z.who => y = z
    BY <1>0, <1>5 DEF EnrolledOnce
  <2>2. \A v \in Waiters :
          /\ Enrolled(v)' => future'[v] \in {"pending", "dropped"}
          /\ future'[v] = "pending" =>
               Enrolled(v)' \/ \E x \in Drivers : driver'[x].pc = "sending" /\ driver'[x].winner = v
    BY <1>0, <1>3, <1>6, <1>8 DEF EnrolledOnce
  <2> QED BY <1>5, <2>1, <2>2 DEF EnrolledOnce
<1>11. DriversApart'
  <2>1. \A x \in Drivers : driver[x].pc # "reaped"
    BY <1>3 DEF Held
  <2> QED BY <1>0, <1>3, <1>6, <1>7, <1>8, <2>1 DEF DriversApart
<1> QED BY <1>9, <1>10, <1>11 DEF StandbyInvariant

LEMMA MatchKeeps ==
  ASSUME StandbyInvariant, NEW d \in Drivers, Match(d)
  PROVE  StandbyInvariant'
<1>0. StandbyTypeOK /\ EnrolledOnce /\ DriversApart
  BY DEF StandbyInvariant
<1>1. /\ driver[d].pc = "reaped" /\ UNCHANGED <<exists, future, result, offered>>
      /\ driver[d] \in Progress
  BY <1>0 DEF Match, StandbyTypeOK
<1>2. driver[d].event \in Events /\ \A x \in Drivers \ {d} : driver[x].pc # "reaped"
  BY <1>0, <1>1 DEF DriversApart
<1>3. ASSUME driver' = [driver EXCEPT ![d] = Returned], UNCHANGED <<waiters, matched>>,
             poisoned' \in BOOLEAN
      PROVE  StandbyInvariant'
  <2>1. /\ driver' \in [Drivers -> Progress] /\ driver'[d] = Returned
        /\ \A x \in Drivers \ {d} : driver'[x] = driver[x]
    BY <1>0, <1>3, ReturnedFacts DEF StandbyTypeOK
  <2>2. StandbyTypeOK'
    BY <1>0, <1>1, <1>3, <2>1 DEF StandbyTypeOK
  <2>3. EnrolledOnce'
    BY <1>0, <1>1, <1>3, <2>1, ReturnedFacts DEF EnrolledOnce, Enrolled
  <2>4. DriversApart'
    BY <1>0, <1>1, <1>2, <1>3, <2>1, ReturnedFacts DEF DriversApart, Enrolled
  <2> QED BY <2>2, <2>3, <2>4 DEF StandbyInvariant
<1>4. CASE MatchNobody(d)
  BY <1>0, <1>3, <1>4 DEF MatchNobody, StandbyTypeOK
<1>5. CASE PredicatePanics(d)
  BY <1>3, <1>5 DEF PredicatePanics
<1>6. CASE MatchFirst(d)
  <2>1. PICK e \in Events : e = driver[d].event
    BY <1>2
  <2>2. PICK i : i = First(waiters, e)
    OBVIOUS
  <2>3. waiters \in Seq(Registered) /\ IsInjective(waiters)
    BY <1>0 DEF StandbyTypeOK, EnrolledOnce
  <2>4. i \in 1 .. Len(waiters)
    BY <1>6, <2>1, <2>2, <2>3, ReachedFirst, FirstFacts DEF MatchFirst
  <2>5. PICK w : w = waiters[i].who
    OBVIOUS
  <2>6. w \in Waiters /\ Enrolled(w) /\ waiters[i] \in Range(waiters)
    BY <2>3, <2>4, <2>5, Members DEF Enrolled
  <2>7. /\ waiters' = RemoveAt(waiters, i)
        /\ driver' = [driver EXCEPT ![d].pc = "sending", ![d].winner = w]
        /\ matched' = [matched EXCEPT ![w] = e]
        /\ UNCHANGED poisoned
    BY <1>6, <2>1, <2>2, <2>5, ReachedFirst DEF MatchFirst, Removed
  <2>8. /\ waiters' \in Seq(Registered) /\ IsInjective(waiters')
        /\ Range(waiters') = Range(waiters) \ {waiters[i]}
    BY <2>3, <2>4, <2>7, Removing
  <2>9. /\ driver' \in [Drivers -> Progress]
        /\ driver'[d].pc = "sending" /\ driver'[d].winner = w /\ driver'[d].event = e
        /\ \A x \in Drivers \ {d} : driver'[x] = driver[x]
    BY <1>0, <1>1, <2>1, <2>6, <2>7 DEF StandbyTypeOK, Progress
  <2>10. /\ \A v \in Waiters : Enrolled(v)' <=> Enrolled(v) /\ v # w
    BY <1>0, <2>5, <2>6, <2>8 DEF Enrolled, EnrolledOnce
  <2>11. StandbyTypeOK'
    BY <1>0, <1>1, <2>6, <2>7, <2>8, <2>9 DEF StandbyTypeOK
  <2>12. EnrolledOnce'
    <3>1. \A y, z \in Range(waiters') : y.who = z.who => y = z
      BY <1>0, <2>8 DEF EnrolledOnce
    <3>2. \A v \in Waiters : Enrolled(v)' => future'[v] \in {"pending", "dropped"}
      BY <1>0, <1>1, <2>10 DEF EnrolledOnce
    <3>3. ASSUME NEW v \in Waiters, future'[v] = "pending", ~ Enrolled(v)'
          PROVE  \E x \in Drivers : driver'[x].pc = "sending" /\ driver'[x].winner = v
      <4>1. CASE v = w
        BY <2>9, <4>1
      <4>2. CASE v # w
        <5>1. PICK x \in Drivers : driver[x].pc = "sending" /\ driver[x].winner = v
          BY <1>0, <1>1, <2>10, <3>3, <4>2 DEF EnrolledOnce
        <5> QED BY <1>1, <2>9, <5>1
      <4> QED BY <4>1, <4>2
    <3> QED BY <2>8, <3>1, <3>2, <3>3 DEF EnrolledOnce
  <2>13. DriversApart'
    <3>1. ~ Enrolled(w)' /\ future'[w] # "none" /\ matched'[w] = e
      BY <1>0, <1>1, <2>6, <2>7, <2>10 DEF EnrolledOnce, StandbyTypeOK
    <3>2. \A v \in Waiters \ {w} : matched'[v] = matched[v]
      BY <1>0, <2>7 DEF StandbyTypeOK
    <3> QED BY <1>0, <1>1, <1>2, <2>6, <2>7, <2>9, <2>10, <3>1, <3>2 DEF DriversApart
  <2> QED BY <2>11, <2>12, <2>13 DEF StandbyInvariant
<1> QED BY <1>4, <1>5, <1>6 DEF Match

LEMMA SendKeeps ==
  ASSUME StandbyInvariant, NEW d \in Drivers, Send(d)
  PROVE  StandbyInvariant'
<1>0. StandbyTypeOK /\ EnrolledOnce /\ DriversApart
  BY DEF StandbyInvariant
<1>1. PICK w : w = driver[d].winner
  OBVIOUS
<1>2. /\ driver[d].pc = "sending" /\ w \in Waiters /\ driver[d].event \in Events
      /\ driver' = [driver EXCEPT ![d] = Returned]
      /\ UNCHANGED <<waiters, exists, poisoned, matched, offered>>
      /\ ~ Enrolled(w)
  BY <1>0, <1>1 DEF Send, DriversApart
<1>3. \/ /\ future[w] = "pending" /\ future' = [future EXCEPT ![w] = "ended"]
         /\ result' = [result EXCEPT ![w] = driver[d].event]
      \/ future[w] # "pending" /\ UNCHANGED <<future, result>>
  BY <1>1 DEF Send
<1>4. /\ driver' \in [Drivers -> Progress] /\ driver'[d] = Returned
      /\ \A x \in Drivers \ {d} : driver'[x] = driver[x]
  BY <1>0, <1>2, ReturnedFacts DEF StandbyTypeOK
<1>5. /\ \A v \in Waiters \ {w} : future'[v] = future[v]
      /\ future'[w] # "pending" /\ \A v \in Waiters : future[v] # "none" => future'[v] # "none"
      /\ future' \in [Waiters -> States]
  BY <1>0, <1>2, <1>3 DEF StandbyTypeOK, States
<1>6. StandbyTypeOK'
  BY <1>0, <1>2, <1>3, <1>4, <1>5 DEF StandbyTypeOK
<1>7. EnrolledOnce'
  BY <1>0, <1>1, <1>2, <1>4, <1>5 DEF EnrolledOnce, Enrolled
<1>8. DriversApart'
  BY <1>0, <1>2, <1>4, <1>5, ReturnedFacts DEF DriversApart, Enrolled
<1> QED BY <1>6, <1>7, <1>8 DEF StandbyInvariant

LEMMA DropStandbyKeeps ==
  ASSUME StandbyInvariant, DropStandby
  PROVE  StandbyInvariant'
<1>0. StandbyTypeOK /\ EnrolledOnce /\ DriversApart
  BY DEF StandbyInvariant
<1>1. /\ \A d \in Drivers : driver[d] = Returned
      /\ exists' = FALSE /\ waiters' = <<>>
      /\ future' = [w \in Waiters |-> IF future[w] = "pending" THEN "ended" ELSE future[w]]
      /\ result' = [w \in Waiters |-> IF future[w] = "pending" THEN Canceled ELSE result[w]]
      /\ UNCHANGED <<poisoned, driver, matched, offered>>
  BY DEF DropStandby
<1>2. waiters' \in Seq(Registered) /\ Range(waiters') = {} /\ IsInjective(waiters')
  BY <1>1 DEF Range, IsInjective
<1>3. StandbyTypeOK'
  BY <1>0, <1>1, <1>2 DEF StandbyTypeOK, States
<1>4. EnrolledOnce'
  BY <1>1, <1>2 DEF EnrolledOnce, Enrolled
<1>5. DriversApart'
  BY <1>1, ReturnedFacts DEF DriversApart
<1> QED BY <1>3, <1>4, <1>5 DEF StandbyInvariant

(* The registry holds each waiting future once, and what process matched   *)
(* or sends is a future that is registered no longer (standby.rs, process).*)
THEOREM StandbyHolds == Spec => []StandbyInvariant
<1>1. ASSUME StandbyInvariant, [Next]_vars PROVE StandbyInvariant'
  <2>1. CASE UNCHANGED vars
    BY <1>1, <2>1
    DEF vars, StandbyInvariant, StandbyTypeOK, EnrolledOnce, Enrolled, DriversApart
  <2>2. CASE Next
    BY <1>1, <2>2, WaitForKeeps, DropFutureKeeps, ReapKeeps, MatchKeeps, SendKeeps, DropStandbyKeeps
    DEF Next
  <2> QED BY <1>1, <2>1, <2>2
<1> QED BY <1>1, StandbyInit, PTL DEF Spec

(***************************************************************************)
(* What the contract sees: with the lock free the registry itself, with a  *)
(* call inside it the registry as that call will leave it.                 *)
(***************************************************************************)
LEMMA QuietFacts ==
  StandbyTypeOK /\ ~ Held =>
    /\ Chosen = Nothing /\ Handed = matched /\ (Open <=> exists /\ ~ poisoned)
    /\ Waiting = Kept(waiters, {x \in Registered : future[x.who] # "dropped"})
<1> SUFFICES ASSUME StandbyTypeOK, ~ Held
             PROVE  /\ Chosen = Nothing /\ Handed = matched /\ (Open <=> exists /\ ~ poisoned)
                    /\ Waiting = Kept(waiters, {x \in Registered : future[x.who] # "dropped"})
  OBVIOUS
<1>1. \A answer : ~ Outcome(answer)
  BY DEF Outcome, Held
<1>2. Chosen = Nothing
  BY <1>1 DEF Chosen
<1>3. Handed = matched
  BY <1>2, StandbyAssumption DEF Handed, StandbyTypeOK
<1>4. {x \in Registered : future[x.who] # "dropped" /\ x.who # Nothing}
        = {x \in Registered : future[x.who] # "dropped"}
  BY StandbyAssumption DEF Registered
<1> QED BY <1>1, <1>2, <1>3, <1>4 DEF Open, Waiting

LEMMA QuietNext ==
  (StandbyTypeOK /\ ~ Held =>
    /\ Chosen = Nothing /\ Handed = matched /\ (Open <=> exists /\ ~ poisoned)
    /\ Waiting = Kept(waiters, {x \in Registered : future[x.who] # "dropped"}))'
  BY QuietFacts, PTL

LEMMA MatchingFacts ==
  \A d \in Drivers : StandbyInvariant /\ driver[d].pc = "reaped" =>
    /\ \A answer : Outcome(answer) <=> Said(waiters, driver[d].event) = answer
    /\ Chosen = IF Said(waiters, driver[d].event) = "yes"
                THEN waiters[First(waiters, driver[d].event)].who ELSE Nothing
    /\ offered.event = driver[d].event
<1> SUFFICES ASSUME NEW d \in Drivers, StandbyInvariant, driver[d].pc = "reaped"
             PROVE  /\ \A answer : Outcome(answer) <=> Said(waiters, driver[d].event) = answer
                    /\ Chosen = IF Said(waiters, driver[d].event) = "yes"
                                THEN waiters[First(waiters, driver[d].event)].who ELSE Nothing
                    /\ offered.event = driver[d].event
  OBVIOUS
<1>1. /\ driver[d].event \in Events /\ offered.event = driver[d].event
      /\ \A x \in Drivers : driver[x].pc = "reaped" => x = d
  BY DEF StandbyInvariant, DriversApart
<1>2. \A answer : Outcome(answer) <=> Said(waiters, driver[d].event) = answer
  BY <1>1, ReachedFirst DEF Outcome
<1> QED BY <1>1, <1>2, ReachedFirst DEF Chosen

LEMMA MatchingNext ==
  (\A d \in Drivers : StandbyInvariant /\ driver[d].pc = "reaped" =>
    /\ \A answer : Outcome(answer) <=> Said(waiters, driver[d].event) = answer
    /\ Chosen = IF Said(waiters, driver[d].event) = "yes"
                THEN waiters[First(waiters, driver[d].event)].who ELSE Nothing
    /\ offered.event = driver[d].event)'
  BY MatchingFacts, PTL

Implements == Contract!Next \/ UNCHANGED <<Waiting, Handed, result, Open, offered>>

LEMMA WaitForImplements ==
  ASSUME StandbyInvariant, StandbyInvariant', NEW w \in Waiters, WaitFor(w)
  PROVE  Implements
<1>0. StandbyTypeOK /\ EnrolledOnce /\ StandbyTypeOK'
  BY DEF StandbyInvariant
<1>1. ~ Held /\ ~ Held' /\ UNCHANGED <<exists, poisoned, driver, matched, offered>> /\ exists
  BY DEF WaitFor, Held
<1>2. PICK R : R = {x \in Registered : future[x.who] # "dropped"}
  OBVIOUS
<1>3. PICK S : S = {x \in Registered : future'[x.who] # "dropped"}
  OBVIOUS
<1>4. /\ Waiting = Kept(waiters, R) /\ Handed = matched /\ (Open <=> exists /\ ~ poisoned)
      /\ Waiting' = Kept(waiters', S) /\ Handed' = matched' /\ (Open' <=> exists' /\ ~ poisoned')
  BY <1>0, <1>1, <1>2, <1>3, QuietFacts, QuietNext
<1>5. Handed' = Handed /\ Open' = Open
  BY <1>1, <1>4 DEF Open
<1>6. future[w] = "none" /\ ~ Enrolled(w) /\ \A v \in Waiters \ {w} : future'[v] = future[v]
  BY <1>0 DEF WaitFor, EnrolledOnce, StandbyTypeOK
<1>7. waiters \in Seq(Registered) /\ Kept(waiters, S) = Kept(waiters, R)
  <2>1. waiters \in Seq(Registered)
    BY <1>0 DEF StandbyTypeOK
  <2>2. Range(waiters) \cap S = Range(waiters) \cap R
    BY <1>2, <1>3, <1>6, <2>1, Members DEF Enrolled
  <2> QED BY <2>1, <2>2, KeptSame
<1>8. CASE poisoned /\ waiters' = waiters /\ result' = [result EXCEPT ![w] = Canceled]
  <2>1. Contract!Refuse(w)
    BY <1>1, <1>4, <1>5, <1>7, <1>8 DEF Contract!Refuse
  <2> QED BY <2>1 DEF Implements, Contract!Next
<1>9. ASSUME NEW p \in Predicates, waiters' = Append(waiters, [who |-> w, predicate |-> p]),
             future' = [future EXCEPT ![w] = "pending"], UNCHANGED result, ~ poisoned
      PROVE  Implements
  <2>1. PICK x \in Registered : x = [who |-> w, predicate |-> p]
    BY DEF Registered
  <2>2. x \in S
    BY <1>0, <1>3, <1>9, <2>1 DEF StandbyTypeOK
  <2>3. Kept(Append(waiters, x), S) = Append(Kept(waiters, S), x)
    BY <1>7, <2>2, KeptAppend
  <2>4. Waiting' = Append(Waiting, [who |-> w, predicate |-> p])
    BY <1>4, <1>7, <1>9, <2>1, <2>3
  <2>5. Contract!Register(w, p)
    BY <1>1, <1>4, <1>5, <1>9, <2>4 DEF Contract!Register
  <2> QED BY <2>5 DEF Implements, Contract!Next, Predicates
<1> QED BY <1>8, <1>9 DEF WaitFor

LEMMA DropFutureImplements ==
  ASSUME StandbyInvariant, StandbyInvariant', NEW w \in Waiters, DropFuture(w)
  PROVE  Implements
<1>0. StandbyTypeOK /\ EnrolledOnce
  BY DEF StandbyInvariant
<1>1. /\ future[w] = "pending" /\ future' = [future EXCEPT ![w] = "dropped"]
      /\ UNCHANGED <<waiters, exists, poisoned, result, driver, matched, offered>>
  BY DEF DropFuture
<1>2. Chosen' = Chosen /\ (Outcome("panic")' <=> Outcome("panic"))
  <2>1. CASE Held
    <3>1. PICK d \in Drivers : driver[d].pc = "reaped"
      BY <2>1 DEF Held
    <3>2. driver'[d].pc = "reaped"
      BY <1>1, <3>1
    <3> QED BY <1>1, <3>1, <3>2, MatchingFacts, MatchingNext
  <2>2. CASE ~ Held
    <3>1. ~ Held'
      BY <1>1, <2>2 DEF Held
    <3>2. ~ Outcome("panic") /\ ~ Outcome("panic")'
      BY <2>2, <3>1 DEF Outcome, Held
    <3> QED BY <2>2, <3>1, <3>2, QuietFacts, QuietNext DEF StandbyInvariant
  <2> QED BY <2>1, <2>2
<1>3. Handed' = Handed /\ Open' = Open
  BY <1>1, <1>2 DEF Handed, Open
<1>4. PICK c : c = Chosen
  OBVIOUS
<1>5. PICK R : R = {x \in Registered : future[x.who] # "dropped" /\ x.who # c}
  OBVIOUS
<1>6. PICK S : S = {x \in Registered : future'[x.who] # "dropped" /\ x.who # c}
  OBVIOUS
<1>7. Waiting = Kept(waiters, R) /\ Waiting' = Kept(waiters, S)
  BY <1>1, <1>2, <1>4, <1>5, <1>6 DEF Waiting
<1>8. /\ waiters \in Seq(Registered) /\ IsInjective(waiters) /\ Range(waiters) \subseteq Registered
      /\ \A x \in Registered : x.who \in Waiters
      /\ future'[w] = "dropped" /\ \A v \in Waiters \ {w} : future'[v] = future[v]
  BY <1>0, <1>1, Members DEF StandbyTypeOK, EnrolledOnce
<1>9. CASE ~ Enrolled(w) \/ w = c
  <2>1. Range(waiters) \cap S = Range(waiters) \cap R
    BY <1>5, <1>6, <1>8, <1>9 DEF Enrolled
  <2>2. Kept(waiters, S) = Kept(waiters, R)
    BY <1>8, <2>1, KeptSame
  <2> QED BY <1>1, <1>3, <1>7, <2>2 DEF Implements
<1>10. CASE Enrolled(w) /\ w # c
  <2>1. PICK x \in Range(waiters) : x.who = w
    BY <1>10 DEF Enrolled
  <2>2. x \in R /\ x \in Registered
    BY <1>1, <1>5, <1>8, <1>10, <2>1
  <2>3. PICK q : q = Kept(waiters, R)
    OBVIOUS
  <2>4. q \in Seq(Registered) /\ IsInjective(q) /\ x \in Range(q)
    BY <1>8, <2>1, <2>2, <2>3, Leaving
  <2>5. PICK j \in 1 .. Len(q) : q[j] = x
    BY <2>4, Members DEF Range
  <2>6. PICK X : X = Registered \ {x}
    OBVIOUS
  <2>7. RemoveAt(q, j) = Kept(q, X)
    BY <2>4, <2>5, <2>6, Removing
  <2>8. Kept(q, X) = Kept(waiters, R \cap X)
    BY <1>8, <2>3, KeptTwice
  <2>9. Range(waiters) \cap (R \cap X) = Range(waiters) \cap S
    <3>1. \A y \in Range(waiters) : y # x => y.who # w
      BY <1>0, <2>1 DEF EnrolledOnce
    <3> QED BY <1>5, <1>6, <1>8, <2>1, <2>6, <3>1
  <2>10. Kept(waiters, R \cap X) = Kept(waiters, S)
    BY <1>8, <2>9, KeptSame
  <2>11. Waiting' = RemoveAt(Waiting, j) /\ j \in DOMAIN Waiting
    BY <1>7, <2>3, <2>4, <2>5, <2>7, <2>8, <2>10, Members
  <2>12. Contract!Leave(j)
    BY <1>1, <1>3, <2>11 DEF Contract!Leave, Contract!RemoveAt, RemoveAt
  <2> QED BY <2>11, <2>12 DEF Implements, Contract!Next
<1> QED BY <1>9, <1>10

LEMMA ReapImplements ==
  ASSUME StandbyInvariant, StandbyInvariant', NEW d \in Drivers, NEW e \in Events, Reap(d, e)
  PROVE  Implements
<1>0. StandbyTypeOK /\ EnrolledOnce /\ StandbyTypeOK'
  BY DEF StandbyInvariant
<1>1. PICK R : R = {x \in Registered : future[x.who] # "dropped"}
  OBVIOUS
<1>2. /\ exists /\ ~ Held /\ ~ poisoned /\ waiters' = Kept(waiters, R)
      /\ driver' = [driver EXCEPT ![d] = [pc |-> "reaped", event |-> e, winner |-> Nothing]]
      /\ offered' = [event |-> e, bit |-> ~ offered.bit]
      /\ UNCHANGED <<exists, poisoned, future, result, matched>>
  BY <1>1 DEF Reap
<1>3. driver'[d].pc = "reaped" /\ driver'[d].event = e /\ offered'.event = e
  BY <1>0, <1>2 DEF StandbyTypeOK
<1>4. Waiting = Kept(waiters, R) /\ Handed = matched /\ Open
  BY <1>0, <1>1, <1>2, QuietFacts
<1>5. PICK q : q = Kept(waiters, R)
  OBVIOUS
<1>6. /\ q \in Seq(Registered) /\ IsInjective(q) /\ Range(q) = Range(waiters) \cap R
      /\ waiters \in Seq(Registered) /\ DOMAIN q = 1 .. Len(q) /\ Len(q) \in Nat
      /\ Range(q) \subseteq Registered
  BY <1>0, <1>5, Leaving, Members DEF StandbyTypeOK, EnrolledOnce
<1>7. /\ \A answer : Outcome(answer)' <=> Said(q, e) = answer
      /\ Chosen' = IF Said(q, e) = "yes" THEN q[First(q, e)].who ELSE Nothing
  BY <1>2, <1>3, <1>5, MatchingNext
<1>8. PICK c : c = Chosen'
  OBVIOUS
<1>9. PICK S : S = {x \in Registered : future[x.who] # "dropped" /\ x.who # c}
  OBVIOUS
<1>10. Waiting' = Kept(q, S) /\ (Open' <=> Said(q, e) # "panic")
  BY <1>2, <1>5, <1>7, <1>8, <1>9 DEF Waiting, Open
<1>11. Open \in BOOLEAN /\ Open' \in BOOLEAN
  BY DEF Open
<1>12. ASSUME c = Nothing PROVE Waiting' = Waiting /\ Handed' = Handed
  <2>1. Range(q) \subseteq S
    BY <1>1, <1>6, <1>9, <1>12, StandbyAssumption, Members
  <2>2. Kept(q, S) = q
    BY <1>6, <2>1, KeptAll
  <2>3. Handed' = matched
    BY <1>0, <1>2, <1>8, <1>12, StandbyAssumption DEF Handed, StandbyTypeOK
  <2> QED BY <1>4, <1>5, <1>10, <2>2, <2>3
<1>13. CASE Said(q, e) = "no"
  <2>1. \A i \in DOMAIN Waiting : Waiting[i].predicate[e] = "no"
    BY <1>4, <1>5, <1>6, <1>13, FirstFacts
  <2>2. UNCHANGED <<Waiting, Handed, Open>>
    BY <1>4, <1>7, <1>8, <1>10, <1>11, <1>12, <1>13
  <2>3. Contract!Offer(e)
    BY <1>2, <1>4, <2>1, <2>2, Zenon DEF Contract!Offer
  <2> QED BY <2>3 DEF Implements, Contract!Next
<1>14. PICK i : i = First(q, e)
  OBVIOUS
<1>15. CASE Said(q, e) = "panic"
  <2>1. /\ i \in DOMAIN Waiting /\ Waiting[i].predicate[e] = "panic"
        /\ \A j \in 1 .. i - 1 : Waiting[j].predicate[e] = "no"
    BY <1>4, <1>5, <1>6, <1>14, <1>15, FirstFacts
  <2>2. UNCHANGED <<Waiting, Handed>> /\ Open' = FALSE
    BY <1>7, <1>8, <1>10, <1>11, <1>12, <1>15
  <2>3. Contract!Offer(e)
    BY <1>2, <1>4, <2>1, <2>2, Zenon DEF Contract!Offer
  <2> QED BY <2>3 DEF Implements, Contract!Next
<1>16. CASE Said(q, e) = "yes"
  <2>1. /\ i \in 1 .. Len(q) /\ q[i].predicate[e] = "yes"
        /\ \A j \in 1 .. i - 1 : q[j].predicate[e] = "no"
    BY <1>6, <1>14, <1>16, FirstFacts
  <2>2. c = q[i].who /\ q[i] \in Range(q) /\ q[i] \in Registered /\ c \in Waiters
    BY <1>6, <1>7, <1>8, <1>14, <1>16, <2>1, Members
  <2>3. PICK X : X = Registered \ {q[i]}
    OBVIOUS
  <2>4. Range(q) \cap S = Range(q) \cap X
    <3>1. \A y \in Range(q) : y.who = c => y = q[i]
      BY <1>0, <1>6, <2>2 DEF EnrolledOnce
    <3>2. \A y \in Range(q) : future[y.who] # "dropped"
      BY <1>1, <1>6
    <3> QED BY <1>6, <1>9, <2>2, <2>3, <3>1, <3>2
  <2>5. Kept(q, S) = Kept(q, X)
    BY <1>6, <2>4, KeptSame
  <2>6. Waiting' = RemoveAt(Waiting, i)
    BY <1>4, <1>5, <1>6, <1>10, <2>1, <2>3, <2>5, Removing
  <2>7. Handed' = [Handed EXCEPT ![Waiting[i].who] = e]
    <3>1. Handed' = [w \in Waiters |-> IF w = c THEN e ELSE matched[w]]
      BY <1>2, <1>3, <1>8 DEF Handed
    <3>2. Handed' = [matched EXCEPT ![c] = e]
      BY <1>0, <2>2, <3>1 DEF StandbyTypeOK
    <3> QED BY <1>4, <1>5, <2>2, <3>2
  <2>8. Open' = Open
    BY <1>4, <1>10, <1>11, <1>16
  <2>9. /\ i \in DOMAIN Waiting /\ Waiting[i].predicate[e] = "yes"
        /\ \A j \in 1 .. i - 1 : Waiting[j].predicate[e] = "no"
    BY <1>4, <1>5, <1>6, <2>1
  <2>10. Waiting' = Contract!RemoveAt(Waiting, i)
    BY <2>6 DEF Contract!RemoveAt, RemoveAt
  <2>11. ~ (Waiting[i].predicate[e] = "no")
    BY <2>9
  <2>12. Contract!Offer(e)
    BY <1>2, <1>4, <2>7, <2>8, <2>9, <2>10, <2>11, Zenon DEF Contract!Offer
  <2> QED BY <2>12 DEF Implements, Contract!Next
<1> QED BY <1>6, <1>13, <1>15, <1>16, FirstFacts

LEMMA MatchImplements ==
  ASSUME StandbyInvariant, StandbyInvariant', NEW d \in Drivers, Match(d)
  PROVE  Implements
<1>0. StandbyTypeOK /\ EnrolledOnce /\ StandbyTypeOK' /\ DriversApart
  BY DEF StandbyInvariant
<1>1. /\ driver[d].pc = "reaped" /\ UNCHANGED <<exists, future, result, offered>>
      /\ MatchNobody(d) \/ MatchFirst(d) \/ PredicatePanics(d)
  BY DEF Match
<1>2. PICK e \in Events : e = driver[d].event
  BY <1>0, <1>1 DEF DriversApart
<1>3. /\ exists /\ ~ poisoned /\ \A x \in Drivers \ {d} : driver[x].pc # "reaped"
  BY <1>0, <1>1 DEF DriversApart
<1>4. /\ \A answer : Outcome(answer) <=> Said(waiters, e) = answer
      /\ Chosen = IF Said(waiters, e) = "yes" THEN waiters[First(waiters, e)].who ELSE Nothing
      /\ offered.event = e
  BY <1>1, <1>2, MatchingFacts
<1>5. ~ Held'
  <2>1. driver'[d].pc # "reaped" /\ \A x \in Drivers \ {d} : driver'[x] = driver[x]
    <3>1. driver \in [Drivers -> Progress]
      BY <1>0 DEF StandbyTypeOK
    <3>2. CASE MatchNobody(d) \/ PredicatePanics(d)
      BY <3>1, <3>2, ReturnedFacts DEF MatchNobody, PredicatePanics
    <3>3. CASE MatchFirst(d)
      <4>1. PICK w : driver' = [driver EXCEPT ![d].pc = "sending", ![d].winner = w]
        BY <3>3 DEF MatchFirst
      <4> QED BY <3>1, <4>1 DEF Progress
    <3> QED BY <1>1, <3>2, <3>3
  <2> QED BY <1>3, <2>1 DEF Held
<1>6. PICK R : R = {x \in Registered : future[x.who] # "dropped"}
  OBVIOUS
<1>7. /\ Handed' = matched' /\ (Open' <=> exists' /\ ~ poisoned')
      /\ Waiting' = Kept(waiters', R)
  BY <1>0, <1>1, <1>5, <1>6, QuietNext
<1>8. Open \in BOOLEAN /\ Open' \in BOOLEAN /\ (Open <=> Said(waiters, e) # "panic")
  BY <1>3, <1>4 DEF Open
<1>9. waiters \in Seq(Registered) /\ IsInjective(waiters) /\ Answer(e) = Said(waiters, e)
  BY <1>0, ReachedFirst DEF StandbyTypeOK, EnrolledOnce
<1>10. ASSUME Chosen = Nothing, UNCHANGED <<waiters, matched>>
       PROVE  Waiting' = Waiting /\ Handed' = Handed
  <2>1. Handed = matched
    BY <1>0, <1>10, StandbyAssumption DEF Handed, StandbyTypeOK
  <2>2. {x \in Registered : future[x.who] # "dropped" /\ x.who # Nothing} = R
    BY <1>6, StandbyAssumption DEF Registered
  <2>3. Waiting = Kept(waiters, R)
    BY <1>10, <2>2 DEF Waiting
  <2> QED BY <1>7, <1>10, <2>1, <2>3
<1>11. CASE MatchNobody(d)
  <2>1. Said(waiters, e) = "no" /\ UNCHANGED <<waiters, poisoned, matched>>
    BY <1>2, <1>9, <1>11 DEF MatchNobody
  <2>2. UNCHANGED <<Waiting, Handed, Open>>
    BY <1>1, <1>3, <1>4, <1>7, <1>8, <1>10, <2>1
  <2> QED BY <1>1, <2>2 DEF Implements
<1>12. CASE PredicatePanics(d)
  <2>1. Said(waiters, e) = "panic" /\ UNCHANGED <<waiters, matched>> /\ poisoned'
    BY <1>2, <1>9, <1>12 DEF PredicatePanics
  <2>2. UNCHANGED <<Waiting, Handed, Open>>
    BY <1>4, <1>7, <1>8, <1>10, <2>1
  <2> QED BY <1>1, <2>2 DEF Implements
<1>13. CASE MatchFirst(d)
  <2>1. PICK i : i = First(waiters, e)
    OBVIOUS
  <2>2. PICK c : c = Chosen
    OBVIOUS
  <2>3. /\ Said(waiters, e) = "yes" /\ c = waiters[i].who
        /\ waiters' = RemoveAt(waiters, i) /\ matched' = [matched EXCEPT ![c] = e]
        /\ UNCHANGED poisoned
    BY <1>2, <1>4, <1>9, <1>13, <2>1, <2>2, ReachedFirst DEF MatchFirst, Removed
  <2>4. /\ i \in 1 .. Len(waiters) /\ waiters[i] \in Range(waiters)
        /\ Range(waiters) \subseteq Registered /\ c \in Waiters
    BY <1>9, <2>1, <2>3, FirstFacts, Members
  <2>5. Handed' = Handed
    BY <1>0, <1>4, <1>7, <2>2, <2>3, <2>4 DEF Handed, StandbyTypeOK
  <2>6. Open' = Open
    BY <1>1, <1>3, <1>7, <1>8, <2>3
  <2>7. PICK X : X = Registered \ {waiters[i]}
    OBVIOUS
  <2>8. PICK S : S = {x \in Registered : future[x.who] # "dropped" /\ x.who # c}
    OBVIOUS
  <2>9. Waiting = Kept(waiters, S)
    BY <2>2, <2>8 DEF Waiting
  <2>10. Waiting' = Kept(waiters, X \cap R)
    <3>1. waiters' = Kept(waiters, X)
      BY <1>9, <2>3, <2>4, <2>7, Removing
    <3>2. Kept(Kept(waiters, X), R) = Kept(waiters, X \cap R)
      BY <1>9, KeptTwice
    <3> QED BY <1>7, <3>1, <3>2
  <2>11. Range(waiters) \cap (X \cap R) = Range(waiters) \cap S
    <3>1. \A y \in Range(waiters) : y.who = c <=> y = waiters[i]
      BY <1>0, <2>3, <2>4 DEF EnrolledOnce
    <3> QED BY <1>6, <2>4, <2>7, <2>8, <3>1
  <2>12. Kept(waiters, X \cap R) = Kept(waiters, S)
    BY <1>9, <2>11, KeptSame
  <2> QED BY <1>1, <2>5, <2>6, <2>9, <2>10, <2>12 DEF Implements
<1> QED BY <1>1, <1>11, <1>12, <1>13

LEMMA SendImplements ==
  ASSUME StandbyInvariant, StandbyInvariant', NEW d \in Drivers, Send(d)
  PROVE  Implements
<1>0. StandbyTypeOK /\ EnrolledOnce /\ DriversApart
  BY DEF StandbyInvariant
<1>1. PICK w : w = driver[d].winner
  OBVIOUS
<1>2. PICK e : e = driver[d].event
  OBVIOUS
<1>3. /\ driver[d].pc = "sending" /\ w \in Waiters /\ e \in Events /\ ~ Enrolled(w)
      /\ matched[w] = e
      /\ driver' = [driver EXCEPT ![d] = Returned]
      /\ UNCHANGED <<waiters, exists, poisoned, matched, offered>>
  BY <1>0, <1>1, <1>2 DEF Send, DriversApart
<1>4. \/ /\ future[w] = "pending" /\ future' = [future EXCEPT ![w] = "ended"]
         /\ result' = [result EXCEPT ![w] = e]
      \/ future[w] # "pending" /\ UNCHANGED <<future, result>>
  BY <1>1, <1>2 DEF Send
<1>5. /\ driver'[d].pc = "returned" /\ \A x \in Drivers \ {d} : driver'[x] = driver[x]
  BY <1>0, <1>3, ReturnedFacts DEF StandbyTypeOK
<1>6. Chosen' = Chosen /\ (Outcome("panic")' <=> Outcome("panic")) /\ Chosen # w
  <2>1. CASE Held
    <3>1. PICK x \in Drivers : driver[x].pc = "reaped" /\ driver[x].event \in Events
      BY <1>0, <2>1 DEF Held, DriversApart
    <3>2. driver'[x] = driver[x]
      BY <1>3, <1>5, <3>1
    <3>3. Chosen' = Chosen /\ (Outcome("panic")' <=> Outcome("panic"))
      BY <1>3, <3>1, <3>2, MatchingFacts, MatchingNext
    <3>4. Chosen = Nothing \/ Enrolled(Chosen)
      <4>1. waiters \in Seq(Registered)
        BY <1>0 DEF StandbyTypeOK
      <4>2. CASE Said(waiters, driver[x].event) = "yes"
        <5>1. PICK i : i = First(waiters, driver[x].event)
          OBVIOUS
        <5>2. i \in 1 .. Len(waiters) /\ waiters[i] \in Range(waiters)
          BY <3>1, <4>1, <4>2, <5>1, FirstFacts, Members
        <5>3. Chosen = waiters[i].who
          BY <3>1, <4>2, <5>1, MatchingFacts
        <5> QED BY <5>2, <5>3 DEF Enrolled
      <4>3. CASE Said(waiters, driver[x].event) # "yes"
        BY <3>1, <4>3, MatchingFacts
      <4> QED BY <4>2, <4>3
    <3> QED BY <1>3, <3>3, <3>4, StandbyAssumption
  <2>2. CASE ~ Held
    <3>1. ~ Held'
      BY <1>5, <2>2 DEF Held
    <3>2. ~ Outcome("panic") /\ ~ Outcome("panic")'
      BY <2>2, <3>1 DEF Outcome, Held
    <3> QED BY <1>3, <2>2, <3>1, <3>2, QuietFacts, QuietNext, StandbyAssumption DEF StandbyInvariant
  <2> QED BY <2>1, <2>2
<1>7. Handed' = Handed /\ Open' = Open
  BY <1>3, <1>6 DEF Handed, Open
<1>8. Waiting' = Waiting
  <2>1. PICK c : c = Chosen
    OBVIOUS
  <2>2. PICK R : R = {x \in Registered : future[x.who] # "dropped" /\ x.who # c}
    OBVIOUS
  <2>3. PICK S : S = {x \in Registered : future'[x.who] # "dropped" /\ x.who # c}
    OBVIOUS
  <2>4. /\ waiters \in Seq(Registered) /\ Range(waiters) \subseteq Registered
        /\ \A x \in Registered : x.who \in Waiters
    BY <1>0, Members DEF StandbyTypeOK
  <2>5. \A v \in Waiters \ {w} : future'[v] = future[v]
    BY <1>0, <1>3, <1>4 DEF StandbyTypeOK
  <2>6. Range(waiters) \cap S = Range(waiters) \cap R
    BY <1>3, <2>2, <2>3, <2>4, <2>5 DEF Enrolled
  <2>7. Kept(waiters, S) = Kept(waiters, R)
    BY <2>4, <2>6, KeptSame
  <2> QED BY <1>3, <1>6, <2>1, <2>2, <2>3, <2>7 DEF Waiting
<1>9. Handed[w] = e /\ e # Nothing
  BY <1>3, <1>6, StandbyAssumption DEF Handed
<1>10. CASE result' = [result EXCEPT ![w] = e]
  <2>1. Contract!Take(w)
    BY <1>3, <1>7, <1>8, <1>9, <1>10 DEF Contract!Take
  <2> QED BY <1>3, <2>1 DEF Implements, Contract!Next
<1>11. CASE UNCHANGED result
  BY <1>3, <1>7, <1>8, <1>11 DEF Implements
<1> QED BY <1>4, <1>10, <1>11

LEMMA DropStandbyImplements ==
  ASSUME StandbyInvariant, StandbyInvariant', DropStandby
  PROVE  Implements
<1>0. StandbyTypeOK /\ EnrolledOnce /\ StandbyTypeOK'
  BY DEF StandbyInvariant
<1>1. /\ \A d \in Drivers : driver[d] = Returned
      /\ exists' = FALSE /\ waiters' = <<>>
      /\ result' = [w \in Waiters |-> IF future[w] = "pending" THEN Canceled ELSE result[w]]
      /\ UNCHANGED <<poisoned, driver, matched, offered>>
  BY DEF DropStandby
<1>2. ~ Held /\ ~ Held'
  BY <1>1, ReturnedFacts DEF Held
<1>3. PICK R : R = {x \in Registered : future[x.who] # "dropped"}
  OBVIOUS
<1>4. /\ Waiting = Kept(waiters, R) /\ Handed = matched
      /\ Waiting' = <<>> /\ Handed' = matched' /\ Open' = FALSE
  BY <1>0, <1>1, <1>2, <1>3, QuietFacts, QuietNext, KeptEmpty DEF Open
<1>5. ASSUME NEW w \in Waiters
      PROVE  future[w] = "pending" <=> \E i \in DOMAIN Waiting : Waiting[i].who = w
  <2>1. PICK q : q = Kept(waiters, R)
    OBVIOUS
  <2>2. /\ waiters \in Seq(Registered) /\ q \in Seq(Registered)
        /\ Range(q) = Range(waiters) \cap R /\ Range(waiters) \subseteq Registered
    BY <1>0, <2>1, Leaving, Members DEF StandbyTypeOK, EnrolledOnce
  <2>3. (\E i \in DOMAIN q : q[i].who = w) <=> \E x \in Range(q) : x.who = w
    BY DEF Range
  <2>4. (\E x \in Range(q) : x.who = w) <=> Enrolled(w) /\ future[w] # "dropped"
    BY <1>3, <2>2 DEF Enrolled
  <2>5. future[w] = "pending" <=> Enrolled(w) /\ future[w] # "dropped"
    BY <1>0, <1>1, ReturnedFacts DEF EnrolledOnce
  <2> QED BY <1>4, <2>1, <2>3, <2>4, <2>5
<1>6. result' = [w \in Waiters |->
                   IF \E i \in DOMAIN Waiting : Waiting[i].who = w THEN Canceled ELSE result[w]]
  BY <1>1, <1>5
<1>7. Contract!Close
  BY <1>1, <1>4, <1>6 DEF Contract!Close
<1> QED BY <1>7 DEF Implements, Contract!Next

(* Standby implements Rendezvous: every event is handed to the first live  *)
(* waiter that matches it and to no other, and a wait ends with the event  *)
(* it was handed or canceled, however calls of process, registrations,     *)
(* dropped futures and panicking predicates interleave (standby.rs).       *)
THEOREM StandbyImplements == Spec => HandsOver
<1>1. Init => Contract!Init
  <2> SUFFICES ASSUME Init PROVE Contract!Init
    OBVIOUS
  <2>1. StandbyTypeOK /\ ~ Held
    BY StandbyInit, ReturnedFacts DEF StandbyInvariant, Init, Held
  <2>2. Waiting = <<>> /\ Handed = matched /\ Open = TRUE
    BY <2>1, QuietFacts, KeptEmpty DEF Init, Open
  <2> QED BY <2>2 DEF Init, Contract!Init
<1>2. ASSUME StandbyInvariant, StandbyInvariant', [Next]_vars PROVE Implements
  <2>1. CASE UNCHANGED vars
    <3>1. UNCHANGED <<waiters, exists, poisoned, future, result, driver, matched, offered>>
      BY <2>1 DEF vars
    <3>2. \A e : Reached(e)' = Reached(e) /\ Answer(e)' = Answer(e)
      BY <3>1 DEF Reached, Answer, SelectInSeq
    <3>3. \A answer : Outcome(answer)' <=> Outcome(answer)
      BY <3>1, <3>2 DEF Outcome
    <3>4. Chosen' = Chosen
      BY <3>1, <3>2, <3>3 DEF Chosen
    <3> QED BY <3>1, <3>3, <3>4 DEF Implements, Waiting, Handed, Open
  <2>2. CASE Next
    BY <1>2, <2>2, WaitForImplements, DropFutureImplements, ReapImplements, MatchImplements,
       SendImplements, DropStandbyImplements
    DEF Next
  <2> QED BY <1>2, <2>1, <2>2
<1>3. Implements => [Contract!Next]_(Contract!rendezvous)
  BY DEF Implements, Contract!rendezvous
<1> QED BY <1>1, <1>2, <1>3, StandbyHolds, PTL DEF Spec, HandsOver, Contract!Spec

=============================================================================
