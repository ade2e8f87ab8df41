---------------------------- MODULE RolesProofs -----------------------------
(***************************************************************************)
(* What the role directory promises, for any number of callers, rooms and  *)
(* any durations: grants are recent, invalidations are obeyed, and one     *)
(* request serves all who wait for its answer.                             *)
(***************************************************************************)
EXTENDS Roles, SubsequenceLemmas

USE DEF Grants, Key, Fetching, Current, Watching

LEMMA HorizonFacts ==
  /\ Horizon \in Nat /\ Ttl < Horizon /\ FailureTtl < Horizon /\ Timeout < Horizon
  /\ Ages = 0 .. Horizon
  /\ \A a \in Ages : Aged(a) \in Ages /\ Aged(a) = IF a < Horizon THEN a + 1 ELSE a
  BY RolesAssumption DEF Horizon, Larger, Ages, Aged

(* There is room for a slot that lost its key: callers are fewer than the  *)
(* ranks, and each has one slot.                                           *)
LEMMA SpareFree ==
  ASSUME NEW k \in Keys
  PROVE  Spare(k) \in Ranks /\ Holders(<<k, Spare(k)>>) = {}
<1>1. \E i \in Ranks : Holders(<<k, i>>) = {}
  <2> SUFFICES ASSUME \A i \in Ranks : Holders(<<k, i>>) # {} PROVE FALSE
    OBVIOUS
  <2>1. PICK f : f = [i \in Ranks |-> CHOOSE t \in Tasks : task[t].slot = <<k, i>>]
    OBVIOUS
  <2>2. \A i \in Ranks : f[i] \in Tasks /\ task[f[i]].slot = <<k, i>>
    BY <2>1 DEF Holders
  <2>3. /\ IsFiniteSet(Tasks) /\ Cardinality(Tasks) \in Nat
        /\ IsFiniteSet(Ranks) /\ Cardinality(Ranks) = Cardinality(Tasks) + 1
    <3>1. IsFiniteSet(Tasks) /\ Cardinality(Tasks) \in Nat
      BY RolesAssumption, FS_CardinalityType
    <3>2. PICK n \in Nat : n = Cardinality(Tasks)
      BY <3>1
    <3>3. IsFiniteSet(1 .. n + 1) /\ Cardinality(1 .. n + 1) = n + 1
      <4>1. \A a, b \in Int : IsFiniteSet(a .. b) /\ Cardinality(a .. b) = IF a > b THEN 0 ELSE b - a + 1
        BY FS_Interval
      <4>2. ~ (1 > n + 1) /\ n + 1 - 1 + 1 = n + 1 /\ 1 \in Int /\ n + 1 \in Int
        OBVIOUS
      <4> QED BY <4>1, <4>2
    <3> QED BY <3>1, <3>2, <3>3 DEF Ranks
  <2>4. f \in [Ranks -> Tasks]
    BY <2>1, <2>2
  <2>5. PICK i \in Ranks, j \in Ranks : i # j /\ f[i] = f[j]
    BY <2>3, <2>4, FS_PigeonHole
  <2> QED BY <2>2, <2>5
<1> QED BY <1>1 DEF Spare

(***************************************************************************)
(* Slots that lose their key: their holders and their entry go along to a  *)
(* place of their own, and everybody else stays.                           *)
(***************************************************************************)
Relocated(keys, tk, es) ==
  /\ tk \in [Tasks -> Verdicts] /\ es \in [Slots -> Entries \cup {None}]
  /\ \A t \in Tasks :
        /\ tk[t].pc = task[t].pc /\ tk[t].next = task[t].next /\ tk[t].age = task[t].age
        /\ tk[t].reply = task[t].reply /\ tk[t].revoked = task[t].revoked
        /\ tk[t].passed = task[t].passed
  /\ \A t \in Tasks : tk[t].slot = None <=> task[t].slot = None
  /\ \A t \in Tasks : task[t].slot # None =>
        /\ tk[t].slot[1] = task[t].slot[1]
        /\ es[tk[t].slot] = entries[task[t].slot]
        /\ task[t].slot \notin keys \X {0} => tk[t].slot = task[t].slot
        /\ task[t].slot \in keys \X {0} => tk[t].slot[2] # 0
  /\ \A t, u \in Tasks : task[t].slot # None /\ tk[t].slot = tk[u].slot => task[t].slot = task[u].slot
  /\ \A t, u \in Tasks : task[t].slot = task[u].slot => tk[t].slot = tk[u].slot
  /\ \A k \in keys : es[<<k, 0>>] = None
  /\ \A k \in Keys \ keys : es[<<k, 0>>] = entries[<<k, 0>>]
  /\ \A s \in Slots : \E r \in Slots : r[1] = s[1] /\ (es[s] = None \/ es[s] = entries[r])

LEMMA SlotFacts ==
  /\ \A s \in Slots : s = <<s[1], s[2]>> /\ s[1] \in Keys /\ s[2] \in {0} \cup Ranks /\ s # None
  /\ \A k \in Keys, i \in {0} \cup Ranks : <<k, i>> \in Slots
  /\ 0 \notin Ranks
<1>1. 0 \notin Ranks
  BY DEF Ranks
<1> QED BY <1>1, NoneAssumption DEF Slots

LEMMA Relocation ==
  ASSUME TypeOK, NEW keys \in SUBSET Keys
  PROVE  Relocated(keys, TasksMoved(keys), EntriesMoved(keys))
<1> DEFINE tk == TasksMoved(keys)
           es == EntriesMoved(keys)
<1>0. task \in [Tasks -> Verdicts] /\ entries \in [Slots -> Entries \cup {None}]
  BY DEF TypeOK
<1>1. \A k \in Keys : Spare(k) \in Ranks /\ \A t \in Tasks : task[t].slot # <<k, Spare(k)>>
  BY SpareFree DEF Holders
<1>2. \A t \in Tasks : task[t].slot \in Slots \cup {None}
  BY <1>0 DEF Verdicts
<1>3. ASSUME NEW t \in Tasks
      PROVE  /\ Moved(task[t].slot, keys) \in Slots \cup {None}
             /\ tk[t] \in Verdicts
             /\ tk[t] = [task[t] EXCEPT !.slot = Moved(task[t].slot, keys)]
             /\ tk[t].slot = Moved(task[t].slot, keys)
  <2>1. Moved(task[t].slot, keys) \in Slots \cup {None}
    BY <1>1, <1>2, SlotFacts DEF Moved
  <2>2. tk[t] = [task[t] EXCEPT !.slot = Moved(task[t].slot, keys)]
    BY DEF TasksMoved
  <2>3. task[t] \in Verdicts
    BY <1>0
  <2> QED BY <2>1, <2>2, <2>3 DEF Verdicts
<1>4. \A s \in Slots :
        es[s] = IF s[1] \notin keys \/ s[2] \notin {0, Spare(s[1])} THEN entries[s]
                ELSE IF s[2] = 0 THEN None ELSE entries[<<s[1], 0>>]
  BY DEF EntriesMoved
<1>5. es \in [Slots -> Entries \cup {None}]
  BY <1>0, SlotFacts DEF EntriesMoved
<1>6. tk \in [Tasks -> Verdicts]
  BY <1>3 DEF TasksMoved
<1> HIDE DEF tk, es
<1>7. ASSUME NEW t \in Tasks, task[t].slot \in keys \X {0}
      PROVE  \E k \in keys : /\ task[t].slot = <<k, 0>>
                             /\ tk[t].slot = <<k, Spare(k)>> /\ tk[t].slot # None
                             /\ es[<<k, Spare(k)>>] = entries[<<k, 0>>]
  <2>1. PICK k \in keys : task[t].slot = <<k, 0>>
    BY <1>7
  <2>2. <<k, 0>> # None /\ <<k, Spare(k)>> \in Slots /\ <<k, Spare(k)>> # None /\ Spare(k) # 0
    BY <1>1, SlotFacts
  <2>3. Moved(<<k, 0>>, keys) = <<k, Spare(k)>>
    <3>1. <<k, 0>> \in keys \X {0} /\ <<k, 0>>[1] = k
      OBVIOUS
    <3> QED BY <2>2, <3>1, Zenon DEF Moved
  <2>4. es[<<k, Spare(k)>>] = entries[<<k, 0>>]
    <3>1. <<k, Spare(k)>>[1] = k /\ <<k, Spare(k)>>[2] = Spare(k)
      OBVIOUS
    <3> QED BY <1>4, <2>2, <3>1
  <2>5. tk[t].slot = Moved(task[t].slot, keys)
    BY <1>3
  <2> QED BY <2>1, <2>2, <2>3, <2>4, <2>5
<1>8. ASSUME NEW t \in Tasks, task[t].slot # None, task[t].slot \notin keys \X {0}
      PROVE  tk[t].slot = task[t].slot /\ es[task[t].slot] = entries[task[t].slot]
  <2>1. tk[t].slot = task[t].slot
    BY <1>3, <1>8 DEF Moved
  <2>2. task[t].slot \in Slots
    BY <1>2, <1>8
  <2>3. task[t].slot[1] \notin keys \/ task[t].slot[2] # 0
    BY <1>8, <2>2, SlotFacts
  <2>4. task[t].slot[2] # Spare(task[t].slot[1])
    BY <1>1, <2>2, SlotFacts
  <2> QED BY <1>4, <2>1, <2>2, <2>3, <2>4
<1>9. ASSUME NEW t \in Tasks, task[t].slot = None PROVE tk[t].slot = None
  BY <1>3, <1>9 DEF Moved
<1>10. ASSUME NEW t \in Tasks
       PROVE  /\ tk[t].pc = task[t].pc /\ tk[t].next = task[t].next /\ tk[t].age = task[t].age
              /\ tk[t].reply = task[t].reply /\ tk[t].revoked = task[t].revoked
        /\ tk[t].passed = task[t].passed
  BY <1>0, <1>3 DEF Verdicts
<1>11. \A t \in Tasks : tk[t].slot = None <=> task[t].slot = None
  BY <1>7, <1>8, <1>9
<1>12. ASSUME NEW t \in Tasks, task[t].slot # None
       PROVE  /\ tk[t].slot[1] = task[t].slot[1]
              /\ es[tk[t].slot] = entries[task[t].slot]
              /\ task[t].slot \notin keys \X {0} => tk[t].slot = task[t].slot
              /\ task[t].slot \in keys \X {0} => tk[t].slot[2] # 0
  <2>1. CASE task[t].slot \in keys \X {0}
    <3>1. PICK k \in keys : /\ task[t].slot = <<k, 0>>
                            /\ tk[t].slot = <<k, Spare(k)>>
                            /\ es[<<k, Spare(k)>>] = entries[<<k, 0>>]
      BY <1>7, <2>1
    <3>2. <<k, 0>>[1] = k /\ <<k, Spare(k)>>[1] = k /\ <<k, Spare(k)>>[2] = Spare(k)
      OBVIOUS
    <3>3. Spare(k) # 0
      BY <1>1, SlotFacts
    <3> QED BY <2>1, <3>1, <3>2, <3>3
  <2>2. CASE task[t].slot \notin keys \X {0}
    BY <1>8, <1>12, <2>2
  <2> QED BY <2>1, <2>2
<1>13. ASSUME NEW t \in Tasks, NEW u \in Tasks, task[t].slot # None, tk[t].slot = tk[u].slot
       PROVE  task[t].slot = task[u].slot
  <2>1. task[u].slot # None /\ tk[t].slot # None
    BY <1>11, <1>13
  <2>2. CASE task[t].slot \in keys \X {0} /\ task[u].slot \in keys \X {0}
    <3>1. PICK k \in keys : task[t].slot = <<k, 0>> /\ tk[t].slot = <<k, Spare(k)>>
      BY <1>7, <2>2
    <3>2. PICK m \in keys : task[u].slot = <<m, 0>> /\ tk[u].slot = <<m, Spare(m)>>
      BY <1>7, <2>2
    <3>3. <<k, Spare(k)>>[1] = k /\ <<m, Spare(m)>>[1] = m
      OBVIOUS
    <3> QED BY <1>13, <3>1, <3>2, <3>3
  <2>3. CASE task[t].slot \in keys \X {0} /\ task[u].slot \notin keys \X {0}
    <3>1. PICK k \in keys : tk[t].slot = <<k, Spare(k)>>
      BY <1>7, <2>3
    <3>2. tk[u].slot = task[u].slot
      BY <1>8, <2>1, <2>3
    <3> QED BY <1>1, <1>13, <3>1, <3>2
  <2>4. CASE task[t].slot \notin keys \X {0} /\ task[u].slot \in keys \X {0}
    <3>1. PICK k \in keys : tk[u].slot = <<k, Spare(k)>>
      BY <1>7, <2>4
    <3>2. tk[t].slot = task[t].slot
      BY <1>8, <1>13, <2>4
    <3> QED BY <1>1, <1>13, <3>1, <3>2
  <2>5. CASE task[t].slot \notin keys \X {0} /\ task[u].slot \notin keys \X {0}
    BY <1>8, <1>13, <2>1, <2>5
  <2> QED BY <2>2, <2>3, <2>4, <2>5
<1>14. \A t, u \in Tasks : task[t].slot = task[u].slot => tk[t].slot = tk[u].slot
  BY <1>3
<1>15. \A k \in keys : es[<<k, 0>>] = None
  BY <1>1, <1>4, SlotFacts
<1>16. \A k \in Keys \ keys : es[<<k, 0>>] = entries[<<k, 0>>]
  BY <1>4, SlotFacts
<1>17. ASSUME NEW s \in Slots
       PROVE  \E r \in Slots : r[1] = s[1] /\ (es[s] = None \/ es[s] = entries[r])
  <2>1. es[s] \in {None, entries[s], entries[<<s[1], 0>>]}
    BY <1>4
  <2>2. <<s[1], 0>> \in Slots /\ <<s[1], 0>>[1] = s[1]
    BY SlotFacts
  <2> QED BY <2>1, <2>2
<1>18. Relocated(keys, tk, es)
  BY <1>5, <1>6, <1>10, <1>11, <1>12, <1>13, <1>14, <1>15, <1>16, <1>17 DEF Relocated
<1> QED BY <1>18 DEF tk, es

(* Store keeps what is fresh and still referred to.                        *)
LEMMA StoreFacts ==
  ASSUME NEW es \in [Slots -> Entries \cup {None}], Store(es)
  PROVE  /\ entries' \in [Slots -> Entries \cup {None}]
         /\ \A s \in Slots : entries'[s] # None =>
              /\ entries'[s] = es[s] /\ IsFresh(es[s])
              /\ (s[2] = 0 /\ s[1] \in Remembered') \/ Holders(s)' # {}
         /\ \A s \in Slots : es[s] # None /\ IsFresh(es[s]) /\ s[2] = 0 /\ s[1] \in Remembered'
              => entries'[s] = es[s]
  BY DEF Store

LEMMA NoneFacts ==
  /\ None \notin Rooms /\ None \notin Answers /\ None \notin Entries
  /\ None # "granted" /\ None # "denied" /\ None # "failed"
  /\ \A a \in Ages : Asking(a) # None
  /\ \A a \in [holders : Answers \cup {None}, age : Ages] : a # None
  /\ Entries \subseteq [holders : Answers \cup {None}, age : Ages]
  BY NoneAssumption DEF Answers, Entries, Asking

(***************************************************************************)
(* The remembered rooms.                                                   *)
(***************************************************************************)
Consulted ==
  /\ consulted \in Seq(Rooms) /\ IsInjective(consulted)
  /\ MaxRooms > 0 => Len(consulted) <= MaxRooms

LEMMA RangeIsToSet == \A s : ToSet(s) = Range(s)
  BY DEF ToSet, Range

LEMMA EvictedFacts ==
  ASSUME Consulted, NEW k \in Keys
  PROVE  Evicted(k) \subseteq Rooms /\ k \notin Evicted(k) /\ (k = Global => Evicted(k) = {})
<1>1. Global \in Remembered
  BY DEF Remembered
<1>2. Evicted(k) \subseteq ToSet(consulted)
  <2>1. CASE k \in Remembered \/ MaxRooms = 0 \/ Len(consulted) < MaxRooms
    BY <2>1 DEF Evicted
  <2>2. CASE ~ (k \in Remembered \/ MaxRooms = 0 \/ Len(consulted) < MaxRooms)
    <3>1. Evicted(k) = {consulted[i] : i \in 1 .. Len(consulted) - MaxRooms + 1}
      BY <2>2 DEF Evicted
    <3>2. Len(consulted) \in Nat /\ DOMAIN consulted = 1 .. Len(consulted)
      BY LenProperties DEF Consulted
    <3>3. 1 .. Len(consulted) - MaxRooms + 1 \subseteq DOMAIN consulted
      BY <2>2, <3>2, RolesAssumption
    <3> QED BY <3>1, <3>3 DEF ToSet
  <2> QED BY <2>1, <2>2
<1>3. ToSet(consulted) \subseteq Rooms
  BY LenProperties DEF Consulted, ToSet
<1>4. k \notin Evicted(k)
  <2>1. CASE k \in Remembered
    BY <2>1 DEF Evicted
  <2>2. CASE k \notin Remembered
    BY <1>2, <2>2 DEF Remembered
  <2> QED BY <2>1, <2>2
<1>5. k = Global => Evicted(k) = {}
  BY <1>1 DEF Evicted
<1> QED BY <1>2, <1>3, <1>4, <1>5

(* A room that is consulted joins the map within its ceiling.              *)
LEMMA ConsultedTake ==
  ASSUME Consulted, NEW k \in Keys,
         consulted' = IF k = Global THEN consulted
                      ELSE Append(Kept(consulted, Rooms \ (Evicted(k) \cup {k})), k)
  PROVE  Consulted' /\ Remembered' = (Remembered \ Evicted(k)) \cup {k}
<1>1. CASE k = Global
  <2>1. consulted' = consulted /\ Evicted(k) = {} /\ k \in Remembered
    BY <1>1, EvictedFacts DEF Remembered
  <2> QED BY <2>1 DEF Consulted, Remembered
<1>2. CASE k # Global
  <2> DEFINE S == Rooms \ (Evicted(k) \cup {k})
  <2>1. PICK s : s = Kept(consulted, S)
    OBVIOUS
  <2>2. k \in Rooms /\ consulted' = Append(s, k)
    BY <1>2, <2>1 DEF Keys
  <2>3. consulted \in Seq(Rooms) /\ Len(consulted) \in Nat /\ IsInjective(consulted)
    BY LenProperties DEF Consulted
  <2>4. Evicted(k) \subseteq Rooms /\ k \notin Evicted(k)
    BY EvictedFacts
  <2>5. /\ s \in Seq(Rooms) /\ Len(s) <= Len(consulted) /\ Len(s) \in Nat
        /\ Range(s) = Range(consulted) \cap S /\ IsInjective(s)
        /\ ~ (Range(consulted) \subseteq S) => Len(s) < Len(consulted)
    <3> HIDE DEF S
    <3>1. s \in Seq(Rooms \cap S) /\ Rooms \cap S \subseteq Rooms
      BY <2>1, <2>3, KeptType
    <3>2. s \in Seq(Rooms)
      BY <3>1, SeqMonotonic
    <3>3. Len(s) <= Len(consulted) /\ Range(s) = Range(consulted) \cap S /\ IsInjective(s)
      BY <2>1, <2>3, KeptType, KeptElements, KeptInjective
    <3>4. ~ (Range(consulted) \subseteq S) => Len(s) < Len(consulted)
      BY <2>1, <2>3, KeptAll
    <3> QED BY <3>2, <3>3, <3>4, LenProperties
  <2>6. /\ consulted' \in Seq(Rooms) /\ Len(consulted') = Len(s) + 1
        /\ IsInjective(consulted')
    <3>1. k \notin Range(s)
      BY <2>5
    <3> HIDE DEF S
    <3>2. IsInjective(Append(s, k))
      BY <2>2, <2>5, <3>1, InjectiveAppend
    <3>3. Append(s, k) \in Seq(Rooms) /\ Len(Append(s, k)) = Len(s) + 1
      BY <2>2, <2>5, AppendProperties
    <3> QED BY <2>2, <3>2, <3>3
  <2>7. MaxRooms > 0 => Len(consulted') <= MaxRooms
    <3> SUFFICES ASSUME MaxRooms > 0 PROVE Len(s) < MaxRooms
      BY <2>5, <2>6, RolesAssumption
    <3>1. Len(consulted) <= MaxRooms
      BY DEF Consulted
    <3>2. CASE k \in Remembered
      <4>1. k \in Range(consulted)
        BY <1>2, <3>2, RangeIsToSet DEF Remembered
      <4>2. Len(s) < Len(consulted)
        BY <2>5, <4>1
      <4> QED BY <2>3, <2>5, <3>1, <4>2, RolesAssumption
    <3>3. CASE k \notin Remembered /\ Len(consulted) < MaxRooms
      BY <2>3, <2>5, <3>3, RolesAssumption
    <3>4. CASE k \notin Remembered /\ ~ (Len(consulted) < MaxRooms)
      <4>1. 1 \in 1 .. Len(consulted) - MaxRooms + 1 /\ 1 \in 1 .. Len(consulted)
        BY <2>3, <3>1, <3>4, RolesAssumption
      <4>2. consulted[1] \in Evicted(k)
        BY <3>4, <4>1, RolesAssumption DEF Evicted
      <4>3. consulted[1] \in Range(consulted)
        BY <2>3, <4>1, LenProperties DEF Range
      <4>4. Len(s) < Len(consulted)
        BY <2>5, <4>2, <4>3
      <4> QED BY <2>3, <2>5, <3>1, <4>4, RolesAssumption
    <3> QED BY <3>2, <3>3, <3>4
  <2>8. Remembered' = (Remembered \ Evicted(k)) \cup {k}
    <3>1. Range(consulted') = Range(s) \cup {k}
      <4> HIDE DEF S
      <4>1. Range(Append(s, k)) = Range(s) \cup {k}
        BY <2>2, <2>5, RangeAppend
      <4> QED BY <2>2, <4>1
    <3>2. Range(consulted) \subseteq Rooms
      BY <2>3, LenProperties DEF Range
    <3>3. Global \notin Evicted(k)
      BY <2>4, RolesAssumption
    <3> QED BY <2>5, <3>1, <3>2, <3>3, RangeIsToSet DEF Remembered
  <2> QED BY <2>6, <2>7, <2>8 DEF Consulted
<1> QED BY <1>1, <1>2

LEMMA ConsultedInvalidate ==
  ASSUME Consulted, NEW keys \in SUBSET Keys, consulted' = Kept(consulted, Rooms \ keys)
  PROVE  Consulted' /\ Remembered' = {Global} \cup (Remembered \ keys)
<1> DEFINE S == Rooms \ keys
<1>1. consulted \in Seq(Rooms) /\ Len(consulted) \in Nat /\ IsInjective(consulted)
  BY LenProperties DEF Consulted
<1>2. PICK s : s = Kept(consulted, S)
  OBVIOUS
<1>3. /\ s \in Seq(Rooms) /\ Len(s) <= Len(consulted) /\ Len(s) \in Nat
      /\ Range(s) = Range(consulted) \cap S /\ IsInjective(s)
  <2> HIDE DEF S
  <2>1. s \in Seq(Rooms \cap S) /\ Rooms \cap S \subseteq Rooms
    BY <1>1, <1>2, KeptType
  <2>2. s \in Seq(Rooms)
    BY <2>1, SeqMonotonic
  <2>3. Len(s) <= Len(consulted) /\ Range(s) = Range(consulted) \cap S /\ IsInjective(s)
    BY <1>1, <1>2, KeptType, KeptElements, KeptInjective
  <2> QED BY <2>2, <2>3, LenProperties
<1>4. consulted' = s
  BY <1>2
<1>5. MaxRooms > 0 => Len(s) <= MaxRooms
  BY <1>1, <1>3, RolesAssumption DEF Consulted
<1>6. Range(consulted) \subseteq Rooms
  BY <1>1, LenProperties DEF Range
<1>7. Remembered' = {Global} \cup (Remembered \ keys)
  BY <1>3, <1>4, <1>6, RangeIsToSet DEF Remembered
<1> QED BY <1>3, <1>4, <1>5, <1>7 DEF Consulted

(***************************************************************************)
(* What the actions do to the caller that moves.                           *)
(***************************************************************************)
\* t is done with its slot: it has its answer, goes on to a room, or is gone.
Leaves(t, v) ==
  /\ v \in Verdicts /\ task' = [task EXCEPT ![t] = v]
  /\ v.slot = None /\ v.pc \in {"idle", "asking"} /\ (v.pc = "asking" => v.next # None)
  /\ ~ v.revoked /\ v.reply = None /\ (v.passed => v.pc = "idle")

LEMMA IdleFacts ==
  /\ Idle \in Verdicts
  /\ Idle.pc = "idle" /\ Idle.slot = None /\ ~ Idle.revoked /\ ~ Idle.passed
  /\ Idle.reply = None
<1>1. 0 \in Ages
  BY HorizonFacts
<1> QED BY <1>1 DEF Idle, Verdicts

LEMMA AnsweredFacts ==
  ASSUME TypeOK, NEW t \in Tasks, NEW e \in Entries, Answered(t, e)
  PROVE  \E v : Leaves(t, v) /\ (v.passed => Grants(e))
<1>1. task[t].next \in Rooms \cup {None}
  BY DEF TypeOK, Verdicts
<1>2. CASE Grants(e) \/ task[t].next = None
  <2>1. PICK v : v = [Idle EXCEPT !.passed = Grants(e)]
    OBVIOUS
  <2>2. task' = [task EXCEPT ![t] = v]
    BY <1>2, <2>1 DEF Answered, TypeOK
  <2>3. Grants(e) \in BOOLEAN
    OBVIOUS
  <2>4. /\ v \in Verdicts /\ v.slot = None /\ v.pc = "idle" /\ ~ v.revoked /\ v.reply = None
        /\ v.passed = Grants(e)
    BY <2>1, <2>3, IdleFacts DEF Verdicts
  <2> QED BY <2>2, <2>4 DEF Leaves
<1>3. CASE ~ Grants(e) /\ task[t].next # None
  <2>1. PICK v : v = [Idle EXCEPT !.pc = "asking", !.next = task[t].next]
    OBVIOUS
  <2>2. task' = [task EXCEPT ![t] = v]
    BY <1>3, <2>1 DEF Answered, TypeOK
  <2>3. /\ v \in Verdicts /\ v.slot = None /\ v.pc = "asking" /\ ~ v.revoked /\ v.reply = None
        /\ v.next # None /\ ~ v.passed
    BY <1>1, <1>3, <2>1, IdleFacts DEF Verdicts
  <2> QED BY <2>2, <2>3 DEF Leaves
<1> QED BY <1>2, <1>3

\* t holds the slot of k from now on.
Enters(t, k, tk, v) ==
  /\ v \in Verdicts /\ task' = [tk EXCEPT ![t] = v]
  /\ v.pc = "queued" /\ v.slot = <<k, 0>> /\ v.reply = None /\ ~ v.passed
  /\ v.revoked <=> k = watched /\ revoked

LEMMA TakeSlotFacts ==
  ASSUME TypeOK, NEW t \in Tasks, NEW k \in Keys, NEW next \in Rooms \cup {None},
         TakeSlot(t, k, next)
  PROVE  \E keys \in SUBSET Keys : \E tk, es, v :
           /\ k \notin keys /\ keys = Evicted(k)
           /\ Relocated(keys, tk, es) /\ Store(es) /\ Enters(t, k, tk, v)
           /\ Consulted' /\ Remembered' = (Remembered \ keys) \cup {k}
           /\ asked' = IF watched \in keys THEN None ELSE asked
           /\ UNCHANGED <<watched, held, sinceHeld, revoked>>
<1>1. Consulted /\ k \in Keys
  BY DEF TypeOK, Consulted
<1>2. PICK keys : keys = Evicted(k)
  OBVIOUS
<1>3. keys \in SUBSET Keys /\ k \notin keys
  BY <1>1, <1>2, EvictedFacts DEF Keys
<1>4. PICK tk, es : tk = TasksMoved(keys) /\ es = EntriesMoved(keys)
  OBVIOUS
<1>5. Relocated(keys, tk, es)
  BY <1>3, <1>4, Relocation
<1>6. Consulted' /\ Remembered' = (Remembered \ keys) \cup {k}
  BY <1>1, <1>2, ConsultedTake DEF TakeSlot
<1>7. PICK v : v = [Idle EXCEPT !.pc = "queued", !.slot = <<k, 0>>, !.next = next,
                                !.revoked = k = watched /\ revoked]
  OBVIOUS
<1>8. task' = [tk EXCEPT ![t] = v]
  BY <1>2, <1>4, <1>7, Zenon DEF TakeSlot
<1>9. Enters(t, k, tk, v)
  <2>1. (k = watched /\ revoked) \in BOOLEAN /\ <<k, 0>> \in Slots
    BY SlotFacts
  <2>2. /\ v \in Verdicts /\ v.pc = "queued" /\ v.slot = <<k, 0>> /\ v.reply = None
        /\ ~ v.passed
    BY <1>7, <2>1, IdleFacts DEF Verdicts
  <2>3. v.revoked = (k = watched /\ revoked)
    BY <1>7, IdleFacts DEF Verdicts
  <2> QED BY <1>8, <2>2, <2>3 DEF Enters
<1>10. /\ Store(es)
       /\ asked' = IF watched \in keys THEN None ELSE asked
       /\ UNCHANGED <<watched, held, sinceHeld, revoked>>
  BY <1>2, <1>4 DEF TakeSlot, server
<1> QED BY <1>2, <1>3, <1>5, <1>6, <1>9, <1>10

LEMMA InvalidateFacts ==
  ASSUME TypeOK, NEW keys \in SUBSET Keys, Invalidate(keys)
  PROVE  \E es : /\ Relocated(keys, task', es) /\ Store(es)
                 /\ Consulted' /\ Remembered' = {Global} \cup (Remembered \ keys)
<1>1. Consulted
  BY DEF TypeOK, Consulted
<1>2. PICK es : es = EntriesMoved(keys)
  OBVIOUS
<1>3. Relocated(keys, task', es)
  BY <1>2, Relocation DEF Invalidate
<1> QED BY <1>1, <1>2, <1>3, ConsultedInvalidate DEF Invalidate

(***************************************************************************)
(* What holds of the callers and their slots holds of them elsewhere.      *)
(***************************************************************************)
Carried(keys, tk, es) ==
  /\ \A t \in Tasks :
        /\ tk[t].pc \in {"queued", "fetching"} <=> tk[t].slot # None
        /\ tk[t].pc = "asking" => tk[t].next # None
        /\ tk[t].reply # None => tk[t].pc = "fetching"
        /\ tk[t].passed => tk[t].pc = "idle"
        /\ tk[t].pc = "fetching" => tk[t].age <= Timeout
        /\ tk[t].slot \in Keys \X {0} => tk[t].slot[1] \in Remembered \ keys
  /\ \A t, u \in Tasks :
        tk[t].pc = "fetching" /\ tk[u].pc = "fetching" /\ tk[u].slot = tk[t].slot => t = u
  /\ \A s \in Slots :
        s[1] = watched /\ es[s] # None /\ es[s].holders = "granted" => sinceHeld <= es[s].age
  /\ \A t \in Tasks :
        tk[t].pc = "fetching" /\ tk[t].slot[1] = watched /\ tk[t].reply = "granted"
          => sinceHeld <= tk[t].age
  /\ \A t \in Tasks : tk[t].revoked =>
        /\ tk[t].pc \in {"queued", "fetching"} /\ tk[t].slot[1] = watched /\ ~ held
        /\ es[tk[t].slot] # None => es[tk[t].slot].holders # "granted"
        /\ \A u \in Tasks : ~ (tk[u].pc = "fetching" /\ tk[u].slot = tk[t].slot /\ tk[u].reply = "granted")

Apart(keys, tk, es) ==
  /\ \A t \in Tasks : tk[t].slot = <<watched, 0>> =>
        /\ watched \notin keys /\ task[t].slot = <<watched, 0>>
        /\ tk[t].pc = task[t].pc /\ tk[t].age = task[t].age /\ tk[t].reply = task[t].reply
  /\ watched \notin keys =>
        /\ es[<<watched, 0>>] = entries[<<watched, 0>>]
        /\ \A t \in Tasks : task[t].slot = <<watched, 0>> =>
             tk[t].slot = <<watched, 0>> /\ tk[t].pc = task[t].pc

LEMMA Carries ==
  ASSUME DirectoryInvariant, NEW keys \in SUBSET Keys, NEW tk, NEW es, Relocated(keys, tk, es)
  PROVE  Carried(keys, tk, es) /\ Apart(keys, tk, es)
<1>0. /\ task \in [Tasks -> Verdicts] /\ watched \in Keys /\ <<watched, 0>> \in Slots
      /\ \A t \in Tasks : task[t].slot # None => task[t].slot \in Slots
      /\ \A t \in Tasks : tk[t].slot # None => tk[t].slot \in Slots
  BY SlotFacts DEF DirectoryInvariant, TypeOK, Verdicts, Relocated
<1>1. ASSUME NEW t \in Tasks
      PROVE  /\ tk[t].pc \in {"queued", "fetching"} <=> tk[t].slot # None
             /\ tk[t].pc = "asking" => tk[t].next # None
             /\ tk[t].reply # None => tk[t].pc = "fetching"
             /\ tk[t].passed => tk[t].pc = "idle"
             /\ tk[t].pc = "fetching" => tk[t].age <= Timeout
             /\ tk[t].slot \in Keys \X {0} => tk[t].slot[1] \in Remembered \ keys
  <2>1. /\ tk[t].pc \in {"queued", "fetching"} <=> tk[t].slot # None
        /\ tk[t].pc = "asking" => tk[t].next # None
        /\ tk[t].reply # None => tk[t].pc = "fetching"
        /\ tk[t].passed => tk[t].pc = "idle"
        /\ tk[t].pc = "fetching" => tk[t].age <= Timeout
    BY DEF Relocated, DirectoryInvariant, SingleFlight
  <2>2. ASSUME tk[t].slot \in Keys \X {0} PROVE tk[t].slot[1] \in Remembered \ keys
    <3>1. task[t].slot # None /\ tk[t].slot[2] = 0
      <4>1. tk[t].slot # None
        BY <2>2, SlotFacts
      <4> QED BY <2>2, <4>1 DEF Relocated
    <3>2. tk[t].slot = task[t].slot /\ task[t].slot \notin keys \X {0}
      BY <3>1 DEF Relocated
    <3>3. tk[t].slot[1] \notin keys
      BY <2>2, <3>2
    <3>4. task[t].slot[1] \in Remembered
      BY <2>2, <3>2 DEF DirectoryInvariant, SingleFlight
    <3> QED BY <3>2, <3>3, <3>4
  <2> QED BY <2>1, <2>2
<1>2. ASSUME NEW t \in Tasks, NEW u \in Tasks,
             tk[t].pc = "fetching", tk[u].pc = "fetching", tk[u].slot = tk[t].slot
      PROVE  t = u
  <2>1. task[t].pc = "fetching" /\ task[u].pc = "fetching" /\ task[u].slot # None
    BY <1>2 DEF Relocated, DirectoryInvariant, SingleFlight
  <2>2. task[t].slot = task[u].slot
    BY <1>2, <2>1 DEF Relocated
  <2> QED BY <2>1, <2>2 DEF DirectoryInvariant, SingleFlight
<1>3. ASSUME NEW s \in Slots, s[1] = watched, es[s] # None, es[s].holders = "granted"
      PROVE  sinceHeld <= es[s].age
  <2>1. PICK r \in Slots : r[1] = s[1] /\ es[s] = entries[r]
    BY <1>3 DEF Relocated
  <2> QED BY <1>3, <2>1 DEF DirectoryInvariant, GrantsAged
<1>4. ASSUME NEW t \in Tasks,
             tk[t].pc = "fetching", tk[t].slot[1] = watched, tk[t].reply = "granted"
      PROVE  sinceHeld <= tk[t].age
  <2>1. /\ task[t].pc = "fetching" /\ task[t].reply = "granted"
        /\ task[t].age = tk[t].age /\ task[t].slot # None
    BY <1>4 DEF Relocated, DirectoryInvariant, SingleFlight
  <2>2. task[t].slot[1] = watched
    BY <1>4, <2>1 DEF Relocated
  <2> QED BY <2>1, <2>2 DEF DirectoryInvariant, GrantsAged
<1>5. ASSUME NEW t \in Tasks, tk[t].revoked
      PROVE  /\ tk[t].pc \in {"queued", "fetching"} /\ tk[t].slot[1] = watched /\ ~ held
             /\ es[tk[t].slot] # None => es[tk[t].slot].holders # "granted"
             /\ \A u \in Tasks :
                  ~ (tk[u].pc = "fetching" /\ tk[u].slot = tk[t].slot /\ tk[u].reply = "granted")
  <2>1. /\ task[t].revoked /\ task[t].pc \in {"queued", "fetching"} /\ task[t].slot # None
        /\ task[t].slot[1] = watched /\ Denied(task[t].slot)
    BY <1>5 DEF Relocated, DirectoryInvariant, SingleFlight, RevokedDenied
  <2>2. tk[t].pc = task[t].pc /\ tk[t].slot[1] = watched /\ es[tk[t].slot] = entries[task[t].slot]
    BY <2>1 DEF Relocated
  <2>3. ASSUME NEW u \in Tasks,
               tk[u].pc = "fetching", tk[u].slot = tk[t].slot, tk[u].reply = "granted"
        PROVE  FALSE
    <3>1. task[u].pc = "fetching" /\ task[u].reply = "granted" /\ task[u].slot = task[t].slot
      BY <2>1, <2>3 DEF Relocated
    <3> QED BY <2>1, <3>1 DEF Denied, Replied
  <2> QED BY <2>1, <2>2, <2>3 DEF Denied
<1>6. ASSUME NEW t \in Tasks, tk[t].slot = <<watched, 0>>
      PROVE  /\ watched \notin keys /\ task[t].slot = <<watched, 0>>
             /\ tk[t].pc = task[t].pc /\ tk[t].age = task[t].age /\ tk[t].reply = task[t].reply
  <2>1. tk[t].slot # None /\ tk[t].slot[2] = 0
    BY <1>0, <1>6, SlotFacts
  <2>2. tk[t].slot = task[t].slot /\ task[t].slot \notin keys \X {0}
    BY <2>1 DEF Relocated
  <2>3. tk[t].pc = task[t].pc /\ tk[t].age = task[t].age /\ tk[t].reply = task[t].reply
    BY DEF Relocated
  <2>4. task[t].slot = <<watched, 0>>
    BY <1>6, <2>2
  <2>5. watched \notin keys
    BY <2>2, <2>4
  <2> QED BY <2>3, <2>4, <2>5
<1>7. ASSUME watched \notin keys
      PROVE  /\ es[<<watched, 0>>] = entries[<<watched, 0>>]
             /\ \A t \in Tasks : task[t].slot = <<watched, 0>> =>
                  tk[t].slot = <<watched, 0>> /\ tk[t].pc = task[t].pc
  <2>1. <<watched, 0>> \notin keys \X {0} /\ <<watched, 0>> # None
    BY <1>0, <1>7, SlotFacts
  <2>2. es[<<watched, 0>>] = entries[<<watched, 0>>]
    BY <1>0, <1>7 DEF Relocated
  <2>3. ASSUME NEW t \in Tasks, task[t].slot = <<watched, 0>>
        PROVE  tk[t].slot = <<watched, 0>> /\ tk[t].pc = task[t].pc
    BY <2>1, <2>3 DEF Relocated
  <2> QED BY <2>2, <2>3
<1> QED BY <1>1, <1>2, <1>3, <1>4, <1>5, <1>6, <1>7 DEF Carried, Apart

\* A caller that is not fetching, and whose slot is the map's.
Harmless(t) ==
  /\ task[t].pc \in {"idle", "asking", "queued"}
  /\ task[t].pc = "queued" <=> task[t].slot # None
  /\ task[t].pc = "asking" => task[t].next # None
  /\ task[t].reply = None
  /\ task[t].passed => task[t].pc = "idle"
  /\ task[t].slot \in Keys \X {0} => task[t].slot[1] \in Remembered
  /\ task[t].revoked => task[t].slot = <<watched, 0>> /\ Denied(<<watched, 0>>)

LEMMA Settled ==
  ASSUME DirectoryInvariant, NEW keys \in SUBSET Keys, NEW tk,
         NEW es \in [Slots -> Entries \cup {None}],
         Carried(keys, tk, es), Store(es),
         UNCHANGED <<watched, held, sinceHeld>>, task' \in [Tasks -> Verdicts],
         Remembered \ keys \subseteq Remembered',
         \A t \in Tasks : task'[t] = tk[t] \/ Harmless(t)'
  PROVE  /\ SingleFlight' /\ GrantsAged'
         /\ \A t \in Tasks : task'[t].revoked =>
              /\ task'[t].pc \in {"queued", "fetching"} /\ task'[t].slot[1] = watched
              /\ Denied(task[t].slot)'
<1>0. /\ watched' = watched /\ held' = held /\ sinceHeld' = sinceHeld /\ watched \in Keys
      /\ <<watched, 0>> \in Slots
  BY SlotFacts DEF DirectoryInvariant, TypeOK
<1>1. /\ entries' \in [Slots -> Entries \cup {None}]
      /\ \A s \in Slots : entries'[s] # None =>
           /\ entries'[s] = es[s] /\ IsFresh(es[s])
           /\ (s[2] = 0 /\ s[1] \in Remembered') \/ Holders(s)' # {}
  BY StoreFacts
<1>2. ASSUME NEW t \in Tasks
      PROVE  /\ task'[t].pc \in {"queued", "fetching"} <=> task'[t].slot # None
             /\ task'[t].pc = "asking" => task'[t].next # None
             /\ task'[t].reply # None => task'[t].pc = "fetching"
             /\ task'[t].passed => task'[t].pc = "idle"
             /\ task'[t].pc = "fetching" => task'[t].age <= Timeout
             /\ task'[t].slot \in Keys \X {0} => task'[t].slot[1] \in Remembered'
             /\ task'[t].pc = "fetching" => task'[t] = tk[t]
  BY DEF Harmless, Carried
<1>3. ASSUME NEW t \in Tasks, NEW u \in Tasks,
             task'[t].pc = "fetching", task'[u].pc = "fetching", task'[u].slot = task'[t].slot
      PROVE  t = u
  BY <1>2, <1>3 DEF Carried
<1>4. ASSUME NEW s \in Slots, entries'[s] # None
      PROVE  /\ IsFresh(entries'[s])
             /\ s[2] = 0 => s[1] \in Remembered'
             /\ s[2] # 0 => Holders(s)' # {}
  <2>1. CASE s[2] # 0
    BY <1>1, <1>4, <2>1
  <2>2. CASE s[2] = 0 /\ s[1] \notin Remembered'
    <3>1. PICK t \in Tasks : task'[t].slot = s
      BY <1>1, <1>4, <2>2 DEF Holders
    <3>2. s \in Keys \X {0}
      BY <2>2, SlotFacts
    <3> QED BY <1>2, <2>2, <3>1, <3>2
  <2>3. CASE s[2] = 0 /\ s[1] \in Remembered'
    BY <1>1, <1>4, <2>3
  <2> QED BY <2>1, <2>2, <2>3
<1>5. SingleFlight'
  BY <1>2, <1>3, <1>4 DEF SingleFlight
<1>6. GrantsAged'
  <2>1. ASSUME NEW s \in Slots, s[1] = watched, entries'[s] # None, entries'[s].holders = "granted"
        PROVE  sinceHeld <= entries'[s].age
    BY <1>1, <2>1 DEF Carried
  <2>2. ASSUME NEW t \in Tasks, task'[t].pc = "fetching", task'[t].slot[1] = watched,
               task'[t].reply = "granted"
        PROVE  sinceHeld <= task'[t].age
    BY <1>2, <2>2 DEF Carried
  <2>3. held => sinceHeld = 0
    BY DEF DirectoryInvariant, GrantsAged
  <2> QED BY <1>0, <2>1, <2>2, <2>3 DEF GrantsAged
<1>7. ASSUME NEW t \in Tasks, task'[t].revoked
      PROVE  /\ task'[t].pc \in {"queued", "fetching"} /\ task'[t].slot[1] = watched
             /\ Denied(task[t].slot)'
  <2>1. CASE task'[t] = tk[t]
    <3>1. /\ tk[t].pc \in {"queued", "fetching"} /\ tk[t].slot[1] = watched /\ ~ held
          /\ es[tk[t].slot] # None => es[tk[t].slot].holders # "granted"
      BY <1>7, <2>1 DEF Carried
    <3>2. ~ Replied(task[t].slot)'
      <4> SUFFICES ASSUME NEW u \in Tasks, task'[u].pc = "fetching",
                          task'[u].slot = task'[t].slot, task'[u].reply = "granted"
                   PROVE  FALSE
        BY DEF Replied
      <4> QED BY <1>2, <1>7, <2>1 DEF Carried
    <3>3. tk[t].slot \in Slots
      <4>1. task'[t].slot # None
        BY <1>2, <2>1, <3>1
      <4> QED BY <2>1, <4>1 DEF Verdicts
    <3> QED BY <1>0, <1>1, <2>1, <3>1, <3>2, <3>3 DEF Denied
  <2>2. CASE Harmless(t)'
    <3>1. task'[t].slot = <<watched, 0>> /\ Denied(<<watched, 0>>)'
      BY <1>0, <1>7, <2>2 DEF Harmless
    <3>2. task'[t].pc = "queued" /\ <<watched, 0>>[1] = watched
      BY <1>0, <2>2, <3>1, SlotFacts DEF Harmless
    <3> QED BY <1>0, <3>1, <3>2, Zenon
  <2> QED BY <2>1, <2>2
<1> QED BY <1>5, <1>6, <1>7

(***************************************************************************)
(* The actions, one by one.                                                *)
(***************************************************************************)
Requests == [holders : Answers \cup {None}, age : Ages]

\* The watched slot keeps its entry, or the history forgot the request for it.
LEMMA AskedApart ==
  ASSUME DirectoryInvariant, NEW keys \in SUBSET Keys, NEW tk,
         NEW es \in [Slots -> Entries \cup {None}],
         Apart(keys, tk, es), Store(es), UNCHANGED watched,
         asked' = IF watched \in keys THEN None ELSE asked,
         Remembered \ keys \subseteq Remembered',
         \A t \in Tasks :
           \/ task'[t] = tk[t]
           \/ /\ task[t].pc = "fetching" => task[t].slot # <<watched, 0>>
              /\ task'[t].pc # "fetching"
  PROVE  AskedOnce'
<1>0. <<watched, 0>> \in Slots /\ <<watched, 0>>[1] = watched /\ <<watched, 0>>[2] = 0
  BY SlotFacts DEF DirectoryInvariant, TypeOK
<1>1. ASSUME NEW t \in Tasks, task'[t].pc = "fetching", task'[t].slot = <<watched, 0>>
      PROVE  asked' = Asking(task'[t].age)
  <2>1. task'[t] = tk[t]
    BY <1>1
  <2> QED BY <1>1, <2>1 DEF Apart, DirectoryInvariant, AskedOnce
<1>2. ASSUME asked' # None, asked'.holders = None
      PROVE  \E t \in Tasks : task'[t].pc = "fetching" /\ task'[t].slot = <<watched, 0>>
  <2>1. watched \notin keys /\ asked' = asked
    BY <1>2
  <2>2. PICK t \in Tasks : task[t].pc = "fetching" /\ task[t].slot = <<watched, 0>>
    BY <1>2, <2>1 DEF DirectoryInvariant, AskedOnce
  <2> QED BY <2>1, <2>2 DEF Apart
<1>3. ASSUME asked' # None, asked'.holders # None PROVE entries'[<<watched, 0>>] = asked'
  <2>1. watched \notin keys /\ asked' = asked
    BY <1>3
  <2>2. entries[<<watched, 0>>] = asked
    BY <1>3, <2>1 DEF DirectoryInvariant, AskedOnce
  <2>3. es[<<watched, 0>>] = asked /\ IsFresh(asked) /\ watched \in Remembered
    BY <1>0, <1>3, <2>1, <2>2 DEF Apart, DirectoryInvariant, SingleFlight
  <2>4. entries'[<<watched, 0>>] = es[<<watched, 0>>]
    BY <1>0, <1>3, <2>1, <2>3, StoreFacts
  <2> QED BY <2>1, <2>3, <2>4
<1> QED BY <1>1, <1>2, <1>3 DEF AskedOnce

LEMMA TakesSlot ==
  ASSUME DirectoryInvariant, NEW t \in Tasks, task[t].pc \in {"idle", "asking"},
         NEW k \in Keys, NEW next \in Rooms \cup {None}, TakeSlot(t, k, next)
  PROVE  DirectoryInvariant'
<1>0. TypeOK
  BY DEF DirectoryInvariant
<1>a. PICK keys \in SUBSET Keys : \E tk, es, v :
        /\ k \notin keys
        /\ Relocated(keys, tk, es) /\ Store(es) /\ Enters(t, k, tk, v)
        /\ Consulted' /\ Remembered' = (Remembered \ keys) \cup {k}
        /\ asked' = IF watched \in keys THEN None ELSE asked
        /\ UNCHANGED <<watched, held, sinceHeld, revoked>>
  BY <1>0, TakeSlotFacts
<1>1. PICK tk, es, v :
        /\ k \notin keys
        /\ Relocated(keys, tk, es) /\ Store(es) /\ Enters(t, k, tk, v)
        /\ Consulted' /\ Remembered' = (Remembered \ keys) \cup {k}
        /\ asked' = IF watched \in keys THEN None ELSE asked
        /\ UNCHANGED <<watched, held, sinceHeld, revoked>>
  BY <1>a
<1>2. Carried(keys, tk, es) /\ Apart(keys, tk, es)
  BY <1>1, Carries
<1>3. /\ tk \in [Tasks -> Verdicts] /\ es \in [Slots -> Entries \cup {None}]
      /\ entries' \in [Slots -> Entries \cup {None}]
  BY <1>1, StoreFacts DEF Relocated
<1>4. /\ task' \in [Tasks -> Verdicts] /\ task'[t] = v
      /\ \A u \in Tasks \ {t} : task'[u] = tk[u]
  BY <1>1, <1>3 DEF Enters
<1>5. TypeOK'
  BY <1>0, <1>1, <1>3, <1>4 DEF TypeOK, Consulted
<1>6. /\ \A s \in Slots : entries'[s] # None => entries'[s] = es[s]
      /\ <<watched, 0>> \in Slots
  BY <1>0, <1>3, <1>1, StoreFacts, SlotFacts DEF TypeOK
<1>7. /\ v.pc = "queued" /\ v.slot = <<k, 0>> /\ v.reply = None /\ ~ v.passed
      /\ (v.revoked <=> k = watched /\ revoked)
      /\ <<k, 0>> # None /\ <<k, 0>>[1] = k /\ k \in Remembered'
  BY <1>1, SlotFacts DEF Enters
<1>8. ASSUME revoked, watched \notin keys PROVE Denied(<<watched, 0>>)'
  <2>1. Denied(<<watched, 0>>)
    BY <1>8 DEF DirectoryInvariant, RevokedDenied
  <2>2. entries'[<<watched, 0>>] # None => entries'[<<watched, 0>>].holders # "granted"
    BY <1>2, <1>6, <1>8, <2>1 DEF Apart, Denied
  <2>3. ASSUME NEW u \in Tasks, task'[u].pc = "fetching", task'[u].slot = <<watched, 0>>,
               task'[u].reply = "granted"
        PROVE  FALSE
    <3>1. u # t
      BY <1>4, <1>7, <2>3
    <3>2. task'[u] = tk[u]
      BY <1>4, <3>1
    <3>3. task[u].pc = "fetching" /\ task[u].slot = <<watched, 0>> /\ task[u].reply = "granted"
      BY <1>2, <2>3, <3>2 DEF Apart
    <3> QED BY <2>1, <3>3 DEF Denied, Replied
  <2> QED BY <1>1, <2>1, <2>2, <2>3 DEF Denied, Replied
<1>9. Harmless(t)'
  <2>1. v.revoked => k = watched /\ Denied(<<watched, 0>>)'
    BY <1>1, <1>7, <1>8
  <2> QED BY <1>1, <1>4, <1>7, <2>1 DEF Harmless
<1>10. /\ SingleFlight' /\ GrantsAged'
       /\ \A u \in Tasks : task'[u].revoked =>
            /\ task'[u].pc \in {"queued", "fetching"} /\ task'[u].slot[1] = watched
            /\ Denied(task[u].slot)'
  <2>1. UNCHANGED <<watched, held, sinceHeld>> /\ Remembered \ keys \subseteq Remembered'
    BY <1>1
  <2>2. \A u \in Tasks : task'[u] = tk[u] \/ Harmless(u)'
    BY <1>4, <1>9
  <2> QED BY <1>1, <1>2, <1>3, <1>4, <2>1, <2>2, Settled
<1>11. AskedOnce'
  <2>1. \A u \in Tasks : task'[u] = tk[u] \/ (task[u].pc # "fetching" /\ task'[u].pc # "fetching")
    BY <1>4, <1>7
  <2> QED BY <1>1, <1>2, <1>3, <2>1, AskedApart
<1>12. RevokedDenied'
  <2>1. ASSUME revoked' PROVE Denied(<<watched, 0>>)'
    <3>1. CASE watched \notin keys
      BY <1>1, <1>8, <2>1, <3>1
    <3>2. CASE watched \in keys
      <4>1. ~ held
        BY <1>1, <2>1 DEF DirectoryInvariant, RevokedDenied, Denied
      <4>2. es[<<watched, 0>>] = None
        BY <1>1, <3>2 DEF Relocated
      <4>3. ASSUME NEW u \in Tasks, task'[u].pc = "fetching", task'[u].slot = <<watched, 0>>
            PROVE  FALSE
        <5>1. u # t
          BY <1>4, <1>7, <4>3
        <5>2. tk[u].slot = <<watched, 0>>
          BY <1>4, <4>3, <5>1
        <5> QED BY <1>2, <3>2, <5>2 DEF Apart
      <4> QED BY <1>1, <1>6, <4>1, <4>2, <4>3 DEF Denied, Replied
    <3> QED BY <3>1, <3>2
  <2> QED BY <1>1, <1>10, <2>1 DEF RevokedDenied
<1> QED BY <1>5, <1>10, <1>11, <1>12 DEF DirectoryInvariant

LEMMA Invalidates ==
  ASSUME DirectoryInvariant, NEW keys \in SUBSET Keys, Invalidate(keys), Invalidated(keys)
  PROVE  DirectoryInvariant'
<1>0. TypeOK
  BY DEF DirectoryInvariant
<1>1. PICK es : /\ Relocated(keys, task', es) /\ Store(es)
                /\ Consulted' /\ Remembered' = {Global} \cup (Remembered \ keys)
  BY <1>0, InvalidateFacts
<1>2. /\ UNCHANGED <<watched, held, sinceHeld>>
      /\ revoked' = IF watched \in keys THEN ~ held ELSE revoked
      /\ asked' = IF watched \in keys THEN None ELSE asked
  BY DEF Invalidated, server
<1>3. Carried(keys, task', es) /\ Apart(keys, task', es)
  BY <1>1, Carries
<1>4. /\ task' \in [Tasks -> Verdicts] /\ es \in [Slots -> Entries \cup {None}]
      /\ entries' \in [Slots -> Entries \cup {None}]
  BY <1>1, StoreFacts DEF Relocated
<1>5. TypeOK'
  BY <1>0, <1>1, <1>2, <1>4 DEF TypeOK, Consulted
<1>6. /\ SingleFlight' /\ GrantsAged'
      /\ \A u \in Tasks : task'[u].revoked =>
           /\ task'[u].pc \in {"queued", "fetching"} /\ task'[u].slot[1] = watched
           /\ Denied(task[u].slot)'
  BY <1>1, <1>2, <1>3, <1>4, Settled
<1>7. AskedOnce'
  BY <1>1, <1>2, <1>3, <1>4, AskedApart
<1>8. /\ \A s \in Slots : entries'[s] # None => entries'[s] = es[s]
      /\ <<watched, 0>> \in Slots
  BY <1>0, <1>1, <1>4, StoreFacts, SlotFacts DEF TypeOK
<1>9. ASSUME revoked' PROVE Denied(<<watched, 0>>)'
  <2>1. CASE watched \in keys
    <3>1. ~ held' /\ entries'[<<watched, 0>>] = None
      BY <1>1, <1>2, <1>8, <1>9, <2>1 DEF Relocated
    <3>2. \A u \in Tasks : task'[u].slot # <<watched, 0>>
      BY <1>3, <2>1 DEF Apart
    <3> QED BY <1>2, <3>1, <3>2 DEF Denied, Replied
  <2>2. CASE watched \notin keys
    <3>1. Denied(<<watched, 0>>)
      BY <1>2, <1>9, <2>2 DEF DirectoryInvariant, RevokedDenied
    <3>2. entries'[<<watched, 0>>] # None => entries'[<<watched, 0>>].holders # "granted"
      BY <1>3, <1>8, <2>2, <3>1 DEF Apart, Denied
    <3>3. ~ Replied(<<watched, 0>>)'
      BY <1>2, <1>3, <2>2, <3>1 DEF Apart, Denied, Replied
    <3> QED BY <1>2, <3>1, <3>2, <3>3 DEF Denied
  <2> QED BY <2>1, <2>2
<1>10. RevokedDenied'
  BY <1>2, <1>6, <1>9 DEF RevokedDenied
<1> QED BY <1>5, <1>6, <1>7, <1>10 DEF DirectoryInvariant

LEMMA InPlace ==
  ASSUME DirectoryInvariant
  PROVE  Carried({}, task, entries) /\ Apart({}, task, entries)
<1>1. task \in [Tasks -> Verdicts] /\ entries \in [Slots -> Entries \cup {None}]
  BY DEF DirectoryInvariant, TypeOK
<1>2. Relocated({}, task, entries)
  <2>1. \A s \in Slots : \E r \in Slots : r[1] = s[1] /\ (entries[s] = None \/ entries[s] = entries[r])
    OBVIOUS
  <2>2. \A t \in Tasks : task[t].slot # None => task[t].slot \notin {} \X {0}
    OBVIOUS
  <2> QED BY <1>1, <2>1, <2>2 DEF Relocated
<1> QED BY <1>2, Carries

\* A caller leaves; what its slot holds then is es.
LEMMA LeavesSlot ==
  ASSUME DirectoryInvariant, NEW t \in Tasks, NEW v, Leaves(t, v),
         NEW es \in [Slots -> Entries \cup {None}], Carried({}, task, es), Store(es),
         UNCHANGED <<watched, held, sinceHeld, consulted, revoked>>,
         asked' \in Requests \cup {None}, AskedOnce',
         revoked => es[<<watched, 0>>] = None \/ es[<<watched, 0>>].holders # "granted"
  PROVE  DirectoryInvariant'
<1>0. TypeOK /\ task \in [Tasks -> Verdicts] /\ <<watched, 0>> \in Slots
  BY SlotFacts DEF DirectoryInvariant, TypeOK
<1>1. /\ entries' \in [Slots -> Entries \cup {None}]
      /\ \A s \in Slots : entries'[s] # None => entries'[s] = es[s]
  BY StoreFacts
<1>2. /\ task' \in [Tasks -> Verdicts] /\ task'[t] = v
      /\ \A u \in Tasks \ {t} : task'[u] = task[u]
  BY <1>0 DEF Leaves
<1>3. TypeOK'
  BY <1>0, <1>1, <1>2 DEF TypeOK, Requests
<1>4. Remembered' = Remembered /\ None \notin Keys \X {0}
  BY SlotFacts DEF Remembered
<1>5. Harmless(t)'
  BY <1>2, <1>4 DEF Leaves, Harmless
<1>6. /\ SingleFlight' /\ GrantsAged'
      /\ \A u \in Tasks : task'[u].revoked =>
           /\ task'[u].pc \in {"queued", "fetching"} /\ task'[u].slot[1] = watched
           /\ Denied(task[u].slot)'
  <2>1. UNCHANGED <<watched, held, sinceHeld>> /\ Remembered \ {} \subseteq Remembered'
    BY <1>4
  <2>2. \A u \in Tasks : task'[u] = task[u] \/ Harmless(u)'
    BY <1>2, <1>5
  <2> QED BY <1>2, <2>1, <2>2, Settled
<1>7. ASSUME revoked' PROVE Denied(<<watched, 0>>)'
  <2>1. Denied(<<watched, 0>>)
    BY <1>7 DEF DirectoryInvariant, RevokedDenied
  <2>2. entries'[<<watched, 0>>] # None => entries'[<<watched, 0>>].holders # "granted"
    BY <1>0, <1>1, <1>7
  <2>3. ASSUME NEW u \in Tasks, task'[u].pc = "fetching", task'[u].slot = <<watched, 0>>,
               task'[u].reply = "granted"
        PROVE  FALSE
    <3>1. task'[u] = task[u]
      BY <1>2, <2>3 DEF Leaves
    <3> QED BY <2>1, <2>3, <3>1 DEF Denied, Replied
  <2> QED BY <2>1, <2>2, <2>3 DEF Denied, Replied
<1>8. RevokedDenied'
  BY <1>6, <1>7 DEF RevokedDenied
<1> QED BY <1>3, <1>6, <1>8 DEF DirectoryInvariant

\* t leaves a slot that is none, the watched one, or in neither case fetches.
LEMMA LeavesAsked ==
  ASSUME DirectoryInvariant, NEW t \in Tasks, NEW v, Leaves(t, v),
         NEW es \in [Slots -> Entries \cup {None}], Store(es),
         UNCHANGED <<watched, consulted>>, asked' = asked,
         es[<<watched, 0>>] = entries[<<watched, 0>>],
         task[t].pc = "fetching" => task[t].slot # <<watched, 0>>
  PROVE  AskedOnce'
<1>1. Apart({}, task, es)
  BY InPlace DEF Apart
<1>2. Remembered \ {} \subseteq Remembered'
  BY DEF Remembered
<1>3. \A u \in Tasks :
        \/ task'[u] = task[u]
        \/ /\ task[u].pc = "fetching" => task[u].slot # <<watched, 0>>
           /\ task'[u].pc # "fetching"
  <2>1. task \in [Tasks -> Verdicts]
    BY DEF DirectoryInvariant, TypeOK
  <2> QED BY <2>1 DEF Leaves
<1>4. asked' = IF watched \in {} THEN None ELSE asked
  OBVIOUS
<1> QED BY <1>1, <1>2, <1>3, <1>4, AskedApart

LEMMA AnswersFromEntry ==
  ASSUME DirectoryInvariant, NEW t \in Tasks, LockSlot(t), entries[task[t].slot] # None
  PROVE  DirectoryInvariant'
<1>0. TypeOK /\ task[t].pc = "queued" /\ entries \in [Slots -> Entries \cup {None}]
  BY DEF DirectoryInvariant, TypeOK, LockSlot
<1>1. task[t].slot \in Slots
  BY <1>0 DEF TypeOK, Verdicts, DirectoryInvariant, SingleFlight
<1>2. PICK e \in Entries : e = entries[task[t].slot]
  BY <1>0, <1>1
<1>3. /\ Answered(t, e) /\ Store(entries)
      /\ UNCHANGED <<watched, held, sinceHeld, consulted, revoked, asked>>
  BY <1>2 DEF LockSlot, server
<1>4. PICK v : Leaves(t, v)
  BY <1>0, <1>3, AnsweredFacts
<1>5. Carried({}, task, entries)
  BY InPlace
<1>6. AskedOnce'
  BY <1>0, <1>3, <1>4, LeavesAsked
<1>7. asked' \in Requests \cup {None}
  BY <1>0, <1>3 DEF TypeOK, Requests
<1>8. revoked => entries[<<watched, 0>>] = None \/ entries[<<watched, 0>>].holders # "granted"
  BY DEF DirectoryInvariant, RevokedDenied, Denied
<1> QED BY <1>0, <1>3, <1>4, <1>5, <1>6, <1>7, <1>8, LeavesSlot

LEMMA Drops ==
  ASSUME DirectoryInvariant, NEW t \in Tasks, Drop(t)
  PROVE  DirectoryInvariant'
<1>0. TypeOK /\ entries \in [Slots -> Entries \cup {None}]
  BY DEF DirectoryInvariant, TypeOK
<1>1. /\ Store(entries)
      /\ UNCHANGED <<watched, held, sinceHeld, consulted, revoked>>
      /\ asked' = IF task[t].pc = "fetching" /\ task[t].slot = <<watched, 0>> THEN None ELSE asked
  BY DEF Drop, server
<1>2. PICK v : v = Idle
  OBVIOUS
<1>3. Leaves(t, v)
  BY <1>2, IdleFacts DEF Leaves, Drop
<1>4. Carried({}, task, entries)
  BY InPlace
<1>5. asked' \in Requests \cup {None}
  BY <1>0, <1>1 DEF TypeOK, Requests
<1>6. revoked => entries[<<watched, 0>>] = None \/ entries[<<watched, 0>>].holders # "granted"
  BY DEF DirectoryInvariant, RevokedDenied, Denied
<1>7. AskedOnce'
  <2>1. CASE ~ (task[t].pc = "fetching" /\ task[t].slot = <<watched, 0>>)
    BY <1>0, <1>1, <1>3, <2>1, LeavesAsked
  <2>2. CASE task[t].pc = "fetching" /\ task[t].slot = <<watched, 0>>
    <3>1. asked' = None
      BY <1>1, <2>2
    <3>2. ASSUME NEW u \in Tasks, task'[u].pc = "fetching", task'[u].slot = <<watched, 0>>
          PROVE  FALSE
      <4>1. u # t /\ task'[u] = task[u]
        BY <1>0, <1>3, <3>2 DEF Leaves, TypeOK
      <4> QED BY <2>2, <3>2, <4>1 DEF DirectoryInvariant, SingleFlight
    <3> QED BY <1>1, <3>1, <3>2 DEF AskedOnce
  <2> QED BY <2>1, <2>2
<1> QED BY <1>0, <1>1, <1>3, <1>4, <1>5, <1>6, <1>7, LeavesSlot

LEMMA Finishes ==
  ASSUME DirectoryInvariant, NEW t \in Tasks, Finish(t)
  PROVE  DirectoryInvariant'
<1>0. /\ TypeOK /\ task[t].pc = "fetching" /\ entries \in [Slots -> Entries \cup {None}]
      /\ task[t] \in Verdicts
  BY DEF DirectoryInvariant, TypeOK, Finish
<1>1. task[t].slot \in Slots /\ task[t].age \in Ages /\ task[t].reply \in {"granted", "denied", None}
  BY <1>0 DEF Verdicts, DirectoryInvariant, SingleFlight
<1>2. PICK holders \in {task[t].reply, "failed"} \ {None} :
        LET e == [holders |-> holders, age |-> task[t].age]
        IN /\ Answered(t, e)
           /\ asked' = IF Watching(t) THEN Fresh([holders |-> holders, age |-> task[t].age]) ELSE asked
           /\ UNCHANGED <<server, consulted, revoked>>
           /\ Store([entries EXCEPT ![task[t].slot] = e])
  BY DEF Finish, Stamped
<1>3. PICK e : e = [holders |-> holders, age |-> task[t].age]
  OBVIOUS
<1>4. PICK es : es = [entries EXCEPT ![task[t].slot] = e]
  OBVIOUS
<1>5. /\ Answered(t, e) /\ Store(es)
      /\ UNCHANGED <<watched, held, sinceHeld, consulted, revoked>>
      /\ asked' = IF task[t].slot = <<watched, 0>> THEN Fresh([holders |-> holders, age |-> task[t].age])
                  ELSE asked
  BY <1>2, <1>3, <1>4 DEF server
<1>6. /\ e \in Entries /\ holders \in Answers /\ e.holders = holders /\ e.age = task[t].age
      /\ e.holders = "granted" => task[t].reply = "granted"
  BY <1>1, <1>3 DEF Entries, Answers
<1>7. PICK v : Leaves(t, v)
  BY <1>0, <1>5, <1>6, AnsweredFacts
<1>8. /\ es \in [Slots -> Entries \cup {None}] /\ es[task[t].slot] = e
      /\ \A s \in Slots : s # task[t].slot => es[s] = entries[s]
  BY <1>0, <1>1, <1>4, <1>6
<1>9. Carried({}, task, entries)
  BY InPlace
<1>10. Carried({}, task, es)
  <2>1. ASSUME NEW s \in Slots, s[1] = watched, es[s] # None, es[s].holders = "granted"
        PROVE  sinceHeld <= es[s].age
    <3>1. CASE s = task[t].slot
      BY <1>0, <1>6, <1>8, <1>9, <2>1, <3>1 DEF Carried
    <3>2. CASE s # task[t].slot
      BY <1>8, <1>9, <2>1, <3>2 DEF Carried
    <3> QED BY <3>1, <3>2
  <2>2. ASSUME NEW u \in Tasks, task[u].revoked, es[task[u].slot] # None
        PROVE  es[task[u].slot].holders # "granted"
    <3>0. task[u].slot \in Slots
      <4>1. task[u].slot # None
        BY <1>9, <2>2 DEF Carried
      <4> QED BY <1>0, <4>1 DEF TypeOK, Verdicts
    <3>1. CASE task[u].slot = task[t].slot
      BY <1>0, <1>6, <1>8, <1>9, <2>2, <3>1 DEF Carried
    <3>2. CASE task[u].slot # task[t].slot
      BY <1>8, <1>9, <2>2, <3>0, <3>2 DEF Carried
    <3> QED BY <3>1, <3>2
  <2> QED BY <1>9, <2>1, <2>2 DEF Carried
<1>11. revoked => es[<<watched, 0>>] = None \/ es[<<watched, 0>>].holders # "granted"
  <2>1. ASSUME revoked, es[<<watched, 0>>] # None PROVE es[<<watched, 0>>].holders # "granted"
    <3>1. Denied(<<watched, 0>>) /\ <<watched, 0>> \in Slots
      BY <1>0, <2>1, SlotFacts DEF DirectoryInvariant, RevokedDenied, TypeOK
    <3>2. CASE <<watched, 0>> = task[t].slot
      BY <1>0, <1>6, <1>8, <3>1, <3>2 DEF Denied, Replied
    <3>3. CASE <<watched, 0>> # task[t].slot
      BY <1>8, <2>1, <3>1, <3>3 DEF Denied
    <3> QED BY <3>2, <3>3
  <2> QED BY <2>1
<1>12. CASE task[t].slot # <<watched, 0>>
  <2>1. <<watched, 0>> \in Slots
    BY <1>0, SlotFacts DEF TypeOK
  <2>2. es[<<watched, 0>>] = entries[<<watched, 0>>] /\ asked' = asked
    BY <1>5, <1>8, <1>12, <2>1
  <2>3. AskedOnce'
    BY <1>5, <1>7, <1>8, <1>12, <2>2, LeavesAsked
  <2>4. asked' \in Requests \cup {None}
    BY <1>0, <2>2 DEF TypeOK, Requests
  <2> QED BY <1>5, <1>7, <1>8, <1>10, <1>11, <2>3, <2>4, LeavesSlot
<1>13. CASE task[t].slot = <<watched, 0>>
  <2>1. asked' = IF IsFresh(e) THEN e ELSE None
    BY <1>3, <1>5, <1>6, <1>13, NoneFacts DEF Fresh
  <2>2. asked' \in Requests \cup {None}
    BY <1>6, <2>1, NoneFacts DEF Requests
  <2>3. \A u \in Tasks : ~ (task'[u].pc = "fetching" /\ task'[u].slot = <<watched, 0>>)
    <3> SUFFICES ASSUME NEW u \in Tasks, task'[u].pc = "fetching", task'[u].slot = <<watched, 0>>
                 PROVE  FALSE
      OBVIOUS
    <3>1. u # t /\ task'[u] = task[u]
      BY <1>0, <1>7 DEF Leaves, TypeOK
    <3> QED BY <1>0, <1>13, <3>1 DEF DirectoryInvariant, SingleFlight
  <2>4. ASSUME IsFresh(e) PROVE entries'[<<watched, 0>>] = e
    <3>1. <<watched, 0>>[1] = watched /\ <<watched, 0>>[2] = 0 /\ <<watched, 0>> \in Keys \X {0}
      BY <1>0 DEF TypeOK
    <3>2. watched \in Remembered'
      <4>1. watched \in Remembered
        BY <1>13, <3>1 DEF DirectoryInvariant, SingleFlight
      <4> QED BY <1>5, <4>1 DEF Remembered
    <3> QED BY <1>1, <1>5, <1>6, <1>8, <1>13, <2>4, <3>1, <3>2, NoneFacts, StoreFacts
  <2>5. AskedOnce'
    BY <1>5, <1>6, <2>1, <2>3, <2>4, NoneFacts DEF AskedOnce
  <2> QED BY <1>5, <1>7, <1>8, <1>10, <1>11, <2>2, <2>5, LeavesSlot
<1> QED BY <1>12, <1>13

LEMMA StartsFetch ==
  ASSUME DirectoryInvariant, NEW t \in Tasks, task[t].pc = "queued", ~ Locked(task[t].slot),
         entries[task[t].slot] = None, StartFetch(t)
  PROVE  DirectoryInvariant'
<1>0. /\ TypeOK /\ task \in [Tasks -> Verdicts] /\ task[t].slot \in Slots /\ task[t].reply = None
      /\ <<watched, 0>> \in Slots
  BY SlotFacts DEF DirectoryInvariant, TypeOK, SingleFlight, Verdicts
<1>1. PICK v : v = [task[t] EXCEPT !.pc = "fetching", !.age = 0]
  OBVIOUS
<1>2. /\ task' = [task EXCEPT ![t] = v]
      /\ asked' = IF task[t].slot = <<watched, 0>> THEN Asking(0) ELSE asked
      /\ UNCHANGED <<watched, held, sinceHeld, consulted, entries, revoked>>
  BY <1>0, <1>1 DEF StartFetch, server, cache
<1>3. /\ v \in Verdicts /\ v.pc = "fetching" /\ v.age = 0 /\ v.slot = task[t].slot
      /\ v.reply = None /\ v.revoked = task[t].revoked /\ v.next = task[t].next
      /\ v.passed = task[t].passed
  <2>1. 0 \in Ages
    BY HorizonFacts
  <2> QED BY <1>0, <1>1, <2>1 DEF Verdicts
<1>4. /\ task' \in [Tasks -> Verdicts] /\ task'[t] = v
      /\ \A u \in Tasks \ {t} : task'[u] = task[u]
      /\ \A u \in Tasks : task'[u].slot = task[u].slot
  BY <1>0, <1>2, <1>3
<1>5. TypeOK'
  <2>1. Asking(0) \in [holders : Answers \cup {None}, age : Ages]
    BY HorizonFacts DEF Asking
  <2> QED BY <1>0, <1>2, <1>4, <2>1 DEF TypeOK
<1>6. Remembered' = Remembered /\ \A s \in Slots : Holders(s)' = Holders(s)
  BY <1>2, <1>4 DEF Remembered, Holders
<1>7. \A u \in Tasks : ~ (task[u].pc = "fetching" /\ task[u].slot = task[t].slot)
  BY DEF Locked, Holders
<1>8. SingleFlight'
  <2>1. ASSUME NEW u \in Tasks
        PROVE  /\ task'[u].pc \in {"queued", "fetching"} <=> task'[u].slot # None
               /\ task'[u].pc = "asking" => task'[u].next # None
               /\ task'[u].reply # None => task'[u].pc = "fetching"
               /\ task'[u].passed => task'[u].pc = "idle"
               /\ task'[u].pc = "fetching" => task'[u].age <= Timeout
               /\ task'[u].slot \in Keys \X {0} => task'[u].slot[1] \in Remembered'
    BY <1>3, <1>4, <1>6, RolesAssumption DEF DirectoryInvariant, SingleFlight
  <2>2. ASSUME NEW u \in Tasks, NEW w \in Tasks, task'[u].pc = "fetching",
               task'[w].pc = "fetching", task'[w].slot = task'[u].slot
        PROVE  u = w
    BY <1>4, <1>7, <2>2 DEF DirectoryInvariant, SingleFlight
  <2>3. \A s \in Slots : entries'[s] # None =>
           /\ IsFresh(entries'[s])
           /\ s[2] = 0 => s[1] \in Remembered'
           /\ s[2] # 0 => Holders(s)' # {}
    BY <1>2, <1>6 DEF DirectoryInvariant, SingleFlight
  <2> QED BY <2>1, <2>2, <2>3 DEF SingleFlight
<1>9. GrantsAged'
  <2>1. \A u \in Tasks :
          task'[u].pc = "fetching" /\ task'[u].slot[1] = watched /\ task'[u].reply = "granted"
            => sinceHeld <= task'[u].age
    BY <1>3, <1>4, NoneFacts DEF DirectoryInvariant, GrantsAged
  <2> QED BY <1>2, <2>1 DEF DirectoryInvariant, GrantsAged
<1>10. ASSUME NEW s, Denied(s) PROVE Denied(s)'
  BY <1>2, <1>3, <1>4, <1>10, NoneFacts DEF Denied, Replied
<1>11. RevokedDenied'
  <2>1. revoked' => Denied(<<watched, 0>>)'
    BY <1>2, <1>10 DEF DirectoryInvariant, RevokedDenied
  <2>2. ASSUME NEW u \in Tasks, task'[u].revoked
        PROVE  /\ task'[u].pc \in {"queued", "fetching"} /\ task'[u].slot[1] = watched
               /\ Denied(task[u].slot)'
    <3>1. task[u].revoked
      BY <1>3, <1>4, <2>2
    <3>2. /\ task[u].pc \in {"queued", "fetching"} /\ task[u].slot[1] = watched
          /\ Denied(task[u].slot)
      BY <3>1 DEF DirectoryInvariant, RevokedDenied
    <3>3. PICK s : s = task[u].slot
      OBVIOUS
    <3>4. Denied(s)' /\ task'[u].slot = s
      BY <1>4, <1>10, <3>2, <3>3
    <3>5. Denied(task[u].slot)'
      BY <3>4 DEF Denied, Replied
    <3>6. task'[u].pc \in {"queued", "fetching"} /\ task'[u].slot[1] = watched
      BY <1>3, <1>4, <3>2
    <3> QED BY <3>5, <3>6
  <2> QED BY <1>2, <2>1, <2>2 DEF RevokedDenied
<1>12. AskedOnce'
  <2>1. CASE task[t].slot = <<watched, 0>>
    <3>1. asked' = Asking(0) /\ Asking(0).holders = None
      BY <1>2, <2>1 DEF Asking
    <3>2. ASSUME NEW u \in Tasks, task'[u].pc = "fetching", task'[u].slot = <<watched, 0>>
          PROVE  u = t
      BY <1>4, <1>7, <2>1, <3>2
    <3>3. task'[t].pc = "fetching" /\ task'[t].age = 0 /\ task'[t].slot = <<watched, 0>>
      BY <1>3, <1>4, <2>1
    <3> QED BY <1>2, <3>1, <3>2, <3>3 DEF AskedOnce
  <2>2. CASE task[t].slot # <<watched, 0>>
    <3>1. asked' = asked
      BY <1>2, <2>2
    <3>2. \A u \in Tasks : task[u].slot = <<watched, 0>> => task'[u] = task[u]
      BY <1>4, <2>2
    <3> QED BY <1>2, <1>4, <3>1, <3>2 DEF DirectoryInvariant, AskedOnce
  <2> QED BY <2>1, <2>2
<1> QED BY <1>5, <1>8, <1>9, <1>11, <1>12 DEF DirectoryInvariant

LEMMA Serves ==
  ASSUME DirectoryInvariant, NEW t \in Tasks, Serve(t)
  PROVE  DirectoryInvariant'
<1>0. /\ TypeOK /\ task \in [Tasks -> Verdicts] /\ task[t].pc = "fetching"
      /\ task[t].slot \in Slots /\ <<watched, 0>> \in Slots
  BY SlotFacts DEF DirectoryInvariant, TypeOK, SingleFlight, Verdicts, Serve
<1>1. PICK holds \in BOOLEAN :
        /\ task[t].slot[1] = watched => holds = held
        /\ task' = [task EXCEPT ![t].reply = IF holds THEN "granted" ELSE "denied"]
  BY DEF Serve
<1>2. PICK v : v = [task[t] EXCEPT !.reply = IF holds THEN "granted" ELSE "denied"]
  OBVIOUS
<1>3. /\ task' = [task EXCEPT ![t] = v]
      /\ UNCHANGED <<watched, held, sinceHeld, consulted, entries, revoked, asked>>
  BY <1>0, <1>1, <1>2 DEF Serve, server, cache
<1>4. /\ v \in Verdicts /\ v.pc = "fetching" /\ v.age = task[t].age /\ v.slot = task[t].slot
      /\ v.revoked = task[t].revoked /\ v.next = task[t].next
      /\ v.passed = task[t].passed
      /\ task[t].slot[1] = watched /\ v.reply = "granted" => held
  BY <1>0, <1>1, <1>2 DEF Verdicts
<1>5. /\ task' \in [Tasks -> Verdicts] /\ task'[t] = v
      /\ \A u \in Tasks \ {t} : task'[u] = task[u]
      /\ \A u \in Tasks :
           /\ task'[u].slot = task[u].slot /\ task'[u].pc = task[u].pc /\ task'[u].age = task[u].age
           /\ task'[u].revoked = task[u].revoked /\ task'[u].next = task[u].next
           /\ task'[u].passed = task[u].passed
  BY <1>0, <1>3, <1>4
<1>6. TypeOK'
  BY <1>0, <1>3, <1>5 DEF TypeOK
<1>7. Remembered' = Remembered /\ \A s \in Slots : Holders(s)' = Holders(s)
  BY <1>3, <1>5 DEF Remembered, Holders
<1>8. SingleFlight'
  <2>1. ASSUME NEW u \in Tasks
        PROVE  /\ task'[u].pc \in {"queued", "fetching"} <=> task'[u].slot # None
               /\ task'[u].pc = "asking" => task'[u].next # None
               /\ task'[u].reply # None => task'[u].pc = "fetching"
               /\ task'[u].passed => task'[u].pc = "idle"
               /\ task'[u].pc = "fetching" => task'[u].age <= Timeout
               /\ task'[u].slot \in Keys \X {0} => task'[u].slot[1] \in Remembered'
    BY <1>4, <1>5, <1>7 DEF DirectoryInvariant, SingleFlight
  <2>2. ASSUME NEW u \in Tasks, NEW w \in Tasks, task'[u].pc = "fetching",
               task'[w].pc = "fetching", task'[w].slot = task'[u].slot
        PROVE  u = w
    BY <1>5, <2>2 DEF DirectoryInvariant, SingleFlight
  <2>3. \A s \in Slots : entries'[s] # None =>
           /\ IsFresh(entries'[s])
           /\ s[2] = 0 => s[1] \in Remembered'
           /\ s[2] # 0 => Holders(s)' # {}
    BY <1>3, <1>7 DEF DirectoryInvariant, SingleFlight
  <2> QED BY <2>1, <2>2, <2>3 DEF SingleFlight
<1>9. GrantsAged'
  <2>1. ASSUME NEW u \in Tasks, task'[u].pc = "fetching", task'[u].slot[1] = watched,
               task'[u].reply = "granted"
        PROVE  sinceHeld <= task'[u].age
    <3>1. CASE u = t
      <4>1. held /\ sinceHeld = 0
        BY <1>4, <1>5, <2>1, <3>1 DEF DirectoryInvariant, GrantsAged
      <4>2. task'[u].age \in Nat
        BY <1>5, HorizonFacts DEF Verdicts
      <4> QED BY <4>1, <4>2
    <3>2. CASE u # t
      BY <1>5, <2>1, <3>2 DEF DirectoryInvariant, GrantsAged
    <3> QED BY <3>1, <3>2
  <2> QED BY <1>3, <2>1 DEF DirectoryInvariant, GrantsAged
<1>10. ASSUME NEW s, Denied(s), task[t].slot = s => s[1] = watched PROVE Denied(s)'
  <2>1. ~ held /\ (entries[s] # None => entries[s].holders # "granted")
    BY <1>10 DEF Denied
  <2>2. ASSUME NEW u \in Tasks, task'[u].pc = "fetching", task'[u].slot = s,
               task'[u].reply = "granted"
        PROVE  FALSE
    <3>1. CASE u = t
      BY <1>4, <1>5, <1>10, <2>1, <2>2, <3>1
    <3>2. CASE u # t
      BY <1>5, <1>10, <2>2, <3>2 DEF Denied, Replied
    <3> QED BY <3>1, <3>2
  <2> QED BY <1>3, <2>1, <2>2 DEF Denied, Replied
<1>11. RevokedDenied'
  <2>1. revoked' => Denied(<<watched, 0>>)'
    BY <1>3, <1>10 DEF DirectoryInvariant, RevokedDenied
  <2>2. ASSUME NEW u \in Tasks, task'[u].revoked
        PROVE  /\ task'[u].pc \in {"queued", "fetching"} /\ task'[u].slot[1] = watched
               /\ Denied(task[u].slot)'
    <3>1. /\ task[u].pc \in {"queued", "fetching"} /\ task[u].slot[1] = watched
          /\ Denied(task[u].slot)
      BY <1>5, <2>2 DEF DirectoryInvariant, RevokedDenied
    <3>2. PICK s : s = task[u].slot
      OBVIOUS
    <3>3. Denied(s)' /\ task'[u].slot = s
      BY <1>5, <1>10, <3>1, <3>2
    <3>4. Denied(task[u].slot)'
      BY <3>3 DEF Denied, Replied
    <3> QED BY <1>5, <3>1, <3>4
  <2> QED BY <1>3, <2>1, <2>2 DEF RevokedDenied
<1>12. AskedOnce'
  BY <1>3, <1>5 DEF DirectoryInvariant, AskedOnce
<1> QED BY <1>6, <1>8, <1>9, <1>11, <1>12 DEF DirectoryInvariant

LEMMA Ticks ==
  ASSUME DirectoryInvariant, Tick
  PROVE  DirectoryInvariant'
<1>0. /\ TypeOK /\ task \in [Tasks -> Verdicts] /\ entries \in [Slots -> Entries \cup {None}]
      /\ <<watched, 0>> \in Slots /\ watched \in Keys /\ sinceHeld \in Ages
  BY SlotFacts DEF DirectoryInvariant, TypeOK
<1>1. PICK es : es = [s \in Slots |-> IF entries[s] = None THEN None
                                      ELSE [entries[s] EXCEPT !.age = Aged(@)]]
  OBVIOUS
<1>2. /\ Store(es)
      /\ UNCHANGED <<watched, held, consulted, revoked>>
      /\ sinceHeld' = IF held THEN 0 ELSE Aged(sinceHeld)
      /\ asked' = IF asked = None THEN None ELSE Fresh([asked EXCEPT !.age = Aged(@)])
      /\ \A t \in Tasks : task[t].pc = "fetching" => task[t].age < Timeout
      /\ task' = [t \in Tasks |-> IF task[t].pc = "fetching"
                                  THEN [task[t] EXCEPT !.age = Aged(@)] ELSE task[t]]
  BY <1>1 DEF Tick
<1>3. ASSUME NEW t \in Tasks
      PROVE  /\ task'[t] \in Verdicts
             /\ task'[t].pc = task[t].pc /\ task'[t].slot = task[t].slot
             /\ task'[t].next = task[t].next /\ task'[t].reply = task[t].reply
             /\ task'[t].revoked = task[t].revoked /\ task'[t].passed = task[t].passed
             /\ task[t].pc = "fetching" =>
                  /\ task'[t].age = task[t].age + 1 /\ task'[t].age = Aged(task[t].age)
                  /\ task'[t].age \in 0 .. Timeout
  <2>1. task[t] \in Verdicts /\ task[t].age \in Ages /\ Aged(task[t].age) \in Ages
    BY <1>0, HorizonFacts DEF Verdicts
  <2>2. CASE task[t].pc = "fetching"
    <3>1. task'[t] = [task[t] EXCEPT !.age = Aged(task[t].age)]
      BY <1>2, <2>2
    <3>2. Aged(task[t].age) = task[t].age + 1 /\ task[t].age + 1 \in 0 .. Timeout
      <4>1. task[t].age < Timeout
        BY <1>2, <2>2
      <4>2. \A a \in Ages : a < Timeout => Aged(a) = a + 1 /\ a + 1 \in 0 .. Timeout
        BY HorizonFacts, RolesAssumption
      <4> QED BY <2>1, <4>1, <4>2
    <3> QED BY <2>1, <3>1, <3>2 DEF Verdicts
  <2>3. CASE task[t].pc # "fetching"
    BY <1>2, <2>1, <2>3
  <2> QED BY <2>2, <2>3
<1>4. task' \in [Tasks -> Verdicts]
  BY <1>2, <1>3
<1>5. ASSUME NEW s \in Slots, entries[s] # None
      PROVE  /\ entries[s] \in Entries /\ es[s] \in Entries
             /\ es[s].holders = entries[s].holders /\ es[s].age = Aged(entries[s].age)
  <2>1. entries[s] \in Entries /\ entries[s].age \in Ages
    BY <1>0, <1>5 DEF Entries
  <2>2. Aged(entries[s].age) \in Ages
    BY <2>1, HorizonFacts
  <2>3. es[s] = [entries[s] EXCEPT !.age = Aged(entries[s].age)]
    BY <1>1, <1>5
  <2> QED BY <2>1, <2>2, <2>3 DEF Entries
<1>6. \A s \in Slots : entries[s] = None => es[s] = None
  BY <1>1
<1>7. es \in [Slots -> Entries \cup {None}]
  <2>1. \A s \in Slots : es[s] \in Entries \cup {None}
    BY <1>5, <1>6
  <2> QED BY <1>1, <2>1
<1>8. /\ entries' \in [Slots -> Entries \cup {None}]
      /\ \A s \in Slots : entries'[s] # None =>
           /\ entries'[s] = es[s] /\ IsFresh(es[s]) /\ entries[s] # None
           /\ (s[2] = 0 /\ s[1] \in Remembered') \/ Holders(s)' # {}
      /\ \A s \in Slots : es[s] # None /\ IsFresh(es[s]) /\ s[2] = 0 /\ s[1] \in Remembered'
              => entries'[s] = es[s]
  BY <1>2, <1>6, <1>7, StoreFacts
<1>9. Remembered' = Remembered /\ \A s \in Slots : Holders(s)' = Holders(s)
  BY <1>2, <1>3 DEF Remembered, Holders
<1>10. sinceHeld' \in Ages /\ \A a \in Ages : sinceHeld <= a => sinceHeld' <= Aged(a)
  BY <1>0, <1>2, HorizonFacts
<1>11. \A r \in Requests : /\ [r EXCEPT !.age = Aged(@)] \in Requests
                           /\ [r EXCEPT !.age = Aged(@)].holders = r.holders
                           /\ [r EXCEPT !.age = Aged(@)].age = Aged(r.age)
  BY HorizonFacts DEF Requests
<1>12. asked \in Requests \cup {None} /\ \A r \in Requests : Fresh(r) \in {r, None}
  BY <1>0 DEF TypeOK, Requests, Fresh
<1>13. TypeOK'
  <2>1. asked' \in Requests \cup {None}
    <3>1. CASE asked = None
      BY <1>2, <3>1
    <3>2. CASE asked # None
      <4>1. PICK r \in Requests : r = [asked EXCEPT !.age = Aged(@)]
        BY <1>11, <1>12, <3>2
      <4>2. asked' = Fresh(r)
        BY <1>2, <3>2, <4>1
      <4> QED BY <1>12, <4>2
    <3> QED BY <3>1, <3>2
  <2> QED BY <1>0, <1>2, <1>4, <1>8, <1>10, <2>1 DEF TypeOK, Requests
<1>14. SingleFlight'
  <2>1. ASSUME NEW u \in Tasks
        PROVE  /\ task'[u].pc \in {"queued", "fetching"} <=> task'[u].slot # None
               /\ task'[u].pc = "asking" => task'[u].next # None
               /\ task'[u].reply # None => task'[u].pc = "fetching"
               /\ task'[u].passed => task'[u].pc = "idle"
               /\ task'[u].pc = "fetching" => task'[u].age <= Timeout
               /\ task'[u].slot \in Keys \X {0} => task'[u].slot[1] \in Remembered'
    <3>1. task'[u].pc = "fetching" => task'[u].age <= Timeout
      BY <1>3
    <3> QED BY <1>3, <1>9, <3>1 DEF DirectoryInvariant, SingleFlight
  <2>2. ASSUME NEW u \in Tasks, NEW w \in Tasks, task'[u].pc = "fetching",
               task'[w].pc = "fetching", task'[w].slot = task'[u].slot
        PROVE  u = w
    BY <1>3, <2>2 DEF DirectoryInvariant, SingleFlight
  <2>3. \A s \in Slots : entries'[s] # None =>
           /\ IsFresh(entries'[s])
           /\ s[2] = 0 => s[1] \in Remembered'
           /\ s[2] # 0 => Holders(s)' # {}
    BY <1>8, <1>9 DEF DirectoryInvariant, SingleFlight
  <2> QED BY <2>1, <2>2, <2>3 DEF SingleFlight
<1>15. GrantsAged'
  <2>1. ASSUME NEW u \in Tasks, task'[u].pc = "fetching", task'[u].slot[1] = watched,
               task'[u].reply = "granted"
        PROVE  sinceHeld' <= task'[u].age
    <3>1. sinceHeld <= task[u].age
      BY <1>3, <2>1 DEF DirectoryInvariant, GrantsAged
    <3>2. task[u].age \in Ages /\ task'[u].age = Aged(task[u].age)
      BY <1>0, <1>3, <2>1 DEF Verdicts
    <3> QED BY <1>10, <3>1, <3>2
  <2>2. ASSUME NEW s \in Slots, s[1] = watched, entries'[s] # None, entries'[s].holders = "granted"
        PROVE  sinceHeld' <= entries'[s].age
    <3>1. entries[s] # None /\ entries'[s] = es[s]
      BY <1>8, <2>2
    <3>2. entries[s].holders = "granted" /\ entries'[s].age = Aged(entries[s].age)
      BY <1>5, <2>2, <3>1
    <3>3. sinceHeld <= entries[s].age /\ entries[s].age \in Ages
      BY <1>5, <2>2, <3>1, <3>2 DEF DirectoryInvariant, GrantsAged, Entries
    <3> QED BY <1>10, <3>2, <3>3
  <2>3. held => sinceHeld' = 0
    BY <1>2
  <2> QED BY <1>2, <2>1, <2>2, <2>3 DEF GrantsAged
<1>16. ASSUME NEW s \in Slots, Denied(s) PROVE Denied(s)'
  <2>1. entries'[s] # None => entries'[s].holders # "granted"
    BY <1>5, <1>8, <1>16 DEF Denied
  <2>2. ~ Replied(s)'
    BY <1>3, <1>16 DEF Denied, Replied
  <2> QED BY <1>2, <1>16, <2>1, <2>2 DEF Denied
<1>17. RevokedDenied'
  <2>1. ASSUME revoked' PROVE Denied(<<watched, 0>>)'
    <3>1. PICK s \in Slots : s = <<watched, 0>>
      BY <1>0
    <3>2. Denied(s)'
      BY <1>2, <1>16, <2>1, <3>1 DEF DirectoryInvariant, RevokedDenied
    <3> QED BY <1>2, <3>1, <3>2
  <2>2. ASSUME NEW u \in Tasks, task'[u].revoked
        PROVE  /\ task'[u].pc \in {"queued", "fetching"} /\ task'[u].slot[1] = watched
               /\ Denied(task[u].slot)'
    <3>1. /\ task[u].pc \in {"queued", "fetching"} /\ task[u].slot[1] = watched
          /\ Denied(task[u].slot)
      BY <1>3, <2>2 DEF DirectoryInvariant, RevokedDenied
    <3>2. PICK s \in Slots : s = task[u].slot
      BY <1>0, <3>1 DEF Verdicts, DirectoryInvariant, SingleFlight
    <3>3. Denied(s)' /\ task'[u].slot = s
      BY <1>3, <1>16, <3>1, <3>2
    <3>4. Denied(task[u].slot)'
      BY <3>3 DEF Denied, Replied
    <3> QED BY <1>3, <3>1, <3>4
  <2> QED BY <1>2, <2>1, <2>2 DEF RevokedDenied
<1>18. AskedOnce'
  <2>1. ASSUME NEW u \in Tasks, task'[u].pc = "fetching", task'[u].slot = <<watched, 0>>
        PROVE  asked' = Asking(task'[u].age)
    <3>1. /\ task[u].pc = "fetching" /\ task[u].slot = <<watched, 0>>
          /\ task'[u].age = Aged(task[u].age)
      BY <1>3, <2>1
    <3>2. asked = Asking(task[u].age) /\ asked # None
      BY <1>0, <3>1, NoneFacts DEF DirectoryInvariant, AskedOnce, Verdicts
    <3>3. [asked EXCEPT !.age = Aged(@)] = Asking(task'[u].age)
      BY <3>1, <3>2 DEF Asking
    <3> QED BY <1>2, <3>2, <3>3 DEF Fresh, Asking
  <2>2. ASSUME asked' # None
        PROVE  IF asked'.holders = None
               THEN \E u \in Tasks : task'[u].pc = "fetching" /\ task'[u].slot = <<watched, 0>>
               ELSE entries'[<<watched, 0>>] = asked'
    <3>1. asked # None /\ asked \in Requests
      BY <1>2, <1>12, <2>2
    <3>2. PICK r \in Requests : r = [asked EXCEPT !.age = Aged(asked.age)]
      BY <1>11, <3>1
    <3>3. r.holders = asked.holders /\ r.age = Aged(asked.age)
      BY <1>11, <3>1, <3>2
    <3>4. asked' = r /\ (r.holders # None => IsFresh(r))
      BY <1>2, <2>2, <3>1, <3>2 DEF Fresh
    <3>5. CASE asked.holders = None
      <4>1. PICK u \in Tasks : task[u].pc = "fetching" /\ task[u].slot = <<watched, 0>>
        BY <3>1, <3>5 DEF DirectoryInvariant, AskedOnce
      <4>2. task'[u].pc = "fetching" /\ task'[u].slot = <<watched, 0>>
        BY <1>3, <4>1
      <4> QED BY <3>3, <3>4, <3>5, <4>2
    <3>6. CASE asked.holders # None
      <4>1. entries[<<watched, 0>>] = asked
        BY <3>1, <3>6 DEF DirectoryInvariant, AskedOnce
      <4>2. es[<<watched, 0>>] = r
        BY <1>0, <1>1, <3>1, <3>2, <4>1
      <4>3. <<watched, 0>>[1] = watched /\ <<watched, 0>>[2] = 0
        OBVIOUS
      <4>4. watched \in Remembered
        BY <1>0, <3>1, <4>1, <4>3 DEF DirectoryInvariant, SingleFlight
      <4>5. r # None
        BY <2>2, <3>4
      <4>6. entries'[<<watched, 0>>] = r
        BY <1>0, <1>8, <1>9, <3>3, <3>4, <3>6, <4>2, <4>3, <4>4, <4>5
      <4> QED BY <3>3, <3>4, <3>6, <4>6
    <3> QED BY <3>5, <3>6
  <2> QED BY <1>2, <2>1, <2>2 DEF AskedOnce
<1> QED BY <1>13, <1>14, <1>15, <1>17, <1>18 DEF DirectoryInvariant

LEMMA Promotes ==
  ASSUME DirectoryInvariant, Promote
  PROVE  DirectoryInvariant'
<1>0. /\ TypeOK /\ task \in [Tasks -> Verdicts] /\ entries \in [Slots -> Entries \cup {None}]
      /\ 0 \in Ages
  BY HorizonFacts DEF DirectoryInvariant, TypeOK
<1>1. /\ held' = TRUE /\ sinceHeld' = 0 /\ revoked' = FALSE
      /\ UNCHANGED <<watched, consulted, entries, asked>>
      /\ task' = [t \in Tasks |-> [task[t] EXCEPT !.revoked = FALSE]]
  BY DEF Promote, cache
<1>2. ASSUME NEW t \in Tasks
      PROVE  /\ task'[t] \in Verdicts
             /\ task'[t].pc = task[t].pc /\ task'[t].slot = task[t].slot
             /\ task'[t].next = task[t].next /\ task'[t].reply = task[t].reply
             /\ task'[t].age = task[t].age /\ ~ task'[t].revoked
             /\ task'[t].passed = task[t].passed
  BY <1>0, <1>1 DEF Verdicts
<1>3. TypeOK'
  BY <1>0, <1>1, <1>2 DEF TypeOK
<1>4. Remembered' = Remembered /\ \A s \in Slots : Holders(s)' = Holders(s)
  BY <1>1, <1>2 DEF Remembered, Holders
<1>5. SingleFlight'
  <2>1. ASSUME NEW u \in Tasks
        PROVE  /\ task'[u].pc \in {"queued", "fetching"} <=> task'[u].slot # None
               /\ task'[u].pc = "asking" => task'[u].next # None
               /\ task'[u].reply # None => task'[u].pc = "fetching"
               /\ task'[u].passed => task'[u].pc = "idle"
               /\ task'[u].pc = "fetching" => task'[u].age <= Timeout
               /\ task'[u].slot \in Keys \X {0} => task'[u].slot[1] \in Remembered'
    BY <1>2, <1>4 DEF DirectoryInvariant, SingleFlight
  <2>2. ASSUME NEW u \in Tasks, NEW w \in Tasks, task'[u].pc = "fetching",
               task'[w].pc = "fetching", task'[w].slot = task'[u].slot
        PROVE  u = w
    BY <1>2, <2>2 DEF DirectoryInvariant, SingleFlight
  <2>3. \A s \in Slots : entries'[s] # None =>
           /\ IsFresh(entries'[s])
           /\ s[2] = 0 => s[1] \in Remembered'
           /\ s[2] # 0 => Holders(s)' # {}
    BY <1>1, <1>4 DEF DirectoryInvariant, SingleFlight
  <2> QED BY <2>1, <2>2, <2>3 DEF SingleFlight
<1>6. GrantsAged'
  <2>1. \A a \in Ages : 0 <= a
    BY HorizonFacts
  <2>2. \A s \in Slots : entries[s] # None => entries[s].age \in Ages
    BY <1>0 DEF Entries
  <2>3. \A t \in Tasks : task'[t].age \in Ages
    BY <1>2 DEF Verdicts
  <2> QED BY <1>1, <2>1, <2>2, <2>3 DEF GrantsAged
<1>7. RevokedDenied'
  BY <1>1, <1>2 DEF RevokedDenied
<1>8. AskedOnce'
  BY <1>1, <1>2 DEF DirectoryInvariant, AskedOnce
<1> QED BY <1>3, <1>5, <1>6, <1>7, <1>8 DEF DirectoryInvariant

LEMMA Demotes ==
  ASSUME DirectoryInvariant, Demote
  PROVE  DirectoryInvariant'
<1>1. held' = FALSE /\ UNCHANGED <<watched, sinceHeld, consulted, entries, task, revoked, asked>>
  BY DEF Demote, cache
<1>2. TypeOK'
  BY <1>1 DEF DirectoryInvariant, TypeOK
<1>3. SingleFlight'
  BY <1>1 DEF DirectoryInvariant, SingleFlight, Remembered, Holders
<1>4. GrantsAged'
  BY <1>1 DEF DirectoryInvariant, GrantsAged
<1>5. RevokedDenied'
  BY <1>1 DEF DirectoryInvariant, RevokedDenied, Denied, Replied
<1>6. AskedOnce'
  BY <1>1 DEF DirectoryInvariant, AskedOnce
<1> QED BY <1>2, <1>3, <1>4, <1>5, <1>6 DEF DirectoryInvariant

(***************************************************************************)
(* The theorems.                                                           *)
(***************************************************************************)
LEMMA InvariantInitially == Init => DirectoryInvariant
<1> SUFFICES ASSUME Init PROVE DirectoryInvariant
  OBVIOUS
<1>1. /\ watched \in Keys /\ held = FALSE /\ sinceHeld = Horizon
      /\ entries = [s \in Slots |-> None] /\ consulted = <<>>
      /\ task = [t \in Tasks |-> Idle] /\ revoked = FALSE /\ asked = None
  BY DEF Init
<1>2. \A t \in Tasks : task[t] = Idle
  BY <1>1
<1>3. \A s \in Slots : entries[s] = None
  BY <1>1
<1>4. TypeOK
  <2>1. sinceHeld \in Ages
    BY <1>1, HorizonFacts
  <2>2. consulted \in Seq(Rooms) /\ IsInjective(consulted) /\ Len(consulted) = 0
    BY <1>1 DEF IsInjective
  <2>3. task \in [Tasks -> Verdicts]
    BY <1>1, IdleFacts
  <2>4. MaxRooms > 0 => Len(consulted) <= MaxRooms
    BY <2>2, RolesAssumption
  <2> QED BY <1>1, <2>1, <2>2, <2>3, <2>4 DEF TypeOK
<1>5. SingleFlight
  BY <1>2, <1>3, IdleFacts, SlotFacts DEF SingleFlight
<1>6. GrantsAged
  BY <1>1, <1>2, <1>3, IdleFacts DEF GrantsAged
<1>7. RevokedDenied
  BY <1>1, <1>2, IdleFacts DEF RevokedDenied
<1>8. AskedOnce
  BY <1>1, <1>2, IdleFacts DEF AskedOnce
<1> QED BY <1>4, <1>5, <1>6, <1>7, <1>8 DEF DirectoryInvariant

LEMMA InvariantKept == DirectoryInvariant /\ [Next]_vars => DirectoryInvariant'
<1> SUFFICES ASSUME DirectoryInvariant, [Next]_vars PROVE DirectoryInvariant'
  OBVIOUS
<1>1. CASE Promote
  BY <1>1, Promotes
<1>2. CASE Demote
  BY <1>2, Demotes
<1>3. CASE Tick
  BY <1>3, Ticks
<1>4. ASSUME NEW t \in Tasks, Ask(t) PROVE DirectoryInvariant'
  <2>1. task[t].pc \in {"idle", "asking"} /\ Global \in Keys /\ Rooms \subseteq Keys
    BY <1>4 DEF Ask, Keys
  <2>2. CASE TakeSlot(t, Global, None)
    BY <2>1, <2>2, TakesSlot
  <2>3. ASSUME NEW r \in Rooms, TakeSlot(t, r, None) PROVE DirectoryInvariant'
    BY <2>1, <2>3, TakesSlot
  <2>4. ASSUME NEW r \in Rooms, TakeSlot(t, Global, r) PROVE DirectoryInvariant'
    BY <2>1, <2>4, TakesSlot
  <2> QED BY <1>4, <2>2, <2>3, <2>4 DEF Ask
<1>5. ASSUME NEW t \in Tasks, AskRoom(t) PROVE DirectoryInvariant'
  <2>1. task[t].pc = "asking" /\ TakeSlot(t, task[t].next, None)
    BY <1>5 DEF AskRoom
  <2>2. PICK r \in Rooms : r = task[t].next
    BY <2>1 DEF DirectoryInvariant, SingleFlight, TypeOK, Verdicts
  <2>3. TakeSlot(t, r, None) /\ r \in Keys
    BY <2>1, <2>2 DEF Keys
  <2> QED BY <2>1, <2>3, TakesSlot
<1>6. ASSUME NEW t \in Tasks, LockSlot(t) PROVE DirectoryInvariant'
  <2>1. CASE entries[task[t].slot] # None
    BY <1>6, <2>1, AnswersFromEntry
  <2>2. CASE entries[task[t].slot] = None
    <3>1. task[t].pc = "queued" /\ ~ Locked(task[t].slot) /\ StartFetch(t)
      BY <1>6, <2>2 DEF LockSlot
    <3> QED BY <2>2, <3>1, StartsFetch
  <2> QED BY <2>1, <2>2
<1>7. ASSUME NEW t \in Tasks, Serve(t) PROVE DirectoryInvariant'
  BY <1>7, Serves
<1>8. ASSUME NEW t \in Tasks, Finish(t) PROVE DirectoryInvariant'
  BY <1>8, Finishes
<1>9. ASSUME NEW t \in Tasks, Drop(t) PROVE DirectoryInvariant'
  BY <1>9, Drops
<1>10. CASE ApplyRoleChange
  <2>1. PICK change \in RoleChanges : Invalidate(Affected(change)) /\ Invalidated(Affected(change))
    BY <1>10 DEF ApplyRoleChange
  <2>2. PICK keys : keys = Affected(change)
    OBVIOUS
  <2>3. keys \in SUBSET Keys
    BY <2>2 DEF Affected, RoleChanges, Keys
  <2>4. Invalidate(keys) /\ Invalidated(keys)
    BY <2>1, <2>2
  <2> QED BY <2>3, <2>4, Invalidates
<1>11. CASE InvalidateAll
  BY <1>11, Invalidates DEF InvalidateAll
<1>12. CASE UNCHANGED vars
  <2>1. UNCHANGED <<watched, held, sinceHeld, consulted, entries, task, revoked, asked>>
    BY <1>12 DEF vars, server, cache
  <2>2. TypeOK'
    BY <2>1 DEF DirectoryInvariant, TypeOK
  <2>3. SingleFlight'
    BY <2>1 DEF DirectoryInvariant, SingleFlight, Remembered, Holders
  <2>4. GrantsAged'
    BY <2>1 DEF DirectoryInvariant, GrantsAged
  <2>5. RevokedDenied'
    BY <2>1 DEF DirectoryInvariant, RevokedDenied, Denied, Replied
  <2>6. AskedOnce'
    BY <2>1 DEF DirectoryInvariant, AskedOnce
  <2> QED BY <2>2, <2>3, <2>4, <2>5, <2>6 DEF DirectoryInvariant
<1> QED
  BY <1>1, <1>2, <1>3, <1>4, <1>5, <1>6, <1>7, <1>8, <1>9, <1>10, <1>11, <1>12 DEF Next

(* The directory's invariant: every variable keeps its type and the rooms  *)
(* their ceiling, one task fetches into a slot at a time, a grant is never *)
(* older than the role, and who asks after an invalidation has a slot that *)
(* does not grant what was lost before it (roles.rs, Slot and entry).      *)
THEOREM DirectoryCorrect == Spec => []DirectoryInvariant
<1>1. Init => DirectoryInvariant
  BY InvariantInitially
<1>2. DirectoryInvariant /\ [Next]_vars => DirectoryInvariant'
  BY InvariantKept
<1> QED BY <1>1, <1>2, PTL DEF Spec

(***************************************************************************)
(* Only the one who has the slot's mutex passes or sends a request.        *)
(***************************************************************************)
LEMMA OthersStay ==
  ASSUME DirectoryInvariant, [Next]_vars,
         \A u \in Tasks : ~ (LockSlot(u) \/ Finish(u)),
         NEW t \in Tasks
  PROVE  /\ task'[t].passed => task[t].passed
         /\ task'[t].pc = "fetching" => task[t].pc = "fetching"
<1> DEFINE Stays == /\ task'[t].passed => task[t].passed
                    /\ task'[t].pc = "fetching" => task[t].pc = "fetching"
<1>0. TypeOK /\ task \in [Tasks -> Verdicts]
  BY DEF DirectoryInvariant, TypeOK
<1>1. CASE Promote \/ Tick
  <2>1. task[t] \in Verdicts
    BY <1>0
  <2>2. CASE Promote
    BY <2>1, <2>2 DEF Promote, Verdicts
  <2>3. CASE Tick
    <3>1. \/ task'[t] = task[t]
          \/ task'[t] = [task[t] EXCEPT !.age = Aged(@)] /\ task[t].pc = "fetching"
      BY <2>3 DEF Tick
    <3> QED BY <2>1, <3>1 DEF Verdicts
  <2> QED BY <1>1, <2>2, <2>3
<1>2. CASE Demote \/ UNCHANGED vars
  BY <1>2 DEF Demote, vars, cache
<1>3. ASSUME NEW keys \in SUBSET Keys, Invalidate(keys) PROVE Stays
  <2>1. PICK es : Relocated(keys, task', es)
    BY <1>0, <1>3, InvalidateFacts
  <2> QED BY <2>1 DEF Relocated
<1>4. CASE ApplyRoleChange
  <2>1. PICK change \in RoleChanges : Invalidate(Affected(change))
    BY <1>4 DEF ApplyRoleChange
  <2>2. PICK keys : keys = Affected(change)
    OBVIOUS
  <2>3. keys \in SUBSET Keys
    BY <2>2 DEF Affected, RoleChanges, Keys
  <2> QED BY <1>3, <2>1, <2>2, <2>3
<1>5. CASE InvalidateAll
  BY <1>3, <1>5 DEF InvalidateAll
<1>6. ASSUME NEW u \in Tasks, NEW k \in Keys, NEW next \in Rooms \cup {None}, TakeSlot(u, k, next)
      PROVE  Stays
  <2>1. PICK keys \in SUBSET Keys : \E tk, es, v : Relocated(keys, tk, es) /\ Enters(u, k, tk, v)
    BY <1>0, <1>6, TakeSlotFacts
  <2>2. PICK tk, es, v : Relocated(keys, tk, es) /\ Enters(u, k, tk, v)
    BY <2>1
  <2>3. task'[t] = tk[t] \/ task'[t] = v
    BY <2>2 DEF Enters, Relocated
  <2>4. v.pc = "queued" /\ ~ v.passed
    BY <2>2 DEF Enters
  <2>5. tk[t].passed = task[t].passed /\ tk[t].pc = task[t].pc
    BY <2>2 DEF Relocated
  <2> QED BY <2>3, <2>4, <2>5
<1>7. ASSUME NEW u \in Tasks, Ask(u) PROVE Stays
  <2>1. Global \in Keys /\ Rooms \subseteq Keys
    BY DEF Keys
  <2>2. \/ TakeSlot(u, Global, None)
        \/ \E r \in Rooms : TakeSlot(u, r, None)
        \/ \E r \in Rooms : TakeSlot(u, Global, r)
    BY <1>7 DEF Ask
  <2> HIDE DEF Stays
  <2> QED BY <1>6, <2>1, <2>2
<1>8. ASSUME NEW u \in Tasks, AskRoom(u) PROVE Stays
  <2>1. task[u].pc = "asking" /\ TakeSlot(u, task[u].next, None)
    BY <1>8 DEF AskRoom
  <2>2. PICK r \in Rooms : r = task[u].next
    BY <1>0, <2>1 DEF DirectoryInvariant, SingleFlight, Verdicts
  <2> HIDE DEF Stays
  <2> QED BY <1>6, <2>1, <2>2 DEF Keys
<1>9. ASSUME NEW u \in Tasks, Serve(u) PROVE Stays
  BY <1>0, <1>9 DEF Serve, Verdicts
<1>10. ASSUME NEW u \in Tasks, Drop(u) PROVE Stays
  BY <1>0, <1>10, IdleFacts DEF Drop
<1> HIDE DEF Stays
<1>11. Stays
  BY <1>1, <1>2, <1>4, <1>5, <1>7, <1>8, <1>9, <1>10 DEF Next, Stays
<1> QED BY <1>11 DEF Stays

\* What the answer of a slot does to its caller.
LEMMA AnswerFacts ==
  ASSUME DirectoryInvariant, NEW u \in Tasks, NEW e \in Entries, Answered(u, e), NEW t \in Tasks
  PROVE  /\ task'[t].passed /\ ~ task[t].passed => u = t /\ e.holders = "granted"
         /\ task'[t].pc = "fetching" => task[t].pc = "fetching"
<1>0. TypeOK /\ task \in [Tasks -> Verdicts]
  BY DEF DirectoryInvariant, TypeOK
<1>1. PICK v : Leaves(u, v) /\ (v.passed => e.holders = "granted")
  BY <1>0, AnsweredFacts
<1>2. task'[u] = v /\ (u # t => task'[t] = task[t])
  BY <1>0, <1>1 DEF Leaves
<1> QED BY <1>0, <1>1, <1>2 DEF Leaves

LEMMA LockFacts ==
  ASSUME DirectoryInvariant, NEW u \in Tasks, LockSlot(u)
  PROVE  /\ task[u].pc = "queued" /\ task[u].slot \in Slots /\ ~ Locked(task[u].slot)
         /\ UNCHANGED server
         /\ \/ entries[task[u].slot] \in Entries /\ Answered(u, entries[task[u].slot])
            \/ entries[task[u].slot] = None /\ StartFetch(u)
<1>0. task \in [Tasks -> Verdicts] /\ entries \in [Slots -> Entries \cup {None}]
  BY DEF DirectoryInvariant, TypeOK
<1>1. task[u].pc = "queued" /\ ~ Locked(task[u].slot)
  BY DEF LockSlot
<1>2. task[u].slot \in Slots
  BY <1>0, <1>1 DEF Verdicts, DirectoryInvariant, SingleFlight
<1> QED BY <1>0, <1>1, <1>2 DEF LockSlot, StartFetch

LEMMA FinishFacts ==
  ASSUME DirectoryInvariant, NEW u \in Tasks, Finish(u)
  PROVE  /\ task[u].pc = "fetching" /\ task[u].slot \in Slots /\ UNCHANGED server
         /\ \E e \in Entries : Answered(u, e) /\ (e.holders = "granted" => task[u].reply = "granted")
<1>0. task \in [Tasks -> Verdicts] /\ task[u].pc = "fetching"
  BY DEF DirectoryInvariant, TypeOK, Finish
<1>1. /\ task[u].slot \in Slots /\ task[u].age \in Ages
      /\ task[u].reply \in {"granted", "denied", None}
  BY <1>0 DEF Verdicts, DirectoryInvariant, SingleFlight
<1>2. PICK holders \in {task[u].reply, "failed"} \ {None} :
        Answered(u, [holders |-> holders, age |-> task[u].age]) /\ UNCHANGED server
  BY DEF Finish, Stamped
<1>3. PICK e : e = [holders |-> holders, age |-> task[u].age]
  OBVIOUS
<1>4. e \in Entries /\ e.holders = holders
  BY <1>1, <1>3 DEF Entries, Answers
<1> QED BY <1>0, <1>1, <1>2, <1>3, <1>4

\* Only an answer makes a caller pass, and it is what its slot grants.
LEMMA PassesOnGrant ==
  ASSUME DirectoryInvariant, [Next]_vars, NEW t \in Tasks, Passes(t)
  PROVE  /\ sinceHeld' = sinceHeld /\ watched' = watched
         /\ task[t].slot \in Slots
         /\ \/ /\ task[t].pc = "queued" /\ entries[task[t].slot] # None
               /\ entries[task[t].slot].holders = "granted"
            \/ task[t].pc = "fetching" /\ task[t].reply = "granted"
<1>0. task'[t].passed /\ ~ task[t].passed /\ task \in [Tasks -> Verdicts]
  BY DEF DirectoryInvariant, SingleFlight, Passes, TypeOK
<1>1. PICK u \in Tasks : LockSlot(u) \/ Finish(u)
  BY <1>0, OthersStay
<1>2. CASE LockSlot(u)
  <2>1. ASSUME StartFetch(u) PROVE FALSE
    BY <1>0, <2>1 DEF StartFetch, Verdicts
  <2>2. PICK e \in Entries : e = entries[task[u].slot] /\ Answered(u, e)
    BY <1>2, <2>1, LockFacts
  <2>3. u = t /\ e.holders = "granted"
    BY <1>0, <2>2, AnswerFacts
  <2> QED BY <1>2, <2>2, <2>3, LockFacts, NoneFacts DEF server
<1>3. CASE Finish(u)
  <2>1. PICK e \in Entries : Answered(u, e) /\ (e.holders = "granted" => task[u].reply = "granted")
    BY <1>3, FinishFacts
  <2>2. u = t /\ e.holders = "granted"
    BY <1>0, <2>1, AnswerFacts
  <2> QED BY <1>3, <2>1, <2>2, FinishFacts DEF server
<1> QED BY <1>1, <1>2, <1>3

(* A grant is never older than a cached answer may be, or a lookup may     *)
(* take: the entry was stamped when its request went out (roles.rs,        *)
(* fetch), so it expires in time whatever events were missed.              *)
THEOREM GrantsBacked == Spec => GrantsAreRecent
<1>1. DirectoryInvariant /\ [Next]_vars =>
        [\A t \in Tasks :
           Passes(t) /\ Key(t) = watched => sinceHeld <= Larger(Ttl - 1, Timeout)]_vars
  <2> SUFFICES ASSUME DirectoryInvariant, [Next]_vars,
                      NEW t \in Tasks, Passes(t), task[t].slot[1] = watched
               PROVE  sinceHeld <= Larger(Ttl - 1, Timeout)
    OBVIOUS
  <2>1. /\ sinceHeld \in Nat
        /\ task[t].slot \in Slots
        /\ \/ /\ task[t].pc = "queued" /\ entries[task[t].slot] # None
              /\ entries[task[t].slot].holders = "granted"
           \/ task[t].pc = "fetching" /\ task[t].reply = "granted"
    BY PassesOnGrant, HorizonFacts DEF DirectoryInvariant, TypeOK
  <2>2. CASE /\ task[t].pc = "queued" /\ entries[task[t].slot] # None
             /\ entries[task[t].slot].holders = "granted"
    <3>1. PICK e \in Entries : e = entries[task[t].slot]
      BY <2>1, <2>2 DEF DirectoryInvariant, TypeOK
    <3>2. IsFresh(e) /\ sinceHeld <= e.age /\ e.age \in Nat
      BY <2>1, <2>2, <3>1, HorizonFacts DEF DirectoryInvariant, SingleFlight, GrantsAged, Entries
    <3>3. e.age < Ttl
      BY <2>2, <3>1, <3>2 DEF IsFresh
    <3> QED BY <2>1, <3>2, <3>3, RolesAssumption DEF Larger
  <2>3. CASE task[t].pc = "fetching" /\ task[t].reply = "granted"
    <3>1. sinceHeld <= task[t].age /\ task[t].age <= Timeout /\ task[t].age \in Nat
      BY <2>3, HorizonFacts DEF DirectoryInvariant, SingleFlight, GrantsAged, TypeOK, Verdicts
    <3> QED BY <2>1, <3>1, RolesAssumption DEF Larger
  <2> QED BY <2>1, <2>2, <2>3
<1> QED BY <1>1, DirectoryCorrect, PTL DEF Spec, GrantsAreRecent

(* A lookup that began after an invalidation never grants what was lost    *)
(* before it: the requests of before answer into slots that were replaced  *)
(* (roles.rs, invalidate_global, invalidate_room, invalidate_all).         *)
THEOREM InvalidationsKept == Spec => InvalidationsObeyed
<1>1. DirectoryInvariant /\ [Next]_vars => [\A t \in Tasks : Passes(t) => ~ task[t].revoked]_vars
  <2> SUFFICES ASSUME DirectoryInvariant, [Next]_vars, NEW t \in Tasks, Passes(t), task[t].revoked
               PROVE  FALSE
    OBVIOUS
  <2>1. Denied(task[t].slot)
    BY DEF DirectoryInvariant, RevokedDenied
  <2> QED BY <2>1, PassesOnGrant DEF Denied, Replied
<1> QED BY <1>1, DirectoryCorrect, PTL DEF Spec, InvalidationsObeyed

(* While a request for the watched slot is out, or its answer counts, no   *)
(* caller sends another one: it waits for the mutex and finds the entry    *)
(* (roles.rs, entry).                                                      *)
THEOREM NoStampedeEver == Spec => NoStampede
<1>1. DirectoryInvariant /\ [Next]_vars =>
        [\A t \in Tasks :
           task[t].pc = "queued" /\ task'[t].pc = "fetching" /\ Watching(t) => asked = None]_vars
  <2> SUFFICES ASSUME DirectoryInvariant, [Next]_vars, NEW t \in Tasks,
                      task[t].pc = "queued", task'[t].pc = "fetching",
                      task[t].slot = <<watched, 0>>, asked # None
               PROVE  FALSE
    OBVIOUS
  <2>1. PICK u \in Tasks : LockSlot(u) \/ Finish(u)
    BY OthersStay
  <2>2. \A e \in Entries : ~ Answered(u, e)
    BY AnswerFacts
  <2>3. ~ Locked(task[u].slot) /\ entries[task[u].slot] = None /\ StartFetch(u)
    BY <2>1, <2>2, LockFacts, FinishFacts
  <2>4. u = t
    BY <2>3 DEF StartFetch, DirectoryInvariant, TypeOK
  <2>5. \A w \in Tasks : ~ (task[w].pc = "fetching" /\ task[w].slot = <<watched, 0>>)
    BY <2>3, <2>4 DEF Locked, Holders
  <2>6. entries[<<watched, 0>>] = asked
    BY <2>5 DEF DirectoryInvariant, AskedOnce
  <2> QED BY <2>3, <2>4, <2>6
<1> QED BY <1>1, DirectoryCorrect, PTL DEF Spec, NoStampede

=============================================================================
