---------------------------- MODULE ClientProofs ----------------------------
(***************************************************************************)
(* The safety properties of the client, for any number of stream keys, any *)
(* capacity of the ring and any number of lost connections: the invariant  *)
(* of ClientInv.tla is inductive.  Before it, of Registry.tla alone: what  *)
(* each of its operations keeps, and so any sequence of them, as long as   *)
(* insert and rekey are given an id the registry does not hold.            *)
(***************************************************************************)
EXTENDS ClientInv, TLAPS, SequenceTheorems, FiniteSetTheorems

-----------------------------------------------------------------------------
(* The subscription registry.                                              *)

RegistrySound == RegistryTypeOK /\ IndexMatches

(* The operations that only change states keep keys and index.             *)
LEMMA StateStep ==
  ASSUME RegistrySound, UNCHANGED byKey,
         DOMAIN byId' = Remembered,
         byId' \in [Remembered -> RegistryEntries],
         \A i \in Remembered : byId'[i].key = byId[i].key
  PROVE  RegistrySound'
<1>1. RegistryTypeOK'
  BY DEF RegistrySound, RegistryTypeOK, Remembered
<1>2. IndexMatches'
  BY DEF RegistrySound, IndexMatches, Remembered
<1> QED BY <1>1, <1>2 DEF RegistrySound

LEMMA InsertStep ==
  ASSUME RegistrySound, NEW id \in Ids, id \notin Remembered, NEW key \in StreamKeys,
         Insert(id, key)
  PROVE  RegistrySound'
<1> DEFINE entry == [key |-> key, state |-> "Pending"]
<1> USE DEF RegistrySound, RegistryTypeOK
<1>1. /\ byId' = [i \in Remembered \cup {id} |-> IF i = id THEN entry ELSE byId[i]]
      /\ byKey' = [k \in DOMAIN byKey \cup {key} |->
                     IF k = key THEN Subscribers(key) \cup {id} ELSE byKey[k]]
  BY DEF Insert
<1>2. entry \in RegistryEntries /\ entry.key = key
  BY DEF RegistryEntries, SubStates
<1>3. /\ DOMAIN byId' = Remembered \cup {id}
      /\ byId'[id].key = key
      /\ \A i \in Remembered : byId'[i] = byId[i]
  BY <1>1, <1>2
<1>4. Subscribers(key) = {i \in Remembered : byId[i].key = key}
  BY DEF Subscribers, IndexMatches
<1>5. RegistryTypeOK'
  <2>1. byId' \in [Remembered \cup {id} -> RegistryEntries]
    BY <1>1, <1>2 DEF Remembered
  <2>2. Subscribers(key) \subseteq Ids
    BY <1>4 DEF Remembered
  <2>3. byKey' \in [DOMAIN byKey \cup {key} -> SUBSET Ids]
    BY <1>1, <2>2
  <2> QED BY <1>1, <1>3, <2>1, <2>3 DEF Remembered
<1>6. IndexMatches'
  <2>1. DOMAIN byKey' = {byId'[i].key : i \in DOMAIN byId'}
    <3>1. ASSUME NEW k \in DOMAIN byKey'
          PROVE  \E i \in DOMAIN byId' : byId'[i].key = k
      <4>1. k \in DOMAIN byKey \/ k = key
        BY <1>1
      <4>2. CASE k = key
        BY <1>3, <4>2
      <4>3. CASE k \in DOMAIN byKey
        <5>1. PICK i \in Remembered : byId[i].key = k
          BY <4>3 DEF IndexMatches
        <5> QED BY <1>3, <5>1
      <4> QED BY <4>1, <4>2, <4>3
    <3>2. ASSUME NEW i \in DOMAIN byId'
          PROVE  byId'[i].key \in DOMAIN byKey'
      <4>1. DOMAIN byKey' = DOMAIN byKey \cup {key}
        BY <1>1
      <4>2. CASE i = id
        BY <1>3, <4>1, <4>2
      <4>3. CASE i \in Remembered
        <5>1. byId[i].key \in DOMAIN byKey
          BY <4>3 DEF IndexMatches
        <5> QED BY <1>3, <4>1, <4>3, <5>1
      <4> QED BY <1>3, <4>2, <4>3
    <3> QED BY <3>1, <3>2
  <2>2. ASSUME NEW k \in DOMAIN byKey'
        PROVE  byKey'[k] = {i \in DOMAIN byId' : byId'[i].key = k}
    <3>1. CASE k = key
      BY <1>1, <1>3, <1>4, <3>1
    <3>2. CASE k # key
      BY <1>1, <1>3, <3>2 DEF IndexMatches
    <3> QED BY <3>1, <3>2
  <2> QED BY <2>1, <2>2 DEF IndexMatches, Remembered
<1> QED BY <1>1, <1>3, <1>5, <1>6 DEF Remembered

LEMMA RemoveStep ==
  ASSUME RegistrySound, NEW id, Remove(id)
  PROVE  RegistrySound'
<1> DEFINE key     == byId[id].key
           left(k) == byKey[k] \ {id}
<1> USE DEF RegistrySound, RegistryTypeOK
<1>1. /\ byId' = [i \in Remembered \ {id} |-> byId[i]]
      /\ DOMAIN byId' = Remembered \ {id}
  BY DEF Remove
<1>2. CASE id \in Remembered
  <2>1. key \in DOMAIN byKey
    BY <1>2 DEF IndexMatches
  <2>2. byKey' = [k \in {l \in DOMAIN byKey : l = key => left(l) # {}} |->
                    IF k = key THEN left(k) ELSE byKey[k]]
    BY <1>2, <2>1 DEF Remove
  <2>3. left(key) = {i \in Remembered \ {id} : byId[i].key = key}
    BY <2>1 DEF IndexMatches
  <2>4. RegistryTypeOK'
    BY <1>1, <2>2 DEF Remembered
  <2>5. DOMAIN byKey' = {byId'[i].key : i \in DOMAIN byId'}
    <3>1. ASSUME NEW k \in DOMAIN byKey'
          PROVE  \E i \in DOMAIN byId' : byId'[i].key = k
      <4>1. k \in DOMAIN byKey /\ (k = key => left(k) # {})
        BY <2>2
      <4>2. CASE k = key
        BY <1>1, <2>3, <4>1, <4>2
      <4>3. CASE k # key
        <5>1. PICK i \in Remembered : byId[i].key = k
          BY <4>1 DEF IndexMatches
        <5> QED BY <1>1, <4>3, <5>1
      <4> QED BY <4>2, <4>3
    <3>2. ASSUME NEW i \in DOMAIN byId'
          PROVE  byId'[i].key \in DOMAIN byKey'
      <4>1. i \in Remembered \ {id} /\ byId'[i] = byId[i]
        BY <1>1
      <4>2. byId[i].key \in DOMAIN byKey
        BY <4>1 DEF IndexMatches
      <4> QED BY <2>2, <2>3, <4>1, <4>2
    <3> QED BY <3>1, <3>2
  <2>6. ASSUME NEW k \in DOMAIN byKey'
        PROVE  byKey'[k] = {i \in DOMAIN byId' : byId'[i].key = k}
    <3>1. CASE k = key
      BY <1>1, <2>2, <2>3, <3>1
    <3>2. CASE k # key
      BY <1>1, <1>2, <2>2, <3>2 DEF IndexMatches
    <3> QED BY <3>1, <3>2
  <2>7. IndexMatches'
    BY <2>5, <2>6 DEF IndexMatches, Remembered
  <2> QED BY <1>1, <2>4, <2>7 DEF Remembered
<1>3. CASE id \notin Remembered
  <2>1. byKey' = byKey
    BY <1>3 DEF Remove
  <2>2. \A i \in Remembered : byId'[i] = byId[i]
    BY <1>1, <1>3
  <2>3. DOMAIN byId' = Remembered
    BY <1>1, <1>3
  <2> QED BY <1>1, <1>3, <2>1, <2>2, <2>3, StateStep DEF Remembered
<1> QED BY <1>2, <1>3

LEMMA RekeyKnown ==
  ASSUME RegistrySound, NEW old \in Remembered, NEW new \in Ids, new \notin Remembered,
         Rekey(old, new)
  PROVE  RegistrySound'
<1> DEFINE key == byId[old].key
<1> USE DEF RegistrySound, RegistryTypeOK
<1>1. /\ byId' = [i \in (Remembered \ {old}) \cup {new} |->
                    IF i = new THEN [byId[old] EXCEPT !.state = "Pending"] ELSE byId[i]]
      /\ byKey' = [k \in DOMAIN byKey |->
                     IF k = key /\ old \in byKey[k] THEN (byKey[k] \ {old}) \cup {new}
                                                    ELSE byKey[k]]
  BY DEF Rekey
<1>2. [byId[old] EXCEPT !.state = "Pending"] \in RegistryEntries
  BY <1>1 DEF RegistryEntries, SubStates, Remembered
<1>3. /\ DOMAIN byId' = (Remembered \ {old}) \cup {new}
      /\ byId'[new].key = key
      /\ \A i \in Remembered \ {old} : byId'[i] = byId[i]
  BY <1>1 DEF RegistryEntries, Remembered
<1>4. key \in DOMAIN byKey /\ old \in byKey[key]
  BY <1>1 DEF IndexMatches
<1>5. RegistryTypeOK'
  <2>1. byId' \in [(Remembered \ {old}) \cup {new} -> RegistryEntries]
    BY <1>1, <1>2 DEF Remembered
  <2>2. byKey' \in [DOMAIN byKey -> SUBSET Ids]
    BY <1>1
  <2> QED BY <1>1, <1>3, <2>1, <2>2 DEF Remembered
<1>6. DOMAIN byKey' = {byId'[i].key : i \in DOMAIN byId'}
  <2>0. DOMAIN byKey' = DOMAIN byKey
    BY <1>1
  <2>1. ASSUME NEW k \in DOMAIN byKey
        PROVE  \E i \in DOMAIN byId' : byId'[i].key = k
    <3>1. PICK i \in Remembered : byId[i].key = k
      BY DEF IndexMatches
    <3>2. CASE i = old
      BY <1>3, <3>1, <3>2
    <3>3. CASE i # old
      BY <1>3, <3>1, <3>3
    <3> QED BY <3>2, <3>3
  <2>2. ASSUME NEW i \in DOMAIN byId'
        PROVE  byId'[i].key \in DOMAIN byKey
    <3>1. CASE i = new
      BY <1>3, <1>4, <3>1
    <3>2. CASE i \in Remembered \ {old}
      <4>1. byId[i].key \in DOMAIN byKey
        BY <3>2 DEF IndexMatches
      <4> QED BY <1>3, <3>2, <4>1
    <3> QED BY <1>3, <3>1, <3>2
  <2> QED BY <2>0, <2>1, <2>2
<1>7. ASSUME NEW k \in DOMAIN byKey'
      PROVE  byKey'[k] = {i \in DOMAIN byId' : byId'[i].key = k}
  <2>1. CASE k = key
    BY <1>1, <1>3, <1>4, <2>1 DEF IndexMatches
  <2>2. CASE k # key
    BY <1>1, <1>3, <2>2 DEF IndexMatches
  <2> QED BY <2>1, <2>2
<1>8. IndexMatches'
  BY <1>6, <1>7 DEF IndexMatches, Remembered
<1> QED BY <1>1, <1>3, <1>5, <1>8 DEF Remembered

(* rekey of an id that is not remembered changes nothing.                  *)
LEMMA RekeyStep ==
  ASSUME RegistrySound, NEW old, NEW new \in Ids, new \notin Remembered, Rekey(old, new)
  PROVE  RegistrySound'
<1>1. CASE old \in Remembered
  BY <1>1, RekeyKnown
<1>2. CASE old \notin Remembered
  BY <1>2 DEF Rekey, registryVars, RegistrySound, RegistryTypeOK, IndexMatches, Remembered
<1> QED BY <1>1, <1>2

(* connection_lost and mark_replayed.                                      *)
LEMMA StatesStep ==
  ASSUME RegistrySound, NEW s \in SubStates,
         byId' = [i \in Remembered |-> [byId[i] EXCEPT !.state = s]], UNCHANGED byKey
  PROVE  RegistrySound'
<1>1. /\ DOMAIN byId' = Remembered
      /\ byId' \in [Remembered -> RegistryEntries]
      /\ \A i \in Remembered : byId'[i].key = byId[i].key
  BY DEF RegistrySound, RegistryTypeOK, RegistryEntries
<1> QED BY <1>1, StateStep

LEMMA MarkReadyStep ==
  ASSUME RegistrySound, NEW id, MarkReady(id)
  PROVE  RegistrySound'
<1>1. /\ DOMAIN byId' = Remembered
      /\ byId' \in [Remembered -> RegistryEntries]
      /\ \A i \in Remembered : byId'[i].key = byId[i].key
  BY DEF MarkReady, RegistrySound, RegistryTypeOK, RegistryEntries, SubStates
<1> QED BY <1>1, StateStep DEF MarkReady

LEMMA RegistryInitSound == RegistryInit => RegistrySound
<1> SUFFICES ASSUME RegistryInit PROVE RegistrySound
  OBVIOUS
<1>1. DOMAIN byId = {} /\ DOMAIN byKey = {}
  BY DEF RegistryInit
<1>2. byId \in [{} -> RegistryEntries] /\ byKey \in [{} -> SUBSET Ids]
  BY DEF RegistryInit
<1> QED BY <1>1, <1>2 DEF RegistrySound, RegistryTypeOK, IndexMatches, Remembered

(* Events are routed to exactly the remembered subscriptions, whatever the *)
(* order of subscriptions, refusals, disconnects and replays (the by_key   *)
(* index of subscription.rs).                                              *)
THEOREM RoutingCorrect == RegistrySpec => []IndexMatches
<1>1. RegistrySound /\ [RegistryNext]_registryVars => RegistrySound'
  <2> SUFFICES ASSUME RegistrySound, [RegistryNext]_registryVars PROVE RegistrySound'
    OBVIOUS
  <2>1. CASE \E id \in Ids \ Remembered, key \in StreamKeys : Insert(id, key)
    BY <2>1, InsertStep
  <2>2. CASE \E id \in Ids : MarkReady(id) \/ Remove(id)
    BY <2>2, MarkReadyStep, RemoveStep
  <2>3. CASE \E old \in Ids, new \in Ids \ Remembered : Rekey(old, new)
    BY <2>3, RekeyStep
  <2>4. CASE ConnectionLost
    BY <2>4, StatesStep DEF ConnectionLost, SubStates
  <2>5. CASE MarkReplayed
    BY <2>5, StatesStep DEF MarkReplayed, SubStates
  <2>6. CASE UNCHANGED registryVars
    BY <2>6 DEF registryVars, RegistrySound, RegistryTypeOK, IndexMatches, Remembered
  <2> QED BY <2>1, <2>2, <2>3, <2>4, <2>5, <2>6 DEF RegistryNext
<1>2. RegistrySound => IndexMatches
  BY DEF RegistrySound
<1> QED BY <1>1, <1>2, RegistryInitSound, PTL DEF RegistrySpec

-----------------------------------------------------------------------------
(* What each group of actions touches.                                     *)

(* The ring keeps its bound, and forgets a Resubscribe only on the record. *)
LEMMA EmitStep ==
  ASSUME ring \in Seq(Events), NEW events \in Seq(Events), Emit(events)
  PROVE  /\ ring' \in Seq(Events) /\ Len(ring') <= EventCapacity
         /\ missed' \in BOOLEAN /\ overwritten' \in BOOLEAN
         /\ ~ overwritten' => ~ overwritten \/ Announced'
         /\ ~ overwritten' /\ Announced => Announced'
         /\ events # <<>> /\ events[Len(events)].kind = "Resubscribe" => Announced'
<1> DEFINE concat == ring \o events
           over   == IF Len(concat) > EventCapacity THEN Len(concat) - EventCapacity ELSE 0
<1>1. PICK all \in Seq(Events), lost \in Nat : all = concat /\ lost = over
  <2>1. concat \in Seq(Events)
    BY ConcatProperties
  <2>2. Len(concat) \in Nat
    BY <2>1
  <2>3. over \in Nat
    BY <2>2, ClientAssumption
  <2> QED BY <2>1, <2>3
<1>2. /\ Len(all) \in Nat /\ Len(ring) \in Nat /\ Len(events) \in Nat
      /\ Len(all) = Len(ring) + Len(events)
      /\ \A i \in 1..Len(ring) : all[i] = ring[i]
      /\ events # <<>> => Len(events) > 0 /\ all[Len(all)] = events[Len(events)]
  <2>1. Len(all) = Len(ring) + Len(events)
    BY <1>1
  <2>2. \A i \in 1..Len(ring) : all[i] = ring[i]
    BY <1>1
  <2>3. ASSUME events # <<>> PROVE Len(events) > 0 /\ all[Len(all)] = events[Len(events)]
    <3>1. Len(events) > 0
      BY <2>3
    <3>2. all[Len(ring) + Len(events)] = events[Len(events)]
      BY <1>1, <3>1
    <3> QED BY <2>1, <3>1, <3>2
  <2> QED BY <1>1, <2>1, <2>2, <2>3
<1>3. /\ lost <= Len(all) /\ Len(all) - lost <= EventCapacity
      /\ Len(all) > 0 => lost < Len(all)
  BY <1>1, <1>2, ClientAssumption
<1>4. /\ ring' = SubSeq(all, lost + 1, Len(all))
      /\ missed' = (missed \/ lost > 0)
  BY <1>1 DEF Emit
<1>5. overwritten' = /\ overwritten \/ (\E i \in 1..lost : all[i].kind = "Resubscribe")
                     /\ ~ (\E i \in (lost + 1)..Len(all) : all[i].kind = "Resubscribe")
  BY <1>1, Zenon DEF Emit
<1>6. /\ ring' \in Seq(Events)
      /\ Len(ring') = Len(all) - lost
      /\ \A i \in 1..(Len(all) - lost) : ring'[i] = all[lost + i]
  BY <1>2, <1>3, <1>4, SubSeqProperties
<1>7. ASSUME NEW i \in (lost + 1)..Len(all), all[i].kind = "Resubscribe"
      PROVE  Announced'
  <2>1. i - lost \in 1..Len(ring') /\ ring'[i - lost] = all[i]
    BY <1>2, <1>6
  <2> QED BY <1>7, <2>1 DEF Announced
<1>8. ASSUME ~ overwritten', Announced PROVE Announced'
  <2>1. PICK n \in 1..Len(ring) : ring[n].kind = "Resubscribe"
    BY <1>8 DEF Announced
  <2>2. n \in 1..Len(all) /\ all[n].kind = "Resubscribe"
    BY <1>2, <2>1
  <2>3. CASE n \in 1..lost
    <3>1. \E i \in (lost + 1)..Len(all) : all[i].kind = "Resubscribe"
      BY <1>5, <1>8, <2>2, <2>3, Zenon
    <3> QED BY <1>7, <3>1
  <2>4. CASE n \in (lost + 1)..Len(all)
    BY <1>7, <2>2, <2>4
  <2> QED BY <1>2, <2>2, <2>3, <2>4
<1>9. ASSUME ~ overwritten' PROVE ~ overwritten \/ Announced'
  BY <1>5, <1>7, <1>9, Zenon
<1>10. ASSUME events # <<>>, events[Len(events)].kind = "Resubscribe" PROVE Announced'
  <2>1. Len(all) \in (lost + 1)..Len(all) /\ all[Len(all)].kind = "Resubscribe"
    BY <1>2, <1>3, <1>10
  <2> QED BY <1>7, <2>1
<1>11. missed' \in BOOLEAN /\ overwritten' \in BOOLEAN
  BY <1>4, <1>5
<1> QED BY <1>3, <1>6, <1>8, <1>9, <1>10, <1>11, Zenon

(* A request is left as it is, or settled as lost.                         *)
OnlySettled(a) ==
  \/ request'[a] = request[a]
  \/ /\ request[a].at \in {"channel", "registered"}
     /\ request'[a] = [request[a] EXCEPT !.at = "lost"]

LEMMA SettleStep ==
  ASSUME request \in [Askers -> Requests],
         NEW places \in SUBSET {"channel", "registered"}, Settle(places)
  PROVE  /\ request' \in [Askers -> Requests] /\ UNCHANGED nextId
         /\ \A a \in Askers : OnlySettled(a)
<1>1. \A a \in Askers : [request[a] EXCEPT !.at = "lost"] \in Requests
  BY DEF Requests
<1> QED BY <1>1 DEF Settle, OnlySettled

(* The connection moves only its own state, and loses requests with it; a  *)
(* session that becomes or stays Ready does so by a login or a frame.      *)
LEMMA LinkMoves ==
  ASSUME TypeOK, LinkNext
  PROVE  /\ UNCHANGED <<registryVars, task, supervisorVars, appVars, late, ended, nextId>>
         /\ request' \in [Askers -> Requests]
         /\ \A a \in Askers : OnlySettled(a)
         /\ epoch' \in 0..MaxEpoch
         /\ live' \subseteq Ids
         /\ ring' \in Seq(Events) /\ Len(ring') <= EventCapacity
         /\ missed' \in BOOLEAN /\ overwritten' \in BOOLEAN
         /\ \/ state' # "Ready"
            \/ LoggedIn
            \/ StreamFrame
<1>1. /\ ring \in Seq(Events) /\ Len(ring) <= EventCapacity
      /\ missed \in BOOLEAN /\ overwritten \in BOOLEAN
      /\ request \in [Askers -> Requests]
      /\ epoch \in 0..MaxEpoch /\ MaxEpoch \in Nat
      /\ live \subseteq Ids
  BY ClientAssumption DEF TypeOK
<1> DEFINE RingOK == /\ ring' \in Seq(Events) /\ Len(ring') <= EventCapacity
                     /\ missed' \in BOOLEAN /\ overwritten' \in BOOLEAN
           RequestsOK == /\ request' \in [Askers -> Requests] /\ UNCHANGED nextId
                         /\ \A a \in Askers : OnlySettled(a)
<1>2. /\ <<Pass>> \in Seq(Events) /\ <<Disconnected>> \in Seq(Events)
      /\ <<FatalEvent>> \in Seq(Events)
      /\ <<Pass, Resubscribe(epoch)>> \in Seq(Events)
  <2>1. Pass \in Events /\ Disconnected \in Events /\ FatalEvent \in Events
        /\ Resubscribe(epoch) \in Events
    BY <1>1 DEF Events
  <2> QED BY <2>1
<1>3. ASSUME Quietly PROVE RingOK
  BY <1>1, <1>3 DEF Quietly, ringVars
<1>4. ASSUME NEW events \in Seq(Events), Emit(events) PROVE RingOK
  BY <1>1, <1>4, EmitStep
<1>5. ASSUME UNCHANGED requestVars PROVE RequestsOK
  BY <1>1, <1>5 DEF requestVars, OnlySettled
<1>6. ASSUME Settle({"registered"}) \/ Settle({"channel", "registered"}) PROVE RequestsOK
  BY <1>1, <1>6, SettleStep
<1> HIDE DEF RingOK, RequestsOK
<1>7. CASE Attempt
  <2>1. RingOK
    BY <1>2, <1>4, <1>7 DEF Attempt
  <2>2. RequestsOK
    BY <1>5, <1>7 DEF Attempt, requestVars
  <2> QED BY <1>1, <1>7, <2>1, <2>2
          DEF Attempt, Link!Attempt, OthersUnchanged, RingOK, RequestsOK
<1>8. CASE Opened
  <2>1. RingOK
    BY <1>3, <1>8 DEF Opened
  <2>2. RequestsOK
    BY <1>5, <1>8 DEF Opened, requestVars
  <2> QED BY <1>1, <1>8, <2>1, <2>2
          DEF Opened, Link!Opened, OthersUnchanged, RingOK, RequestsOK
<1>9. CASE Greeted
  <2>1. RingOK
    BY <1>2, <1>4, <1>9 DEF Greeted
  <2>2. RequestsOK
    BY <1>5, <1>9 DEF Greeted, requestVars
  <2> QED BY <1>1, <1>9, <2>1, <2>2
          DEF Greeted, Link!Greeted, OthersUnchanged, RingOK, RequestsOK
<1>10. CASE LoggedIn
  <2>1. RingOK
    BY <1>2, <1>4, <1>10 DEF LoggedIn
  <2>2. RequestsOK
    BY <1>5, <1>10 DEF LoggedIn, requestVars
  <2>3. /\ UNCHANGED <<epoch, live>>
        /\ UNCHANGED <<registryVars, task, supervisorVars, appVars, late, ended>>
    BY <1>10 DEF LoggedIn, OthersUnchanged
  <2> QED BY <1>1, <1>10, <2>1, <2>2, <2>3 DEF RingOK, RequestsOK
<1>11. CASE Lost
  <2>1. RingOK
    BY <1>2, <1>4, <1>11 DEF Lost
  <2>2. RequestsOK
    BY <1>6, <1>11 DEF Lost
  <2> QED BY <1>1, <1>11, <2>1, <2>2
          DEF Lost, Link!Lost, OthersUnchanged, RingOK, RequestsOK
<1>12. CASE LoginRefused
  <2>1. RingOK
    BY <1>3, <1>12 DEF LoginRefused
  <2>2. RequestsOK
    BY <1>6, <1>12 DEF LoginRefused
  <2> QED BY <1>1, <1>12, <2>1, <2>2
          DEF LoginRefused, Link!Refused, OthersUnchanged, RingOK, RequestsOK
<1>13. CASE Report
  <2>1. RingOK
    BY <1>2, <1>4, <1>13 DEF Report
  <2>2. RequestsOK
    BY <1>6, <1>13 DEF Report
  <2> QED BY <1>1, <1>13, <2>1, <2>2
          DEF Report, Link!Report, OthersUnchanged, RingOK, RequestsOK
<1>14. CASE Stop
  <2>1. RingOK
    BY <1>3, <1>14 DEF Stop
  <2>2. RequestsOK
    BY <1>6, <1>14 DEF Stop
  <2> QED BY <1>1, <1>14, <2>1, <2>2
          DEF Stop, Link!Close, OthersUnchanged, RingOK, RequestsOK
<1>15. CASE StreamFrame
  <2>1. RingOK
    BY <1>2, <1>4, <1>15 DEF StreamFrame
  <2>2. RequestsOK
    BY <1>5, <1>15 DEF StreamFrame, requestVars
  <2>3. /\ UNCHANGED <<epoch, live>>
        /\ UNCHANGED <<registryVars, task, supervisorVars, appVars, late, ended>>
    BY <1>15 DEF StreamFrame, OthersUnchanged
  <2> QED BY <1>1, <1>15, <2>1, <2>2, <2>3 DEF RingOK, RequestsOK
<1> QED
  BY <1>7, <1>8, <1>9, <1>10, <1>11, <1>12, <1>13, <1>14, <1>15 DEF LinkNext

(* What is left of Next keeps the registry, the requests and the tasks.    *)
QuietNext ==
  \/ Receive \/ ReceiveLagged \/ ReceiveEnd \/ Snapshot \/ ReplayDone
  \/ Deliver \/ DeliverFails
  \/ AppNext
  \/ UNCHANGED clientVars

LEMMA QuietMoves ==
  ASSUME QuietNext
  PROVE  UNCHANGED <<registryVars, linkVars, requestVars, task>>
BY DEF QuietNext, Receive, ReceiveLagged, ReceiveEnd, Snapshot, ReplayDone, Deliver, DeliverFails,
       AppNext, ConsumeEvent, DropEvents, clientVars

(* The cases of a step.                                                    *)
LEMMA NextCases ==
  ASSUME [Next]_clientVars
  PROVE  \/ LinkNext
         \/ \E a \in Askers : Register(a) \/ Accepted(a) \/ Ended(a) \/ Refused(a)
         \/ \E key \in StreamKeys : Subscribe(key) \/ Remember(key) \/ SubscribeFails(key)
         \/ MarkLost \/ ReplayAsk \/ ReplayRestored \/ ReplayFailed
         \/ QuietNext
BY Zenon DEF Next, RequestNext, TaskNext, SupervisorNext, QuietNext

-----------------------------------------------------------------------------
(* Types.                                                                  *)

LEMMA TypeInit == Init => TypeOK
<1> SUFFICES ASSUME Init PROVE TypeOK
  OBVIOUS
<1>1. RegistryTypeOK
  BY RegistryInitSound DEF Init, RegistrySound
<1>2. NoRequest \in Requests
  BY DEF NoRequest, Requests, NoId
<1>3. Pass \in Events /\ ring \in Seq(Events) /\ Len(ring) <= EventCapacity
  BY ClientAssumption DEF Init, Events
<1>4. request \in [Askers -> Requests] /\ task \in [StreamKeys -> TaskStates]
  BY <1>2 DEF Init, TaskStates
<1>5. epoch \in 0..MaxEpoch /\ nextId \in Nat /\ backlog \in 0..EventCapacity
  BY ClientAssumption DEF Init
<1> QED
  BY <1>1, <1>3, <1>4, <1>5 DEF Init, TypeOK, SupervisorStates

LEMMA TypeStep ==
  ASSUME TypeOK, IdsFresh, RegistryTypeOK', [Next]_clientVars
  PROVE  TypeOK'
<1> USE DEF TypeOK
<1>0. /\ \A a \in Askers : request[a] \in Requests
      /\ nextId \in Nat /\ EventCapacity \in Nat
      /\ Supervisor \in Askers /\ StreamKeys \subseteq Askers
  BY ClientAssumption DEF Askers
<1>1. CASE LinkNext
  BY <1>1, LinkMoves DEF supervisorVars, appVars
<1>2. ASSUME NEW a \in Askers, Register(a) \/ Accepted(a) \/ Ended(a) \/ Refused(a)
      PROVE  TypeOK'
  <2>1. ASSUME Register(a) PROVE TypeOK'
    <3>1. [at |-> "registered", id |-> nextId] \in Requests
      BY <2>1 DEF Register, Requests
    <3> QED BY <1>0, <2>1, <3>1 DEF Register, linkVars, ringVars, supervisorVars, appVars
  <2>2. \A at \in {"ok", "refused"} : [request[a] EXCEPT !.at = at] \in Requests
    BY <1>0 DEF Requests
  <2>3. request[a].at = "registered" => request[a].id \in Ids
    BY DEF IdsFresh
  <2>4. ASSUME Accepted(a) PROVE TypeOK'
    BY <1>0, <2>2, <2>3, <2>4 DEF Accepted, linkVars, ringVars, supervisorVars, appVars
  <2>5. ASSUME Ended(a) PROVE TypeOK'
    BY <1>0, <2>2, <2>3, <2>5 DEF Ended, linkVars, ringVars, supervisorVars, appVars
  <2>6. ASSUME Refused(a) PROVE TypeOK'
    BY <1>0, <2>2, <2>6 DEF Refused, linkVars, ringVars, supervisorVars, appVars
  <2> QED BY <1>2, <2>1, <2>4, <2>5, <2>6
<1>3. ASSUME NEW a \in Askers, Ask(a)
      PROVE  request' \in [Askers -> Requests] /\ UNCHANGED nextId
  BY <1>3 DEF Ask, Requests
<1>4. ASSUME NEW key \in StreamKeys, Subscribe(key) \/ Remember(key) \/ SubscribeFails(key)
      PROVE  TypeOK'
  <2>1. ASSUME Subscribe(key) PROVE TypeOK'
    BY <1>0, <1>3, <2>1
       DEF Subscribe, linkVars, ringVars, supervisorVars, appVars, TaskStates
  <2>2. ASSUME Remember(key) PROVE TypeOK'
    <3>1. request[key].id \in Ids
      BY <1>0, <2>2 DEF Remember, IdsFresh
    <3> QED BY <1>0, <2>2, <3>1
            DEF Remember, requestVars, ringVars, supervisorVars, appVars, TaskStates
  <2>3. ASSUME SubscribeFails(key) PROVE TypeOK'
    BY <1>0, <2>3
       DEF SubscribeFails, linkVars, requestVars, ringVars, supervisorVars, appVars, TaskStates
  <2> QED BY <1>4, <2>1, <2>2, <2>3
<1>5. CASE MarkLost
  BY <1>5 DEF MarkLost, linkVars, requestVars, ringVars, appVars, SupervisorStates
<1>6. CASE ReplayAsk
  BY <1>0, <1>3, <1>6 DEF ReplayAsk, linkVars, ringVars, supervisorVars, appVars
<1>7. NoRequest \in Requests
  BY DEF NoRequest, Requests, NoId
<1>8. CASE ReplayRestored \/ ReplayFailed
  BY <1>0, <1>7, <1>8 DEF ReplayRestored, ReplayFailed, linkVars, ringVars, appVars
<1>9. CASE QuietNext
  <2>1. UNCHANGED <<registryVars, linkVars, requestVars, task>>
    BY <1>9, QuietMoves
  <2>2. ASSUME Receive PROVE TypeOK'
    <3>1. Head(ring) \in Events /\ Tail(ring) \in Seq(Events) /\ Len(Tail(ring)) <= EventCapacity
      BY <1>0, <2>2, HeadTailProperties DEF Receive
    <3>2. Arm(Head(ring)) \in SupervisorStates
      BY DEF Arm, SupervisorStates
    <3> QED BY <2>1, <2>2, <3>1, <3>2 DEF Receive, linkVars, requestVars, appVars
  <2>3. ASSUME ReceiveLagged \/ ReceiveEnd PROVE TypeOK'
    <3>1. Pass \in Events
      BY DEF Events
    <3> QED BY <2>1, <2>3, <3>1
            DEF ReceiveLagged, ReceiveEnd, linkVars, requestVars, ringVars, appVars, SupervisorStates
  <2>4. ASSUME Snapshot \/ ReplayDone PROVE TypeOK'
    BY <2>1, <2>4
       DEF Snapshot, ReplayDone, linkVars, requestVars, ringVars, appVars, SupervisorStates,
           RegistryTypeOK
  <2>5. ASSUME Deliver \/ DeliverFails PROVE TypeOK'
    BY <1>0, <2>1, <2>5
       DEF Deliver, DeliverFails, linkVars, requestVars, ringVars, appVars, SupervisorStates
  <2>6. ASSUME AppNext PROVE TypeOK'
    <3>0. backlog \in 0..EventCapacity
      OBVIOUS
    <3>1. backlog' \in 0..EventCapacity
      BY <1>0, <2>6, <3>0 DEF AppNext, ConsumeEvent, DropEvents
    <3>3. listening' \in BOOLEAN
      BY <2>6, Zenon DEF AppNext, ConsumeEvent, DropEvents
    <3>2. UNCHANGED <<ringVars, supervisorVars>>
      BY <2>6 DEF AppNext, ConsumeEvent, DropEvents
    <3> QED BY <2>1, <3>1, <3>2, <3>3 DEF linkVars, requestVars, ringVars, supervisorVars
  <2>7. ASSUME UNCHANGED clientVars PROVE TypeOK'
    BY <2>7 DEF clientVars, linkVars, requestVars, ringVars, supervisorVars, appVars
  <2> QED BY <1>9, <2>2, <2>3, <2>4, <2>5, <2>6, <2>7 DEF QuietNext
<1> QED BY <1>1, <1>2, <1>4, <1>5, <1>6, <1>8, <1>9, NextCases

-----------------------------------------------------------------------------
(* The registry.                                                           *)

(* The steps that touch the registry, and what no step does to a task.     *)
LEMMA RegistryMoves ==
  ASSUME TypeOK, [Next]_clientVars
  PROVE  /\ \/ UNCHANGED registryVars
            \/ MarkLost \/ ReplayRestored \/ ReplayFailed
            \/ \E key \in StreamKeys : Remember(key)
         /\ \A k \in StreamKeys : task[k] = "subscribed" => task'[k] = "subscribed"
<1> DEFINE Kept == \A k \in StreamKeys : task[k] = "subscribed" => task'[k] = "subscribed"
<1>1. CASE LinkNext
  BY <1>1, LinkMoves
<1>2. ASSUME NEW a \in Askers, Register(a) \/ Accepted(a) \/ Ended(a) \/ Refused(a)
      PROVE  UNCHANGED <<registryVars, task>>
  BY <1>2 DEF Register, Accepted, Ended, Refused
<1>3. ASSUME NEW key \in StreamKeys, Subscribe(key) \/ SubscribeFails(key)
      PROVE  UNCHANGED registryVars /\ Kept
  BY <1>3 DEF Subscribe, SubscribeFails, TypeOK
<1>4. ASSUME NEW key \in StreamKeys, Remember(key) PROVE Kept
  BY <1>4 DEF Remember, TypeOK
<1>5. ASSUME MarkLost \/ ReplayAsk \/ ReplayRestored \/ ReplayFailed PROVE UNCHANGED task
  BY <1>5 DEF MarkLost, ReplayAsk, ReplayRestored, ReplayFailed
<1>6. CASE ReplayAsk
  BY <1>5, <1>6 DEF ReplayAsk
<1>7. CASE QuietNext
  BY <1>7, QuietMoves
<1> QED BY <1>1, <1>2, <1>3, <1>4, <1>5, <1>6, <1>7, NextCases

(* The answer a task or the replay is about to take is fresh.              *)
LEMMA AnswerFresh ==
  ASSUME IdsFresh, NEW a \in Askers, request[a].at = "ok",
         a = Supervisor \/ task[a] = "asking"
  PROVE  request[a].id \in Ids /\ request[a].id \notin Remembered
BY DEF IdsFresh, Underway

LEMMA RegistryStep ==
  ASSUME TypeOK, IndexMatches, IdsFresh, [Next]_clientVars
  PROVE  RegistrySound'
<1>0. RegistrySound /\ Supervisor \in Askers /\ StreamKeys \subseteq Askers
  BY DEF TypeOK, RegistrySound, Askers
<1>1. CASE UNCHANGED registryVars
  BY <1>0, <1>1
     DEF registryVars, RegistrySound, RegistryTypeOK, IndexMatches, Remembered
<1>2. CASE MarkLost
  BY <1>0, <1>2, StatesStep DEF MarkLost, ConnectionLost, SubStates
<1>3. CASE ReplayRestored
  <2>1. request[Supervisor].at = "ok" /\ Rekey(NextOld, request[Supervisor].id)
    BY <1>3 DEF ReplayRestored
  <2> QED BY <1>0, <2>1, AnswerFresh, RekeyStep
<1>4. CASE ReplayFailed
  BY <1>0, <1>4, RemoveStep DEF ReplayFailed
<1>5. ASSUME NEW key \in StreamKeys, Remember(key) PROVE RegistrySound'
  <2>1. /\ request[key].at = "ok" /\ task[key] = "asking"
        /\ Insert(request[key].id, key)
    BY <1>5 DEF Remember
  <2> QED BY <1>0, <2>1, AnswerFresh, InsertStep
<1> QED BY <1>1, <1>2, <1>3, <1>4, <1>5, RegistryMoves

LEMMA EntriesStep ==
  ASSUME TypeOK, EntriesOnce, [Next]_clientVars
  PROVE  EntriesOnce'
<1>0. /\ byId \in [Remembered -> RegistryEntries]
      /\ \A i \in Remembered : byId[i].key \in StreamKeys
      /\ \A k \in StreamKeys : task[k] = "subscribed" => task'[k] = "subscribed"
  BY RegistryMoves DEF TypeOK, RegistryTypeOK, RegistryEntries
<1>1. ASSUME Remembered' \subseteq Remembered,
             \A i \in Remembered' : byId'[i].key = byId[i].key
      PROVE  EntriesOnce'
  BY <1>0, <1>1 DEF EntriesOnce, Remembered
<1>2. CASE UNCHANGED registryVars
  BY <1>1, <1>2 DEF registryVars, Remembered
<1>3. CASE MarkLost
  <2>1. byId' = [i \in Remembered |-> [byId[i] EXCEPT !.state = "Inactive"]]
    BY <1>3 DEF MarkLost, ConnectionLost
  <2>2. \A i \in Remembered : [byId[i] EXCEPT !.state = "Inactive"].key = byId[i].key
    BY <1>0 DEF RegistryEntries
  <2> QED BY <1>1, <2>1, <2>2 DEF Remembered
<1>4. CASE ReplayFailed
  BY <1>1, <1>4 DEF ReplayFailed, Remove, Remembered
<1>5. CASE ReplayRestored
  <2>1. PICK old, new : old = NextOld /\ new = request[Supervisor].id
    OBVIOUS
  <2>2. Rekey(old, new)
    BY <1>5, <2>1 DEF ReplayRestored
  <2>3. CASE old \notin Remembered
    BY <1>2, <2>2, <2>3 DEF Rekey
  <2>4. CASE old \in Remembered
    <3>1. byId' = [i \in (Remembered \ {old}) \cup {new} |->
                     IF i = new THEN [byId[old] EXCEPT !.state = "Pending"] ELSE byId[i]]
      BY <2>2, <2>4 DEF Rekey
    <3>2. [byId[old] EXCEPT !.state = "Pending"].key = byId[old].key
      BY <1>0, <2>4 DEF RegistryEntries
    <3>3. /\ Remembered' = (Remembered \ {old}) \cup {new}
          /\ byId'[new].key = byId[old].key
          /\ \A i \in Remembered' : i # new => i \in Remembered \ {old} /\ byId'[i] = byId[i]
      BY <3>1, <3>2 DEF Remembered
    <3>4. \A i, j \in Remembered' : byId'[i].key = byId'[j].key => i = j
      BY <2>4, <3>3 DEF EntriesOnce
    <3>5. \A i \in Remembered' : task'[byId'[i].key] = "subscribed"
      BY <1>0, <2>4, <3>3 DEF EntriesOnce
    <3> QED BY <3>4, <3>5 DEF EntriesOnce, Remembered
  <2> QED BY <2>3, <2>4
<1>6. ASSUME NEW key \in StreamKeys, Remember(key) PROVE EntriesOnce'
  <2>1. PICK id : id = request[key].id
    OBVIOUS
  <2>2. /\ task[key] = "asking" /\ task'[key] = "subscribed"
        /\ byId' = [i \in Remembered \cup {id} |->
                      IF i = id THEN [key |-> key, state |-> "Pending"] ELSE byId[i]]
    BY <1>6, <2>1 DEF Remember, Insert, TypeOK
  <2>3. /\ Remembered' = Remembered \cup {id}
        /\ byId'[id].key = key
        /\ \A i \in Remembered' : i # id => i \in Remembered /\ byId'[i] = byId[i]
    BY <2>2 DEF Remembered
  <2>4. \A i \in Remembered : byId[i].key # key
    BY <2>2 DEF EntriesOnce
  <2>5. \A i, j \in Remembered' : byId'[i].key = byId'[j].key => i = j
    BY <2>3, <2>4 DEF EntriesOnce
  <2>6. \A i \in Remembered' : task'[byId'[i].key] = "subscribed"
    BY <1>0, <2>2, <2>3 DEF EntriesOnce
  <2> QED BY <2>5, <2>6 DEF EntriesOnce, Remembered
<1> QED BY <1>2, <1>3, <1>4, <1>5, <1>6, RegistryMoves

(* Fresh ids stay fresh: the runner hands out each once, and what is given *)
(* to the registry was underway for one asker only.                        *)
LEMMA IdsStep ==
  ASSUME TypeOK, IdsFresh, [Next]_clientVars
  PROVE  IdsFresh'
<1>0. /\ nextId \in Nat /\ Ids \subseteq Nat /\ Remembered \subseteq Ids
      /\ request \in [Askers -> Requests]
      /\ Supervisor \in Askers /\ StreamKeys \subseteq Askers /\ Supervisor \notin StreamKeys
      /\ task \in [StreamKeys -> TaskStates]
  BY ClientAssumption DEF TypeOK, RegistryTypeOK, Askers
(* Nothing is handed out or remembered.                                    *)
<1>1. ASSUME Remembered' \subseteq Remembered, UNCHANGED nextId,
             \A a \in Askers :
               /\ request'[a].at \in {"registered", "ok"} =>
                    request[a].at \in {"registered", "ok"} /\ request'[a].id = request[a].id
               /\ Underway(a)' => Underway(a)
      PROVE  IdsFresh'
  BY <1>1 DEF IdsFresh, Underway, Remembered
<1>2. ASSUME Remembered' \subseteq Remembered, UNCHANGED <<nextId, request, task>>
      PROVE  IdsFresh'
  BY <1>1, <1>2 DEF Underway
<1>3. CASE LinkNext
  <2>1. /\ UNCHANGED <<registryVars, nextId, task>>
        /\ \A a \in Askers : OnlySettled(a)
    BY <1>3, LinkMoves
  <2>2. \A a \in Askers : [request[a] EXCEPT !.at = "lost"].at = "lost"
    BY <1>0 DEF Requests
  <2> QED BY <1>1, <2>1, <2>2 DEF OnlySettled, Underway, registryVars, Remembered
<1>4. ASSUME NEW a \in Askers, Register(a) PROVE IdsFresh'
  <2>1. /\ request[a].at = "channel" /\ nextId \in Ids /\ nextId' = nextId + 1
        /\ UNCHANGED <<byId, task>>
        /\ request' = [request EXCEPT ![a] = [at |-> "registered", id |-> nextId]]
    BY <1>4 DEF Register, registryVars
  <2>2. /\ request'[a].id = nextId
        /\ \A b \in Askers : b # a => request'[b] = request[b]
        /\ \A b \in Askers : b # a /\ Underway(b)' => Underway(b)
    BY <1>0, <2>1 DEF Underway
  <2>3. /\ nextId \notin Remembered
        /\ \A b \in Askers : Underway(b) => request[b].id < nextId /\ request[b].id \in Ids
    BY <1>0 DEF IdsFresh, Underway
  <2>4. Remembered' = Remembered
    BY <2>1 DEF Remembered
  <2>5. \A i \in Remembered : i < nextId'
    BY <1>0, <2>1 DEF IdsFresh
  <2>6. \A b \in Askers : request'[b].at \in {"registered", "ok"} => request'[b].id \in Ids
    BY <2>1, <2>2 DEF IdsFresh
  <2>7. \A b \in Askers : Underway(b)' => request'[b].id < nextId' /\ request'[b].id \notin Remembered
    <3>1. ASSUME NEW b \in Askers, Underway(b)', b # a
          PROVE  request'[b].id < nextId' /\ request'[b].id \notin Remembered
      <4>1. /\ Underway(b) /\ request'[b] = request[b]
            /\ request[b].id < nextId /\ request[b].id \in Nat
        BY <1>0, <2>2, <2>3, <3>1
      <4> QED BY <1>0, <2>1, <4>1 DEF IdsFresh
    <3>2. request'[a].id < nextId' /\ request'[a].id \notin Remembered
      BY <1>0, <2>1, <2>2, <2>3
    <3> QED BY <3>1, <3>2
  <2>8. \A b, c \in Askers :
          Underway(b)' /\ Underway(c)' /\ request'[b].id = request'[c].id => b = c
    <3>1. \A b \in Askers : b # a /\ Underway(b)' => request'[b].id # request'[a].id
      BY <1>0, <2>2, <2>3
    <3> QED BY <2>2, <3>1 DEF IdsFresh
  <2> QED BY <2>4, <2>5, <2>6, <2>7, <2>8 DEF IdsFresh, Remembered
<1>5. ASSUME NEW a \in Askers, Accepted(a) \/ Ended(a) \/ Refused(a) PROVE IdsFresh'
  <2>1. /\ UNCHANGED <<registryVars, nextId, task>> /\ request[a].at = "registered"
        /\ \E at \in {"ok", "refused"} : request' = [request EXCEPT ![a].at = at]
    BY <1>5 DEF Accepted, Ended, Refused
  <2>2. /\ request'[a].id = request[a].id
        /\ \A b \in Askers : b # a => request'[b] = request[b]
    BY <1>0, <2>1 DEF Requests
  <2> QED BY <1>1, <2>1, <2>2 DEF Underway, registryVars, Remembered
<1>6. ASSUME NEW key \in StreamKeys, Subscribe(key) PROVE IdsFresh'
  <2>1. /\ UNCHANGED <<registryVars, nextId>>
        /\ task' = [task EXCEPT ![key] = "asking"]
        /\ request' = [request EXCEPT ![key] = [at |-> IF Stopped THEN "lost" ELSE "channel",
                                                id |-> NoId]]
    BY <1>6 DEF Subscribe, Ask
  <2>2. /\ request'[key].at \notin {"registered", "ok"}
        /\ \A b \in Askers : b # key => request'[b] = request[b]
        /\ \A k \in StreamKeys : k # key => task'[k] = task[k]
    BY <1>0, <2>1
  <2>3. \A b \in Askers : Underway(b)' => Underway(b)
    BY <1>0, <2>2 DEF Underway, Askers
  <2> QED BY <1>1, <2>1, <2>2, <2>3 DEF registryVars, Remembered
<1>7. ASSUME NEW key \in StreamKeys, SubscribeFails(key) PROVE IdsFresh'
  <2>1. /\ UNCHANGED <<registryVars, nextId, request>>
        /\ request[key].at \in {"refused", "lost"}
        /\ \A k \in StreamKeys : k # key => task'[k] = task[k]
    BY <1>0, <1>7 DEF SubscribeFails, requestVars
  <2> QED BY <1>0, <1>1, <2>1 DEF Underway, Askers, registryVars, Remembered
<1>8. ASSUME NEW key \in StreamKeys, Remember(key) PROVE IdsFresh'
  <2>1. /\ UNCHANGED <<nextId, request>>
        /\ Underway(key)
        /\ Remembered' = Remembered \cup {request[key].id}
        /\ task'[key] = "subscribed"
        /\ \A k \in StreamKeys : k # key => task'[k] = task[k]
    BY <1>0, <1>8 DEF Remember, requestVars, Insert, Remembered, Underway
  <2>2. \A b \in Askers : Underway(b)' => Underway(b) /\ b # key
    BY <1>0, <2>1 DEF Underway, Askers
  <2> QED BY <1>0, <2>1, <2>2 DEF IdsFresh, Remembered
<1>9. CASE MarkLost
  BY <1>2, <1>9 DEF MarkLost, ConnectionLost, requestVars, Remembered
<1>10. CASE ReplayAsk
  <2>1. /\ UNCHANGED <<registryVars, nextId, task>>
        /\ request' = [request EXCEPT ![Supervisor] =
                         [at |-> IF Stopped THEN "lost" ELSE "channel", id |-> NoId]]
    BY <1>10 DEF ReplayAsk, Ask
  <2>2. /\ request'[Supervisor].at \notin {"registered", "ok"}
        /\ \A b \in Askers : b # Supervisor => request'[b] = request[b]
    BY <1>0, <2>1
  <2> QED BY <1>1, <2>1, <2>2 DEF Underway, registryVars, Remembered
<1>11. ASSUME request' = [request EXCEPT ![Supervisor] = NoRequest]
       PROVE  /\ ~ Underway(Supervisor)' /\ request'[Supervisor].at = "none"
              /\ \A b \in Askers : b # Supervisor => request'[b] = request[b]
  BY <1>0, <1>11 DEF NoRequest, Underway
<1>12. CASE ReplayFailed
  <2>1. /\ Remembered' \subseteq Remembered /\ UNCHANGED <<nextId, task>>
        /\ request' = [request EXCEPT ![Supervisor] = NoRequest]
    BY <1>12 DEF ReplayFailed, Remove, Remembered
  <2> QED BY <1>1, <1>11, <2>1 DEF Underway
<1>13. CASE ReplayRestored
  <2>1. /\ Underway(Supervisor) /\ UNCHANGED <<nextId, task>>
        /\ request' = [request EXCEPT ![Supervisor] = NoRequest]
        /\ Remembered' \subseteq Remembered \cup {request[Supervisor].id}
    BY <1>13 DEF ReplayRestored, Rekey, Remembered, Underway, registryVars
  <2>2. \A b \in Askers : Underway(b)' => Underway(b) /\ b # Supervisor
    BY <1>11, <2>1 DEF Underway
  <2> QED BY <1>0, <1>11, <2>1, <2>2 DEF IdsFresh, Remembered
<1>14. CASE QuietNext
  BY <1>2, <1>14, QuietMoves DEF registryVars, requestVars, Remembered
<1> QED
  BY <1>3, <1>4, <1>5, <1>6, <1>7, <1>8, <1>9, <1>10, <1>12, <1>13, <1>14, NextCases

-----------------------------------------------------------------------------
(* The replay.                                                             *)

(* Only what the replay itself handles leaves the registry while it runs,  *)
(* and nobody but the replay asks for the supervisor.                      *)
LEMMA ReplayStep ==
  ASSUME TypeOK, SnapshotKnown, ReplayAsks, [Next]_clientVars
  PROVE  SnapshotKnown' /\ ReplayAsks'
<1> USE DEF SnapshotKnown, ReplayAsks
<1>0. /\ request \in [Askers -> Requests]
      /\ Supervisor \in Askers /\ StreamKeys \subseteq Askers /\ Supervisor \notin StreamKeys
  BY ClientAssumption DEF TypeOK, Askers
(* Steps the replay has no part in.                                        *)
<1>1. ASSUME Remembered \subseteq Remembered', UNCHANGED <<supervisor, todo>>,
             request'[Supervisor].at # "none" => request[Supervisor].at # "none"
      PROVE  SnapshotKnown' /\ ReplayAsks'
  BY <1>1 DEF Remembered
<1>2. CASE LinkNext
  <2>1. UNCHANGED <<registryVars, supervisorVars>> /\ OnlySettled(Supervisor)
    BY <1>0, <1>2, LinkMoves
  <2> QED BY <1>1, <2>1 DEF OnlySettled, registryVars, supervisorVars, Remembered
<1>3. ASSUME NEW a \in Askers, Register(a) \/ Accepted(a) \/ Ended(a) \/ Refused(a)
      PROVE  SnapshotKnown' /\ ReplayAsks'
  <2>1. /\ UNCHANGED <<registryVars, supervisorVars>> /\ request[a].at # "none"
        /\ \A b \in Askers : b # a => request'[b] = request[b]
    BY <1>0, <1>3 DEF Register, Accepted, Ended, Refused
  <2> QED BY <1>0, <1>1, <2>1 DEF registryVars, supervisorVars, Remembered
<1>4. ASSUME NEW key \in StreamKeys, Subscribe(key) \/ Remember(key) \/ SubscribeFails(key)
      PROVE  SnapshotKnown' /\ ReplayAsks'
  <2>1. UNCHANGED supervisorVars /\ request'[Supervisor] = request[Supervisor]
    BY <1>0, <1>4 DEF Subscribe, Ask, Remember, SubscribeFails, requestVars
  <2>2. Remembered \subseteq Remembered'
    BY <1>4 DEF Subscribe, Remember, SubscribeFails, Insert, registryVars, Remembered
  <2> QED BY <1>1, <2>1, <2>2 DEF supervisorVars
<1>5. CASE MarkLost
  BY <1>5 DEF MarkLost, requestVars
<1>6. CASE ReplayAsk
  BY <1>6 DEF ReplayAsk, registryVars, supervisorVars, Remembered
<1>7. CASE ReplayRestored \/ ReplayFailed
  <2>1. PICK old : old = NextOld
    OBVIOUS
  <2>2. /\ supervisor = "replaying" /\ supervisor' = supervisor
        /\ todo' = todo \ {old}
        /\ request' = [request EXCEPT ![Supervisor] = NoRequest]
        /\ Rekey(old, request[Supervisor].id) \/ Remove(old)
    BY <1>7, <2>1 DEF ReplayRestored, ReplayFailed
  <2>3. Remembered \ {old} \subseteq Remembered'
    BY <2>2 DEF Rekey, Remove, registryVars, Remembered
  <2>4. request'[Supervisor].at = "none"
    BY <1>0, <2>2 DEF NoRequest
  <2> QED BY <2>2, <2>3, <2>4 DEF Remembered
<1>8. CASE QuietNext
  <2>1. UNCHANGED <<registryVars, requestVars>>
    BY <1>8, QuietMoves
  <2>2. ASSUME Receive PROVE supervisor = "recv" /\ supervisor' # "replaying"
    BY <2>2 DEF Receive, Arm
  <2>3. ASSUME ReceiveLagged \/ ReceiveEnd \/ Deliver \/ DeliverFails
        PROVE  supervisor # "replaying" /\ supervisor' # "replaying"
    BY <2>3 DEF ReceiveLagged, ReceiveEnd, Deliver, DeliverFails
  <2>4. ASSUME Snapshot PROVE supervisor = "snapshot" /\ todo' = Remembered
    BY <2>4 DEF Snapshot
  <2>5. ASSUME ReplayDone PROVE todo = {} /\ supervisor' # "replaying"
    BY <2>5 DEF ReplayDone
  <2>6. ASSUME AppNext \/ UNCHANGED clientVars PROVE UNCHANGED supervisorVars
    BY <2>6 DEF AppNext, ConsumeEvent, DropEvents, clientVars
  <2> QED
    BY <1>1, <1>8, <2>1, <2>2, <2>3, <2>4, <2>5, <2>6
       DEF QuietNext, registryVars, requestVars, supervisorVars, Remembered
<1> QED BY <1>2, <1>3, <1>4, <1>5, <1>6, <1>7, <1>8, NextCases

(* A login announces a replay, and the announcement is only lost on the    *)
(* record; a frame changes nothing else.                                   *)
LEMMA LinkCurrent ==
  ASSUME TypeOK, ReplyCurrent, EveryIntentAccounted, LinkNext
  PROVE  ReplyCurrent' /\ EveryIntentAccounted'
<1>1. ring \in Seq(Events) /\ epoch \in 0..MaxEpoch
  BY DEF TypeOK
<1>2. CASE state' # "Ready"
  BY <1>2 DEF ReplyCurrent, EveryIntentAccounted
<1>3. CASE Announced'
  BY <1>3 DEF ReplyCurrent, EveryIntentAccounted, Announced
<1>4. CASE LoggedIn
  <2>1. PICK events : events = <<Pass, Resubscribe(epoch)>>
    OBVIOUS
  <2>2. /\ events \in Seq(Events) /\ events # <<>>
        /\ events[Len(events)].kind = "Resubscribe"
    <3>1. Pass \in Events /\ Resubscribe(epoch) \in Events
      BY <1>1 DEF Events
    <3>2. events[2].kind = "Resubscribe"
      BY <2>1 DEF Resubscribe
    <3> QED BY <2>1, <3>1, <3>2
  <2>3. Emit(events)
    BY <1>4, <2>1 DEF LoggedIn
  <2> QED BY <1>1, <1>3, <2>2, <2>3, EmitStep
<1>5. CASE StreamFrame
  <2>1. <<Pass>> \in Seq(Events) /\ Emit(<<Pass>>)
    BY <1>5 DEF StreamFrame, Events
  <2>2. /\ ~ overwritten' => ~ overwritten \/ Announced'
        /\ ~ overwritten' /\ Announced => Announced'
    BY <1>1, <2>1, EmitStep
  <2>3. UNCHANGED <<state, live, request, registryVars, supervisorVars, late, ended>>
    BY <1>5 DEF StreamFrame, OthersUnchanged, requestVars
  <2>4. CASE overwritten'
    BY <2>4 DEF ReplyCurrent, EveryIntentAccounted
  <2>5. CASE ~ overwritten' /\ ~ Announced'
    <3>1. ~ overwritten /\ ~ Announced
      BY <2>2, <2>5
    <3> QED
      BY <2>3, <3>1
         DEF ReplyCurrent, EveryIntentAccounted, Announced, registryVars, supervisorVars, Remembered
  <2> QED BY <1>3, <2>4, <2>5
<1> QED BY <1>2, <1>4, <1>5, LinkMoves

LEMMA CurrentStep ==
  ASSUME TypeOK, ReplayAsks, ReplyCurrent, EveryIntentAccounted, [Next]_clientVars
  PROVE  ReplyCurrent' /\ EveryIntentAccounted'
<1>0. /\ request \in [Askers -> Requests] /\ ring \in Seq(Events)
      /\ Supervisor \in Askers /\ StreamKeys \subseteq Askers /\ Supervisor \notin StreamKeys
  BY ClientAssumption DEF TypeOK, Askers
<1>1. CASE LinkNext
  BY <1>1, LinkCurrent
(* Steps that neither remember nor stop knowing a subscription.            *)
<1>2. ASSUME Remembered' \subseteq Remembered,
             UNCHANGED <<state, overwritten, ring, late, supervisor, todo>>,
             live \subseteq live', ended \subseteq ended'
      PROVE  EveryIntentAccounted'
  BY <1>2 DEF EveryIntentAccounted, Remembered
<1>3. ASSUME UNCHANGED <<state, overwritten, ring>>,
             live \subseteq live', ended \subseteq ended',
             request'[Supervisor].at = "ok" => request'[Supervisor] = request[Supervisor]
      PROVE  ReplyCurrent'
  BY <1>3 DEF ReplyCurrent, Announced
<1>4. ASSUME NEW a \in Askers, Register(a) \/ Accepted(a) \/ Ended(a) \/ Refused(a)
      PROVE  ReplyCurrent' /\ EveryIntentAccounted'
  <2>1. /\ UNCHANGED <<registryVars, state, overwritten, ringVars, late, supervisorVars>>
        /\ live \subseteq live' /\ ended \subseteq ended'
    BY <1>4 DEF Register, Accepted, Ended, Refused, linkVars
  <2>2. EveryIntentAccounted'
    BY <1>2, <2>1 DEF registryVars, ringVars, supervisorVars, Remembered
  <2>3. CASE Register(a) \/ Refused(a)
    <3>0. /\ request'[a].at \in {"registered", "refused"}
          /\ \A b \in Askers : b # a => request'[b] = request[b]
      BY <1>0, <2>3 DEF Register, Refused, Requests
    <3>1. request'[Supervisor].at = "ok" => request'[Supervisor] = request[Supervisor]
      BY <1>0, <3>0
    <3> QED BY <1>3, <2>1, <2>2, <3>1 DEF ringVars
  <2>4. CASE Accepted(a) \/ Ended(a)
    <3>1. /\ request[a].id \in live' \cup ended'
          /\ request'[a].id = request[a].id
          /\ \A b \in Askers : b # a => request'[b] = request[b]
      BY <1>0, <2>4 DEF Accepted, Ended, Requests
    <3>2. CASE a = Supervisor
      BY <2>2, <3>1, <3>2 DEF ReplyCurrent
    <3>3. CASE a # Supervisor
      BY <1>0, <1>3, <2>1, <2>2, <3>1, <3>3 DEF ringVars
    <3> QED BY <3>2, <3>3
  <2> QED BY <1>4, <2>3, <2>4
<1>5. ASSUME NEW key \in StreamKeys, Subscribe(key) \/ SubscribeFails(key)
      PROVE  ReplyCurrent' /\ EveryIntentAccounted'
  <2>1. /\ UNCHANGED <<registryVars, linkVars, ringVars, supervisorVars>>
        /\ request'[Supervisor] = request[Supervisor]
    BY <1>0, <1>5 DEF Subscribe, Ask, SubscribeFails, requestVars
  <2> QED BY <1>2, <1>3, <2>1 DEF registryVars, linkVars, ringVars, supervisorVars, Remembered
<1>6. ASSUME NEW key \in StreamKeys, Remember(key)
      PROVE  ReplyCurrent' /\ EveryIntentAccounted'
  <2>1. PICK id : id = request[key].id
    OBVIOUS
  <2>2. /\ UNCHANGED <<state, live, ended, overwritten, request, ringVars, supervisorVars>>
        /\ Remembered' = Remembered \cup {id}
        /\ id \in live \cup ended \/ id \in late'
        /\ late \subseteq late'
    BY <1>6, <2>1 DEF Remember, Insert, requestVars, Remembered
  <2>3. EveryIntentAccounted'
    BY <2>2 DEF EveryIntentAccounted, ringVars, supervisorVars, Remembered
  <2> QED BY <1>3, <2>2, <2>3 DEF ringVars
<1>7. CASE MarkLost
  <2>1. /\ UNCHANGED <<linkVars, requestVars, ringVars, todo>>
        /\ Remembered' = Remembered /\ supervisor = "forget"
    BY <1>7 DEF MarkLost, ConnectionLost, Remembered
  <2> QED
    BY <1>3, <2>1 DEF EveryIntentAccounted, linkVars, requestVars, ringVars, Remembered
<1>8. CASE ReplayAsk
  <2>1. /\ UNCHANGED <<registryVars, linkVars, ringVars, supervisorVars>>
        /\ request'[Supervisor].at # "ok"
    BY <1>0, <1>8 DEF ReplayAsk, Ask
  <2> QED BY <1>2, <1>3, <2>1 DEF registryVars, linkVars, ringVars, supervisorVars, Remembered
<1>9. ASSUME NEW old, supervisor = "replaying", todo' = todo \ {old},
             UNCHANGED <<linkVars, ringVars, supervisor>>,
             request' = [request EXCEPT ![Supervisor] = NoRequest],
             \A i \in Remembered' : \/ i \in Remembered \ {old}
                                    \/ i \in Remembered /\ UNCHANGED registryVars
                                       /\ old \notin Remembered
                                    \/ i = request[Supervisor].id /\ request[Supervisor].at = "ok"
      PROVE  ReplyCurrent' /\ EveryIntentAccounted'
  <2>1. request'[Supervisor].at # "ok"
    BY <1>0, <1>9 DEF NoRequest
  <2>2. ReplyCurrent'
    BY <2>1 DEF ReplyCurrent
  <2>3. UNCHANGED <<state, live, late, ended, overwritten, ring>>
    BY <1>9 DEF linkVars, ringVars
  <2>4. EveryIntentAccounted'
    BY <1>9, <2>3 DEF EveryIntentAccounted, ReplyCurrent, Announced, Remembered
  <2> QED BY <2>2, <2>4
<1>10. CASE ReplayRestored
  <2>1. PICK old, new : old = NextOld /\ new = request[Supervisor].id
    OBVIOUS
  <2>2. /\ supervisor = "replaying" /\ todo' = todo \ {old}
        /\ UNCHANGED <<linkVars, ringVars, supervisor>>
        /\ request' = [request EXCEPT ![Supervisor] = NoRequest]
        /\ request[Supervisor].at = "ok"
        /\ Rekey(old, new)
    BY <1>10, <2>1 DEF ReplayRestored
  <2>3. \A i \in Remembered' : \/ i \in Remembered \ {old}
                               \/ i \in Remembered /\ UNCHANGED registryVars
                                  /\ old \notin Remembered
                               \/ i = new
    BY <2>2 DEF Rekey, registryVars, Remembered
  <2> QED BY <1>9, <2>1, <2>2, <2>3
<1>11. CASE ReplayFailed
  <2>1. PICK old : old = NextOld
    OBVIOUS
  <2>2. /\ supervisor = "replaying" /\ todo' = todo \ {old}
        /\ UNCHANGED <<linkVars, ringVars, supervisor>>
        /\ request' = [request EXCEPT ![Supervisor] = NoRequest]
        /\ Remove(old)
    BY <1>11, <2>1 DEF ReplayFailed
  <2>3. \A i \in Remembered' : i \in Remembered \ {old}
    BY <2>2 DEF Remove, Remembered
  <2> QED BY <1>9, <2>2, <2>3
<1>12. CASE QuietNext
  <2>1. UNCHANGED <<registryVars, linkVars, requestVars, task>>
    BY <1>12, QuietMoves
  <2>2. UNCHANGED <<byId, state, live, late, ended, overwritten, request>>
    BY <2>1 DEF registryVars, linkVars, requestVars
  <2>3. CASE Receive
    <3>1. /\ supervisor = "recv" /\ ring # <<>> /\ ring' = Tail(ring)
          /\ supervisor' = Arm(Head(ring))
      BY <2>3 DEF Receive
    <3>2. request'[Supervisor].at = "none"
      BY <2>2, <3>1 DEF ReplayAsks
    <3>3. /\ Len(ring) \in Nat /\ Len(ring) > 0 /\ Len(ring') = Len(ring) - 1
          /\ \A i \in 1..Len(ring') : ring'[i] = ring[i + 1]
          /\ Head(ring) = ring[1]
      BY <1>0, <3>1, HeadTailProperties
    <3>4. ASSUME Announced PROVE supervisor' = "snapshot" \/ Announced'
      <4>1. PICK n \in 1..Len(ring) : ring[n].kind = "Resubscribe"
        BY <3>4 DEF Announced
      <4>2. CASE n = 1
        BY <3>1, <3>3, <4>1, <4>2 DEF Arm
      <4>3. CASE n # 1
        <5>1. n - 1 \in 1..Len(ring') /\ ring'[n - 1] = ring[n]
          BY <3>3, <4>1, <4>3
        <5> QED BY <4>1, <5>1 DEF Announced
      <4> QED BY <4>2, <4>3
    <3>5. EveryIntentAccounted'
      BY <2>2, <3>1, <3>4 DEF EveryIntentAccounted, Announced, Remembered
    <3> QED BY <3>2, <3>5 DEF ReplyCurrent
  <2>4. CASE ReceiveLagged \/ Deliver \/ DeliverFails
    <3>1. supervisor \in {"recv", "sending"} /\ ring' = ring
      BY <2>4 DEF ReceiveLagged, Deliver, DeliverFails, ringVars
    <3> QED BY <1>3, <2>2, <3>1 DEF EveryIntentAccounted, Remembered
  <2>5. CASE ReceiveEnd
    <3>1. supervisor' = "ended" /\ ring' = ring
      BY <2>5 DEF ReceiveEnd, ringVars
    <3> QED BY <1>3, <2>2, <3>1 DEF EveryIntentAccounted
  <2>6. CASE Snapshot
    <3>1. todo' = Remembered /\ supervisor' = "replaying" /\ ring' = ring
      BY <2>6 DEF Snapshot, ringVars
    <3> QED BY <1>3, <2>2, <3>1 DEF EveryIntentAccounted, Remembered
  <2>7. CASE ReplayDone
    <3>1. supervisor = "replaying" /\ todo = {} /\ ring' = ring
      BY <2>7 DEF ReplayDone, ringVars
    <3> QED BY <1>3, <2>2, <3>1 DEF EveryIntentAccounted, Remembered
  <2>8. CASE AppNext \/ UNCHANGED clientVars
    <3>1. UNCHANGED <<ringVars, supervisorVars>>
      BY <2>8 DEF AppNext, ConsumeEvent, DropEvents, clientVars
    <3> QED BY <1>2, <1>3, <2>2, <3>1 DEF ringVars, supervisorVars, Remembered
  <2> QED BY <1>12, <2>3, <2>4, <2>5, <2>6, <2>7, <2>8 DEF QuietNext
<1> QED
  BY <1>1, <1>4, <1>5, <1>6, <1>7, <1>8, <1>10, <1>11, <1>12, NextCases

-----------------------------------------------------------------------------
(* The theorems.                                                           *)

LEMMA ClientInit == Init => ClientInvariant
<1> SUFFICES ASSUME Init PROVE ClientInvariant
  OBVIOUS
<1>1. Supervisor \in Askers /\ \A a \in Askers : request[a].at = "none"
  BY DEF Init, NoRequest, Askers
<1>2. TypeOK /\ IndexMatches
  BY TypeInit, RegistryInitSound DEF Init, RegistrySound
<1>3. Remembered = {}
  BY DEF Init, RegistryInit, Remembered
<1>4. IdsFresh /\ EntriesOnce /\ ReplayAsks
  BY <1>1, <1>3 DEF IdsFresh, Underway, EntriesOnce, ReplayAsks
<1>5. SnapshotKnown /\ ReplyCurrent /\ EveryIntentAccounted
  BY <1>1, <1>3 DEF Init, SnapshotKnown, ReplyCurrent, EveryIntentAccounted
<1> QED BY <1>2, <1>4, <1>5 DEF ClientInvariant

(* Nothing that tasks, supervisor, runner and application do in any order  *)
(* breaks the bookkeeping they share (client.rs, subscription.rs).         *)
THEOREM Bookkeeping == Spec => []ClientInvariant
<1>1. ClientInvariant /\ [Next]_clientVars => ClientInvariant'
  <2> SUFFICES ASSUME ClientInvariant, [Next]_clientVars PROVE ClientInvariant'
    OBVIOUS
  <2> USE DEF ClientInvariant
  <2>1. RegistrySound'
    BY RegistryStep
  <2>2. TypeOK'
    BY <2>1, TypeStep DEF RegistrySound
  <2>3. IdsFresh' /\ EntriesOnce'
    BY IdsStep, EntriesStep
  <2>4. SnapshotKnown' /\ ReplayAsks'
    BY ReplayStep
  <2>5. ReplyCurrent' /\ EveryIntentAccounted'
    BY CurrentStep
  <2> QED BY <2>1, <2>2, <2>3, <2>4, <2>5 DEF RegistrySound
<1> QED BY <1>1, ClientInit, PTL DEF Spec

(* Events are routed to the remembered subscriptions while the registry is *)
(* shared: the answers of the runner are the fresh ids insert and rekey    *)
(* rely on (Client::subscribe, replay).                                    *)
THEOREM SharedRoutingCorrect == Spec => []IndexMatches
<1>1. ClientInvariant => IndexMatches
  BY DEF ClientInvariant
<1> QED BY <1>1, Bookkeeping, PTL

(* However disconnects and replays interleave, a stream is remembered once *)
(* and only for a task whose subscribe succeeded (Client::subscribe).      *)
THEOREM NoDoubleSubscription == Spec => []RememberedOnce
<1>1. ASSUME ClientInvariant, NEW k \in StreamKeys
      PROVE  /\ Cardinality(Subscribers(k)) <= 1
             /\ Subscribers(k) # {} => task[k] = "subscribed"
  <2>1. Subscribers(k) = {i \in Remembered : byId[i].key = k}
    BY <1>1 DEF ClientInvariant, IndexMatches, Subscribers
  <2>2. CASE Subscribers(k) = {}
    BY <2>2, FS_EmptySet
  <2>3. CASE Subscribers(k) # {}
    <3>1. PICK i \in Remembered : byId[i].key = k
      BY <2>1, <2>3
    <3>2. Subscribers(k) = {i}
      BY <1>1, <2>1, <3>1 DEF ClientInvariant, EntriesOnce
    <3>3. Cardinality(Subscribers(k)) = 1
      BY <3>2, FS_Singleton
    <3> QED BY <1>1, <3>1, <3>3 DEF ClientInvariant, EntriesOnce
  <2> QED BY <2>2, <2>3
<1>2. ClientInvariant => RememberedOnce
  BY <1>1 DEF RememberedOnce
<1> QED BY <1>2, Bookkeeping, PTL

(* What a replay still has to do is never unknown to the registry, though  *)
(* it worked from a snapshot taken under a lock long released (replay).    *)
THEOREM SnapshotNeverStale == Spec => []SnapshotKnown
<1>1. ClientInvariant => SnapshotKnown
  BY DEF ClientInvariant
<1> QED BY <1>1, Bookkeeping, PTL

(* Outside three named windows no subscription goes silent on a session    *)
(* that is Ready (replay after Event::Resubscribe).                        *)
THEOREM NoSilentSubscription == Spec => []EveryIntentAccounted
<1>1. ClientInvariant => EveryIntentAccounted
  BY DEF ClientInvariant
<1> QED BY <1>1, Bookkeeping, PTL

=============================================================================
