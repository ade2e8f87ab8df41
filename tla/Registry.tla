------------------------------ MODULE Registry ------------------------------
(***************************************************************************)
(* The subscription registry of crates/rocketsocket-realtime/src/          *)
(* subscription.rs: what a client wants subscribed, remembered across      *)
(* connections, with the index that routes an event to the subscriptions   *)
(* interested in its stream key.                                           *)
(*                                                                         *)
(* The registry is a plain structure behind its owner's lock, so its       *)
(* operations are step fragments over two variables.  Parameters of a      *)
(* subscription are carried along by every operation and left out; so is   *)
(* the order in which by_key lists the subscribers of one key.             *)
(***************************************************************************)
CONSTANTS
  StreamKeys,   \* the stream keys applications subscribe to
  Ids           \* DDP subscription ids

VARIABLES
  byId,    \* Registry::by_id, a partial function on Ids
  byKey    \* Registry::by_key, a partial function on StreamKeys

registryVars == <<byId, byKey>>

SubStates == {"Pending", "Ready", "Inactive"}
RegistryEntries == [key : StreamKeys, state : SubStates]

Remembered == DOMAIN byId

\* Registry::subscribers: the ids an event under this key is routed to.
Subscribers(key) == IF key \in DOMAIN byKey THEN byKey[key] ELSE {}

RegistryInit ==
  /\ byId = [i \in {} |-> [key |-> CHOOSE k \in StreamKeys : TRUE, state |-> "Inactive"]]
  /\ byKey = [k \in {} |-> {}]

(* Registry::insert.  The id must be one the registry does not hold.       *)
Insert(id, key) ==
  /\ byId' = [i \in Remembered \cup {id} |->
                IF i = id THEN [key |-> key, state |-> "Pending"] ELSE byId[i]]
  /\ byKey' = [k \in DOMAIN byKey \cup {key} |->
                IF k = key THEN Subscribers(key) \cup {id} ELSE byKey[k]]

(* Registry::mark_ready; an unknown id is reported and changes nothing.    *)
MarkReady(id) ==
  /\ byId' = [i \in Remembered |->
                IF i = id THEN [byId[i] EXCEPT !.state = "Ready"] ELSE byId[i]]
  /\ UNCHANGED byKey

(* Registry::remove: a key nobody is left for leaves the index.            *)
Remove(id) ==
  /\ byId' = [i \in Remembered \ {id} |-> byId[i]]
  /\ LET left(k) == byKey[k] \ {id}
         key     == byId[id].key
     IN byKey' = IF id \in Remembered /\ key \in DOMAIN byKey
                   THEN [k \in {l \in DOMAIN byKey : l = key => left(l) # {}} |->
                           IF k = key THEN left(k) ELSE byKey[k]]
                   ELSE byKey

(* Registry::connection_lost: the intent stays.                            *)
ConnectionLost ==
  /\ byId' = [i \in Remembered |-> [byId[i] EXCEPT !.state = "Inactive"]]
  /\ UNCHANGED byKey

(* Registry::mark_replayed.                                                *)
MarkReplayed ==
  /\ byId' = [i \in Remembered |-> [byId[i] EXCEPT !.state = "Pending"]]
  /\ UNCHANGED byKey

\* Mutant: routing keeps the id of the previous connection.
RekeyIdsOnly(old, new) ==
  IF old \in Remembered
    THEN /\ byId' = [i \in (Remembered \ {old}) \cup {new} |->
                       IF i = new THEN [byId[old] EXCEPT !.state = "Pending"] ELSE byId[i]]
         /\ UNCHANGED byKey
    ELSE UNCHANGED registryVars

(* Registry::rekey: the entry moves to a fresh id; an unknown one stays    *)
(* unknown.                                                                *)
Rekey(old, new) ==
  IF old \in Remembered
    THEN /\ byId' = [i \in (Remembered \ {old}) \cup {new} |->
                       IF i = new THEN [byId[old] EXCEPT !.state = "Pending"] ELSE byId[i]]
         /\ byKey' = [k \in DOMAIN byKey |->
                        IF k = byId[old].key /\ old \in byKey[k]
                          THEN (byKey[k] \ {old}) \cup {new}
                          ELSE byKey[k]]
    ELSE UNCHANGED registryVars

(* Any sequence of operations by an owner that keeps the rule of insert    *)
(* and rekey: the id they are given is not one the registry holds.         *)
RegistryNext ==
  \/ \E id \in Ids \ Remembered, key \in StreamKeys : Insert(id, key)
  \/ \E id \in Ids : MarkReady(id) \/ Remove(id)
  \/ \E old \in Ids, new \in Ids \ Remembered : Rekey(old, new)
  \/ ConnectionLost
  \/ MarkReplayed

RegistrySpec == RegistryInit /\ [][RegistryNext]_registryVars

RegistryTypeOK ==
  /\ Remembered \subseteq Ids
  /\ byId \in [Remembered -> RegistryEntries]
  /\ DOMAIN byKey \subseteq StreamKeys
  /\ byKey \in [DOMAIN byKey -> SUBSET Ids]

(* The index routes to exactly the remembered subscriptions: no event is   *)
(* lost for one of them and none goes to a forgotten or re-keyed id, and   *)
(* no key lingers in the map once its last subscription is gone (insert,   *)
(* remove and rekey keep by_key in step with by_id).                       *)
IndexMatches ==
  /\ DOMAIN byKey = {byId[i].key : i \in Remembered}
  /\ \A k \in DOMAIN byKey : byKey[k] = {i \in Remembered : byId[i].key = k}

=============================================================================
