------------------------------ MODULE ClientInv ------------------------------
(***************************************************************************)
(* The inductive invariant behind the safety properties of Client.tla: who *)
(* holds an id that the registry has not been given yet, and what the      *)
(* supervisor is waiting for.                                              *)
(***************************************************************************)
EXTENDS Client

(* An id on its way to the registry: the runner handed it out, and its     *)
(* task or the replay has yet to take the answer.                          *)
Underway(a) ==
  /\ request[a].at \in {"registered", "ok"}
  /\ a = Supervisor \/ task[a] = "asking"

(* An id that insert or rekey will be given is fresh.                      *)
IdsFresh ==
  /\ \A a \in Askers : request[a].at \in {"registered", "ok"} => request[a].id \in Ids
  /\ \A i \in Remembered : i < nextId
  /\ \A a \in Askers : Underway(a) => request[a].id < nextId /\ request[a].id \notin Remembered
  /\ \A a, b \in Askers : Underway(a) /\ Underway(b) /\ request[a].id = request[b].id => a = b

(* One entry per stream key, of a task that subscribed.                    *)
EntriesOnce ==
  /\ \A i, j \in Remembered : byId[i].key = byId[j].key => i = j
  /\ \A i \in Remembered : task[byId[i].key] = "subscribed"

(* The supervisor asks only while it replays, for an entry of its list.    *)
ReplayAsks == request[Supervisor].at # "none" => supervisor = "replaying" /\ todo # {}

\* The supervisor has yet to receive a Resubscribe.
Announced == \E n \in 1..Len(ring) : ring[n].kind = "Resubscribe"

(* A replay's answer is of this session, or the next replay is announced.  *)
ReplyCurrent ==
  state = "Ready" /\ ~ overwritten /\ request[Supervisor].at = "ok" =>
    request[Supervisor].id \in live \cup ended \/ Announced

ClientInvariant ==
  /\ TypeOK
  /\ IndexMatches
  /\ IdsFresh
  /\ EntriesOnce
  /\ SnapshotKnown
  /\ ReplayAsks
  /\ ReplyCurrent
  /\ EveryIntentAccounted

=============================================================================
