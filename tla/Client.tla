------------------------------- MODULE Client -------------------------------
(***************************************************************************)
(* The client of crates/rocketsocket-realtime/src/client.rs: tasks that    *)
(* subscribe, the registry they share with a supervisor, and the           *)
(* supervisor that replays the registry after each login and forwards      *)
(* events to the application.                                              *)
(*                                                                         *)
(* The connection below it is the one observers are promised, the actions  *)
(* of Lifecycle, which Connection implements; each of them here also emits *)
(* its events into the broadcast ring and settles the subscribe requests   *)
(* the way Connection does: one still in the command channel outlives a    *)
(* lost socket, one the runner has registered does not.                    *)
(*                                                                         *)
(* Every stream key is subscribed to by one task, once.  Events that the   *)
(* supervisor only forwards are all called Pass.  A shutdown, whoever      *)
(* asks for it, is the step Stop.                                          *)
(***************************************************************************)
EXTENDS Registry, Integers, Sequences, FiniteSets

CONSTANTS
  Supervisor,      \* the supervisor, among those who send subscribe requests
  EventCapacity,   \* Config::event_capacity, of the ring and of the app's queue
  MaxEpoch         \* bound: no attempt fails and no socket dies after epoch MaxEpoch

ASSUME ClientAssumption ==
  /\ Ids \subseteq Nat
  /\ EventCapacity \in Nat \ {0}
  /\ MaxEpoch \in Nat
  /\ Supervisor \notin StreamKeys

VARIABLES
  state, event,   \* the connection observers see, see Lifecycle
  epoch,          \* the generation of the connection
  nextId,         \* the id the runner gives the next request it takes
  request,        \* the subscribe request of every task and of the supervisor
  live,           \* the ids the server knows in the current session
  task,           \* where each Client::subscribe stands
  ring,           \* what the broadcast ring holds for the supervisor
  missed,         \* the supervisor's next recv reports Lagged
  supervisor,     \* where the supervisor stands in its loop
  handling,       \* the event it handles
  todo,           \* what is left of the replay: old ids
  backlog,        \* how many ClientEvents wait for the application
  listening,      \* the application still holds its ClientEvents
  late,           \* history: ids remembered after their session had ended
  ended,          \* history: ids the server ended with a nosub without error
  overwritten     \* history: the last Resubscribe was overwritten in the ring

linkVars == <<state, event, epoch, live, late, ended, overwritten>>
requestVars == <<nextId, request>>
ringVars == <<ring, missed>>
supervisorVars == <<supervisor, handling, todo>>
appVars == <<backlog, listening>>
clientVars == <<registryVars, linkVars, requestVars, task, ringVars, supervisorVars, appVars>>

Link == INSTANCE Lifecycle WITH state <- state, event <- event

-----------------------------------------------------------------------------
Askers == StreamKeys \cup {Supervisor}
NoId == 0
Requests == [at : {"none", "channel", "registered", "ok", "refused", "lost"},
             id : Ids \cup {NoId}]
NoRequest == [at |-> "none", id |-> NoId]
TaskStates == {"idle", "asking", "subscribed", "failed"}

Pass == [kind |-> "Pass", epoch |-> 0]
Disconnected == [kind |-> "Disconnected", epoch |-> 0]
FatalEvent == [kind |-> "Fatal", epoch |-> 0]
Resubscribe(e) == [kind |-> "Resubscribe", epoch |-> e]
Events == {Pass, Disconnected, FatalEvent} \cup {Resubscribe(e) : e \in 0..MaxEpoch}

SupervisorStates == {"recv", "forget", "snapshot", "replaying", "sending", "ended"}

\* The runner is gone: its channel is closed and its ring ends.
Stopped == state = "Closed" \/ (state = "Fatal" /\ event = "Fatal")

(* Runner::emit: the ring overwrites what the supervisor was too slow for. *)
Emit(events) ==
  LET all  == ring \o events
      lost == IF Len(all) > EventCapacity THEN Len(all) - EventCapacity ELSE 0
  IN /\ ring' = SubSeq(all, lost + 1, Len(all))
     /\ missed' = (missed \/ lost > 0)
     /\ LET replays(first, last) == \E i \in first..last : all[i].kind = "Resubscribe"
        IN overwritten' = /\ overwritten \/ replays(1, lost)
                          /\ ~ replays(lost + 1, Len(all))

Init ==
  /\ RegistryInit
  /\ Link!Init
  /\ epoch = 0
  /\ nextId = 1
  /\ request = [a \in Askers |-> NoRequest]
  /\ live = {}
  /\ task = [k \in StreamKeys |-> "idle"]
  /\ ring = <<>>
  /\ missed = FALSE
  /\ supervisor = "recv"
  /\ handling = Pass
  /\ todo = {}
  /\ backlog = 0
  /\ listening = TRUE
  /\ late = {}
  /\ ended = {}
  /\ overwritten = FALSE

-----------------------------------------------------------------------------
(* Subscribe requests.                                                     *)

\* Connection::subscribe hands its command to the channel, or fails at once.
Ask(a) ==
  /\ request' = [request EXCEPT ![a] = [at |-> IF Stopped THEN "lost" ELSE "channel", id |-> NoId]]
  /\ UNCHANGED nextId

\* Runner::handle_command: ids are never reused.  The runner polls its channel
\* in idle and drive, not while it opens a socket.
Register(a) ==
  /\ request[a].at = "channel"
  /\ \/ state \in {"Handshaking", "Authenticating", "Ready"}
     \/ state = "Disconnected" /\ event # "none"
  /\ nextId \in Ids
  /\ request' = [request EXCEPT ![a] = [at |-> "registered", id |-> nextId]]
  /\ nextId' = nextId + 1
  /\ UNCHANGED <<registryVars, linkVars, task, ringVars, supervisorVars, appVars>>

\* Runner::correlate: a ready.
Accepted(a) ==
  /\ request[a].at = "registered"
  /\ state = "Ready"
  /\ request' = [request EXCEPT ![a].at = "ok"]
  /\ live' = live \cup {request[a].id}
  /\ UNCHANGED <<registryVars, state, event, epoch, late, ended, overwritten, nextId, task,
                 ringVars, supervisorVars, appVars>>

\* A nosub without error settles the request as a ready does.
Ended(a) ==
  /\ request[a].at = "registered"
  /\ state = "Ready"
  /\ request' = [request EXCEPT ![a].at = "ok"]
  /\ ended' = ended \cup {request[a].id}
  /\ UNCHANGED <<registryVars, state, event, epoch, live, late, overwritten, nextId, task,
                 ringVars, supervisorVars, appVars>>

\* A nosub with one.
Refused(a) ==
  /\ request[a].at = "registered"
  /\ state = "Ready"
  /\ request' = [request EXCEPT ![a].at = "refused"]
  /\ UNCHANGED <<registryVars, linkVars, nextId, task, ringVars, supervisorVars, appVars>>

\* Mutant: a lost socket settles nothing, and nobody answers on it any more.
SettleAtEndOnly(places) ==
  LET left == IF "channel" \in places THEN "lost" ELSE "stranded"
  IN /\ request' = [a \in Askers |-> IF request[a].at \in places \cup {"stranded"}
                                       THEN [request[a] EXCEPT !.at = left] ELSE request[a]]
     /\ UNCHANGED nextId

\* Runner::settle, and at the very end the channel dropped with what it holds.
Settle(places) ==
  /\ request' = [a \in Askers |-> IF request[a].at \in places THEN [request[a] EXCEPT !.at = "lost"]
                                                             ELSE request[a]]
  /\ UNCHANGED nextId

-----------------------------------------------------------------------------
(* The connection.                                                         *)

Quietly == UNCHANGED <<ringVars, overwritten>>
OthersUnchanged == UNCHANGED <<registryVars, task, supervisorVars, appVars, late, ended>>

Attempt ==
  /\ Link!Attempt
  /\ Emit(<<Pass>>)
  /\ UNCHANGED <<epoch, live, requestVars>> /\ OthersUnchanged

Opened ==
  /\ Link!Opened
  /\ Quietly
  /\ UNCHANGED <<epoch, live, requestVars>> /\ OthersUnchanged

Greeted ==
  /\ Link!Greeted
  /\ Emit(<<Pass>>)
  /\ UNCHANGED <<epoch, live, requestVars>> /\ OthersUnchanged

LoggedIn ==
  /\ Link!LoggedIn
  /\ Emit(<<Pass, Resubscribe(epoch)>>)
  /\ UNCHANGED <<epoch, live, requestVars>> /\ OthersUnchanged

Lost ==
  /\ epoch < MaxEpoch
  /\ Link!Lost
  /\ Emit(<<Disconnected>>)
  /\ epoch' = epoch + 1
  /\ live' = {}
  /\ Settle({"registered"})
  /\ OthersUnchanged

LoginRefused ==
  /\ Link!Refused
  /\ Quietly
  /\ Settle({"registered"})
  /\ UNCHANGED <<epoch, live>> /\ OthersUnchanged

Report ==
  /\ Link!Report
  /\ Emit(<<FatalEvent>>)
  /\ Settle({"channel", "registered"})
  /\ UNCHANGED <<epoch, live>> /\ OthersUnchanged

\* Mutant: commands still in the channel are kept for a runner that is gone.
StopKeepingChannel ==
  /\ Link!Close
  /\ event # "none"
  /\ Quietly
  /\ live' = {}
  /\ Settle({"registered"})
  /\ UNCHANGED epoch /\ OthersUnchanged

\* A shutdown is taken from the channel, so not before the first attempt.
Stop ==
  /\ Link!Close
  /\ event # "none"
  /\ Quietly
  /\ live' = {}
  /\ Settle({"channel", "registered"})
  /\ UNCHANGED epoch /\ OthersUnchanged

\* Runner::on_text forwards a stream frame.
StreamFrame ==
  /\ state = "Ready"
  /\ live # {}
  /\ Emit(<<Pass>>)
  /\ UNCHANGED <<state, event, epoch, live, requestVars>> /\ OthersUnchanged

-----------------------------------------------------------------------------
(* Client::subscribe.                                                      *)

Subscribe(key) ==
  /\ task[key] = "idle"
  /\ task' = [task EXCEPT ![key] = "asking"]
  /\ Ask(key)
  /\ UNCHANGED <<registryVars, linkVars, ringVars, supervisorVars, appVars>>

\* The task has its reply and now gets the lock.
Remember(key) ==
  /\ task[key] = "asking"
  /\ request[key].at = "ok"
  /\ Insert(request[key].id, key)
  /\ task' = [task EXCEPT ![key] = "subscribed"]
  /\ late' = IF request[key].id \in live \cup ended THEN late ELSE late \cup {request[key].id}
  /\ UNCHANGED <<state, event, epoch, live, ended, overwritten, requestVars, ringVars,
                 supervisorVars, appVars>>

SubscribeFails(key) ==
  /\ task[key] = "asking"
  /\ request[key].at \in {"refused", "lost"}
  /\ task' = [task EXCEPT ![key] = "failed"]
  /\ UNCHANGED <<registryVars, linkVars, requestVars, ringVars, supervisorVars, appVars>>

-----------------------------------------------------------------------------
(* The supervisor.                                                         *)

\* What a received event makes the supervisor do first.
Arm(e) ==
  CASE e.kind = "Resubscribe"  -> "snapshot"
    [] e.kind = "Disconnected" -> "forget"
    [] OTHER                   -> "sending"

Receive ==
  /\ supervisor = "recv"
  /\ ~ missed
  /\ ring # <<>>
  /\ handling' = Head(ring)
  /\ supervisor' = Arm(Head(ring))
  /\ ring' = Tail(ring)
  /\ UNCHANGED <<registryVars, linkVars, requestVars, task, missed, todo, appVars>>

ReceiveLagged ==
  /\ supervisor = "recv"
  /\ missed
  /\ missed' = FALSE
  /\ handling' = Pass
  /\ supervisor' = "sending"
  /\ UNCHANGED <<registryVars, linkVars, requestVars, task, ring, todo, appVars>>

ReceiveEnd ==
  /\ supervisor = "recv"
  /\ Stopped /\ ring = <<>> /\ ~ missed
  /\ supervisor' = "ended"
  /\ UNCHANGED <<registryVars, linkVars, requestVars, task, ringVars, handling, todo, appVars>>

MarkLost ==
  /\ supervisor = "forget"
  /\ ConnectionLost
  /\ supervisor' = "sending"
  /\ UNCHANGED <<linkVars, requestVars, task, ringVars, handling, todo, appVars>>

\* Mutant: only what a Disconnected event marked is replayed.
SnapshotInactive ==
  /\ supervisor = "snapshot"
  /\ todo' = {i \in Remembered : byId[i].state = "Inactive"}
  /\ supervisor' = "replaying"
  /\ UNCHANGED <<registryVars, linkVars, requestVars, task, ringVars, handling, appVars>>

\* Registry::to_replay, under the lock.
Snapshot ==
  /\ supervisor = "snapshot"
  /\ todo' = Remembered
  /\ supervisor' = "replaying"
  /\ UNCHANGED <<registryVars, linkVars, requestVars, task, ringVars, handling, appVars>>

\* The replay goes through the ids in order.
NextOld == CHOOSE i \in todo : \A j \in todo : i <= j

ReplayAsk ==
  /\ supervisor = "replaying"
  /\ todo # {}
  /\ request[Supervisor].at = "none"
  /\ Ask(Supervisor)
  /\ UNCHANGED <<registryVars, linkVars, task, ringVars, supervisorVars, appVars>>

\* Mutant: the entry of the old id is kept beside that of the new one.
ReplayRestoredByInsert ==
  /\ supervisor = "replaying"
  /\ request[Supervisor].at = "ok"
  /\ Insert(request[Supervisor].id, byId[NextOld].key)
  /\ todo' = todo \ {NextOld}
  /\ request' = [request EXCEPT ![Supervisor] = NoRequest]
  /\ UNCHANGED <<linkVars, nextId, task, ringVars, supervisor, handling, appVars>>

ReplayRestored ==
  /\ supervisor = "replaying"
  /\ request[Supervisor].at = "ok"
  /\ Rekey(NextOld, request[Supervisor].id)
  /\ todo' = todo \ {NextOld}
  /\ request' = [request EXCEPT ![Supervisor] = NoRequest]
  /\ UNCHANGED <<linkVars, nextId, task, ringVars, supervisor, handling, appVars>>

\* Mutant: the loop does not move on from a subscription it forgot.
ReplayFailedInPlace ==
  /\ supervisor = "replaying"
  /\ request[Supervisor].at \in {"refused", "lost"}
  /\ Remove(NextOld)
  /\ request' = [request EXCEPT ![Supervisor] = NoRequest]
  /\ UNCHANGED <<linkVars, nextId, task, ringVars, supervisorVars, appVars>>

\* Any error forgets the subscription: a refusal, and a lost request alike.
ReplayFailed ==
  /\ supervisor = "replaying"
  /\ request[Supervisor].at \in {"refused", "lost"}
  /\ Remove(NextOld)
  /\ todo' = todo \ {NextOld}
  /\ request' = [request EXCEPT ![Supervisor] = NoRequest]
  /\ UNCHANGED <<linkVars, nextId, task, ringVars, supervisor, handling, appVars>>

ReplayDone ==
  /\ supervisor = "replaying"
  /\ todo = {}
  /\ supervisor' = "sending"
  /\ UNCHANGED <<registryVars, linkVars, requestVars, task, ringVars, handling, todo, appVars>>

\* Mutant: the application's queue does not hold the supervisor back.
DeliverUnbounded ==
  /\ supervisor = "sending"
  /\ listening
  /\ backlog <= EventCapacity
  /\ backlog' = backlog + 1
  /\ supervisor' = IF handling = FatalEvent THEN "ended" ELSE "recv"
  /\ UNCHANGED <<registryVars, linkVars, requestVars, task, ringVars, handling, todo, listening>>

Deliver ==
  /\ supervisor = "sending"
  /\ listening
  /\ backlog < EventCapacity
  /\ backlog' = backlog + 1
  /\ supervisor' = IF handling = FatalEvent THEN "ended" ELSE "recv"
  /\ UNCHANGED <<registryVars, linkVars, requestVars, task, ringVars, handling, todo, listening>>

DeliverFails ==
  /\ supervisor = "sending"
  /\ ~ listening
  /\ supervisor' = "ended"
  /\ UNCHANGED <<registryVars, linkVars, requestVars, task, ringVars, handling, todo, appVars>>

-----------------------------------------------------------------------------
(* The application.                                                        *)

ConsumeEvent ==
  /\ backlog > 0
  /\ backlog' = backlog - 1
  /\ UNCHANGED <<registryVars, linkVars, requestVars, task, ringVars, supervisorVars, listening>>

DropEvents ==
  /\ listening
  /\ listening' = FALSE
  /\ backlog' = 0
  /\ UNCHANGED <<registryVars, linkVars, requestVars, task, ringVars, supervisorVars>>

-----------------------------------------------------------------------------
LinkNext ==
  \/ Attempt \/ Opened \/ Greeted \/ LoggedIn
  \/ Lost \/ LoginRefused \/ Report \/ Stop \/ StreamFrame

RequestNext == \E a \in Askers : Register(a) \/ Accepted(a) \/ Ended(a) \/ Refused(a)

TaskNext == \E key \in StreamKeys : Subscribe(key) \/ Remember(key) \/ SubscribeFails(key)

SupervisorNext ==
  \/ Receive \/ ReceiveLagged \/ ReceiveEnd
  \/ MarkLost
  \/ Snapshot \/ ReplayAsk \/ ReplayRestored \/ ReplayFailed \/ ReplayDone
  \/ Deliver \/ DeliverFails

AppNext == ConsumeEvent \/ DropEvents

Next == LinkNext \/ RequestNext \/ TaskNext \/ SupervisorNext \/ AppNext

Spec == Init /\ [][Next]_clientVars

\* The runner, the supervisor and the application's loop are scheduled; the
\* server answers a login and every subscription.
FairSpec ==
  /\ Spec
  /\ WF_clientVars(Attempt) /\ WF_clientVars(Opened)
  /\ WF_clientVars(Greeted) /\ WF_clientVars(LoggedIn)
  /\ WF_clientVars(Report)
  /\ \A a \in Askers : /\ WF_clientVars(Register(a))
                       /\ WF_clientVars(Accepted(a) \/ Ended(a) \/ Refused(a))
  /\ WF_clientVars(SupervisorNext)
  /\ WF_clientVars(ConsumeEvent)

-----------------------------------------------------------------------------
TypeOK ==
  /\ RegistryTypeOK
  /\ epoch \in 0..MaxEpoch
  /\ nextId \in Nat
  /\ request \in [Askers -> Requests]
  /\ live \subseteq Ids /\ late \subseteq Ids /\ ended \subseteq Ids
  /\ task \in [StreamKeys -> TaskStates]
  /\ ring \in Seq(Events) /\ Len(ring) <= EventCapacity
  /\ missed \in BOOLEAN /\ overwritten \in BOOLEAN
  /\ supervisor \in SupervisorStates
  /\ handling \in Events
  /\ todo \subseteq Ids
  /\ backlog \in 0..EventCapacity
  /\ listening \in BOOLEAN

(* A stream is remembered once, and only for a task whose subscribe        *)
(* succeeded: a refusal with an error is never replayed, and a replay      *)
(* moves the entry instead of adding one (Client::subscribe, replay).      *)
RememberedOnce ==
  \A k \in StreamKeys :
    /\ Cardinality(Subscribers(k)) <= 1
    /\ Subscribers(k) # {} => task[k] = "subscribed"

(* The snapshot a replay works from goes stale while it waits for answers  *)
(* without the lock, yet what it still has to replay is never unknown to   *)
(* the registry: replay ignores what rekey and remove return.              *)
SnapshotKnown == supervisor = "replaying" => todo \subseteq Remembered

(* No subscription goes silent on a session that is Ready: what is         *)
(* remembered and unknown to the server is about to be replayed.  Three    *)
(* windows are excepted: a subscription remembered only after its session  *)
(* had ended (Client::subscribe inserts after its await), one the server   *)
(* ended without an error (correlate takes that for an acknowledgement),   *)
(* and a Resubscribe overwritten in the ring; see ReplayedDespiteLag.      *)
EveryIntentAccounted ==
  state = "Ready" /\ supervisor # "ended" /\ ~ overwritten =>
    \A i \in Remembered \ (late \cup ended) :
      \/ i \in live
      \/ supervisor = "snapshot"
      \/ supervisor = "replaying" /\ i \in todo
      \/ \E n \in 1..Len(ring) : ring[n].kind = "Resubscribe"

(* A replay ends whatever happens to the connection under it: no lost      *)
(* request leaves the supervisor waiting (replay awaits every answer).     *)
ReplayTerminates == supervisor = "replaying" ~> supervisor # "replaying"

(* Once the connection stops, the supervisor ends and with it the stream   *)
(* of the application (ClientEvents::recv returns None).                   *)
StreamEnds == Stopped ~> supervisor = "ended"

-----------------------------------------------------------------------------
(* What the documentation says and the code does not do.                   *)

\* Nothing is under way: the session is up and the supervisor has seen all.
Settled ==
  /\ state = "Ready" /\ supervisor = "recv" /\ ring = <<>> /\ ~ missed
  /\ \A k \in StreamKeys : task[k] # "asking"

(* subscribe remembers it across reconnects: only a refusal makes the      *)
(* registry forget a stream.                                               *)
IntentKept ==
  [][\A k \in StreamKeys :
       Subscribers(k) # {} /\ Subscribers(k)' = {} => request[Supervisor].at = "refused"]_clientVars

(* Subscriptions are kept alive, also when the ring reports Lagged.        *)
ReplayedDespiteLag == Settled /\ late = {} => Remembered \ ended \subseteq live

=============================================================================
