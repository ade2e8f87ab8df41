--------------------------- MODULE ConnectionInv ---------------------------
(***************************************************************************)
(* The inductive invariant behind ExactClassification and AnswerMatches of *)
(* Connection.tla: who owns an id, where the frame that carries it can be, *)
(* and what the correlators and the outboxes must agree on.                *)
(***************************************************************************)
EXTENDS Connection

(* An id some correlator has already handed out.                           *)
Old(key) == key \in Keys /\ key[2] < nextId[key[1]]

(* A caller past the command channel: its id will not change any more.     *)
Registered(c) == c \in Calls /\ caller[c] \notin {"idle", "queued"}

(* Every id in use was handed out, so the next one is fresh.               *)
KeysHandedOut ==
  /\ \A e \in pending : Old(e.key)
  /\ \A c \in Calls : callKey[c] # NoKey => Old(callKey[c])
  /\ \A k \in unflushed : Old(k)
  /\ \A i \in 1..Len(priority) : priority[i].type = "login" => Old(priority[i].key)

(* No two calls share an id, and no call shares one with a login.          *)
KeysDistinct ==
  /\ \A c, d \in Calls : callKey[c] = callKey[d] /\ callKey[c] # NoKey => c = d
  /\ \A i \in 1..Len(priority) :
       /\ priority[i].type \notin AppTypes
       /\ priority[i].type = "login" => \A c \in Calls : callKey[c] # priority[i].key

(* Callers that never registered have no id and sent nothing; those whose  *)
(* future is unresolved have no outcome.                                   *)
CallersConsistent ==
  \A c \in Calls :
    /\ caller[c] \in {"idle", "queued"} => callKey[c] = NoKey /\ c \notin given
    /\ caller[c] \notin {"done", "unsubscribed"} => outcome[c] = NoOutcome

(* An entry belongs to a caller that is still unresolved, under its id,    *)
(* and is marked, or about to be marked, exactly if its frame was given.   *)
EntriesConsistent ==
  \A e \in pending : e.who \in Calls =>
    /\ e.key = callKey[e.who]
    /\ caller[e.who] \in {"waiting", "gone"}
    /\ e.who \in given <=> (e.sent \/ e.key \in unflushed)

(* A request in the application outbox was never given to a socket, is     *)
(* there once, and has not failed: settle() drops it with its waiter.      *)
OutboxConsistent ==
  /\ \A i \in 1..Len(app) :
       /\ app[i].type \in AppTypes
       /\ Registered(app[i].call)
       /\ app[i].key = callKey[app[i].call]
       /\ app[i].type # "unsub" =>
            /\ app[i].call \notin given
            /\ outcome[app[i].call].tag # "NotSent"
  /\ \A i, j \in 1..Len(app) :
       app[i].type # "unsub" /\ app[j].type # "unsub" /\ app[i].call = app[j].call => i = j

(* What the server can answer carries the id of the call it is from.       *)
WireConsistent ==
  \A f \in sink \cup wire : f.type \in AppTypes =>
    Registered(f.call) /\ f.key = callKey[f.call]

(* Only a subscription that was settled is ever cancelled.                 *)
CommandsConsistent ==
  \A i \in 1..Len(commands) : commands[i].op = "unsub" => Registered(commands[i].call)

ConnectionInvariant ==
  /\ TypeOK
  /\ KeysHandedOut
  /\ KeysDistinct
  /\ CallersConsistent
  /\ EntriesConsistent
  /\ OutboxConsistent
  /\ WireConsistent
  /\ CommandsConsistent
  /\ ExactClassification
  /\ AnswerMatches
  /\ EpochLockstep

(***************************************************************************)
(* What else every step keeps: where the runner is, what it shows, and     *)
(* what the socket may carry by then.                                      *)
(***************************************************************************)

(* Observers see the phase the session is in, and the event it announced.  *)
Shows(p, s, e) == phase = p /\ state = s /\ event = e

ShownTruly ==
  /\ runner \in {"loop", "idle", "opening"} => phase = "Disconnected"
  /\ runner \in {"loop", "idle"} => state = "Disconnected" /\ event \in {"none", "Disconnected"}
  /\ runner = "opening" => state = "Connecting" /\ event = "Connecting"
  /\ runner = "driving" => phase # "FatallyClosed"
  /\ runner \in {"driving", "closing"} =>
       \/ Shows("Handshaking", "Handshaking", "Connecting")
       \/ Shows("Authenticating", "Authenticating", "Connected")
       \/ Shows("Ready", "Ready", "Resubscribe")
       \/ phase = "FatallyClosed" /\ state = "Fatal" /\ event # "Fatal"
  /\ runner = "stopped" => state = "Closed" \/ (state = "Fatal" /\ event = "Fatal")

(* Without a socket there is nothing on it, and nothing to say first.      *)
SocketGone ==
  runner \notin {"driving", "closing"} =>
    priority = <<>> /\ sink = {} /\ wire = {} /\ auth = "none"

(* `connect' is sent once on a socket, and answered only while handshaking.*)
ConnectOnce ==
  LET connect == ControlFrame("connect")
  IN /\ phase # "Handshaking" =>
          /\ connect \notin sink \cup wire
          /\ \A i \in 1..Len(priority) : priority[i] # connect
     /\ connect \in sink \cup wire => \A i \in 1..Len(priority) : priority[i] # connect
     /\ connect \notin sink \cap wire
     /\ \A i, j \in 1..Len(priority) : priority[i] = connect /\ priority[j] = connect => i = j

(* A login is outstanding only while authenticating, and Ready is what the *)
(* server's acceptance of it makes the session.                            *)
LoginAwaited ==
  /\ loginCall # NoKey => phase = "Authenticating"
  /\ phase = "Ready" => auth = "accepted"

SocketInvariant ==
  /\ ShownTruly
  /\ SocketGone
  /\ ConnectOnce
  /\ LoginAwaited
  /\ AppOnlyAfterLogin

(* The id of a login that was sent is nobody else's.                       *)
LoginsDistinct ==
  \A f \in sink \cup wire : f.type = "login" =>
    Old(f.key) /\ \A c \in Calls : callKey[c] # f.key

WaitingInvariant ==
  /\ LoginsDistinct
  /\ PendingAccounted
  /\ AllSettledAtEnd

=============================================================================
