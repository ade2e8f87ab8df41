----------------------------- MODULE Connection -----------------------------
(***************************************************************************)
(* The realtime connection of crates/rocketsocket-realtime: the callers    *)
(* holding a Connection handle, the runner task of connection.rs that owns *)
(* the socket, the Session and the two Correlators, and, outside src/, the *)
(* websocket sink and the server.                                          *)
(*                                                                         *)
(* The runner is one task: between two of its awaits nothing of its state  *)
(* changes, so one poll_step arm with the drive() iteration that consumes  *)
(* it is one action.  The sink may say Pending at any poll, which makes    *)
(* any interleaving of single writes, flushes, reads, commands and timers  *)
(* reachable.  Time is abstract: a timer that is armed may fire.  Frames   *)
(* that change no state (stream events, pongs, malformed frames, replies   *)
(* to unknown ids) are stuttering steps.                                   *)
(***************************************************************************)
EXTENDS Sequences, FiniteSets, Session, Correlator

CONSTANTS
  CommandCapacity,  \* Config::command_capacity
  OutboxCapacity,   \* Config::outbox_capacity, clamped to 1 by spawn
  MaxEpoch,         \* bound: connections lost and attempts failed
  PriorityBound     \* bound: pings and pongs queued on the protocol lane

ASSUME CapacityAssumption ==
  /\ CommandCapacity \in Nat \ {0}
  /\ OutboxCapacity \in Nat \ {0}
  /\ MaxEpoch \in Nat
  /\ PriorityBound \in Nat

VARIABLES
  caller,      \* where each caller is: see CallerStates
  callKey,     \* the id of Pending, handed back through the ack oneshot
  outcome,     \* what each caller's future resolved to
  handles,     \* whether any Connection handle is still alive
  commands,    \* the mpsc channel between the handles and the runner
  runner,      \* where run() is: see RunnerStates
  state,       \* the watch channel of ConnectionState
  event,       \* the last lifecycle event broadcast
  priority,    \* Runner::priority
  app,         \* Runner::app
  unflushed,   \* Runner::unflushed
  needsFlush,  \* Runner::needs_flush
  hsDeadline,  \* Runner::handshake_deadline.is_some()
  sink,        \* frames start_send accepted that are not on the wire
  wire,        \* frames of this socket that reached the server
  auth,        \* what the server decided about this socket's login
  given,       \* the calls whose frame start_send accepted, ever
  seen         \* the calls whose frame reached the server, ever

clientVars == <<caller, callKey, outcome, handles, commands>>
outboxVars == <<priority, app>>
socketVars == <<unflushed, needsFlush, sink, wire, auth, given, seen>>
runVars == <<runner, state, event, hsDeadline>>
vars == <<clientVars, outboxVars, socketVars, runVars, sessionVars, corrVars>>

(***************************************************************************)
(* The values of the variables                                             *)
(***************************************************************************)

\* idle: not called; queued: in the mpsc channel; waiting: registered with a
\* correlator; done: the future resolved; gone: the future was dropped;
\* unsubscribed: a settled subscription that was later cancelled.
CallerStates == {"idle", "queued", "waiting", "done", "gone", "unsubscribed"}

\* loop: the head of run(); idle: idle(); opening: open(); driving: drive();
\* closing: close_politely(); stopped: the task has ended.
RunnerStates == {"loop", "idle", "opening", "driving", "closing", "stopped"}

Outcomes == [tag : {"none", "Ok", "Server", "NotSent", "Abandoned"}, of : SUBSET Calls]
NoOutcome == [tag |-> "none", of |-> {}]
Failure(tag) == [tag |-> tag, of |-> {}]

ConnectionStates ==
  {"Disconnected", "Connecting", "Handshaking", "Authenticating", "Ready", "Closed", "Fatal"}

LifecycleEvents == {"none", "Connecting", "Connected", "Resubscribe", "Disconnected", "Fatal"}

Shutdown == [op |-> "shutdown", call |-> Login]
Commands == [op : {"call", "unsub"}, call : Calls] \cup {Shutdown}

Frames ==
  [type : {"connect", "ping", "pong"}, key : {NoKey}, call : {Login}]
    \cup [type : {"login"}, key : Keys, call : {Login}]
    \cup [type : {"method", "sub"}, key : Keys, call : Calls]
    \cup [type : {"unsub"}, key : Keys \cup {NoKey}, call : Calls]

\* A protocol frame without a waiter, the login, and a call's own frame: a
\* frame carries the id it was registered under and the caller's payload.
ControlFrame(type) == [type |-> type, key |-> NoKey, call |-> Login]
LoginFrame(key) == [type |-> "login", key |-> key, call |-> Login]
CallFrame(c, key) ==
  [type |-> IF c \in Methods THEN "method" ELSE "sub", key |-> key, call |-> c]
UnsubFrame(c) == [type |-> "unsub", key |-> callKey[c], call |-> c]

AppTypes == {"method", "sub", "unsub"}

\* Mutant: every frame is marked, with or without an id.
MarksEverything(f) == {f.key}

\* Outbound::mark: `unsub' carries an id but nobody waits for it.
Marks(f) == IF f.type \in {"login", "method", "sub"} THEN {f.key} ELSE {}

\* The call a frame puts before the server.
Requests(f) == IF f.type \in {"method", "sub"} THEN {f.call} ELSE {}

\* The frames a server answers are kept; ping and pong want no reply here.
Answerable(f) == f.type \notin {"ping", "pong"}

Init ==
  /\ SessionInit
  /\ CorrelatorInit
  /\ caller = [c \in Calls |-> "idle"]
  /\ callKey = [c \in Calls |-> NoKey]
  /\ outcome = [c \in Calls |-> NoOutcome]
  /\ handles = TRUE
  /\ commands = <<>>
  /\ runner = "loop"
  /\ state = "Disconnected"
  /\ event = "none"
  /\ priority = <<>>
  /\ app = <<>>
  /\ unflushed = {}
  /\ needsFlush = FALSE
  /\ hsDeadline = FALSE
  /\ sink = {}
  /\ wire = {}
  /\ auth = "none"
  /\ given = {}
  /\ seen = {}

(***************************************************************************)
(* Callers                                                                 *)
(***************************************************************************)

(* call() or subscribe() hands its command over; with the channel full it  *)
(* waits, and once the runner is gone it fails at once.                    *)
Issue(c) ==
  /\ handles
  /\ caller[c] = "idle"
  /\ \/ /\ runner # "stopped"
        /\ Len(commands) < CommandCapacity
        /\ commands' = Append(commands, [op |-> "call", call |-> c])
        /\ caller' = [caller EXCEPT ![c] = "queued"]
        /\ UNCHANGED outcome
     \/ /\ runner = "stopped"
        /\ caller' = [caller EXCEPT ![c] = "done"]
        /\ outcome' = [outcome EXCEPT ![c] = Failure("NotSent")]
        /\ UNCHANGED commands
  /\ UNCHANGED <<callKey, handles, outboxVars, socketVars, runVars, sessionVars, corrVars>>

(* The caller drops its future, before or after the ack.                   *)
GiveUp(c) ==
  /\ caller[c] \in {"queued", "waiting"}
  /\ caller' = [caller EXCEPT ![c] = "gone"]
  /\ UNCHANGED <<callKey, outcome, handles, commands,
                 outboxVars, socketVars, runVars, sessionVars, corrVars>>

(* unsubscribe() of a settled subscription, at most once each.             *)
Unsubscribe(c) ==
  /\ handles
  /\ c \in Subs
  /\ caller[c] = "done"
  /\ outcome[c].tag = "Ok"
  /\ runner # "stopped"
  /\ Len(commands) < CommandCapacity
  /\ commands' = Append(commands, [op |-> "unsub", call |-> c])
  /\ caller' = [caller EXCEPT ![c] = "unsubscribed"]
  /\ UNCHANGED <<callKey, outcome, handles,
                 outboxVars, socketVars, runVars, sessionVars, corrVars>>

ShutdownQueued == \E i \in 1..Len(commands) : commands[i] = Shutdown

(* shutdown(); asking again while one is queued adds nothing.              *)
RequestShutdown ==
  /\ handles
  /\ runner # "stopped"
  /\ ~ShutdownQueued
  /\ Len(commands) < CommandCapacity
  /\ commands' = Append(commands, Shutdown)
  /\ UNCHANGED <<caller, callKey, outcome, handles,
                 outboxVars, socketVars, runVars, sessionVars, corrVars>>

(* The last handle goes; a call in flight borrows one.                     *)
DropHandles ==
  /\ handles
  /\ \A c \in Calls : caller[c] \notin {"queued", "waiting"}
  /\ handles' = FALSE
  /\ UNCHANGED <<caller, callKey, outcome, commands,
                 outboxVars, socketVars, runVars, sessionVars, corrVars>>

(***************************************************************************)
(* What ends a connection                                                  *)
(***************************************************************************)

\* Mutant: settle() forgets the batch that was never flushed.
SettledWithoutBatch(c) ==
  IF \E e \in pending : e.who = c /\ e.sent THEN Failure("Abandoned") ELSE Failure("NotSent")

\* What Correlator::disconnect sends to a waiter, once settle() has marked
\* the unflushed frames as sent.
Settled(c) ==
  IF \E e \in MarkSent(pending, unflushed) : e.who = c /\ e.sent
    THEN Failure("Abandoned")
    ELSE Failure("NotSent")

\* Mutant: a disconnect settles only the calls that were sent.
HasSentEntry(c) == \E e \in pending : e.who = c /\ e.sent

HasEntry(c) == \E e \in pending : e.who = c

(* settle(), run `n' times: the outboxes are dropped, every waiter is      *)
(* answered and a new epoch starts.  The socket is gone with it.  Callers  *)
(* in `queued' lose their ack, so they see NotSent too.                    *)
Settle(n, queued) ==
  LET lost == {c \in Calls : \/ caller[c] = "waiting" /\ HasEntry(c)
                             \/ caller[c] = "queued" /\ queued}
  IN /\ caller' = [c \in Calls |-> IF c \in lost THEN "done" ELSE caller[c]]
     /\ outcome' = [c \in Calls |-> IF c \in lost THEN Settled(c) ELSE outcome[c]]
     /\ priority' = <<>>
     /\ app' = <<>>
     /\ unflushed' = {}
     /\ needsFlush' = FALSE
     /\ hsDeadline' = FALSE
     /\ sink' = {}
     /\ wire' = {}
     /\ auth' = "none"
     /\ Disconnect(n)
     /\ UNCHANGED <<callKey, handles>>

(* Runner::disconnected, after a failed attempt or a lost socket.          *)
Disconnected ==
  /\ epoch["m"] < MaxEpoch
  /\ SessionDisconnected
  /\ Settle(1, FALSE)
  /\ runner' = "loop"
  /\ state' = "Disconnected"
  /\ event' = "Disconnected"
  /\ UNCHANGED commands

(* Mutant: the callers behind the command channel are not told.            *)
StopSilently(n) ==
  /\ Settle(n, FALSE)
  /\ runner' = "stopped"
  /\ commands' = <<>>
  /\ UNCHANGED <<given, seen>>

(* The tail of run(): the command channel dies with the runner.            *)
Stop(n) ==
  /\ Settle(n, TRUE)
  /\ runner' = "stopped"
  /\ commands' = <<>>
  /\ UNCHANGED <<given, seen>>

(***************************************************************************)
(* The reconnect loop                                                      *)
(***************************************************************************)

(* A reconnect delay that is not zero; the very first delay always is.     *)
StartIdle ==
  /\ runner = "loop"
  /\ event # "none"
  /\ runner' = "idle"
  /\ state' = "Disconnected"
  /\ UNCHANGED <<event, hsDeadline, clientVars, outboxVars, socketVars, sessionVars, corrVars>>

(* Mutant: the attempt is made without the Connecting event.               *)
StartConnectingSilently ==
  /\ runner \in {"loop", "idle"}
  /\ runner' = "opening"
  /\ state' = "Connecting"
  /\ UNCHANGED <<event, hsDeadline, clientVars, outboxVars, socketVars, sessionVars, corrVars>>

(* The delay is over, or was zero: an attempt begins.                      *)
StartConnecting ==
  /\ runner \in {"loop", "idle"}
  /\ runner' = "opening"
  /\ state' = "Connecting"
  /\ event' = "Connecting"
  /\ UNCHANGED <<hsDeadline, clientVars, outboxVars, socketVars, sessionVars, corrVars>>

OpenFails ==
  /\ runner = "opening"
  /\ Disconnected
  /\ UNCHANGED <<given, seen>>

(* open() returned a socket: drive() begins with the `connect' frame.      *)
OpenSucceeds ==
  /\ runner = "opening"
  /\ SessionConnect
  /\ runner' = "driving"
  /\ state' = "Handshaking"
  /\ hsDeadline' = TRUE
  /\ priority' = Append(priority, ControlFrame("connect"))
  /\ UNCHANGED <<event, app, clientVars, socketVars, corrVars>>

(***************************************************************************)
(* Commands, taken while idle or driving and while the outbox has room     *)
(***************************************************************************)

\* Mutant: off by one, so that an outbox of one never has room.
CanTakeCommandOffByOne ==
  /\ runner \in {"idle", "driving"}
  /\ Len(app) + 1 < OutboxCapacity

CanTakeCommand ==
  /\ runner \in {"idle", "driving"}
  /\ Len(app) < OutboxCapacity

(* A shutdown, or the last handle dropped: straight out of the loop while  *)
(* idle (where run() settles once), through close_politely with a socket.  *)
(* `rest' is what stays in the channel.                                    *)
BeginStop(rest) ==
  \/ /\ runner = "idle"
     /\ state' = "Closed"
     /\ Stop(1)
     /\ UNCHANGED <<event, sessionVars>>
  \/ /\ runner = "driving"
     /\ runner' = "closing"
     /\ commands' = rest
     /\ UNCHANGED <<state, event, hsDeadline, caller, callKey, outcome, handles,
                    outboxVars, socketVars, sessionVars, corrVars>>

(* handle_command for Command::Call and Command::Subscribe.                *)
TakeCall ==
  /\ CanTakeCommand
  /\ commands # <<>>
  /\ Head(commands).op = "call"
  /\ LET c == Head(commands).call
     IN \/ /\ caller[c] = "queued"
           /\ Register(Lane(c), c)
           /\ caller' = [caller EXCEPT ![c] = "waiting"]
           /\ callKey' = [callKey EXCEPT ![c] = NextKey(Lane(c))]
           /\ app' = Append(app, CallFrame(c, NextKey(Lane(c))))
        \/ /\ caller[c] = "gone"
           /\ RegisterAndCancel(Lane(c))
           /\ UNCHANGED <<caller, callKey, app>>
  /\ commands' = Tail(commands)
  /\ UNCHANGED <<outcome, handles, priority, socketVars, runVars, sessionVars>>

TakeUnsubscribe ==
  /\ CanTakeCommand
  /\ commands # <<>>
  /\ Head(commands).op = "unsub"
  /\ app' = Append(app, UnsubFrame(Head(commands).call))
  /\ commands' = Tail(commands)
  /\ UNCHANGED <<caller, callKey, outcome, handles,
                 priority, socketVars, runVars, sessionVars, corrVars>>

TakeShutdown ==
  /\ CanTakeCommand
  /\ commands # <<>>
  /\ Head(commands).op = "shutdown"
  /\ BeginStop(Tail(commands))

(* recv() returned None: every handle is gone and the channel is drained.  *)
HandlesDropped ==
  /\ CanTakeCommand
  /\ ~handles
  /\ commands = <<>>
  /\ BeginStop(<<>>)

(* close_politely has returned.  run() settles in the outcome's arm and    *)
(* again at its end, where nothing is left to settle.                      *)
Finish ==
  /\ runner = "closing"
  /\ Stop(2)
  /\ \/ /\ phase = "FatallyClosed"
        /\ state' = "Fatal"
        /\ event' = "Fatal"
        /\ UNCHANGED sessionVars
     \/ /\ phase # "FatallyClosed"
        /\ state' = "Closed"
        /\ SessionDisconnected
        /\ UNCHANGED event

(***************************************************************************)
(* Writes                                                                  *)
(***************************************************************************)

\* Mutant: the application lane does not wait for the login.
WritableUngated == priority # <<>> \/ app # <<>>

\* The frame poll_step offers to the sink: the protocol lane first, the
\* application lane only once the session is Ready.
Writable ==
  \/ priority # <<>>
  \/ phase = "Ready" /\ app # <<>>

NextFrame == IF priority # <<>> THEN Head(priority) ELSE Head(app)

(* start_send accepted the frame: it is in the sink's buffer, unflushed.   *)
WriteFrame ==
  /\ runner = "driving"
  /\ Writable
  /\ IF priority # <<>>
       THEN priority' = Tail(priority) /\ UNCHANGED app
       ELSE app' = Tail(app) /\ UNCHANGED priority
  /\ sink' = sink \cup {NextFrame}
  /\ unflushed' = unflushed \cup Marks(NextFrame)
  /\ given' = given \cup Requests(NextFrame)
  /\ needsFlush' = TRUE
  /\ UNCHANGED <<wire, auth, seen, clientVars, runVars, sessionVars, corrVars>>

(* start_send failed.  The frame was popped and its mark is dropped, but   *)
(* the sink buffers before it writes, and writes eagerly when an automatic *)
(* pong is queued, so the failure may come after the frame's bytes left.   *)
StartSendFails ==
  /\ runner = "driving"
  /\ Writable
  /\ Disconnected
  /\ seen' \in {seen, seen \cup Requests(NextFrame)}
  /\ UNCHANGED given

(* External: the sink puts a buffered frame on the wire, flushed or not.   *)
SinkDrains ==
  /\ runner \in {"driving", "closing"}
  /\ \E f \in sink :
       /\ sink' = sink \ {f}
       /\ wire' = wire \cup {g \in {f} : Answerable(g)}
       /\ seen' = seen \cup Requests(f)
  /\ UNCHANGED <<unflushed, needsFlush, auth, given,
                 clientVars, outboxVars, runVars, sessionVars, corrVars>>

(* poll_flush completed: the whole batch is known to be on the wire.       *)
FlushCompletes ==
  /\ runner = "driving"
  /\ needsFlush
  /\ sink = {}
  /\ needsFlush' = FALSE
  /\ pending' = MarkSent(pending, unflushed)
  /\ unflushed' = {}
  /\ UNCHANGED <<epoch, nextId, sink, wire, auth, given, seen,
                 clientVars, outboxVars, runVars, sessionVars>>

(***************************************************************************)
(* Reads and timers                                                        *)
(***************************************************************************)

(* External: the server decides about the login of this socket.            *)
ServerLogin ==
  /\ auth = "none"
  /\ \E f \in wire : f.type = "login"
  /\ auth' \in {"accepted", "rejected"}
  /\ UNCHANGED <<unflushed, needsFlush, sink, wire, given, seen,
                 clientVars, outboxVars, runVars, sessionVars, corrVars>>

(* `connected', the server's answer to `connect': log in.                  *)
ReadConnected ==
  /\ runner = "driving"
  /\ ControlFrame("connect") \in wire
  /\ wire' = wire \ {ControlFrame("connect")}
  /\ SessionConnected(NextKey("m"))
  /\ Register("m", Login)
  /\ priority' = Append(priority, LoginFrame(NextKey("m")))
  /\ state' = "Authenticating"
  /\ event' = "Connected"
  /\ UNCHANGED <<runner, hsDeadline, app, unflushed, needsFlush, sink, auth, given, seen,
                 clientVars>>

(* `failed', its other answer: the server speaks no version of ours.       *)
ReadFailed ==
  /\ runner = "driving"
  /\ ControlFrame("connect") \in wire
  /\ wire' = wire \ {ControlFrame("connect")}
  /\ SessionFailed
  /\ runner' = "closing"
  /\ state' = "Fatal"
  /\ UNCHANGED <<event, hsDeadline, unflushed, needsFlush, sink, auth, given, seen,
                 clientVars, outboxVars, corrVars>>

(* `result' of the login: the session is Ready and its consumers must      *)
(* resubscribe, or it is over for good.                                    *)
ReadLoginResult(f) ==
  /\ runner = "driving"
  /\ f \in wire
  /\ f.type = "login"
  /\ f.key = loginCall
  /\ auth # "none"
  /\ SessionResult(f.key, auth = "accepted")
  /\ Resolve({f.key})
  /\ \/ /\ auth = "accepted"
        /\ state' = "Ready"
        /\ event' = "Resubscribe"
        /\ hsDeadline' = FALSE
        /\ UNCHANGED runner
     \/ /\ auth = "rejected"
        /\ state' = "Fatal"
        /\ runner' = "closing"
        /\ UNCHANGED <<event, hsDeadline>>
  /\ UNCHANGED <<clientVars, outboxVars, socketVars>>

\* Mutant: a reply that comes again is handed over again, entry or no entry.
ReachedAgain(F) ==
  {c \in Calls : caller[c] \in {"waiting", "done"} /\ c \in {f.call : f \in F}}

\* The waiting callers that the answers to the frames F reach, and what
\* they are handed: `of' is whose request was answered.
Reached(F) ==
  {c \in Calls : /\ caller[c] = "waiting"
                 /\ \E e \in Answered({f.key : f \in F}) : e.who = c}

AnsweredRequests(c, F) ==
  {f.call : f \in {g \in F : \E e \in pending : e.who = c /\ e.key = g.key}}

(* The correlator's part of a `result', `ready' or `nosub' frame.          *)
Answer(F, tag) ==
  /\ Resolve({f.key : f \in F})
  /\ caller' = [c \in Calls |-> IF c \in Reached(F) THEN "done" ELSE caller[c]]
  /\ outcome' = [c \in Calls |->
       IF c \in Reached(F) THEN [tag |-> tag, of |-> AnsweredRequests(c, F)] ELSE outcome[c]]
  /\ UNCHANGED <<callKey, handles, commands, outboxVars, socketVars, runVars, sessionVars>>

(* `result' of a method call, the first or a repeated one.                 *)
ReadResult(f, tag) ==
  /\ runner = "driving"
  /\ f \in wire
  /\ f.type = "method"
  /\ Answer({f}, tag)

(* `ready' may batch several subscriptions.                                *)
ReadReady(F) ==
  /\ runner = "driving"
  /\ F # {}
  /\ F \subseteq {f \in wire : f.type = "sub"}
  /\ Answer(F, "Ok")

(* `nosub': a refused sub, an ended one, or the answer to an unsub.        *)
ReadNosub(f, tag) ==
  /\ runner = "driving"
  /\ f \in wire
  /\ f.type \in {"sub", "unsub"}
  /\ Answer({f}, tag)

(* The server pings: the pong goes on the protocol lane.                   *)
ReadPing ==
  /\ runner = "driving"
  /\ Len(priority) < PriorityBound
  /\ priority' = Append(priority, ControlFrame("pong"))
  /\ UNCHANGED <<app, clientVars, socketVars, runVars, sessionVars, corrVars>>

(* on_deadline with liveness saying SendPing or Healthy.                   *)
LivenessTimer ==
  /\ runner = "driving"
  /\ hsDeadline' = (hsDeadline /\ phase # "Ready")
  /\ \/ /\ Len(priority) < PriorityBound
        /\ priority' = Append(priority, ControlFrame("ping"))
     \/ UNCHANGED priority
  /\ UNCHANGED <<runner, state, event, app, clientVars, socketVars, sessionVars, corrVars>>

(* Mutant: the budget no longer counts once the server said `connected'.   *)
HandshakeTimeoutUntilConnected ==
  /\ runner = "driving"
  /\ hsDeadline
  /\ phase = "Handshaking"
  /\ Disconnected
  /\ UNCHANGED <<given, seen>>

(* on_deadline past the handshake budget.                                  *)
HandshakeTimeout ==
  /\ runner = "driving"
  /\ hsDeadline
  /\ phase # "Ready"
  /\ Disconnected
  /\ UNCHANGED <<given, seen>>

(* The peer closed, the socket failed, or liveness declared it dead.       *)
LoseSocket ==
  /\ runner = "driving"
  /\ Disconnected
  /\ UNCHANGED <<given, seen>>

Read ==
  \/ ReadConnected
  \/ ReadFailed
  \/ \E f \in wire : ReadLoginResult(f)
  \/ \E f \in wire, tag \in {"Ok", "Server"} : ReadResult(f, tag)
  \/ \E F \in SUBSET wire : ReadReady(F)
  \/ \E f \in wire, tag \in {"Ok", "Server"} : ReadNosub(f, tag)
  \/ ReadPing

ClientNext ==
  \/ \E c \in Calls : Issue(c) \/ GiveUp(c) \/ Unsubscribe(c)
  \/ RequestShutdown
  \/ DropHandles

RunnerNext ==
  \/ StartIdle \/ StartConnecting \/ OpenFails \/ OpenSucceeds
  \/ TakeCall \/ TakeUnsubscribe \/ TakeShutdown \/ HandlesDropped \/ Finish
  \/ WriteFrame \/ StartSendFails \/ FlushCompletes
  \/ Read \/ LivenessTimer \/ HandshakeTimeout \/ LoseSocket

ServerNext == SinkDrains \/ ServerLogin

Next == ClientNext \/ RunnerNext \/ ServerNext

Spec == Init /\ [][Next]_vars

(***************************************************************************)
(* Fairness.  The runtime polls a task that can make progress, so every    *)
(* step of the runner that is ready is eventually taken; commands need     *)
(* strong fairness because idle() and drive() offer them again and again   *)
(* without holding them continuously enabled.  A sink that is not lost     *)
(* eventually drains, and an armed handshake timer fires.                  *)
(***************************************************************************)
TakeCommand == TakeCall \/ TakeUnsubscribe \/ TakeShutdown \/ HandlesDropped

RunnerFairness ==
  /\ WF_vars(StartConnecting)
  /\ WF_vars(OpenSucceeds \/ OpenFails)
  /\ WF_vars(WriteFrame)
  /\ WF_vars(FlushCompletes)
  /\ WF_vars(Finish)
  /\ WF_vars(HandshakeTimeout)
  /\ SF_vars(TakeCommand)
  /\ WF_vars(SinkDrains)

(* A server that answers: the handshake, the login and every request.      *)
ServerFairness ==
  /\ WF_vars(ReadConnected \/ ReadFailed)
  /\ WF_vars(ServerLogin)
  /\ WF_vars(\E f \in wire : ReadLoginResult(f))
  /\ \A c \in Calls : WF_vars(\E f \in wire, tag \in {"Ok", "Server"} :
                                 f.call = c /\ (ReadResult(f, tag) \/ ReadNosub(f, tag)))

FairSpec == Spec /\ RunnerFairness

(***************************************************************************)
(* Properties                                                              *)
(***************************************************************************)

TypeOK ==
  /\ phase \in Phases
  /\ loginCall \in Keys \cup {NoKey}
  /\ epoch \in [Lanes -> Nat]
  /\ nextId \in [Lanes -> Nat]
  /\ pending \subseteq Entries
  /\ caller \in [Calls -> CallerStates]
  /\ callKey \in [Calls -> Keys \cup {NoKey}]
  /\ outcome \in [Calls -> Outcomes]
  /\ handles \in BOOLEAN
  /\ commands \in Seq(Commands)
  /\ runner \in RunnerStates
  /\ state \in ConnectionStates
  /\ event \in LifecycleEvents
  /\ priority \in Seq(Frames)
  /\ app \in Seq(Frames)
  /\ unflushed \subseteq Keys
  /\ needsFlush \in BOOLEAN
  /\ hsDeadline \in BOOLEAN
  /\ sink \subseteq Frames
  /\ wire \subseteq Frames
  /\ auth \in {"none", "accepted", "rejected"}
  /\ given \subseteq Calls
  /\ seen \subseteq Calls

(* CallError::NotSent and CallError::Abandoned are told apart exactly by   *)
(* whether the sink accepted the call's frame (settle()'s contract).       *)
ExactClassification ==
  \A c \in Calls :
    /\ outcome[c].tag = "NotSent" => c \notin given
    /\ outcome[c].tag = "Abandoned" => c \in given

(* A caller is only ever handed the answer to its own request: across      *)
(* reconnects, repeated replies, batched `ready' frames and the logins     *)
(* that share the method id space (Correlator::resolve).                   *)
AnswerMatches ==
  \A c \in Calls : outcome[c].tag \in {"Ok", "Server"} => outcome[c].of = {c}

(* No method, sub or unsub is handed to a socket whose login the server    *)
(* has not accepted (poll_step's `writable', and what a reconnect resets). *)
AppOnlyAfterLogin ==
  \A f \in sink \cup wire : f.type \in AppTypes => auth = "accepted"

(* Nobody waits on nothing: a waiting caller has an entry to be settled by *)
(* and its frame is either still in the outbox or was accepted by the      *)
(* socket that is open now (register, poll_step, settle).                  *)
InOutbox(c) == \E i \in 1..Len(app) : app[i] = CallFrame(c, callKey[c])
OnSocket(e) == (e.sent \/ e.key \in unflushed) /\ runner \in {"driving", "closing"}

PendingAccounted ==
  \A c \in Calls : caller[c] = "waiting" =>
    \E e \in pending :
      /\ e.who = c
      /\ e.key = callKey[c]
      /\ InOutbox(c) \/ OnSocket(e)

(* The two tables move in lockstep and hold entries of the current epoch   *)
(* only, so Resolution::StaleEpoch is never the answer to a reply and the  *)
(* epoch of Event::Resubscribe, read from one, is valid for the other.     *)
EpochLockstep ==
  /\ epoch["m"] = epoch["s"]
  /\ \A e \in pending : e.epoch = epoch[e.key[1]]

(* Once run() has returned nobody is left waiting, queued or registered:   *)
(* "every disconnect settles every waiter".                                *)
AllSettledAtEnd ==
  runner = "stopped" =>
    /\ pending = {}
    /\ commands = <<>>
    /\ state \in {"Closed", "Fatal"}
    /\ \A c \in Calls : caller[c] \notin {"queued", "waiting"}

(* What observers see follows the Lifecycle contract.                      *)
Observed == INSTANCE Lifecycle WITH state <- state, event <- event
LifecycleContract == Observed!Spec

(* A future resolves at most once, and an id once handed to a caller is    *)
(* never handed to another one or changed.                                 *)
SettledOnce ==
  [][\A c \in Calls :
       /\ outcome[c] # NoOutcome => outcome'[c] = outcome[c]
       /\ callKey[c] # NoKey => /\ callKey'[c] = callKey[c]
                                /\ \A d \in Calls \ {c} : callKey'[d] # callKey[c]]_vars

(* A server that never answers the handshake cannot hold the runner: the   *)
(* handshake budget ends the attempt (Config::handshake_timeout).  At the  *)
(* bound on epochs no attempt may fail any more.                           *)
HandshakeBounded ==
  /\ runner = "driving" /\ phase \in {"Handshaking", "Authenticating"}
       /\ epoch["m"] < MaxEpoch
     ~> (runner # "driving" \/ phase = "Ready")

(* With a server that answers, every call that was queued or registered    *)
(* resolves, whatever reconnects lie in between.                           *)
CallsResolve ==
  ServerFairness =>
    \A c \in Calls : caller[c] \in {"queued", "waiting"} ~> caller[c] \notin {"queued", "waiting"}

(* A shutdown, or the last handle dropped, stops the runner even from      *)
(* behind a full outbox.  The server has to answer: a write, which needs   *)
(* the login, or a lost connection makes room for the command.             *)
ShutdownStops == ServerFairness => (ShutdownQueued \/ ~handles) ~> runner = "stopped"

(* The doc of CallError::NotSent: "Safe to retry: the server never saw     *)
(* it."                                                                    *)
NotSentNeverSeen == \A c \in Calls : outcome[c].tag = "NotSent" => c \notin seen

=============================================================================
