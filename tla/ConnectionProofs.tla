-------------------------- MODULE ConnectionProofs --------------------------
(***************************************************************************)
(* Proofs about Connection.tla, for every set of calls, every capacity and *)
(* any number of reconnects.  The invariants of ConnectionInv.tla are      *)
(* inductive:                                                              *)
(*   - every variable keeps its type;                                      *)
(*   - ConnectionInvariant: a future that fails says truthfully whether    *)
(*     its frame was given to a socket, and one that succeeds carries the  *)
(*     answer to its own request;                                          *)
(*   - SocketInvariant: nothing of a caller is handed to a socket before   *)
(*     its login is accepted, and what the runner shows its observers      *)
(*     implements the contract of Lifecycle.tla;                           *)
(*   - WaitingInvariant: a caller that waits is waiting for something, and *)
(*     when run() has returned nobody is left waiting.                     *)
(***************************************************************************)
EXTENDS ConnectionInv, TLAPS

-----------------------------------------------------------------------------
(***** Types *************************************************************)

(* The option of an id that is None is not an id.                          *)
LEMMA NoKeyNotKey == NoKey \notin Keys
  BY DEF NoKey, Keys, Lanes

LEMMA LaneType == ASSUME NEW c \in Calls PROVE Lane(c) \in Lanes
  BY DEF Lane, Lanes

(* The next id of a table is an id, and not one that was handed out.       *)
LEMMA NextKeyFresh ==
  ASSUME NEW l \in Lanes, nextId \in [Lanes -> Nat]
  PROVE  /\ NextKey(l) \in Keys
         /\ ~Old(NextKey(l))
  BY DEF NextKey, Keys, Old

LEMMA LoginNotCall == Login \notin Calls
  BY CallAssumption DEF Calls

(* Correlator::register keeps the tables well formed.                      *)
LEMMA RegisterType ==
  ASSUME TypeOK, NEW l \in Lanes, NEW who \in Calls \cup {Login}, Register(l, who)
  PROVE  /\ nextId' \in [Lanes -> Nat]
         /\ epoch' \in [Lanes -> Nat]
         /\ pending' \subseteq Entries
<1>1. NextKey(l) \in Keys
  BY NextKeyFresh DEF TypeOK
<1>2. nextId' \in [Lanes -> Nat] /\ epoch' \in [Lanes -> Nat]
  BY DEF TypeOK, Register
<1>3. [key |-> NextKey(l), epoch |-> epoch[l], sent |-> FALSE, who |-> who] \in Entries
  <2>1. epoch[l] \in Nat
    BY DEF TypeOK
  <2> QED BY <1>1, <2>1 DEF Entries
<1> QED BY <1>2, <1>3 DEF TypeOK, Register

(* The part of TypeOK about what settle() writes or keeps, and the rest.   *)
SettledTypeOK ==
  /\ epoch \in [Lanes -> Nat]
  /\ nextId \in [Lanes -> Nat]
  /\ pending \subseteq Entries
  /\ caller \in [Calls -> CallerStates]
  /\ callKey \in [Calls -> Keys \cup {NoKey}]
  /\ outcome \in [Calls -> Outcomes]
  /\ handles \in BOOLEAN
  /\ priority \in Seq(Frames)
  /\ app \in Seq(Frames)
  /\ unflushed \subseteq Keys
  /\ needsFlush \in BOOLEAN
  /\ hsDeadline \in BOOLEAN
  /\ sink \subseteq Frames
  /\ wire \subseteq Frames
  /\ auth \in {"none", "accepted", "rejected"}

ControlTypeOK ==
  /\ phase \in Phases
  /\ loginCall \in Keys \cup {NoKey}
  /\ commands \in Seq(Commands)
  /\ runner \in RunnerStates
  /\ state \in ConnectionStates
  /\ event \in LifecycleEvents
  /\ given \subseteq Calls
  /\ seen \subseteq Calls

LEMMA TypeSplit == TypeOK <=> SettledTypeOK /\ ControlTypeOK
  BY DEF TypeOK, SettledTypeOK, ControlTypeOK

(* settle() and everything it touches keeps its type.                      *)
LEMMA SettleType ==
  ASSUME TypeOK, NEW n \in Nat, NEW queued \in BOOLEAN, Settle(n, queued)
  PROVE  SettledTypeOK'
<1>1. \A c \in Calls : Settled(c) \in Outcomes
  BY DEF Settled, Failure, Outcomes
<1>2. caller' \in [Calls -> CallerStates] /\ outcome' \in [Calls -> Outcomes]
  BY <1>1 DEF Settle, TypeOK, CallerStates
<1>3. epoch' \in [Lanes -> Nat] /\ nextId' \in [Lanes -> Nat] /\ pending' \subseteq Entries
  BY DEF Settle, Disconnect, TypeOK
<1>4. priority' \in Seq(Frames) /\ app' \in Seq(Frames)
  BY DEF Settle
<1>5. needsFlush' \in BOOLEAN /\ hsDeadline' \in BOOLEAN
  BY DEF Settle
<1>6. handles' \in BOOLEAN /\ callKey' \in [Calls -> Keys \cup {NoKey}]
  BY DEF Settle, TypeOK
<1>7. /\ unflushed' \subseteq Keys /\ sink' \subseteq Frames /\ wire' \subseteq Frames
      /\ auth' \in {"none", "accepted", "rejected"}
  BY DEF Settle
<1> QED BY <1>2, <1>3, <1>4, <1>5, <1>6, <1>7 DEF SettledTypeOK

(* Type correctness: Connection's variables keep the shapes of the         *)
(* runner's fields through every handler.                                  *)
LEMMA TypeStep == TypeOK /\ [Next]_vars => TypeOK'
<1> SUFFICES ASSUME TypeOK, [Next]_vars PROVE TypeOK'
  OBVIOUS
<1> USE DEF clientVars, outboxVars, socketVars, runVars, sessionVars, corrVars
<1>1. ASSUME NEW c \in Calls, Issue(c) PROVE TypeOK'
  <2>1. [op |-> "call", call |-> c] \in Commands
    BY DEF Commands
  <2>2. Failure("NotSent") \in Outcomes
    BY DEF Failure, Outcomes
  <2>3. commands' \in Seq(Commands)
    <3>1. CASE commands' = commands
      BY <3>1 DEF TypeOK
    <3>2. CASE commands' = Append(commands, [op |-> "call", call |-> c])
      BY <3>2, <2>1 DEF TypeOK
    <3> QED BY <1>1, <3>1, <3>2 DEF Issue
  <2>4. outcome' \in [Calls -> Outcomes]
    BY <1>1, <2>2 DEF Issue, TypeOK
  <2>5. caller' \in [Calls -> CallerStates]
    BY <1>1 DEF Issue, TypeOK, CallerStates
  <2> QED BY <1>1, <2>3, <2>4, <2>5 DEF Issue, TypeOK
<1>2. ASSUME NEW c \in Calls, GiveUp(c) PROVE TypeOK'
  BY <1>2 DEF GiveUp, TypeOK, CallerStates
<1>3. ASSUME NEW c \in Calls, Unsubscribe(c) PROVE TypeOK'
  BY <1>3 DEF Unsubscribe, TypeOK, CallerStates, Commands
<1>4. CASE RequestShutdown
  BY <1>4 DEF RequestShutdown, TypeOK, Commands
<1>5. CASE DropHandles
  BY <1>5 DEF DropHandles, TypeOK
<1>6. CASE StartIdle
  BY <1>6 DEF StartIdle, TypeOK, RunnerStates, ConnectionStates
<1>7. CASE StartConnecting
  BY <1>7 DEF StartConnecting, TypeOK, RunnerStates, ConnectionStates, LifecycleEvents
<1>8. ASSUME Disconnected, given' = given, seen' \subseteq Calls PROVE TypeOK'
  <2>1. SettledTypeOK'
    BY <1>8, SettleType DEF Disconnected
  <2>2. ControlTypeOK'
    BY <1>8 DEF Disconnected, SessionDisconnected, TypeOK, ControlTypeOK, Phases,
       RunnerStates, ConnectionStates, LifecycleEvents
  <2> QED BY <2>1, <2>2, TypeSplit, PTL
<1>9. CASE OpenFails
  BY <1>9, <1>8 DEF OpenFails, TypeOK
<1>10. CASE OpenSucceeds
  BY <1>10 DEF OpenSucceeds, TypeOK, SessionConnect, Phases, RunnerStates, ConnectionStates,
     ControlFrame, Frames
<1>11. CASE TakeCall
  <2>1. CASE commands # <<>> /\ Head(commands).op = "call"
    <3> DEFINE c == Head(commands).call
    <3>1. c \in Calls /\ Tail(commands) \in Seq(Commands)
      BY <2>1 DEF TypeOK, Commands, Shutdown
    <3>2. Lane(c) \in Lanes /\ NextKey(Lane(c)) \in Keys
      BY <3>1, LaneType, NextKeyFresh DEF TypeOK
    <3>3. CallFrame(c, NextKey(Lane(c))) \in Frames
      BY <3>1, <3>2 DEF CallFrame, Frames
    <3>4. CASE caller[c] = "queued"
      <4>1. /\ Register(Lane(c), c)
            /\ caller' = [caller EXCEPT ![c] = "waiting"]
            /\ callKey' = [callKey EXCEPT ![c] = NextKey(Lane(c))]
            /\ app' = Append(app, CallFrame(c, NextKey(Lane(c))))
        BY <1>11, <3>4 DEF TakeCall
      <4>2. /\ nextId' \in [Lanes -> Nat]
            /\ epoch' \in [Lanes -> Nat]
            /\ pending' \subseteq Entries
        BY <4>1, <3>1, <3>2, RegisterType
      <4> HIDE DEF c
      <4>3. app' \in Seq(Frames)
        BY <4>1, <3>3 DEF TypeOK
      <4> QED
        BY <1>11, <3>1, <3>2, <4>1, <4>2, <4>3 DEF TakeCall, TypeOK, CallerStates, c
    <3>5. CASE caller[c] = "gone"
      <4>1. UNCHANGED <<caller, callKey, app, epoch, pending>>
        BY <1>11, <3>5 DEF TakeCall, RegisterAndCancel
      <4>2. nextId' = [nextId EXCEPT ![Lane(c)] = @ + 1]
        BY <1>11, <3>5 DEF TakeCall, RegisterAndCancel
      <4>3. nextId' \in [Lanes -> Nat]
        BY <4>2, <3>2 DEF TypeOK
      <4> QED BY <1>11, <3>1, <4>1, <4>3 DEF TakeCall, TypeOK
    <3> QED BY <1>11, <3>4, <3>5 DEF TakeCall
  <2> QED BY <1>11, <2>1 DEF TakeCall
<1>12. CASE TakeUnsubscribe
  <2>1. /\ Head(commands).call \in Calls /\ Tail(commands) \in Seq(Commands)
    BY <1>12 DEF TakeUnsubscribe, TypeOK, Commands, Shutdown
  <2>2. UnsubFrame(Head(commands).call) \in Frames
    BY <2>1 DEF UnsubFrame, Frames, TypeOK
  <2> QED BY <1>12, <2>1, <2>2 DEF TakeUnsubscribe, TypeOK
<1>13. ASSUME NEW rest \in Seq(Commands), BeginStop(rest) PROVE TypeOK'
  <2>1. CASE runner = "idle"
    <3>1. Settle(1, TRUE) /\ state' = "Closed" /\ runner' = "stopped" /\ commands' = <<>>
          /\ UNCHANGED <<event, phase, loginCall, given, seen>>
      BY <1>13, <2>1 DEF BeginStop, Stop
    <3>2. SettledTypeOK'
      BY <3>1, SettleType
    <3>3. ControlTypeOK'
      BY <3>1 DEF TypeOK, ControlTypeOK, RunnerStates, ConnectionStates
    <3> QED BY <3>2, <3>3, TypeSplit, PTL
  <2>2. CASE runner = "driving"
    BY <1>13, <2>2 DEF BeginStop, TypeOK, RunnerStates
  <2> QED BY <1>13, <2>1, <2>2 DEF BeginStop
<1>14. CASE TakeShutdown
  <2>1. Tail(commands) \in Seq(Commands)
    BY <1>14 DEF TakeShutdown, TypeOK
  <2> QED BY <1>14, <2>1, <1>13 DEF TakeShutdown
<1>15. CASE HandlesDropped
  BY <1>15, <1>13 DEF HandlesDropped, TypeOK
<1>16. CASE Finish
  <2>1. SettledTypeOK'
    BY <1>16, SettleType DEF Finish, Stop
  <2>2. ControlTypeOK'
    BY <1>16 DEF Finish, Stop, SessionDisconnected, TypeOK, ControlTypeOK, Phases,
       RunnerStates, ConnectionStates, LifecycleEvents
  <2> QED BY <2>1, <2>2, TypeSplit, PTL
<1>17. Writable => NextFrame \in Frames
  BY DEF Writable, NextFrame, TypeOK
<1>18. Writable => Marks(NextFrame) \subseteq Keys /\ Requests(NextFrame) \subseteq Calls
  <2> SUFFICES ASSUME Writable
               PROVE  Marks(NextFrame) \subseteq Keys /\ Requests(NextFrame) \subseteq Calls
    OBVIOUS
  <2> QED BY <1>17 DEF Marks, Requests, Frames
<1>19. CASE WriteFrame
  <2>1. priority' \in Seq(Frames) /\ app' \in Seq(Frames)
    <3>1. CASE priority # <<>>
      <4>1. priority' = Tail(priority) /\ app' = app
        BY <1>19, <3>1 DEF WriteFrame
      <4> QED BY <3>1, <4>1 DEF TypeOK
    <3>2. CASE priority = <<>>
      <4>1. app # <<>> /\ app' = Tail(app) /\ priority' = priority
        BY <1>19, <3>2 DEF WriteFrame, Writable
      <4> QED BY <4>1 DEF TypeOK
    <3> QED BY <3>1, <3>2
  <2>2. /\ sink' \subseteq Frames
        /\ unflushed' \subseteq Keys
        /\ given' \subseteq Calls
        /\ needsFlush' = TRUE
    BY <1>19, <1>17, <1>18 DEF WriteFrame, TypeOK
  <2> QED BY <1>19, <2>1, <2>2 DEF WriteFrame, TypeOK
<1>20. CASE StartSendFails
  <2>1. seen' \subseteq Calls
    BY <1>20, <1>18 DEF StartSendFails, TypeOK
  <2> QED BY <1>20, <1>8, <2>1 DEF StartSendFails
<1>21. CASE SinkDrains
  <2>1. PICK f \in sink : /\ sink' = sink \ {f}
                          /\ wire' = wire \cup {g \in {f} : Answerable(g)}
                          /\ seen' = seen \cup Requests(f)
    BY <1>21 DEF SinkDrains
  <2>2. f \in Frames /\ Requests(f) \subseteq Calls
    BY <2>1 DEF TypeOK, Requests, Frames
  <2>3. sink' \subseteq Frames /\ wire' \subseteq Frames /\ seen' \subseteq Calls
    BY <2>1, <2>2 DEF TypeOK
  <2> QED BY <1>21, <2>3 DEF SinkDrains, TypeOK
<1>22. CASE FlushCompletes
  <2>1. pending' \subseteq Entries
    <3>1. ASSUME NEW e \in pending PROVE [e EXCEPT !.sent = @ \/ e.key \in unflushed] \in Entries
      <4>1. e \in Entries
        BY DEF TypeOK
      <4>2. (e.sent \/ e.key \in unflushed) \in BOOLEAN
        OBVIOUS
      <4> QED BY <4>1, <4>2 DEF Entries
    <3> QED BY <1>22, <3>1 DEF FlushCompletes, MarkSent
  <2> QED BY <1>22, <2>1 DEF FlushCompletes, TypeOK
<1>23. CASE ServerLogin
  BY <1>23 DEF ServerLogin, TypeOK
<1>24. CASE ReadConnected
  <2>1. Register("m", Login) /\ NextKey("m") \in Keys
    BY <1>24, NextKeyFresh DEF ReadConnected, TypeOK, Lanes
  <2>2. /\ nextId' \in [Lanes -> Nat]
        /\ epoch' \in [Lanes -> Nat]
        /\ pending' \subseteq Entries
    BY <2>1, RegisterType DEF Lanes
  <2>3. LoginFrame(NextKey("m")) \in Frames
    BY <2>1 DEF LoginFrame, Frames
  <2>4. priority' \in Seq(Frames)
    BY <1>24, <2>3 DEF ReadConnected, TypeOK
  <2> QED
    BY <1>24, <2>1, <2>2, <2>4 DEF ReadConnected, SessionConnected, TypeOK, Phases,
       ConnectionStates, LifecycleEvents
<1>25. CASE ReadFailed
  BY <1>25 DEF ReadFailed, SessionFailed, TypeOK, Phases, RunnerStates, ConnectionStates
<1>26. ASSUME NEW f \in wire, ReadLoginResult(f) PROVE TypeOK'
  <2>1. phase' \in Phases /\ loginCall' \in Keys \cup {NoKey}
    BY <1>26 DEF ReadLoginResult, SessionResult, Phases, TypeOK
  <2>2. pending' \subseteq Entries /\ UNCHANGED <<epoch, nextId>>
    BY <1>26 DEF ReadLoginResult, Resolve, TypeOK
  <2>3. /\ runner' \in RunnerStates /\ state' \in ConnectionStates
        /\ event' \in LifecycleEvents /\ hsDeadline' \in BOOLEAN
    <3>1. CASE auth = "accepted"
      BY <1>26, <3>1 DEF ReadLoginResult, TypeOK, ConnectionStates, LifecycleEvents
    <3>2. CASE auth = "rejected"
      BY <1>26, <3>2 DEF ReadLoginResult, TypeOK, RunnerStates, ConnectionStates
    <3> QED BY <1>26, <3>1, <3>2 DEF ReadLoginResult
  <2> QED BY <1>26, <2>1, <2>2, <2>3 DEF ReadLoginResult, TypeOK
<1>27. ASSUME NEW F \in SUBSET wire, \A f \in F : f.type \in AppTypes,
              NEW tag \in {"Ok", "Server"}, Answer(F, tag)
       PROVE  TypeOK'
  <2>1. \A c \in Calls : AnsweredRequests(c, F) \subseteq Calls
    <3> SUFFICES ASSUME NEW f \in F PROVE f.call \in Calls
      BY DEF AnsweredRequests
    <3> QED BY <1>27 DEF TypeOK, Frames, AppTypes
  <2>2. \A c \in Calls : [tag |-> tag, of |-> AnsweredRequests(c, F)] \in Outcomes
    BY <2>1 DEF Outcomes
  <2>3. outcome' \in [Calls -> Outcomes]
    BY <1>27, <2>2 DEF Answer, TypeOK
  <2>4. caller' \in [Calls -> CallerStates]
    BY <1>27 DEF Answer, TypeOK, CallerStates
  <2>5. pending' \subseteq Entries /\ UNCHANGED <<epoch, nextId>>
    BY <1>27 DEF Answer, Resolve, TypeOK
  <2> QED BY <1>27, <2>3, <2>4, <2>5 DEF Answer, TypeOK
<1>28. ASSUME NEW f \in wire, NEW tag \in {"Ok", "Server"}, ReadResult(f, tag) PROVE TypeOK'
  BY <1>28, <1>27 DEF ReadResult, AppTypes
<1>29. ASSUME NEW F \in SUBSET wire, ReadReady(F) PROVE TypeOK'
  BY <1>29, <1>27 DEF ReadReady, AppTypes
<1>30. ASSUME NEW f \in wire, NEW tag \in {"Ok", "Server"}, ReadNosub(f, tag) PROVE TypeOK'
  BY <1>30, <1>27 DEF ReadNosub, AppTypes
<1>31. CASE ReadPing
  <2>1. priority' \in Seq(Frames)
    BY <1>31 DEF ReadPing, TypeOK, ControlFrame, Frames
  <2> QED BY <1>31, <2>1 DEF ReadPing, TypeOK
<1>32. CASE LivenessTimer
  <2>1. priority' \in Seq(Frames) /\ hsDeadline' \in BOOLEAN
    <3>1. hsDeadline' \in BOOLEAN
      BY <1>32 DEF LivenessTimer
    <3>2. ControlFrame("ping") \in Frames
      BY DEF ControlFrame, Frames
    <3>3. CASE UNCHANGED priority
      BY <3>1, <3>3 DEF TypeOK
    <3>4. CASE priority' = Append(priority, ControlFrame("ping"))
      BY <3>1, <3>2, <3>4 DEF TypeOK
    <3> QED BY <1>32, <3>1, <3>3, <3>4 DEF LivenessTimer
  <2> QED BY <1>32, <2>1 DEF LivenessTimer, TypeOK
<1>33. CASE HandshakeTimeout
  BY <1>33, <1>8 DEF HandshakeTimeout, TypeOK
<1>34. CASE LoseSocket
  BY <1>34, <1>8 DEF LoseSocket, TypeOK
<1>35. CASE UNCHANGED vars
  BY <1>35 DEF vars, TypeOK
<1> QED
  BY <1>1, <1>2, <1>3, <1>4, <1>5, <1>6, <1>7, <1>9, <1>10, <1>11, <1>12, <1>14, <1>15, <1>16,
     <1>19, <1>20, <1>21, <1>22, <1>23, <1>24, <1>25, <1>26, <1>28, <1>29, <1>30, <1>31, <1>32,
     <1>33, <1>34, <1>35
  DEF Next, ClientNext, RunnerNext, ServerNext, Read

(* The runner as spawn() leaves it is well typed.                          *)
LEMMA TypeInit == Init => TypeOK
<1> SUFFICES ASSUME Init PROVE TypeOK
  OBVIOUS
<1>1. SettledTypeOK
  <2>1. NoOutcome \in Outcomes
    BY DEF NoOutcome, Outcomes
  <2>2. outcome \in [Calls -> Outcomes]
    BY <2>1 DEF Init
  <2>3. needsFlush \in BOOLEAN /\ hsDeadline \in BOOLEAN /\ handles \in BOOLEAN
    BY DEF Init
  <2> QED
    BY <2>2, <2>3 DEF Init, CorrelatorInit, SettledTypeOK, CallerStates
<1>2. ControlTypeOK
  BY DEF Init, SessionInit, ControlTypeOK, Phases, RunnerStates, ConnectionStates,
     LifecycleEvents
<1> QED BY <1>1, <1>2, TypeSplit

(* Every variable keeps its type, whatever the calls, the capacities and   *)
(* the number of reconnects.                                               *)
THEOREM TypeCorrect == Spec => []TypeOK
  BY TypeInit, TypeStep, PTL DEF Spec

-----------------------------------------------------------------------------
(***** ConnectionInvariant ***********************************************)

(* The initial state.                                                      *)
LEMMA InvInit == Init => ConnectionInvariant
<1> SUFFICES ASSUME Init PROVE ConnectionInvariant
  OBVIOUS
<1>1. TypeOK
  BY TypeInit
<1>2. KeysHandedOut /\ KeysDistinct
  BY DEF Init, CorrelatorInit, KeysHandedOut, KeysDistinct
<1>3. CallersConsistent /\ EntriesConsistent
  BY DEF Init, CorrelatorInit, CallersConsistent, EntriesConsistent
<1>4. OutboxConsistent /\ WireConsistent /\ CommandsConsistent
  BY DEF Init, OutboxConsistent, WireConsistent, CommandsConsistent
<1>5. ExactClassification /\ AnswerMatches
  BY DEF Init, ExactClassification, AnswerMatches, NoOutcome
<1>6. EpochLockstep
  BY DEF Init, CorrelatorInit, EpochLockstep, Lanes
<1> QED BY <1>1, <1>2, <1>3, <1>4, <1>5, <1>6 DEF ConnectionInvariant

(* A step that touches nothing but the runner's control state.             *)
LEMMA QuietStep ==
  ASSUME ConnectionInvariant, TypeOK', wire' \subseteq wire,
         CommandsConsistent',
         UNCHANGED <<epoch, nextId, pending, callKey, unflushed, priority, app, caller, given,
                     outcome, sink>>
  PROVE  ConnectionInvariant'
  BY DEF ConnectionInvariant, Registered, KeysHandedOut, Old, KeysDistinct, CallersConsistent,
     EntriesConsistent, OutboxConsistent, WireConsistent, ExactClassification, AnswerMatches,
     EpochLockstep

(* A `connect', `ping' or `pong' joins the protocol lane.                  *)
LEMMA ControlFrameStep ==
  ASSUME ConnectionInvariant, TypeOK', NEW type \in {"connect", "ping", "pong"},
         priority' = Append(priority, ControlFrame(type)),
         UNCHANGED <<epoch, nextId, pending, callKey, unflushed, app, caller, given, outcome,
                     sink, wire, commands>>
  PROVE  ConnectionInvariant'
<1>1. /\ Len(priority') = Len(priority) + 1
      /\ \A i \in 1..Len(priority) : priority'[i] = priority[i]
      /\ priority'[Len(priority) + 1].type = type
  BY DEF ConnectionInvariant, TypeOK, ControlFrame
<1>2. \A i \in 1..Len(priority') : i \in 1..Len(priority) \/ i = Len(priority) + 1
  BY <1>1 DEF ConnectionInvariant, TypeOK
<1>3. KeysHandedOut'
  BY <1>1, <1>2 DEF ConnectionInvariant, KeysHandedOut, Old
<1>4. KeysDistinct'
  BY <1>1, <1>2 DEF ConnectionInvariant, KeysDistinct, AppTypes
<1> QED
  BY <1>3, <1>4 DEF ConnectionInvariant, CallersConsistent, EntriesConsistent, Registered,
     OutboxConsistent, WireConsistent, CommandsConsistent, ExactClassification, AnswerMatches, EpochLockstep

(* settle() tells the truth: Abandoned to those whose frame was given to   *)
(* the sink, NotSent to the others.                                        *)
LEMMA SettledExact ==
  ASSUME ConnectionInvariant, NEW c \in Calls,
         \/ caller[c] = "waiting" /\ HasEntry(c)
         \/ caller[c] = "queued"
  PROVE  /\ Settled(c).tag = "Abandoned" => c \in given
         /\ Settled(c).tag = "NotSent" => c \notin given
         /\ Settled(c).tag \in {"Abandoned", "NotSent"}
<1>1. Settled(c).tag = "Abandoned" => c \in given
  <2> SUFFICES ASSUME Settled(c).tag = "Abandoned" PROVE c \in given
    OBVIOUS
  <2>1. PICK e \in MarkSent(pending, unflushed) : e.who = c /\ e.sent
    BY DEF Settled, Failure
  <2>2. PICK p \in pending : e = [p EXCEPT !.sent = @ \/ p.key \in unflushed]
    BY <2>1 DEF MarkSent
  <2>3. p.who = c /\ (p.sent \/ p.key \in unflushed)
    BY <2>1, <2>2 DEF ConnectionInvariant, TypeOK, Entries
  <2> QED BY <2>3 DEF ConnectionInvariant, EntriesConsistent
<1>2. Settled(c).tag = "NotSent" => c \notin given
  <2>1. CASE caller[c] = "queued"
    BY <2>1 DEF ConnectionInvariant, CallersConsistent
  <2>2. CASE caller[c] = "waiting" /\ HasEntry(c)
    <3> SUFFICES ASSUME Settled(c).tag = "NotSent" PROVE c \notin given
      OBVIOUS
    <3>1. PICK p \in pending : p.who = c
      BY <2>2 DEF HasEntry
    <3> DEFINE e == [p EXCEPT !.sent = @ \/ p.key \in unflushed]
    <3>2. e \in MarkSent(pending, unflushed)
      BY <3>1 DEF MarkSent
    <3>3. e.who = c /\ e.sent = (p.sent \/ p.key \in unflushed)
      BY <3>1 DEF ConnectionInvariant, TypeOK, Entries
    <3>4. ~(p.sent \/ p.key \in unflushed)
      BY <3>2, <3>3 DEF Settled, Failure
    <3> QED BY <3>1, <3>4 DEF ConnectionInvariant, EntriesConsistent
  <2> QED BY <2>1, <2>2
<1> QED BY <1>1, <1>2 DEF Settled, Failure

LEMMA SettleStep ==
  ASSUME ConnectionInvariant, TypeOK', NEW n \in Nat, NEW queued \in BOOLEAN,
         Settle(n, queued), given' = given, commands' \in {commands, <<>>}
  PROVE  ConnectionInvariant'
<1>1. /\ pending' = {} /\ nextId' = nextId /\ callKey' = callKey
      /\ priority' = <<>> /\ app' = <<>> /\ unflushed' = {}
      /\ sink' = {} /\ wire' = {}
      /\ epoch' = [l \in Lanes |-> epoch[l] + n]
  BY DEF Settle, Disconnect
<1>2. KeysHandedOut' /\ KeysDistinct'
  BY <1>1 DEF ConnectionInvariant, KeysHandedOut, Old, KeysDistinct
<1>3. EntriesConsistent' /\ OutboxConsistent' /\ WireConsistent'
  BY <1>1 DEF EntriesConsistent, OutboxConsistent, WireConsistent
<1>4. EpochLockstep'
  BY <1>1 DEF ConnectionInvariant, EpochLockstep, Lanes
<1>5. ASSUME NEW c \in Calls
      PROVE  \/ caller'[c] = caller[c] /\ outcome'[c] = outcome[c]
             \/ /\ caller'[c] = "done"
                /\ outcome'[c] = Settled(c)
                /\ (caller[c] = "waiting" /\ HasEntry(c)) \/ caller[c] = "queued"
  BY DEF Settle
<1>6. CallersConsistent'
  BY <1>1, <1>5 DEF ConnectionInvariant, CallersConsistent
<1>9. CommandsConsistent'
  <2>1. \A c \in Calls : Registered(c) => Registered(c)'
    BY <1>5 DEF Registered
  <2>2. CASE commands' = commands
    BY <2>1, <2>2 DEF ConnectionInvariant, CommandsConsistent, Registered
  <2>3. CASE commands' = <<>>
    BY <2>3 DEF CommandsConsistent
  <2> QED BY <2>2, <2>3
<1>7. ExactClassification'
  BY <1>5, SettledExact DEF ConnectionInvariant, ExactClassification
<1>8. AnswerMatches'
  BY <1>5, SettledExact DEF ConnectionInvariant, AnswerMatches
<1> QED BY <1>2, <1>3, <1>4, <1>6, <1>7, <1>8, <1>9 DEF ConnectionInvariant

(* The correlator hands a fresh id to a caller that never had one, and its *)
(* frame joins the application outbox: Command::Call, Command::Subscribe.  *)
LEMMA TakeCallStep == ConnectionInvariant /\ TypeOK' /\ TakeCall => ConnectionInvariant'
<1> SUFFICES ASSUME ConnectionInvariant, TypeOK', TakeCall PROVE ConnectionInvariant'
  OBVIOUS
<1> USE DEF ConnectionInvariant
<1> PICK c : c = Head(commands).call
  OBVIOUS
<1> PICK key : key = NextKey(Lane(c))
  OBVIOUS
<1> DEFINE StillOld(k) == k \in Keys /\ k[2] < nextId'[k[1]]
<1>1. c \in Calls
  <2>1. Head(commands) \in Commands /\ Head(commands).op = "call"
    BY DEF TakeCall, TypeOK
  <2> QED BY <2>1 DEF Commands, Shutdown
<1>2. Lane(c) \in Lanes /\ key \in Keys /\ ~Old(key) /\ key # NoKey
  BY <1>1, LaneType, NextKeyFresh, NoKeyNotKey DEF TypeOK
<1>3. /\ UNCHANGED <<outcome, priority, unflushed, sink, wire, given, epoch>>
      /\ nextId' = [nextId EXCEPT ![Lane(c)] = @ + 1]
  BY DEF TakeCall, socketVars, Register, RegisterAndCancel
<1>4. \A k : Old(k) => StillOld(k)
  BY <1>2, <1>3 DEF Old, TypeOK, Keys
<1>5. CASE caller[c] = "queued"
  <2>1. /\ caller' = [caller EXCEPT ![c] = "waiting"]
        /\ callKey' = [callKey EXCEPT ![c] = key]
        /\ app' = Append(app, CallFrame(c, key))
        /\ pending' = pending \cup {[key |-> key, epoch |-> epoch[Lane(c)], sent |-> FALSE, who |-> c]}
    BY <1>5 DEF TakeCall, Register
  <2>2. callKey[c] = NoKey /\ c \notin given /\ outcome[c] = NoOutcome
    BY <1>1, <1>5 DEF CallersConsistent
  <2>3. StillOld(key)
    <3>1. key[1] = Lane(c) /\ key[2] = nextId[Lane(c)]
      BY DEF NextKey
    <3>2. nextId'[Lane(c)] = nextId[Lane(c)] + 1 /\ nextId[Lane(c)] \in Nat
      BY <1>2, <1>3 DEF TypeOK
    <3>3. key[2] < nextId'[key[1]]
      BY <3>1, <3>2
    <3> QED BY <3>3, <1>2
  <2>4. /\ callKey'[c] = key /\ caller'[c] = "waiting"
        /\ \A d \in Calls \ {c} : callKey'[d] = callKey[d] /\ caller'[d] = caller[d]
    BY <1>1, <2>1 DEF TypeOK
  <2>5. KeysHandedOut'
    <3>1. \A e \in pending' : StillOld(e.key)
      BY <1>4, <2>1, <2>3 DEF KeysHandedOut
    <3>2. \A d \in Calls : callKey'[d] # NoKey => StillOld(callKey'[d])
      BY <1>1, <1>4, <2>3, <2>4 DEF KeysHandedOut
    <3>3. \A k \in unflushed' : StillOld(k)
      BY <1>3, <1>4 DEF KeysHandedOut
    <3>4. \A i \in 1..Len(priority') : priority'[i].type = "login" => StillOld(priority'[i].key)
      BY <1>3, <1>4 DEF KeysHandedOut
    <3> QED BY <3>1, <3>2, <3>3, <3>4 DEF KeysHandedOut, Old
  <2>6. KeysDistinct'
    <3>1. \A d \in Calls : callKey[d] # key
      BY <1>2 DEF KeysHandedOut
    <3>2. \A i \in 1..Len(priority) : priority[i].type = "login" => priority[i].key # key
      BY <1>2 DEF KeysHandedOut
    <3> QED BY <1>2, <1>3, <2>4, <3>1, <3>2 DEF KeysDistinct
  <2>7. CallersConsistent'
    BY <1>3, <2>2, <2>4 DEF CallersConsistent
  <2>8. EntriesConsistent'
    <3> SUFFICES ASSUME NEW e \in pending', e.who \in Calls
                 PROVE  /\ e.key = callKey'[e.who]
                        /\ caller'[e.who] \in {"waiting", "gone"}
                        /\ e.who \in given' <=> (e.sent \/ e.key \in unflushed')
      BY DEF EntriesConsistent
    <3>1. CASE e \in pending
      BY <3>1, <1>3, <1>5, <2>4 DEF EntriesConsistent
    <3>2. CASE e = [key |-> key, epoch |-> epoch[Lane(c)], sent |-> FALSE, who |-> c]
      <4>1. key \notin unflushed
        BY <1>2 DEF KeysHandedOut
      <4> QED BY <3>2, <4>1, <1>3, <2>2, <2>4
    <3> QED BY <2>1, <3>1, <3>2
  <2>9. OutboxConsistent'
    <3>1. /\ Len(app') = Len(app) + 1
          /\ \A i \in 1..Len(app) : app'[i] = app[i]
          /\ app'[Len(app) + 1] = CallFrame(c, key)
      BY <2>1 DEF TypeOK
    <3>2. \A i \in 1..Len(app') : i \in 1..Len(app) \/ i = Len(app) + 1
      BY <3>1 DEF TypeOK
    <3>3. /\ CallFrame(c, key).call = c /\ CallFrame(c, key).key = key
          /\ CallFrame(c, key).type \in {"method", "sub"}
      BY DEF CallFrame
    <3>5. \A i \in 1..Len(app) : app[i].call \in Calls /\ app[i].call # c
      BY <1>5 DEF OutboxConsistent, Registered
    <3>6. \A i \in 1..Len(app') :
            /\ app'[i].type \in AppTypes
            /\ app'[i].call \in Calls /\ caller'[app'[i].call] \notin {"idle", "queued"}
            /\ app'[i].key = callKey'[app'[i].call]
            /\ app'[i].type # "unsub" =>
                 /\ app'[i].call \notin given'
                 /\ outcome'[app'[i].call].tag # "NotSent"
      <4> SUFFICES ASSUME NEW i \in 1..Len(app')
                   PROVE  /\ app'[i].type \in AppTypes
                          /\ app'[i].call \in Calls /\ caller'[app'[i].call] \notin {"idle", "queued"}
                          /\ app'[i].key = callKey'[app'[i].call]
                          /\ app'[i].type # "unsub" =>
                               /\ app'[i].call \notin given'
                               /\ outcome'[app'[i].call].tag # "NotSent"
        OBVIOUS
      <4>1. CASE i \in 1..Len(app)
        BY <4>1, <1>3, <2>4, <3>1, <3>5 DEF OutboxConsistent, Registered
      <4>2. CASE i = Len(app) + 1
        BY <4>2, <1>1, <1>3, <2>2, <2>4, <3>1, <3>3 DEF AppTypes, NoOutcome
      <4> QED BY <3>2, <4>1, <4>2
    <3>7. \A i, j \in 1..Len(app') :
            app'[i].type # "unsub" /\ app'[j].type # "unsub" /\ app'[i].call = app'[j].call => i = j
      BY <3>1, <3>2, <3>3, <3>5 DEF OutboxConsistent
    <3> QED BY <3>6, <3>7 DEF OutboxConsistent, Registered
  <2>10. \A d \in Calls : Registered(d) => Registered(d)' /\ callKey'[d] = callKey[d]
    BY <1>5, <2>4 DEF Registered
  <2>11. WireConsistent'
    BY <1>3, <2>10 DEF WireConsistent, Registered
  <2>12. CommandsConsistent'
    <3>1. \A i \in 1..Len(commands') : commands'[i] = commands[i + 1] /\ i + 1 \in 1..Len(commands)
      BY DEF TakeCall, TypeOK
    <3> QED BY <3>1, <2>10 DEF CommandsConsistent, Registered
  <2>13. ExactClassification' /\ AnswerMatches'
    BY <1>3 DEF ExactClassification, AnswerMatches
  <2>14. EpochLockstep'
    BY <1>2, <1>3, <2>1 DEF EpochLockstep, NextKey
  <2> QED
    BY <2>5, <2>6, <2>7, <2>8, <2>9, <2>11, <2>12, <2>13, <2>14
<1>6. CASE caller[c] = "gone"
  <2>1. UNCHANGED <<caller, callKey, app, pending>>
    BY <1>6 DEF TakeCall, RegisterAndCancel
  <2>2. KeysHandedOut'
    <3>1. \A e \in pending' : StillOld(e.key)
      BY <1>4, <2>1 DEF KeysHandedOut
    <3>2. \A d \in Calls : callKey'[d] # NoKey => StillOld(callKey'[d])
      BY <1>4, <2>1 DEF KeysHandedOut
    <3>3. /\ \A k \in unflushed' : StillOld(k)
          /\ \A i \in 1..Len(priority') : priority'[i].type = "login" => StillOld(priority'[i].key)
      BY <1>3, <1>4 DEF KeysHandedOut
    <3> QED BY <3>1, <3>2, <3>3 DEF KeysHandedOut, Old
  <2>3. CommandsConsistent'
    <3>1. \A i \in 1..Len(commands') : commands'[i] = commands[i + 1] /\ i + 1 \in 1..Len(commands)
      BY DEF TakeCall, TypeOK
    <3> QED BY <3>1, <2>1 DEF CommandsConsistent, Registered
  <2> QED
    BY <1>3, <2>1, <2>2, <2>3 DEF KeysDistinct, CallersConsistent, EntriesConsistent, Registered,
       OutboxConsistent, WireConsistent, ExactClassification, AnswerMatches, EpochLockstep
<1> QED BY <1>5, <1>6 DEF TakeCall

(* A cancelled subscription's `unsub' joins the application outbox; nobody *)
(* waits for it.                                                           *)
LEMMA TakeUnsubscribeStep ==
  ConnectionInvariant /\ TypeOK' /\ TakeUnsubscribe => ConnectionInvariant'
<1> SUFFICES ASSUME ConnectionInvariant, TypeOK', TakeUnsubscribe PROVE ConnectionInvariant'
  OBVIOUS
<1> USE DEF ConnectionInvariant
<1> PICK c : c = Head(commands).call
  OBVIOUS
<1>1. Registered(c)
  <2>1. Head(commands) = commands[1] /\ 1 \in 1..Len(commands)
    BY DEF TakeUnsubscribe, TypeOK
  <2> QED BY <2>1 DEF TakeUnsubscribe, CommandsConsistent
<1>2. /\ UNCHANGED <<epoch, nextId, pending, callKey, unflushed, priority, caller, given,
                     outcome, sink, wire>>
      /\ app' = Append(app, UnsubFrame(c))
      /\ commands' = Tail(commands)
  BY DEF TakeUnsubscribe, socketVars, corrVars
<1>3. /\ Len(app') = Len(app) + 1
      /\ \A i \in 1..Len(app) : app'[i] = app[i]
      /\ app'[Len(app) + 1] = UnsubFrame(c)
  BY <1>2 DEF TypeOK
<1>4. \A i \in 1..Len(app') : i \in 1..Len(app) \/ i = Len(app) + 1
  BY <1>3 DEF TypeOK
<1>5. OutboxConsistent'
  BY <1>1, <1>2, <1>3, <1>4 DEF OutboxConsistent, UnsubFrame, Registered, AppTypes
<1>6. CommandsConsistent'
  <2>1. \A i \in 1..Len(commands') : commands'[i] = commands[i + 1] /\ i + 1 \in 1..Len(commands)
    BY <1>2 DEF TakeUnsubscribe, TypeOK
  <2> QED BY <2>1, <1>2 DEF CommandsConsistent, Registered
<1> QED
  BY <1>2, <1>5, <1>6 DEF KeysHandedOut, Old, KeysDistinct, CallersConsistent, Registered,
     EntriesConsistent, WireConsistent, ExactClassification, AnswerMatches, EpochLockstep

(* The sink accepts the frame at the head of a lane: the request counts as *)
(* given, and its mark waits in `unflushed', in the same step.             *)
LEMMA WriteFrameStep == ConnectionInvariant /\ TypeOK' /\ WriteFrame => ConnectionInvariant'
<1> SUFFICES ASSUME ConnectionInvariant, TypeOK', WriteFrame PROVE ConnectionInvariant'
  OBVIOUS
<1> USE DEF ConnectionInvariant
<1> PICK f : f = NextFrame
  OBVIOUS
<1>1. /\ UNCHANGED <<epoch, nextId, pending, callKey, caller, outcome, wire, commands>>
      /\ sink' = sink \cup {f}
      /\ unflushed' = unflushed \cup Marks(f)
      /\ given' = given \cup Requests(f)
  BY DEF WriteFrame, clientVars, corrVars
<1>2. CASE priority # <<>>
  <2>1. priority' = Tail(priority) /\ app' = app /\ f = priority[1] /\ 1 \in 1..Len(priority)
    BY <1>2 DEF WriteFrame, NextFrame, TypeOK
  <2>2. f.type \notin AppTypes
    BY <2>1 DEF KeysDistinct
  <2>3. Requests(f) = {} /\ given' = given
    BY <1>1, <2>2 DEF Requests, AppTypes
  <2>4. \A k \in Marks(f) : f.type = "login" /\ k = f.key
    BY <2>2 DEF Marks, AppTypes
  <2>5. \A i \in 1..Len(priority') : priority'[i] = priority[i + 1] /\ i + 1 \in 1..Len(priority)
    BY <2>1 DEF TypeOK
  <2>6. KeysHandedOut'
    BY <1>1, <2>1, <2>4, <2>5 DEF KeysHandedOut, Old
  <2>7. KeysDistinct'
    BY <1>1, <2>5 DEF KeysDistinct
  <2>8. EntriesConsistent'
    <3>1. \A c \in Calls : callKey[c] \notin Marks(f)
      BY <2>1, <2>4 DEF KeysDistinct
    <3> QED BY <1>1, <2>3, <3>1 DEF EntriesConsistent
  <2>9. WireConsistent'
    BY <1>1, <2>2 DEF WireConsistent, Registered
  <2> QED
    BY <1>1, <2>1, <2>3, <2>6, <2>7, <2>8, <2>9 DEF CallersConsistent, OutboxConsistent,
       Registered, CommandsConsistent, ExactClassification, AnswerMatches, EpochLockstep
<1>3. CASE priority = <<>>
  <2>1. priority' = priority /\ app' = Tail(app) /\ f = app[1] /\ 1 \in 1..Len(app)
    BY <1>3 DEF WriteFrame, Writable, NextFrame, TypeOK
  <2>2. \A i \in 1..Len(app') : app'[i] = app[i + 1] /\ i + 1 \in 1..Len(app)
    BY <2>1 DEF TypeOK
  <2>3. f.type \in AppTypes /\ Registered(f.call) /\ f.key = callKey[f.call]
    BY <2>1 DEF OutboxConsistent
  <2>4. WireConsistent'
    BY <1>1, <2>3 DEF WireConsistent, Registered
  <2>5. CASE f.type = "unsub"
    <3>1. given' = given /\ unflushed' = unflushed
      BY <1>1, <2>5 DEF Marks, Requests
    <3>2. OutboxConsistent'
      <4>1. \A i \in 1..Len(app') :
              /\ app'[i].type \in AppTypes
              /\ app'[i].call \in Calls /\ caller'[app'[i].call] \notin {"idle", "queued"}
              /\ app'[i].key = callKey'[app'[i].call]
              /\ app'[i].type # "unsub" =>
                   /\ app'[i].call \notin given'
                   /\ outcome'[app'[i].call].tag # "NotSent"
        BY <1>1, <2>2, <3>1 DEF OutboxConsistent, Registered
      <4>2. \A i, j \in 1..Len(app') :
              app'[i].type # "unsub" /\ app'[j].type # "unsub" /\ app'[i].call = app'[j].call
                => i = j
        BY <2>2 DEF OutboxConsistent
      <4> QED BY <4>1, <4>2 DEF OutboxConsistent, Registered
    <3> QED
      BY <1>1, <2>1, <2>4, <3>1, <3>2 DEF KeysHandedOut, Old, KeysDistinct, CallersConsistent,
         Registered, EntriesConsistent, CommandsConsistent, ExactClassification, AnswerMatches,
         EpochLockstep
  <2>6. CASE f.type # "unsub"
    <3>1. /\ given' = given \cup {f.call} /\ unflushed' = unflushed \cup {f.key}
          /\ f.call \in Calls
          /\ f.call \notin given /\ outcome[f.call].tag # "NotSent"
          /\ caller[f.call] \notin {"idle", "queued"}
      BY <1>1, <2>1, <2>3, <2>6 DEF Marks, Requests, AppTypes, OutboxConsistent, Registered
    <3>2. f.key # NoKey /\ Old(f.key)
      <4>1. f \in Frames
        BY <2>1 DEF TypeOK
      <4>2. f.key \in Keys
        BY <4>1, <2>3, <2>6 DEF Frames, AppTypes
      <4> QED BY <4>2, <2>3, <3>1, NoKeyNotKey DEF KeysHandedOut
    <3>3. KeysHandedOut'
      BY <1>1, <2>1, <3>1, <3>2 DEF KeysHandedOut, Old
    <3>4. KeysDistinct'
      BY <1>1, <2>1 DEF KeysDistinct
    <3>5. CallersConsistent' /\ ExactClassification'
      BY <1>1, <3>1 DEF CallersConsistent, ExactClassification
    <3>6. EntriesConsistent'
      <4> SUFFICES ASSUME NEW e \in pending, e.who \in Calls
                   PROVE  e.who \in given' <=> (e.sent \/ e.key \in unflushed')
        BY <1>1 DEF EntriesConsistent
      <4>1. CASE e.who = f.call
        BY <4>1, <2>3, <3>1 DEF EntriesConsistent
      <4>2. CASE e.who # f.call
        <5>1. e.key # f.key
          BY <4>2, <2>3, <3>1, <3>2 DEF EntriesConsistent, KeysDistinct
        <5> QED BY <4>2, <5>1, <3>1 DEF EntriesConsistent
      <4> QED BY <4>1, <4>2
    <3>7. OutboxConsistent'
      <4>1. \A i \in 1..Len(app') : app'[i].type # "unsub" => app'[i].call # f.call
        BY <2>1, <2>2, <2>6 DEF OutboxConsistent
      <4> QED BY <1>1, <2>2, <3>1, <4>1 DEF OutboxConsistent, Registered
    <3> QED
      BY <1>1, <2>4, <3>3, <3>4, <3>5, <3>6, <3>7 DEF CommandsConsistent, Registered,
         AnswerMatches, EpochLockstep
  <2> QED BY <2>5, <2>6
<1> QED BY <1>2, <1>3

(* The sink puts a buffered frame on the wire.                             *)
LEMMA SinkDrainsStep == ConnectionInvariant /\ TypeOK' /\ SinkDrains => ConnectionInvariant'
<1> SUFFICES ASSUME ConnectionInvariant, TypeOK', SinkDrains PROVE ConnectionInvariant'
  OBVIOUS
<1>1. /\ sink' \cup wire' \subseteq sink \cup wire
      /\ UNCHANGED <<epoch, nextId, pending, callKey, unflushed, priority, app, caller, given,
                     outcome, commands>>
  BY DEF SinkDrains, clientVars, outboxVars, corrVars
<1> QED
  BY <1>1 DEF ConnectionInvariant, KeysHandedOut, Old, KeysDistinct, CallersConsistent,
     EntriesConsistent, OutboxConsistent, WireConsistent, CommandsConsistent, Registered,
     ExactClassification, AnswerMatches, EpochLockstep

(* A completed flush marks the batch as sent and forgets it: what the two  *)
(* said together about an entry does not change.                           *)
LEMMA FlushCompletesStep ==
  ConnectionInvariant /\ TypeOK' /\ FlushCompletes => ConnectionInvariant'
<1> SUFFICES ASSUME ConnectionInvariant, TypeOK', FlushCompletes PROVE ConnectionInvariant'
  OBVIOUS
<1> USE DEF ConnectionInvariant
<1>1. /\ unflushed' = {}
      /\ pending' = MarkSent(pending, unflushed)
      /\ UNCHANGED <<epoch, nextId, callKey, priority, app, caller, given, outcome, commands,
                     sink, wire>>
  BY DEF FlushCompletes, clientVars, outboxVars
<1>2. ASSUME NEW e \in pending'
      PROVE  \E p \in pending : /\ e.key = p.key /\ e.who = p.who /\ e.epoch = p.epoch
                                /\ e.sent <=> (p.sent \/ p.key \in unflushed)
  <2>1. PICK p \in pending : e = [p EXCEPT !.sent = @ \/ p.key \in unflushed]
    BY <1>1 DEF MarkSent
  <2>2. p \in Entries
    BY DEF TypeOK
  <2> QED BY <2>1, <2>2 DEF Entries
<1>3. EntriesConsistent' /\ KeysHandedOut' /\ EpochLockstep'
  <2>1. EntriesConsistent'
    BY <1>1, <1>2 DEF EntriesConsistent
  <2>2. KeysHandedOut'
    BY <1>1, <1>2 DEF KeysHandedOut, Old
  <2>3. EpochLockstep'
    BY <1>1, <1>2 DEF EpochLockstep
  <2> QED BY <2>1, <2>2, <2>3
<1> QED
  BY <1>1, <1>3 DEF KeysDistinct, CallersConsistent, OutboxConsistent, WireConsistent,
     CommandsConsistent, Registered, ExactClassification, AnswerMatches

(* `connected': the login takes a fresh id of the method table and goes on *)
(* the protocol lane.                                                      *)
LEMMA ReadConnectedStep ==
  ConnectionInvariant /\ TypeOK' /\ ReadConnected => ConnectionInvariant'
<1> SUFFICES ASSUME ConnectionInvariant, TypeOK', ReadConnected PROVE ConnectionInvariant'
  OBVIOUS
<1> USE DEF ConnectionInvariant
<1> PICK key : key = NextKey("m")
  OBVIOUS
<1> DEFINE StillOld(k) == k \in Keys /\ k[2] < nextId'[k[1]]
<1>1. "m" \in Lanes /\ key \in Keys /\ ~Old(key) /\ key # NoKey
  BY NextKeyFresh, NoKeyNotKey DEF TypeOK, Lanes
<1>2. /\ UNCHANGED <<callKey, caller, outcome, commands, app, unflushed, sink, given, epoch>>
      /\ wire' \subseteq wire
      /\ nextId' = [nextId EXCEPT !["m"] = @ + 1]
      /\ pending' = pending \cup
           {[key |-> key, epoch |-> epoch["m"], sent |-> FALSE, who |-> Login]}
      /\ priority' = Append(priority, LoginFrame(key))
  BY DEF ReadConnected, clientVars, Register
<1>3. /\ Len(priority') = Len(priority) + 1
      /\ \A i \in 1..Len(priority) : priority'[i] = priority[i]
      /\ priority'[Len(priority) + 1] = LoginFrame(key)
      /\ \A i \in 1..Len(priority') : i \in 1..Len(priority) \/ i = Len(priority) + 1
  BY <1>2 DEF TypeOK
<1>4. LoginFrame(key).key = key /\ LoginFrame(key).type = "login"
  BY DEF LoginFrame
<1>5. /\ \A k : Old(k) => StillOld(k)
      /\ StillOld(key)
  <2>1. \A k : Old(k) => StillOld(k)
    BY <1>1, <1>2 DEF Old, TypeOK, Keys
  <2>2. key[1] = "m" /\ key[2] = nextId["m"] /\ nextId["m"] \in Nat
    BY <1>1 DEF NextKey, TypeOK
  <2>3. nextId'["m"] = nextId["m"] + 1
    BY <1>1, <1>2 DEF TypeOK
  <2> QED BY <1>1, <2>1, <2>2, <2>3
<1>6. KeysHandedOut'
  <2>1. \A e \in pending' : StillOld(e.key)
    BY <1>2, <1>5 DEF KeysHandedOut
  <2>2. \A d \in Calls : callKey'[d] # NoKey => StillOld(callKey'[d])
    BY <1>2, <1>5 DEF KeysHandedOut
  <2>3. \A k \in unflushed' : StillOld(k)
    BY <1>2, <1>5 DEF KeysHandedOut
  <2>4. \A i \in 1..Len(priority') : priority'[i].type = "login" => StillOld(priority'[i].key)
    BY <1>3, <1>4, <1>5 DEF KeysHandedOut
  <2> QED BY <2>1, <2>2, <2>3, <2>4 DEF KeysHandedOut, Old
<1>7. KeysDistinct'
  <2>1. \A c \in Calls : callKey[c] # key
    BY <1>1 DEF KeysHandedOut
  <2> QED BY <1>2, <1>3, <1>4, <2>1 DEF KeysDistinct, AppTypes
<1>8. EntriesConsistent' /\ EpochLockstep'
  <2>1. EntriesConsistent'
    BY <1>2, LoginNotCall DEF EntriesConsistent
  <2>2. EpochLockstep'
    BY <1>2 DEF EpochLockstep, NextKey
  <2> QED BY <2>1, <2>2
<1> QED
  BY <1>2, <1>6, <1>7, <1>8 DEF CallersConsistent, OutboxConsistent, WireConsistent,
     CommandsConsistent, Registered, ExactClassification, AnswerMatches

(* `result' of the login: its entry goes, nothing else the callers see.    *)
LEMMA ReadLoginResultStep ==
  ASSUME ConnectionInvariant, TypeOK', NEW f, ReadLoginResult(f)
  PROVE  ConnectionInvariant'
<1>1. /\ pending' \subseteq pending
      /\ UNCHANGED <<epoch, nextId, callKey, priority, app, caller, given, outcome, commands,
                     unflushed, sink, wire>>
  BY DEF ReadLoginResult, Resolve, clientVars, outboxVars, socketVars
<1> QED
  BY <1>1 DEF ConnectionInvariant, KeysHandedOut, Old, KeysDistinct, CallersConsistent,
     EntriesConsistent, OutboxConsistent, WireConsistent, CommandsConsistent, Registered,
     ExactClassification, AnswerMatches, EpochLockstep

(* The answer to a set of frames reaches the callers whose requests they   *)
(* were and nobody else: the ids on the wire are the callers' own.         *)
LEMMA AnswerStep ==
  ASSUME ConnectionInvariant, TypeOK', NEW F \in SUBSET wire, NEW tag \in {"Ok", "Server"},
         \A f \in F : f.type \in AppTypes,
         Answer(F, tag)
  PROVE  ConnectionInvariant'
<1> USE DEF ConnectionInvariant
<1>1. /\ UNCHANGED <<epoch, nextId, callKey, priority, app, given, commands, unflushed, sink, wire>>
      /\ pending' = {e \in pending : e.key \notin {f.key : f \in F}}
  BY DEF Answer, Resolve, outboxVars, socketVars
<1>2. ASSUME NEW c \in Calls, c \notin Reached(F)
      PROVE  caller'[c] = caller[c] /\ outcome'[c] = outcome[c]
  BY <1>2 DEF Answer
<1>3. ASSUME NEW c \in Calls, c \in Reached(F)
      PROVE  /\ caller[c] = "waiting" /\ caller'[c] = "done"
             /\ outcome'[c].tag \in {"Ok", "Server"} /\ outcome'[c].of = {c}
  <2>1. caller[c] = "waiting"
    BY <1>3 DEF Reached
  <2>2. PICK e \in pending : e.who = c /\ e.key \in {f.key : f \in F}
    BY <1>3 DEF Reached, Answered
  <2>3. PICK g \in F : e.key = g.key
    BY <2>2
  <2>4. \A h \in F : Registered(h.call) /\ h.key = callKey[h.call]
    BY DEF WireConsistent
  <2>5. \A d \in pending : d.who = c => d.key = callKey[c] /\ d.key # NoKey
    BY NoKeyNotKey DEF EntriesConsistent, TypeOK, Entries
  <2>6. \A h \in F : h.key = callKey[c] => h.call = c
    BY <2>2, <2>4, <2>5 DEF KeysDistinct, Registered
  <2>7. AnsweredRequests(c, F) \subseteq {c}
    BY <2>5, <2>6 DEF AnsweredRequests
  <2>8. g.call = c /\ g.key = e.key
    BY <2>2, <2>3, <2>5, <2>6
  <2>9. c \in AnsweredRequests(c, F)
    BY <2>2, <2>8 DEF AnsweredRequests
  <2>10. AnsweredRequests(c, F) = {c}
    BY <2>7, <2>9
  <2>11. caller'[c] = "done" /\ outcome'[c] = [tag |-> tag, of |-> {c}]
    BY <1>3, <2>10 DEF Answer
  <2> QED BY <2>1, <2>11
<1>4. KeysHandedOut' /\ EpochLockstep'
  BY <1>1 DEF KeysHandedOut, Old, EpochLockstep
<1>5. CallersConsistent'
  BY <1>1, <1>2, <1>3 DEF CallersConsistent
<1>6. EntriesConsistent'
  <2> SUFFICES ASSUME NEW e \in pending', e.who \in Calls
               PROVE  /\ e.key = callKey'[e.who]
                      /\ caller'[e.who] \in {"waiting", "gone"}
                      /\ e.who \in given' <=> (e.sent \/ e.key \in unflushed')
    BY DEF EntriesConsistent
  <2>1. e \in pending /\ e.key \notin {f.key : f \in F}
    BY <1>1
  <2>2. e.who \notin Reached(F)
    <3> SUFFICES ASSUME e.who \in Reached(F) PROVE FALSE
      OBVIOUS
    <3>1. PICK d \in pending : d.who = e.who /\ d.key \in {f.key : f \in F}
      BY DEF Reached, Answered
    <3>2. d.key = e.key
      BY <2>1, <3>1 DEF EntriesConsistent
    <3> QED BY <2>1, <3>1, <3>2
  <2> QED BY <1>1, <1>2, <2>1, <2>2 DEF EntriesConsistent
<1>7. \A c \in Calls : Registered(c) => caller'[c] \notin {"idle", "queued"}
  BY <1>2, <1>3 DEF Registered
<1>8. \A c \in Calls : outcome[c].tag # "NotSent" => outcome'[c].tag # "NotSent"
  BY <1>2, <1>3
<1>9. OutboxConsistent'
  BY <1>1, <1>7, <1>8 DEF OutboxConsistent, Registered
<1>10. WireConsistent' /\ CommandsConsistent'
  BY <1>1, <1>7 DEF WireConsistent, CommandsConsistent, Registered
<1>11. ExactClassification' /\ AnswerMatches'
  BY <1>1, <1>2, <1>3 DEF ExactClassification, AnswerMatches
<1> QED BY <1>1, <1>4, <1>5, <1>6, <1>9, <1>10, <1>11 DEF KeysDistinct

(* A caller moves on its own: it takes no step back behind registration,   *)
(* and fails only if it never registered.                                  *)
LEMMA CallerStep ==
  ASSUME ConnectionInvariant, TypeOK', CommandsConsistent', NEW c \in Calls,
         UNCHANGED <<epoch, nextId, pending, callKey, unflushed, priority, app, given, sink, wire>>,
         \A d \in Calls \ {c} : caller'[d] = caller[d] /\ outcome'[d] = outcome[d],
         \/ caller[c] = "idle" /\ caller'[c] = "queued" /\ outcome'[c] = outcome[c]
         \/ caller[c] = "idle" /\ caller'[c] = "done" /\ outcome'[c] = Failure("NotSent")
         \/ caller[c] \in {"queued", "waiting"} /\ caller'[c] = "gone" /\ outcome'[c] = outcome[c]
         \/ caller[c] = "done" /\ caller'[c] = "unsubscribed" /\ outcome'[c] = outcome[c]
  PROVE  ConnectionInvariant'
<1> USE DEF ConnectionInvariant
<1>1. \A d \in Calls : Registered(d) => caller'[d] \notin {"idle", "queued"}
  BY DEF Registered
<1>2. \A d \in Calls : Registered(d) => outcome'[d] = outcome[d]
  BY DEF Registered
<1>3. KeysHandedOut' /\ KeysDistinct' /\ EpochLockstep'
  BY DEF KeysHandedOut, Old, KeysDistinct, EpochLockstep
<1>4. CallersConsistent'
  BY DEF CallersConsistent
<1>5. EntriesConsistent'
  BY DEF EntriesConsistent
<1>6. OutboxConsistent'
  BY <1>1, <1>2 DEF OutboxConsistent, Registered
<1>7. WireConsistent'
  BY <1>1 DEF WireConsistent, Registered
<1>8. ExactClassification'
  <2>1. caller[c] = "idle" => c \notin given
    BY DEF CallersConsistent
  <2> QED BY <2>1 DEF ExactClassification, Failure
<1>9. AnswerMatches'
  BY DEF AnswerMatches, Failure
<1> QED BY <1>3, <1>4, <1>5, <1>6, <1>7, <1>8, <1>9

LEMMA IssueStep ==
  ASSUME ConnectionInvariant, TypeOK', NEW c \in Calls, Issue(c) PROVE ConnectionInvariant'
<1>1. UNCHANGED <<epoch, nextId, pending, callKey, unflushed, priority, app, given, sink, wire>>
  BY DEF Issue, outboxVars, socketVars, corrVars
<1>2. caller[c] = "idle"
  BY DEF Issue
<1>3. CASE /\ commands' = Append(commands, [op |-> "call", call |-> c])
           /\ caller' = [caller EXCEPT ![c] = "queued"]
           /\ UNCHANGED outcome
  <2>1. /\ caller'[c] = "queued"
        /\ \A d \in Calls \ {c} : caller'[d] = caller[d]
    BY <1>3 DEF ConnectionInvariant, TypeOK
  <2>2. CommandsConsistent'
    <3>1. /\ Len(commands') = Len(commands) + 1
          /\ \A i \in 1..Len(commands) : commands'[i] = commands[i]
          /\ commands'[Len(commands) + 1].op = "call"
          /\ \A i \in 1..Len(commands') : i \in 1..Len(commands) \/ i = Len(commands) + 1
      BY <1>3 DEF ConnectionInvariant, TypeOK
    <3>2. \A d : Registered(d) => d \in Calls /\ caller'[d] \notin {"idle", "queued"}
      BY <1>2, <2>1 DEF Registered
    <3> QED BY <3>1, <3>2 DEF ConnectionInvariant, CommandsConsistent, Registered
  <2> QED BY <1>1, <1>2, <1>3, <2>1, <2>2, CallerStep
<1>4. CASE /\ caller' = [caller EXCEPT ![c] = "done"]
           /\ outcome' = [outcome EXCEPT ![c] = Failure("NotSent")]
           /\ UNCHANGED commands
  <2>1. /\ caller'[c] = "done" /\ outcome'[c] = Failure("NotSent")
        /\ \A d \in Calls \ {c} : caller'[d] = caller[d] /\ outcome'[d] = outcome[d]
    BY <1>4 DEF ConnectionInvariant, TypeOK
  <2>2. CommandsConsistent'
    BY <1>2, <1>4, <2>1 DEF ConnectionInvariant, CommandsConsistent, Registered
  <2> QED BY <1>1, <1>2, <2>1, <2>2, CallerStep
<1> QED BY <1>3, <1>4 DEF Issue

LEMMA GiveUpStep ==
  ASSUME ConnectionInvariant, TypeOK', NEW c \in Calls, GiveUp(c) PROVE ConnectionInvariant'
<1>1. /\ UNCHANGED <<epoch, nextId, pending, callKey, unflushed, priority, app, given, sink, wire>>
      /\ UNCHANGED <<outcome, commands>>
  BY DEF GiveUp, outboxVars, socketVars, corrVars
<1>2. /\ caller[c] \in {"queued", "waiting"} /\ caller'[c] = "gone"
      /\ \A d \in Calls \ {c} : caller'[d] = caller[d]
  BY DEF GiveUp, ConnectionInvariant, TypeOK
<1>3. CommandsConsistent'
  BY <1>1, <1>2 DEF ConnectionInvariant, CommandsConsistent, Registered
<1> QED BY <1>1, <1>2, <1>3, CallerStep

LEMMA UnsubscribeStep ==
  ASSUME ConnectionInvariant, TypeOK', NEW c \in Calls, Unsubscribe(c)
  PROVE  ConnectionInvariant'
<1>1. /\ UNCHANGED <<epoch, nextId, pending, callKey, unflushed, priority, app, given, sink, wire>>
      /\ UNCHANGED outcome
  BY DEF Unsubscribe, outboxVars, socketVars, corrVars
<1>2. /\ caller[c] = "done" /\ caller'[c] = "unsubscribed"
      /\ \A d \in Calls \ {c} : caller'[d] = caller[d]
  BY DEF Unsubscribe, ConnectionInvariant, TypeOK
<1>3. CommandsConsistent'
  <2>1. commands' = Append(commands, [op |-> "unsub", call |-> c])
    BY DEF Unsubscribe
  <2>2. /\ Len(commands') = Len(commands) + 1
        /\ \A i \in 1..Len(commands) : commands'[i] = commands[i]
        /\ commands'[Len(commands) + 1].call = c
        /\ \A i \in 1..Len(commands') : i \in 1..Len(commands) \/ i = Len(commands) + 1
    BY <2>1 DEF ConnectionInvariant, TypeOK
  <2> QED BY <1>2, <2>2 DEF ConnectionInvariant, CommandsConsistent, Registered
<1> QED BY <1>1, <1>2, <1>3, CallerStep

(* A shutdown, or the last handle dropped, from idle() or from drive().    *)
LEMMA BeginStopStep ==
  ASSUME ConnectionInvariant, TypeOK', NEW rest, BeginStop(rest),
         \A i \in 1..Len(rest) : rest[i].op = "unsub" => Registered(rest[i].call)
  PROVE  ConnectionInvariant'
<1>1. CASE Stop(1)
  BY <1>1, SettleStep DEF Stop
<1>2. CASE /\ commands' = rest
           /\ UNCHANGED <<caller, callKey, outcome, handles, outboxVars, socketVars, corrVars>>
  <2>1. UNCHANGED <<epoch, nextId, pending, callKey, unflushed, priority, app, caller, given,
                    outcome, sink, wire>>
    BY <1>2 DEF outboxVars, socketVars, corrVars
  <2>2. CommandsConsistent'
    BY <1>2 DEF CommandsConsistent, Registered
  <2> QED BY <2>1, <2>2, QuietStep
<1> QED BY <1>1, <1>2 DEF BeginStop

(* A step that changes neither the callers, the tables nor the outboxes.   *)
LEMMA ControlStep ==
  ASSUME ConnectionInvariant, TypeOK',
         UNCHANGED <<callKey, caller, outcome, commands, outboxVars, corrVars>>,
         UNCHANGED <<unflushed, given, sink>>,
         wire' \subseteq wire
  PROVE  ConnectionInvariant'
<1>1. CommandsConsistent'
  BY DEF ConnectionInvariant, CommandsConsistent, Registered
<1> QED BY <1>1, QuietStep DEF outboxVars, corrVars

(* Every step keeps the invariant.                                         *)
LEMMA InvStep == ConnectionInvariant /\ [Next]_vars => ConnectionInvariant'
<1> SUFFICES ASSUME ConnectionInvariant, [Next]_vars PROVE ConnectionInvariant'
  OBVIOUS
<1>t. TypeOK'
  BY TypeStep DEF ConnectionInvariant
<1>1. ASSUME NEW c \in Calls, Issue(c) \/ GiveUp(c) \/ Unsubscribe(c)
      PROVE  ConnectionInvariant'
  BY <1>1, <1>t, IssueStep, GiveUpStep, UnsubscribeStep
<1>2. CASE RequestShutdown
  <2>1. commands' = Append(commands, Shutdown)
    BY <1>2 DEF RequestShutdown
  <2>2. /\ Len(commands') = Len(commands) + 1
        /\ \A i \in 1..Len(commands) : commands'[i] = commands[i]
        /\ commands'[Len(commands) + 1].op # "unsub"
        /\ \A i \in 1..Len(commands') : i \in 1..Len(commands) \/ i = Len(commands) + 1
    BY <2>1 DEF ConnectionInvariant, TypeOK, Shutdown
  <2>3. caller' = caller
    BY <1>2 DEF RequestShutdown
  <2>4. CommandsConsistent'
    BY <2>2, <2>3 DEF ConnectionInvariant, CommandsConsistent, Registered
  <2> QED BY <1>2, <1>t, <2>4, QuietStep DEF RequestShutdown, outboxVars, socketVars, corrVars
<1>3. CASE DropHandles
  BY <1>3, <1>t, ControlStep DEF DropHandles, socketVars
<1>4. CASE StartIdle \/ StartConnecting
  BY <1>4, <1>t, ControlStep DEF StartIdle, StartConnecting, clientVars, socketVars
<1>5. CASE OpenFails \/ HandshakeTimeout \/ LoseSocket \/ StartSendFails
  BY <1>5, <1>t, SettleStep
  DEF OpenFails, HandshakeTimeout, LoseSocket, StartSendFails, Disconnected
<1>6. CASE OpenSucceeds
  BY <1>6, <1>t, ControlFrameStep DEF OpenSucceeds, clientVars, socketVars, corrVars
<1>7. CASE TakeCall \/ TakeUnsubscribe
  BY <1>7, <1>t, TakeCallStep, TakeUnsubscribeStep
<1>8. CASE TakeShutdown
  <2>1. \A i \in 1..Len(Tail(commands)) :
          Tail(commands)[i] = commands[i + 1] /\ i + 1 \in 1..Len(commands)
    BY <1>8 DEF TakeShutdown, ConnectionInvariant, TypeOK
  <2>2. \A i \in 1..Len(Tail(commands)) :
          Tail(commands)[i].op = "unsub" => Registered(Tail(commands)[i].call)
    BY <2>1 DEF ConnectionInvariant, CommandsConsistent
  <2> QED BY <1>8, <1>t, <2>2, BeginStopStep DEF TakeShutdown
<1>9. CASE HandlesDropped
  BY <1>9, <1>t, BeginStopStep DEF HandlesDropped
<1>10. CASE Finish
  BY <1>10, <1>t, SettleStep DEF Finish, Stop
<1>11. CASE WriteFrame \/ FlushCompletes \/ SinkDrains
  BY <1>11, <1>t, WriteFrameStep, FlushCompletesStep, SinkDrainsStep
<1>12. CASE ServerLogin
  BY <1>12, <1>t, ControlStep DEF ServerLogin, clientVars
<1>13. CASE ReadConnected
  BY <1>13, <1>t, ReadConnectedStep
<1>14. CASE ReadFailed
  BY <1>14, <1>t, ControlStep DEF ReadFailed, clientVars
<1>15. ASSUME NEW f \in wire, ReadLoginResult(f) PROVE ConnectionInvariant'
  BY <1>15, <1>t, ReadLoginResultStep
<1>16. ASSUME NEW f \in wire, NEW tag \in {"Ok", "Server"}, ReadResult(f, tag) \/ ReadNosub(f, tag)
       PROVE  ConnectionInvariant'
  <2>1. Answer({f}, tag) /\ f.type \in AppTypes
    BY <1>16 DEF ReadResult, ReadNosub, AppTypes
  <2>2. {f} \in SUBSET wire /\ \A g \in {f} : g.type \in AppTypes
    BY <2>1
  <2> QED BY <1>t, <2>1, <2>2, AnswerStep
<1>17. ASSUME NEW F \in SUBSET wire, ReadReady(F) PROVE ConnectionInvariant'
  BY <1>17, <1>t, AnswerStep DEF ReadReady, AppTypes
<1>18. CASE ReadPing
  BY <1>18, <1>t, ControlFrameStep DEF ReadPing, clientVars, socketVars, corrVars
<1>19. CASE LivenessTimer
  <2>1. CASE priority' = Append(priority, ControlFrame("ping"))
    BY <1>19, <1>t, <2>1, ControlFrameStep DEF LivenessTimer, clientVars, socketVars, corrVars
  <2>2. CASE UNCHANGED priority
    BY <1>19, <1>t, <2>2, ControlStep DEF LivenessTimer, clientVars, socketVars, outboxVars
  <2> QED BY <1>19, <2>1, <2>2 DEF LivenessTimer
<1>20. CASE UNCHANGED vars
  BY <1>20, <1>t, ControlStep DEF vars, clientVars, socketVars
<1> QED
  BY <1>1, <1>2, <1>3, <1>4, <1>5, <1>6, <1>7, <1>8, <1>9, <1>10, <1>11, <1>12, <1>13, <1>14,
     <1>15, <1>16, <1>17, <1>18, <1>19, <1>20
  DEF Next, ClientNext, RunnerNext, ServerNext, Read

(* The inductive invariant holds of every reachable state.                 *)
THEOREM InvariantHolds == Spec => []ConnectionInvariant
  BY InvInit, InvStep, PTL DEF Spec

(* A future that failed says truthfully whether its frame was given to a   *)
(* socket: what settle() and Correlator::disconnect promise.               *)
THEOREM FailuresClassified == Spec => []ExactClassification
<1>1. ConnectionInvariant => ExactClassification
  BY DEF ConnectionInvariant
<1> QED BY <1>1, InvariantHolds, PTL

(* A future that was answered carries the answer to its own request.       *)
THEOREM AnswersMatch == Spec => []AnswerMatches
<1>1. ConnectionInvariant => AnswerMatches
  BY DEF ConnectionInvariant
<1> QED BY <1>1, InvariantHolds, PTL

(* Both correlators count the same epochs and hold no stale entry.         *)
THEOREM EpochsInLockstep == Spec => []EpochLockstep
<1>1. ConnectionInvariant => EpochLockstep
  BY DEF ConnectionInvariant
<1> QED BY <1>1, InvariantHolds, PTL

-----------------------------------------------------------------------------
(***** SocketInvariant, and the contract *********************************)

(***************************************************************************)
(* A future resolves at most once                                          *)
(***************************************************************************)

(* What is settled stays settled, and an id stays with its caller.         *)
SettledFact ==
  \A c \in Calls :
    /\ outcome[c] # NoOutcome => outcome'[c] = outcome[c]
    /\ callKey[c] # NoKey => /\ callKey'[c] = callKey[c]
                             /\ \A d \in Calls \ {c} : callKey'[d] # callKey[c]

(* A step that resolves only futures that were unresolved, and hands out   *)
(* no id.                                                                  *)
LEMMA ResolvingStep ==
  ASSUME ConnectionInvariant, UNCHANGED callKey,
         \A c \in Calls : \/ outcome'[c] = outcome[c]
                          \/ caller[c] \notin {"done", "unsubscribed"}
  PROVE  SettledFact
  BY DEF ConnectionInvariant, CallersConsistent, KeysDistinct, SettledFact

LEMMA SettleResolves ==
  ASSUME ConnectionInvariant, NEW n \in Nat, NEW queued \in BOOLEAN, Settle(n, queued)
  PROVE  SettledFact
<1>1. \A c \in Calls : \/ outcome'[c] = outcome[c]
                       \/ caller[c] \notin {"done", "unsubscribed"}
  BY DEF Settle
<1> QED BY <1>1, ResolvingStep DEF Settle

LEMMA SettledOnceStep == ConnectionInvariant /\ [Next]_vars => SettledFact
<1> SUFFICES ASSUME ConnectionInvariant, [Next]_vars PROVE SettledFact
  OBVIOUS
<1> USE DEF clientVars, outboxVars, socketVars, runVars, sessionVars, corrVars
<1>1. ASSUME UNCHANGED <<outcome, callKey>> PROVE SettledFact
  BY <1>1, ResolvingStep
<1>2. ASSUME NEW c \in Calls, Issue(c) PROVE SettledFact
  <2>1. \A d \in Calls : \/ outcome'[d] = outcome[d]
                         \/ caller[d] \notin {"done", "unsubscribed"}
    BY <1>2 DEF Issue, ConnectionInvariant, TypeOK
  <2> QED BY <1>2, <2>1, ResolvingStep DEF Issue
<1>3. ASSUME NEW c \in Calls, GiveUp(c) \/ Unsubscribe(c) PROVE SettledFact
  BY <1>1, <1>3 DEF GiveUp, Unsubscribe
<1>4. CASE RequestShutdown \/ DropHandles
  BY <1>1, <1>4 DEF RequestShutdown, DropHandles
<1>5. CASE StartIdle \/ StartConnecting \/ OpenSucceeds
  BY <1>1, <1>5 DEF StartIdle, StartConnecting, OpenSucceeds
<1>6. ASSUME Disconnected PROVE SettledFact
  BY <1>6, SettleResolves DEF Disconnected
<1>7. CASE OpenFails \/ StartSendFails \/ HandshakeTimeout \/ LoseSocket
  BY <1>6, <1>7 DEF OpenFails, StartSendFails, HandshakeTimeout, LoseSocket
<1>8. CASE TakeCall
  <2> PICK c : c = Head(commands).call
    OBVIOUS
  <2>1. c \in Calls
    <3>1. Head(commands) \in Commands /\ Head(commands).op = "call"
      BY <1>8 DEF TakeCall, ConnectionInvariant, TypeOK
    <3> QED BY <3>1 DEF Commands, Shutdown
  <2>2. NextKey(Lane(c)) \in Keys /\ ~Old(NextKey(Lane(c))) /\ NextKey(Lane(c)) # NoKey
    BY <2>1, LaneType, NextKeyFresh, NoKeyNotKey DEF ConnectionInvariant, TypeOK
  <2>3. outcome' = outcome
    BY <1>8 DEF TakeCall
  <2>4. CASE caller[c] = "queued"
    <3>1. callKey' = [callKey EXCEPT ![c] = NextKey(Lane(c))]
      BY <1>8, <2>4 DEF TakeCall
    <3>2. callKey[c] = NoKey /\ \A d \in Calls : callKey[d] # NextKey(Lane(c))
      BY <2>1, <2>2, <2>4 DEF ConnectionInvariant, CallersConsistent, KeysHandedOut
    <3>3. /\ callKey'[c] = NextKey(Lane(c))
          /\ \A d \in Calls \ {c} : callKey'[d] = callKey[d]
      BY <2>1, <3>1 DEF ConnectionInvariant, TypeOK
    <3>4. \A a, b \in Calls : callKey[a] = callKey[b] /\ callKey[a] # NoKey => a = b
      BY DEF ConnectionInvariant, KeysDistinct
    <3>5. ASSUME NEW d \in Calls, callKey[d] # NoKey
          PROVE  /\ callKey'[d] = callKey[d]
                 /\ \A b \in Calls \ {d} : callKey'[b] # callKey[d]
      BY <3>2, <3>3, <3>4, <3>5
    <3> QED BY <2>3, <3>5 DEF SettledFact
  <2>5. CASE caller[c] = "gone"
    BY <1>1, <1>8, <2>3, <2>5 DEF TakeCall
  <2> QED BY <1>8, <2>4, <2>5 DEF TakeCall
<1>9. CASE TakeUnsubscribe
  BY <1>1, <1>9 DEF TakeUnsubscribe
<1>10. ASSUME NEW rest, BeginStop(rest) PROVE SettledFact
  <2>1. CASE runner = "idle"
    BY <1>10, <2>1, SettleResolves DEF BeginStop, Stop
  <2>2. CASE runner = "driving"
    BY <1>1, <1>10, <2>2 DEF BeginStop
  <2> QED BY <1>10, <2>1, <2>2 DEF BeginStop
<1>11. CASE TakeShutdown \/ HandlesDropped
  BY <1>10, <1>11 DEF TakeShutdown, HandlesDropped
<1>12. CASE Finish
  BY <1>12, SettleResolves DEF Finish, Stop
<1>13. CASE WriteFrame \/ FlushCompletes \/ SinkDrains \/ ServerLogin
  BY <1>1, <1>13 DEF WriteFrame, FlushCompletes, SinkDrains, ServerLogin
<1>14. CASE ReadConnected \/ ReadFailed \/ ReadPing \/ LivenessTimer
  BY <1>1, <1>14 DEF ReadConnected, ReadFailed, ReadPing, LivenessTimer
<1>15. ASSUME NEW f \in wire, ReadLoginResult(f) PROVE SettledFact
  BY <1>1, <1>15 DEF ReadLoginResult
<1>16. ASSUME NEW F, NEW tag, Answer(F, tag) PROVE SettledFact
  <2>1. \A c \in Calls : \/ outcome'[c] = outcome[c]
                         \/ caller[c] \notin {"done", "unsubscribed"}
    BY <1>16 DEF Answer, Reached
  <2> QED BY <1>16, <2>1, ResolvingStep DEF Answer
<1>17. ASSUME NEW f \in wire, NEW tag \in {"Ok", "Server"}, ReadResult(f, tag) \/ ReadNosub(f, tag)
       PROVE  SettledFact
  BY <1>16, <1>17 DEF ReadResult, ReadNosub
<1>18. ASSUME NEW F \in SUBSET wire, ReadReady(F) PROVE SettledFact
  BY <1>16, <1>18 DEF ReadReady
<1>19. CASE UNCHANGED vars
  BY <1>1, <1>19 DEF vars
<1> QED
  BY <1>2, <1>3, <1>4, <1>5, <1>7, <1>8, <1>9, <1>11, <1>12, <1>13, <1>14, <1>15, <1>17, <1>18,
     <1>19
  DEF Next, ClientNext, RunnerNext, ServerNext, Read

(* A future resolves at most once, however often its connection is lost    *)
(* and its reply repeated, and no id ever goes to a second caller          *)
(* (Correlator::register, resolve and disconnect).                         *)
THEOREM ResolvedOnce == Spec => SettledOnce
<1>1. ConnectionInvariant /\ [Next]_vars => [SettledFact]_vars
  BY SettledOnceStep
<1>2. Spec => []ConnectionInvariant
  BY InvInit, InvStep, PTL DEF Spec
<1>3. SettledOnce <=> [][SettledFact]_vars
  BY DEF SettledOnce, SettledFact
<1> QED BY <1>1, <1>2, <1>3, PTL DEF Spec

(***************************************************************************)
(* The socket                                                              *)
(***************************************************************************)

LEMMA SocketInit == Init => SocketInvariant
  BY DEF Init, SessionInit, SocketInvariant, ShownTruly, SocketGone, ConnectOnce, LoginAwaited,
     AppOnlyAfterLogin

(* A step that touches neither the socket nor what is shown of it.         *)
LEMMA SocketKept ==
  ASSUME SocketInvariant,
         UNCHANGED <<runner, phase, loginCall, state, event, priority, sink, wire, auth>>
  PROVE  SocketInvariant'
  BY DEF SocketInvariant, ShownTruly, Shows, SocketGone, ConnectOnce, LoginAwaited,
     AppOnlyAfterLogin

(* Runner::disconnected leaves nothing of the socket behind.               *)
LEMMA DisconnectedSocket ==
  ASSUME SocketInvariant, runner \in {"opening", "driving"}, Disconnected
  PROVE  SocketInvariant'
<1>1. priority' = <<>> /\ sink' = {} /\ wire' = {} /\ auth' = "none"
  BY DEF Disconnected, Settle
<1>2. ConnectOnce' /\ AppOnlyAfterLogin'
  BY <1>1 DEF ConnectOnce, AppOnlyAfterLogin
<1>3. phase' = "Disconnected" /\ loginCall' = NoKey
  BY DEF SocketInvariant, ShownTruly, Disconnected, SessionDisconnected
<1>4. ShownTruly'
  BY <1>3 DEF Disconnected, ShownTruly
<1>5. SocketGone' /\ LoginAwaited'
  BY <1>1, <1>3 DEF SocketGone, LoginAwaited
<1> QED BY <1>2, <1>4, <1>5 DEF SocketInvariant

(* The tail of run() does not either.                                      *)
LEMMA StoppedSocket ==
  ASSUME NEW n \in Nat, Stop(n), loginCall' = NoKey, phase' # "Ready",
         state' = "Closed" \/ (state' = "Fatal" /\ event' = "Fatal")
  PROVE  SocketInvariant'
<1>1. priority' = <<>> /\ sink' = {} /\ wire' = {} /\ auth' = "none" /\ runner' = "stopped"
  BY DEF Stop, Settle
<1>2. ConnectOnce' /\ AppOnlyAfterLogin'
  BY <1>1 DEF ConnectOnce, AppOnlyAfterLogin
<1>3. ShownTruly' /\ SocketGone' /\ LoginAwaited'
  BY <1>1 DEF ShownTruly, SocketGone, LoginAwaited
<1> QED BY <1>2, <1>3 DEF SocketInvariant

(* drive() begins with the `connect' frame on a new socket.                *)
LEMMA OpenSucceedsSocket ==
  TypeOK /\ SocketInvariant /\ OpenSucceeds => SocketInvariant'
<1> SUFFICES ASSUME TypeOK, SocketInvariant, OpenSucceeds PROVE SocketInvariant'
  OBVIOUS
<1>1. priority = <<>> /\ sink = {} /\ wire = {} /\ auth = "none"
  BY DEF SocketInvariant, SocketGone, OpenSucceeds
<1>2. UNCHANGED <<sink, wire, auth>> /\ priority' = <<ControlFrame("connect")>>
  BY <1>1 DEF OpenSucceeds, socketVars
<1>3. phase' = "Handshaking" /\ loginCall' = NoKey /\ runner' = "driving"
  BY DEF OpenSucceeds, SessionConnect
<1>4. ShownTruly'
  BY <1>3 DEF OpenSucceeds, SocketInvariant, ShownTruly, Shows
<1>5. ConnectOnce' /\ AppOnlyAfterLogin'
  BY <1>1, <1>2, <1>3 DEF ConnectOnce, AppOnlyAfterLogin
<1>6. SocketGone' /\ LoginAwaited'
  BY <1>3 DEF SocketGone, LoginAwaited
<1> QED BY <1>4, <1>5, <1>6 DEF SocketInvariant

(* A frame that is not `connect' joins the protocol lane.                  *)
LEMMA ProtocolFrameSocket ==
  ASSUME SocketInvariant, priority \in Seq(Frames), NEW f \in Frames,
         f # ControlFrame("connect"), priority' = Append(priority, f),
         sink' = sink, wire' \subseteq wire,
         phase' # "Handshaking" => ControlFrame("connect") \notin wire' \cup sink
                                  /\ \A i \in 1..Len(priority) : priority[i] # ControlFrame("connect")
  PROVE  ConnectOnce'
<1>1. /\ Len(priority') = Len(priority) + 1
      /\ \A i \in 1..Len(priority) : priority'[i] = priority[i]
      /\ priority'[Len(priority) + 1] = f
  OBVIOUS
<1>2. \A i \in 1..Len(priority') : i \in 1..Len(priority) \/ i = Len(priority) + 1
  BY <1>1
<1>3. ASSUME NEW i \in 1..Len(priority'), priority'[i] = ControlFrame("connect")
      PROVE  i \in 1..Len(priority) /\ priority[i] = ControlFrame("connect")
  BY <1>1, <1>2, <1>3
<1> QED BY <1>3 DEF SocketInvariant, ConnectOnce, ControlFrame

(* A ping or a pong.                                                       *)
LEMMA PingSocket ==
  ASSUME TypeOK, SocketInvariant, runner = "driving", NEW type \in {"ping", "pong"},
         priority' = Append(priority, ControlFrame(type)),
         UNCHANGED <<runner, phase, loginCall, state, event, sink, wire, auth>>
  PROVE  SocketInvariant'
<1>1. ControlFrame(type) \in Frames /\ ControlFrame(type) # ControlFrame("connect")
  BY DEF ControlFrame, Frames
<1>2. ConnectOnce'
  BY <1>1, ProtocolFrameSocket DEF SocketInvariant, ConnectOnce, TypeOK
<1> QED
  BY <1>2 DEF SocketInvariant, ShownTruly, Shows, SocketGone, LoginAwaited, AppOnlyAfterLogin

LEMMA BeginStopSocket ==
  ASSUME SocketInvariant, NEW rest, BeginStop(rest)
  PROVE  SocketInvariant'
<1>1. CASE runner = "idle"
  <2>1. phase = "Disconnected" /\ loginCall = NoKey
    BY <1>1 DEF SocketInvariant, ShownTruly, LoginAwaited
  <2>2. Stop(1) /\ state' = "Closed" /\ UNCHANGED <<phase, loginCall>>
    BY <1>1 DEF BeginStop, sessionVars
  <2> QED BY <2>1, <2>2, StoppedSocket
<1>2. CASE runner = "driving"
  <2>1. /\ runner' = "closing"
        /\ UNCHANGED <<phase, loginCall, state, event, priority, sink, wire, auth>>
    BY <1>2 DEF BeginStop, outboxVars, socketVars, sessionVars
  <2> QED
    BY <1>2, <2>1 DEF SocketInvariant, ShownTruly, Shows, SocketGone, ConnectOnce, LoginAwaited,
       AppOnlyAfterLogin
<1> QED BY <1>1, <1>2 DEF BeginStop

LEMMA FinishSocket == SocketInvariant /\ Finish => SocketInvariant'
<1> SUFFICES ASSUME SocketInvariant, Finish PROVE SocketInvariant'
  OBVIOUS
<1>1. CASE phase = "FatallyClosed"
  <2>1. loginCall' = NoKey /\ phase' = phase /\ state' = "Fatal" /\ event' = "Fatal"
    BY <1>1 DEF Finish, SocketInvariant, LoginAwaited, sessionVars
  <2> QED BY <1>1, <2>1, StoppedSocket DEF Finish
<1>2. CASE phase # "FatallyClosed"
  BY <1>2, StoppedSocket DEF Finish, SessionDisconnected
<1> QED BY <1>1, <1>2

(* The protocol lane goes first; the application lane only when Ready.     *)
LEMMA WriteFrameSocket ==
  ConnectionInvariant /\ SocketInvariant /\ WriteFrame => SocketInvariant'
<1> SUFFICES ASSUME ConnectionInvariant, SocketInvariant, WriteFrame PROVE SocketInvariant'
  OBVIOUS
<1> DEFINE connect == ControlFrame("connect")
<1>1. /\ runner = "driving" /\ sink' = sink \cup {NextFrame}
      /\ UNCHANGED <<runner, phase, loginCall, state, event, wire, auth>>
  BY DEF WriteFrame, runVars, sessionVars
<1>2. CASE priority # <<>>
  <2>1. /\ NextFrame = priority[1] /\ 1 \in 1..Len(priority)
        /\ \A i \in 1..Len(priority') : priority'[i] = priority[i + 1] /\ i + 1 \in 1..Len(priority)
    <3>1. priority' = Tail(priority) /\ priority \in Seq(Frames) /\ NextFrame = Head(priority)
      BY <1>2 DEF WriteFrame, NextFrame, ConnectionInvariant, TypeOK
    <3>2. Len(priority) \in Nat \ {0} /\ Len(priority') = Len(priority) - 1
      BY <1>2, <3>1
    <3> QED BY <1>2, <3>1, <3>2
  <2>2. NextFrame.type \notin AppTypes
    BY <2>1 DEF ConnectionInvariant, KeysDistinct
  <2>3. AppOnlyAfterLogin'
    BY <1>1, <2>2 DEF SocketInvariant, AppOnlyAfterLogin
  <2>4. CASE NextFrame = connect
    <3>1. phase = "Handshaking" /\ connect \notin sink \cup wire
      BY <2>1, <2>4 DEF SocketInvariant, ConnectOnce
    <3>2. \A i \in 1..Len(priority) : priority[i] = connect => i = 1
      BY <2>1, <2>4 DEF SocketInvariant, ConnectOnce
    <3>3. \A i \in 1..Len(priority') : priority'[i] # connect
      <4> SUFFICES ASSUME NEW i \in 1..Len(priority'), priority'[i] = connect PROVE FALSE
        OBVIOUS
      <4>1. i + 1 = 1
        BY <2>1, <3>2
      <4>2. i \in Nat /\ i >= 1
        BY DEF WriteFrame
      <4> QED BY <4>1, <4>2
    <3> QED BY <1>1, <2>3, <3>1, <3>3 DEF SocketInvariant, ShownTruly, Shows, SocketGone,
        ConnectOnce, LoginAwaited
  <2>5. CASE NextFrame # connect
    <3>1. \A i, j \in 1..Len(priority') : i + 1 = j + 1 => i = j
      OBVIOUS
    <3>2. ConnectOnce'
      BY <1>1, <2>1, <2>5, <3>1 DEF SocketInvariant, ConnectOnce
    <3> QED BY <1>1, <2>3, <3>2 DEF SocketInvariant, ShownTruly, Shows, SocketGone, LoginAwaited
  <2> QED BY <2>4, <2>5
<1>3. CASE priority = <<>>
  <2>1. /\ phase = "Ready" /\ app # <<>> /\ NextFrame = app[1] /\ priority' = priority
    BY <1>3 DEF WriteFrame, Writable, NextFrame, ConnectionInvariant, TypeOK
  <2>2. auth = "accepted"
    BY <2>1 DEF SocketInvariant, LoginAwaited
  <2>3. NextFrame # connect
    <3>1. app[1].type \in AppTypes
      <4>1. app \in Seq(Frames) /\ 1 \in 1..Len(app)
        BY <2>1 DEF ConnectionInvariant, TypeOK
      <4> QED BY <4>1 DEF ConnectionInvariant, OutboxConsistent
    <3> QED BY <2>1, <3>1 DEF ControlFrame, AppTypes
  <2>4. ConnectOnce' /\ AppOnlyAfterLogin'
    BY <1>1, <1>3, <2>1, <2>2, <2>3 DEF SocketInvariant, ConnectOnce, AppOnlyAfterLogin
  <2> QED
    BY <1>1, <2>1, <2>4 DEF SocketInvariant, ShownTruly, Shows, SocketGone, LoginAwaited
<1> QED BY <1>2, <1>3

LEMMA SinkDrainsSocket == SocketInvariant /\ SinkDrains => SocketInvariant'
<1> SUFFICES ASSUME SocketInvariant, SinkDrains PROVE SocketInvariant'
  OBVIOUS
<1>1. PICK f \in sink : /\ sink' = sink \ {f}
                        /\ wire' = wire \cup {g \in {f} : Answerable(g)}
  BY DEF SinkDrains
<1>2. /\ runner \in {"driving", "closing"}
      /\ UNCHANGED <<runner, phase, loginCall, state, event, priority, auth>>
  BY DEF SinkDrains, runVars, sessionVars, outboxVars
<1>3. ConnectOnce' /\ AppOnlyAfterLogin'
  BY <1>1, <1>2 DEF SocketInvariant, ConnectOnce, AppOnlyAfterLogin
<1> QED BY <1>2, <1>3 DEF SocketInvariant, ShownTruly, Shows, SocketGone, LoginAwaited

(* The server decides once, and about a socket that carried no caller's    *)
(* frame yet.                                                              *)
LEMMA ServerLoginSocket == SocketInvariant /\ ServerLogin => SocketInvariant'
<1> SUFFICES ASSUME SocketInvariant, ServerLogin PROVE SocketInvariant'
  OBVIOUS
<1>1. /\ auth = "none" /\ wire # {}
      /\ UNCHANGED <<runner, phase, loginCall, state, event, priority, sink, wire>>
  BY DEF ServerLogin, runVars, sessionVars, outboxVars
<1>2. AppOnlyAfterLogin' /\ LoginAwaited' /\ SocketGone'
  BY <1>1 DEF SocketInvariant, AppOnlyAfterLogin, LoginAwaited, SocketGone
<1>3. ShownTruly' /\ ConnectOnce'
  BY <1>1 DEF SocketInvariant, ShownTruly, Shows, ConnectOnce
<1> QED BY <1>2, <1>3 DEF SocketInvariant

(* `connected' comes once, while handshaking, and asks for the login.      *)
LEMMA ReadConnectedSocket ==
  TypeOK /\ SocketInvariant /\ ReadConnected => SocketInvariant'
<1> SUFFICES ASSUME TypeOK, SocketInvariant, ReadConnected PROVE SocketInvariant'
  OBVIOUS
<1>1. /\ runner = "driving" /\ UNCHANGED <<runner, sink, auth>>
      /\ wire' = wire \ {ControlFrame("connect")}
      /\ priority' = Append(priority, LoginFrame(NextKey("m")))
      /\ state' = "Authenticating" /\ event' = "Connected" /\ phase' = "Authenticating"
  BY DEF ReadConnected, SessionConnected
<1>2. LoginFrame(NextKey("m")) \in Frames /\ LoginFrame(NextKey("m")) # ControlFrame("connect")
  <2>1. NextKey("m") \in Keys
    BY NextKeyFresh DEF TypeOK, Lanes
  <2> QED BY <2>1 DEF LoginFrame, ControlFrame, Frames
<1>3. /\ ControlFrame("connect") \notin sink
      /\ \A i \in 1..Len(priority) : priority[i] # ControlFrame("connect")
  BY DEF ReadConnected, SocketInvariant, ConnectOnce
<1>4. ConnectOnce'
  BY <1>1, <1>2, <1>3, ProtocolFrameSocket DEF TypeOK
<1>5. ShownTruly' /\ SocketGone' /\ LoginAwaited'
  BY <1>1 DEF ShownTruly, Shows, SocketGone, LoginAwaited
<1>6. AppOnlyAfterLogin'
  BY <1>1 DEF SocketInvariant, AppOnlyAfterLogin
<1> QED BY <1>4, <1>5, <1>6 DEF SocketInvariant

LEMMA ReadFailedSocket == SocketInvariant /\ ReadFailed => SocketInvariant'
<1> SUFFICES ASSUME SocketInvariant, ReadFailed PROVE SocketInvariant'
  OBVIOUS
<1>1. /\ ControlFrame("connect") \in wire /\ wire' = wire \ {ControlFrame("connect")}
      /\ runner = "driving" /\ runner' = "closing" /\ state' = "Fatal"
      /\ phase' = "FatallyClosed"
      /\ UNCHANGED <<loginCall, event, priority, sink, auth>>
  BY DEF ReadFailed, SessionFailed, outboxVars
<1>2. phase = "Handshaking" /\ loginCall = NoKey /\ event = "Connecting"
  BY <1>1 DEF SocketInvariant, ConnectOnce, LoginAwaited, ShownTruly, Shows
<1>3. ShownTruly' /\ SocketGone' /\ LoginAwaited'
  BY <1>1, <1>2 DEF ShownTruly, SocketGone, LoginAwaited
<1>4. ConnectOnce' /\ AppOnlyAfterLogin'
  BY <1>1 DEF SocketInvariant, ConnectOnce, AppOnlyAfterLogin
<1> QED BY <1>3, <1>4 DEF SocketInvariant

(* The reply to the outstanding login finds the session authenticating.    *)
LEMMA LoginAnswered ==
  ASSUME TypeOK, SocketInvariant, NEW f \in wire, ReadLoginResult(f)
  PROVE  /\ Shows("Authenticating", "Authenticating", "Connected")
         /\ loginCall' = NoKey
         /\ phase' = IF auth = "accepted" THEN "Ready" ELSE "FatallyClosed"
<1>1. runner = "driving" /\ f.type = "login" /\ f.key = loginCall /\ f \in Frames
  BY DEF ReadLoginResult, TypeOK
<1>2. loginCall # NoKey
  BY <1>1, NoKeyNotKey DEF Frames
<1>3. phase = "Authenticating"
  BY <1>2 DEF SocketInvariant, LoginAwaited
<1>4. Shows("Authenticating", "Authenticating", "Connected")
  BY <1>1, <1>3 DEF SocketInvariant, ShownTruly, Shows
<1> QED BY <1>1, <1>4 DEF ReadLoginResult, SessionResult

LEMMA ReadLoginResultSocket ==
  ASSUME TypeOK, SocketInvariant, NEW f \in wire, ReadLoginResult(f)
  PROVE  SocketInvariant'
<1>1. /\ Shows("Authenticating", "Authenticating", "Connected")
      /\ loginCall' = NoKey
      /\ phase' = IF auth = "accepted" THEN "Ready" ELSE "FatallyClosed"
  BY LoginAnswered
<1>2. runner = "driving" /\ UNCHANGED <<priority, sink, wire, auth>>
  BY DEF ReadLoginResult, outboxVars, socketVars
<1>3. ConnectOnce' /\ AppOnlyAfterLogin'
  BY <1>1, <1>2 DEF SocketInvariant, ConnectOnce, AppOnlyAfterLogin, Shows
<1>4. CASE auth = "accepted"
  <2>1. runner' = runner /\ state' = "Ready" /\ event' = "Resubscribe"
    BY <1>4 DEF ReadLoginResult
  <2> QED
    BY <1>1, <1>2, <1>3, <1>4, <2>1 DEF SocketInvariant, ShownTruly, Shows, SocketGone, LoginAwaited
<1>5. CASE auth = "rejected"
  <2>1. runner' = "closing" /\ state' = "Fatal" /\ event' = event
    BY <1>5 DEF ReadLoginResult
  <2> QED
    BY <1>1, <1>2, <1>3, <1>5, <2>1 DEF SocketInvariant, ShownTruly, Shows, SocketGone, LoginAwaited
<1> QED BY <1>4, <1>5 DEF ReadLoginResult

(* A step that changes nothing an observer or the socket is made of.       *)
Unseen == UNCHANGED <<runner, phase, loginCall, state, event, priority, sink, wire, auth>>

LEMMA SocketStep ==
  ConnectionInvariant /\ SocketInvariant /\ [Next]_vars => SocketInvariant'
<1> SUFFICES ASSUME ConnectionInvariant, SocketInvariant, [Next]_vars PROVE SocketInvariant'
  OBVIOUS
<1> USE DEF clientVars, outboxVars, socketVars, runVars, sessionVars, corrVars
<1>t. TypeOK
  BY DEF ConnectionInvariant
<1>1. ASSUME Unseen PROVE SocketInvariant'
  BY <1>1, SocketKept DEF Unseen
<1>2. ASSUME NEW c \in Calls, Issue(c) \/ GiveUp(c) \/ Unsubscribe(c) PROVE SocketInvariant'
  BY <1>1, <1>2 DEF Issue, GiveUp, Unsubscribe, Unseen
<1>3. CASE RequestShutdown \/ DropHandles
  BY <1>1, <1>3 DEF RequestShutdown, DropHandles, Unseen
<1>4. CASE StartIdle
  BY <1>4 DEF StartIdle, SocketInvariant, ShownTruly, SocketGone, ConnectOnce, LoginAwaited,
     AppOnlyAfterLogin
<1>5. CASE StartConnecting
  BY <1>5 DEF StartConnecting, SocketInvariant, ShownTruly, SocketGone, ConnectOnce,
     LoginAwaited, AppOnlyAfterLogin
<1>6. CASE OpenFails \/ StartSendFails \/ HandshakeTimeout \/ LoseSocket
  BY <1>6, DisconnectedSocket DEF OpenFails, StartSendFails, HandshakeTimeout, LoseSocket
<1>7. CASE OpenSucceeds
  BY <1>7, <1>t, OpenSucceedsSocket
<1>8. CASE TakeCall \/ TakeUnsubscribe
  BY <1>1, <1>8 DEF TakeCall, TakeUnsubscribe, Unseen
<1>9. CASE TakeShutdown \/ HandlesDropped
  BY <1>9, BeginStopSocket DEF TakeShutdown, HandlesDropped
<1>10. CASE Finish
  BY <1>10, FinishSocket
<1>11. CASE WriteFrame \/ SinkDrains
  BY <1>11, WriteFrameSocket, SinkDrainsSocket
<1>12. CASE FlushCompletes
  BY <1>1, <1>12 DEF FlushCompletes, Unseen
<1>13. CASE ServerLogin
  BY <1>13, ServerLoginSocket
<1>14. CASE ReadConnected \/ ReadFailed
  BY <1>14, <1>t, ReadConnectedSocket, ReadFailedSocket
<1>15. ASSUME NEW f \in wire, ReadLoginResult(f) PROVE SocketInvariant'
  BY <1>15, <1>t, ReadLoginResultSocket
<1>16. ASSUME NEW F, NEW tag, Answer(F, tag) PROVE SocketInvariant'
  BY <1>1, <1>16 DEF Answer, Unseen
<1>17. ASSUME NEW f \in wire, NEW tag \in {"Ok", "Server"}, ReadResult(f, tag) \/ ReadNosub(f, tag)
       PROVE  SocketInvariant'
  BY <1>16, <1>17 DEF ReadResult, ReadNosub
<1>18. ASSUME NEW F \in SUBSET wire, ReadReady(F) PROVE SocketInvariant'
  BY <1>16, <1>18 DEF ReadReady
<1>19. CASE ReadPing
  BY <1>19, <1>t, PingSocket DEF ReadPing
<1>20. CASE LivenessTimer
  <2>1. CASE priority' = Append(priority, ControlFrame("ping"))
    BY <1>20, <1>t, <2>1, PingSocket DEF LivenessTimer
  <2>2. CASE UNCHANGED priority
    BY <1>1, <1>20, <2>2 DEF LivenessTimer, Unseen
  <2> QED BY <1>20, <2>1, <2>2 DEF LivenessTimer
<1>21. CASE UNCHANGED vars
  BY <1>1, <1>21 DEF vars, Unseen
<1> QED
  BY <1>2, <1>3, <1>4, <1>5, <1>6, <1>7, <1>8, <1>9, <1>10, <1>11, <1>12, <1>13, <1>14, <1>15,
     <1>17, <1>18, <1>19, <1>20, <1>21
  DEF Next, ClientNext, RunnerNext, ServerNext, Read

LEMMA SocketHolds == Spec => [](ConnectionInvariant /\ SocketInvariant)
  BY InvInit, InvStep, SocketInit, SocketStep, PTL DEF Spec

(* Nothing of a caller reaches a socket before the server accepted that    *)
(* socket's login: poll_step's `writable', and what a reconnect resets.    *)
THEOREM LoginFirst == Spec => []AppOnlyAfterLogin
<1>1. SocketInvariant => AppOnlyAfterLogin
  BY DEF SocketInvariant
<1> QED BY <1>1, SocketHolds, PTL

(***************************************************************************)
(* The contract                                                            *)
(***************************************************************************)

(* Runner::disconnected is the contract's Lost.                            *)
LEMMA LostStep ==
  ASSUME SocketInvariant, runner \in {"opening", "driving"}, Disconnected
  PROVE  Observed!Lost
  BY DEF SocketInvariant, ShownTruly, Shows, Disconnected, Observed!Lost

(* A stop without a socket is its Close; with one, Finish closes.          *)
LEMMA BeginStopObserved ==
  ASSUME SocketInvariant, NEW rest, BeginStop(rest)
  PROVE  Observed!Close \/ UNCHANGED <<state, event>>
<1>1. CASE runner = "idle"
  BY <1>1 DEF BeginStop, SocketInvariant, ShownTruly, Observed!Close
<1>2. CASE runner = "driving"
  BY <1>2 DEF BeginStop
<1> QED BY <1>1, <1>2 DEF BeginStop

LEMMA FinishObserved ==
  SocketInvariant /\ Finish => Observed!Close \/ Observed!Report
<1> SUFFICES ASSUME SocketInvariant, Finish PROVE Observed!Close \/ Observed!Report
  OBVIOUS
<1>1. CASE phase = "FatallyClosed"
  BY <1>1 DEF Finish, SocketInvariant, ShownTruly, Shows, Observed!Report
<1>2. CASE phase # "FatallyClosed"
  BY <1>2 DEF Finish, SocketInvariant, ShownTruly, Shows, Observed!Close
<1> QED BY <1>1, <1>2

LEMMA ReadLoginResultObserved ==
  ASSUME TypeOK, SocketInvariant, NEW f \in wire, ReadLoginResult(f)
  PROVE  Observed!LoggedIn \/ Observed!Refused
<1>1. Shows("Authenticating", "Authenticating", "Connected")
  BY LoginAnswered
<1>2. CASE auth = "accepted"
  BY <1>1, <1>2 DEF ReadLoginResult, Shows, Observed!LoggedIn
<1>3. CASE auth = "rejected"
  BY <1>1, <1>3 DEF ReadLoginResult, Shows, Observed!Refused
<1> QED BY <1>2, <1>3 DEF ReadLoginResult

(* Every step of the runner is a step of the contract, or shows nothing.   *)
LEMMA ObservedStep ==
  ConnectionInvariant /\ SocketInvariant /\ [Next]_vars
    => [Observed!Next]_(Observed!lifecycleVars)
<1> SUFFICES ASSUME ConnectionInvariant, SocketInvariant, [Next]_vars
             PROVE  Observed!Next \/ UNCHANGED <<state, event>>
  BY DEF Observed!lifecycleVars
<1> USE DEF clientVars, outboxVars, socketVars, runVars, sessionVars, corrVars
<1> DEFINE Implements == Observed!Next \/ UNCHANGED <<state, event>>
<1>t. TypeOK
  BY DEF ConnectionInvariant
<1>2. ASSUME NEW c \in Calls, Issue(c) \/ GiveUp(c) \/ Unsubscribe(c) PROVE Implements
  BY <1>2 DEF Issue, GiveUp, Unsubscribe
<1>3. CASE RequestShutdown \/ DropHandles
  BY <1>3 DEF RequestShutdown, DropHandles
<1>4. CASE StartIdle
  BY <1>4 DEF StartIdle, SocketInvariant, ShownTruly
<1>5. CASE StartConnecting
  <2>1. Observed!Attempt
    BY <1>5 DEF StartConnecting, SocketInvariant, ShownTruly, Observed!Attempt
  <2> QED BY <2>1 DEF Observed!Next
<1>6. CASE OpenFails \/ StartSendFails \/ HandshakeTimeout \/ LoseSocket
  BY <1>6, LostStep DEF OpenFails, StartSendFails, HandshakeTimeout, LoseSocket, Observed!Next
<1>7. CASE OpenSucceeds
  <2>1. Observed!Opened
    BY <1>7 DEF OpenSucceeds, SocketInvariant, ShownTruly, Observed!Opened
  <2> QED BY <2>1 DEF Observed!Next
<1>8. CASE TakeCall \/ TakeUnsubscribe
  BY <1>8 DEF TakeCall, TakeUnsubscribe
<1>9. CASE TakeShutdown \/ HandlesDropped
  BY <1>9, BeginStopObserved DEF TakeShutdown, HandlesDropped, Observed!Next
<1>10. CASE Finish
  BY <1>10, FinishObserved DEF Observed!Next
<1>11. CASE WriteFrame \/ SinkDrains \/ FlushCompletes \/ ServerLogin
  BY <1>11 DEF WriteFrame, SinkDrains, FlushCompletes, ServerLogin
<1>12. CASE ReadConnected
  <2>1. phase = "Handshaking"
    BY <1>12 DEF ReadConnected, SocketInvariant, ConnectOnce
  <2>2. Shows("Handshaking", "Handshaking", "Connecting")
    BY <1>12, <2>1 DEF ReadConnected, SocketInvariant, ShownTruly, Shows
  <2>3. Observed!Greeted
    BY <1>12, <2>2 DEF ReadConnected, Shows, Observed!Greeted
  <2> QED BY <2>3 DEF Observed!Next
<1>13. CASE ReadFailed
  <2>1. phase = "Handshaking"
    BY <1>13 DEF ReadFailed, SocketInvariant, ConnectOnce
  <2>2. state = "Handshaking"
    BY <1>13, <2>1 DEF ReadFailed, SocketInvariant, ShownTruly, Shows
  <2>3. Observed!Refused
    BY <1>13, <2>2 DEF ReadFailed, Observed!Refused
  <2> QED BY <2>3 DEF Observed!Next
<1>14. ASSUME NEW f \in wire, ReadLoginResult(f) PROVE Implements
  BY <1>14, <1>t, ReadLoginResultObserved DEF Observed!Next
<1>15. ASSUME NEW f \in wire, NEW tag \in {"Ok", "Server"}, ReadResult(f, tag) \/ ReadNosub(f, tag)
       PROVE  Implements
  BY <1>15 DEF ReadResult, ReadNosub, Answer
<1>16. ASSUME NEW F \in SUBSET wire, ReadReady(F) PROVE Implements
  BY <1>16 DEF ReadReady, Answer
<1>17. CASE ReadPing \/ LivenessTimer
  BY <1>17 DEF ReadPing, LivenessTimer
<1>18. CASE UNCHANGED vars
  BY <1>18 DEF vars
<1> QED
  BY <1>2, <1>3, <1>4, <1>5, <1>6, <1>7, <1>8, <1>9, <1>10, <1>11, <1>12, <1>13, <1>14, <1>15,
     <1>16, <1>17, <1>18
  DEF Next, ClientNext, RunnerNext, ServerNext, Read

(* Connection implements Lifecycle: what Connection::state and the event   *)
(* stream show is what ConnectionState and Event document, through every   *)
(* handshake, loss, refusal and shutdown.                                  *)
THEOREM ContractKept == Spec => LifecycleContract
<1>1. Init => Observed!Init
  BY DEF Init, Observed!Init
<1> QED BY <1>1, SocketHolds, ObservedStep, PTL DEF Spec, LifecycleContract, Observed!Spec

-----------------------------------------------------------------------------
(***** WaitingInvariant **************************************************)

LEMMA WaitingInit == Init => WaitingInvariant
  BY DEF Init, WaitingInvariant, LoginsDistinct, PendingAccounted, AllSettledAtEnd

(***************************************************************************)
(* The ids of logins                                                       *)
(***************************************************************************)

(* A step that sends no frame and hands out no id.                         *)
LEMMA LoginsKept ==
  ASSUME LoginsDistinct, UNCHANGED <<nextId, callKey>>, sink' \cup wire' \subseteq sink \cup wire
  PROVE  LoginsDistinct'
  BY DEF LoginsDistinct, Old

(* An id handed out stays handed out.                                      *)
LEMMA OldKept ==
  ASSUME TypeOK, NEW l \in Lanes, nextId' = [nextId EXCEPT ![l] = @ + 1], NEW k, Old(k)
  PROVE  k \in Keys /\ k[2] < nextId'[k[1]]
  BY DEF TypeOK, Old, Keys

LEMMA TakeCallLogins ==
  ConnectionInvariant /\ LoginsDistinct /\ TakeCall => LoginsDistinct'
<1> SUFFICES ASSUME ConnectionInvariant, LoginsDistinct, TakeCall PROVE LoginsDistinct'
  OBVIOUS
<1> PICK c : c = Head(commands).call
  OBVIOUS
<1> PICK key : key = NextKey(Lane(c))
  OBVIOUS
<1>1. c \in Calls
  <2>1. Head(commands) \in Commands /\ Head(commands).op = "call"
    BY DEF TakeCall, ConnectionInvariant, TypeOK
  <2> QED BY <2>1 DEF Commands, Shutdown
<1>2. Lane(c) \in Lanes /\ ~Old(key)
  BY <1>1, LaneType, NextKeyFresh DEF ConnectionInvariant, TypeOK
<1>3. /\ nextId' = [nextId EXCEPT ![Lane(c)] = @ + 1]
      /\ UNCHANGED <<sink, wire>>
      /\ callKey' \in {callKey, [callKey EXCEPT ![c] = key]}
  BY DEF TakeCall, socketVars, Register, RegisterAndCancel
<1>4. ASSUME NEW f \in sink \cup wire, f.type = "login"
      PROVE  /\ f.key \in Keys /\ f.key[2] < nextId'[f.key[1]]
             /\ \A d \in Calls : callKey'[d] # f.key
  <2>1. Old(f.key) /\ \A d \in Calls : callKey[d] # f.key
    BY <1>4 DEF LoginsDistinct
  <2>2. f.key \in Keys /\ f.key[2] < nextId'[f.key[1]]
    BY <1>2, <1>3, <2>1, OldKept DEF ConnectionInvariant
  <2>3. \A d \in Calls : callKey'[d] \in {callKey[d], key}
    BY <1>1, <1>3 DEF ConnectionInvariant, TypeOK
  <2> QED BY <1>2, <2>1, <2>2, <2>3
<1> QED BY <1>3, <1>4 DEF LoginsDistinct, Old

LEMMA ReadConnectedLogins ==
  ConnectionInvariant /\ LoginsDistinct /\ ReadConnected => LoginsDistinct'
<1> SUFFICES ASSUME ConnectionInvariant, LoginsDistinct, ReadConnected PROVE LoginsDistinct'
  OBVIOUS
<1>1. /\ nextId' = [nextId EXCEPT !["m"] = @ + 1]
      /\ sink' = sink /\ wire' \subseteq wire /\ callKey' = callKey
  BY DEF ReadConnected, clientVars, Register
<1>2. ASSUME NEW f \in sink \cup wire, f.type = "login"
      PROVE  /\ f.key \in Keys /\ f.key[2] < nextId'[f.key[1]]
             /\ \A d \in Calls : callKey[d] # f.key
  <2>1. Old(f.key) /\ \A d \in Calls : callKey[d] # f.key
    BY <1>2 DEF LoginsDistinct
  <2> QED BY <1>1, <2>1, OldKept DEF ConnectionInvariant, Lanes
<1> QED BY <1>1, <1>2 DEF LoginsDistinct, Old

(* A login on the protocol lane has an id of its own already.              *)
LEMMA WriteFrameLogins ==
  ConnectionInvariant /\ LoginsDistinct /\ WriteFrame => LoginsDistinct'
<1> SUFFICES ASSUME ConnectionInvariant, LoginsDistinct, WriteFrame PROVE LoginsDistinct'
  OBVIOUS
<1>1. sink' = sink \cup {NextFrame} /\ UNCHANGED <<wire, nextId, callKey>>
  BY DEF WriteFrame, corrVars, clientVars
<1>2. NextFrame.type = "login" => Old(NextFrame.key) /\ \A d \in Calls : callKey[d] # NextFrame.key
  <2>1. CASE priority # <<>>
    <3>1. NextFrame = priority[1] /\ 1 \in 1..Len(priority)
      BY <2>1 DEF NextFrame, ConnectionInvariant, TypeOK
    <3> QED BY <3>1 DEF ConnectionInvariant, KeysHandedOut, KeysDistinct
  <2>2. CASE priority = <<>>
    <3>1. NextFrame = app[1] /\ 1 \in 1..Len(app)
      <4>1. app # <<>> /\ app \in Seq(Frames)
        BY <2>2 DEF WriteFrame, Writable, ConnectionInvariant, TypeOK
      <4> QED BY <2>2, <4>1 DEF NextFrame
    <3>2. NextFrame.type \in AppTypes
      BY <3>1 DEF ConnectionInvariant, OutboxConsistent
    <3> QED BY <3>2 DEF AppTypes
  <2> QED BY <2>1, <2>2
<1> QED BY <1>1, <1>2 DEF LoginsDistinct, Old

LEMMA SinkDrainsLogins == LoginsDistinct /\ SinkDrains => LoginsDistinct'
<1> SUFFICES ASSUME LoginsDistinct, SinkDrains PROVE LoginsDistinct'
  OBVIOUS
<1>1. sink' \cup wire' \subseteq sink \cup wire /\ UNCHANGED <<nextId, callKey>>
  BY DEF SinkDrains, corrVars, clientVars
<1> QED BY <1>1, LoginsKept

(***************************************************************************)
(* Nobody waits on nothing                                                 *)
(***************************************************************************)

(* A step that makes nobody wait, and takes neither an entry, nor a frame  *)
(* in the outbox, nor the socket away.                                     *)
LEMMA AccountedKept ==
  ASSUME PendingAccounted, pending \subseteq pending', UNCHANGED <<callKey, app, unflushed>>,
         \A c \in Calls : caller'[c] = "waiting" => caller[c] = "waiting",
         runner \in {"driving", "closing"} => runner' \in {"driving", "closing"}
  PROVE  PendingAccounted'
  BY DEF PendingAccounted, InOutbox, OnSocket, CallFrame

(* settle() finds an entry for everyone who waits.                         *)
LEMMA SettleWaiting ==
  ASSUME PendingAccounted, NEW n \in Nat, NEW queued \in BOOLEAN, Settle(n, queued)
  PROVE  /\ \A c \in Calls : caller'[c] # "waiting"
         /\ queued => \A c \in Calls : caller'[c] # "queued"
         /\ pending' = {} /\ sink' = {} /\ wire' = {}
         /\ UNCHANGED <<nextId, callKey>>
<1>1. \A c \in Calls : caller[c] = "waiting" => HasEntry(c)
  BY DEF PendingAccounted, HasEntry
<1> QED BY <1>1 DEF Settle, Disconnect

(* The socket is lost, or the task ends: settle() was the last word.       *)
LEMMA SettleAccounts ==
  ASSUME WaitingInvariant, NEW n \in Nat, NEW queued \in BOOLEAN, Settle(n, queued),
         runner' = "stopped" => queued /\ commands' = <<>> /\ state' \in {"Closed", "Fatal"}
  PROVE  WaitingInvariant'
<1>1. /\ \A c \in Calls : caller'[c] # "waiting"
      /\ queued => \A c \in Calls : caller'[c] # "queued"
      /\ pending' = {} /\ sink' = {} /\ wire' = {}
      /\ UNCHANGED <<nextId, callKey>>
  BY SettleWaiting DEF WaitingInvariant
<1>2. LoginsDistinct' /\ PendingAccounted'
  BY <1>1 DEF LoginsDistinct, PendingAccounted
<1>3. AllSettledAtEnd'
  BY <1>1 DEF AllSettledAtEnd
<1> QED BY <1>2, <1>3 DEF WaitingInvariant

(* A frame joins the application outbox.                                   *)
LEMMA OutboxGrows ==
  ASSUME app \in Seq(Frames), NEW f \in Frames, app' = Append(app, f)
  PROVE  /\ \A i \in 1..Len(app) : i \in 1..Len(app') /\ app'[i] = app[i]
         /\ \E i \in 1..Len(app') : app'[i] = f
<1>1. Len(app') = Len(app) + 1 /\ app'[Len(app) + 1] = f /\ Len(app) \in Nat
  OBVIOUS
<1>2. \A i \in 1..Len(app) : i \in 1..Len(app') /\ app'[i] = app[i]
  BY <1>1
<1>3. Len(app) + 1 \in 1..Len(app')
  BY <1>1
<1> QED BY <1>1, <1>2, <1>3

LEMMA TakeCallAccounted ==
  ConnectionInvariant /\ PendingAccounted /\ TakeCall => PendingAccounted'
<1> SUFFICES ASSUME ConnectionInvariant, PendingAccounted, TakeCall PROVE PendingAccounted'
  OBVIOUS
<1> PICK c : c = Head(commands).call
  OBVIOUS
<1> PICK key : key = NextKey(Lane(c))
  OBVIOUS
<1>1. c \in Calls
  <2>1. Head(commands) \in Commands /\ Head(commands).op = "call"
    BY DEF TakeCall, ConnectionInvariant, TypeOK
  <2> QED BY <2>1 DEF Commands, Shutdown
<1>2. UNCHANGED <<runner, unflushed>>
  BY DEF TakeCall, runVars, socketVars
<1>3. CASE caller[c] = "queued"
  <2> DEFINE entry == [key |-> key, epoch |-> epoch[Lane(c)], sent |-> FALSE, who |-> c]
  <2>1. /\ caller' = [caller EXCEPT ![c] = "waiting"]
        /\ callKey' = [callKey EXCEPT ![c] = key]
        /\ app' = Append(app, CallFrame(c, key))
        /\ pending' = pending \cup {entry}
    BY <1>3 DEF TakeCall, Register
  <2>2. /\ callKey'[c] = key
        /\ \A d \in Calls \ {c} : callKey'[d] = callKey[d] /\ caller'[d] = caller[d]
    BY <1>1, <2>1 DEF ConnectionInvariant, TypeOK
  <2>3. /\ \A i \in 1..Len(app) : i \in 1..Len(app') /\ app'[i] = app[i]
        /\ \E i \in 1..Len(app') : app'[i] = CallFrame(c, key)
    <3>1. key \in Keys
      BY <1>1, LaneType, NextKeyFresh DEF ConnectionInvariant, TypeOK
    <3>2. CallFrame(c, key) \in Frames
      BY <1>1, <3>1 DEF CallFrame, Frames, Calls
    <3> QED BY <2>1, <3>2, OutboxGrows DEF ConnectionInvariant, TypeOK
  <2>4. ASSUME NEW d \in Calls, caller'[d] = "waiting"
        PROVE  \E e \in pending' : /\ e.who = d /\ e.key = callKey'[d]
                                   /\ InOutbox(d)' \/ OnSocket(e)'
    <3>1. CASE d = c
      <4>1. InOutbox(d)'
        BY <2>2, <2>3, <3>1 DEF InOutbox, CallFrame
      <4>2. entry \in pending' /\ entry.who = d /\ entry.key = callKey'[d]
        BY <2>1, <2>2, <3>1
      <4> QED BY <4>1, <4>2
    <3>2. CASE d # c
      <4>1. PICK e \in pending : /\ e.who = d /\ e.key = callKey[d]
                                 /\ InOutbox(d) \/ OnSocket(e)
        BY <2>2, <2>4, <3>2 DEF PendingAccounted
      <4>2. InOutbox(d) => InOutbox(d)'
        BY <2>2, <2>3, <3>2 DEF InOutbox, CallFrame
      <4>3. OnSocket(e) => OnSocket(e)'
        BY <1>2 DEF OnSocket
      <4> QED BY <2>1, <2>2, <3>2, <4>1, <4>2, <4>3
    <3> QED BY <3>1, <3>2
  <2> QED BY <2>4 DEF PendingAccounted
<1>4. CASE caller[c] = "gone"
  BY <1>2, <1>4, AccountedKept DEF TakeCall, RegisterAndCancel
<1> QED BY <1>3, <1>4 DEF TakeCall

LEMMA TakeUnsubscribeAccounted ==
  ConnectionInvariant /\ PendingAccounted /\ TakeUnsubscribe => PendingAccounted'
<1> SUFFICES ASSUME ConnectionInvariant, PendingAccounted, TakeUnsubscribe
             PROVE  PendingAccounted'
  OBVIOUS
<1>1. UNCHANGED <<caller, callKey, pending, unflushed, runner>>
  BY DEF TakeUnsubscribe, runVars, socketVars, corrVars
<1>2. UnsubFrame(Head(commands).call) \in Frames
  <2>1. Head(commands) \in Commands /\ Head(commands).op = "unsub"
    BY DEF TakeUnsubscribe, ConnectionInvariant, TypeOK
  <2>2. Head(commands).call \in Calls
    BY <2>1 DEF Commands, Shutdown
  <2> QED BY <2>2 DEF UnsubFrame, Frames, ConnectionInvariant, TypeOK
<1>3. \A i \in 1..Len(app) : i \in 1..Len(app') /\ app'[i] = app[i]
  BY <1>2, OutboxGrows DEF TakeUnsubscribe, ConnectionInvariant, TypeOK
<1>4. \A c \in Calls : InOutbox(c) => InOutbox(c)'
  BY <1>1, <1>3 DEF InOutbox, CallFrame
<1>5. \A e \in pending : OnSocket(e) => OnSocket(e)'
  BY <1>1 DEF OnSocket
<1> QED BY <1>1, <1>4, <1>5 DEF PendingAccounted

(* A frame leaves the outbox for the socket, marked with its id.           *)
LEMMA WriteFrameAccounted ==
  ConnectionInvariant /\ PendingAccounted /\ WriteFrame => PendingAccounted'
<1> SUFFICES ASSUME ConnectionInvariant, PendingAccounted, WriteFrame PROVE PendingAccounted'
  OBVIOUS
<1>1. /\ UNCHANGED <<caller, callKey, pending, runner>> /\ runner = "driving"
      /\ unflushed' = unflushed \cup Marks(NextFrame)
  BY DEF WriteFrame, clientVars, runVars, corrVars
<1>2. \A e \in pending : OnSocket(e) => OnSocket(e)'
  BY <1>1 DEF OnSocket
<1>3. ASSUME NEW c \in Calls, InOutbox(c), ~InOutbox(c)'
      PROVE  NextFrame = CallFrame(c, callKey[c])
  <2>1. PICK i \in 1..Len(app) : app[i] = CallFrame(c, callKey[c])
    BY <1>3 DEF InOutbox
  <2>2. \A j \in 1..Len(app') : app'[j] # CallFrame(c, callKey[c])
    BY <1>1, <1>3 DEF InOutbox, CallFrame
  <2>3. priority = <<>> /\ app' = Tail(app)
    BY <2>1, <2>2 DEF WriteFrame
  <2>4. app \in Seq(Frames) /\ app # <<>>
    BY <2>1 DEF ConnectionInvariant, TypeOK
  <2>5. i = 1
    <3> SUFFICES ASSUME i # 1 PROVE FALSE
      OBVIOUS
    <3>1. i - 1 \in 1..Len(app') /\ app'[i - 1] = app[i]
      BY <2>3, <2>4
    <3> QED BY <2>1, <2>2, <3>1
  <2> QED BY <2>1, <2>3, <2>4, <2>5 DEF NextFrame
<1>4. ASSUME NEW c \in Calls, NEW e \in pending, e.key = callKey[c],
             InOutbox(c) \/ OnSocket(e)
      PROVE  InOutbox(c)' \/ OnSocket(e)'
  <2>1. CASE NextFrame = CallFrame(c, callKey[c])
    BY <1>1, <1>4, <2>1 DEF Marks, CallFrame, OnSocket
  <2>2. CASE NextFrame # CallFrame(c, callKey[c])
    BY <1>2, <1>3, <1>4, <2>2
  <2> QED BY <2>1, <2>2
<1> QED BY <1>1, <1>4 DEF PendingAccounted

LEMMA FlushCompletesAccounted ==
  ConnectionInvariant /\ PendingAccounted /\ FlushCompletes => PendingAccounted'
<1> SUFFICES ASSUME ConnectionInvariant, PendingAccounted, FlushCompletes
             PROVE  PendingAccounted'
  OBVIOUS
<1>1. /\ pending' = MarkSent(pending, unflushed)
      /\ UNCHANGED <<caller, callKey, app, runner>>
  BY DEF FlushCompletes, clientVars, outboxVars, runVars
<1>2. ASSUME NEW c \in Calls, caller[c] = "waiting"
      PROVE  \E e \in pending' : e.who = c /\ e.key = callKey[c] /\ (InOutbox(c)' \/ OnSocket(e)')
  <2>1. PICK p \in pending : p.who = c /\ p.key = callKey[c] /\ (InOutbox(c) \/ OnSocket(p))
    BY <1>2 DEF PendingAccounted
  <2>2. PICK e \in pending' : e = [p EXCEPT !.sent = @ \/ p.key \in unflushed]
    BY <1>1, <2>1 DEF MarkSent
  <2>3. e.who = p.who /\ e.key = p.key /\ e.sent = (p.sent \/ p.key \in unflushed)
    BY <2>1, <2>2 DEF ConnectionInvariant, TypeOK, Entries
  <2>4. InOutbox(c) => InOutbox(c)'
    BY <1>1 DEF InOutbox, CallFrame
  <2>5. OnSocket(p) => OnSocket(e)'
    BY <1>1, <2>3 DEF OnSocket
  <2> QED BY <2>1, <2>2, <2>3, <2>4, <2>5
<1> QED BY <1>1, <1>2 DEF PendingAccounted

(* The entries that stay keep whoever waits for them accounted for.        *)
LEMMA ResolveAccounted ==
  ASSUME PendingAccounted, UNCHANGED <<callKey, app, unflushed>>, NEW keys, Resolve(keys),
         \A c \in Calls : caller'[c] = "waiting" => caller[c] = "waiting" /\ callKey[c] \notin keys,
         runner \in {"driving", "closing"} => runner' \in {"driving", "closing"}
  PROVE  PendingAccounted'
<1>1. ASSUME NEW c \in Calls, caller'[c] = "waiting"
      PROVE  \E e \in pending' : e.who = c /\ e.key = callKey[c] /\ (InOutbox(c)' \/ OnSocket(e)')
  <2>1. PICK e \in pending : e.who = c /\ e.key = callKey[c] /\ (InOutbox(c) \/ OnSocket(e))
    BY <1>1 DEF PendingAccounted
  <2>2. e \in pending'
    BY <1>1, <2>1 DEF Resolve
  <2>3. InOutbox(c)' \/ OnSocket(e)'
    BY <2>1 DEF InOutbox, OnSocket, CallFrame
  <2> QED BY <2>1, <2>2, <2>3
<1> QED BY <1>1 DEF PendingAccounted

(* Resolve settles the waiter of every current entry it takes away.        *)
LEMMA AnswerAccounted ==
  ASSUME ConnectionInvariant, PendingAccounted, NEW F, NEW tag, Answer(F, tag)
  PROVE  PendingAccounted'
<1> DEFINE keys == {f.key : f \in F}
<1>1. /\ Resolve(keys)
      /\ caller' = [c \in Calls |-> IF c \in Reached(F) THEN "done" ELSE caller[c]]
      /\ UNCHANGED <<callKey, app, unflushed, runner>>
  BY DEF Answer, outboxVars, socketVars, runVars
<1>2. ASSUME NEW c \in Calls, caller'[c] = "waiting"
      PROVE  caller[c] = "waiting" /\ callKey[c] \notin keys
  <2>1. caller[c] = "waiting" /\ c \notin Reached(F)
    BY <1>1, <1>2
  <2>2. PICK e \in pending : e.who = c /\ e.key = callKey[c]
    BY <2>1 DEF PendingAccounted
  <2>3. e \notin Answered(keys)
    BY <2>1, <2>2 DEF Reached
  <2>4. e.epoch = epoch[e.key[1]]
    BY DEF ConnectionInvariant, EpochLockstep
  <2> QED BY <2>1, <2>2, <2>3, <2>4 DEF Answered
<1> HIDE DEF keys
<1> QED BY <1>1, <1>2, ResolveAccounted

(* The login's entry is nobody's.                                          *)
LEMMA ReadLoginResultAccounted ==
  ASSUME LoginsDistinct, PendingAccounted, NEW f \in wire, ReadLoginResult(f)
  PROVE  PendingAccounted'
<1>1. /\ Resolve({f.key}) /\ runner = "driving" /\ runner' \in {"driving", "closing"}
      /\ UNCHANGED <<caller, callKey, app, unflushed>>
  BY DEF ReadLoginResult, clientVars, outboxVars, socketVars
<1>2. \A c \in Calls : callKey[c] \notin {f.key}
  BY DEF ReadLoginResult, LoginsDistinct
<1> QED BY <1>1, <1>2, ResolveAccounted

(***************************************************************************)
(* Every step                                                              *)
(***************************************************************************)

(* While the task runs, AllSettledAtEnd says nothing.                      *)
LEMMA StillRunning == ASSUME runner' # "stopped" PROVE AllSettledAtEnd'
  BY DEF AllSettledAtEnd

(* A step of a caller, or one that leaves the waiters alone.               *)
LEMMA WaitingKept ==
  ASSUME WaitingInvariant, UNCHANGED <<nextId, callKey, app, unflushed, pending>>,
         sink' \cup wire' \subseteq sink \cup wire,
         \A c \in Calls : caller'[c] = "waiting" => caller[c] = "waiting",
         runner \in {"driving", "closing"} => runner' \in {"driving", "closing"},
         AllSettledAtEnd'
  PROVE  WaitingInvariant'
  BY LoginsKept, AccountedKept DEF WaitingInvariant

(* Once the task has ended a call fails at once and nothing is queued.     *)
LEMMA CallerSettled ==
  ASSUME TypeOK, AllSettledAtEnd, NEW c \in Calls, Issue(c) \/ GiveUp(c) \/ Unsubscribe(c)
  PROVE  AllSettledAtEnd'
<1>1. CASE runner = "stopped"
  BY <1>1 DEF AllSettledAtEnd, TypeOK, Issue, GiveUp, Unsubscribe, runVars, corrVars
<1>2. CASE runner # "stopped"
  BY <1>2, StillRunning DEF Issue, GiveUp, Unsubscribe, runVars
<1> QED BY <1>1, <1>2

LEMMA CallerWaiting ==
  ASSUME TypeOK, WaitingInvariant, NEW c \in Calls, Issue(c) \/ GiveUp(c) \/ Unsubscribe(c)
  PROVE  WaitingInvariant'
<1>1. AllSettledAtEnd'
  BY CallerSettled DEF WaitingInvariant
<1>2. \A d \in Calls : caller'[d] = "waiting" => caller[d] = "waiting"
  BY DEF Issue, GiveUp, Unsubscribe, TypeOK
<1>3. UNCHANGED <<nextId, callKey, app, unflushed, pending, sink, wire, runner>>
  BY DEF Issue, GiveUp, Unsubscribe, outboxVars, socketVars, runVars, corrVars
<1> QED BY <1>1, <1>2, <1>3, WaitingKept

LEMMA BeginStopWaiting ==
  ASSUME WaitingInvariant, NEW rest, BeginStop(rest)
  PROVE  WaitingInvariant'
<1>1. CASE runner = "idle"
  BY <1>1, SettleAccounts DEF BeginStop, Stop
<1>2. CASE runner = "driving"
  <2>1. /\ runner' = "closing"
        /\ UNCHANGED <<nextId, callKey, app, unflushed, pending, sink, wire, caller>>
    BY <1>2 DEF BeginStop, outboxVars, socketVars, corrVars
  <2> QED BY <2>1, StillRunning, WaitingKept
<1> QED BY <1>1, <1>2 DEF BeginStop

LEMMA WaitingStep ==
  ConnectionInvariant /\ WaitingInvariant /\ [Next]_vars => WaitingInvariant'
<1> SUFFICES ASSUME ConnectionInvariant, WaitingInvariant, [Next]_vars PROVE WaitingInvariant'
  OBVIOUS
<1> USE DEF clientVars, outboxVars, socketVars, runVars, sessionVars, corrVars
<1>t. TypeOK /\ LoginsDistinct /\ PendingAccounted
  BY DEF ConnectionInvariant, WaitingInvariant
<1>1. ASSUME NEW c \in Calls, Issue(c) \/ GiveUp(c) \/ Unsubscribe(c) PROVE WaitingInvariant'
  BY <1>1, <1>t, CallerWaiting
<1>2. CASE RequestShutdown
  BY <1>2, StillRunning, WaitingKept DEF RequestShutdown
<1>3. CASE DropHandles
  BY <1>3, WaitingKept DEF DropHandles, WaitingInvariant, AllSettledAtEnd
<1>4. CASE StartIdle \/ StartConnecting
  BY <1>4, StillRunning, WaitingKept DEF StartIdle, StartConnecting
<1>5. CASE OpenFails \/ StartSendFails \/ HandshakeTimeout \/ LoseSocket
  <2>1. Disconnected
    BY <1>5 DEF OpenFails, StartSendFails, HandshakeTimeout, LoseSocket
  <2> QED BY <2>1, SettleAccounts DEF Disconnected
<1>6. CASE OpenSucceeds
  BY <1>6, StillRunning, WaitingKept DEF OpenSucceeds
<1>7. CASE TakeCall
  <2>1. runner' # "stopped"
    BY <1>7 DEF TakeCall, CanTakeCommand
  <2> QED
    BY <1>7, <1>t, <2>1, TakeCallLogins, TakeCallAccounted, StillRunning DEF WaitingInvariant
<1>8. CASE TakeUnsubscribe
  <2>1. runner' # "stopped"
    BY <1>8 DEF TakeUnsubscribe, CanTakeCommand
  <2>2. LoginsDistinct'
    BY <1>8, <1>t, LoginsKept DEF TakeUnsubscribe
  <2> QED
    BY <1>8, <1>t, <2>1, <2>2, TakeUnsubscribeAccounted, StillRunning DEF WaitingInvariant
<1>9. CASE TakeShutdown \/ HandlesDropped
  BY <1>9, BeginStopWaiting DEF TakeShutdown, HandlesDropped
<1>10. CASE Finish
  BY <1>10, SettleAccounts DEF Finish, Stop
<1>11. CASE WriteFrame
  <2>1. runner' # "stopped"
    BY <1>11 DEF WriteFrame
  <2> QED
    BY <1>11, <1>t, <2>1, WriteFrameLogins, WriteFrameAccounted, StillRunning DEF WaitingInvariant
<1>12. CASE SinkDrains
  <2>1. runner' # "stopped"
    BY <1>12 DEF SinkDrains
  <2>2. PendingAccounted'
    BY <1>12, <1>t, AccountedKept DEF SinkDrains
  <2> QED BY <1>12, <1>t, <2>1, <2>2, SinkDrainsLogins, StillRunning DEF WaitingInvariant
<1>13. CASE FlushCompletes
  <2>1. runner' # "stopped"
    BY <1>13 DEF FlushCompletes
  <2>2. LoginsDistinct'
    BY <1>13, <1>t, LoginsKept DEF FlushCompletes
  <2> QED
    BY <1>13, <1>t, <2>1, <2>2, FlushCompletesAccounted, StillRunning DEF WaitingInvariant
<1>14. CASE ServerLogin
  BY <1>14, WaitingKept DEF ServerLogin, WaitingInvariant, AllSettledAtEnd
<1>15. CASE ReadConnected
  <2>1. runner' # "stopped"
    BY <1>15 DEF ReadConnected
  <2>2. PendingAccounted'
    BY <1>15, <1>t, AccountedKept DEF ReadConnected, Register
  <2> QED BY <1>15, <1>t, <2>1, <2>2, ReadConnectedLogins, StillRunning DEF WaitingInvariant
<1>16. CASE ReadFailed
  BY <1>16, StillRunning, WaitingKept DEF ReadFailed
<1>17. ASSUME NEW f \in wire, ReadLoginResult(f) PROVE WaitingInvariant'
  <2>1. runner' # "stopped"
    BY <1>17 DEF ReadLoginResult
  <2>2. LoginsDistinct'
    BY <1>17, <1>t, LoginsKept DEF ReadLoginResult, Resolve
  <2> QED
    BY <1>17, <1>t, <2>1, <2>2, ReadLoginResultAccounted, StillRunning DEF WaitingInvariant
<1>18. ASSUME NEW F, NEW tag, runner = "driving", Answer(F, tag) PROVE WaitingInvariant'
  <2>1. runner' # "stopped"
    BY <1>18 DEF Answer
  <2>2. LoginsDistinct'
    BY <1>18, <1>t, LoginsKept DEF Answer, Resolve
  <2>3. PendingAccounted'
    BY <1>18, <1>t, AnswerAccounted
  <2> QED BY <2>1, <2>2, <2>3, StillRunning DEF WaitingInvariant
<1>19. ASSUME NEW f \in wire, NEW tag \in {"Ok", "Server"}, ReadResult(f, tag) \/ ReadNosub(f, tag)
       PROVE  WaitingInvariant'
  BY <1>18, <1>19 DEF ReadResult, ReadNosub
<1>20. ASSUME NEW F \in SUBSET wire, ReadReady(F) PROVE WaitingInvariant'
  BY <1>18, <1>20 DEF ReadReady
<1>21. CASE ReadPing \/ LivenessTimer
  BY <1>21, StillRunning, WaitingKept DEF ReadPing, LivenessTimer
<1>22. CASE UNCHANGED vars
  BY <1>22, WaitingKept DEF vars, WaitingInvariant, AllSettledAtEnd
<1> QED
  BY <1>1, <1>2, <1>3, <1>4, <1>5, <1>6, <1>7, <1>8, <1>9, <1>10, <1>11, <1>12, <1>13, <1>14,
     <1>15, <1>16, <1>17, <1>19, <1>20, <1>21, <1>22
  DEF Next, ClientNext, RunnerNext, ServerNext, Read

LEMMA WaitingHolds == Spec => []WaitingInvariant
  BY InvInit, InvStep, WaitingInit, WaitingStep, PTL DEF Spec

(* A waiting caller has an entry to be settled by, and its frame is in the *)
(* outbox or on the socket that is open now (register, poll_step, settle). *)
THEOREM NobodyWaitsOnNothing == Spec => []PendingAccounted
<1>1. WaitingInvariant => PendingAccounted
  BY DEF WaitingInvariant
<1> QED BY <1>1, WaitingHolds, PTL

(* When run() has returned every future is resolved: settle() runs before  *)
(* every return, and later calls fail at once.                             *)
THEOREM NobodyLeftBehind == Spec => []AllSettledAtEnd
<1>1. WaitingInvariant => AllSettledAtEnd
  BY DEF WaitingInvariant
<1> QED BY <1>1, WaitingHolds, PTL

=============================================================================
