----------------------------- MODULE Framework -----------------------------
(***************************************************************************)
(* A bot at work: Bot::connect of crates/rocketsocket/src/bot.rs, and the  *)
(* dispatch of framework.rs that offers every event to every handler, past *)
(* the filters of filter.rs, composed with the credentials it shares with  *)
(* the application (RestAuth).  What the frames of the server decode to is *)
(* a matter of module Wire, what its answers do of module RestAnswers.     *)
(*                                                                         *)
(* The bot recognises its own messages by an account it reads, once, from  *)
(* the slot of the REST client, while the session it listens on belongs to *)
(* whoever logged in when the bot was connected.                           *)
(***************************************************************************)
EXTENDS Naturals, Sequences, RestAuth, Events

CONSTANTS
  Main,         \* the task that connects the bot
  Dispatchers,  \* concurrent callers of dispatch
  Sent,         \* the frames the server sends: the `event' each decodes to,
                \* and the event that was `said' by it
  Handlers,     \* the registered handlers, in order
  RoleAnswers,  \* the answers to role lookups: `lookup', the holders that
                \* are `told', and those that were `meant'
  Unset         \* the OnceCell `me' before its first use

\* The filters of a handler, its role requirement and the event it extracts.
IsHandler(h) ==
  /\ h.event \in {"MessageCreate", "MessageDeleted", "Stream"}
  /\ {h.allow_self, h.allow_system, h.allow_edits, h.prefix, h.mentions_me} \subseteq BOOLEAN
  /\ h.room \in Rooms \cup {NoRoom}
  /\ h.authority \in {"Anyone", "Admin", "RoomAdmin", "AdminOrRoomAdmin"}

\* Only what the connection keeps to itself is of no kind.
IsEvent(e) ==
  /\ e.kind \in Posted => e.message \in Messages
  /\ e.kind = "none" => e = Nothing

ASSUME FrameworkAssumption ==
  /\ Main \in Tasks
  /\ Accounts \subseteq Users
  /\ None \notin Users \cup {"all", "here"}
  /\ Unset \notin Accounts \cup {None}
  /\ Handlers \in Seq({Handlers[i] : i \in DOMAIN Handlers})
  /\ \A i \in DOMAIN Handlers : IsHandler(Handlers[i])
  /\ \A frame \in Sent : IsEvent(frame.event) /\ IsEvent(frame.said)

VARIABLES
  bot,        \* where Bot::connect stands
  identity,   \* the account the websocket was opened with
  me,         \* Framework::me
  snapshots,  \* the role directory holds answers (module Roles)
  work,       \* where each dispatch stands
  doubtful    \* history: `me' was not read from the identity's credentials

botVars == <<bot, identity>>
vars == <<restVars, botVars, me, snapshots, work, doubtful>>

Default == [event |-> "MessageCreate", allow_self |-> FALSE, allow_system |-> FALSE,
            allow_edits |-> FALSE, prefix |-> FALSE, room |-> NoRoom,
            mentions_me |-> FALSE, authority |-> "Anyone"]

Reconnected == [event |-> Resubscribed, said |-> Resubscribed]

\* `at' is the handler being offered the event; `said' (history) is what the
\* server meant, `called' and `refused' (history) are the handlers that ran
\* and those whose role requirement its author fails.
NoWork == [stage |-> "idle", event |-> Nothing, said |-> Nothing, at |-> 0,
           called |-> {}, refused |-> {}]

Init ==
  /\ RestInit
  /\ bot = "off"
  /\ identity = None
  /\ me = Unset
  /\ snapshots = FALSE
  /\ work = [d \in Dispatchers |-> NoWork]
  /\ doubtful = FALSE

frameworkVars == <<me, snapshots, work, doubtful>>

-----------------------------------------------------------------------------
(* Bot::connect.  Its REST client is nobody else's until it returns.       *)

Connect ==
  /\ bot = "off"
  /\ bot' = "connecting"
  /\ \/ \E token \in DOMAIN Issued : LoginByToken(Main, token)
     \/ LoginByPassword(Main)
  /\ UNCHANGED <<identity, frameworkVars>>

Connecting ==
  /\ bot = "connecting"
  /\ Send(Main) \/ ServeMe(Main) \/ ServeLogin(Main) \/ FailRequest(Main)
  /\ UNCHANGED <<botVars, frameworkVars>>

\* The websocket resumes with the token the login returned.
Connected ==
  /\ bot = "connecting"
  /\ call[Main].answer.told.result = "ok"
  /\ Return(Main)
  /\ bot' = "up"
  /\ identity' = Owner(call[Main].given)
  /\ UNCHANGED frameworkVars

ConnectFails ==
  /\ bot = "connecting"
  /\ call[Main].answer.told.result \notin {"none", "ok"}
  /\ Return(Main)
  /\ bot' = "off"
  /\ UNCHANGED <<identity, frameworkVars>>

\* The application goes on using the REST client, its own clone or the bot's.
UseRest ==
  /\ bot = "up"
  /\ RestNext
  /\ UNCHANGED <<botVars, frameworkVars>>

-----------------------------------------------------------------------------
(* Framework::dispatch.                                                    *)

Free(d) == bot = "up" /\ work[d].stage \in {"idle", "done"}

\* Mutant: the dispatch goes on past the last handler.
AdvanceTooFar(w) == [w EXCEPT !.stage = "offering", !.at = @ + 1]

\* The next handler in order, or the end of the dispatch.
Advance(w) ==
  IF w.at = Len(Handlers) THEN [w EXCEPT !.stage = "done"]
                          ELSE [w EXCEPT !.stage = "offering", !.at = @ + 1]

Offer(d, frame) ==
  work' = [work EXCEPT ![d] = Advance([NoWork EXCEPT !.event = frame.event, !.said = frame.said])]

\* A frame that the connection keeps to itself reaches no dispatch.
Swallow(d, frame) ==
  work' = [work EXCEPT ![d] = [NoWork EXCEPT !.stage = "done", !.said = frame.said,
                                            !.at = Len(Handlers)]]

\* observe(): a role change makes the directory drop what it concerns.
TakeFrame(d, frame) ==
  /\ Free(d)
  /\ IF frame.event = Nothing THEN Swallow(d, frame) ELSE Offer(d, frame)
  /\ snapshots' \in IF frame.event.kind = "RolesChanged" THEN {FALSE, snapshots} ELSE {snapshots}
  /\ UNCHANGED <<restVars, botVars, me, doubtful>>

\* observe(): nothing the directory knew outlives a reconnect.
TakeResubscribed(d) ==
  /\ Free(d)
  /\ Offer(d, Reconnected)
  /\ snapshots' = FALSE
  /\ UNCHANGED <<restVars, botVars, me, doubtful>>

Offered(d) == Handlers[work[d].at]
Filterable(e) == e.kind \in Posted

\* me.get_or_init(user_id()): read once, from whatever the slot holds then.
ReadMe(d) ==
  /\ work[d].stage = "offering"
  /\ Filterable(work[d].event)
  /\ me = Unset
  /\ me' = Owner(slot)
  /\ doubtful' = (Owner(slot) # identity)
  /\ UNCHANGED <<restVars, botVars, snapshots, work>>

\* Filters::local_verdict, without the reason.
LocallyFiltered(h, e) ==
  \/ ~h.allow_self /\ me # None /\ e.message.author = me
  \/ ~h.allow_system /\ e.message.system
  \/ ~h.allow_edits /\ e.message.edited
  \/ h.prefix /\ ~e.message.prefixed
  \/ h.room # NoRoom /\ e.room # h.room
  \/ h.mentions_me /\ ~(me # None /\ me \in e.message.mentions)

\* filtered(), up to the question only the server can answer.  What is no
\* message passes unfiltered.
Filter(d) ==
  /\ work[d].stage = "offering"
  /\ LET w == work[d]
         h == Offered(d)
     IN /\ Filterable(w.event) => me # Unset
        /\ work' = [work EXCEPT ![d] =
             IF ~Filterable(w.event) THEN [w EXCEPT !.stage = "calling"]
             ELSE IF LocallyFiltered(h, w.event) THEN Advance(w)
             ELSE [w EXCEPT !.stage = IF h.authority = "Anyone" THEN "calling" ELSE "asking"]]
  /\ UNCHANGED <<restVars, botVars, me, snapshots, doubtful>>

RoleSays(lookup) == {answer \in RoleAnswers : answer.lookup = lookup}

\* RoleDirectory::verdict, for the holders that it knows of.
Allows(authority, author, admins, roomAdmins) ==
  CASE authority = "Admin"     -> author \in admins
    [] authority = "RoomAdmin" -> author \in roomAdmins
    [] authority = "AdminOrRoomAdmin" -> author \in admins \cup roomAdmins

\* The directory answers from a snapshot, or from the server and makes one.
AskDirectory(d) ==
  /\ work[d].stage = "asking"
  /\ \E global \in RoleSays("Global"), room \in RoleSays("Room") :
       LET allows(admins, roomAdmins) ==
             Allows(Offered(d).authority, work[d].event.message.author, admins, roomAdmins)
           w == IF allows(global.meant, room.meant) THEN work[d]
                ELSE [work[d] EXCEPT !.refused = @ \cup {work[d].at}]
       IN work' = [work EXCEPT ![d] = IF allows(global.told, room.told)
                                        THEN [w EXCEPT !.stage = "calling"] ELSE Advance(w)]
  /\ snapshots' = TRUE
  /\ UNCHANGED <<restVars, botVars, me, doubtful>>

\* HandlerArgs::extract: the event parameter declines what it does not handle.
Extracts(h, e) ==
  \/ h.event = "MessageCreate" /\ e.kind \in Posted
  \/ h.event = "MessageDeleted" /\ e.kind = "MessageDeleted"
  \/ h.event = "Stream" /\ e.kind \notin {"Connection", "Resubscribed"}

Ran(w) == IF Extracts(Handlers[w.at], w.event) THEN [w EXCEPT !.called = @ \cup {w.at}] ELSE w

\* The handler declines the event, or its body runs and succeeds or fails: an
\* error is logged, and it is the next handler's turn.
CallHandler(d) ==
  /\ work[d].stage = "calling"
  /\ work' = [work EXCEPT ![d] = Advance(Ran(@))]
  /\ UNCHANGED <<restVars, botVars, me, snapshots, doubtful>>

\* Its body panics: the panic unwinds out of dispatch.
HandlerPanics(d) ==
  /\ work[d].stage = "calling"
  /\ Extracts(Offered(d), work[d].event)
  /\ work' = [work EXCEPT ![d] = [Ran(@) EXCEPT !.stage = "done"]]
  /\ UNCHANGED <<restVars, botVars, me, snapshots, doubtful>>

Dispatch(d) ==
  \/ \E frame \in Sent : TakeFrame(d, frame)
  \/ TakeResubscribed(d)
  \/ ReadMe(d) \/ Filter(d) \/ AskDirectory(d)
  \/ CallHandler(d) \/ HandlerPanics(d)

Next ==
  \/ Connect \/ Connecting \/ Connected \/ ConnectFails
  \/ UseRest
  \/ \E d \in Dispatchers : Dispatch(d)

Spec == Init /\ [][Next]_vars

-----------------------------------------------------------------------------
Decodings == {frame.event : frame \in Sent} \cup {Nothing, Resubscribed}
Meanings == {frame.said : frame \in Sent} \cup {Nothing, Resubscribed}

Works ==
  [stage : {"idle", "offering", "asking", "calling", "done"}, event : Decodings,
   said : Meanings, at : 0 .. Len(Handlers), called : SUBSET (1 .. Len(Handlers)),
   refused : SUBSET (1 .. Len(Handlers))]

TypeOK ==
  /\ RestTypeOK
  /\ bot \in {"off", "connecting", "up"}
  /\ identity \in Accounts \cup {None}
  /\ me \in Accounts \cup {None, Unset}
  /\ snapshots \in BOOLEAN
  /\ work \in [Dispatchers -> Works]
  /\ \A d \in Dispatchers : work[d].called \cup work[d].refused \subseteq 1 .. work[d].at
  /\ doubtful \in BOOLEAN

\* What the attribute of a handler asks for, for the account it is bound to.
Wants(h, m, room) ==
  /\ m.author = identity => h.allow_self
  /\ m.system => h.allow_system
  /\ m.edited => h.allow_edits
  /\ h.prefix => m.prefixed
  /\ h.room \in {NoRoom, room}
  /\ h.mentions_me => identity \in m.mentions

ShouldRun(h, said) ==
  LET posted == said.kind \in Posted
  IN /\ CASE h.event = "MessageDeleted" -> said.kind = "MessageDeleted"
          [] h.event = "MessageCreate"  -> posted
          [] h.event = "Stream" -> said.kind \notin {"none", "Connection", "Resubscribed"}
     /\ posted => Wants(h, said.message, said.room)

(* Every handler hears what it was declared for, in whatever shape this    *)
(* server says it, and nothing else, whichever of its neighbours are       *)
(* filtered, refused or fail: above all it never hears the bot itself      *)
(* unless it asked to, and the event it hears is the one that was said.    *)
(* Two things void this, and only these: credentials of another account,   *)
(* or none, in the slot when `me' is read, and a panic of an earlier       *)
(* handler, which ends the dispatch.                                       *)
HandlersRunAsDeclared ==
  \A d \in Dispatchers : work[d].stage = "done" =>
    /\ work[d].event = work[d].said
    /\ ~doubtful =>
         work[d].called =
           {i \in 1..work[d].at : ShouldRun(Handlers[i], work[d].said)} \ work[d].refused

=============================================================================
