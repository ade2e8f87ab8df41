-------------------------------- MODULE Wire --------------------------------
(***************************************************************************)
(* What a text frame becomes on its way to the application: the DDP frame  *)
(* types of crates/rocketsocket-model/src/protocol.rs, the stream events   *)
(* and their payloads of event.rs, and the steps of the runner and of the  *)
(* supervisor that hand one on as the other.                               *)
(***************************************************************************)
EXTENDS Entities, Events

CONSTANT Commands   \* the texts that start with the prefix handlers ask for

NoTail == "none"   \* an event key without a slash
Key(head, tail) == [head |-> head, tail |-> tail]

ASSUME WireAssumption == NoRoom \notin Rooms /\ NoMessage \notin Messages

-----------------------------------------------------------------------------
(* ServerMessage: the tags it models and the members each variant takes.   *)

ErrorCode == Either(Int, Text)
DdpError ==
  Struct("error" :> ErrorCode,
         All(Text, {"reason", "message", "errorType"}) @@
         "isClientSafe" :> Bool @@ "details" :> Raw)

DocumentFrame == All(Text, {"collection", "id"})

FrameShapes ==
  "connected" :> Struct(All(Text, {"session"}), NoMembers) @@
  "failed"    :> Struct(All(Text, {"version"}), NoMembers) @@
  "ping"      :> Struct(NoMembers, All(Text, {"id"})) @@
  "pong"      :> Struct(NoMembers, All(Text, {"id"})) @@
  "result"    :> Struct(All(Text, {"id"}), "result" :> Raw @@ "error" :> DdpError) @@
  "updated"   :> Struct(All(ListOf(Text), {"methods"}), NoMembers) @@
  "nosub"     :> Struct(All(Text, {"id"}), "error" :> DdpError) @@
  "ready"     :> Struct(All(ListOf(Text), {"subs"}), NoMembers) @@
  "error"     :> Struct(All(Text, {"reason"}), All(Raw, {"offendingMessage"}))

DocumentFrameShapes ==
  "added"       :> Struct(DocumentFrame, "fields" :> MapOf(Raw)) @@
  "changed"     :> Struct(DocumentFrame, "fields" :> MapOf(Raw) @@ "cleared" :> ListOf(Text)) @@
  "removed"     :> Struct(DocumentFrame, NoMembers) @@
  "addedBefore" :> Struct(DocumentFrame, "fields" :> MapOf(Raw) @@ "before" :> Text) @@
  "movedBefore" :> Struct(DocumentFrame, "before" :> Text)

ServerMessage == FrameShapes @@ DocumentFrameShapes
ModelledTags == DOMAIN ServerMessage

\* Every object decodes, as the variant its tag names or, when a member is
\* missing or does not fit, as the catch-all.
Variant(frame) ==
  IF HasText(frame, "msg") /\ frame.has["msg"].text \in ModelledTags
     /\ Reads(ServerMessage[frame.has["msg"].text], frame)
    THEN frame.has["msg"].text
    ELSE "unknown"

\* The pseudo-collections, with the prefix taken off.
Streams ==
  "stream-room-messages" :> "room-messages" @@ "stream-notify-room" :> "notify-room" @@
  "stream-notify-user" :> "notify-user" @@ "stream-notify-logged" :> "notify-logged" @@
  "stream-future" :> "future"

\* as_stream_event: a `changed' frame of a stream that names its event; the
\* document id plays no part, and arguments that are no array are no arguments.
IsStreamEvent(frame) ==
  /\ Variant(frame) = "changed"
  /\ frame.has["collection"].text \in DOMAIN Streams
  /\ Given(frame, "fields") /\ HasText(frame.has["fields"], "eventName")

Arguments(fields) ==
  IF Given(fields, "args") /\ fields.has["args"].is = "array"
    THEN fields.has["args"].items ELSE <<>>

-----------------------------------------------------------------------------
(* The payloads of the stream events.                                      *)

ClientAction == Enum({"inserted", "updated", "removed", "changed"})
RoleChangeKind == Enum({"added", "removed", "changed"})

MyMessageMeta ==
  Struct(NoMembers, "roomParticipant" :> Bool @@ "roomType" :> RoomType @@ "roomName" :> Text)

BulkDelete ==
  Struct(All(Text, {"rid"}),
         All(ListOf(Text), {"ids", "users"}) @@
         All(Bool, {"excludePinned", "ignoreDiscussion", "showDeletedStatus", "filesOnly"}) @@
         "ts" :> MapOf(Date) @@ "replaceFileAttachmentsWith" :> Raw)

NotificationMessage ==
  Defaulting(Struct(NoMembers, "t" :> MessageType @@ "content" :> Raw), All(Text, {"msg"}))

NotificationPayload ==
  Struct(All(Text, {"_id", "rid"}),
         All(Text, {"tmid", "name", "audioNotificationValue"}) @@
         "sender" :> UserRef @@ "type" :> RoomType @@ "message" :> NotificationMessage)

DesktopNotification ==
  Struct(All(Text, {"title", "text"}) @@ ("payload" :> NotificationPayload),
         "icon" :> Text @@ "duration" :> Int)

UserDataEvent ==
  Struct("type" :> ClientAction,
         "id" :> Text @@ "data" :> User @@ All(MapOf(Raw), {"diff", "unset"}))

\* What is left of a removed subscription; closed, or every document would
\* pass for one.
SubscriptionStub ==
  Closed(Struct(All(Text, {"_id"}), "rid" :> Text @@ "u" :> UserRef @@ "t" :> RoomType))
SubscriptionChange == Either(Subscription, SubscriptionStub)

RoleChange ==
  Struct("type" :> RoleChangeKind @@ "_id" :> Text, "u" :> UserRef @@ "scope" :> Text)

\* A tuple that grew from three places to eight.
UserStatusChange ==
  Tuple(<<Req(NonEmpty), Opt(Text), Req(PresenceStatus), Opt(Text), Opt(Text), Opt(Array),
          Opt(PresenceSource), Opt(Date)>>)

DeletedMessage == Struct(All(Text, {"_id"}), NoMembers)
NameChanged == Struct(All(Text, {"_id"}), All(Text, {"username", "name"}))

-----------------------------------------------------------------------------
(* StreamEvent::decode: for every event the crate types, the event key and *)
(* what each positional argument has to be.                                *)

Typed(kind, event, slots) == [kind |-> kind, event |-> event, slots |-> slots]

\* Only the annotation that trails MyMessage may be anything at all.
RoomMessages == <<
  Typed("MyMessage", "__my_messages__", <<Req(Message), Lax(MyMessageMeta)>>),
  Typed("RoomMessage", "<rid>", <<Req(Message)>>)>>

NotifyRoom == <<
  Typed("UserActivity", "user-activity", <<Req(Text), Opt(Array)>>),
  Typed("Typing", "typing", <<Req(Text), Req(Bool)>>),
  Typed("MessageDeleted", "deleteMessage", <<Req(DeletedMessage)>>),
  Typed("MessagesDeletedBulk", "deleteMessageBulk", <<Req(BulkDelete)>>)>>

NotifyUser == <<
  Typed("EphemeralMessage", "message", <<Req(Message)>>),
  Typed("Notification", "notification", <<Req(DesktopNotification)>>),
  Typed("RoomsChanged", "rooms-changed", <<Req(ClientAction), Req(Room)>>),
  Typed("SubscriptionsChanged", "subscriptions-changed",
        <<Req(ClientAction), Req(SubscriptionChange)>>),
  Typed("UserData", "userData", <<Req(UserDataEvent)>>),
  Typed("ForceLogout", "force_logout", <<Opt(Text)>>)>>

NotifyLogged == <<
  Typed("UserStatusChanged", "user-status", <<Req(UserStatusChange)>>),
  Typed("UserNameChanged", "Users:NameChanged", <<Req(NameChanged)>>),
  Typed("RolesChanged", "roles-change", <<Req(RoleChange)>>)>>

\* split_key takes the key of the notify streams apart at its first slash.
HasHalves(key) == key.head # "" /\ key.tail # NoTail

Rows(stream, key) ==
  LET of(rows, event) == SelectSeq(rows, LAMBDA row : row.event = event)
  IN CASE stream = "room-messages" /\ key = Key("__my_messages__", NoTail) ->
            of(RoomMessages, "__my_messages__")
       [] stream = "room-messages" /\ key # Key("", NoTail) -> of(RoomMessages, "<rid>")
       [] stream = "notify-room" /\ HasHalves(key) -> of(NotifyRoom, key.tail)
       [] stream = "notify-user" /\ HasHalves(key) -> of(NotifyUser, key.tail)
       [] stream = "notify-logged" /\ key.tail = NoTail -> of(NotifyLogged, key.head)
       [] OTHER -> <<>>

\* Decoding never fails: what has no row, or does not fit it, is Unknown.
Decode(stream, key, args) ==
  LET fits(row) == Fits(args, row.slots)
      rows == SelectSeq(Rows(stream, key), fits)
  IN IF rows = <<>> THEN "Unknown" ELSE Head(rows).kind

-----------------------------------------------------------------------------
(* What the application is handed.                                         *)

\* A message of any type, known or not, is a system message; a null in the
\* place of a type or of a date is nothing at all.
Present(v, name) == Given(v, name) /\ v.has[name].is # "null"

MessageIn(v) ==
  [author   |-> v.has["u"].has["_id"].text,
   rid      |-> v.has["rid"].text,
   system   |-> Present(v, "t"),
   edited   |-> Given(v, "editedAt") /\ DateIn(v.has["editedAt"]) = "date",
   prefixed |-> v.has["msg"].text \in Commands,
   mentions |-> IF Present(v, "mentions")
                  THEN LET all == v.has["mentions"].items
                       IN {all[i].has["_id"].text : i \in DOMAIN all}
                  ELSE {}]

\* Runner::on_text emits the frames that carry data and those that complain,
\* and none that was malformed.
Emitted(frame) == Variant(frame) \in DOMAIN DocumentFrameShapes \cup {"connected", "error"}

StreamEventOf(stream, key, args) ==
  LET kind == Decode(stream, key, args)
      message == IF kind \in {"MyMessage", "RoomMessage", "EphemeralMessage"}
                   THEN MessageIn(args[1]) ELSE NoMessage
      room == CASE kind \in {"MyMessage", "EphemeralMessage"} -> message.rid
                [] kind \in {"RoomMessage", "UserActivity", "Typing", "MessageDeleted",
                             "MessagesDeletedBulk"} -> key.head
                [] OTHER -> NoRoom
  IN Event(kind, message, room)

\* supervise(): a stream event is decoded, any other frame is passed on raw.
EventOf(frame) ==
  IF ~Emitted(frame) THEN Nothing
  ELSE IF ~IsStreamEvent(frame) THEN Event("Connection", NoMessage, NoRoom)
  ELSE LET fields == frame.has["fields"]
       IN StreamEventOf(Streams[frame.has["collection"].text],
                        fields.has["eventName"].text, Arguments(fields))

=============================================================================
