----------------------------- MODULE MCFramework -----------------------------
(***************************************************************************)
(* A bot and a second user, two rooms, and a server that says everything   *)
(* it has to say in each of the ways it is known to say it: documents as   *)
(* the stream, the REST API and an older database project them, arguments  *)
(* too many, frames with holes, refusals in every shape.  What is meant is *)
(* written beside each, by hand and not by decoding it.                    *)
(***************************************************************************)
EXTENDS Framework, Catalog, RestAnswers

LOCAL SeqExt == INSTANCE SequencesExt
LOCAL Fun == INSTANCE Functions

CONSTANTS robot, human, r1, r2, pat, fresh, rfc, order

MCIssued == pat :> robot
MCMinted == fresh :> human

\* The catalog is whole, and declares what the decoder types.
ASSUME CatalogAssumption ==
  /\ Fun!SumFunction([stream \in DOMAIN Specs |-> Len(Specs[stream])]) = 80
  /\ EveryTypedEventIsDeclared(r1)

-----------------------------------------------------------------------------
(* Documents: what is said, and the ways of writing it down.               *)

Ejson == Object("$date" :> Num(1))
Nested == Object("$escape" :> Null @@ "$date" :> Str(rfc))
NoDate == Object("$date" :> Null)
Id(id) == Object("_id" :> Str(id))

Calm == [author |-> human, rid |-> r1, system |-> FALSE, edited |-> FALSE,
         prefixed |-> FALSE, mentions |-> {}]
Own == [Calm EXCEPT !.author = robot]
Loud == [Calm EXCEPT !.rid = r2, !.edited = TRUE, !.prefixed = TRUE, !.mentions = {robot, "all"}]

Said == <<Calm, Own, Loud, [Own EXCEPT !.prefixed = TRUE], [Calm EXCEPT !.system = TRUE],
          [Calm EXCEPT !.edited = TRUE], [Calm EXCEPT !.mentions = {"all"}]>>

\* The members that say it, with dates written as `at'.
Saying(m, at) ==
  "_id" :> Str("m1") @@ "rid" :> Str(m.rid) @@ "u" :> Id(m.author) @@
  "msg" :> Str(IF m.prefixed THEN order ELSE "hello") @@ "ts" :> at @@ "_updatedAt" :> at @@
  (IF m.system THEN "t" :> Str("a type of tomorrow") ELSE NoMembers) @@
  (IF m.edited THEN "editedAt" :> at ELSE NoMembers) @@
  (IF m.mentions = {} THEN NoMembers
   ELSE LET ids == SeqExt!SetToSeq(m.mentions)
        IN "mentions" :> List([i \in DOMAIN ids |-> Id(ids[i])]))

Nulls == All(NoDate, {"editedAt", "dlm"}) @@ All(Null, {"t", "mentions", "tlm", "reactions"})

\* An unknown member, an unknown value, holes where the server leaves them.
Extra ==
  "stars" :> Fraction @@ "e2e" :> Str("tomorrow") @@ "tcount" :> Num(3) @@ "md" :> Null @@
  "pinnedAt" :> Num(1) @@ "pinned" :> Truth(TRUE) @@ "starred" :> List(<<Id(human)>>) @@
  "files" :> List(<<Object("_id" :> Str("f1") @@ "size" :> Num(9))>>) @@
  "urls" :> List(<<Object("url" :> Str("u1") @@ "meta" :> Object("ogTitle" :> Fraction))>>) @@
  "reactions" :> Object(":x:" :> Object("usernames" :> List(<<Null, Str(human)>>)) @@
                        ":y:" :> Object(NoMembers))

Ways(m) == <<Object(Saying(m, Ejson)), Object(Saying(m, Str(rfc)) @@ Extra),
             Object(Saying(m, Num(1)) @@ Nulls), Object(Saying(m, Nested) @@ Extra)>>

\* One member that is wrong, or missing, in an otherwise flawless message.
Without(doc, name) == Object([n \in DOMAIN doc.has \ {name} |-> doc.has[n]])
Wrong == LET doc == Ways(Calm)[1]
             with(members) == Object(members @@ doc.has)
         IN <<Without(doc, "msg"), Without(doc, "u"), with("ts" :> Null), with("ts" :> NoDate),
              with("ts" :> Str("yesterday")), with("u" :> Object("username" :> Str(human))),
              with("editedAt" :> Truth(TRUE)), with("t" :> Num(1)),
              with("mentions" :> List(<<Object("type" :> Str("user"))>>)),
              with("replies" :> List(<<Null>>)), with("tcount" :> Fraction),
              with("reactions" :> Object(":x:" :> Object("usernames" :> Null)))>>

-----------------------------------------------------------------------------
(* Frames.                                                                 *)

Frame(msg, members) == Object("msg" :> Str(msg) @@ members)
Fields(head, tail, args) == Object("eventName" :> Str(Key(head, tail)) @@ "args" :> args)
Changed(stream, fields) ==
  Frame("changed", "collection" :> Str(stream) @@ "id" :> Str("id") @@ "fields" :> fields)
Push(stream, head, tail, args) == Changed(stream, Fields(head, tail, List(args)))

Means(says, jsons) == [i \in DOMAIN jsons |-> [json |-> jsons[i], says |-> says]]
Of(kind, room, jsons) == Means(Event(kind, NoMessage, room), jsons)
Each(docs, frame(_)) == [i \in DOMAIN docs |-> frame(docs[i])]
Flat(seqs) == SeqExt!FlattenSeq(seqs)

Mine(doc) == Push("stream-room-messages", "__my_messages__", NoTail, <<doc, Object(NoMembers)>>)
MineOdd(doc) == Push("stream-room-messages", "__my_messages__", NoTail, <<doc, List(<<>>), Null>>)
InRoom(doc) == Push("stream-room-messages", doc.has["rid"].text, NoTail, <<doc>>)
AtRoom(tail, args) == Push("stream-notify-room", r2, tail, args)
ToSelf(tail, args) == Push("stream-notify-user", robot, tail, args)
ToAll(name, args) == Push("stream-notify-logged", name, NoTail, args)

Spoken(m) ==
  Means(Event("MyMessage", m, m.rid), Each(Ways(m), Mine) \o Each(Ways(m), MineOdd)) \o
  Means(Event("RoomMessage", m, m.rid), Each(Ways(m), InRoom))

Whisper(doc) == ToSelf("message", <<doc>>)

Doc(shape, names) ==   \* a document of members that all fit `shape'
  All(CASE shape = "text" -> Str("text") [] shape = "date" -> Ejson [] shape = "int" -> Num(0),
      names)

RoomDoc == Object(Doc("text", {"_id", "t", "name"}) @@ Doc("date", {"_updatedAt", "lm"}) @@
                  "sysMes" :> List(<<Str("uj")>>) @@ "lastMessage" :> Ways(Calm)[2] @@
                  "rolePrioritiesCreated" :> Truth(TRUE) @@ "usersCount" :> Num(2))
SubscriptionDoc ==
  Object(Doc("text", {"_id", "rid", "t", "name", "unreadAlert"}) @@ Doc("date", {"_updatedAt", "ts"}) @@
         Doc("int", {"unread", "userMentions", "groupMentions"}) @@ "u" :> Id(robot) @@
         "open" :> Truth(TRUE) @@ "ls" :> NoDate @@ "tunread" :> List(<<>>))
Stub == Object(Doc("text", {"_id", "rid", "t"}) @@ "u" :> Id(robot))
Alert == Object(Doc("text", {"title", "text"}) @@
                "payload" :> Object(Doc("text", {"_id", "rid"}) @@ "message" :> Object(NoMembers)))
UserDoc == Object(Doc("text", {"_id", "username", "status"}) @@ "lastLogin" :> NoDate @@
                  "emails" :> List(<<Object(Doc("text", {"address"}))>>) @@ "utcOffset" :> Num(1))
Presence(status, more) == List(<<Str(human), Null, status>> \o more)
Bulk == Object("rid" :> Str(r2) @@ "ids" :> List(<<Str("m1")>>) @@ "ts" :> Object("$gt" :> Ejson))

Others ==
  Of("UserActivity", r2, <<AtRoom("user-activity", <<Str(human), List(<<>>)>>),
                           AtRoom("user-activity", <<Str(human)>>)>>) \o
  Of("Typing", r2, <<AtRoom("typing", <<Str(human), Truth(TRUE), Null>>)>>) \o
  Of("MessageDeleted", r2, <<AtRoom("deleteMessage", <<Id("m1")>>)>>) \o
  Of("MessagesDeletedBulk", r2, <<AtRoom("deleteMessageBulk", <<Bulk>>)>>) \o
  Of("Notification", NoRoom, <<ToSelf("notification", <<Alert>>)>>) \o
  Of("RoomsChanged", NoRoom, <<ToSelf("rooms-changed", <<Str("inserted"), RoomDoc>>)>>) \o
  Of("SubscriptionsChanged", NoRoom,
     <<ToSelf("subscriptions-changed", <<Str("updated"), SubscriptionDoc>>),
       ToSelf("subscriptions-changed", <<Str("removed"), Stub>>)>>) \o
  Of("UserData", NoRoom,
     <<ToSelf("userData", <<Object("type" :> Str("updated") @@ "diff" :> Object(NoMembers))>>),
       ToSelf("userData", <<Object("type" :> Str("inserted") @@ "data" :> UserDoc)>>)>>) \o
  Of("ForceLogout", NoRoom, <<ToSelf("force_logout", <<>>), ToSelf("force_logout", <<Null>>)>>) \o
  Of("UserStatusChanged", NoRoom,
     <<ToAll("user-status", <<Presence(Num(1), <<>>)>>),
       ToAll("user-status", <<Presence(Num(200), <<Null, Str("name"), List(<<>>)>>)>>),
       ToAll("user-status", <<Presence(Num(0), <<Null, Null, Null, Str("manual"), Ejson>>)>>)>>) \o
  Of("UserNameChanged", NoRoom, <<ToAll("Users:NameChanged", <<Id(human)>>)>>) \o
  Of("RolesChanged", NoRoom, <<ToAll("roles-change", <<Object(Doc("text", {"type", "_id", "scope"}))>>)>>)

\* What reaches the application as the event of a stream, but of no type.
Untyped ==
  Of("Unknown", NoRoom, Each(Wrong, Mine) \o Each(Wrong, Whisper)) \o
  Of("Unknown", NoRoom,
     <<Push("stream-room-messages", "", NoTail, Ways(Calm)),
       Push("stream-future", r1, NoTail, <<>>),
       Changed("stream-room-messages", Fields(r1, NoTail, Ways(Calm)[1])),
       AtRoom(NoTail, <<Id("m1")>>), AtRoom("tomorrow", <<Id("m1")>>),
       Push("stream-notify-room", "", "deleteMessage", <<Id("m1")>>),
       AtRoom("typing", <<Str(human), Null>>), AtRoom("deleteMessage", <<>>),
       AtRoom("deleteMessageBulk", <<Object("ids" :> List(<<>>))>>),
       ToSelf("rooms-changed", <<Str("updated"), Without(RoomDoc, "t")>>),
       ToSelf("subscriptions-changed", <<Str("updated"), Without(SubscriptionDoc, "open")>>),
       ToSelf("notification", <<Without(Alert, "payload")>>),
       ToSelf("userData", <<Id(robot)>>),
       Push("stream-notify-logged", "roles-change", "tail", <<Id("owner")>>),
       ToAll("roles-change", <<Id("owner")>>),
       ToAll("user-status", <<Presence(Num(256), <<>>)>>),
       ToAll("user-status", <<Presence(Num(1), <<Null, Null, Null, Null, NoDate>>)>>),
       ToAll("user-status", <<List(<<Str(""), Null, Num(1)>>)>>)>>)

Document == "collection" :> Str("users") @@ "id" :> Str("id")
Refusal == Object("error" :> Num(403) @@ "reason" :> Str("text"))

\* Frames that carry no stream event, and those that are not passed on.
Plain ==
  Of("Connection", NoRoom,
     <<Frame("added", Document), Frame("removed", Document @@ "cleared" :> Null),
       Frame("changed", Document @@ "cleared" :> List(<<Str("name")>>)),
       Frame("addedBefore", Document @@ "before" :> Null), Frame("movedBefore", Document),
       Changed("stream-room-messages", Object("args" :> List(Ways(Calm)))),
       Frame("connected", "session" :> Str("s1")), Frame("error", "reason" :> Str("text"))>>) \o
  Of("none", NoRoom,
     <<Object(NoMembers), Object("server_id" :> Str("0")), Object("msg" :> Null),
       Frame("tomorrow", NoMembers), Frame("ping", NoMembers), Frame("pong", "id" :> Str("p1")),
       Frame("failed", "version" :> Str("1")), Frame("ready", "subs" :> List(<<Str("1")>>)),
       Frame("result", "id" :> Str("1") @@ "error" :> Refusal),
       Frame("nosub", "id" :> Str("1")), Frame("updated", "methods" :> List(<<>>)),
       \* malformed: a member is missing, or is no more what it was
       Frame("added", "collection" :> Str("users")), Frame("connected", "session" :> Num(1)),
       Frame("changed", Document @@ "cleared" :> List(<<Null>>)),
       Frame("changed", Document @@ "fields" :> List(<<>>)), Frame("error", NoMembers)>>)

MCFrames ==
  Flat(Each(Said, Spoken)) \o
  Means(Event("EphemeralMessage", Calm, r1), Each(Ways(Calm), Whisper)) \o
  Others \o Untyped \o Plain

\* The frames as they differ once decoded, beside what was meant by each.
MCSent == {[event |-> EventOf(MCFrames[i].json), said |-> MCFrames[i].says] : i \in DOMAIN MCFrames}

-----------------------------------------------------------------------------
(* Answers.                                                                *)

Answered(status, body, resets) == [status |-> status, body |-> body, resets |-> resets]

Limited(status, body, resets, to, result, code, wait) ==
  Answered(status, body, resets) @@ [to |-> to, means |-> Told(result, code, wait)]
Reply(status, body, to, result, code) == Limited(status, body, None, to, result, code, None)

Fails == "success" :> Truth(FALSE)
Login == Object("data" :> Object(Doc("text", {"userId", "authToken"}) @@ "me" :> UserDoc) @@
                "status" :> Str("success"))

MCOutcomes == OutcomesOf(<<
  Reply(200, UserDoc, {"pat"}, "ok", None),
  Reply(200, Login, {"password"}, "ok", None),
  Reply(200, Object("status" :> Str("success")), {"logout"}, "ok", None),
  \* the two ways to say 401, and the edge of the server, which has its own
  Reply(401, Object("status" :> Str("error") @@ "message" :> Str("login first")),
        {"pat", "logout"}, "Unauthorized", None),
  Reply(401, Object("error" :> Str("Unauthorized") @@ "message" :> Str("Unauthorized")),
        {"password"}, "Unauthorized", None),
  Reply(401, Object("error" :> Num(403) @@ "message" :> Str("no such user")),
        {"password"}, "Unauthorized", "403"),
  Reply(401, PlainText, {"pat"}, "Unauthorized", None),
  Reply(400, Object(Fails @@ "error" :> Str("text") @@ "errorType" :> Str("totp-required")),
        {"password"}, "BadRequest", "totp-required"),
  \* a window that is open again, one that opens soon, a clock out of its mind
  Limited(429, Object(Fails @@ "error" :> Str("text") @@ "details" :> List(<<>>)),
          Clock, {"pat"}, "TooManyRequests", None, 0),
  Limited(429, PlainText, Clock + 1, {"logout"}, "TooManyRequests", None, 1),
  Limited(429, Object(NoMembers), Clock + 10, {"password"}, "TooManyRequests", None, 2),
  Reply(502, PlainText, {"logout"}, "Server", None),
  \* a success that is none
  Reply(200, Object(Fails @@ "errorType" :> Str("error-invalid")), {"pat", "password"},
        "Other", "error-invalid"),
  Reply(200, PlainText, {"password"}, "Decode", None)>>)

Roles(names) == "roles" :> List([i \in DOMAIN names |-> Str(names[i])])
PublicRoles(items) == Object("success" :> Truth(TRUE) @@ "users" :> List(items))
InRoomAs(id, names) ==
  Object("rid" :> Str(r1) @@ "u" :> Object("_id" :> Str(id) @@ "name" :> Null) @@ Roles(names))
RoomRoles(items) == Object("success" :> Truth(TRUE) @@ "roles" :> List(items))

MCRoleAnswers ==
  LET asked(lookup, means, answers) ==
        {[lookup |-> lookup, told |-> HoldersIn(lookup, answers[i]), meant |-> means] :
           i \in DOMAIN answers}
      ok(body) == Answered(200, body, None)
      boss == Object("_id" :> Str(human) @@ Roles(<<"user", "admin">>))
      peer == Object("_id" :> Str(robot) @@ Roles(<<"owner">>))
  IN asked("Global", {human}, <<ok(PublicRoles(<<peer, boss>>))>>) \cup
     asked("Room", {human},
           <<ok(RoomRoles(<<InRoomAs(human, <<"leader">>), InRoomAs(robot, <<"admin">>)>>))>>) \cup
     asked("Global", {},
           <<ok(Object(NoMembers)), ok(Object("users" :> List(<<boss>>))), ok(PlainText),
             ok(Object(Fails @@ "users" :> List(<<boss>>))), ok(PublicRoles(<<Id(human), peer>>)),
             ok(PublicRoles(<<boss, Object(Roles(<<"admin">>))>>)),
             Answered(403, PublicRoles(<<boss>>), None)>>) \cup
     asked("Room", {},
           <<ok(Object(NoMembers)), ok(RoomRoles(<<>>)),
             ok(RoomRoles(<<InRoomAs(human, <<"owner">>), Id(human)>>))>>)

-----------------------------------------------------------------------------
MCHandlers == <<
  Default,
  [Default EXCEPT !.allow_self = TRUE, !.allow_edits = TRUE, !.prefix = TRUE,
                  !.authority = "Admin"],
  [Default EXCEPT !.authority = "AdminOrRoomAdmin", !.room = r1, !.allow_system = TRUE],
  [Default EXCEPT !.event = "MessageDeleted", !.room = r2],
  [Default EXCEPT !.event = "Stream", !.mentions_me = TRUE, !.allow_edits = TRUE,
                  !.authority = "RoomAdmin"]>>

\* The calls of the application and the dispatch share nothing but the slot,
\* which the dispatch reads once and never writes: it is enough to let the
\* application act before the first event, and to start when no call is open.
SlotFirst ==
  \/ (\A d \in Dispatchers : work[d].stage = "idle") /\ UNCHANGED work
  \/ (\A t \in Tasks : ~Active(t)) /\ UNCHANGED restVars

=============================================================================
