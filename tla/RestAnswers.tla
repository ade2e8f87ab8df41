---------------------------- MODULE RestAnswers -----------------------------
(***************************************************************************)
(* What a call of crates/rocketsocket-rest makes of an HTTP answer: decode *)
(* of client.rs, and ApiError of error.rs, which collapses the shapes in   *)
(* which the server refuses something into a class and a code.  The class  *)
(* is the status alone; the code is looked for where each shape has it.    *)
(***************************************************************************)
EXTENDS Entities, RestOutcomes

CONSTANTS
  Clock,          \* the local time, which the reset of a window is held against
  MaxRetryAfter   \* the longest delay a server may ask for

ASSUME AnswersAssumption == Clock \in Nat /\ MaxRetryAfter \in Nat

\* A body that is not JSON.
PlainText == [is |-> "text"]

FailureEnvelope ==
  Struct(NoMembers, All(Raw, {"error", "details"}) @@ All(Text, {"errorType", "message"}))

LoginEnvelope ==
  Struct("data" :> Struct(All(Text, {"userId", "authToken"}) @@ ("me" :> User), NoMembers),
         NoMembers)

\* ApiErrorKind::from_status.
FromStatus(status) ==
  CASE status = 400 -> "BadRequest"
    [] status = 401 -> "Unauthorized"
    [] status = 403 -> "Forbidden"
    [] status = 404 -> "NotFound"
    [] status = 429 -> "TooManyRequests"
    [] status \in 500..599 -> "Server"
    [] OTHER -> "Other"

\* scalar_to_string: objects and arrays are no codes.
Scalar(v) ==
  CASE v.is = "string" -> v.text
    [] v.is = "int"    -> ToString(v.number)
    [] v.is = "float"  -> "fraction"
    [] v.is = "bool"   -> IF v.flag THEN "true" ELSE "false"
    [] OTHER           -> None

\* FailureEnvelope::normalize: `errorType' is the code and `error' the text;
\* without it a `message' of its own is the text and `error' the code.
Normalize(body) ==
  CASE HasText(body, "errorType") -> body.has["errorType"].text
    [] HasText(body, "message") /\ Given(body, "error")
         /\ Scalar(body.has["error"]) # body.has["message"].text -> Scalar(body.has["error"])
    [] OTHER -> None

\* RateLimit::retry_after: the header holds an instant, not a delay; one that
\* has passed means now, and a clock that runs ahead costs no more than the cap.
RetryAfter(resets) ==
  CASE resets = None -> None
    [] resets # None ->
         IF resets <= Clock THEN 0
         ELSE IF resets - Clock > MaxRetryAfter THEN MaxRetryAfter ELSE resets - Clock

\* A body that is no envelope is kept as text, and has no code.
ApiError(answer) ==
  Told(FromStatus(answer.status),
       IF Reads(FailureEnvelope, answer.body) THEN Normalize(answer.body) ELSE None,
       RetryAfter(answer.resets))

IsFailureEnvelope(body) ==
  Given(body, "success") /\ body.has["success"] = Truth(FALSE)

\* decode: the status is examined before the body is parsed.
Decoded(shape, answer) ==
  CASE answer.status \notin 200..299 -> ApiError(answer)
    [] answer.body.is # "text" /\ Reads(shape, answer.body) -> Told("ok", None, None)
    [] IsFailureEnvelope(answer.body) -> ApiError(answer)
    [] OTHER -> Told("Decode", None, None)

\* What each call decodes a success into.
ReplyShape(op) ==
  CASE op = "pat" -> User
    [] op = "password" -> LoginEnvelope
    [] op = "logout" -> Raw

\* What the calls may come to, given the answers the server has: status, body,
\* the calls each is served `to', and what it `means'.  Any may also get lost.
OutcomesOf(served) == [op \in Ops |->
  {[told |-> Decoded(ReplyShape(op), served[i]), meant |-> served[i].means] :
     i \in {j \in DOMAIN served : op \in served[j].to}} \cup {Failing("Transport")}]

-----------------------------------------------------------------------------
(* The two role lookups.  Everything in their envelopes may be missing, so *)
(* a success has to say that it is one: a body that only looks right would *)
(* otherwise decode as a list of nobody.                                   *)

PublicRoleHolder ==
  Defaulting(Struct(All(Text, {"_id"}), All(Text, {"username"})), All(ListOf(Text), {"roles"}))
PublicRolesEnvelope ==
  Defaulting(Struct(NoMembers, NoMembers),
             "success" :> Bool @@ "users" :> ListOf(PublicRoleHolder))

RoomRoleUser == Struct(All(Text, {"_id"}), All(Text, {"username", "name"}))
RoomRoleHolder ==
  Defaulting(Struct("rid" :> Text @@ "u" :> RoomRoleUser, NoMembers), All(ListOf(Text), {"roles"}))
RoomRolesEnvelope ==
  Defaulting(Struct(NoMembers, NoMembers),
             "success" :> Bool @@ "roles" :> ListOf(RoomRoleHolder))

AdminRoles == {"admin"}
RoomAdminRoles == {"owner", "moderator", "leader"}

Items(v, name) == IF Given(v, name) THEN {v.has[name].items[i] : i \in DOMAIN v.has[name].items} ELSE {}

Holds(entry, wanted) == \E role \in Items(entry, "roles") : role.text \in wanted

Succeeds(envelope, answer) ==
  /\ Decoded(envelope, answer).result = "ok"
  /\ Given(answer.body, "success") /\ answer.body.has["success"] = Truth(TRUE)

\* RoleDirectory::fetch: who holds the role, and nobody if that is not known.
HoldersIn(lookup, answer) ==
  CASE lookup = "Global" /\ Succeeds(PublicRolesEnvelope, answer) ->
         {entry.has["_id"].text :
            entry \in {e \in Items(answer.body, "users") : Holds(e, AdminRoles)}}
    [] lookup = "Room" /\ Succeeds(RoomRolesEnvelope, answer) ->
         {entry.has["u"].has["_id"].text :
            entry \in {e \in Items(answer.body, "roles") : Holds(e, RoomAdminRoles)}}
    [] OTHER -> {}

=============================================================================
