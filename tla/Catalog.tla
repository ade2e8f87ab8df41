------------------------------- MODULE Catalog -------------------------------
(***************************************************************************)
(* The catalog of crates/rocketsocket-model/src/event.rs: every stream and *)
(* event that upstream declares, with the number of arguments of each, and *)
(* the search for the entry that a concrete key belongs to.                *)
(***************************************************************************)
EXTENDS Wire

Literal(key) == [form |-> "literal", key |-> key]
Suffix(tail) == [form |-> "suffix", tail |-> tail]
Prefix(head) == [form |-> "prefix", head |-> head]
AnyKey == [form |-> "any"]

\* KeyPattern::matches, which takes a key apart at its first slash.
Matches(pattern, key) ==
  CASE pattern.form = "literal" -> key = pattern.key
    [] pattern.form = "suffix"  -> key.head # "" /\ key.tail = pattern.tail
    [] pattern.form = "prefix"  -> key.head = pattern.head /\ key.tail \notin {NoTail, ""}
    [] pattern.form = "any"     -> TRUE

EventSpec(pattern, arities, variadic) ==
  [key |-> pattern, arities |-> arities, variadic |-> variadic]

Events(form(_), names, arities) ==
  [i \in DOMAIN names |-> EventSpec(form(names[i]), arities, FALSE)]
Name(head) == Literal(Key(head, NoTail))
Anything(arities) == <<EventSpec(AnyKey, arities, FALSE)>>

-----------------------------------------------------------------------------
NotifyRoomSpec ==
  Events(Suffix, <<"user-activity", "typing">>, {2}) \o
  Events(Suffix, <<"deleteMessageBulk", "deleteMessage", "e2e.keyRequest", "videoconf",
                 "messagesRead", "messagesImported">>, {1})

\* Declared last, or it would take the key of all messages for that of a room.
RoomMessagesSpec == Events(Name, <<"__my_messages__">>, {1}) \o Anything({1, 2, 3})

NotifyAllSpec ==
  Events(Name, <<"public-info">>, {1}) \o Events(Name, <<"public-settings-changed">>, {2}) \o
  Events(Name, <<"deleteCustomSound", "updateCustomSound">>, {1}) \o Events(Name, <<"license">>, {0, 1})

NotifyUserSpec ==
  Events(Suffix, <<"rooms-changed", "subscriptions-changed">>, {2}) \o
  Events(Suffix, <<"message", "force_logout", "webdav">>, {1}) \o
  Events(Suffix, <<"e2ekeyRequest">>, {2}) \o
  Events(Suffix, <<"notification", "call.hangup", "uiInteraction", "video-conference",
                 "media-signal", "userData", "updateInvites", "departmentAgentData",
                 "calendar", "banners">>, {1})

NotifyLoggedSpec ==
  Events(Name, <<"updateCustomUserStatus">>, {1}) \o Events(Name, <<"permissions-changed">>, {2}) \o
  Events(Name, <<"deleteEmojiCustom", "updateEmojiCustom", "new-banner", "banner-changed",
               "roles-change", "Users:NameChanged">>, {1}) \o
  Events(Name, <<"private-settings-changed">>, {2}) \o
  Events(Name, <<"deleteCustomUserStatus", "user-status", "Users:Deleted", "updateAvatar",
               "omnichannel.priority-changed">>, {1})

NotifyRoomUsersSpec ==
  Events(Suffix, <<"video-conference">>, {1}) \o <<EventSpec(Suffix("userData"), {}, TRUE)>>

InquiryQueueSpec ==
  Events(Name, <<"public">>, {1}) \o Events(Prefix, <<"department", "agent">>, {1}) \o Anything({1})

AppsEngineSpec ==
  LET of(head, tails) == [i \in DOMAIN tails |-> Key(head, tails[i])]
  IN Events(Literal, of("app", <<"added", "removed", "updated", "statusUpdate", "settingUpdated">>) \o
                   of("command", <<"added", "disabled", "updated", "removed">>), {1}) \o
     Events(Literal, <<Key("actions", "changed")>>, {0})
AppsSpec == AppsEngineSpec \o Events(Name, <<"apps">>, {1})

Specs ==
  "roles" :> Events(Name, <<"roles">>, {1}) @@
  "notify-room" :> NotifyRoomSpec @@ "room-messages" :> RoomMessagesSpec @@
  "notify-all" :> NotifyAllSpec @@ "notify-user" :> NotifyUserSpec @@
  "importers" :> Events(Name, <<"progress">>, {1}) @@
  "notify-logged" :> NotifyLoggedSpec @@ "room-data" :> Anything({1}) @@
  "notify-room-users" :> NotifyRoomUsersSpec @@ "livechat-room" :> Anything({1}) @@
  "user-presence" :> Anything({1}) @@ "integrationHistory" :> Anything({1}) @@
  "canned-responses" :> Events(Name, <<"canned-responses">>, {1, 2}) @@
  "livechat-inquiry-queue-observer" :> InquiryQueueSpec @@
  "apps" :> AppsSpec @@ "apps-engine" :> AppsEngineSpec @@
  "local" :> <<EventSpec(Name("broadcast"), {}, TRUE)>>

\* catalog::event: the entries that match, of which the first one is meant.
Declared(stream, key) ==
  IF stream \notin DOMAIN Specs THEN <<>>
  ELSE LET matching(spec) == Matches(spec.key, key) IN SelectSeq(Specs[stream], matching)

-----------------------------------------------------------------------------
TypedEvents == "room-messages" :> RoomMessages @@ "notify-room" :> NotifyRoom @@
               "notify-user" :> NotifyUser @@ "notify-logged" :> NotifyLogged

KeyOf(stream, event, id) ==
  CASE event = "<rid>" -> Key(id, NoTail)
    [] stream \in {"notify-room", "notify-user"} -> Key(id, event)
    [] OTHER -> Key(event, NoTail)

(* Every event that the crate types is declared upstream, the catch-all key *)
(* of a stream never answers for a literal one, and no declared number of   *)
(* arguments is too few for the arguments that decoding cannot do without.  *)
EveryTypedEventIsDeclared(id) ==
  \A stream \in DOMAIN TypedEvents : \A i \in DOMAIN TypedEvents[stream] :
    LET row == TypedEvents[stream][i]
        key == KeyOf(stream, row.event, id)
        entries == Declared(stream, key)
    IN /\ entries # <<>>
       /\ (row.event = "<rid>") = (Head(entries).key = AnyKey)
       /\ Rows(stream, key) = <<row>>
       /\ \A n \in Head(entries).arities, k \in DOMAIN row.slots :
            row.slots[k].need = "required" => k <= n

=============================================================================
