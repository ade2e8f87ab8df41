------------------------------ MODULE Entities ------------------------------
(***************************************************************************)
(* The documents of crates/rocketsocket-model/src/entity.rs: for each type *)
(* the members it needs and those it may have.  Everything a projection of *)
(* the server may leave out is optional, members nobody declared are       *)
(* ignored, and an enum knows its values but takes any other.              *)
(***************************************************************************)
EXTENDS Json

MessageType == Enum({
  "e2e", "uj", "ui", "uir", "ul", "ru", "au", "mute_unmute", "r", "ut", "wm", "rm",
  "subscription-role-added", "subscription-role-removed", "room-archived", "room-unarchived",
  "room_changed_privacy", "room_changed_description", "room_changed_announcement",
  "room_changed_avatar", "room_changed_topic", "room_e2e_enabled", "room_e2e_disabled",
  "user-muted", "user-unmuted", "user-banned", "user-unbanned", "room-removed-read-only",
  "room-set-read-only", "room-allowed-reacting", "room-disallowed-reacting", "command",
  "videoconf", "message_pinned", "message_pinned_e2e", "new-moderator", "moderator-removed",
  "new-owner", "owner-removed", "new-leader", "leader-removed", "discussion-created",
  "abac-removed-user-from-room", "removed-user-from-team", "added-user-to-team", "ult",
  "user-converted-to-team", "user-converted-to-channel", "user-removed-room-from-team",
  "user-deleted-room-from-team", "user-added-room-to-team", "ujt",
  "livechat_navigation_history", "livechat_transfer_history", "livechat_transcript_history",
  "livechat_video_call", "livechat_transfer_history_fallback", "livechat-close",
  "livechat-started", "omnichannel_priority_change_history",
  "omnichannel_sla_change_history", "omnichannel_placed_chat_on_hold",
  "omnichannel_on_hold_chat_resumed"})

RoomType == Enum({"c", "p", "d", "l"})
UserStatus == Enum({"online", "away", "busy", "offline", "disabled"})
PresenceSource == Enum({"internal", "external", "manual"})
E2eStatus == Enum({"pending", "done"})
MentionType == Enum({"user", "team"})
NotificationPreference == Enum({"all", "mentions", "nothing"})
PreferenceOrigin == Enum({"subscription", "user"})
UnreadAlert == Enum({"default", "all", "mentions", "nothing"})
SubscriptionStatus == Enum({"INVITED", "BANNED"})

\* Codes beyond the four known ones are kept, as far as they fit a u8.
PresenceStatus == Byte

-----------------------------------------------------------------------------
(* Sub-documents.                                                          *)

UserRef == Struct(All(Text, {"_id"}), All(Text, {"username", "name"}))

MessageMention ==
  Struct(All(Text, {"_id"}),
         All(Text, {"name", "username", "fname"}) @@ ("type" :> MentionType))

ChannelMention == Struct(All(Text, {"_id"}), All(Text, {"name"}))

UrlHeaders == Struct(NoMembers, All(Text, {"contentLength", "contentType"}))

MessageUrl ==
  Defaulting(Struct(All(Text, {"url"}),
                    "source" :> Text @@ "headers" :> UrlHeaders @@
                    "ignoreParse" :> Bool @@ "parsedUrl" :> Raw),
             "meta" :> MapOf(Raw))

Reaction ==
  Defaulting(Struct(NoMembers,
                    "names" :> HoleyTexts @@ "federationReactionEventIds" :> MapOf(Text)),
             "usernames" :> HoleyTexts)

Star == Struct(All(Text, {"_id"}), NoMembers)

MessageFile ==
  Struct(All(Text, {"_id"}), All(Text, {"name", "type", "format", "typeGroup"}) @@ ("size" :> Int))

-----------------------------------------------------------------------------
MessageRequired ==
  All(Text, {"_id", "rid", "msg"}) @@ All(Date, {"_updatedAt", "ts"}) @@ ("u" :> UserRef)

MessageOptional ==
  All(MaybeDate, {"editedAt", "tlm", "dlm", "pinnedAt"}) @@
  All(UserRef, {"editedBy", "pinnedBy"}) @@
  All(Text, {"tmid", "drid", "alias", "avatar", "emoji", "role", "token"}) @@
  All(Bool, {"tshow", "groupable", "parseUrls", "unread", "pinned", "private", "temp",
             "_hidden", "imported"}) @@
  All(Int, {"tcount", "dcount"}) @@
  All(Raw, {"md", "blocks", "bot", "customFields"}) @@
  "t" :> MessageType @@ "e2e" :> E2eStatus @@
  "attachments" :> ListOf(Raw) @@ "mentions" :> ListOf(MessageMention) @@
  "channels" :> ListOf(ChannelMention) @@ "urls" :> ListOf(MessageUrl) @@
  "reactions" :> MapOf(Reaction) @@ "file" :> MessageFile @@
  "files" :> ListOf(MessageFile) @@ "replies" :> ListOf(Text) @@ "starred" :> ListOf(Star)

Message == Struct(MessageRequired, MessageOptional)

-----------------------------------------------------------------------------
SysMes == Either(Bool, ListOf(MessageType))
RolePrioritiesCreated == Either(Int, Bool)
AnnouncementDetails == Struct(NoMembers, All(Text, {"style"}))

RoomRequired == All(Text, {"_id"}) @@ All(Date, {"_updatedAt"}) @@ ("t" :> RoomType)

RoomOptional ==
  All(Text, {"name", "fname", "topic", "description", "announcement", "e2eKeyId", "prid",
             "avatarETag", "teamId", "autoTranslateLanguage"}) @@
  All(Int, {"msgs", "usersCount", "unread"}) @@
  All(Bool, {"default", "broadcast", "featured", "joinCodeRequired", "encrypted", "ro",
             "reactWhenReadOnly", "cl", "archived", "teamMain", "teamDefault", "open", "alert",
             "favorite", "hideUnreadStatus", "hideMentionStatus", "autoTranslate", "federated"}) @@
  All(MaybeDate, {"lm", "ts", "webRtcCallStartTime"}) @@
  All(Raw, {"retention", "customFields", "federation"}) @@
  All(ListOf(Text), {"uids", "usernames", "muted", "unmuted"}) @@
  All(ListOf(Raw), {"usersWaitingForE2EKeys", "abacAttributes"}) @@
  "u" :> UserRef @@ "lastMessage" :> Message @@
  "announcementDetails" :> AnnouncementDetails @@ "sysMes" :> SysMes @@
  "rolePrioritiesCreated" :> RolePrioritiesCreated

OmnichannelRoom ==
  All(Raw, {"v", "source", "servedBy", "waitingResponse", "livechatData", "metrics",
            "transcriptRequest", "sms", "code", "sentiment"}) @@
  All(Text, {"departmentId", "priorityId", "slaId", "contactId", "label"}) @@
  All(Bool, {"onHold", "verified"}) @@
  "queuedAt" :> MaybeDate @@ "tags" :> ListOf(Text) @@
  "priorityWeight" :> Int @@ "estimatedWaitingTimeQueue" :> Float

Room == Struct(RoomRequired, RoomOptional @@ OmnichannelRoom)

-----------------------------------------------------------------------------
OldRoomKey == Struct(NoMembers, All(Text, {"e2eKeyId", "E2EKey"}) @@ ("ts" :> MaybeDate))

SubscriptionRequired ==
  All(Text, {"_id", "rid"}) @@ All(Date, {"_updatedAt", "ts"}) @@
  All(Int, {"unread", "userMentions", "groupMentions"}) @@
  "u" :> UserRef @@ "t" :> RoomType @@ "open" :> Bool

SubscriptionOptional ==
  All(Text, {"name", "fname", "teamId", "prid", "E2EKey", "E2ESuggestedKey",
             "audioNotificationValue", "autoTranslateLanguage", "draft"}) @@
  All(Bool, {"alert", "f", "hideUnreadStatus", "hideMentionStatus", "teamMain", "broadcast",
             "onHold", "encrypted", "disableNotifications", "muteGroupMentions", "archived",
             "autoTranslate"}) @@
  All(MaybeDate, {"ls", "lr", "abacLastTimeChecked"}) @@
  All(ListOf(Text), {"tunread", "tunreadGroup", "tunreadUser", "roles", "userHighlights",
                     "ignored"}) @@
  All(ListOf(OldRoomKey), {"oldRoomKeys", "suggestedOldRoomKeys"}) @@
  All(NotificationPreference, {"desktopNotifications", "mobilePushNotifications",
                               "emailNotifications"}) @@
  All(PreferenceOrigin, {"desktopPrefOrigin", "mobilePrefOrigin", "emailPrefOrigin"}) @@
  All(Raw, {"blocked", "blocker", "v", "department", "code", "customFields"}) @@
  "unreadAlert" :> UnreadAlert @@ "threadDrafts" :> MapOf(Text) @@
  "status" :> SubscriptionStatus @@ "inviter" :> UserRef

Subscription == Struct(SubscriptionRequired, SubscriptionOptional)

-----------------------------------------------------------------------------
UserEmail == Struct(All(Text, {"address"}), All(Bool, {"verified"}))

UserOptional ==
  All(MaybeDate, {"_updatedAt", "createdAt", "statusExpiresAt", "lastLogin"}) @@
  All(Text, {"username", "name", "nickname", "bio", "type", "inactiveReason",
             "statusConnection", "statusText", "statusId", "avatarOrigin", "avatarETag",
             "avatarUrl", "language", "phone", "reason", "defaultRoom",
             "requirePasswordChangeReason", "inviteToken", "freeSwitchExtension",
             "providerId"}) @@
  All(Bool, {"active", "ldap", "requirePasswordChange", "canViewAllInfo", "federated"}) @@
  All(UserStatus, {"status", "statusDefault"}) @@
  All(ListOf(Text), {"roles", "__rooms", "importIds"}) @@
  All(Raw, {"e2e", "settings", "customFields", "banners", "federation"}) @@
  "statusSource" :> PresenceSource @@ "emails" :> ListOf(UserEmail) @@
  "utcOffset" :> Float @@ "roomRolePriorities" :> MapOf(Int) @@
  "abacAttributes" :> ListOf(Raw)

User == Struct(All(Text, {"_id"}), UserOptional)

=============================================================================
