--------------------------------- MODULE MCCache ---------------------------------
(* Small configurations and workloads for the entity cache.                         *)
EXTENDS CacheInv

CONSTANTS r1, u1, u2, u3, m1, m2, m3, first, second, rm

Named(n) == [name |-> n]
Everything == {"room", "user", "subscription", "message", "current_user"}
StoreDoc(kind, id, doc, mode) ==
  [op |-> "store", kind |-> kind, id |-> id, doc |-> doc, mode |-> mode]
UserDoc(id, doc, mode) == [op |-> "user", id |-> id, doc |-> doc, mode |-> mode]
Removal(kind, id) == [op |-> "remove", kind |-> kind, id |-> id]
Post(id, doc, mode) == [op |-> "message", id |-> id, room |-> r1, doc |-> doc, mode |-> mode]
Body == [md |-> first]
Tombstone == [t |-> rm]

Configured(wanted, userCapacity, messageCapacity, tombstones, operations) ==
  [wanted |-> wanted, userCapacity |-> userCapacity, messageCapacity |-> messageCapacity,
   tombstones |-> tombstones, operations |-> operations]

(* Users renamed, evicted and removed. *)
Renames ==
  {UserDoc(u1, Named(n), "Merge") : n \in {first, second}} \cup
  {UserDoc(u1, [roles |-> first], "Merge"), UserDoc(u2, Named(first), "Merge"),
   UserDoc(u3, Named(second), "Replace"), Removal("user", u1)}
(* The logged-in user, updated in part and in whole. *)
Logins ==
  {[op |-> "login", id |-> u, doc |-> Named(first)] : u \in {u1, u2}} \cup
  {UserDoc(u1, [roles |-> first], "Merge"), UserDoc(u1, Named(second), "Merge"),
   UserDoc(u1, [roles |-> second], "Replace"), UserDoc(u2, Named(second), "Merge"),
   [op |-> "clear"]}
(* A room, its subscription and its messages. *)
RoomTraffic ==
  {StoreDoc("room", r1, Named(first), "Replace"), StoreDoc("room", r1, Named(second), "Merge"),
   StoreDoc("subscription", r1, [roles |-> first], "Merge"), Removal("room", r1),
   Post(m1, Body, "Replace"), Post(m2, Body, "Replace"), [op |-> "clear"]}
(* A ring of messages that are posted, deleted and turned into tombstones. *)
Posts ==
  {Post(m, Body, "Replace") : m \in {m1, m2, m3}} \cup
  {Post(m1, Tombstone, "Merge"), Post(m1, [md |-> second], "Merge"),
   [op |-> "removeMessage", id |-> m1], [op |-> "removeMessageIn", id |-> m2, room |-> r1]}

MCSetups ==
  {Configured(Everything, 1, 1, "Replace", Renames),
   Configured(Everything, 0, 1, "Replace", Logins),
   Configured(Everything \ {"current_user", "user"}, 1, 1, "Replace", Logins),
   Configured(Everything, 1, 1, "Replace", RoomTraffic),
   Configured(Everything, 1, 2, "Replace", Posts),
   Configured(Everything, 1, 1, "Evict", Posts)}

==================================================================================
