---------------------------------- MODULE Cache ----------------------------------
(* The entity cache of rocketsocket-cache.  Every map is a DashMap: one access is   *)
(* atomic, two accesses never are, and no operation holds two locks at once.  An    *)
(* operation is therefore a program of accesses; tasks interleave between them.     *)
(* An access may schedule further ones, which run before the rest of its program.   *)
EXTENDS Integers, FiniteSets, Subsequences, SequencesExt

CONSTANTS
  Tasks, Rooms, Users, Messages, Names,
  Values,         \* what the fields of a document hold
  Setups,         \* configurations, each with the operations its tasks perform
  MaxOperations,  \* bound: operations begun altogether
  None

Ids == Rooms \cup Users \cup Messages
Kinds == {"room", "user", "subscription"}
IdsOf(kind) == IF kind = "user" THEN Users ELSE Rooms
Modes == {"Merge", "Replace"}

(* Documents: the fields a payload carried.  A tombstone is a message whose body was *)
(* unset.                                                                           *)
Fields == {"name", "roles", "md", "t"}
Documents ==
  {d \in UNION {[F -> Values] : F \in SUBSET Fields} : "name" \in DOMAIN d => d.name \in Names}
IsTombstone(doc) == "t" \in DOMAIN doc

Operations ==
  [op : {"store"}, kind : {"room", "subscription"}, id : Rooms, doc : Documents, mode : Modes]
  \cup [op : {"user"}, id : Users, doc : Documents, mode : Modes]
  \cup [op : {"login"}, id : Users, doc : Documents]
  \cup [op : {"remove"}, kind : {"room", "subscription"}, id : Rooms]
  \cup [op : {"remove"}, kind : {"user"}, id : Users]
  \cup [op : {"message"}, id : Messages, room : Rooms, doc : Documents, mode : Modes]
  \cup [op : {"removeMessage"}, id : Messages]
  \cup [op : {"removeMessageIn"}, id : Messages, room : Rooms]
  \cup [op : {"clear"}]

(* The server unsets the rendered body of a message it deletes, and a message stays *)
(* in its room.                                                                     *)
ASSUME SetupAssumption ==
  \A s \in Setups :
    /\ s.userCapacity \in Nat /\ s.messageCapacity \in Nat
    /\ s.operations \subseteq Operations
    /\ \A p \in s.operations : p.op = "message" /\ IsTombstone(p.doc) => "md" \notin DOMAIN p.doc
    /\ \A p, q \in s.operations :
         p.op \in {"message", "removeMessageIn"} /\ q.op \in {"message", "removeMessageIn"}
           /\ p.id = q.id => p.room = q.room

ASSUME BoundAssumption == MaxOperations \in Nat /\ IsFiniteSet(Users) /\ IsFiniteSet(Tasks)

ASSUME NoneAssumption ==
  /\ None \notin Ids \cup Names \cup Documents \cup Seq(Messages)
  /\ None \notin [id : Users, doc : Documents] \cup [room : Rooms, doc : Documents]

VARIABLES
  setup,      \* the configuration the cache was built with, and its workload
  docs,       \* rooms, users, subscriptions: id -> document or None
  index,      \* rooms_by_name, users_by_username: name -> id or None
  order,      \* user_order, the eviction queue
  current,    \* current_user
  messages,   \* id -> [room, doc] or None
  rings,      \* room_messages: room -> sequence, newest first, or None
  work,       \* accesses each task has still to make
  holds,      \* ids the running operation of each task is about
  left,       \* operations that may still begin
  raced,      \* history: ids two tasks worked on at the same time
  shared      \* history: names two documents claimed at the same time

store == <<docs, index, order, current, messages, rings>>
vars == <<setup, store, work, holds, left, raced, shared>>

Wants(kind) == kind \in setup.wanted

(* A field absent from the payload keeps its cached value in a merge and goes in a  *)
(* replacement.                                                                     *)
MergeDocuments(cached, incoming) ==
  [f \in DOMAIN cached \cup DOMAIN incoming |->
     IF f \in DOMAIN incoming THEN incoming[f] ELSE cached[f]]
Stored(cached, incoming, mode) ==
  IF cached = None \/ mode = "Replace" THEN incoming ELSE MergeDocuments(cached, incoming)
NameOf(kind, doc) ==
  IF kind # "subscription" /\ doc # None /\ "name" \in DOMAIN doc THEN doc.name ELSE None

Only(condition, access) == IF condition THEN <<access>> ELSE <<>>
Each(Access(_), ids) == [i \in DOMAIN ids |-> Access(ids[i])]

(* Accesses, as data. *)
Upsert(kind, id, doc, mode) ==
  [at |-> "upsert", kind |-> kind, id |-> id, doc |-> doc, mode |-> mode]
Unindex(kind, id, name) == [at |-> "unindex", kind |-> kind, id |-> id, name |-> name]
Enindex(kind, id, name) == [at |-> "enindex", kind |-> kind, id |-> id, name |-> name]
Reindex(kind, id, old, new) ==
  IF old = new THEN <<>>
  ELSE Only(old # None, Unindex(kind, id, old)) \o Only(new # None, Enindex(kind, id, new))
DropDoc(kind, id, forget) ==
  [at |-> "drop", kind |-> kind, id |-> id, forget |-> forget]
CountUsers(id) == [at |-> "count", id |-> id]
NoteUser(id, over) == [at |-> "note", id |-> id, over |-> over]
Forget(id) == [at |-> "forget", id |-> id]
Refresh(at, id, doc, mode) == [at |-> at, id |-> id, doc |-> doc, mode |-> mode]
StoreMessage(id, room, doc, mode) ==
  [at |-> "message", id |-> id, room |-> room, doc |-> doc, mode |-> mode]
Link(id, room) == [at |-> "link", id |-> id, room |-> room]
Purge(id) == [at |-> "purge", id |-> id]
Take(id, room) == [at |-> "take", id |-> id, room |-> room]
Unlink(id, room) == [at |-> "unlink", id |-> id, room |-> room]
Unring(room) == [at |-> "unring", id |-> room]
DropRing(room) == [at |-> "dropring", id |-> room]
Clear(map) == [at |-> "clear", id |-> None, map |-> map]

(* Operations: the accesses each public method starts with. *)
StoreUserAlways(id, doc, mode) == <<Upsert("user", id, doc, mode)>>
StoreUser(id, doc, mode) ==
  Only(Wants("user"), Upsert("user", id, doc, mode))
RefreshNobody(id, doc, mode) == <<>>
RefreshCurrent(id, doc, mode) ==
  Only(Wants("current_user"), Refresh("iscurrent", id, doc, mode))
RemoveMessageIn(id, room) == <<Take(id, room)>>
(* A tombstone is an edit that unset fields, which only a replacement shows. *)
MessageModeAsked(op) == op.mode
MessageMode(op) == IF IsTombstone(op.doc) THEN "Replace" ELSE op.mode
Maps == <<<<"docs", "room">>, <<"index", "room">>, <<"docs", "user">>, <<"index", "user">>,
          <<"docs", "subscription">>, <<"messages">>, <<"rings">>, <<"current">>, <<"order">>>>

Program(op) ==
  CASE op.op = "store" -> Only(Wants(op.kind), Upsert(op.kind, op.id, op.doc, op.mode))
    [] op.op = "user" -> StoreUser(op.id, op.doc, op.mode) \o
                         RefreshCurrent(op.id, op.doc, op.mode)
    [] op.op = "login" -> Only(Wants("current_user"), Refresh("login", op.id, op.doc, "Merge"))
                          \o StoreUser(op.id, op.doc, "Merge")
    [] op.op = "remove" -> <<DropDoc(op.kind, op.id, op.kind = "user")>>
    [] op.op = "message" ->
         IF ~Wants("message") \/ setup.messageCapacity = 0 THEN <<>>
         ELSE IF IsTombstone(op.doc) /\ setup.tombstones = "Evict"
         THEN RemoveMessageIn(op.id, op.room)
         ELSE <<StoreMessage(op.id, op.room, op.doc, MessageMode(op))>>
    [] op.op = "removeMessage" -> <<Take(op.id, None)>>
    [] op.op = "removeMessageIn" -> RemoveMessageIn(op.id, op.room)
    [] op.op = "clear" -> Each(Clear, Maps)

Init ==
  /\ setup \in Setups
  /\ docs = [k \in Kinds |-> [i \in IdsOf(k) |-> None]]
  /\ index = [k \in {"room", "user"} |-> [n \in Names |-> None]]
  /\ order = <<>> /\ current = None
  /\ messages = [m \in Messages |-> None]
  /\ rings = [r \in Rooms |-> None]
  /\ work = [t \in Tasks |-> <<>>]
  /\ holds = [t \in Tasks |-> {}]
  /\ left = MaxOperations
  /\ raced = {} /\ shared = {}

Touched(w, h, t) == h[t] \cup {w[t][i].id : i \in DOMAIN w[t]}
Contended(w, h) ==
  {k \in Ids : \E s, t \in Tasks : s # t /\ k \in Touched(w, h, s) \cap Touched(w, h, t)}
(* A document claims the name it bears and those still to be indexed for it. *)
Claims(d, w, kind, id, name) ==
  \/ NameOf(kind, d[kind][id]) = name
  \/ \E t \in Tasks : \E i \in DOMAIN w[t] : w[t][i] = Enindex(kind, id, name)
Shared(d, w) ==
  {n \in Names : \E k \in {"room", "user"} : \E i, j \in IdsOf(k) :
     i # j /\ Claims(d, w, k, i, n) /\ Claims(d, w, k, j, n)}

Schedule(t, program, about) ==
  /\ work' = [work EXCEPT ![t] = program]
  /\ holds' = [holds EXCEPT ![t] = IF program = <<>> THEN {} ELSE about]
  /\ raced' = raced \cup Contended(work', holds')
  /\ UNCHANGED setup

(* The first access of t is `at`; what it schedules goes before the rest. *)
Performs(t, at) == work[t] # <<>> /\ Head(work[t]).at = at
Then(t, more) ==
  /\ Schedule(t, more \o Tail(work[t]), holds[t])
  /\ shared' = shared \cup Shared(docs', work')
  /\ UNCHANGED left

Begin(t) ==
  /\ work[t] = <<>> /\ left > 0
  /\ \E op \in setup.operations :
       Schedule(t, Program(op), IF op.op = "clear" THEN Ids ELSE {op.id})
  /\ left' = left - 1
  /\ UNCHANGED <<store, shared>>

(* rooms, users, subscriptions *)
DoUpsert(t) ==
  /\ Performs(t, "upsert")
  /\ LET a == Head(work[t])
         old == docs[a.kind][a.id]
         new == Stored(old, a.doc, a.mode)
     IN /\ docs' = [docs EXCEPT ![a.kind][a.id] = new]
        /\ Then(t, Reindex(a.kind, a.id, NameOf(a.kind, old), NameOf(a.kind, new)) \o
                   Only(a.kind = "user" /\ old = None /\ setup.userCapacity > 0,
                        CountUsers(a.id)))
  /\ UNCHANGED <<index, order, current, messages, rings>>

UnindexAnyway(t) ==
  /\ Performs(t, "unindex")
  /\ LET a == Head(work[t]) IN index' = [index EXCEPT ![a.kind][a.name] = None]
  /\ UNCHANGED <<docs, order, current, messages, rings>>
  /\ Then(t, <<>>)

DoUnindex(t) ==
  /\ Performs(t, "unindex")
  /\ LET a == Head(work[t])
     IN index' = [index EXCEPT ![a.kind][a.name] = IF @ = a.id THEN None ELSE @]
  /\ UNCHANGED <<docs, order, current, messages, rings>>
  /\ Then(t, <<>>)

DoEnindex(t) ==
  /\ Performs(t, "enindex")
  /\ LET a == Head(work[t]) IN index' = [index EXCEPT ![a.kind][a.name] = a.id]
  /\ UNCHANGED <<docs, order, current, messages, rings>>
  /\ Then(t, <<>>)

(* remove_room goes on with the subscription and the ring; remove_user with the     *)
(* queue; an evicted user's id has left the queue already.                          *)
DoDrop(t) ==
  /\ Performs(t, "drop")
  /\ LET a == Head(work[t])
         old == docs[a.kind][a.id]
         name == NameOf(a.kind, old)
     IN /\ docs' = [docs EXCEPT ![a.kind][a.id] = None]
        /\ Then(t, Only(name # None, Unindex(a.kind, a.id, name)) \o
                   Only(a.forget /\ old # None /\ setup.userCapacity > 0, Forget(a.id)) \o
                   (IF a.kind = "room"
                    THEN <<DropDoc("subscription", a.id, FALSE), DropRing(a.id)>> ELSE <<>>))
  /\ UNCHANGED <<index, order, current, messages, rings>>

(* users.len(), read before the queue is locked *)
DoCount(t) ==
  /\ Performs(t, "count")
  /\ UNCHANGED store
  /\ LET n == Cardinality({u \in Users : docs["user"][u] # None})
         over == IF n > setup.userCapacity THEN n - setup.userCapacity ELSE 0
     IN Then(t, <<NoteUser(Head(work[t]).id, over)>>)

(* Queues the new user and pops as many as were over capacity, but never past it. *)
Victims(queue, over, newcomer) ==
  LET before == SelectInSeq(queue, LAMBDA u : u = newcomer) - 1
  IN SubSeq(queue, 1, IF over < before THEN over ELSE before)

DoNote(t) ==
  /\ Performs(t, "note")
  /\ LET a == Head(work[t])
         queue == Append(order, a.id)
         victims == Victims(queue, a.over, a.id)
         DropVictim(u) == DropDoc("user", u, FALSE)
     IN /\ order' = SubSeq(queue, Len(victims) + 1, Len(queue))
        /\ UNCHANGED <<docs, index, current, messages, rings>>
        /\ Then(t, Each(DropVictim, victims))

ForgetNothing(t) == Performs(t, "forget") /\ UNCHANGED store /\ Then(t, <<>>)
DoForget(t) ==
  /\ Performs(t, "forget")
  /\ order' = Kept(order, Users \ {Head(work[t]).id})
  /\ UNCHANGED <<docs, index, current, messages, rings>>
  /\ Then(t, <<>>)

(* the current user *)
DoLogin(t) ==
  /\ Performs(t, "login")
  /\ LET a == Head(work[t]) IN current' = [id |-> a.id, doc |-> a.doc]
  /\ UNCHANGED <<docs, index, order, messages, rings>>
  /\ Then(t, <<>>)

IsCurrent(id) == current # None /\ current.id = id

(* The read lock of the fast path, released before the write lock is taken. *)
CheckCurrent(t) ==
  /\ Performs(t, "iscurrent")
  /\ UNCHANGED store
  /\ LET a == Head(work[t])
     IN Then(t, Only(IsCurrent(a.id), Refresh("refresh", a.id, a.doc, a.mode)))

DoRefresh(t) ==
  /\ Performs(t, "refresh")
  /\ LET a == Head(work[t])
     IN current' = IF IsCurrent(a.id)
                   THEN [current EXCEPT !.doc = Stored(@, a.doc, a.mode)] ELSE current
  /\ UNCHANGED <<docs, index, order, messages, rings>>
  /\ Then(t, <<>>)

(* messages and rings: a message that was cached already keeps its place. *)
LinkingAlways(old, a) == <<Link(a.id, a.room)>>
Linking(old, a) == Only(old = None, Link(a.id, a.room))

DoStoreMessage(t) ==
  /\ Performs(t, "message")
  /\ LET a == Head(work[t])
         old == messages[a.id]
         cached == IF old = None THEN None ELSE old.doc
     IN /\ messages' = [messages EXCEPT
                          ![a.id] = [room |-> a.room, doc |-> Stored(cached, a.doc, a.mode)]]
        /\ UNCHANGED <<docs, index, order, current, rings>>
        /\ Then(t, Linking(old, a))

DoLink(t) ==
  /\ Performs(t, "link")
  /\ LET a == Head(work[t])
         ring == <<a.id>> \o (IF rings[a.room] = None THEN <<>> ELSE rings[a.room])
         kept == IF Len(ring) > setup.messageCapacity THEN setup.messageCapacity ELSE Len(ring)
     IN /\ rings' = [rings EXCEPT ![a.room] = SubSeq(ring, 1, kept)]
        /\ UNCHANGED <<docs, index, order, current, messages>>
        /\ Then(t, Each(Purge, Reverse(SubSeq(ring, kept + 1, Len(ring)))))

DoPurge(t) ==
  /\ Performs(t, "purge")
  /\ messages' = [messages EXCEPT ![Head(work[t]).id] = None]
  /\ UNCHANGED <<docs, index, order, current, rings>>
  /\ Then(t, <<>>)

(* remove_message knows the room from the document it removed, if there was one. *)
DoTake(t) ==
  /\ Performs(t, "take")
  /\ LET a == Head(work[t])
         old == messages[a.id]
         room == IF a.room # None THEN a.room ELSE IF old # None THEN old.room ELSE None
     IN /\ messages' = [messages EXCEPT ![a.id] = None]
        /\ UNCHANGED <<docs, index, order, current, rings>>
        /\ Then(t, Only(room # None, Unlink(a.id, room)))

DoUnlink(t) ==
  /\ Performs(t, "unlink")
  /\ LET a == Head(work[t])
         ring == IF rings[a.room] = None THEN <<>>
                 ELSE Kept(rings[a.room], Messages \ {a.id})
     IN /\ rings' = [rings EXCEPT ![a.room] = IF @ = None THEN None ELSE ring]
        /\ UNCHANGED <<docs, index, order, current, messages>>
        /\ Then(t, Only(rings[a.room] # None /\ ring = <<>>, Unring(a.room)))

DoUnring(t) ==
  /\ Performs(t, "unring")
  /\ rings' = [rings EXCEPT ![Head(work[t]).id] = IF @ = <<>> THEN None ELSE @]
  /\ UNCHANGED <<docs, index, order, current, messages>>
  /\ Then(t, <<>>)

DoDropRing(t) ==
  /\ Performs(t, "dropring")
  /\ LET room == Head(work[t]).id
     IN /\ rings' = [rings EXCEPT ![room] = None]
        /\ UNCHANGED <<docs, index, order, current, messages>>
        /\ Then(t, IF rings[room] = None THEN <<>> ELSE Each(Purge, rings[room]))

(* One map of Cache::clear; every map is emptied in an access of its own. *)
DoClear(t) ==
  /\ Performs(t, "clear")
  /\ LET map == Head(work[t]).map
     IN /\ docs' = [k \in Kinds |-> IF map = <<"docs", k>>
                                  THEN [i \in IdsOf(k) |-> None] ELSE docs[k]]
        /\ index' = [k \in {"room", "user"} |-> IF map = <<"index", k>>
                                               THEN [n \in Names |-> None] ELSE index[k]]
        /\ order' = IF map = <<"order">> THEN <<>> ELSE order
        /\ current' = IF map = <<"current">> THEN None ELSE current
        /\ messages' = IF map = <<"messages">> THEN [m \in Messages |-> None] ELSE messages
        /\ rings' = IF map = <<"rings">> THEN [r \in Rooms |-> None] ELSE rings
  /\ Then(t, <<>>)

Access(t) ==
  \/ DoUpsert(t) \/ DoUnindex(t) \/ DoEnindex(t) \/ DoDrop(t)
  \/ DoCount(t) \/ DoNote(t) \/ DoForget(t)
  \/ DoLogin(t) \/ CheckCurrent(t) \/ DoRefresh(t)
  \/ DoStoreMessage(t) \/ DoLink(t) \/ DoPurge(t) \/ DoTake(t) \/ DoUnlink(t)
  \/ DoUnring(t) \/ DoDropRing(t) \/ DoClear(t)

Next == \E t \in Tasks : Begin(t) \/ Access(t)

Spec == Init /\ [][Next]_vars

----------------------------------------------------------------------------------
Settled(id) == id \notin raced /\ \A t \in Tasks : id \notin Touched(work, holds, t)
Quiet == \A t \in Tasks : work[t] = <<>>
Occurs(x, seq) == Cardinality({i \in DOMAIN seq : seq[i] = x})

(* The accesses a task can be about to make under this configuration. *)
Upserts ==
  {a \in [at : {"upsert"}, kind : Kinds, id : Rooms \cup Users, doc : Documents, mode : Modes] :
     a.id \in IdsOf(a.kind) /\ Wants(a.kind)}
Indexings ==
  {a \in [at : {"unindex", "enindex"}, kind : {"room", "user"}, id : Rooms \cup Users,
          name : Names] : a.id \in IdsOf(a.kind)}
Drops ==
  {a \in [at : {"drop"}, kind : Kinds, id : Rooms \cup Users, forget : BOOLEAN] :
     a.id \in IdsOf(a.kind) /\ (a.forget => a.kind = "user")}
Queueings ==
  [at : {"count", "forget"}, id : Users] \cup [at : {"note"}, id : Users, over : Nat]
Refreshes ==
  {a \in [at : {"login", "iscurrent", "refresh"}, id : Users, doc : Documents, mode : Modes] :
     Wants("current_user")}
Messagings ==
  {a \in [at : {"message"}, id : Messages, room : Rooms, doc : Documents, mode : Modes] :
     /\ Wants("message") /\ setup.messageCapacity > 0
     /\ IsTombstone(a.doc) => a.mode = "Replace" /\ "md" \notin DOMAIN a.doc}
Ringings ==
  {a \in [at : {"link"}, id : Messages, room : Rooms] : setup.messageCapacity > 0}
  \cup [at : {"unlink"}, id : Messages, room : Rooms]
  \cup [at : {"take"}, id : Messages, room : Rooms \cup {None}]
  \cup [at : {"purge"}, id : Messages] \cup [at : {"unring", "dropring"}, id : Rooms]
Clears == {Clear(Maps[i]) : i \in DOMAIN Maps}
Accesses ==
  Upserts \cup Indexings \cup Drops \cup Queueings \cup Refreshes
    \cup Messagings \cup Ringings \cup Clears

(* Every variable of the cache keeps its type; nothing of a kind the configuration  *)
(* clears is ever stored, "a guarantee" of Cache::wants.                            *)
TypeOK ==
  /\ setup \in Setups
  /\ DOMAIN docs = Kinds
  /\ \A k \in Kinds : docs[k] \in [IdsOf(k) -> IF Wants(k) THEN Documents \cup {None} ELSE {None}]
  /\ DOMAIN index = {"room", "user"}
  /\ \A k \in {"room", "user"} : index[k] \in [Names -> IdsOf(k) \cup {None}]
  /\ order \in Seq(Users)
  /\ current \in [id : Users, doc : Documents] \cup {None}
  /\ current # None => Wants("current_user")
  /\ messages \in [Messages -> [room : Rooms, doc : Documents] \cup {None}]
  /\ \A m \in Messages : messages[m] # None => Wants("message")
  /\ rings \in [Rooms -> Seq(Messages) \cup {None}]
  /\ \A r \in Rooms : rings[r] # None => Len(rings[r]) <= setup.messageCapacity
  /\ work \in [Tasks -> Seq(Accesses)]
  /\ holds \in [Tasks -> SUBSET Ids]
  /\ raced \subseteq Ids /\ shared \subseteq Names /\ left \in 0 .. MaxOperations

(* store_room, store_user, drop_user, remove_room: the name indexes are exact for    *)
(* every id that only one task at a time has worked on.  A name is found unless      *)
(* another cached document bore it too; a name that is found is the document's.      *)
IndexExact ==
  \A k \in {"room", "user"} : \A i \in IdsOf(k) :
    Settled(i) =>
      /\ \A n \in Names : index[k][n] = i => NameOf(k, docs[k][i]) = n
      /\ LET n == NameOf(k, docs[k][i])
         IN n # None /\ n \notin shared => index[k][n] = i

(* note_new_user, remove_user: every cached user waits exactly once in the eviction  *)
(* queue and nobody else does, so that each can be evicted; at rest the cache is     *)
(* over its capacity by less than the number of its writers.                         *)
UsersEvictable ==
  setup.userCapacity > 0 =>
    /\ \A u \in Users :
         Settled(u) => Occurs(u, order) = IF docs["user"][u] = None THEN 0 ELSE 1
    /\ Quiet /\ raced \cap Users = {} =>
         Cardinality({u \in Users : docs["user"][u] # None})
           < setup.userCapacity + Cardinality(Tasks)

(* link_message, unlink_message, remove_room: a cached message is in the ring of its *)
(* room exactly once, so that the ring will evict it; a ring holds no other id, and  *)
(* no empty ring stays behind.                                                       *)
RingsExact ==
  /\ \A m \in Messages, r \in Rooms :
       Settled(m) =>
         Occurs(m, IF rings[r] = None THEN <<>> ELSE rings[r])
           = IF messages[m] # None /\ messages[m].room = r THEN 1 ELSE 0
  /\ \A r \in Rooms : (\A t \in Tasks : r \notin Touched(work, holds, t)) => rings[r] # <<>>

(* set_current_user, refresh_current_user: the two copies of the logged-in user agree *)
(* on every field both carry.                                                         *)
CopiesAgree ==
  current # None /\ Settled(current.id) /\ docs["user"][current.id] # None =>
    \A f \in DOMAIN current.doc \cap DOMAIN docs["user"][current.id] :
      current.doc[f] = docs["user"][current.id][f]

(* store_message: whatever mode was asked for, turning a message into a tombstone     *)
(* leaves no rendered body behind.                                                    *)
TombstoneStrips ==
  [][\A m \in Messages :
       messages'[m] # None /\ IsTombstone(messages'[m].doc)
         /\ (messages[m] = None \/ ~IsTombstone(messages[m].doc))
       => "md" \notin DOMAIN messages'[m].doc]_vars

==================================================================================
