------------------------------ MODULE CacheProofs ------------------------------
(***************************************************************************)
(* What the entity cache promises for any number of tasks, entities and    *)
(* operations: its indexes, rings and copies are exact wherever only one   *)
(* task at a time was at work.                                             *)
(***************************************************************************)
EXTENDS CacheInv, SubsequenceLemmas

(***************************************************************************)
(* The rest of a program, with what its first access scheduled before it.  *)
(***************************************************************************)
LEMMA Joined ==
  ASSUME NEW X, NEW p \in Seq(X), NEW w \in Seq(X), w # <<>>
  PROVE  /\ Head(w) = w[1] /\ Head(w) \in X /\ Head(w) \in Range(w)
         /\ Len(w) \in Nat \ {0} /\ Len(p) \in Nat
         /\ Tail(w) \in Seq(X) /\ p \o Tail(w) \in Seq(X)
         /\ Len(p \o Tail(w)) = Len(p) + Len(w) - 1
         /\ \A i \in 1 .. Len(p) : (p \o Tail(w))[i] = p[i]
         /\ \A i \in 2 .. Len(w) : (p \o Tail(w))[Len(p) + i - 1] = w[i]
         /\ Range(w) = {Head(w)} \cup Range(Tail(w))
         /\ Range(p \o Tail(w)) = Range(p) \cup Range(Tail(w))
         /\ Range(w) \subseteq X /\ Range(p) \subseteq X
         /\ Range(Tail(w)) = {w[i] : i \in 2 .. Len(w)}
<1>1. /\ Head(w) \in X /\ Tail(w) \in Seq(X) /\ Len(Tail(w)) = Len(w) - 1
      /\ \A i \in 1 .. Len(Tail(w)) : Tail(w)[i] = w[i + 1]
  BY HeadTailProperties
<1>2. Len(w) \in Nat \ {0} /\ Len(p) \in Nat /\ DOMAIN p = 1 .. Len(p) /\ DOMAIN w = 1 .. Len(w)
  BY EmptySeq, LenProperties
<1>3. Head(w) = w[1]
  OBVIOUS
<1>4. /\ p \o Tail(w) \in Seq(X) /\ Len(p \o Tail(w)) = Len(p) + Len(Tail(w))
      /\ \A i \in 1 .. Len(p) + Len(Tail(w)) :
           (p \o Tail(w))[i] = IF i <= Len(p) THEN p[i] ELSE Tail(w)[i - Len(p)]
  BY <1>1, ConcatProperties
<1>5. \A i \in 1 .. Len(p) : (p \o Tail(w))[i] = p[i]
  BY <1>1, <1>2, <1>4
<1>6. \A i \in 2 .. Len(w) : (p \o Tail(w))[Len(p) + i - 1] = w[i]
  <2> TAKE i \in 2 .. Len(w)
  <2>1. /\ Len(p) + i - 1 \in 1 .. Len(p) + Len(Tail(w)) /\ ~ (Len(p) + i - 1 <= Len(p))
        /\ Len(p) + i - 1 - Len(p) = i - 1 /\ i - 1 \in 1 .. Len(Tail(w)) /\ (i - 1) + 1 = i
    BY <1>1, <1>2
  <2> QED BY <2>1, <1>1, <1>4
<1>7. Range(Tail(w)) = {w[i] : i \in 2 .. Len(w)}
  <2>1. DOMAIN Tail(w) = 1 .. Len(w) - 1
    BY <1>1, LenProperties
  <2>2. \A i \in 2 .. Len(w) : i - 1 \in 1 .. Len(w) - 1 /\ (i - 1) + 1 = i
    BY <1>2
  <2>3. \A i \in 1 .. Len(w) - 1 : i + 1 \in 2 .. Len(w)
    BY <1>2
  <2>4. Range(Tail(w)) \subseteq {w[i] : i \in 2 .. Len(w)}
    <3>1. \A i \in 1 .. Len(w) - 1 : i + 1 \in 2 .. Len(w) /\ Tail(w)[i] = w[i + 1]
      BY <1>1, <1>2, <2>3
    <3> QED BY <2>1, <3>1 DEF Range
  <2>5. \A i \in 2 .. Len(w) : w[i] \in Range(Tail(w))
    <3>1. \A i \in 2 .. Len(w) : i - 1 \in DOMAIN Tail(w) /\ Tail(w)[i - 1] = w[i]
      BY <1>1, <2>1, <2>2
    <3> QED BY <3>1 DEF Range
  <2> QED BY <2>4, <2>5
<1>8. Range(w) = {Head(w)} \cup Range(Tail(w))
  <2>1. 1 \in 1 .. Len(w) /\ \A i \in 1 .. Len(w) : i = 1 \/ i \in 2 .. Len(w)
    BY <1>2
  <2>2. \A i \in 2 .. Len(w) : i \in 1 .. Len(w)
    BY <1>2
  <2>3. Range(w) = {w[i] : i \in 1 .. Len(w)}
    BY <1>2, Zenon DEF Range
  <2> QED BY <1>3, <1>7, <2>1, <2>2, <2>3
<1>9. Range(p \o Tail(w)) = Range(p) \cup Range(Tail(w))
  <2>1. DOMAIN (p \o Tail(w)) = 1 .. Len(p) + Len(w) - 1
    BY <1>1, <1>2, <1>4, LenProperties
  <2>2. \A i \in 1 .. Len(p) + Len(w) - 1 :
          i \in 1 .. Len(p) \/ (i - Len(p) + 1 \in 2 .. Len(w) /\ Len(p) + (i - Len(p) + 1) - 1 = i)
    BY <1>2
  <2>3. \A i \in 2 .. Len(w) : Len(p) + i - 1 \in 1 .. Len(p) + Len(w) - 1
    BY <1>2
  <2>4. \A i \in 1 .. Len(p) : i \in 1 .. Len(p) + Len(w) - 1
    BY <1>2
  <2>5. Range(p \o Tail(w)) \subseteq Range(p) \cup {w[i] : i \in 2 .. Len(w)}
    BY <1>2, <1>5, <1>6, <2>1, <2>2 DEF Range
  <2>6. Range(p) \cup {w[i] : i \in 2 .. Len(w)} \subseteq Range(p \o Tail(w))
    BY <1>2, <1>5, <1>6, <2>1, <2>3, <2>4 DEF Range
  <2> QED BY <1>7, <2>5, <2>6
<1>10. Range(w) \subseteq X /\ Range(p) \subseteq X
  BY <1>2, ElementOfSeq DEF Range
<1>11. Head(w) \in Range(w)
  BY <1>8
<1> QED BY <1>1, <1>2, <1>3, <1>4, <1>5, <1>6, <1>7, <1>8, <1>9, <1>10, <1>11

LEMMA Singles ==
  /\ \A X : <<>> \in Seq(X) /\ Range(<<>>) = {} /\ Len(<<>>) = 0
  /\ \A X : \A a \in X : <<a>> \in Seq(X) /\ Range(<<a>>) = {a} /\ Len(<<a>>) = 1 /\ <<a>>[1] = a
  /\ \A X : \A a, b \in X :
       <<a, b>> \in Seq(X) /\ Range(<<a, b>>) = {a, b} /\ Len(<<a, b>>) = 2
         /\ <<a, b>>[1] = a /\ <<a, b>>[2] = b
<1>1. \A X : <<>> \in Seq(X) /\ Range(<<>>) = {} /\ Len(<<>>) = 0
  BY EmptySeq DEF Range
<1>2. \A X : \A a \in X : <<a>> \in Seq(X) /\ Range(<<a>>) = {a} /\ Len(<<a>>) = 1 /\ <<a>>[1] = a
  BY DEF Range
<1>3. \A X : \A a, b \in X :
       <<a, b>> \in Seq(X) /\ Range(<<a, b>>) = {a, b} /\ Len(<<a, b>>) = 2
         /\ <<a, b>>[1] = a /\ <<a, b>>[2] = b
  BY DEF Range
<1> QED BY <1>1, <1>2, <1>3

(***************************************************************************)
(* What each kind of access is made of, and that what is made of such      *)
(* parts is an access.                                                     *)
(***************************************************************************)
LEMMA Forms ==
  /\ \A a \in Upserts :
       /\ a.at = "upsert" /\ a.kind \in Kinds /\ a.id \in IdsOf(a.kind) /\ Wants(a.kind)
       /\ a.doc \in Documents /\ a.mode \in Modes /\ a = Upsert(a.kind, a.id, a.doc, a.mode)
  /\ \A a \in Indexings :
       /\ a.at \in {"unindex", "enindex"} /\ a.kind \in {"room", "user"}
       /\ a.id \in IdsOf(a.kind) /\ a.name \in Names
       /\ a.at = "unindex" => a = Unindex(a.kind, a.id, a.name)
       /\ a.at = "enindex" => a = Enindex(a.kind, a.id, a.name)
  /\ \A a \in Drops :
       /\ a.at = "drop" /\ a.kind \in Kinds /\ a.id \in IdsOf(a.kind) /\ a.forget \in BOOLEAN
       /\ a.forget => a.kind = "user"
       /\ a = DropDoc(a.kind, a.id, a.forget)
  /\ \A a \in Queueings :
       /\ a.at \in {"count", "note", "forget"} /\ a.id \in Users
       /\ a.at = "count" => a = CountUsers(a.id)
       /\ a.at = "forget" => a = Forget(a.id)
       /\ a.at = "note" => a.over \in Nat /\ a = NoteUser(a.id, a.over)
  /\ \A a \in Refreshes :
       /\ a.at \in {"login", "iscurrent", "refresh"} /\ a.id \in Users /\ Wants("current_user")
       /\ a.doc \in Documents /\ a.mode \in Modes /\ a = Refresh(a.at, a.id, a.doc, a.mode)
  /\ \A a \in Messagings :
       /\ a.at = "message" /\ a.id \in Messages /\ a.room \in Rooms
       /\ a.doc \in Documents /\ a.mode \in Modes
       /\ Wants("message") /\ setup.messageCapacity > 0
       /\ IsTombstone(a.doc) => a.mode = "Replace" /\ "md" \notin DOMAIN a.doc
       /\ a = StoreMessage(a.id, a.room, a.doc, a.mode)
  /\ \A a \in Ringings :
       /\ a.at \in {"link", "unlink", "take", "purge", "unring", "dropring"}
       /\ a.at \in {"unring", "dropring"} => a.id \in Rooms
       /\ a.at \notin {"unring", "dropring"} => a.id \in Messages
       /\ a.at \in {"link", "unlink"} => a.room \in Rooms
       /\ a.at = "take" => a.room \in Rooms \cup {None}
       /\ a.at = "link" => setup.messageCapacity > 0 /\ a = Link(a.id, a.room)
       /\ a.at = "unlink" => a = Unlink(a.id, a.room)
       /\ a.at = "take" => a = Take(a.id, a.room)
       /\ a.at = "purge" => a = Purge(a.id)
       /\ a.at = "unring" => a = Unring(a.id)
       /\ a.at = "dropring" => a = DropRing(a.id)
  /\ \A a \in Clears : a.at = "clear" /\ a.id = None /\ a.map \in Range(Maps) /\ a = Clear(a.map)
<1>1. \A a \in Upserts :
       /\ a.at = "upsert" /\ a.kind \in Kinds /\ a.id \in IdsOf(a.kind) /\ Wants(a.kind)
       /\ a.doc \in Documents /\ a.mode \in Modes /\ a = Upsert(a.kind, a.id, a.doc, a.mode)
  BY DEF Upserts, Upsert
<1>2. \A a \in Indexings :
       /\ a.at \in {"unindex", "enindex"} /\ a.kind \in {"room", "user"}
       /\ a.id \in IdsOf(a.kind) /\ a.name \in Names
       /\ a.at = "unindex" => a = Unindex(a.kind, a.id, a.name)
       /\ a.at = "enindex" => a = Enindex(a.kind, a.id, a.name)
  BY DEF Indexings, Unindex, Enindex
<1>3. \A a \in Drops :
       /\ a.at = "drop" /\ a.kind \in Kinds /\ a.id \in IdsOf(a.kind) /\ a.forget \in BOOLEAN
       /\ a.forget => a.kind = "user"
       /\ a = DropDoc(a.kind, a.id, a.forget)
  BY DEF Drops, DropDoc
<1>4. \A a \in Queueings :
       /\ a.at \in {"count", "note", "forget"} /\ a.id \in Users
       /\ a.at = "count" => a = CountUsers(a.id)
       /\ a.at = "forget" => a = Forget(a.id)
       /\ a.at = "note" => a.over \in Nat /\ a = NoteUser(a.id, a.over)
  <2> TAKE a \in Queueings
  <2>1. CASE a \in [at : {"count", "forget"}, id : Users]
    BY <2>1 DEF CountUsers, Forget
  <2>2. CASE a \in [at : {"note"}, id : Users, over : Nat]
    BY <2>2 DEF NoteUser
  <2> QED BY <2>1, <2>2 DEF Queueings
<1>5. \A a \in Refreshes :
       /\ a.at \in {"login", "iscurrent", "refresh"} /\ a.id \in Users /\ Wants("current_user")
       /\ a.doc \in Documents /\ a.mode \in Modes /\ a = Refresh(a.at, a.id, a.doc, a.mode)
  BY DEF Refreshes, Refresh
<1>6. \A a \in Messagings :
       /\ a.at = "message" /\ a.id \in Messages /\ a.room \in Rooms
       /\ a.doc \in Documents /\ a.mode \in Modes
       /\ Wants("message") /\ setup.messageCapacity > 0
       /\ IsTombstone(a.doc) => a.mode = "Replace" /\ "md" \notin DOMAIN a.doc
       /\ a = StoreMessage(a.id, a.room, a.doc, a.mode)
  BY DEF Messagings, StoreMessage
<1>7. \A a \in Ringings :
       /\ a.at \in {"link", "unlink", "take", "purge", "unring", "dropring"}
       /\ a.at \in {"unring", "dropring"} => a.id \in Rooms
       /\ a.at \notin {"unring", "dropring"} => a.id \in Messages
       /\ a.at \in {"link", "unlink"} => a.room \in Rooms
       /\ a.at = "take" => a.room \in Rooms \cup {None}
       /\ a.at = "link" => setup.messageCapacity > 0 /\ a = Link(a.id, a.room)
       /\ a.at = "unlink" => a = Unlink(a.id, a.room)
       /\ a.at = "take" => a = Take(a.id, a.room)
       /\ a.at = "purge" => a = Purge(a.id)
       /\ a.at = "unring" => a = Unring(a.id)
       /\ a.at = "dropring" => a = DropRing(a.id)
  <2> TAKE a \in Ringings
  <2>1. CASE a \in [at : {"link"}, id : Messages, room : Rooms] /\ setup.messageCapacity > 0
    BY <2>1 DEF Link
  <2>2. CASE a \in [at : {"unlink"}, id : Messages, room : Rooms]
    BY <2>2 DEF Unlink
  <2>3. CASE a \in [at : {"take"}, id : Messages, room : Rooms \cup {None}]
    BY <2>3 DEF Take
  <2>4. CASE a \in [at : {"purge"}, id : Messages]
    BY <2>4 DEF Purge
  <2>5. CASE a \in [at : {"unring", "dropring"}, id : Rooms]
    BY <2>5 DEF Unring, DropRing
  <2> QED BY <2>1, <2>2, <2>3, <2>4, <2>5 DEF Ringings
<1>8. \A a \in Clears :
        a.at = "clear" /\ a.id = None /\ a.map \in Range(Maps) /\ a = Clear(a.map)
  <2> TAKE a \in Clears
  <2>1. PICK i \in DOMAIN Maps : a = Clear(Maps[i])
    BY DEF Clears
  <2>2. PICK m : m = Maps[i] /\ m \in Range(Maps)
    BY DEF Range
  <2>3. a = Clear(m)
    BY <2>1, <2>2
  <2> QED BY <2>2, <2>3 DEF Clear
<1> QED BY <1>1, <1>2, <1>3, <1>4, <1>5, <1>6, <1>7, <1>8

LEMMA AccessKinds ==
  ASSUME NEW a \in Accesses
  PROVE  /\ a.at = "upsert" <=> a \in Upserts
         /\ a.at \in {"unindex", "enindex"} <=> a \in Indexings
         /\ a.at = "drop" <=> a \in Drops
         /\ a.at \in {"count", "note", "forget"} <=> a \in Queueings
         /\ a.at \in {"login", "iscurrent", "refresh"} <=> a \in Refreshes
         /\ a.at = "message" <=> a \in Messagings
         /\ a.at \in {"link", "unlink", "take", "purge", "unring", "dropring"} <=> a \in Ringings
         /\ a.at = "clear" <=> a \in Clears
         /\ \/ a.at \in {"upsert", "unindex", "enindex", "drop", "count", "note", "forget"}
            \/ a.at \in {"login", "iscurrent", "refresh", "message", "link", "unlink", "take"}
            \/ a.at \in {"purge", "unring", "dropring", "clear"}
<1>1. /\ a \in Upserts => a.at = "upsert"
      /\ a \in Indexings => a.at \in {"unindex", "enindex"}
      /\ a \in Drops => a.at = "drop"
      /\ a \in Queueings => a.at \in {"count", "note", "forget"}
      /\ a \in Refreshes => a.at \in {"login", "iscurrent", "refresh"}
      /\ a \in Messagings => a.at = "message"
      /\ a \in Ringings => a.at \in {"link", "unlink", "take", "purge", "unring", "dropring"}
      /\ a \in Clears => a.at = "clear"
  BY Forms
<1>2. \/ a \in Upserts \/ a \in Indexings \/ a \in Drops \/ a \in Queueings
      \/ a \in Refreshes \/ a \in Messagings \/ a \in Ringings \/ a \in Clears
  BY DEF Accesses
<1> QED BY <1>1, <1>2

LEMMA Made ==
  /\ \A kind \in Kinds : \A id \in IdsOf(kind), doc \in Documents, mode \in Modes :
       Wants(kind) => Upsert(kind, id, doc, mode) \in Accesses
  /\ \A kind \in {"room", "user"} : \A id \in IdsOf(kind), name \in Names :
       Unindex(kind, id, name) \in Accesses /\ Enindex(kind, id, name) \in Accesses
  /\ \A kind \in Kinds : \A id \in IdsOf(kind), forget \in BOOLEAN :
       (forget => kind = "user") => DropDoc(kind, id, forget) \in Accesses
  /\ \A id \in Users : CountUsers(id) \in Accesses /\ Forget(id) \in Accesses
  /\ \A id \in Users, over \in Nat : NoteUser(id, over) \in Accesses
  /\ \A at \in {"login", "iscurrent", "refresh"}, id \in Users, doc \in Documents, mode \in Modes :
       Wants("current_user") => Refresh(at, id, doc, mode) \in Accesses
  /\ \A id \in Messages, room \in Rooms, doc \in Documents, mode \in Modes :
       Wants("message") /\ setup.messageCapacity > 0
         /\ (IsTombstone(doc) => mode = "Replace" /\ "md" \notin DOMAIN doc) =>
       StoreMessage(id, room, doc, mode) \in Accesses
  /\ \A id \in Messages, room \in Rooms :
       /\ setup.messageCapacity > 0 => Link(id, room) \in Accesses
       /\ Unlink(id, room) \in Accesses /\ Take(id, room) \in Accesses
  /\ \A id \in Messages : Take(id, None) \in Accesses /\ Purge(id) \in Accesses
  /\ \A room \in Rooms : Unring(room) \in Accesses /\ DropRing(room) \in Accesses
<1>1. \A kind \in Kinds : \A id \in IdsOf(kind), doc \in Documents, mode \in Modes :
       Wants(kind) => Upsert(kind, id, doc, mode) \in Upserts
  BY DEF Upserts, Upsert, IdsOf
<1>2. \A kind \in {"room", "user"} : \A id \in IdsOf(kind), name \in Names :
       Unindex(kind, id, name) \in Indexings /\ Enindex(kind, id, name) \in Indexings
  BY DEF Indexings, Unindex, Enindex, IdsOf
<1>3. \A kind \in Kinds : \A id \in IdsOf(kind), forget \in BOOLEAN :
       (forget => kind = "user") => DropDoc(kind, id, forget) \in Drops
  BY DEF Drops, DropDoc, IdsOf
<1>4. \A id \in Users : CountUsers(id) \in Queueings /\ Forget(id) \in Queueings
  BY DEF Queueings, CountUsers, Forget
<1>5. \A id \in Users, over \in Nat : NoteUser(id, over) \in Queueings
  BY DEF Queueings, NoteUser
<1>6. \A at \in {"login", "iscurrent", "refresh"}, id \in Users, doc \in Documents, mode \in Modes :
       Wants("current_user") => Refresh(at, id, doc, mode) \in Refreshes
  BY DEF Refreshes, Refresh
<1>7. \A id \in Messages, room \in Rooms, doc \in Documents, mode \in Modes :
       Wants("message") /\ setup.messageCapacity > 0
         /\ (IsTombstone(doc) => mode = "Replace" /\ "md" \notin DOMAIN doc) =>
       StoreMessage(id, room, doc, mode) \in Messagings
  BY DEF Messagings, StoreMessage
<1>8. \A id \in Messages, room \in Rooms :
       /\ setup.messageCapacity > 0 => Link(id, room) \in Ringings
       /\ Unlink(id, room) \in Ringings /\ Take(id, room) \in Ringings
  BY DEF Ringings, Link, Unlink, Take
<1>9. \A id \in Messages : Take(id, None) \in Ringings /\ Purge(id) \in Ringings
  BY DEF Ringings, Take, Purge
<1>10. \A room \in Rooms : Unring(room) \in Ringings /\ DropRing(room) \in Ringings
  BY DEF Ringings, Unring, DropRing
<1> QED BY <1>1, <1>2, <1>3, <1>4, <1>5, <1>6, <1>7, <1>8, <1>9, <1>10 DEF Accesses

(***************************************************************************)
(* Types.                                                                  *)
(***************************************************************************)
LEMMA DocumentFacts ==
  /\ \A d \in Documents : d # None /\ ("name" \in DOMAIN d => d.name \in Names)
  /\ \A k, d : d \in Documents \cup {None} => NameOf(k, d) \in Names \cup {None}
  /\ \A n \in Names : n # None
  /\ \A c, d \in Documents : /\ MergeDocuments(c, d) \in Documents
                             /\ DOMAIN MergeDocuments(c, d) = DOMAIN c \cup DOMAIN d
  /\ \A c \in Documents \cup {None}, d \in Documents : \A mode :
       Stored(c, d, mode) \in Documents
<1>1. \A d \in Documents : d # None /\ ("name" \in DOMAIN d => d.name \in Names)
  BY NoneAssumption DEF Documents
<1>2. \A k, d : d \in Documents \cup {None} => NameOf(k, d) \in Names \cup {None}
  BY <1>1 DEF NameOf
<1>3. \A n \in Names : n # None
  BY NoneAssumption
<1>4. ASSUME NEW c \in Documents, NEW d \in Documents
      PROVE  /\ MergeDocuments(c, d) \in Documents
             /\ DOMAIN MergeDocuments(c, d) = DOMAIN c \cup DOMAIN d
  <2>1. PICK C \in SUBSET Fields, D \in SUBSET Fields : c \in [C -> Values] /\ d \in [D -> Values]
    BY DEF Documents
  <2>2. PICK m : m = MergeDocuments(c, d)
    OBVIOUS
  <2>3. m = [f \in C \cup D |-> IF f \in D THEN d[f] ELSE c[f]]
    BY <2>1, <2>2 DEF MergeDocuments
  <2>4. m \in [C \cup D -> Values] /\ C \cup D \in SUBSET Fields
    BY <2>1, <2>3
  <2>5. "name" \in DOMAIN m => m["name"] \in Names
    <3>1. "name" \in D => d["name"] \in Names
      BY <2>1 DEF Documents
    <3>2. "name" \in C => c["name"] \in Names
      BY <2>1 DEF Documents
    <3> QED BY <2>3, <3>1, <3>2
  <2> QED BY <2>1, <2>2, <2>4, <2>5 DEF Documents
<1>5. \A c \in Documents \cup {None}, d \in Documents : \A mode :
        Stored(c, d, mode) \in Documents
  BY <1>4 DEF Stored
<1> QED BY <1>1, <1>2, <1>3, <1>4, <1>5

LEMMA AccessesStay == setup' = setup => Accesses' = Accesses
<1> SUFFICES ASSUME setup' = setup PROVE Accesses' = Accesses
  OBVIOUS
<1>1. \A k : Wants(k)' = Wants(k)
  BY DEF Wants
<1>2. Upserts' = Upserts /\ Refreshes' = Refreshes /\ Messagings' = Messagings
        /\ Ringings' = Ringings
  BY <1>1 DEF Upserts, Refreshes, Messagings, Ringings, Wants
<1> QED BY <1>2 DEF Accesses, Indexings, Drops, Queueings, Clears

(* What the task that takes a step changes of the bookkeeping. *)
Advances(t, more) ==
  /\ setup' = setup /\ left' = left /\ Accesses' = Accesses
  /\ work' \in [Tasks -> Seq(Accesses)] /\ holds' \in [Tasks -> SUBSET Ids]
  /\ work'[t] = more \o Tail(work[t])
  /\ \A s \in Tasks \ {t} : work'[s] = work[s]
  /\ \A s \in Tasks : holds'[s] \subseteq holds[s]
  /\ \A s \in Tasks : work'[s] # <<>> => holds'[s] = holds[s]
  /\ raced' \in SUBSET Ids /\ raced \subseteq raced' /\ Contended(work', holds') \subseteq raced'
  /\ shared' \in SUBSET Names /\ shared \subseteq shared' /\ Shared(docs', work') \subseteq shared'

LEMMA Advancing ==
  ASSUME TypeOK, NEW t \in Tasks, work[t] # <<>>, NEW more \in Seq(Accesses), Then(t, more)
  PROVE  Advances(t, more)
<1>1. setup' = setup /\ left' = left /\ Accesses' = Accesses
  BY AccessesStay DEF Then, Schedule
<1>2. work \in [Tasks -> Seq(Accesses)] /\ holds \in [Tasks -> SUBSET Ids]
  BY DEF TypeOK
<1>3. PICK p : p = more \o Tail(work[t])
  OBVIOUS
<1>4. p \in Seq(Accesses)
  BY <1>2, <1>3, Joined
<1>5. work' = [work EXCEPT ![t] = p]
  BY <1>3 DEF Then, Schedule
<1>6. holds' = [holds EXCEPT ![t] = IF p = <<>> THEN {} ELSE holds[t]]
  BY <1>3 DEF Then, Schedule
<1>7. work' \in [Tasks -> Seq(Accesses)] /\ work'[t] = p
        /\ \A s \in Tasks \ {t} : work'[s] = work[s]
  BY <1>2, <1>4, <1>5
<1>8. holds' \in [Tasks -> SUBSET Ids] /\ \A s \in Tasks : holds'[s] \subseteq holds[s]
  BY <1>2, <1>6
<1>9. \A s \in Tasks : work'[s] # <<>> => holds'[s] = holds[s]
  BY <1>2, <1>6, <1>7
<1>10. /\ raced' = raced \cup Contended(work', holds') /\ raced \subseteq Ids
       /\ shared' = shared \cup Shared(docs', work') /\ shared \subseteq Names
  BY DEF Then, Schedule, TypeOK
<1>11. Contended(work', holds') \subseteq Ids /\ Shared(docs', work') \subseteq Names
  BY DEF Contended, Shared
<1> QED BY <1>1, <1>3, <1>7, <1>8, <1>9, <1>10, <1>11 DEF Advances

(* The maps, typed apart from the bookkeeping. *)
DocsOK ==
  /\ DOMAIN docs = Kinds
  /\ \A k \in Kinds : docs[k] \in [IdsOf(k) -> IF Wants(k) THEN Documents \cup {None} ELSE {None}]
IndexOK ==
  /\ DOMAIN index = {"room", "user"}
  /\ \A k \in {"room", "user"} : index[k] \in [Names -> IdsOf(k) \cup {None}]
OrderOK == order \in Seq(Users)
CurrentOK ==
  /\ current \in [id : Users, doc : Documents] \cup {None}
  /\ current # None => Wants("current_user")
MessagesOK ==
  /\ messages \in [Messages -> [room : Rooms, doc : Documents] \cup {None}]
  /\ \A m \in Messages : messages[m] # None => Wants("message")
RingsOK ==
  /\ rings \in [Rooms -> Seq(Messages) \cup {None}]
  /\ \A r \in Rooms : rings[r] # None => Len(rings[r]) <= setup.messageCapacity
StoreOK == DocsOK /\ IndexOK /\ OrderOK /\ CurrentOK /\ MessagesOK /\ RingsOK
WorkOK ==
  /\ setup \in Setups
  /\ work \in [Tasks -> Seq(Accesses)]
  /\ holds \in [Tasks -> SUBSET Ids]
  /\ raced \subseteq Ids /\ shared \subseteq Names /\ left \in 0 .. MaxOperations

LEMMA TypeParts == TypeOK <=> StoreOK /\ WorkOK
  BY DEF TypeOK, StoreOK, WorkOK, DocsOK, IndexOK, OrderOK, CurrentOK, MessagesOK, RingsOK

LEMMA MapsStay ==
  ASSUME setup' = setup
  PROVE  /\ DocsOK /\ UNCHANGED docs => DocsOK'
         /\ IndexOK /\ UNCHANGED index => IndexOK'
         /\ OrderOK /\ UNCHANGED order => OrderOK'
         /\ CurrentOK /\ UNCHANGED current => CurrentOK'
         /\ MessagesOK /\ UNCHANGED messages => MessagesOK'
         /\ RingsOK /\ UNCHANGED rings => RingsOK'
  BY DEF DocsOK, IndexOK, OrderOK, CurrentOK, MessagesOK, RingsOK, Wants

LEMMA AdvancedWork ==
  ASSUME TypeOK, NEW t, NEW more, Advances(t, more)
  PROVE  WorkOK' /\ setup' = setup
  BY TypeParts DEF WorkOK, Advances

LEMMA SetupFacts ==
  ASSUME TypeOK
  PROVE  /\ setup.userCapacity \in Nat /\ setup.messageCapacity \in Nat
         /\ setup.operations \subseteq Operations
  BY SetupAssumption DEF TypeOK

(***************************************************************************)
(* Every access, spelt out: what it was about, what it schedules and what  *)
(* becomes of the maps.                                                    *)
(***************************************************************************)
LEMMA Performing ==
  ASSUME TypeOK, NEW t \in Tasks, NEW at, Performs(t, at)
  PROVE  /\ work[t] \in Seq(Accesses) /\ work[t] # <<>>
         /\ Head(work[t]) \in Accesses /\ Head(work[t]).at = at
<1>1. work[t] \in Seq(Accesses) /\ work[t] # <<>> /\ Head(work[t]).at = at
  BY DEF TypeOK, Performs
<1> QED BY <1>1, HeadTailProperties

LEMMA Concatenated ==
  ASSUME NEW X, NEW p \in Seq(X), NEW q \in Seq(X)
  PROVE  /\ p \o q \in Seq(X) /\ Range(p \o q) = Range(p) \cup Range(q)
         /\ Len(p) \in Nat /\ Len(q) \in Nat /\ Len(p \o q) = Len(p) + Len(q)
         /\ \A i \in 1 .. Len(p) : (p \o q)[i] = p[i]
         /\ \A i \in 1 .. Len(q) : (p \o q)[Len(p) + i] = q[i]
         /\ \A i \in 1 .. Len(p) + Len(q) :
              (p \o q)[i] = IF i <= Len(p) THEN p[i] ELSE q[i - Len(p)]
<1>1. /\ p \o q \in Seq(X) /\ Len(p \o q) = Len(p) + Len(q)
      /\ \A i \in 1 .. Len(p) + Len(q) :
           (p \o q)[i] = IF i <= Len(p) THEN p[i] ELSE q[i - Len(p)]
  BY ConcatProperties
<1>2. Len(p) \in Nat /\ Len(q) \in Nat /\ DOMAIN p = 1 .. Len(p) /\ DOMAIN q = 1 .. Len(q)
      /\ DOMAIN (p \o q) = 1 .. Len(p) + Len(q)
  BY <1>1, LenProperties
<1>3. \A i \in 1 .. Len(p) : i \in DOMAIN (p \o q) /\ (p \o q)[i] = p[i]
  BY <1>1, <1>2
<1>4. \A i \in 1 .. Len(q) : Len(p) + i \in DOMAIN (p \o q) /\ (p \o q)[Len(p) + i] = q[i]
  <2> TAKE i \in 1 .. Len(q)
  <2>1. Len(p) + i \in 1 .. Len(p) + Len(q) /\ ~ (Len(p) + i <= Len(p)) /\ Len(p) + i - Len(p) = i
    BY <1>2
  <2> QED BY <2>1, <1>1, <1>2
<1>5. Range(p) \cup Range(q) \subseteq Range(p \o q)
  <2>1. \A i \in DOMAIN p : p[i] \in Range(p \o q)
    BY <1>2, <1>3, Zenon DEF Range
  <2>2. \A i \in DOMAIN q : q[i] \in Range(p \o q)
    BY <1>2, <1>4, Zenon DEF Range
  <2> QED BY <2>1, <2>2 DEF Range
<1>6. Range(p \o q) \subseteq Range(p) \cup Range(q)
  <2>1. \A i \in 1 .. Len(p) + Len(q) : i \in 1 .. Len(p) \/ i - Len(p) \in 1 .. Len(q)
    BY <1>2
  <2>2. \A i \in DOMAIN (p \o q) : (p \o q)[i] \in Range(p) \cup Range(q)
    BY <1>1, <1>2, <2>1 DEF Range
  <2> QED BY <2>2 DEF Range
<1> QED BY <1>1, <1>2, <1>3, <1>4, <1>5, <1>6

(* One document stored or dropped. *)
DocPut(kind, id, d) ==
  /\ DocsOK' /\ docs'[kind][id] = d
  /\ \A k \in Kinds : \A i \in IdsOf(k) : k # kind \/ i # id => docs'[k][i] = docs[k][i]

LEMMA Putting ==
  ASSUME TypeOK, setup' = setup, NEW kind \in Kinds, NEW id \in IdsOf(kind),
         NEW d \in Documents \cup {None}, d # None => Wants(kind),
         docs' = [docs EXCEPT ![kind][id] = d]
  PROVE  DocPut(kind, id, d)
<1>1. DOMAIN docs = Kinds
      /\ \A k \in Kinds :
           docs[k] \in [IdsOf(k) -> IF Wants(k) THEN Documents \cup {None} ELSE {None}]
  BY DEF TypeOK
<1>2. DOMAIN docs' = Kinds /\ docs'[kind] = [docs[kind] EXCEPT ![id] = d]
      /\ \A k \in Kinds \ {kind} : docs'[k] = docs[k]
  BY <1>1
<1>3. docs'[kind] \in [IdsOf(kind) -> IF Wants(kind) THEN Documents \cup {None} ELSE {None}]
  BY <1>1, <1>2
<1>4. \A k \in Kinds :
           docs'[k] \in [IdsOf(k) -> IF Wants(k) THEN Documents \cup {None} ELSE {None}]
  BY <1>1, <1>2, <1>3
<1>5. DocsOK'
  BY <1>2, <1>4 DEF DocsOK, Wants
<1>6. docs'[kind][id] = d /\ \A i \in IdsOf(kind) : i # id => docs'[kind][i] = docs[kind][i]
  BY <1>1, <1>2
<1> QED BY <1>2, <1>5, <1>6 DEF DocPut

LEMMA FunctionSeq ==
  ASSUME NEW X, NEW n \in Nat, NEW f \in [1 .. n -> X]
  PROVE  f \in Seq(X) /\ Len(f) = n /\ Range(f) = {f[i] : i \in 1 .. n}
  BY DEF Range

LEMMA Only1 ==
  ASSUME NEW X, NEW a, NEW s, NEW c \in BOOLEAN, s = Only(c, a), c => a \in X
  PROVE  /\ s \in Seq(X) /\ Len(s) \in {0, 1} /\ Range(s) = IF c THEN {a} ELSE {}
         /\ Len(s) = 1 => s[1] = a
         /\ \A b : b \in Range(s) <=> c /\ b = a
<1>1. CASE c
  <2>1. s = <<a>> /\ a \in X
    BY <1>1 DEF Only
  <2>2. s \in Seq(X) /\ Range(s) = {a} /\ Len(s) = 1 /\ s[1] = a
    BY <2>1, Singles
  <2> QED BY <1>1, <2>2
<1>2. CASE ~ c
  <2>1. s = <<>>
    BY <1>2 DEF Only
  <2>2. s \in Seq(X) /\ Range(s) = {} /\ Len(s) = 0
    BY <2>1, Singles
  <2> QED BY <1>2, <2>2
<1> QED BY <1>1, <1>2

LEMMA OnlyTwoIn ==
  ASSUME NEW X, NEW a, NEW b, NEW c \in BOOLEAN, NEW d \in BOOLEAN,
         NEW p, NEW s, NEW r, s = Only(c, a), r = Only(d, b), p = s \o r,
         c => a \in X, d => b \in X
  PROVE  p \in Seq(X)
<1>1. s \in Seq(X) /\ r \in Seq(X)
  BY Only1
<1> QED BY <1>1, Concatenated

LEMMA OnlyTwo ==
  ASSUME NEW a, NEW b, NEW c \in BOOLEAN, NEW d \in BOOLEAN,
         NEW p, NEW s, NEW r, s = Only(c, a), r = Only(d, b), p = s \o r
  PROVE  /\ c /\ d => p = <<a, b>>
         /\ c /\ ~ d => p = <<a>>
         /\ d /\ ~ c => p = <<b>>
         /\ ~ c /\ ~ d => p = <<>>
<1>1. PICK X : a \in X /\ b \in X
  <2>1. a \in {a, b} /\ b \in {a, b}
    OBVIOUS
  <2> QED BY <2>1
<1>2. s = Only(c, a) /\ r = Only(d, b)
  OBVIOUS
<1>3. s \in Seq(X) /\ r \in Seq(X)
  BY <1>1, <1>2, Only1
<1>4. p = s \o r /\ p \in Seq(X) /\ s \o <<>> = s /\ <<>> \o r = r
  BY <1>2, <1>3, Concatenated, ConcatEmptySeq
<1>5. CASE ~ c
  <2>1. s = <<>> /\ p = r
    BY <1>2, <1>4, <1>5 DEF Only
  <2> QED BY <1>2, <1>4, <1>5, <2>1 DEF Only
<1>6. CASE c /\ ~ d
  <2>1. r = <<>> /\ s = <<a>> /\ p = s
    BY <1>2, <1>4, <1>6 DEF Only
  <2> QED BY <1>4, <1>6, <2>1
<1>7. CASE c /\ d
  <2>1. r = <<b>> /\ s = <<a>>
    BY <1>2, <1>7 DEF Only
  <2>2. a \in X /\ b \in X
    BY <1>1
  <2>3. <<a>> \o <<b>> = <<a, b>>
    <3>1. <<a>> \in Seq(X) /\ <<b>> \in Seq(X) /\ <<a, b>> \in Seq(X)
      BY <2>2, Singles
    <3>2. /\ <<a>> \o <<b>> \in Seq(X) /\ Len(<<a>> \o <<b>>) = Len(<<a>>) + Len(<<b>>)
          /\ \A i \in 1 .. Len(<<a>>) + Len(<<b>>) :
               (<<a>> \o <<b>>)[i] = IF i <= Len(<<a>>) THEN <<a>>[i] ELSE <<b>>[i - Len(<<a>>)]
      BY <3>1, ConcatProperties
    <3>3. PICK q, w : q = <<a>> \o <<b>> /\ w = <<a, b>>
      OBVIOUS
    <3>4. Len(q) = 2 /\ \A i \in 1 .. 2 : q[i] = IF i <= 1 THEN a ELSE <<b>>[i - 1]
      BY <3>2, <3>3
    <3>5. 1 \in 1 .. 2 /\ 2 \in 1 .. 2 /\ 1 <= 1 /\ ~ (2 <= 1) /\ 2 - 1 = 1
      OBVIOUS
    <3>6. q[1] = a /\ q[2] = b /\ w[1] = a /\ w[2] = b /\ Len(w) = 2
      BY <3>3, <3>4, <3>5
    <3>7. \A i \in 1 .. Len(q) : q[i] = w[i]
      BY <3>4, <3>6
    <3> QED BY <3>1, <3>2, <3>3, <3>4, <3>6, <3>7, SeqEqual
  <2> QED BY <1>4, <1>7, <2>1, <2>3
<1> QED BY <1>5, <1>6, <1>7

(* What an arrival schedules: its names first, then its place in the queue. *)
UpsertMore(more, kind, id, old, new) ==
  /\ more \in Seq(Accesses)
  /\ \A a : a \in Range(more) <=>
       \/ a = Unindex(kind, id, old) /\ old # None /\ old # new
       \/ a = Enindex(kind, id, new) /\ new # None /\ old # new
       \/ a = CountUsers(id) /\ kind = "user" /\ docs[kind][id] = None /\ setup.userCapacity > 0
  /\ \A i \in 1 .. Len(more) :
       /\ more[i].at = "unindex" => i = 1
       /\ more[i].at = "enindex" => \A j \in 1 .. i - 1 : more[j].at = "unindex"
       /\ more[i].at = "count" => \A j \in 1 .. i - 1 : IsIndexing(more[j])

LEMMA UpsertSchedules ==
  ASSUME TypeOK, NEW kind \in Kinds, NEW id \in IdsOf(kind),
         NEW old \in Names \cup {None}, NEW new \in Names \cup {None},
         old # None \/ new # None => kind \in {"room", "user"}
  PROVE  UpsertMore(Reindex(kind, id, old, new) \o
                      Only(kind = "user" /\ docs[kind][id] = None /\ setup.userCapacity > 0,
                           CountUsers(id)),
                    kind, id, old, new)
<1>1. PICK u, e, p, c :
        /\ u = Only(old # None, Unindex(kind, id, old))
        /\ e = Only(new # None, Enindex(kind, id, new))
        /\ p = Reindex(kind, id, old, new)
        /\ c = Only(kind = "user" /\ docs[kind][id] = None
             /\ setup.userCapacity > 0, CountUsers(id))
  OBVIOUS
<1>2. /\ old # None => Unindex(kind, id, old) \in Accesses
      /\ new # None => Enindex(kind, id, new) \in Accesses
      /\ kind = "user" => CountUsers(id) \in Accesses
  BY Made DEF IdsOf
<1>3. u \in Seq(Accesses) /\ Len(u) \in {0, 1}
        /\ Range(u) = (IF old # None THEN {Unindex(kind, id, old)} ELSE {})
      /\ (Len(u) = 1 => u[1] = Unindex(kind, id, old))
  <2>1. PICK b \in BOOLEAN : b <=> old # None
    OBVIOUS
  <2>2. u = Only(b, Unindex(kind, id, old)) /\ (b => Unindex(kind, id, old) \in Accesses)
    BY <1>1, <1>2, <2>1 DEF Only
  <2>3. /\ u \in Seq(Accesses) /\ Len(u) \in {0, 1}
        /\ Range(u) = IF b THEN {Unindex(kind, id, old)} ELSE {}
        /\ Len(u) = 1 => u[1] = Unindex(kind, id, old)
    BY <2>2, Only1
  <2> QED BY <2>1, <2>3
<1>4. e \in Seq(Accesses) /\ Len(e) \in {0, 1}
        /\ Range(e) = (IF new # None THEN {Enindex(kind, id, new)} ELSE {})
      /\ (Len(e) = 1 => e[1] = Enindex(kind, id, new))
  <2>1. PICK b \in BOOLEAN : b <=> new # None
    OBVIOUS
  <2>2. e = Only(b, Enindex(kind, id, new)) /\ (b => Enindex(kind, id, new) \in Accesses)
    BY <1>1, <1>2, <2>1 DEF Only
  <2>3. /\ e \in Seq(Accesses) /\ Len(e) \in {0, 1}
        /\ Range(e) = IF b THEN {Enindex(kind, id, new)} ELSE {}
        /\ Len(e) = 1 => e[1] = Enindex(kind, id, new)
    BY <2>2, Only1
  <2> QED BY <2>1, <2>3
<1>5. \/ p = <<>> /\ old = new
      \/ p = u \o e /\ old # new
  BY <1>1 DEF Reindex
<1>6. /\ p \in Seq(Accesses) /\ Len(p) \in 0 .. 2
      /\ Range(p) = IF old = new THEN {} ELSE Range(u) \cup Range(e)
      /\ \A i \in 1 .. Len(p) :
           \/ p[i] = Unindex(kind, id, old) /\ i = 1
           \/ p[i] = Enindex(kind, id, new) /\ (i = 1 \/ (i = 2 /\ p[1] = Unindex(kind, id, old)))
  <2>1. CASE p = <<>> /\ old = new
    BY <2>1, Singles
  <2>2. CASE p = u \o e /\ old # new
    <3>1. /\ u \o e \in Seq(Accesses) /\ Range(u \o e) = Range(u) \cup Range(e)
          /\ Len(u \o e) = Len(u) + Len(e)
          /\ \A i \in 1 .. Len(u) + Len(e) :
              (u \o e)[i] = IF i <= Len(u) THEN u[i] ELSE e[i - Len(u)]
      BY <1>3, <1>4, Concatenated
    <3>2. \A i \in 1 .. Len(p) :
           \/ p[i] = Unindex(kind, id, old) /\ i = 1
           \/ p[i] = Enindex(kind, id, new) /\ (i = 1 \/ (i = 2 /\ p[1] = Unindex(kind, id, old)))
      BY <1>3, <1>4, <2>2, <3>1
    <3> QED BY <1>3, <1>4, <2>2, <3>1, <3>2
  <2> QED BY <1>5, <2>1, <2>2
<1>7. PICK b \in BOOLEAN : b <=> kind = "user" /\ docs[kind][id] = None /\ setup.userCapacity > 0
  OBVIOUS
<1>8. /\ c \in Seq(Accesses) /\ Len(c) \in {0, 1} /\ (Len(c) = 1 => c[1] = CountUsers(id))
      /\ \A a : a \in Range(c) <=>
           a = CountUsers(id) /\ kind = "user" /\ docs[kind][id] = None /\ setup.userCapacity > 0
  <2>1. c = Only(b, CountUsers(id)) /\ (b => CountUsers(id) \in Accesses)
    BY <1>1, <1>2, <1>7 DEF Only
  <2>2. /\ c \in Seq(Accesses) /\ Len(c) \in {0, 1} /\ (Len(c) = 1 => c[1] = CountUsers(id))
        /\ \A a : a \in Range(c) <=> b /\ a = CountUsers(id)
    BY <2>1, Only1
  <2> QED BY <1>7, <2>2
<1>9. PICK more : more = p \o c
  OBVIOUS
<1>10. /\ more \in Seq(Accesses) /\ Range(more) = Range(p) \cup Range(c)
       /\ Len(more) = Len(p) + Len(c)
       /\ \A i \in 1 .. Len(p) + Len(c) :
            more[i] = IF i <= Len(p) THEN p[i] ELSE c[i - Len(p)]
  BY <1>6, <1>8, <1>9, Concatenated
<1>11. \A i \in 1 .. Len(more) : \/ i \in 1 .. Len(p) /\ more[i] = p[i]
                                 \/ i = Len(p) + 1 /\ more[i] = CountUsers(id)
  BY <1>6, <1>8, <1>10
<1>12. /\ Unindex(kind, id, old).at = "unindex" /\ Enindex(kind, id, new).at = "enindex"
       /\ CountUsers(id).at = "count"
  BY DEF Unindex, Enindex, CountUsers
<1>13. ASSUME NEW i \in 1 .. Len(more)
       PROVE  /\ more[i].at = "unindex" => i = 1
              /\ more[i].at = "enindex" => \A j \in 1 .. i - 1 : more[j].at = "unindex"
              /\ more[i].at = "count" => \A j \in 1 .. i - 1 : IsIndexing(more[j])
  <2>1. CASE i \in 1 .. Len(p) /\ more[i] = p[i]
    <3>1. \A j \in 1 .. i - 1 : more[j] = p[j]
      BY <1>6, <1>10, <1>11, <2>1
    <3> QED BY <1>6, <1>12, <2>1, <3>1
  <2>2. CASE i = Len(p) + 1 /\ more[i] = CountUsers(id)
    <3>1. \A j \in 1 .. i - 1 : more[j] = p[j] /\ j \in 1 .. Len(p)
      BY <1>6, <1>10, <1>11, <2>2
    <3> QED BY <1>6, <1>12, <2>2, <3>1 DEF IsIndexing
  <2> QED BY <1>11, <2>1, <2>2
<1>14. \A a : a \in Range(more) <=>
       \/ a = Unindex(kind, id, old) /\ old # None /\ old # new
       \/ a = Enindex(kind, id, new) /\ new # None /\ old # new
       \/ a = CountUsers(id) /\ kind = "user" /\ docs[kind][id] = None /\ setup.userCapacity > 0
  BY <1>3, <1>4, <1>6, <1>8, <1>10
<1>15. UpsertMore(more, kind, id, old, new)
  BY <1>10, <1>13, <1>14 DEF UpsertMore
<1> QED BY <1>1, <1>9, <1>15

Upserted(t, kind, id, doc, mode, more) ==
  /\ work[t] # <<>> /\ Head(work[t]) = Upsert(kind, id, doc, mode)
  /\ kind \in Kinds /\ id \in IdsOf(kind) /\ doc \in Documents /\ mode \in Modes /\ Wants(kind)
  /\ Advances(t, more)
  /\ Stored(docs[kind][id], doc, mode) \in Documents
  /\ docs[kind][id] \in Documents \cup {None}
  /\ DocPut(kind, id, Stored(docs[kind][id], doc, mode))
  /\ UpsertMore(more, kind, id, NameOf(kind, docs[kind][id]),
                NameOf(kind, Stored(docs[kind][id], doc, mode)))
  /\ UNCHANGED <<index, order, current, messages, rings>>

LEMMA Upserting ==
  ASSUME TypeOK, NEW t \in Tasks, DoUpsert(t)
  PROVE  \E kind, id, doc, mode, more : Upserted(t, kind, id, doc, mode, more)
<1>1. PICK a \in Upserts : a = Head(work[t])
  BY Performing, AccessKinds DEF DoUpsert
<1>2. /\ a.kind \in Kinds /\ a.id \in IdsOf(a.kind) /\ a.doc \in Documents /\ a.mode \in Modes
      /\ Wants(a.kind) /\ a = Upsert(a.kind, a.id, a.doc, a.mode)
  BY Forms
<1>3. PICK old, new : old = docs[a.kind][a.id] /\ new = Stored(old, a.doc, a.mode)
  OBVIOUS
<1>4. old \in Documents \cup {None} /\ new \in Documents
  BY <1>2, <1>3, DocumentFacts DEF TypeOK
<1>5. PICK more : more = Reindex(a.kind, a.id, NameOf(a.kind, old), NameOf(a.kind, new)) \o
                   Only(a.kind = "user" /\ docs[a.kind][a.id] = None /\ setup.userCapacity > 0,
                        CountUsers(a.id))
  OBVIOUS
<1>6. UpsertMore(more, a.kind, a.id, NameOf(a.kind, old), NameOf(a.kind, new))
  <2>1. NameOf(a.kind, old) \in Names \cup {None} /\ NameOf(a.kind, new) \in Names \cup {None}
    BY <1>4, DocumentFacts
  <2>2. NameOf(a.kind, old) # None \/ NameOf(a.kind, new) # None => a.kind \in {"room", "user"}
    BY <1>2 DEF NameOf, Kinds
  <2> QED BY <1>2, <1>5, <2>1, <2>2, UpsertSchedules
<1>7. docs' = [docs EXCEPT ![a.kind][a.id] = new] /\ Then(t, more)
      /\ UNCHANGED <<index, order, current, messages, rings>>
  BY <1>1, <1>3, <1>5 DEF DoUpsert
<1>8. Advances(t, more)
  <2>1. work[t] # <<>> /\ more \in Seq(Accesses)
    BY <1>6 DEF DoUpsert, Performs, UpsertMore
  <2> QED BY <1>7, <2>1, Advancing
<1>9. DocPut(a.kind, a.id, new)
  <2>1. setup' = setup
    BY <1>8 DEF Advances
  <2> QED BY <1>2, <1>4, <1>7, <2>1, Putting
<1>10. Upserted(t, a.kind, a.id, a.doc, a.mode, more)
  BY <1>1, <1>2, <1>3, <1>4, <1>6, <1>7, <1>8, <1>9 DEF Upserted, DoUpsert, Performs
<1> QED BY <1>10

(* One entry of a name index. *)
NamePut(kind, name, to) ==
  /\ IndexOK' /\ index'[kind][name] = to
  /\ \A k \in {"room", "user"} : \A n \in Names :
       k # kind \/ n # name => index'[k][n] = index[k][n]

LEMMA Naming ==
  ASSUME TypeOK, NEW kind \in {"room", "user"}, NEW name \in Names,
         NEW to \in IdsOf(kind) \cup {None},
         index' = [index EXCEPT ![kind][name] = to]
  PROVE  NamePut(kind, name, to)
<1>1. DOMAIN index = {"room", "user"}
      /\ \A k \in {"room", "user"} : index[k] \in [Names -> IdsOf(k) \cup {None}]
  BY DEF TypeOK
<1>2. DOMAIN index' = {"room", "user"} /\ index'[kind] = [index[kind] EXCEPT ![name] = to]
      /\ \A k \in {"room", "user"} \ {kind} : index'[k] = index[k]
  BY <1>1
<1>3. index'[kind] \in [Names -> IdsOf(kind) \cup {None}]
  BY <1>1, <1>2
<1>4. IndexOK'
  BY <1>1, <1>2, <1>3 DEF IndexOK
<1>5. index'[kind][name] = to /\ \A n \in Names : n # name => index'[kind][n] = index[kind][n]
  BY <1>1, <1>2
<1> QED BY <1>2, <1>4, <1>5 DEF NamePut

Unindexed(t, kind, id, name) ==
  /\ work[t] # <<>> /\ Head(work[t]) = Unindex(kind, id, name)
  /\ kind \in {"room", "user"} /\ id \in IdsOf(kind) /\ name \in Names
  /\ Advances(t, <<>>)
  /\ NamePut(kind, name, IF index[kind][name] = id THEN None ELSE index[kind][name])
  /\ UNCHANGED <<docs, order, current, messages, rings>>

LEMMA Unindexing ==
  ASSUME TypeOK, NEW t \in Tasks, DoUnindex(t)
  PROVE  \E kind, id, name : Unindexed(t, kind, id, name)
<1>1. PICK a \in Indexings : a = Head(work[t]) /\ a.at = "unindex"
  BY Performing, AccessKinds DEF DoUnindex
<1>2. /\ a.kind \in {"room", "user"} /\ a.id \in IdsOf(a.kind) /\ a.name \in Names
      /\ a = Unindex(a.kind, a.id, a.name)
  BY <1>1, Forms
<1>3. PICK to : to = IF index[a.kind][a.name] = a.id THEN None ELSE index[a.kind][a.name]
  OBVIOUS
<1>4. to \in IdsOf(a.kind) \cup {None}
  BY <1>2, <1>3 DEF TypeOK
<1>5. index' = [index EXCEPT ![a.kind][a.name] = to]
  BY <1>1, <1>3 DEF DoUnindex
<1>6. NamePut(a.kind, a.name, to)
  BY <1>2, <1>4, <1>5, Naming
<1>7. work[t] # <<>> /\ Then(t, <<>>) /\ UNCHANGED <<docs, order, current, messages, rings>>
  BY DEF DoUnindex, Performs
<1>8. Advances(t, <<>>)
  BY <1>7, Advancing, Singles
<1>9. Unindexed(t, a.kind, a.id, a.name)
  BY <1>1, <1>2, <1>3, <1>6, <1>7, <1>8 DEF Unindexed
<1> QED BY <1>9

Enindexed(t, kind, id, name) ==
  /\ work[t] # <<>> /\ Head(work[t]) = Enindex(kind, id, name)
  /\ kind \in {"room", "user"} /\ id \in IdsOf(kind) /\ name \in Names
  /\ Advances(t, <<>>)
  /\ NamePut(kind, name, id)
  /\ UNCHANGED <<docs, order, current, messages, rings>>

LEMMA Enindexing ==
  ASSUME TypeOK, NEW t \in Tasks, DoEnindex(t)
  PROVE  \E kind, id, name : Enindexed(t, kind, id, name)
<1>1. PICK a \in Indexings : a = Head(work[t]) /\ a.at = "enindex"
  BY Performing, AccessKinds DEF DoEnindex
<1>2. /\ a.kind \in {"room", "user"} /\ a.id \in IdsOf(a.kind) /\ a.name \in Names
      /\ a = Enindex(a.kind, a.id, a.name)
  BY <1>1, Forms
<1>3. index' = [index EXCEPT ![a.kind][a.name] = a.id]
  BY <1>1 DEF DoEnindex
<1>4. NamePut(a.kind, a.name, a.id)
  BY <1>2, <1>3, Naming
<1>5. work[t] # <<>> /\ Then(t, <<>>) /\ UNCHANGED <<docs, order, current, messages, rings>>
  BY DEF DoEnindex, Performs
<1>6. Advances(t, <<>>)
  BY <1>5, Advancing, Singles
<1>7. Enindexed(t, a.kind, a.id, a.name)
  BY <1>1, <1>2, <1>4, <1>5, <1>6 DEF Enindexed
<1> QED BY <1>7

(* What a removal schedules: the name, then the queue or what else is the room's. *)
DropMore(more, kind, id, forget, old) ==
  /\ more \in Seq(Accesses)
  /\ \A a : a \in Range(more) <=>
       \/ a = Unindex(kind, id, NameOf(kind, old)) /\ NameOf(kind, old) # None
       \/ a = Forget(id) /\ forget /\ old # None /\ setup.userCapacity > 0
       \/ a \in {DropDoc("subscription", id, FALSE), DropRing(id)} /\ kind = "room"
  /\ \A i \in 1 .. Len(more) :
       /\ more[i].at = "unindex" => i = 1
       /\ more[i].at = "forget" => \A j \in 1 .. i - 1 : more[j].at = "unindex"

LEMMA DropSchedules ==
  ASSUME TypeOK, NEW kind \in Kinds, NEW id \in IdsOf(kind), NEW forget \in BOOLEAN,
         NEW old \in Documents \cup {None}, forget => kind = "user"
  PROVE  DropMore(Only(NameOf(kind, old) # None, Unindex(kind, id, NameOf(kind, old))) \o
                   Only(forget /\ old # None /\ setup.userCapacity > 0, Forget(id)) \o
                   (IF kind = "room"
                    THEN <<DropDoc("subscription", id, FALSE), DropRing(id)>> ELSE <<>>),
                  kind, id, forget, old)
<1>1. PICK u, f, r, name :
        /\ name = NameOf(kind, old)
        /\ u = Only(name # None, Unindex(kind, id, name))
        /\ f = Only(forget /\ old # None /\ setup.userCapacity > 0, Forget(id))
        /\ r = IF kind = "room"
               THEN <<DropDoc("subscription", id, FALSE), DropRing(id)>> ELSE <<>>
  OBVIOUS
<1>2. PICK b \in BOOLEAN, c \in BOOLEAN :
        /\ b <=> name # None
        /\ c <=> forget /\ old # None /\ setup.userCapacity > 0
  OBVIOUS
<1>3. /\ b => Unindex(kind, id, name) \in Accesses
      /\ c => Forget(id) \in Accesses
  <2>1. b => name \in Names /\ kind \in {"room", "user"}
    <3>1. name \in Names \cup {None}
      BY <1>1, DocumentFacts
    <3>2. name # None => kind # "subscription"
      BY <1>1 DEF NameOf
    <3> QED BY <1>2, <3>1, <3>2 DEF Kinds
  <2> QED BY <1>2, <2>1, Made DEF IdsOf
<1>4. /\ u \in Seq(Accesses) /\ Len(u) \in {0, 1}
      /\ Len(u) = 1 => u[1] = Unindex(kind, id, name)
      /\ \A a : a \in Range(u) <=> b /\ a = Unindex(kind, id, name)
  <2>1. u = Only(b, Unindex(kind, id, name))
    BY <1>1, <1>2 DEF Only
  <2> QED BY <2>1, <1>3, Only1
<1>5. /\ f \in Seq(Accesses) /\ Len(f) \in {0, 1}
      /\ Len(f) = 1 => f[1] = Forget(id)
      /\ \A a : a \in Range(f) <=> c /\ a = Forget(id)
  <2>1. f = Only(c, Forget(id))
    BY <1>1, <1>2 DEF Only
  <2> QED BY <2>1, <1>3, Only1
<1>6. PICK x, y : x = DropDoc("subscription", id, FALSE) /\ y = DropRing(id)
  OBVIOUS
<1>7. /\ r \in Seq(Accesses) /\ Len(r) \in {0, 2}
      /\ \A i \in 1 .. Len(r) : r[i] \in {x, y}
      /\ Range(r) = IF kind = "room" THEN {x, y} ELSE {}
  <2>1. CASE kind = "room"
    <3>1. r = <<x, y>>
      BY <1>1, <1>6, <2>1
    <3>2. x \in Accesses /\ y \in Accesses
      BY <1>6, <2>1, Made DEF IdsOf, Kinds
    <3>3. r \in Seq(Accesses) /\ Len(r) = 2 /\ r[1] = x /\ r[2] = y /\ Range(r) = {x, y}
      BY <3>1, <3>2, Singles
    <3>4. \A i \in 1 .. 2 : i = 1 \/ i = 2
      OBVIOUS
    <3> QED BY <2>1, <3>3, <3>4
  <2>2. CASE kind # "room"
    <3>1. r = <<>>
      BY <1>1, <2>2
    <3>2. r \in Seq(Accesses) /\ Len(r) = 0 /\ Range(r) = {}
      BY <3>1, Singles
    <3>3. \A i \in 1 .. 0 : FALSE
      OBVIOUS
    <3> QED BY <2>2, <3>2, <3>3
  <2> QED BY <2>1, <2>2
<1>8. PICK p, more : p = u \o f /\ more = p \o r
  OBVIOUS
<1>9. /\ p \in Seq(Accesses) /\ Range(p) = Range(u) \cup Range(f) /\ Len(p) = Len(u) + Len(f)
      /\ \A i \in 1 .. Len(u) + Len(f) : p[i] = IF i <= Len(u) THEN u[i] ELSE f[i - Len(u)]
  BY <1>4, <1>5, <1>8, Concatenated
<1>10. /\ more \in Seq(Accesses) /\ Range(more) = Range(p) \cup Range(r)
       /\ Len(more) = Len(p) + Len(r)
       /\ \A i \in 1 .. Len(p) + Len(r) : more[i] = IF i <= Len(p) THEN p[i] ELSE r[i - Len(p)]
  <2>1. p \in Seq(Accesses) /\ r \in Seq(Accesses) /\ more = p \o r
    BY <1>8, <1>9, <1>7
  <2> QED BY <2>1, Concatenated
<1>11. \A i \in 1 .. Len(p) :
         \/ p[i] = Unindex(kind, id, name) /\ i = 1
         \/ p[i] = Forget(id) /\ (i = 1 \/ (i = 2 /\ p[1] = Unindex(kind, id, name)))
  BY <1>4, <1>5, <1>9
<1>12. \A i \in 1 .. Len(more) :
         \/ i \in 1 .. Len(p) /\ more[i] = p[i]
         \/ more[i] \in {x, y}
  <2> TAKE i \in 1 .. Len(more)
  <2>1. Len(p) \in Nat /\ Len(r) \in Nat
    BY <1>4, <1>5, <1>9, <1>7
  <2>2. CASE i <= Len(p)
    BY <1>10, <2>1, <2>2
  <2>3. CASE ~ (i <= Len(p))
    <3>1. i - Len(p) \in 1 .. Len(r) /\ i \in 1 .. Len(p) + Len(r)
      BY <1>10, <2>1, <2>3
    <3> QED BY <1>10, <1>7, <2>3, <3>1
  <2> QED BY <2>2, <2>3
<1>13. /\ Unindex(kind, id, name).at = "unindex" /\ Forget(id).at = "forget"
       /\ x.at = "drop" /\ y.at = "dropring"
  BY <1>6 DEF Unindex, Forget, DropDoc, DropRing
<1>14. ASSUME NEW i \in 1 .. Len(more)
       PROVE  /\ more[i].at = "unindex" => i = 1
              /\ more[i].at = "forget" => \A j \in 1 .. i - 1 : more[j].at = "unindex"
  <2>1. CASE i \in 1 .. Len(p) /\ more[i] = p[i]
    <3>1. \A j \in 1 .. i - 1 : more[j] = p[j]
      BY <1>4, <1>5, <1>7, <1>9, <1>10, <2>1
    <3>2. Len(p) \in 0 .. 2
      BY <1>4, <1>5, <1>9
    <3> QED BY <1>11, <1>13, <2>1, <3>1, <3>2
  <2>2. CASE more[i] \in {x, y}
    BY <1>13, <2>2
  <2> QED BY <1>12, <2>1, <2>2
<1>15. \A a : a \in Range(more) <=>
       \/ a = Unindex(kind, id, name) /\ name # None
       \/ a = Forget(id) /\ forget /\ old # None /\ setup.userCapacity > 0
       \/ a \in {DropDoc("subscription", id, FALSE), DropRing(id)} /\ kind = "room"
  BY <1>2, <1>4, <1>5, <1>6, <1>7, <1>9, <1>10
<1>16. DropMore(more, kind, id, forget, old)
  BY <1>1, <1>10, <1>14, <1>15 DEF DropMore
<1>17. (u \o f) \o r = more
  BY <1>8
<1> QED BY <1>1, <1>16, <1>17

Dropped(t, kind, id, forget, more) ==
  /\ work[t] # <<>> /\ Head(work[t]) = DropDoc(kind, id, forget)
  /\ kind \in Kinds /\ id \in IdsOf(kind) /\ forget \in BOOLEAN /\ (forget => kind = "user")
  /\ docs[kind][id] \in Documents \cup {None}
  /\ Advances(t, more)
  /\ DocPut(kind, id, None)
  /\ DropMore(more, kind, id, forget, docs[kind][id])
  /\ UNCHANGED <<index, order, current, messages, rings>>

LEMMA Dropping ==
  ASSUME TypeOK, NEW t \in Tasks, DoDrop(t)
  PROVE  \E kind, id, forget, more : Dropped(t, kind, id, forget, more)
<1>1. PICK a \in Drops : a = Head(work[t])
  BY Performing, AccessKinds DEF DoDrop
<1>2. /\ a.kind \in Kinds /\ a.id \in IdsOf(a.kind) /\ a.forget \in BOOLEAN
      /\ a.forget => a.kind = "user"
      /\ a = DropDoc(a.kind, a.id, a.forget)
  BY Forms
<1>3. PICK old : old = docs[a.kind][a.id]
  OBVIOUS
<1>4. old \in Documents \cup {None}
  BY <1>2, <1>3 DEF TypeOK
<1>5. PICK more :
        more = Only(NameOf(a.kind, old) # None, Unindex(a.kind, a.id, NameOf(a.kind, old))) \o
               Only(a.forget /\ old # None /\ setup.userCapacity > 0, Forget(a.id)) \o
               (IF a.kind = "room"
                THEN <<DropDoc("subscription", a.id, FALSE), DropRing(a.id)>> ELSE <<>>)
  OBVIOUS
<1>6. DropMore(more, a.kind, a.id, a.forget, old)
  BY <1>2, <1>4, <1>5, DropSchedules
<1>7. docs' = [docs EXCEPT ![a.kind][a.id] = None] /\ Then(t, more)
      /\ UNCHANGED <<index, order, current, messages, rings>>
  BY <1>1, <1>3, <1>5 DEF DoDrop
<1>8. Advances(t, more)
  <2>1. work[t] # <<>> /\ more \in Seq(Accesses)
    BY <1>6 DEF DoDrop, Performs, DropMore
  <2> QED BY <1>7, <2>1, Advancing
<1>9. DocPut(a.kind, a.id, None)
  <2>1. setup' = setup
    BY <1>8 DEF Advances
  <2> QED BY <1>2, <1>7, <2>1, Putting
<1>10. Dropped(t, a.kind, a.id, a.forget, more)
  BY <1>1, <1>2, <1>3, <1>4, <1>6, <1>7, <1>8, <1>9 DEF Dropped, DoDrop, Performs
<1> QED BY <1>10

Counted(t, id, over) ==
  /\ work[t] # <<>> /\ Head(work[t]) = CountUsers(id)
  /\ id \in Users /\ over \in Nat /\ Cardinality(Cached) \in Nat
  /\ over = IF Cardinality(Cached) > setup.userCapacity
            THEN Cardinality(Cached) - setup.userCapacity ELSE 0
  /\ Advances(t, <<NoteUser(id, over)>>)
  /\ UNCHANGED store

LEMMA Counting ==
  ASSUME TypeOK, NEW t \in Tasks, DoCount(t)
  PROVE  \E id, over : Counted(t, id, over)
<1>1. PICK a \in Queueings : a = Head(work[t]) /\ a.at = "count"
  BY Performing, AccessKinds DEF DoCount
<1>2. a.id \in Users /\ a = CountUsers(a.id)
  BY <1>1, Forms
<1>3. PICK over : over = IF Cardinality(Cached) > setup.userCapacity
                         THEN Cardinality(Cached) - setup.userCapacity ELSE 0
  OBVIOUS
<1>4. Cardinality(Cached) \in Nat /\ over \in Nat
  <2>1. IsFiniteSet(Cached)
    BY BoundAssumption, FS_Subset DEF Cached
  <2>2. Cardinality(Cached) \in Nat
    BY <2>1, FS_CardinalityType
  <2> QED BY <1>3, <2>2, SetupFacts
<1>5. UNCHANGED store /\ Then(t, <<NoteUser(a.id, over)>>) /\ work[t] # <<>>
  BY <1>1, <1>3 DEF DoCount, Cached, Performs
<1>6. Advances(t, <<NoteUser(a.id, over)>>)
  <2>1. PICK b \in Accesses : b = NoteUser(a.id, over)
    BY <1>2, <1>4, Made
  <2>2. <<b>> \in Seq(Accesses)
    BY Singles
  <2> QED BY <1>5, <2>1, <2>2, Advancing
<1>7. Counted(t, a.id, over)
  BY <1>1, <1>2, <1>3, <1>4, <1>5, <1>6 DEF Counted
<1> QED BY <1>7

(* A newcomer queues; who is over capacity leaves, from the front, up to the        *)
(* newcomer.                                                                        *)
Noted(t, id, over, n, more) ==
  /\ work[t] # <<>> /\ Head(work[t]) = NoteUser(id, over)
  /\ id \in Users /\ over \in Nat /\ n \in 0 .. Len(order) /\ n <= over
  /\ OrderOK' /\ Len(order') = Len(order) + 1 - n
  /\ \A i \in 1 .. Len(order) - n : order'[i] = order[n + i]
  /\ order'[Len(order) + 1 - n] = id
  /\ \A i \in 1 .. n : order[i] # id
  /\ n = over \/ order'[1] = id
  /\ more \in Seq(Accesses) /\ Len(more) = n
  /\ \A i \in 1 .. n : more[i] = DropDoc("user", order[i], FALSE)
  /\ Advances(t, more)
  /\ UNCHANGED <<docs, index, current, messages, rings>>

LEMMA VictimsAre ==
  ASSUME NEW q \in Seq(Users), NEW id \in Users, NEW over \in Nat
  PROVE  \E n \in 0 .. Len(q) :
           /\ Victims(Append(q, id), over, id) = SubSeq(Append(q, id), 1, n)
           /\ n <= over
           /\ \A i \in 1 .. n : q[i] # id
           /\ n = over \/ Append(q, id)[n + 1] = id
<1>1. PICK queue, N : queue = Append(q, id) /\ N = Len(q)
  OBVIOUS
<1>2. /\ queue \in Seq(Users) /\ Len(queue) = N + 1 /\ N \in Nat /\ queue[N + 1] = id
      /\ \A i \in 1 .. N : queue[i] = q[i]
  BY <1>1
<1>3. PICK I : I = {i \in 1 .. Len(queue) : queue[i] = id}
  OBVIOUS
<1>4. I \in SUBSET Nat /\ N + 1 \in I /\ I # {}
  BY <1>2, <1>3
<1>5. PICK m \in I : m = Min(I) /\ \A j \in I : m <= j
  <2>1. \E m \in I : \A j \in I : m <= j
    BY <1>4, LeastNumber
  <2> QED BY <2>1 DEF Min
<1>6. SelectInSeq(queue, LAMBDA u : u = id) = m
  BY <1>3, <1>4, <1>5 DEF SelectInSeq
<1>7. PICK n : n = IF over < m - 1 THEN over ELSE m - 1
  OBVIOUS
<1>8. m \in 1 .. N + 1 /\ queue[m] = id
  BY <1>2, <1>3
<1>9. n \in 0 .. N /\ n <= over /\ n <= m - 1 /\ (n = over \/ n + 1 = m)
  BY <1>2, <1>7, <1>8
<1>10. Victims(queue, over, id) = SubSeq(queue, 1, n)
  BY <1>6, <1>7 DEF Victims
<1>11. \A i \in 1 .. n : q[i] # id
  <2> SUFFICES ASSUME NEW i \in 1 .. n, q[i] = id PROVE FALSE
    OBVIOUS
  <2>1. i \in 1 .. N /\ ~ (m <= i) /\ i \in 1 .. Len(queue)
    BY <1>2, <1>8, <1>9
  <2>2. i \in I
    BY <1>2, <1>3, <2>1
  <2> QED BY <1>5, <2>1, <2>2
<1>12. n = over \/ queue[n + 1] = id
  BY <1>8, <1>9
<1> QED BY <1>1, <1>9, <1>10, <1>11, <1>12

LEMMA Noting ==
  ASSUME TypeOK, NEW t \in Tasks, DoNote(t)
  PROVE  \E id, over, n, more : Noted(t, id, over, n, more)
<1>1. PICK a \in Queueings : a = Head(work[t]) /\ a.at = "note"
  BY Performing, AccessKinds DEF DoNote
<1>2. a.id \in Users /\ a.over \in Nat /\ a = NoteUser(a.id, a.over)
  BY <1>1, Forms
<1>3. PICK queue, N : queue = Append(order, a.id) /\ N = Len(order)
  OBVIOUS
<1>4. order \in Seq(Users)
  BY DEF TypeOK
<1>5. /\ queue \in Seq(Users) /\ Len(queue) = N + 1 /\ N \in Nat /\ queue[N + 1] = a.id
      /\ \A i \in 1 .. N : queue[i] = order[i]
  BY <1>2, <1>3, <1>4
<1>6. PICK n \in 0 .. N :
           /\ Victims(queue, a.over, a.id) = SubSeq(queue, 1, n)
           /\ n <= a.over
           /\ \A i \in 1 .. n : order[i] # a.id
           /\ n = a.over \/ queue[n + 1] = a.id
  <2>1. \E n \in 0 .. Len(order) :
           /\ Victims(Append(order, a.id), a.over, a.id) = SubSeq(Append(order, a.id), 1, n)
           /\ n <= a.over
           /\ \A i \in 1 .. n : order[i] # a.id
           /\ n = a.over \/ Append(order, a.id)[n + 1] = a.id
    BY <1>2, <1>4, VictimsAre
  <2> QED BY <1>3, <2>1
<1>7. PICK victims : victims = SubSeq(queue, 1, n)
  OBVIOUS
<1>8. /\ victims \in Seq(Users) /\ Len(victims) = n /\ DOMAIN victims = 1 .. n
      /\ \A i \in 1 .. n : victims[i] = order[i]
  <2>1. \A i \in 1 .. n : queue[i] \in Users /\ i \in 1 .. N
    BY <1>5
  <2>2. /\ victims \in Seq(Users) /\ Len(victims) = IF 1 <= n THEN n - 1 + 1 ELSE 0
        /\ \A i \in 1 .. n - 1 + 1 : victims[i] = queue[1 + i - 1]
    BY <1>5, <1>7, <2>1, SubSeqProperties
  <2>3. Len(victims) = n /\ n - 1 + 1 = n /\ \A i \in 1 .. n : 1 + i - 1 = i
    BY <1>5, <2>2
  <2>4. DOMAIN victims = 1 .. n
    BY <2>2, <2>3, LenProperties
  <2> QED BY <1>5, <2>1, <2>2, <2>3, <2>4
<1>9. PICK more : more = [i \in 1 .. n |-> DropDoc("user", victims[i], FALSE)]
  OBVIOUS
<1>10. /\ more \in Seq(Accesses) /\ Len(more) = n
       /\ \A i \in 1 .. n : more[i] = DropDoc("user", order[i], FALSE)
  <2>1. \A u \in Users : DropDoc("user", u, FALSE) \in Accesses
    BY Made DEF Kinds, IdsOf
  <2>2. n \in Nat /\ \A i \in 1 .. n : victims[i] \in Users
    BY <1>5, <1>8, ElementOfSeq
  <2>3. more \in [1 .. n -> Accesses]
    BY <1>9, <2>1, <2>2
  <2>4. more \in Seq(Accesses) /\ Len(more) = n
    BY <2>2, <2>3, FunctionSeq
  <2>5. \A i \in 1 .. n : more[i] = DropDoc("user", order[i], FALSE)
    BY <1>8, <1>9
  <2> QED BY <2>4, <2>5
<1>11. order' = SubSeq(queue, n + 1, N + 1) /\ Then(t, more)
       /\ UNCHANGED <<docs, index, current, messages, rings>> /\ work[t] # <<>>
  <2>1. Victims(Append(order, Head(work[t]).id), Head(work[t]).over, Head(work[t]).id) = victims
    BY <1>1, <1>3, <1>6, <1>7
  <2> QED BY <1>1, <1>3, <1>5, <1>8, <1>9, <2>1 DEF DoNote, Each, Performs
<1>12. /\ OrderOK' /\ Len(order') = N + 1 - n
       /\ \A i \in 1 .. N + 1 - n : order'[i] = queue[n + i]
  <2>1. \A i \in n + 1 .. N + 1 : queue[i] \in Users
    BY <1>5
  <2>2. /\ order' \in Seq(Users)
        /\ Len(order') = IF n + 1 <= N + 1 THEN (N + 1) - (n + 1) + 1 ELSE 0
        /\ \A i \in 1 .. (N + 1) - (n + 1) + 1 : order'[i] = queue[n + 1 + i - 1]
    <3>1. n + 1 \in Int /\ N + 1 \in Int
      BY <1>5
    <3> QED BY <1>11, <2>1, <3>1, SubSeqProperties
  <2>3. n + 1 <= N + 1 /\ (N + 1) - (n + 1) + 1 = N + 1 - n
        /\ \A i \in 1 .. N + 1 - n : n + 1 + i - 1 = n + i
    BY <1>5
  <2> QED BY <2>2, <2>3 DEF OrderOK
<1>13. Advances(t, more)
  BY <1>10, <1>11, Advancing
<1>14. \A i \in 1 .. N - n : order'[i] = order[n + i]
  <2>1. \A i \in 1 .. N - n : i \in 1 .. N + 1 - n /\ n + i \in 1 .. N
    BY <1>5
  <2> QED BY <1>5, <1>12, <2>1
<1>15. order'[N + 1 - n] = a.id
  <2>1. N + 1 - n \in 1 .. N + 1 - n /\ n + (N + 1 - n) = N + 1
    BY <1>5
  <2> QED BY <1>5, <1>12, <2>1
<1>16. n = a.over \/ order'[1] = a.id
  <2>1. 1 \in 1 .. N + 1 - n
    BY <1>5
  <2> QED BY <1>6, <1>12, <2>1
<1>17. Noted(t, a.id, a.over, n, more)
  BY <1>1, <1>2, <1>3, <1>6, <1>10, <1>11, <1>12, <1>13, <1>14, <1>15, <1>16 DEF Noted
<1> QED BY <1>17

Forgot(t, id) ==
  /\ work[t] # <<>> /\ Head(work[t]) = Forget(id) /\ id \in Users
  /\ order' = Kept(order, Users \ {id}) /\ OrderOK'
  /\ Range(order') = Range(order) \ {id}
  /\ Advances(t, <<>>)
  /\ UNCHANGED <<docs, index, current, messages, rings>>

LEMMA Forgetting ==
  ASSUME TypeOK, NEW t \in Tasks, DoForget(t)
  PROVE  \E id : Forgot(t, id)
<1>1. PICK a \in Queueings : a = Head(work[t]) /\ a.at = "forget"
  BY Performing, AccessKinds DEF DoForget
<1>2. a.id \in Users /\ a = Forget(a.id)
  BY <1>1, Forms
<1>3. order \in Seq(Users)
  BY DEF TypeOK
<1>4. order' = Kept(order, Users \ {a.id}) /\ Then(t, <<>>) /\ work[t] # <<>>
      /\ UNCHANGED <<docs, index, current, messages, rings>>
  BY <1>1 DEF DoForget, Performs
<1>5. order' \in Seq(Users) /\ Range(order') = Range(order) \cap (Users \ {a.id})
  <2>1. order' \in Seq(Users \cap (Users \ {a.id}))
    BY <1>3, <1>4, KeptType
  <2>2. Users \cap (Users \ {a.id}) \subseteq Users
    OBVIOUS
  <2> QED BY <1>3, <1>4, <2>1, <2>2, SeqMonotonic, KeptElements
<1>6. Range(order) \subseteq Users
  BY <1>3, ElementOfSeq, LenProperties DEF Range
<1>7. Advances(t, <<>>)
  BY <1>4, Advancing, Singles
<1>8. Forgot(t, a.id)
  BY <1>1, <1>2, <1>4, <1>5, <1>6, <1>7 DEF Forgot, OrderOK
<1> QED BY <1>8

LoggedIn(t, id, doc, mode) ==
  /\ work[t] # <<>> /\ Head(work[t]) = Refresh("login", id, doc, mode)
  /\ id \in Users /\ doc \in Documents
  /\ current' = [id |-> id, doc |-> doc] /\ CurrentOK'
  /\ Advances(t, <<>>)
  /\ UNCHANGED <<docs, index, order, messages, rings>>

LEMMA LoggingIn ==
  ASSUME TypeOK, NEW t \in Tasks, DoLogin(t)
  PROVE  \E id, doc, mode : LoggedIn(t, id, doc, mode)
<1>1. PICK a \in Refreshes : a = Head(work[t]) /\ a.at = "login"
  BY Performing, AccessKinds DEF DoLogin
<1>2. /\ a.id \in Users /\ a.doc \in Documents /\ Wants("current_user")
      /\ a = Refresh("login", a.id, a.doc, a.mode)
  BY <1>1, Forms
<1>3. current' = [id |-> a.id, doc |-> a.doc] /\ Then(t, <<>>) /\ work[t] # <<>>
      /\ UNCHANGED <<docs, index, order, messages, rings>>
  BY <1>1 DEF DoLogin, Performs
<1>4. Advances(t, <<>>)
  BY <1>3, Advancing, Singles
<1>5. CurrentOK'
  <2>1. setup' = setup
    BY <1>4 DEF Advances
  <2> QED BY <1>2, <1>3, <2>1 DEF CurrentOK, Wants
<1>6. LoggedIn(t, a.id, a.doc, a.mode)
  BY <1>1, <1>2, <1>3, <1>4, <1>5 DEF LoggedIn
<1> QED BY <1>6

Checked(t, id, doc, mode, more) ==
  /\ work[t] # <<>> /\ Head(work[t]) = Refresh("iscurrent", id, doc, mode)
  /\ id \in Users /\ doc \in Documents /\ mode \in Modes
  /\ more = IF IsCurrent(id) THEN <<Refresh("refresh", id, doc, mode)>> ELSE <<>>
  /\ more \in Seq(Accesses)
  /\ Advances(t, more)
  /\ UNCHANGED store

LEMMA Checking ==
  ASSUME TypeOK, NEW t \in Tasks, CheckCurrent(t)
  PROVE  \E id, doc, mode, more : Checked(t, id, doc, mode, more)
<1>1. PICK a \in Refreshes : a = Head(work[t]) /\ a.at = "iscurrent"
  BY Performing, AccessKinds DEF CheckCurrent
<1>2. /\ a.id \in Users /\ a.doc \in Documents /\ a.mode \in Modes /\ Wants("current_user")
      /\ a = Refresh("iscurrent", a.id, a.doc, a.mode)
  BY <1>1, Forms
<1>3. PICK b \in Accesses : b = Refresh("refresh", a.id, a.doc, a.mode)
  BY <1>2, Made
<1>4. PICK more : more = IF IsCurrent(a.id) THEN <<b>> ELSE <<>>
  OBVIOUS
<1>5. more \in Seq(Accesses)
  <2>1. <<b>> \in Seq(Accesses) /\ <<>> \in Seq(Accesses)
    BY Singles
  <2> QED BY <1>4, <2>1
<1>6. UNCHANGED store /\ Then(t, more) /\ work[t] # <<>>
  BY <1>1, <1>3, <1>4 DEF CheckCurrent, Performs, Only
<1>7. Advances(t, more)
  BY <1>5, <1>6, Advancing
<1>8. Checked(t, a.id, a.doc, a.mode, more)
  BY <1>1, <1>2, <1>3, <1>4, <1>5, <1>6, <1>7 DEF Checked
<1> QED BY <1>8

Refreshed(t, id, doc, mode) ==
  /\ work[t] # <<>> /\ Head(work[t]) = Refresh("refresh", id, doc, mode)
  /\ id \in Users /\ doc \in Documents /\ mode \in Modes
  /\ IF IsCurrent(id)
     THEN /\ current \in [id : Users, doc : Documents]
          /\ current' = [id |-> id, doc |-> Stored(current.doc, doc, mode)]
     ELSE current' = current
  /\ CurrentOK'
  /\ Advances(t, <<>>)
  /\ UNCHANGED <<docs, index, order, messages, rings>>

LEMMA Refreshing ==
  ASSUME TypeOK, NEW t \in Tasks, DoRefresh(t)
  PROVE  \E id, doc, mode : Refreshed(t, id, doc, mode)
<1>1. PICK a \in Refreshes : a = Head(work[t]) /\ a.at = "refresh"
  BY Performing, AccessKinds DEF DoRefresh
<1>2. /\ a.id \in Users /\ a.doc \in Documents /\ a.mode \in Modes /\ Wants("current_user")
      /\ a = Refresh("refresh", a.id, a.doc, a.mode)
  BY <1>1, Forms
<1>3. /\ current' = IF IsCurrent(a.id)
                    THEN [current EXCEPT !.doc = Stored(current.doc, a.doc, a.mode)] ELSE current
      /\ Then(t, <<>>) /\ work[t] # <<>>
      /\ UNCHANGED <<docs, index, order, messages, rings>>
  BY <1>1 DEF DoRefresh, Performs
<1>4. Advances(t, <<>>)
  BY <1>3, Advancing, Singles
<1>5. current \in [id : Users, doc : Documents] \cup {None}
  BY DEF TypeOK
<1>6. IF IsCurrent(a.id)
      THEN /\ current \in [id : Users, doc : Documents]
           /\ Stored(current.doc, a.doc, a.mode) \in Documents
           /\ current' = [id |-> a.id, doc |-> Stored(current.doc, a.doc, a.mode)]
      ELSE current' = current
  <2>1. CASE IsCurrent(a.id)
    <3>1. current \in [id : Users, doc : Documents] /\ current.id = a.id
      BY <1>5, <2>1 DEF IsCurrent
    <3>2. Stored(current.doc, a.doc, a.mode) \in Documents
      BY <1>2, <3>1, DocumentFacts
    <3> QED BY <1>3, <2>1, <3>1, <3>2
  <2>2. CASE ~ IsCurrent(a.id)
    BY <1>3, <2>2
  <2> QED BY <2>1, <2>2
<1>7. CurrentOK'
  <2>1. setup' = setup
    BY <1>4 DEF Advances
  <2>2. current' \in [id : Users, doc : Documents] \cup {None}
    BY <1>2, <1>5, <1>6
  <2> QED BY <1>2, <2>1, <2>2 DEF CurrentOK, Wants
<1>8. Refreshed(t, a.id, a.doc, a.mode)
  BY <1>1, <1>2, <1>3, <1>4, <1>6, <1>7 DEF Refreshed
<1> QED BY <1>8

(* One message, one ring. *)
MessagePut(id, v) ==
  /\ MessagesOK' /\ messages'[id] = v
  /\ \A m \in Messages : m # id => messages'[m] = messages[m]
RingPut(room, v) ==
  /\ RingsOK' /\ rings'[room] = v
  /\ \A r \in Rooms : r # room => rings'[r] = rings[r]

LEMMA PuttingMessage ==
  ASSUME TypeOK, setup' = setup, NEW id \in Messages,
         NEW v \in [room : Rooms, doc : Documents] \cup {None}, v # None => Wants("message"),
         messages' = [messages EXCEPT ![id] = v]
  PROVE  MessagePut(id, v)
<1>1. /\ messages \in [Messages -> [room : Rooms, doc : Documents] \cup {None}]
      /\ \A m \in Messages : messages[m] # None => Wants("message")
  BY DEF TypeOK
<1>2. /\ messages' \in [Messages -> [room : Rooms, doc : Documents] \cup {None}]
      /\ messages'[id] = v /\ \A m \in Messages : m # id => messages'[m] = messages[m]
  BY <1>1
<1>3. \A m \in Messages : messages'[m] # None => Wants("message")
  BY <1>1, <1>2
<1> QED BY <1>2, <1>3 DEF MessagePut, MessagesOK, Wants

LEMMA PuttingRing ==
  ASSUME TypeOK, setup' = setup, NEW room \in Rooms,
         NEW v \in Seq(Messages) \cup {None}, v # None => Len(v) <= setup.messageCapacity,
         rings' = [rings EXCEPT ![room] = v]
  PROVE  RingPut(room, v)
<1>1. /\ rings \in [Rooms -> Seq(Messages) \cup {None}]
      /\ \A r \in Rooms : rings[r] # None => Len(rings[r]) <= setup.messageCapacity
  BY DEF TypeOK
<1>2. /\ rings' \in [Rooms -> Seq(Messages) \cup {None}]
      /\ rings'[room] = v /\ \A r \in Rooms : r # room => rings'[r] = rings[r]
  BY <1>1
<1>3. \A r \in Rooms : rings'[r] # None => Len(rings'[r]) <= setup.messageCapacity
  BY <1>1, <1>2
<1> QED BY <1>2, <1>3 DEF RingPut, RingsOK

Messaged(t, id, room, doc, mode, new, more) ==
  /\ work[t] # <<>> /\ Head(work[t]) = StoreMessage(id, room, doc, mode)
  /\ id \in Messages /\ room \in Rooms /\ doc \in Documents /\ mode \in Modes
  /\ IsTombstone(doc) => mode = "Replace" /\ "md" \notin DOMAIN doc
  /\ messages[id] \in [room : Rooms, doc : Documents] \cup {None}
  /\ new = Stored(IF messages[id] = None THEN None ELSE messages[id].doc, doc, mode)
  /\ new \in Documents
  /\ MessagePut(id, [room |-> room, doc |-> new])
  /\ more = IF messages[id] = None THEN <<Link(id, room)>> ELSE <<>>
  /\ more \in Seq(Accesses)
  /\ Advances(t, more)
  /\ UNCHANGED <<docs, index, order, current, rings>>

LEMMA Messaging ==
  ASSUME TypeOK, NEW t \in Tasks, DoStoreMessage(t)
  PROVE  \E id, room, doc, mode, new, more : Messaged(t, id, room, doc, mode, new, more)
<1>1. PICK a \in Messagings : a = Head(work[t])
  BY Performing, AccessKinds DEF DoStoreMessage
<1>2. /\ a.id \in Messages /\ a.room \in Rooms /\ a.doc \in Documents /\ a.mode \in Modes
      /\ Wants("message") /\ setup.messageCapacity > 0
      /\ IsTombstone(a.doc) => a.mode = "Replace" /\ "md" \notin DOMAIN a.doc
      /\ a = StoreMessage(a.id, a.room, a.doc, a.mode)
  BY Forms
<1>3. PICK old, cached, new :
        /\ old = messages[a.id] /\ cached = (IF old = None THEN None ELSE old.doc)
        /\ new = Stored(cached, a.doc, a.mode)
  OBVIOUS
<1>4. old \in [room : Rooms, doc : Documents] \cup {None}
  BY <1>2, <1>3 DEF TypeOK
<1>5. cached \in Documents \cup {None} /\ new \in Documents
  <2>1. cached \in Documents \cup {None}
    BY <1>3, <1>4
  <2> QED BY <1>2, <1>3, <2>1, DocumentFacts
<1>6. PICK more : more = IF old = None THEN <<Link(a.id, a.room)>> ELSE <<>>
  OBVIOUS
<1>7. more \in Seq(Accesses)
  <2>1. PICK b \in Accesses : b = Link(a.id, a.room)
    BY <1>2, Made
  <2>2. <<b>> \in Seq(Accesses) /\ <<>> \in Seq(Accesses)
    BY Singles
  <2> QED BY <1>6, <2>1, <2>2
<1>8. PICK entry : entry = [room |-> a.room, doc |-> new]
  OBVIOUS
<1>9. messages' = [messages EXCEPT ![a.id] = entry] /\ Then(t, more) /\ work[t] # <<>>
      /\ UNCHANGED <<docs, index, order, current, rings>>
  BY <1>1, <1>3, <1>6, <1>8 DEF DoStoreMessage, Performs, Linking, Only
<1>10. Advances(t, more)
  BY <1>7, <1>9, Advancing
<1>11. MessagePut(a.id, entry)
  <2>1. setup' = setup
    BY <1>10 DEF Advances
  <2>2. entry \in [room : Rooms, doc : Documents]
    BY <1>2, <1>5, <1>8
  <2> QED BY <1>2, <1>9, <2>1, <2>2, PuttingMessage
<1>12. Messaged(t, a.id, a.room, a.doc, a.mode, new, more)
  BY <1>1, <1>2, <1>3, <1>4, <1>5, <1>6, <1>7, <1>8, <1>9, <1>10, <1>11 DEF Messaged
<1> QED BY <1>12

Ring(r) == IF rings[r] = None THEN <<>> ELSE rings[r]

(* The newcomer leads the ring; what was last is purged when the ring was full. *)
Linked(t, id, room, ring, k, more) ==
  /\ work[t] # <<>> /\ Head(work[t]) = Link(id, room)
  /\ id \in Messages /\ room \in Rooms
  /\ Ring(room) \in Seq(Messages) /\ k \in 0 .. Len(Ring(room))
  /\ ring \in Seq(Messages) /\ Len(ring) = k + 1 /\ ring[1] = id
  /\ \A i \in 1 .. k : ring[i + 1] = Ring(room)[i]
  /\ RingPut(room, ring)
  /\ \/ k = Len(Ring(room)) /\ more = <<>>
     \/ k + 1 = Len(Ring(room)) /\ more = <<Purge(Ring(room)[k + 1])>>
  /\ more \in Seq(Accesses)
  /\ Advances(t, more)
  /\ UNCHANGED <<docs, index, order, current, messages>>

LEMMA LinkingIn ==
  ASSUME TypeOK, NEW t \in Tasks, DoLink(t)
  PROVE  \E id, room, ring, k, more : Linked(t, id, room, ring, k, more)
<1>1. PICK a \in Ringings : a = Head(work[t]) /\ a.at = "link"
  BY Performing, AccessKinds DEF DoLink
<1>2. /\ a.id \in Messages /\ a.room \in Rooms /\ a = Link(a.id, a.room)
      /\ setup.messageCapacity > 0 /\ setup.messageCapacity \in Nat
  BY <1>1, Forms, SetupFacts
<1>3. PICK q, cap : q = Ring(a.room) /\ cap = setup.messageCapacity
  OBVIOUS
<1>4. q \in Seq(Messages) /\ Len(q) <= cap /\ cap > 0 /\ cap \in Nat /\ Len(q) \in Nat
  <2>1. rings[a.room] \in Seq(Messages) \cup {None}
        /\ (rings[a.room] # None => Len(rings[a.room]) <= cap)
    BY <1>2, <1>3 DEF TypeOK
  <2>2. <<>> \in Seq(Messages) /\ Len(<<>>) = 0
    BY Singles
  <2>3. q \in Seq(Messages) /\ Len(q) <= cap
    BY <1>2, <1>3, <2>1, <2>2 DEF Ring
  <2> QED BY <1>2, <1>3, <2>3
<1>5. PICK full, kept :
        /\ full = <<a.id>> \o q
        /\ kept = IF Len(full) > cap THEN cap ELSE Len(full)
  OBVIOUS
<1>6. /\ full \in Seq(Messages) /\ Len(full) = Len(q) + 1 /\ full[1] = a.id
      /\ \A i \in 1 .. Len(q) : full[i + 1] = q[i]
  <2>1. <<a.id>> \in Seq(Messages) /\ Len(<<a.id>>) = 1 /\ <<a.id>>[1] = a.id
    BY <1>2, Singles
  <2>2. full \in Seq(Messages) /\ Len(full) = 1 + Len(q)
        /\ (\A i \in 1 .. 1 : full[i] = <<a.id>>[i])
        /\ \A i \in 1 .. Len(q) : full[1 + i] = q[i]
    BY <1>4, <1>5, <2>1, Concatenated
  <2>3. 1 \in 1 .. 1 /\ \A i \in 1 .. Len(q) : 1 + i = i + 1
    BY <1>4
  <2> QED BY <1>4, <2>1, <2>2, <2>3
<1>7. PICK k \in 0 .. Len(q) : kept = k + 1 /\ (k = Len(q) \/ k + 1 = Len(q))
  <2>1. kept - 1 \in 0 .. Len(q) /\ kept = (kept - 1) + 1
        /\ (kept - 1 = Len(q) \/ (kept - 1) + 1 = Len(q))
    BY <1>4, <1>5, <1>6
  <2> QED BY <2>1
<1>8. PICK ring : ring = SubSeq(full, 1, kept)
  OBVIOUS
<1>9. /\ ring \in Seq(Messages) /\ Len(ring) = k + 1 /\ ring[1] = a.id
      /\ \A i \in 1 .. k : ring[i + 1] = q[i]
  <2>1. kept \in Int /\ 1 \in Int /\ \A i \in 1 .. kept : full[i] \in Messages
    <3>1. \A i \in 1 .. kept : i \in 1 .. Len(full)
      BY <1>4, <1>6, <1>7
    <3> QED BY <1>4, <1>6, <1>7, <3>1, ElementOfSeq
  <2>2. /\ ring \in Seq(Messages) /\ Len(ring) = (IF 1 <= kept THEN kept - 1 + 1 ELSE 0)
        /\ \A i \in 1 .. kept - 1 + 1 : ring[i] = full[1 + i - 1]
    BY <1>8, <2>1, SubSeqProperties
  <2>3. 1 <= kept /\ kept - 1 + 1 = k + 1 /\ \A i \in 1 .. k + 1 : 1 + i - 1 = i
    BY <1>7
  <2>4. 1 \in 1 .. k + 1
        /\ \A i \in 1 .. k : i + 1 \in 1 .. k + 1 /\ i \in 1 .. Len(q)
    BY <1>4, <1>7
  <2> QED BY <1>6, <2>2, <2>3, <2>4
<1>10. PICK gone, more : gone = Reverse(SubSeq(full, kept + 1, Len(full)))
                         /\ more = [i \in DOMAIN gone |-> Purge(gone[i])]
  OBVIOUS
<1>11. /\ \/ k = Len(q) /\ more = <<>>
          \/ k + 1 = Len(q) /\ more = <<Purge(q[k + 1])>>
       /\ more \in Seq(Accesses)
  <2>1. PICK tail : tail = SubSeq(full, kept + 1, Len(full))
    OBVIOUS
  <2>2. CASE k = Len(q)
    <3>1. tail = <<>>
      <4>1. Len(full) < kept + 1 /\ kept + 1 \in Int /\ Len(full) \in Int
        BY <1>4, <1>6, <1>7, <2>2
      <4> QED BY <2>1, <4>1, SubSeqEmpty
    <3>2. Len(tail) = 0
      BY <3>1
    <3>3. DOMAIN gone = {}
      <4>1. DOMAIN gone = 1 .. Len(tail)
        BY <1>10, <2>1, Zenon DEF Reverse
      <4> QED BY <3>2, <4>1
    <3>4. more = <<>>
      BY <1>10, <3>3
    <3> QED BY <2>2, <3>4, Singles
  <2>3. CASE k + 1 = Len(q)
    <3>1. kept + 1 = Len(q) + 1 /\ Len(full) = Len(q) + 1 /\ kept + 1 \in Int
            /\ Len(q) \in 1 .. Len(q)
      BY <1>4, <1>6, <1>7, <2>3
    <3>2. full[Len(q) + 1] = q[Len(q)] /\ q[Len(q)] \in Messages
      BY <1>4, <1>6, <3>1, ElementOfSeq
    <3>3. /\ Len(tail) = IF kept + 1 <= Len(full) THEN Len(full) - (kept + 1) + 1 ELSE 0
          /\ \A i \in 1 .. Len(full) - (kept + 1) + 1 : tail[i] = full[kept + 1 + i - 1]
      <4>1. \A i \in kept + 1 .. Len(full) : full[i] \in Messages
        <5>1. \A i \in kept + 1 .. Len(full) : i = Len(q) + 1
          BY <3>1, <1>4
        <5> QED BY <3>2, <5>1
      <4> QED BY <2>1, <3>1, <4>1, SubSeqProperties
    <3>4. Len(tail) = 1 /\ tail[1] = q[Len(q)]
      <4>1. kept + 1 <= Len(full) /\ Len(full) - (kept + 1) + 1 = 1 /\ 1 \in 1 .. 1
            /\ kept + 1 + 1 - 1 = Len(q) + 1
        BY <3>1, <1>4
      <4> QED BY <3>2, <3>3, <4>1
    <3>5. gone = [i \in 1 .. 1 |-> q[Len(q)]]
      <4>1. gone = [i \in 1 .. 1 |-> tail[(1 - i) + 1]]
        BY <1>10, <2>1, <3>4 DEF Reverse
      <4>2. \A i \in 1 .. 1 : (1 - i) + 1 = 1
        OBVIOUS
      <4> QED BY <3>4, <4>1, <4>2
    <3>6. PICK p \in Accesses : p = Purge(q[Len(q)])
      BY <3>2, Made
    <3>7. more = <<p>>
      <4>1. DOMAIN gone = 1 .. 1 /\ \A i \in 1 .. 1 : gone[i] = q[Len(q)]
        BY <3>5
      <4>2. more = [i \in 1 .. 1 |-> p]
        BY <1>10, <3>6, <4>1
      <4> QED BY <4>2
    <3>8. <<p>> \in Seq(Accesses)
      BY Singles
    <3> QED BY <2>3, <3>6, <3>7, <3>8
  <2> QED BY <1>7, <2>2, <2>3
<1>12. rings' = [rings EXCEPT ![a.room] = ring] /\ Then(t, more) /\ work[t] # <<>>
       /\ UNCHANGED <<docs, index, order, current, messages>>
  BY <1>1, <1>3, <1>5, <1>8, <1>10 DEF DoLink, Performs, Each, Ring
<1>13. Advances(t, more)
  BY <1>11, <1>12, Advancing
<1>14. RingPut(a.room, ring)
  <2>1. setup' = setup
    BY <1>13 DEF Advances
  <2>2. Len(ring) <= setup.messageCapacity
    BY <1>3, <1>4, <1>5, <1>6, <1>7, <1>9
  <2> QED BY <1>2, <1>9, <1>12, <2>1, <2>2, PuttingRing
<1>15. Linked(t, a.id, a.room, ring, k, more)
  BY <1>1, <1>2, <1>3, <1>4, <1>9, <1>11, <1>12, <1>13, <1>14 DEF Linked
<1> QED BY <1>15

Purged(t, id) ==
  /\ work[t] # <<>> /\ Head(work[t]) = Purge(id) /\ id \in Messages
  /\ MessagePut(id, None)
  /\ Advances(t, <<>>)
  /\ UNCHANGED <<docs, index, order, current, rings>>

LEMMA Purging ==
  ASSUME TypeOK, NEW t \in Tasks, DoPurge(t)
  PROVE  \E id : Purged(t, id)
<1>1. PICK a \in Ringings : a = Head(work[t]) /\ a.at = "purge"
  BY Performing, AccessKinds DEF DoPurge
<1>2. a.id \in Messages /\ a = Purge(a.id)
  BY <1>1, Forms
<1>3. messages' = [messages EXCEPT ![a.id] = None] /\ Then(t, <<>>) /\ work[t] # <<>>
      /\ UNCHANGED <<docs, index, order, current, rings>>
  BY <1>1 DEF DoPurge, Performs
<1>4. Advances(t, <<>>)
  BY <1>3, Advancing, Singles
<1>5. MessagePut(a.id, None)
  <2>1. setup' = setup
    BY <1>4 DEF Advances
  <2> QED BY <1>2, <1>3, <2>1, PuttingMessage
<1>6. Purged(t, a.id)
  BY <1>1, <1>2, <1>3, <1>4, <1>5 DEF Purged
<1> QED BY <1>6

(* The room is the caller's, or the removed document's. *)
Took(t, id, asked, room, more) ==
  /\ work[t] # <<>> /\ Head(work[t]) = Take(id, asked)
  /\ id \in Messages /\ asked \in Rooms \cup {None} /\ room \in Rooms \cup {None}
  /\ room = IF asked # None THEN asked
            ELSE IF messages[id] # None THEN messages[id].room ELSE None
  /\ MessagePut(id, None)
  /\ more = IF room # None THEN <<Unlink(id, room)>> ELSE <<>>
  /\ more \in Seq(Accesses)
  /\ Advances(t, more)
  /\ UNCHANGED <<docs, index, order, current, rings>>

LEMMA Taking ==
  ASSUME TypeOK, NEW t \in Tasks, DoTake(t)
  PROVE  \E id, asked, room, more : Took(t, id, asked, room, more)
<1>1. PICK a \in Ringings : a = Head(work[t]) /\ a.at = "take"
  BY Performing, AccessKinds DEF DoTake
<1>2. a.id \in Messages /\ a.room \in Rooms \cup {None} /\ a = Take(a.id, a.room)
  BY <1>1, Forms
<1>3. PICK room : room = IF a.room # None THEN a.room
                         ELSE IF messages[a.id] # None THEN messages[a.id].room ELSE None
  OBVIOUS
<1>4. room \in Rooms \cup {None}
  <2>1. messages[a.id] \in [room : Rooms, doc : Documents] \cup {None}
    BY <1>2 DEF TypeOK
  <2> QED BY <1>2, <1>3, <2>1
<1>5. PICK more : more = IF room # None THEN <<Unlink(a.id, room)>> ELSE <<>>
  OBVIOUS
<1>6. more \in Seq(Accesses)
  <2>1. PICK b : b = Unlink(a.id, room)
    OBVIOUS
  <2>2. CASE room # None
    <3>1. b \in Accesses
      BY <1>2, <1>4, <2>1, <2>2, Made
    <3>2. <<b>> \in Seq(Accesses)
      BY <3>1, Singles
    <3> QED BY <1>5, <2>1, <2>2, <3>2
  <2>3. CASE room = None
    BY <1>5, <2>3, Singles
  <2> QED BY <2>2, <2>3
<1>7. messages' = [messages EXCEPT ![a.id] = None] /\ Then(t, more) /\ work[t] # <<>>
      /\ UNCHANGED <<docs, index, order, current, rings>>
  BY <1>1, <1>3, <1>5 DEF DoTake, Performs, Only
<1>8. Advances(t, more)
  BY <1>6, <1>7, Advancing
<1>9. MessagePut(a.id, None)
  <2>1. setup' = setup
    BY <1>8 DEF Advances
  <2> QED BY <1>2, <1>7, <2>1, PuttingMessage
<1>10. Took(t, a.id, a.room, room, more)
  BY <1>1, <1>2, <1>3, <1>4, <1>5, <1>6, <1>7, <1>8, <1>9 DEF Took
<1> QED BY <1>10

(* A message leaves its ring; an empty ring is about to go. *)
Unlinked(t, id, room, ring, more) ==
  /\ work[t] # <<>> /\ Head(work[t]) = Unlink(id, room)
  /\ id \in Messages /\ room \in Rooms
  /\ rings[room] = None => ring = None /\ more = <<>>
  /\ rings[room] # None =>
       /\ rings[room] \in Seq(Messages) /\ ring = Kept(rings[room], Messages \ {id})
       /\ Range(ring) = Range(rings[room]) \ {id}
       /\ more = IF ring = <<>> THEN <<Unring(room)>> ELSE <<>>
  /\ RingPut(room, ring)
  /\ more \in Seq(Accesses)
  /\ Advances(t, more)
  /\ UNCHANGED <<docs, index, order, current, messages>>

LEMMA Unlinking ==
  ASSUME TypeOK, NEW t \in Tasks, DoUnlink(t)
  PROVE  \E id, room, ring, more : Unlinked(t, id, room, ring, more)
<1>1. PICK a \in Ringings : a = Head(work[t]) /\ a.at = "unlink"
  BY Performing, AccessKinds DEF DoUnlink
<1>2. a.id \in Messages /\ a.room \in Rooms /\ a = Unlink(a.id, a.room)
  BY <1>1, Forms
<1>3. PICK left_ : left_ = IF rings[a.room] = None THEN <<>>
                           ELSE Kept(rings[a.room], Messages \ {a.id})
  OBVIOUS
<1>4. PICK ring, more :
        /\ ring = (IF rings[a.room] = None THEN None ELSE left_)
        /\ more = IF rings[a.room] # None /\ left_ = <<>> THEN <<Unring(a.room)>> ELSE <<>>
  OBVIOUS
<1>5. /\ rings[a.room] \in Seq(Messages) \cup {None}
      /\ rings[a.room] # None => Len(rings[a.room]) <= setup.messageCapacity
      /\ rings \in [Rooms -> Seq(Messages) \cup {None}]
  BY <1>2 DEF TypeOK
<1>6. rings[a.room] # None =>
        /\ ring \in Seq(Messages) /\ Range(ring) = Range(rings[a.room]) \ {a.id}
        /\ Len(ring) <= setup.messageCapacity
  <2> SUFFICES ASSUME rings[a.room] # None
               PROVE  /\ ring \in Seq(Messages) /\ Range(ring) = Range(rings[a.room]) \ {a.id}
                      /\ Len(ring) <= setup.messageCapacity
    OBVIOUS
  <2>1. PICK q \in Seq(Messages) : q = rings[a.room]
    BY <1>5
  <2>2. ring = Kept(q, Messages \ {a.id})
    BY <1>3, <1>4, <2>1
  <2>3. Kept(q, Messages \ {a.id}) \in Seq(Messages \cap (Messages \ {a.id}))
        /\ Len(Kept(q, Messages \ {a.id})) <= Len(q)
    BY KeptType
  <2>4. ring \in Seq(Messages)
    <3>1. Messages \cap (Messages \ {a.id}) \subseteq Messages
      OBVIOUS
    <3> QED BY <2>2, <2>3, <3>1, SeqMonotonic
  <2>5. Range(ring) = Range(q) \cap (Messages \ {a.id}) /\ Range(q) \subseteq Messages
    <3>1. Range(q) \subseteq Messages
      BY ElementOfSeq, LenProperties DEF Range
    <3> QED BY <2>2, <3>1, KeptElements
  <2>6. Len(ring) <= setup.messageCapacity
    <3>1. Len(ring) \in Nat /\ Len(q) \in Nat
      BY <2>4, LenProperties
    <3> QED BY <1>5, <2>1, <2>2, <2>3, <3>1, SetupFacts
  <2> QED BY <2>1, <2>4, <2>5, <2>6
<1>7. more \in Seq(Accesses)
  <2>1. PICK b \in Accesses : b = Unring(a.room)
    BY <1>2, Made
  <2>2. <<b>> \in Seq(Accesses) /\ <<>> \in Seq(Accesses)
    BY Singles
  <2> QED BY <1>4, <2>1, <2>2
<1>8. rings' = [rings EXCEPT ![a.room] = ring] /\ Then(t, more) /\ work[t] # <<>>
      /\ UNCHANGED <<docs, index, order, current, messages>>
  <2>1. /\ rings' = [rings EXCEPT ![a.room] = IF rings[a.room] = None THEN None ELSE left_]
        /\ Then(t, Only(rings[a.room] # None /\ left_ = <<>>, Unring(a.room))) /\ work[t] # <<>>
        /\ UNCHANGED <<docs, index, order, current, messages>>
    BY <1>1, <1>2, <1>3, <1>5 DEF DoUnlink, Performs
  <2>2. Only(rings[a.room] # None /\ left_ = <<>>, Unring(a.room)) = more
    BY <1>4 DEF Only
  <2> QED BY <1>4, <2>1, <2>2
<1>9. Advances(t, more)
  BY <1>7, <1>8, Advancing
<1>10. RingPut(a.room, ring)
  <2>1. setup' = setup
    BY <1>9 DEF Advances
  <2>2. ring \in Seq(Messages) \cup {None} /\ (ring # None => Len(ring) <= setup.messageCapacity)
    BY <1>4, <1>6
  <2> QED BY <1>2, <1>8, <2>1, <2>2, PuttingRing
<1>11. rings[a.room] # None => ring = Kept(rings[a.room], Messages \ {a.id}) /\ ring = left_
  BY <1>3, <1>4
<1>12. Unlinked(t, a.id, a.room, ring, more)
  BY <1>1, <1>2, <1>4, <1>5, <1>6, <1>7, <1>8, <1>9, <1>10, <1>11 DEF Unlinked
<1> QED BY <1>12

Unringed(t, room) ==
  /\ work[t] # <<>> /\ Head(work[t]) = Unring(room) /\ room \in Rooms
  /\ RingPut(room, IF rings[room] = <<>> THEN None ELSE rings[room])
  /\ Advances(t, <<>>)
  /\ UNCHANGED <<docs, index, order, current, messages>>

LEMMA Unringing ==
  ASSUME TypeOK, NEW t \in Tasks, DoUnring(t)
  PROVE  \E room : Unringed(t, room)
<1>1. PICK a \in Ringings : a = Head(work[t]) /\ a.at = "unring"
  BY Performing, AccessKinds DEF DoUnring
<1>2. a.id \in Rooms /\ a = Unring(a.id)
  BY <1>1, Forms
<1>3. PICK ring : ring = IF rings[a.id] = <<>> THEN None ELSE rings[a.id]
  OBVIOUS
<1>4. /\ ring \in Seq(Messages) \cup {None} /\ (ring # None => Len(ring) <= setup.messageCapacity)
      /\ rings \in [Rooms -> Seq(Messages) \cup {None}]
  BY <1>2, <1>3 DEF TypeOK
<1>5. rings' = [rings EXCEPT ![a.id] = ring] /\ Then(t, <<>>) /\ work[t] # <<>>
      /\ UNCHANGED <<docs, index, order, current, messages>>
  BY <1>1, <1>2, <1>3, <1>4 DEF DoUnring, Performs
<1>6. Advances(t, <<>>)
  BY <1>5, Advancing, Singles
<1>7. RingPut(a.id, ring)
  <2>1. setup' = setup
    BY <1>6 DEF Advances
  <2> QED BY <1>2, <1>4, <1>5, <2>1, PuttingRing
<1>8. Unringed(t, a.id)
  BY <1>1, <1>2, <1>3, <1>5, <1>6, <1>7 DEF Unringed
<1> QED BY <1>8

RingDropped(t, room, more) ==
  /\ work[t] # <<>> /\ Head(work[t]) = DropRing(room) /\ room \in Rooms
  /\ Ring(room) \in Seq(Messages)
  /\ RingPut(room, None)
  /\ more \in Seq(Accesses) /\ Len(more) = Len(Ring(room))
  /\ \A i \in 1 .. Len(more) : more[i] = Purge(Ring(room)[i])
  /\ Advances(t, more)
  /\ UNCHANGED <<docs, index, order, current, messages>>

LEMMA RingDropping ==
  ASSUME TypeOK, NEW t \in Tasks, DoDropRing(t)
  PROVE  \E room, more : RingDropped(t, room, more)
<1>1. PICK a \in Ringings : a = Head(work[t]) /\ a.at = "dropring"
  BY Performing, AccessKinds DEF DoDropRing
<1>2. a.id \in Rooms /\ a = DropRing(a.id)
  BY <1>1, Forms
<1>3. PICK q : q = Ring(a.id)
  OBVIOUS
<1>4. q \in Seq(Messages)
  <2>1. rings[a.id] \in Seq(Messages) \cup {None}
    BY <1>2 DEF TypeOK
  <2> QED BY <1>3, <2>1, Singles DEF Ring
<1>5. PICK more : more = [i \in DOMAIN q |-> Purge(q[i])]
  OBVIOUS
<1>6. more \in Seq(Accesses) /\ Len(more) = Len(q) /\ \A i \in 1 .. Len(q) : more[i] = Purge(q[i])
  <2>1. Len(q) \in Nat /\ DOMAIN q = 1 .. Len(q) /\ \A i \in 1 .. Len(q) : q[i] \in Messages
    BY <1>4, ElementOfSeq, LenProperties
  <2>2. \A i \in 1 .. Len(q) : Purge(q[i]) \in Accesses
    BY <2>1, Made
  <2>3. more \in [1 .. Len(q) -> Accesses]
    BY <1>5, <2>1, <2>2
  <2>4. more \in Seq(Accesses) /\ Len(more) = Len(q)
    BY <2>1, <2>3, FunctionSeq
  <2> QED BY <1>5, <2>1, <2>4
<1>7. rings' = [rings EXCEPT ![a.id] = None] /\ Then(t, more) /\ work[t] # <<>>
      /\ UNCHANGED <<docs, index, order, current, messages>>
  <2>1. rings[a.id] = None => more = <<>>
    <3> SUFFICES ASSUME rings[a.id] = None PROVE more = <<>>
      OBVIOUS
    <3>1. q = <<>>
      BY <1>3 DEF Ring
    <3>2. DOMAIN q = {}
      BY <3>1
    <3> QED BY <1>5, <3>2
  <2>2. rings[a.id] # None => q = rings[a.id]
    BY <1>3 DEF Ring
  <2> QED BY <1>1, <1>5, <2>1, <2>2 DEF DoDropRing, Performs, Each
<1>8. Advances(t, more)
  BY <1>6, <1>7, Advancing
<1>9. RingPut(a.id, None)
  <2>1. setup' = setup
    BY <1>8 DEF Advances
  <2> QED BY <1>2, <1>7, <2>1, PuttingRing
<1>10. RingDropped(t, a.id, more)
  BY <1>1, <1>2, <1>3, <1>4, <1>6, <1>7, <1>8, <1>9 DEF RingDropped
<1> QED BY <1>10

Cleared(t, map) ==
  /\ work[t] # <<>> /\ Head(work[t]) = Clear(map)
  /\ \A k \in Kinds : docs'[k] = IF map = <<"docs", k>> THEN [i \in IdsOf(k) |-> None] ELSE docs[k]
  /\ \A k \in {"room", "user"} :
       index'[k] = IF map = <<"index", k>> THEN [n \in Names |-> None] ELSE index[k]
  /\ order' = IF map = <<"order">> THEN <<>> ELSE order
  /\ current' = IF map = <<"current">> THEN None ELSE current
  /\ messages' = IF map = <<"messages">> THEN [m \in Messages |-> None] ELSE messages
  /\ rings' = IF map = <<"rings">> THEN [r \in Rooms |-> None] ELSE rings
  /\ StoreOK'
  /\ Advances(t, <<>>)

LEMMA ClearingMap ==
  ASSUME TypeOK, NEW t \in Tasks, DoClear(t)
  PROVE  \E map : Cleared(t, map)
<1>1. PICK a \in Clears : a = Head(work[t])
  BY Performing, AccessKinds DEF DoClear
<1>2. a = Clear(a.map)
  BY Forms
<1>3. PICK map : map = a.map
  OBVIOUS
<1>4. Then(t, <<>>) /\ work[t] # <<>>
  BY DEF DoClear, Performs
<1>5. Advances(t, <<>>)
  BY <1>4, Advancing, Singles
<1>6. setup' = setup /\ StoreOK
  BY <1>5, TypeParts DEF Advances
<1>7. /\ docs' = [k \in Kinds |-> IF map = <<"docs", k>>
                                  THEN [i \in IdsOf(k) |-> None] ELSE docs[k]]
      /\ index' = [k \in {"room", "user"} |-> IF map = <<"index", k>>
                                               THEN [n \in Names |-> None] ELSE index[k]]
      /\ order' = IF map = <<"order">> THEN <<>> ELSE order
      /\ current' = IF map = <<"current">> THEN None ELSE current
      /\ messages' = IF map = <<"messages">> THEN [m \in Messages |-> None] ELSE messages
      /\ rings' = IF map = <<"rings">> THEN [r \in Rooms |-> None] ELSE rings
  BY <1>1, <1>3 DEF DoClear
<1>8. DocsOK'
  <2>1. \A k \in Kinds : [i \in IdsOf(k) |-> None]
           \in [IdsOf(k) -> IF Wants(k) THEN Documents \cup {None} ELSE {None}]
    OBVIOUS
  <2>2. \A k \in Kinds :
           docs'[k] \in [IdsOf(k) -> IF Wants(k) THEN Documents \cup {None} ELSE {None}]
    BY <1>6, <1>7, <2>1 DEF StoreOK, DocsOK
  <2> QED BY <1>6, <1>7, <2>2 DEF DocsOK, Wants
<1>9. IndexOK'
  BY <1>6, <1>7 DEF StoreOK, IndexOK
<1>10. OrderOK' /\ CurrentOK'
  BY <1>6, <1>7 DEF StoreOK, OrderOK, CurrentOK, Wants
<1>11. MessagesOK'
  BY <1>6, <1>7 DEF StoreOK, MessagesOK, Wants
<1>12. RingsOK'
  BY <1>6, <1>7 DEF StoreOK, RingsOK
<1>13. Cleared(t, map)
  BY <1>1, <1>2, <1>3, <1>4, <1>5, <1>7, <1>8, <1>9, <1>10, <1>11, <1>12 DEF Cleared, StoreOK
<1> QED BY <1>13

(***************************************************************************)
(* What an operation starts with.                                          *)
(***************************************************************************)
LEMMA OperationForms ==
  ASSUME NEW op \in Operations
  PROVE  \/ /\ op.op = "store" /\ op.kind \in {"room", "subscription"} /\ op.id \in Rooms
            /\ op.doc \in Documents /\ op.mode \in Modes
         \/ op.op = "user" /\ op.id \in Users /\ op.doc \in Documents /\ op.mode \in Modes
         \/ op.op = "login" /\ op.id \in Users /\ op.doc \in Documents
         \/ op.op = "remove" /\ op.kind \in Kinds /\ op.id \in IdsOf(op.kind)
         \/ /\ op.op = "message" /\ op.id \in Messages /\ op.room \in Rooms
            /\ op.doc \in Documents /\ op.mode \in Modes
         \/ op.op = "removeMessage" /\ op.id \in Messages
         \/ op.op = "removeMessageIn" /\ op.id \in Messages /\ op.room \in Rooms
         \/ op.op = "clear"
<1>1. CASE op \in [op : {"store"}, kind : {"room", "subscription"}, id : Rooms,
                   doc : Documents, mode : Modes]
  BY <1>1
<1>2. CASE op \in [op : {"user"}, id : Users, doc : Documents, mode : Modes]
  BY <1>2
<1>3. CASE op \in [op : {"login"}, id : Users, doc : Documents]
  BY <1>3
<1>4. CASE op \in [op : {"remove"}, kind : {"room", "subscription"}, id : Rooms]
  BY <1>4 DEF Kinds, IdsOf
<1>5. CASE op \in [op : {"remove"}, kind : {"user"}, id : Users]
  BY <1>5 DEF Kinds, IdsOf
<1>6. CASE op \in [op : {"message"}, id : Messages, room : Rooms, doc : Documents, mode : Modes]
  BY <1>6
<1>7. CASE op \in [op : {"removeMessage"}, id : Messages]
  BY <1>7
<1>8. CASE op \in [op : {"removeMessageIn"}, id : Messages, room : Rooms]
  BY <1>8
<1>9. CASE op \in [op : {"clear"}]
  BY <1>9
<1> QED BY <1>1, <1>2, <1>3, <1>4, <1>5, <1>6, <1>7, <1>8, <1>9 DEF Operations

LEMMA ClearFacts ==
  /\ Len(Maps) = 9 /\ DOMAIN Maps = 1 .. 9
  /\ \A n \in 0 .. 8 : /\ RestOfClear(n) \in Seq(Clears) /\ Len(RestOfClear(n)) = 9 - n
                       /\ \A i \in 1 .. 9 - n : RestOfClear(n)[i] = Clear(Maps[n + i])
  /\ Clears \subseteq Accesses
<1>1. Len(Maps) = 9 /\ DOMAIN Maps = 1 .. 9
  BY DEF Maps
<1>2. ASSUME NEW n \in 0 .. 8
      PROVE  /\ RestOfClear(n) \in Seq(Clears) /\ Len(RestOfClear(n)) = 9 - n
             /\ \A i \in 1 .. 9 - n : RestOfClear(n)[i] = Clear(Maps[n + i])
  <2>1. PICK r : r = RestOfClear(n)
    OBVIOUS
  <2>2. r = [i \in 1 .. 9 - n |-> Clear(Maps[n + i])] /\ 9 - n \in Nat
    BY <1>1, <2>1 DEF RestOfClear
  <2>3. \A i \in 1 .. 9 - n : Clear(Maps[n + i]) \in Clears
    <3>1. \A i \in 1 .. 9 - n : n + i \in DOMAIN Maps
      BY <1>1
    <3> QED BY <3>1 DEF Clears
  <2>4. r \in [1 .. 9 - n -> Clears]
    BY <2>2, <2>3
  <2>5. r \in Seq(Clears) /\ Len(r) = 9 - n
    BY <2>2, <2>4, FunctionSeq
  <2> QED BY <2>1, <2>2, <2>5
<1> QED BY <1>1, <1>2 DEF Accesses

Started(op, p) ==
  \/ p = <<>>
  \/ /\ op.op = "store" /\ op.kind \in {"room", "subscription"} /\ op.id \in Rooms
     /\ p = <<Upsert(op.kind, op.id, op.doc, op.mode)>>
  \/ /\ op.op = "user" /\ op.id \in Users
     /\ \/ p = <<Upsert("user", op.id, op.doc, op.mode)>> /\ ~ Wants("current_user")
        \/ p = <<Refresh("iscurrent", op.id, op.doc, op.mode)>> /\ ~ Wants("user")
        \/ p = <<Upsert("user", op.id, op.doc, op.mode),
                 Refresh("iscurrent", op.id, op.doc, op.mode)>>
  \/ /\ op.op = "login" /\ op.id \in Users
     /\ \/ p = <<Upsert("user", op.id, op.doc, "Merge")>> /\ ~ Wants("current_user")
        \/ p = <<Refresh("login", op.id, op.doc, "Merge")>> /\ ~ Wants("user")
        \/ p = <<Refresh("login", op.id, op.doc, "Merge"),
                 Upsert("user", op.id, op.doc, "Merge")>>
  \/ /\ op.op = "remove" /\ op.kind \in Kinds /\ op.id \in IdsOf(op.kind)
     /\ p = <<DropDoc(op.kind, op.id, op.kind = "user")>>
  \/ /\ op.op = "message" /\ op.id \in Messages /\ op.room \in Rooms
     /\ \/ p = <<Take(op.id, op.room)>>
        \/ p = <<StoreMessage(op.id, op.room, op.doc, MessageMode(op))>>
  \/ op.op = "removeMessage" /\ op.id \in Messages /\ p = <<Take(op.id, None)>>
  \/ /\ op.op = "removeMessageIn" /\ op.id \in Messages /\ op.room \in Rooms
     /\ p = <<Take(op.id, op.room)>>
  \/ op.op = "clear" /\ p = RestOfClear(0)

LEMMA Starting ==
  ASSUME TypeOK, NEW op \in setup.operations
  PROVE  Program(op) \in Seq(Accesses) /\ Started(op, Program(op))
<1>1. op \in Operations /\ (op.op = "message" /\ IsTombstone(op.doc) => "md" \notin DOMAIN op.doc)
  BY SetupAssumption DEF TypeOK
<1>2. PICK p : p = Program(op)
  OBVIOUS
<1>3. \A a \in Accesses : <<>> \in Seq(Accesses) /\ <<a>> \in Seq(Accesses)
  BY Singles
<1>4. \A a, b \in Accesses : <<a, b>> \in Seq(Accesses)
  BY Singles
<1>5. "user" \in Kinds /\ IdsOf("user") = Users /\ "Merge" \in Modes /\ "Replace" \in Modes
  BY DEF Kinds, IdsOf, Modes
<1>6. CASE op.op = "store" /\ op.kind \in {"room", "subscription"} /\ op.id \in Rooms
            /\ op.doc \in Documents /\ op.mode \in Modes
  <2>1. PICK a : a = Upsert(op.kind, op.id, op.doc, op.mode)
    OBVIOUS
  <2>2. p = IF Wants(op.kind) THEN <<a>> ELSE <<>>
    BY <1>2, <1>6, <2>1 DEF Program, Only
  <2>3. Wants(op.kind) => a \in Accesses
    BY <1>6, <2>1, Made DEF Kinds, IdsOf
  <2>4. p \in Seq(Accesses)
    BY <1>3, <2>2, <2>3, Singles
  <2> QED BY <1>2, <1>6, <2>1, <2>2, <2>4 DEF Started
<1>7. CASE op.op = "user" /\ op.id \in Users /\ op.doc \in Documents /\ op.mode \in Modes
  <2>1. PICK a, b : /\ a = Upsert("user", op.id, op.doc, op.mode)
                    /\ b = Refresh("iscurrent", op.id, op.doc, op.mode)
    OBVIOUS
  <2>2. p = Only(Wants("user"), a) \o Only(Wants("current_user"), b)
    BY <1>2, <1>7, <2>1 DEF Program, StoreUser, RefreshCurrent
  <2>3. (Wants("user") => a \in Accesses) /\ (Wants("current_user") => b \in Accesses)
    BY <1>5, <1>7, <2>1, Made
  <2>4. \/ p = <<>>
        \/ p = <<a>> /\ Wants("user") /\ ~ Wants("current_user")
        \/ p = <<b>> /\ Wants("current_user") /\ ~ Wants("user")
        \/ p = <<a, b>> /\ Wants("user") /\ Wants("current_user")
    <3>1. PICK c \in BOOLEAN, d \in BOOLEAN : (c <=> Wants("user")) /\ (d <=> Wants("current_user"))
      OBVIOUS
    <3>2. PICK s, r : s = Only(c, a) /\ r = Only(d, b) /\ p = s \o r /\ (c => a \in Accesses)
            /\ (d => b \in Accesses)
      BY <2>2, <2>3, <3>1 DEF Only
    <3>3. /\ c /\ d => p = <<a, b>>
          /\ c /\ ~ d => p = <<a>>
          /\ d /\ ~ c => p = <<b>>
          /\ ~ c /\ ~ d => p = <<>>
      <4>1. c \in BOOLEAN /\ d \in BOOLEAN /\ s = Only(c, a) /\ r = Only(d, b) /\ p = s \o r
        BY <3>1, <3>2
      <4> QED BY <4>1, OnlyTwo
    <3> QED BY <3>1, <3>3
  <2>5. p \in Seq(Accesses)
    <3>1. PICK c \in BOOLEAN, d \in BOOLEAN : (c <=> Wants("user")) /\ (d <=> Wants("current_user"))
      OBVIOUS
    <3>2. PICK s, r : s = Only(c, a) /\ r = Only(d, b) /\ p = s \o r /\ (c => a \in Accesses)
            /\ (d => b \in Accesses)
      BY <2>2, <2>3, <3>1 DEF Only
    <3> QED BY <3>1, <3>2, OnlyTwoIn
  <2> QED BY <1>2, <1>7, <2>1, <2>4, <2>5 DEF Started
<1>8. CASE op.op = "login" /\ op.id \in Users /\ op.doc \in Documents
  <2>1. PICK a, b : /\ a = Upsert("user", op.id, op.doc, "Merge")
                    /\ b = Refresh("login", op.id, op.doc, "Merge")
    OBVIOUS
  <2>2. p = Only(Wants("current_user"), b) \o Only(Wants("user"), a)
    BY <1>2, <1>8, <2>1 DEF Program, StoreUser
  <2>3. (Wants("user") => a \in Accesses) /\ (Wants("current_user") => b \in Accesses)
    BY <1>5, <1>8, <2>1, Made
  <2>4. \/ p = <<>>
        \/ p = <<a>> /\ Wants("user") /\ ~ Wants("current_user")
        \/ p = <<b>> /\ Wants("current_user") /\ ~ Wants("user")
        \/ p = <<b, a>> /\ Wants("user") /\ Wants("current_user")
    <3>1. PICK c \in BOOLEAN, d \in BOOLEAN : (c <=> Wants("current_user")) /\ (d <=> Wants("user"))
      OBVIOUS
    <3>2. PICK s, r : s = Only(c, b) /\ r = Only(d, a) /\ p = s \o r /\ (c => b \in Accesses)
            /\ (d => a \in Accesses)
      BY <2>2, <2>3, <3>1 DEF Only
    <3>3. /\ c /\ d => p = <<b, a>>
          /\ c /\ ~ d => p = <<b>>
          /\ d /\ ~ c => p = <<a>>
          /\ ~ c /\ ~ d => p = <<>>
      BY <3>1, <3>2, OnlyTwo
    <3> QED BY <3>1, <3>3
  <2>5. p \in Seq(Accesses)
    <3>1. PICK c \in BOOLEAN, d \in BOOLEAN : (c <=> Wants("current_user")) /\ (d <=> Wants("user"))
      OBVIOUS
    <3>2. PICK s, r : s = Only(c, b) /\ r = Only(d, a) /\ p = s \o r /\ (c => b \in Accesses)
            /\ (d => a \in Accesses)
      BY <2>2, <2>3, <3>1 DEF Only
    <3> QED BY <3>1, <3>2, OnlyTwoIn
  <2> QED BY <1>2, <1>8, <2>1, <2>4, <2>5 DEF Started
<1>9. CASE op.op = "remove" /\ op.kind \in Kinds /\ op.id \in IdsOf(op.kind)
  <2>1. PICK a : a = DropDoc(op.kind, op.id, op.kind = "user")
    OBVIOUS
  <2>2. p = <<a>>
    BY <1>2, <1>9, <2>1 DEF Program
  <2>3. a \in Accesses
    <3>1. PICK forget \in BOOLEAN : forget <=> op.kind = "user"
      OBVIOUS
    <3>2. a = DropDoc(op.kind, op.id, forget)
      BY <2>1, <3>1 DEF DropDoc
    <3> QED BY <1>9, <3>1, <3>2, Made
  <2> QED BY <1>2, <1>3, <1>9, <2>1, <2>2, <2>3 DEF Started
<1>10. CASE op.op = "message" /\ op.id \in Messages /\ op.room \in Rooms
            /\ op.doc \in Documents /\ op.mode \in Modes
  <2>1. PICK a, b : /\ a = Take(op.id, op.room)
                    /\ b = StoreMessage(op.id, op.room, op.doc, MessageMode(op))
    OBVIOUS
  <2>2. \/ p = <<>>
        \/ p = <<a>>
        \/ p = <<b>> /\ Wants("message") /\ setup.messageCapacity # 0
    BY <1>2, <1>10, <2>1 DEF Program, RemoveMessageIn
  <2>3. a \in Accesses
    BY <1>10, <2>1, Made
  <2>4. Wants("message") /\ setup.messageCapacity # 0 => b \in Accesses
    <3>1. /\ MessageMode(op) \in Modes
          /\ IsTombstone(op.doc) => MessageMode(op) = "Replace" /\ "md" \notin DOMAIN op.doc
      BY <1>1, <1>5, <1>10 DEF MessageMode
    <3>2. setup.messageCapacity # 0 => setup.messageCapacity > 0
      BY SetupFacts
    <3>3. \A id \in Messages, room \in Rooms, doc \in Documents, mode \in Modes :
            Wants("message") /\ setup.messageCapacity > 0
              /\ (IsTombstone(doc) => mode = "Replace" /\ "md" \notin DOMAIN doc) =>
            StoreMessage(id, room, doc, mode) \in Accesses
      BY Made
    <3> QED BY <1>10, <2>1, <3>1, <3>2, <3>3
  <2>5. p \in Seq(Accesses)
    <3>1. PICK X : X = Accesses
      OBVIOUS
    <3>2. <<>> \in Seq(X) /\ \A x \in X : <<x>> \in Seq(X)
      BY Singles
    <3>3. p = <<>> \/ \E x \in X : p = <<x>>
      BY <2>2, <2>3, <2>4, <3>1
    <3> QED BY <3>1, <3>2, <3>3
  <2> QED BY <1>2, <1>10, <2>1, <2>2, <2>5 DEF Started
<1>11. CASE op.op = "removeMessage" /\ op.id \in Messages
  <2>1. PICK a \in Accesses : a = Take(op.id, None)
    BY <1>11, Made
  <2>2. p = <<a>>
    BY <1>2, <1>11, <2>1 DEF Program
  <2> QED BY <1>2, <1>3, <1>11, <2>1, <2>2 DEF Started
<1>12. CASE op.op = "removeMessageIn" /\ op.id \in Messages /\ op.room \in Rooms
  <2>1. PICK a \in Accesses : a = Take(op.id, op.room)
    BY <1>12, Made
  <2>2. p = <<a>>
    BY <1>2, <1>12, <2>1 DEF Program, RemoveMessageIn
  <2> QED BY <1>2, <1>3, <1>12, <2>1, <2>2 DEF Started
<1>13. CASE op.op = "clear"
  <2>1. p = [i \in DOMAIN Maps |-> Clear(Maps[i])]
    BY <1>2, <1>13 DEF Program, Each
  <2>2. RestOfClear(0) = [i \in 1 .. 9 |-> Clear(Maps[i])]
    <3>1. RestOfClear(0) = [i \in 1 .. 9 - 0 |-> Clear(Maps[0 + i])]
      BY ClearFacts, Zenon DEF RestOfClear
    <3>2. 9 - 0 = 9 /\ \A i \in 1 .. 9 : 0 + i = i
      OBVIOUS
    <3> QED BY <3>1, <3>2
  <2>3. p = RestOfClear(0)
    BY <2>1, <2>2, ClearFacts
  <2>4. p \in Seq(Accesses)
    <3>1. RestOfClear(0) \in Seq(Clears) /\ Clears \subseteq Accesses
      <4>1. 0 \in 0 .. 8
        OBVIOUS
      <4> QED BY <4>1, ClearFacts
    <3> QED BY <2>3, <3>1, SeqMonotonic
  <2> QED BY <1>2, <1>13, <2>3, <2>4 DEF Started
<1> QED BY <1>1, <1>6, <1>7, <1>8, <1>9, <1>10, <1>11, <1>12, <1>13, OperationForms

Began(t, op, p, about) ==
  /\ work[t] = <<>> /\ left > 0 /\ op \in setup.operations
  /\ p \in Seq(Accesses) /\ Started(op, p)
  /\ about = (IF op.op = "clear" THEN Ids ELSE {op.id}) /\ about \subseteq Ids
  /\ work' \in [Tasks -> Seq(Accesses)] /\ holds' \in [Tasks -> SUBSET Ids]
  /\ work'[t] = p /\ holds'[t] = (IF p = <<>> THEN {} ELSE about)
  /\ \A s \in Tasks \ {t} : work'[s] = work[s] /\ holds'[s] = holds[s]
  /\ raced' \in SUBSET Ids /\ raced \subseteq raced' /\ Contended(work', holds') \subseteq raced'
  /\ left' = left - 1
  /\ setup' = setup /\ Accesses' = Accesses /\ UNCHANGED <<store, shared>>

LEMMA Beginning ==
  ASSUME TypeOK, NEW t \in Tasks, Begin(t)
  PROVE  \E op, p, about : Began(t, op, p, about)
<1>1. PICK op \in setup.operations :
        Schedule(t, Program(op), IF op.op = "clear" THEN Ids ELSE {op.id})
  BY DEF Begin
<1>2. PICK p, about : p = Program(op) /\ about = IF op.op = "clear" THEN Ids ELSE {op.id}
  OBVIOUS
<1>3. p \in Seq(Accesses) /\ Started(op, p)
  BY <1>2, Starting
<1>4. about \subseteq Ids
  <2>1. op \in Operations
    BY SetupFacts
  <2>2. op.op # "clear" => op.id \in Ids
    BY <2>1, OperationForms DEF Ids, IdsOf
  <2> QED BY <1>2, <2>2
<1>5. work \in [Tasks -> Seq(Accesses)] /\ holds \in [Tasks -> SUBSET Ids] /\ raced \subseteq Ids
  BY DEF TypeOK
<1>6. /\ work' = [work EXCEPT ![t] = p]
      /\ holds' = [holds EXCEPT ![t] = IF p = <<>> THEN {} ELSE about]
      /\ raced' = raced \cup Contended(work', holds') /\ setup' = setup
  BY <1>1, <1>2 DEF Schedule
<1>7. Contended(work', holds') \subseteq Ids
  BY DEF Contended
<1>8. Accesses' = Accesses
  BY <1>6, AccessesStay
<1>9. Began(t, op, p, about)
  BY <1>2, <1>3, <1>4, <1>5, <1>6, <1>7, <1>8 DEF Began, Begin
<1> QED BY <1>9

(* Upserts, drops and removals are what programs begin with, or the nine clears. *)
LEMMA StartedWith ==
  ASSUME NEW op, NEW p, Started(op, p)
  PROVE  \A a \in Range(p) :
           a.at \in {"upsert", "iscurrent", "login", "drop", "take", "message", "clear"}
<1>1. \A k, i, d, m : /\ Upsert(k, i, d, m).at = "upsert" /\ Refresh(k, i, d, m).at = k
                      /\ StoreMessage(k, i, d, m).at = "message"
  BY DEF Upsert, Refresh, StoreMessage
<1>2. \A k, i, f : DropDoc(k, i, f).at = "drop" /\ Take(k, i).at = "take" /\ Clear(k).at = "clear"
  BY DEF DropDoc, Take, Clear
<1>3. \A a : Range(<<a>>) = {a} /\ \A b : Range(<<a, b>>) = {a, b}
  BY DEF Range
<1>4. Range(<<>>) = {}
  BY DEF Range
<1>5. \A a \in Range(RestOfClear(0)) : a.at = "clear"
  <2>1. RestOfClear(0) \in Seq(Clears) /\ \A a \in Clears : a.at = "clear"
    <3>1. 0 \in 0 .. 8
      OBVIOUS
    <3> QED BY <3>1, ClearFacts, Forms
  <2> QED BY <2>1, ElementOfSeq, LenProperties DEF Range
<1>6. CASE p = <<>>
  BY <1>4, <1>6
<1>7. CASE p = RestOfClear(0)
  BY <1>5, <1>7
<1>8. CASE \E a : p = <<a>> /\ a.at \in {"upsert", "iscurrent", "login", "drop", "take", "message"}
  BY <1>3, <1>8
<1>9. CASE \E a, b : /\ p = <<a, b>>
                     /\ a.at \in {"upsert", "login"} /\ b.at \in {"upsert", "iscurrent"}
  BY <1>3, <1>9
<1>10. ASSUME op.op = "user",
              p = <<Upsert("user", op.id, op.doc, op.mode),
                    Refresh("iscurrent", op.id, op.doc, op.mode)>>
       PROVE  \E a, b : /\ p = <<a, b>>
                        /\ a.at \in {"upsert", "login"} /\ b.at \in {"upsert", "iscurrent"}
  BY <1>1, <1>10
<1>11. ASSUME op.op = "login",
              p = <<Refresh("login", op.id, op.doc, "Merge"),
                 Upsert("user", op.id, op.doc, "Merge")>>
       PROVE  \E a, b : /\ p = <<a, b>>
                        /\ a.at \in {"upsert", "login"} /\ b.at \in {"upsert", "iscurrent"}
  BY <1>1, <1>11
<1>12. ASSUME NEW a, p = <<a>>,
              \/ a = Upsert(op.kind, op.id, op.doc, op.mode)
              \/ a = Upsert("user", op.id, op.doc, op.mode)
              \/ a = Upsert("user", op.id, op.doc, "Merge")
              \/ a = Refresh("iscurrent", op.id, op.doc, op.mode)
              \/ a = Refresh("login", op.id, op.doc, "Merge")
              \/ a = DropDoc(op.kind, op.id, op.kind = "user")
              \/ a = Take(op.id, op.room) \/ a = Take(op.id, None)
              \/ a = StoreMessage(op.id, op.room, op.doc, MessageMode(op))
       PROVE  \E x : p = <<x>>
                /\ x.at \in {"upsert", "iscurrent", "login", "drop", "take", "message"}
  <2>1. a.at \in {"upsert", "iscurrent", "login", "drop", "take", "message"}
    BY <1>1, <1>2, <1>12
  <2> QED BY <1>12, <2>1
<1> QED BY <1>6, <1>7, <1>8, <1>9, <1>10, <1>11, <1>12, Zenon DEF Started

(***************************************************************************)
(* The two invariants every other rests on: types, and races noticed.      *)
(***************************************************************************)
Accessed(t) ==
  \/ \E kind, id, doc, mode, more : Upserted(t, kind, id, doc, mode, more)
  \/ \E kind, id, name : Unindexed(t, kind, id, name)
  \/ \E kind, id, name : Enindexed(t, kind, id, name)
  \/ \E kind, id, forget, more : Dropped(t, kind, id, forget, more)
  \/ \E id, over : Counted(t, id, over)
  \/ \E id, over, n, more : Noted(t, id, over, n, more)
  \/ \E id : Forgot(t, id)
  \/ \E id, doc, mode : LoggedIn(t, id, doc, mode)
  \/ \E id, doc, mode, more : Checked(t, id, doc, mode, more)
  \/ \E id, doc, mode : Refreshed(t, id, doc, mode)
  \/ \E id, room, doc, mode, new, more : Messaged(t, id, room, doc, mode, new, more)
  \/ \E id, room, ring, k, more : Linked(t, id, room, ring, k, more)
  \/ \E id : Purged(t, id)
  \/ \E id, asked, room, more : Took(t, id, asked, room, more)
  \/ \E id, room, ring, more : Unlinked(t, id, room, ring, more)
  \/ \E room : Unringed(t, room)
  \/ \E room, more : RingDropped(t, room, more)
  \/ \E map : Cleared(t, map)

LEMMA Accessing ==
  ASSUME TypeOK, NEW t \in Tasks, Access(t)
  PROVE  Accessed(t)
<1> USE DEF Accessed
<1>1. CASE DoUpsert(t)
  BY <1>1, Upserting, Zenon
<1>2. CASE DoUnindex(t)
  BY <1>2, Unindexing, Zenon
<1>3. CASE DoEnindex(t)
  BY <1>3, Enindexing, Zenon
<1>4. CASE DoDrop(t)
  BY <1>4, Dropping, Zenon
<1>5. CASE DoCount(t)
  BY <1>5, Counting, Zenon
<1>6. CASE DoNote(t)
  BY <1>6, Noting, Zenon
<1>7. CASE DoForget(t)
  BY <1>7, Forgetting, Zenon
<1>8. CASE DoLogin(t)
  BY <1>8, LoggingIn, Zenon
<1>9. CASE CheckCurrent(t)
  BY <1>9, Checking, Zenon
<1>10. CASE DoRefresh(t)
  BY <1>10, Refreshing, Zenon
<1>11. CASE DoStoreMessage(t)
  BY <1>11, Messaging, Zenon
<1>12. CASE DoLink(t)
  BY <1>12, LinkingIn, Zenon
<1>13. CASE DoPurge(t)
  BY <1>13, Purging, Zenon
<1>14. CASE DoTake(t)
  BY <1>14, Taking, Zenon
<1>15. CASE DoUnlink(t)
  BY <1>15, Unlinking, Zenon
<1>16. CASE DoUnring(t)
  BY <1>16, Unringing, Zenon
<1>17. CASE DoDropRing(t)
  BY <1>17, RingDropping, Zenon
<1>18. CASE DoClear(t)
  BY <1>18, ClearingMap, Zenon
<1> HIDE DEF Accessed
<1> QED BY <1>1, <1>2, <1>3, <1>4, <1>5, <1>6, <1>7, <1>8, <1>9, <1>10, <1>11, <1>12, <1>13,
           <1>14, <1>15, <1>16, <1>17, <1>18, Zenon DEF Access

LEMMA AccessTyped ==
  ASSUME TypeOK, NEW t \in Tasks, Accessed(t)
  PROVE  TypeOK' /\ \E more : Advances(t, more)
<1>1. StoreOK
  BY TypeParts
<1>2. ASSUME NEW kind, NEW id, NEW doc, NEW mode, NEW more, Upserted(t, kind, id, doc, mode, more)
      PROVE  StoreOK' /\ \E m : Advances(t, m)
  BY <1>1, <1>2, MapsStay DEF Upserted, Advances, StoreOK, DocPut
<1>3. ASSUME NEW kind, NEW id, NEW name, Unindexed(t, kind, id, name)
      PROVE  StoreOK' /\ \E m : Advances(t, m)
  BY <1>1, <1>3, MapsStay DEF Unindexed, Advances, StoreOK, NamePut
<1>4. ASSUME NEW kind, NEW id, NEW name, Enindexed(t, kind, id, name)
      PROVE  StoreOK' /\ \E m : Advances(t, m)
  BY <1>1, <1>4, MapsStay DEF Enindexed, Advances, StoreOK, NamePut
<1>5. ASSUME NEW kind, NEW id, NEW forget, NEW more, Dropped(t, kind, id, forget, more)
      PROVE  StoreOK' /\ \E m : Advances(t, m)
  BY <1>1, <1>5, MapsStay DEF Dropped, Advances, StoreOK, DocPut
<1>6. ASSUME NEW id, NEW over, Counted(t, id, over)
      PROVE  StoreOK' /\ \E m : Advances(t, m)
  BY <1>1, <1>6, MapsStay DEF Counted, Advances, StoreOK, store
<1>7. ASSUME NEW id, NEW over, NEW n, NEW more, Noted(t, id, over, n, more)
      PROVE  StoreOK' /\ \E m : Advances(t, m)
  BY <1>1, <1>7, MapsStay DEF Noted, Advances, StoreOK
<1>8. ASSUME NEW id, Forgot(t, id)
      PROVE  StoreOK' /\ \E m : Advances(t, m)
  BY <1>1, <1>8, MapsStay DEF Forgot, Advances, StoreOK
<1>9. ASSUME NEW id, NEW doc, NEW mode, LoggedIn(t, id, doc, mode)
      PROVE  StoreOK' /\ \E m : Advances(t, m)
  BY <1>1, <1>9, MapsStay DEF LoggedIn, Advances, StoreOK
<1>10. ASSUME NEW id, NEW doc, NEW mode, NEW more, Checked(t, id, doc, mode, more)
      PROVE  StoreOK' /\ \E m : Advances(t, m)
  BY <1>1, <1>10, MapsStay DEF Checked, Advances, StoreOK, store
<1>11. ASSUME NEW id, NEW doc, NEW mode, Refreshed(t, id, doc, mode)
      PROVE  StoreOK' /\ \E m : Advances(t, m)
  BY <1>1, <1>11, MapsStay DEF Refreshed, Advances, StoreOK
<1>12. ASSUME NEW id, NEW room, NEW doc, NEW mode, NEW new, NEW more,
              Messaged(t, id, room, doc, mode, new, more)
      PROVE  StoreOK' /\ \E m : Advances(t, m)
  BY <1>1, <1>12, MapsStay DEF Messaged, Advances, StoreOK, MessagePut
<1>13. ASSUME NEW id, NEW room, NEW ring, NEW k, NEW more, Linked(t, id, room, ring, k, more)
      PROVE  StoreOK' /\ \E m : Advances(t, m)
  BY <1>1, <1>13, MapsStay DEF Linked, Advances, StoreOK, RingPut
<1>14. ASSUME NEW id, Purged(t, id)
      PROVE  StoreOK' /\ \E m : Advances(t, m)
  BY <1>1, <1>14, MapsStay DEF Purged, Advances, StoreOK, MessagePut
<1>15. ASSUME NEW id, NEW asked, NEW room, NEW more, Took(t, id, asked, room, more)
      PROVE  StoreOK' /\ \E m : Advances(t, m)
  BY <1>1, <1>15, MapsStay DEF Took, Advances, StoreOK, MessagePut
<1>16. ASSUME NEW id, NEW room, NEW ring, NEW more, Unlinked(t, id, room, ring, more)
      PROVE  StoreOK' /\ \E m : Advances(t, m)
  BY <1>1, <1>16, MapsStay DEF Unlinked, Advances, StoreOK, RingPut
<1>17. ASSUME NEW room, Unringed(t, room)
      PROVE  StoreOK' /\ \E m : Advances(t, m)
  BY <1>1, <1>17, MapsStay DEF Unringed, Advances, StoreOK, RingPut
<1>18. ASSUME NEW room, NEW more, RingDropped(t, room, more)
      PROVE  StoreOK' /\ \E m : Advances(t, m)
  BY <1>1, <1>18, MapsStay DEF RingDropped, Advances, StoreOK, RingPut
<1>19. ASSUME NEW map, Cleared(t, map)
      PROVE  StoreOK' /\ \E m : Advances(t, m)
  BY <1>1, <1>19, MapsStay DEF Cleared, Advances, StoreOK
<1>20. StoreOK' /\ \E more : Advances(t, more)
  BY <1>2, <1>3, <1>4, <1>5, <1>6, <1>7, <1>8, <1>9, <1>10,
     <1>11, <1>12, <1>13, <1>14, <1>15, <1>16, <1>17, <1>18, <1>19, Zenon DEF Accessed
<1>21. WorkOK'
  BY <1>20, AdvancedWork
<1>22. (TypeOK <=> StoreOK /\ WorkOK)'
  BY TypeParts, PTL
<1> QED BY <1>20, <1>21, <1>22

LEMMA BeginTyped ==
  ASSUME TypeOK, NEW t \in Tasks, NEW op, NEW p, NEW about, Began(t, op, p, about)
  PROVE  TypeOK'
<1>1. StoreOK /\ WorkOK
  BY TypeParts
<1>2. StoreOK'
  BY <1>1, MapsStay DEF Began, StoreOK, store
<1>3. WorkOK'
  <2>1. left - 1 \in 0 .. MaxOperations
    BY <1>1, BoundAssumption DEF Began, WorkOK
  <2> QED BY <1>1, <2>1 DEF Began, WorkOK
<1>4. (TypeOK <=> StoreOK /\ WorkOK)'
  BY TypeParts, PTL
<1> QED BY <1>2, <1>3, <1>4

LEMMA InitTyped == Init => TypeOK
<1> SUFFICES ASSUME Init PROVE TypeOK
  OBVIOUS
<1>1. DocsOK /\ IndexOK
  BY DEF Init, DocsOK, IndexOK
<1>2. OrderOK /\ CurrentOK
  BY DEF Init, OrderOK, CurrentOK
<1>3. MessagesOK /\ RingsOK
  BY DEF Init, MessagesOK, RingsOK
<1>4. WorkOK
  <2>1. \A t \in Tasks : work[t] = <<>> /\ <<>> \in Seq(Accesses)
    BY DEF Init
  <2> QED BY <2>1, BoundAssumption DEF Init, WorkOK
<1> QED BY <1>1, <1>2, <1>3, <1>4, TypeParts DEF StoreOK

LEMMA StutterTyped == TypeOK /\ UNCHANGED vars => TypeOK'
<1> SUFFICES ASSUME TypeOK, UNCHANGED vars PROVE TypeOK'
  OBVIOUS
<1>1. StoreOK /\ WorkOK /\ setup' = setup
  BY TypeParts DEF vars
<1>2. StoreOK'
  BY <1>1, MapsStay DEF StoreOK, vars, store
<1>3. WorkOK'
  BY <1>1, AccessesStay DEF WorkOK, vars
<1>4. (TypeOK <=> StoreOK /\ WorkOK)'
  BY TypeParts, PTL
<1> QED BY <1>2, <1>3, <1>4

(* A step is an operation begun, an access made, or nothing. *)
LEMMA Steps ==
  ASSUME TypeOK, [Next]_vars
  PROVE  \/ \E t \in Tasks : \E op, p, about : Began(t, op, p, about)
         \/ \E t \in Tasks : Accessed(t)
         \/ UNCHANGED vars
<1>1. ASSUME NEW t \in Tasks, Begin(t) PROVE \E op, p, about : Began(t, op, p, about)
  BY <1>1, Beginning
<1>2. ASSUME NEW t \in Tasks, Access(t) PROVE Accessed(t)
  BY <1>2, Accessing
<1> QED BY <1>1, <1>2, Zenon DEF Next

(* TypeOK: no access leaves a map or a program ill-typed, and no entity of a kind   *)
(* the configuration does not want is ever stored.                                  *)
THEOREM CacheTyped == Spec => []TypeOK
<1>1. TypeOK /\ [Next]_vars => TypeOK'
  <2> SUFFICES ASSUME TypeOK, [Next]_vars PROVE TypeOK'
    OBVIOUS
  <2>1. ASSUME NEW t \in Tasks, NEW op, NEW p, NEW about, Began(t, op, p, about) PROVE TypeOK'
    BY <2>1, BeginTyped
  <2>2. ASSUME NEW t \in Tasks, Accessed(t) PROVE TypeOK'
    BY <2>2, AccessTyped
  <2>3. UNCHANGED vars => TypeOK'
    BY StutterTyped
  <2> QED BY <2>1, <2>2, <2>3, Steps, Zenon
<1> QED BY <1>1, InitTyped, PTL DEF Spec

(* store_message: a tombstone replaces what was cached, rendered body included,     *)
(* whatever mode the caller asked for.                                              *)
THEOREM TombstonesStripped == Spec => TombstoneStrips
<1> DEFINE Strips == \A m \in Messages :
       messages'[m] # None /\ IsTombstone(messages'[m].doc)
         /\ (messages[m] = None \/ ~IsTombstone(messages[m].doc))
       => "md" \notin DOMAIN messages'[m].doc
<1>1. ASSUME TypeOK, NEW t \in Tasks, Accessed(t) PROVE Strips
  <2>1. ASSUME \A m \in Messages : messages'[m] \in {messages[m], None} PROVE Strips
    BY <2>1
  <2>2. ASSUME NEW id, NEW room, NEW doc, NEW mode, NEW new, NEW more,
               Messaged(t, id, room, doc, mode, new, more)
        PROVE  Strips
    <3> SUFFICES ASSUME NEW m \in Messages, messages'[m] # None, IsTombstone(messages'[m].doc),
                        messages[m] = None \/ ~ IsTombstone(messages[m].doc)
                 PROVE  "md" \notin DOMAIN messages'[m].doc
      OBVIOUS
    <3>1. /\ id \in Messages /\ messages'[id] = [room |-> room, doc |-> new]
          /\ \A n \in Messages : n # id => messages'[n] = messages[n]
          /\ IsTombstone(doc) => mode = "Replace" /\ "md" \notin DOMAIN doc
          /\ new = Stored(IF messages[id] = None THEN None ELSE messages[id].doc, doc, mode)
          /\ messages[id] \in [room : Rooms, doc : Documents] \cup {None} /\ doc \in Documents
      BY <2>2 DEF Messaged, MessagePut
    <3>2. CASE messages[m] # None /\ messages'[m] = messages[m]
      BY <3>2
    <3>3. CASE m # id /\ messages[m] = None
      BY <3>1, <3>3, <2>2
    <3>4. CASE m = id
      <4>1. messages'[m].doc = new
        BY <3>1, <3>4
      <4>2. CASE new = doc
        BY <3>1, <4>1, <4>2
      <4>3. CASE new # doc
        <5>1. /\ messages[id] # None /\ mode # "Replace"
              /\ new = MergeDocuments(messages[id].doc, doc)
          BY <3>1, <4>3 DEF Stored
        <5>2. messages[id].doc \in Documents
          BY <3>1, <5>1
        <5>3. DOMAIN new = DOMAIN messages[id].doc \cup DOMAIN doc
          BY <3>1, <5>1, <5>2, DocumentFacts
        <5>4. ~ IsTombstone(doc) /\ ~ IsTombstone(messages[id].doc)
          BY <3>1, <3>4, <5>1
        <5> QED BY <4>1, <5>3, <5>4 DEF IsTombstone
      <4> QED BY <4>2, <4>3
    <3> QED BY <3>1, <3>2, <3>3, <3>4
  <2>3. ASSUME NEW kind, NEW id, NEW doc, NEW mode, NEW more, Upserted(t, kind, id, doc, mode, more)
        PROVE  \A m \in Messages : messages'[m] \in {messages[m], None}
    BY <2>3 DEF Upserted
  <2>4. ASSUME NEW kind, NEW id, NEW name, Unindexed(t, kind, id, name)
        PROVE  \A m \in Messages : messages'[m] \in {messages[m], None}
    BY <2>4 DEF Unindexed
  <2>5. ASSUME NEW kind, NEW id, NEW name, Enindexed(t, kind, id, name)
        PROVE  \A m \in Messages : messages'[m] \in {messages[m], None}
    BY <2>5 DEF Enindexed
  <2>6. ASSUME NEW kind, NEW id, NEW forget, NEW more, Dropped(t, kind, id, forget, more)
        PROVE  \A m \in Messages : messages'[m] \in {messages[m], None}
    BY <2>6 DEF Dropped
  <2>7. ASSUME NEW id, NEW over, Counted(t, id, over)
        PROVE  \A m \in Messages : messages'[m] \in {messages[m], None}
    BY <2>7 DEF Counted, store
  <2>8. ASSUME NEW id, NEW over, NEW n, NEW more, Noted(t, id, over, n, more)
        PROVE  \A m \in Messages : messages'[m] \in {messages[m], None}
    BY <2>8 DEF Noted
  <2>9. ASSUME NEW id, Forgot(t, id)
        PROVE  \A m \in Messages : messages'[m] \in {messages[m], None}
    BY <2>9 DEF Forgot
  <2>10. ASSUME NEW id, NEW doc, NEW mode, LoggedIn(t, id, doc, mode)
        PROVE  \A m \in Messages : messages'[m] \in {messages[m], None}
    BY <2>10 DEF LoggedIn
  <2>11. ASSUME NEW id, NEW doc, NEW mode, NEW more, Checked(t, id, doc, mode, more)
        PROVE  \A m \in Messages : messages'[m] \in {messages[m], None}
    BY <2>11 DEF Checked, store
  <2>12. ASSUME NEW id, NEW doc, NEW mode, Refreshed(t, id, doc, mode)
        PROVE  \A m \in Messages : messages'[m] \in {messages[m], None}
    BY <2>12 DEF Refreshed
  <2>13. ASSUME NEW id, NEW room, NEW ring, NEW k, NEW more, Linked(t, id, room, ring, k, more)
        PROVE  \A m \in Messages : messages'[m] \in {messages[m], None}
    BY <2>13 DEF Linked
  <2>14. ASSUME NEW id, Purged(t, id)
        PROVE  \A m \in Messages : messages'[m] \in {messages[m], None}
    BY <2>14 DEF Purged, MessagePut
  <2>15. ASSUME NEW id, NEW asked, NEW room, NEW more, Took(t, id, asked, room, more)
        PROVE  \A m \in Messages : messages'[m] \in {messages[m], None}
    BY <2>15 DEF Took, MessagePut
  <2>16. ASSUME NEW id, NEW room, NEW ring, NEW more, Unlinked(t, id, room, ring, more)
        PROVE  \A m \in Messages : messages'[m] \in {messages[m], None}
    BY <2>16 DEF Unlinked
  <2>17. ASSUME NEW room, Unringed(t, room)
        PROVE  \A m \in Messages : messages'[m] \in {messages[m], None}
    BY <2>17 DEF Unringed
  <2>18. ASSUME NEW room, NEW more, RingDropped(t, room, more)
        PROVE  \A m \in Messages : messages'[m] \in {messages[m], None}
    BY <2>18 DEF RingDropped
  <2>19. ASSUME NEW map, Cleared(t, map)
        PROVE  \A m \in Messages : messages'[m] \in {messages[m], None}
    BY <2>19 DEF Cleared
  <2> HIDE DEF Strips
  <2> QED BY <1>1, <2>1, <2>2, <2>3, <2>4, <2>5, <2>6, <2>7, <2>8, <2>9, <2>10,
             <2>11, <2>12, <2>13, <2>14, <2>15, <2>16, <2>17, <2>18, <2>19, Zenon DEF Accessed
<1>2. ASSUME TypeOK, [Next]_vars PROVE [Strips]_vars
  <2>1. ASSUME NEW t \in Tasks, NEW op, NEW p, NEW about, Began(t, op, p, about) PROVE Strips
    <3>1. messages' = messages
      BY <2>1 DEF Began, store
    <3>2. ASSUME NEW m \in Messages, IsTombstone(messages'[m].doc), ~ IsTombstone(messages[m].doc)
          PROVE  FALSE
      BY <3>1, <3>2
    <3>3. ASSUME NEW m \in Messages, messages'[m] # None, messages[m] = None PROVE FALSE
      BY <3>1, <3>3
    <3> QED BY <3>2, <3>3, Zenon
  <2> HIDE DEF Strips
  <2> QED BY <1>1, <1>2, <2>1, Steps, Zenon
<1>3. TypeOK /\ TypeOK' /\ [Next]_vars => [Strips]_vars
  BY <1>2
<1> QED BY <1>3, CacheTyped, PTL DEF Spec, TombstoneStrips

(* Races and claims are noticed by the very step that brings them about. *)
LEMMA NoClaimFromStart ==
  ASSUME TypeOK, NEW t \in Tasks, NEW op, NEW p, NEW about, Began(t, op, p, about)
  PROVE  Shared(docs', work') \subseteq Shared(docs, work)
<1>1. \A k, i, n : Claims(docs', work', k, i, n) => Claims(docs, work, k, i, n)
  <2> SUFFICES ASSUME NEW k, NEW i, NEW n, NEW s \in Tasks, NEW j \in DOMAIN work'[s],
                      work'[s][j] = Enindex(k, i, n)
               PROVE  Claims(docs, work, k, i, n)
    BY DEF Claims, Began, store
  <2>1. CASE s # t
    BY <2>1 DEF Claims, Began
  <2>2. CASE s = t
    <3>1. work'[s] = p /\ Started(op, p)
      BY <2>2 DEF Began
    <3>2. work'[s][j] \in Range(p)
      BY <3>1 DEF Range
    <3>3. Enindex(k, i, n).at = "enindex"
      BY DEF Enindex
    <3>4. Enindex(k, i, n).at # "enindex"
      BY <3>1, <3>2, StartedWith
    <3> QED BY <3>3, <3>4
  <2> QED BY <2>1, <2>2
<1> QED BY <1>1, Zenon DEF Shared

LEMMA RacesStayNoticed ==
  ASSUME TypeOK, RacesNoticed, [Next]_vars
  PROVE  RacesNoticed'
<1>1. ASSUME NEW t \in Tasks, NEW op, NEW p, NEW about, Began(t, op, p, about)
      PROVE  RacesNoticed'
  <2>1. Shared(docs', work') \subseteq shared'
    BY <1>1, NoClaimFromStart DEF Began, RacesNoticed
  <2> QED BY <1>1, <2>1 DEF Began, RacesNoticed
<1>2. ASSUME NEW t \in Tasks, Accessed(t)
      PROVE  RacesNoticed'
  <2>1. PICK more : Advances(t, more)
    BY <1>2, AccessTyped
  <2> QED BY <2>1 DEF Advances, RacesNoticed
<1>3. CASE UNCHANGED vars
  BY <1>3 DEF vars, store, RacesNoticed, Contended, Shared, Claims, Touched
<1> QED BY <1>1, <1>2, <1>3, Steps, Zenon

(***************************************************************************)
(* The order of what a task has still to do.                               *)
(***************************************************************************)
InOrder(w) == \A i \in DOMAIN w : Placed(w, i)

(* Behind most accesses only these are met, a refresh last. *)
Calm(w) ==
  \A i \in 2 .. Len(w) :
    /\ w[i].at \in {"drop", "purge", "dropring", "iscurrent"}
    /\ w[i].at = "drop" => ~ w[i].forget
    /\ w[i].at = "iscurrent" => i = Len(w)

LEMMA CalmTail ==
  ASSUME NEW w \in Seq(Accesses), w # <<>>, InOrder(w), \A i \in DOMAIN w : w[i].at # "clear",
         ~ IsIndexing(w[1]), w[1].at # "login"
  PROVE  Calm(w)
<1>1. Len(w) \in Nat /\ DOMAIN w = 1 .. Len(w) /\ Len(w) # 0
  BY EmptySeq, LenProperties
<1> SUFFICES ASSUME NEW i \in 2 .. Len(w)
             PROVE  /\ w[i].at \in {"drop", "purge", "dropring", "iscurrent"}
                    /\ w[i].at = "drop" => ~ w[i].forget
                    /\ w[i].at = "iscurrent" => i = Len(w)
  BY DEF Calm
<1>2. i \in DOMAIN w /\ i # 1 /\ 1 \in 1 .. i - 1 /\ Len(w) # 1 /\ i \in Nat
  BY <1>1
<1>3. Placed(w, i) /\ w[i].at # "clear" /\ w[i] \in Accesses
  BY <1>1, <1>2, ElementOfSeq DEF InOrder
<1>4. ~ IsLone(w[i]) /\ w[i].at \notin {"login", "note", "upsert", "count", "forget"}
        /\ ~ IsIndexing(w[i])
  <2>1. ~ IsLone(w[i]) /\ w[i].at \notin {"login", "note"} /\ w[i].at # "upsert"
    BY <1>2, <1>3 DEF Placed
  <2>2. w[i].at # "count"
    BY <1>2, <1>3 DEF Placed
  <2>3. ~ IsIndexing(w[i]) /\ w[i].at # "forget"
    <3>1. w[1].at # "unindex"
      BY DEF IsIndexing
    <3> QED BY <1>2, <1>3, <3>1 DEF Placed
  <2> QED BY <2>1, <2>2, <2>3
<1>5. w[i].at \in {"drop", "purge", "dropring", "iscurrent"} /\ (w[i].at = "drop" => ~ w[i].forget)
  BY <1>3, <1>4, AccessKinds DEF IsLone, IsIndexing
<1>6. w[i].at = "iscurrent" => i = Len(w)
  BY <1>3 DEF Placed
<1> QED BY <1>5, <1>6

(* What may be put before such a rest. *)
Leading(p) ==
  \A i \in 1 .. Len(p) :
    /\ p[i].at \in {"unindex", "enindex", "count", "note", "drop", "forget", "purge", "dropring"}
    /\ p[i].at = "drop" => ~ p[i].forget
    /\ p[i].at = "note" => i = 1
    /\ p[i].at = "count" => \A j \in 1 .. i - 1 : IsIndexing(p[j])
    /\ IsIndexing(p[i]) \/ p[i].at = "forget" => \A j \in 1 .. i - 1 : p[j].at = "unindex"

LEMMA JoinedInOrder ==
  ASSUME NEW w \in Seq(Accesses), w # <<>>, Calm(w), NEW p \in Seq(Accesses), Leading(p)
  PROVE  /\ InOrder(p \o Tail(w))
         /\ \A i \in DOMAIN (p \o Tail(w)) : (p \o Tail(w))[i].at # "clear"
<1>1. PICK q : q = p \o Tail(w)
  OBVIOUS
<1>2. /\ Len(w) \in Nat \ {0} /\ Len(p) \in Nat /\ q \in Seq(Accesses)
      /\ Len(q) = Len(p) + Len(w) - 1 /\ DOMAIN q = 1 .. Len(q)
      /\ \A i \in 1 .. Len(p) : q[i] = p[i]
      /\ \A i \in 2 .. Len(w) : q[Len(p) + i - 1] = w[i]
  <2>1. /\ Len(w) \in Nat \ {0} /\ Len(p) \in Nat /\ q \in Seq(Accesses)
        /\ Len(q) = Len(p) + Len(w) - 1
        /\ \A i \in 1 .. Len(p) : q[i] = p[i]
        /\ \A i \in 2 .. Len(w) : q[Len(p) + i - 1] = w[i]
    BY <1>1, Joined
  <2> QED BY <2>1, LenProperties
<1>3. ASSUME NEW i \in 1 .. Len(q)
      PROVE  Placed(q, i) /\ q[i].at # "clear"
  <2>1. q[1].at # "login" /\ q[1].at # "upsert"
    <3>1. CASE Len(p) > 0
      <4>1. 1 \in 1 .. Len(p)
        BY <1>2, <3>1
      <4> QED BY <1>2, <4>1 DEF Leading
    <3>2. CASE ~ (Len(p) > 0)
      <4>1. 2 \in 2 .. Len(w) /\ Len(p) + 2 - 1 = 1
        BY <1>2, <3>2
      <4>2. q[1] = w[2]
        BY <1>2, <4>1
      <4>3. w[2].at \in {"drop", "purge", "dropring", "iscurrent"}
        BY <4>1 DEF Calm
      <4> QED BY <4>2, <4>3
    <3> QED BY <3>1, <3>2
  <2>2. CASE i <= Len(p)
    <3>1. i \in 1 .. Len(p) /\ q[i] = p[i] /\ \A j \in 1 .. i - 1 : q[j] = p[j]
      BY <1>2, <2>2
    <3>2. ~ IsLone(q[i])
      BY <3>1 DEF Leading, IsLone
    <3> QED BY <2>1, <3>1, <3>2 DEF Leading, Placed, IsIndexing
  <2>3. CASE ~ (i <= Len(p))
    <3>1. PICK k \in 2 .. Len(w) : i = Len(p) + k - 1 /\ q[i] = w[k] /\ (k = Len(w) => i = Len(q))
      <4>1. i - Len(p) + 1 \in 2 .. Len(w) /\ i = Len(p) + (i - Len(p) + 1) - 1
            /\ (i - Len(p) + 1 = Len(w) => i = Len(q))
        BY <1>2, <2>3
      <4> QED BY <1>2, <4>1
    <3>2. /\ q[i].at \in {"drop", "purge", "dropring", "iscurrent"}
          /\ q[i].at = "drop" => ~ q[i].forget
          /\ q[i].at = "iscurrent" => i = Len(q)
      BY <3>1 DEF Calm
    <3>3. ~ IsLone(q[i]) /\ ~ IsIndexing(q[i])
      BY <3>2 DEF IsLone, IsIndexing
    <3> QED BY <2>1, <3>2, <3>3 DEF Placed
  <2> QED BY <1>2, <2>2, <2>3
<1> QED BY <1>1, <1>2, <1>3 DEF InOrder

(* What follows an access that schedules nothing moves up. *)
LEMMA PoppedInOrder ==
  ASSUME NEW w \in Seq(Accesses), w # <<>>, InOrder(w), \A i \in DOMAIN w : w[i].at # "clear"
  PROVE  /\ InOrder(Tail(w))
         /\ \A i \in DOMAIN Tail(w) : Tail(w)[i].at # "clear"
<1>1. PICK q : q = Tail(w)
  OBVIOUS
<1>2. /\ Len(w) \in Nat \ {0} /\ q \in Seq(Accesses) /\ DOMAIN w = 1 .. Len(w)
      /\ Len(q) = Len(w) - 1 /\ DOMAIN q = 1 .. Len(q)
      /\ \A i \in 1 .. Len(q) : q[i] = w[i + 1] /\ i + 1 \in 1 .. Len(w) /\ i + 1 # 1
  <2>1. /\ q \in Seq(Accesses) /\ Len(q) = Len(w) - 1
        /\ \A i \in 1 .. Len(q) : q[i] = w[i + 1]
    BY <1>1, HeadTailProperties
  <2>2. Len(w) \in Nat \ {0} /\ DOMAIN w = 1 .. Len(w) /\ DOMAIN q = 1 .. Len(q)
    BY <2>1, EmptySeq, LenProperties
  <2>3. \A i \in 1 .. Len(q) : i + 1 \in 1 .. Len(w) /\ i + 1 # 1
    BY <2>1, <2>2
  <2> QED BY <2>1, <2>2, <2>3
<1>3. ASSUME NEW i \in 1 .. Len(q)
      PROVE  Placed(q, i) /\ q[i].at # "clear"
  <2>1. /\ Placed(w, i + 1) /\ q[i] = w[i + 1] /\ i + 1 # 1 /\ w[i + 1].at # "clear"
        /\ i \in Nat /\ Len(w) # 1
    BY <1>2 DEF InOrder
  <2>2. ~ IsLone(q[i]) /\ q[i].at \notin {"login", "note"}
    BY <2>1 DEF Placed
  <2>3. q[i].at = "upsert" => i = 1
    BY <2>1 DEF Placed
  <2>4. q[i].at = "iscurrent" => i = Len(q)
    <3>1. q[i].at = "iscurrent" => i + 1 = Len(w)
      BY <2>1 DEF Placed
    <3>2. Len(q) = Len(w) - 1 /\ Len(w) \in Nat /\ i \in Nat
      BY <1>2, <2>1
    <3> QED BY <3>1, <3>2
  <2>5. \A j \in 1 .. i - 1 : q[j] = w[j + 1] /\ j + 1 \in 1 .. (i + 1) - 1
    BY <1>2, <2>1
  <2>6. q[i].at = "count" => \A j \in 1 .. i - 1 : IsIndexing(q[j])
    BY <2>1, <2>5 DEF Placed
  <2>7. IsIndexing(q[i]) \/ q[i].at = "forget" => \A j \in 1 .. i - 1 : q[j].at = "unindex"
    BY <2>1, <2>5 DEF Placed
  <2>8. q[1].at # "login" /\ (q[1].at = "upsert" => i = 1)
    <3>1. 1 \in 1 .. Len(q) /\ q[1] = w[2] /\ 2 \in 1 .. Len(w) /\ 1 + 1 = 2
      BY <1>2, <2>1
    <3>2. Placed(w, 2) /\ Placed(w, i + 1)
      BY <1>2, <2>1, <3>1 DEF InOrder
    <3>3. q[1].at # "login"
      BY <3>1, <3>2 DEF Placed
    <3>4. q[1].at = "upsert" => i = 1
      <4>1. q[1].at = "upsert" => w[1].at = "login"
        BY <3>1, <3>2 DEF Placed
      <4>2. w[1].at = "login" => i + 1 = 2
        BY <2>1, <3>2 DEF Placed
      <4> QED BY <2>1, <4>1, <4>2
    <3> QED BY <3>3, <3>4
  <2> QED BY <2>1, <2>2, <2>3, <2>4, <2>6, <2>7, <2>8 DEF Placed
<1> QED BY <1>1, <1>2, <1>3 DEF InOrder

(* A program of one access, or of none. *)
LEMMA LoneInOrder ==
  ASSUME NEW a, a.at # "clear"
  PROVE  /\ InOrder(<<a>>) /\ \A i \in DOMAIN <<a>> : <<a>>[i].at # "clear"
         /\ InOrder(<<>>) /\ \A i \in DOMAIN <<>> : <<>>[i].at # "clear"
<1>1. PICK w : w = <<a>>
  OBVIOUS
<1>2. DOMAIN w = {1} /\ Len(w) = 1 /\ w[1] = a
  BY <1>1
<1>3. Placed(w, 1)
  BY <1>2 DEF Placed
<1>4. DOMAIN <<>> = {}
  OBVIOUS
<1> QED BY <1>1, <1>2, <1>3, <1>4 DEF InOrder

LEMMA ClearsMeans ==
  \A w, h : ClearsOnly(w, h) <=>
    ((\E i \in DOMAIN w : w[i].at = "clear") => h = Ids /\ \E n \in 0 .. 8 : w = RestOfClear(n))
<1>1. Len(Maps) - 1 = 8
  BY ClearFacts
<1> QED BY <1>1, Zenon DEF ClearsOnly

LEMMA Unclear ==
  ASSUME TypeOK, WorkOrdered, NEW t \in Tasks, work[t] # <<>>, Head(work[t]).at # "clear"
  PROVE  /\ \A i \in DOMAIN work[t] : work[t][i].at # "clear"
         /\ work[t] \in Seq(Accesses) /\ InOrder(work[t]) /\ Head(work[t]) = work[t][1]
         /\ 1 \in DOMAIN work[t]
<1>1. /\ work[t] \in Seq(Accesses) /\ ClearsOnly(work[t], holds[t]) /\ InOrder(work[t])
      /\ Head(work[t]) = work[t][1] /\ 1 \in DOMAIN work[t]
  <2>1. work[t] \in Seq(Accesses) /\ ClearsOnly(work[t], holds[t]) /\ InOrder(work[t])
    BY DEF TypeOK, WorkOrdered, InOrder
  <2>2. Len(work[t]) \in Nat \ {0} /\ DOMAIN work[t] = 1 .. Len(work[t])
    BY <2>1, EmptySeq, LenProperties
  <2> QED BY <2>1, <2>2
<1>2. ASSUME NEW i \in DOMAIN work[t], work[t][i].at = "clear" PROVE FALSE
  <2>1. PICK n \in 0 .. 8 : work[t] = RestOfClear(n)
    BY <1>1, <1>2, ClearsMeans, Zenon
  <2>2. 1 \in 1 .. 9 - n
    OBVIOUS
  <2>3. work[t][1] = Clear(Maps[n + 1])
    BY <2>1, <2>2, ClearFacts
  <2> QED BY <1>1, <2>3 DEF Clear
<1> QED BY <1>1, <1>2

LEMMA OthersInOrder ==
  ASSUME TypeOK, WorkOrdered, NEW t \in Tasks, NEW more, Advances(t, more),
         ClearsOnly(work'[t], holds'[t]), InOrder(work'[t])
  PROVE  WorkOrdered'
<1> SUFFICES ASSUME NEW s \in Tasks
             PROVE  ClearsOnly(work'[s], holds'[s]) /\ InOrder(work'[s])
  BY DEF WorkOrdered, InOrder
<1>1. CASE s = t
  BY <1>1
<1>2. CASE s # t
  <2>1. work'[s] = work[s] /\ (work'[s] # <<>> => holds'[s] = holds[s])
    BY <1>2 DEF Advances
  <2>2. ClearsOnly(work[s], holds[s]) /\ InOrder(work[s])
    BY DEF WorkOrdered, InOrder
  <2>3. CASE work[s] = <<>>
    <3>1. DOMAIN work'[s] = {}
      BY <2>1, <2>3
    <3> QED BY <2>1, <2>2, <3>1 DEF ClearsOnly
  <2>4. CASE work[s] # <<>>
    BY <2>1, <2>2, <2>4
  <2> QED BY <2>3, <2>4
<1> QED BY <1>1, <1>2

LEMMA CalmAdvance ==
  ASSUME TypeOK, WorkOrdered, NEW t \in Tasks, work[t] # <<>>, NEW more \in Seq(Accesses),
         Advances(t, more), Leading(more),
         Head(work[t]).at \notin {"clear", "unindex", "enindex", "login"}
  PROVE  WorkOrdered'
<1>1. /\ \A i \in DOMAIN work[t] : work[t][i].at # "clear"
      /\ work[t] \in Seq(Accesses) /\ InOrder(work[t]) /\ Head(work[t]) = work[t][1]
  BY Unclear
<1>2. Calm(work[t])
  BY <1>1, CalmTail DEF IsIndexing
<1>3. InOrder(work'[t]) /\ \A i \in DOMAIN work'[t] : work'[t][i].at # "clear"
  BY <1>1, <1>2, JoinedInOrder DEF Advances
<1> QED BY <1>3, OthersInOrder DEF ClearsOnly

LEMMA PopAdvance ==
  ASSUME TypeOK, WorkOrdered, NEW t \in Tasks, work[t] # <<>>, Advances(t, <<>>),
         Head(work[t]).at # "clear"
  PROVE  WorkOrdered'
<1>1. /\ \A i \in DOMAIN work[t] : work[t][i].at # "clear"
      /\ work[t] \in Seq(Accesses) /\ InOrder(work[t])
  BY Unclear
<1>2. work'[t] = Tail(work[t])
  <2>1. Tail(work[t]) \in Seq(Accesses)
    BY <1>1, HeadTailProperties
  <2> QED BY <2>1, ConcatEmptySeq DEF Advances
<1>3. InOrder(work'[t]) /\ \A i \in DOMAIN work'[t] : work'[t][i].at # "clear"
  BY <1>1, <1>2, PoppedInOrder
<1> QED BY <1>3, OthersInOrder DEF ClearsOnly

(* The last access of a program schedules at most one more. *)
LEMMA LastAdvance ==
  ASSUME TypeOK, WorkOrdered, NEW t \in Tasks, work[t] # <<>>, NEW more, NEW a \in Accesses,
         more = <<>> \/ more = <<a>>, Advances(t, more), a.at # "clear",
         IsLone(Head(work[t])) \/ Head(work[t]).at = "iscurrent", Head(work[t]).at # "clear"
  PROVE  WorkOrdered'
<1>1. CASE more = <<>>
  BY <1>1, PopAdvance
<1>2. CASE more = <<a>>
  <2>1. /\ work[t] \in Seq(Accesses) /\ Placed(work[t], 1) /\ Head(work[t]) = work[t][1]
    BY Unclear DEF InOrder
  <2>2. Len(work[t]) = 1
    BY <2>1 DEF Placed
  <2>3. Tail(work[t]) = <<>>
    <3>1. Tail(work[t]) \in Seq(Accesses) /\ Len(Tail(work[t])) = 0
      BY <2>1, <2>2, HeadTailProperties
    <3> QED BY <3>1, EmptySeq
  <2>4. work'[t] = <<a>>
    <3>1. <<a>> \in Seq(Accesses)
      BY Singles
    <3> QED BY <1>2, <2>3, <3>1, ConcatEmptySeq DEF Advances
  <2>5. InOrder(work'[t]) /\ \A i \in DOMAIN work'[t] : work'[t][i].at # "clear"
    BY <2>4, LoneInOrder
  <2> QED BY <2>5, OthersInOrder DEF ClearsOnly
<1> QED BY <1>1, <1>2

LEMMA ClearAdvance ==
  ASSUME TypeOK, WorkOrdered, NEW t \in Tasks, NEW map, Cleared(t, map)
  PROVE  /\ WorkOrdered' /\ holds[t] = Ids
         /\ \E n \in 1 .. 9 : /\ map = Maps[n]
                              /\ Range(work[t]) = {Clear(Maps[i]) : i \in n .. 9}
                              /\ Range(work'[t]) = {Clear(Maps[i]) : i \in n + 1 .. 9}
<1>1. work[t] # <<>> /\ Head(work[t]) = Clear(map) /\ Advances(t, <<>>)
  BY DEF Cleared
<1>2. /\ work[t] \in Seq(Accesses) /\ ClearsOnly(work[t], holds[t])
      /\ Head(work[t]) = work[t][1] /\ 1 \in DOMAIN work[t]
  <2>1. work[t] \in Seq(Accesses) /\ ClearsOnly(work[t], holds[t])
    BY DEF TypeOK, WorkOrdered
  <2>2. Len(work[t]) \in Nat \ {0} /\ DOMAIN work[t] = 1 .. Len(work[t])
    BY <1>1, <2>1, EmptySeq, LenProperties
  <2> QED BY <2>1, <2>2
<1>3. PICK n \in 0 .. 8 : work[t] = RestOfClear(n) /\ holds[t] = Ids
  <2>1. work[t][1].at = "clear"
    BY <1>1, <1>2 DEF Clear
  <2> QED BY <1>2, <2>1, ClearsMeans, Zenon
<1>4. /\ Len(work[t]) = 9 - n /\ \A i \in 1 .. 9 - n : work[t][i] = Clear(Maps[n + i])
  BY <1>3, ClearFacts
<1>5. map = Maps[n + 1]
  <2>1. 1 \in 1 .. 9 - n
    OBVIOUS
  <2>2. PICK m : m = Maps[n + 1]
    OBVIOUS
  <2>3. Clear(map) = Clear(m)
    BY <1>1, <1>2, <1>4, <2>1, <2>2
  <2> QED BY <2>2, <2>3 DEF Clear
<1>6. PICK q : q = work'[t]
  OBVIOUS
<1>7. /\ q \in Seq(Accesses) /\ Len(q) = 8 - n /\ DOMAIN q = 1 .. 8 - n
      /\ \A i \in 1 .. 8 - n : q[i] = Clear(Maps[n + 1 + i])
  <2>1. /\ Tail(work[t]) \in Seq(Accesses) /\ Len(Tail(work[t])) = Len(work[t]) - 1
        /\ \A i \in 1 .. Len(Tail(work[t])) : Tail(work[t])[i] = work[t][i + 1]
    BY <1>1, <1>2, HeadTailProperties
  <2>2. q = Tail(work[t])
    BY <1>1, <1>6, <2>1, ConcatEmptySeq DEF Advances
  <2>3. \A i \in 1 .. 8 - n : i + 1 \in 1 .. 9 - n /\ n + (i + 1) = n + 1 + i
    OBVIOUS
  <2>4. Len(q) = 8 - n /\ DOMAIN q = 1 .. 8 - n
    BY <1>4, <2>1, <2>2, LenProperties
  <2> QED BY <1>4, <2>1, <2>2, <2>3, <2>4
<1>8. Range(work[t]) = {Clear(Maps[i]) : i \in n + 1 .. 9}
  <2>1. DOMAIN work[t] = 1 .. 9 - n
    BY <1>2, <1>4, LenProperties
  <2>2. \A i \in 1 .. 9 - n : n + i \in n + 1 .. 9
    OBVIOUS
  <2>3. \A i \in n + 1 .. 9 : i - n \in 1 .. 9 - n /\ n + (i - n) = i
    OBVIOUS
  <2>4. Range(work[t]) \subseteq {Clear(Maps[i]) : i \in n + 1 .. 9}
    BY <1>4, <2>1, <2>2 DEF Range
  <2>5. \A i \in n + 1 .. 9 : Clear(Maps[i]) \in Range(work[t])
    <3>1. \A i \in n + 1 .. 9 : i - n \in DOMAIN work[t] /\ work[t][i - n] = Clear(Maps[i])
      BY <1>4, <2>1, <2>3
    <3> QED BY <3>1, Zenon DEF Range
  <2> QED BY <2>4, <2>5
<1>9. Range(q) = {Clear(Maps[i]) : i \in n + 1 + 1 .. 9}
  <2>1. \A i \in 1 .. 8 - n : n + 1 + i \in n + 1 + 1 .. 9
    OBVIOUS
  <2>2. \A i \in n + 1 + 1 .. 9 : i - (n + 1) \in 1 .. 8 - n /\ n + 1 + (i - (n + 1)) = i
    OBVIOUS
  <2>3. Range(q) \subseteq {Clear(Maps[i]) : i \in n + 1 + 1 .. 9}
    BY <1>7, <2>1 DEF Range
  <2>4. \A i \in n + 1 + 1 .. 9 : Clear(Maps[i]) \in Range(q)
    <3>1. \A i \in n + 1 + 1 .. 9 : i - (n + 1) \in DOMAIN q /\ q[i - (n + 1)] = Clear(Maps[i])
      BY <1>7, <2>2
    <3> QED BY <3>1, Zenon DEF Range
  <2> QED BY <2>3, <2>4
<1>10. WorkOrdered'
  <2>1. InOrder(q)
    <3> SUFFICES ASSUME NEW i \in DOMAIN q PROVE Placed(q, i)
      BY DEF InOrder
    <3>1. 1 \in DOMAIN q /\ q[i].at = "clear" /\ q[1].at = "clear"
      BY <1>7 DEF Clear
    <3> QED BY <3>1 DEF Placed, IsLone, IsIndexing
  <2>2. ClearsOnly(q, holds'[t])
    <3> SUFFICES ASSUME NEW i \in DOMAIN q, q[i].at = "clear"
                 PROVE  holds'[t] = Ids /\ \E m \in 0 .. 8 : q = RestOfClear(m)
      BY ClearsMeans, Zenon
    <3>1. n + 1 \in 0 .. 8 /\ q # <<>>
      BY <1>7
    <3>2. q = RestOfClear(n + 1)
      <4>1. PICK r : r = RestOfClear(n + 1)
        OBVIOUS
      <4>2. /\ r \in Seq(Accesses) /\ Len(r) = 9 - (n + 1)
            /\ \A j \in 1 .. 9 - (n + 1) : r[j] = Clear(Maps[n + 1 + j])
        BY <3>1, <4>1, ClearFacts, SeqMonotonic
      <4>3. 9 - (n + 1) = 8 - n
        OBVIOUS
      <4>4. Len(q) = Len(r) /\ \A j \in 1 .. Len(q) : q[j] = r[j]
        BY <1>7, <4>2, <4>3
      <4> QED BY <1>7, <4>1, <4>2, <4>4, SeqEqual
    <3>3. holds'[t] = Ids
      BY <1>1, <1>3, <1>6, <3>1 DEF Advances
    <3> QED BY <3>1, <3>2, <3>3
  <2> QED BY <1>1, <1>6, <2>1, <2>2, OthersInOrder
<1>11. n + 1 \in 1 .. 9
  OBVIOUS
<1> QED BY <1>3, <1>5, <1>6, <1>8, <1>9, <1>10, <1>11

LEMMA AccessOrdered ==
  ASSUME TypeOK, WorkOrdered, NEW t \in Tasks, Accessed(t)
  PROVE  WorkOrdered'
<1>1. ASSUME NEW kind, NEW id, NEW doc, NEW mode, NEW more, Upserted(t, kind, id, doc, mode, more)
      PROVE  WorkOrdered'
  <2>1. /\ Advances(t, more) /\ more \in Seq(Accesses) /\ work[t] # <<>>
        /\ Head(work[t]).at = "upsert"
    BY <1>1 DEF Upserted, UpsertMore, Upsert
  <2>2. /\ \A a \in Range(more) : a.at \in {"unindex", "enindex", "count"}
        /\ \A i \in 1 .. Len(more) : more[i] \in Range(more)
    <3>1. \A a \in Range(more) : a.at \in {"unindex", "enindex", "count"}
      BY <1>1 DEF Upserted, UpsertMore, Unindex, Enindex, CountUsers
    <3>2. \A i \in 1 .. Len(more) : more[i] \in Range(more)
      BY <2>1 DEF Range
    <3> QED BY <3>1, <3>2
  <2>3. \A i \in 1 .. Len(more) :
          /\ more[i].at = "unindex" => i = 1
          /\ more[i].at = "enindex" => \A j \in 1 .. i - 1 : more[j].at = "unindex"
          /\ more[i].at = "count" => \A j \in 1 .. i - 1 : IsIndexing(more[j])
    BY <1>1 DEF Upserted, UpsertMore
  <2>4. Leading(more)
    BY <2>2, <2>3 DEF Leading, IsIndexing
  <2> QED BY <2>1, <2>4, CalmAdvance
<1>2. ASSUME NEW kind, NEW id, NEW name, Unindexed(t, kind, id, name)
             \/ Enindexed(t, kind, id, name)
      PROVE  WorkOrdered'
  <2>1. Advances(t, <<>>) /\ work[t] # <<>> /\ Head(work[t]).at # "clear"
    BY <1>2 DEF Unindexed, Enindexed, Unindex, Enindex
  <2> QED BY <2>1, PopAdvance
<1>3. ASSUME NEW kind, NEW id, NEW forget, NEW more, Dropped(t, kind, id, forget, more)
      PROVE  WorkOrdered'
  <2>1. /\ Advances(t, more) /\ more \in Seq(Accesses) /\ work[t] # <<>>
        /\ Head(work[t]).at = "drop"
    BY <1>3 DEF Dropped, DropMore, DropDoc
  <2>2. \A a \in Range(more) : /\ a.at \in {"unindex", "forget", "drop", "dropring"}
                               /\ a.at = "drop" => ~ a.forget
    BY <1>3 DEF Dropped, DropMore, Unindex, Forget, DropDoc, DropRing
  <2>3. \A i \in 1 .. Len(more) : more[i] \in Range(more)
    BY <2>1 DEF Range
  <2>4. \A i \in 1 .. Len(more) :
          /\ more[i].at = "unindex" => i = 1
          /\ more[i].at = "forget" => \A j \in 1 .. i - 1 : more[j].at = "unindex"
    BY <1>3 DEF Dropped, DropMore
  <2>5. Leading(more)
    BY <2>2, <2>3, <2>4 DEF Leading, IsIndexing
  <2> QED BY <2>1, <2>5, CalmAdvance
<1>4. ASSUME NEW id, NEW over, Counted(t, id, over) PROVE WorkOrdered'
  <2>1. /\ Advances(t, <<NoteUser(id, over)>>) /\ work[t] # <<>> /\ Head(work[t]).at = "count"
        /\ id \in Users /\ over \in Nat
    BY <1>4 DEF Counted, CountUsers
  <2>2. PICK a : a = NoteUser(id, over) OBVIOUS
  <2>3. a \in Accesses /\ a.at = "note"
    BY <2>1, <2>2, Made DEF NoteUser
  <2>4. <<a>> \in Seq(Accesses) /\ Leading(<<a>>)
    BY <2>3 DEF Leading, IsIndexing
  <2> QED BY <2>1, <2>2, <2>4, CalmAdvance
<1>5. ASSUME NEW id, NEW over, NEW n, NEW more, Noted(t, id, over, n, more) PROVE WorkOrdered'
  <2>1. /\ Advances(t, more) /\ more \in Seq(Accesses) /\ work[t] # <<>>
        /\ Head(work[t]).at = "note"
    BY <1>5 DEF Noted, NoteUser
  <2>2. \A i \in 1 .. Len(more) : more[i].at = "drop" /\ more[i].forget = FALSE
    <3>1. Len(more) = n /\ \A i \in 1 .. n : more[i] = DropDoc("user", order[i], FALSE)
      BY <1>5 DEF Noted
    <3> QED BY <3>1 DEF DropDoc
  <2>3. Leading(more)
    BY <2>1, <2>2 DEF Leading, IsIndexing
  <2> QED BY <2>1, <2>3, CalmAdvance
<1>6. ASSUME NEW id, NEW doc, NEW mode,
             \/ Forgot(t, id) \/ LoggedIn(t, id, doc, mode) \/ Refreshed(t, id, doc, mode)
             \/ Purged(t, id) \/ Unringed(t, id)
      PROVE  WorkOrdered'
  <2>1. Advances(t, <<>>) /\ work[t] # <<>> /\ Head(work[t]).at # "clear"
    <3>1. CASE Forgot(t, id) BY <3>1 DEF Forgot, Forget
    <3>2. CASE LoggedIn(t, id, doc, mode) BY <3>2 DEF LoggedIn, Refresh
    <3>3. CASE Refreshed(t, id, doc, mode) BY <3>3 DEF Refreshed, Refresh
    <3>4. CASE Purged(t, id) BY <3>4 DEF Purged, Purge
    <3>5. CASE Unringed(t, id) BY <3>5 DEF Unringed, Unring
    <3> QED BY <1>6, <3>1, <3>2, <3>3, <3>4, <3>5
  <2> QED BY <2>1, PopAdvance
<1>7. ASSUME NEW id, NEW doc, NEW mode, NEW more, Checked(t, id, doc, mode, more) PROVE WorkOrdered'
  <2>1. PICK a : a = Refresh("refresh", id, doc, mode) OBVIOUS
  <2>2. /\ Advances(t, more) /\ work[t] # <<>> /\ Head(work[t]).at = "iscurrent"
        /\ more \in Seq(Accesses) /\ (more = <<>> \/ more = <<a>>) /\ a.at = "refresh"
    BY <1>7, <2>1 DEF Checked, Refresh
  <2>3. CASE more = <<a>>
    <3>1. a \in Accesses BY <2>2, <2>3, Joined
    <3> QED BY <3>1, <2>2, LastAdvance
  <2>4. CASE more = <<>> BY <2>2, <2>4, PopAdvance
  <2> QED BY <2>2, <2>3, <2>4
<1>8. ASSUME NEW id, NEW room, NEW doc, NEW mode, NEW new, NEW more,
             Messaged(t, id, room, doc, mode, new, more)
      PROVE  WorkOrdered'
  <2>1. PICK a : a = Link(id, room) OBVIOUS
  <2>2. /\ Advances(t, more) /\ work[t] # <<>> /\ Head(work[t]).at = "message"
        /\ more \in Seq(Accesses) /\ (more = <<>> \/ more = <<a>>) /\ a.at = "link"
    BY <1>8, <2>1 DEF Messaged, StoreMessage, Link
  <2>3. CASE more = <<a>>
    <3>1. a \in Accesses BY <2>2, <2>3, Joined
    <3> QED BY <3>1, <2>2, LastAdvance DEF IsLone
  <2>4. CASE more = <<>> BY <2>2, <2>4, PopAdvance
  <2> QED BY <2>2, <2>3, <2>4
<1>9. ASSUME NEW id, NEW room, NEW ring, NEW k, NEW more, Linked(t, id, room, ring, k, more)
      PROVE  WorkOrdered'
  <2>1. PICK a : a = Purge(Ring(room)[k + 1]) OBVIOUS
  <2>2. /\ Advances(t, more) /\ work[t] # <<>> /\ Head(work[t]).at = "link"
        /\ more \in Seq(Accesses) /\ (more = <<>> \/ more = <<a>>) /\ a.at = "purge"
    BY <1>9, <2>1 DEF Linked, Link, Purge
  <2>3. CASE more = <<a>>
    <3>1. a \in Accesses BY <2>2, <2>3, Joined
    <3> QED BY <3>1, <2>2, LastAdvance DEF IsLone
  <2>4. CASE more = <<>> BY <2>2, <2>4, PopAdvance
  <2> QED BY <2>2, <2>3, <2>4
<1>10. ASSUME NEW id, NEW asked, NEW room, NEW more, Took(t, id, asked, room, more)
       PROVE  WorkOrdered'
  <2>1. PICK a : a = Unlink(id, room) OBVIOUS
  <2>2. /\ Advances(t, more) /\ work[t] # <<>> /\ Head(work[t]).at = "take"
        /\ more \in Seq(Accesses) /\ (more = <<>> \/ more = <<a>>) /\ a.at = "unlink"
    BY <1>10, <2>1 DEF Took, Take, Unlink
  <2>3. CASE more = <<a>>
    <3>1. a \in Accesses BY <2>2, <2>3, Joined
    <3> QED BY <3>1, <2>2, LastAdvance DEF IsLone
  <2>4. CASE more = <<>> BY <2>2, <2>4, PopAdvance
  <2> QED BY <2>2, <2>3, <2>4
<1>11. ASSUME NEW id, NEW room, NEW ring, NEW more, Unlinked(t, id, room, ring, more)
       PROVE  WorkOrdered'
  <2>1. PICK a : a = Unring(room) OBVIOUS
  <2>2. /\ Advances(t, more) /\ work[t] # <<>> /\ Head(work[t]).at = "unlink"
        /\ more \in Seq(Accesses) /\ (more = <<>> \/ more = <<a>>) /\ a.at = "unring"
    BY <1>11, <2>1 DEF Unlinked, Unlink, Unring
  <2>3. CASE more = <<a>>
    <3>1. a \in Accesses BY <2>2, <2>3, Joined
    <3> QED BY <3>1, <2>2, LastAdvance DEF IsLone
  <2>4. CASE more = <<>> BY <2>2, <2>4, PopAdvance
  <2> QED BY <2>2, <2>3, <2>4
<1>12. ASSUME NEW room, NEW more, RingDropped(t, room, more) PROVE WorkOrdered'
  <2>1. /\ Advances(t, more) /\ more \in Seq(Accesses) /\ work[t] # <<>>
        /\ Head(work[t]).at = "dropring"
    BY <1>12 DEF RingDropped, DropRing
  <2>2. \A i \in 1 .. Len(more) : more[i].at = "purge"
    <3>1. Len(more) = Len(more) /\ \A i \in 1 .. Len(more) : more[i] = Purge(Ring(room)[i])
      BY <1>12 DEF RingDropped
    <3>2. \A x : Purge(x).at = "purge"
      BY DEF Purge
    <3> HIDE DEF Purge
    <3> QED BY <3>1, <3>2
  <2>3. Leading(more)
    BY <2>1, <2>2 DEF Leading, IsIndexing
  <2> QED BY <2>1, <2>3, CalmAdvance
<1>13. ASSUME NEW map, Cleared(t, map) PROVE WorkOrdered'
  BY <1>13, ClearAdvance
<1> QED
  BY <1>1, <1>2, <1>3, <1>4, <1>5, <1>6, <1>7, <1>8, <1>9, <1>10, <1>11, <1>12, <1>13
  DEF Accessed

(* What an operation begins with is in order. *)
LEMMA StartInOrder ==
  ASSUME NEW op, NEW p, Started(op, p)
  PROVE  /\ InOrder(p) \/ p = RestOfClear(0)
         /\ (\E i \in DOMAIN p : p[i].at = "clear") => op.op = "clear" /\ p = RestOfClear(0)
<1>1. ASSUME NEW id, NEW doc, NEW mode,
             p = <<Upsert("user", id, doc, mode), Refresh("iscurrent", id, doc, mode)>>
      PROVE  InOrder(p) /\ \A i \in DOMAIN p : p[i].at # "clear"
  <2>1. PICK a, b : a = Upsert("user", id, doc, mode) /\ b = Refresh("iscurrent", id, doc, mode)
    OBVIOUS
  <2>2. /\ a.at = "upsert" /\ a.kind = "user" /\ b.at = "iscurrent"
        /\ b = Refresh("iscurrent", a.id, a.doc, a.mode)
    BY <2>1 DEF Upsert, Refresh
  <2>3. p = <<a, b>> /\ DOMAIN p = {1, 2} /\ p[1] = a /\ p[2] = b /\ Len(p) = 2
    BY <1>1, <2>1
  <2> QED BY <2>2, <2>3 DEF InOrder, Placed, IsLone, IsIndexing
<1>2. ASSUME NEW id, NEW doc,
             p = <<Refresh("login", id, doc, "Merge"), Upsert("user", id, doc, "Merge")>>
      PROVE  InOrder(p) /\ \A i \in DOMAIN p : p[i].at # "clear"
  <2>1. PICK a, b : a = Refresh("login", id, doc, "Merge") /\ b = Upsert("user", id, doc, "Merge")
    OBVIOUS
  <2>2. /\ a.at = "login" /\ b.at = "upsert" /\ b = Upsert("user", a.id, a.doc, "Merge")
    BY <2>1 DEF Upsert, Refresh
  <2>3. p = <<a, b>> /\ DOMAIN p = {1, 2} /\ p[1] = a /\ p[2] = b /\ Len(p) = 2
    BY <1>2, <2>1
  <2> QED BY <2>2, <2>3 DEF InOrder, Placed, IsLone, IsIndexing
<1>3. \/ InOrder(p) /\ \A i \in DOMAIN p : p[i].at # "clear"
      \/ op.op = "clear" /\ p = RestOfClear(0)
  <2>1. \/ p = <<>>
        \/ \E a : a.at # "clear" /\ p = <<a>>
        \/ \E id, doc, mode :
             p = <<Upsert("user", id, doc, mode), Refresh("iscurrent", id, doc, mode)>>
        \/ \E id, doc :
             p = <<Refresh("login", id, doc, "Merge"), Upsert("user", id, doc, "Merge")>>
        \/ op.op = "clear" /\ p = RestOfClear(0)
    <3>1. /\ \A kind, id, doc, mode : Upsert(kind, id, doc, mode).at # "clear"
          /\ \A at, id, doc, mode : at # "clear" => Refresh(at, id, doc, mode).at # "clear"
          /\ \A kind, id, forget : DropDoc(kind, id, forget).at # "clear"
          /\ \A id, room : Take(id, room).at # "clear"
          /\ \A id, room, doc, mode : StoreMessage(id, room, doc, mode).at # "clear"
      BY DEF Upsert, Refresh, DropDoc, Take, StoreMessage
    <3>2. CASE op.op = "user"
      BY <3>1, <3>2, Zenon DEF Started
    <3>3. CASE op.op = "login"
      BY <3>1, <3>3, Zenon DEF Started
    <3>4. CASE op.op \notin {"user", "login"}
      <4>1. \/ p = <<>>
            \/ op.op = "clear" /\ p = RestOfClear(0)
            \/ p = <<Upsert(op.kind, op.id, op.doc, op.mode)>>
            \/ p = <<DropDoc(op.kind, op.id, op.kind = "user")>>
            \/ p = <<Take(op.id, op.room)>>
            \/ p = <<Take(op.id, None)>>
            \/ p = <<StoreMessage(op.id, op.room, op.doc, MessageMode(op))>>
        BY <3>4, Zenon DEF Started
      <4>2. ASSUME NEW a, a.at # "clear", p = <<a>>
            PROVE  \E b : b.at # "clear" /\ p = <<b>>
        BY <4>2
      <4>3. \/ p = <<>>
            \/ op.op = "clear" /\ p = RestOfClear(0)
            \/ \E b : b.at # "clear" /\ p = <<b>>
        <5>1. CASE p = <<Upsert(op.kind, op.id, op.doc, op.mode)>>
          BY <5>1, <3>1, <4>2
        <5>2. CASE p = <<DropDoc(op.kind, op.id, op.kind = "user")>>
          BY <5>2, <3>1, <4>2
        <5>3. CASE p = <<Take(op.id, op.room)>> \/ p = <<Take(op.id, None)>>
          BY <5>3, <3>1, <4>2
        <5>4. CASE p = <<StoreMessage(op.id, op.room, op.doc, MessageMode(op))>>
          BY <5>4, <3>1, <4>2
        <5> QED BY <4>1, <5>1, <5>2, <5>3, <5>4
      <4> QED BY <4>3
    <3> QED BY <3>2, <3>3, <3>4
  <2>2. CASE p = <<>>
    BY <2>2 DEF InOrder
  <2>3. ASSUME NEW a, a.at # "clear", p = <<a>>
        PROVE  InOrder(p) /\ \A i \in DOMAIN p : p[i].at # "clear"
    BY <2>3, LoneInOrder
  <2>4. CASE op.op = "clear" /\ p = RestOfClear(0)
    BY <2>4
  <2> QED
    <3>1. CASE \E a : a.at # "clear" /\ p = <<a>>
      BY <3>1, <2>3
    <3>2. CASE \E id, doc, mode :
             p = <<Upsert("user", id, doc, mode), Refresh("iscurrent", id, doc, mode)>>
      BY <3>2, <1>1, Zenon
    <3>3. CASE \E id, doc :
             p = <<Refresh("login", id, doc, "Merge"), Upsert("user", id, doc, "Merge")>>
      BY <3>3, <1>2, Zenon
    <3> QED BY <2>1, <2>2, <2>4, <3>1, <3>2, <3>3, Zenon
<1> QED BY <1>3

LEMMA BeginOrdered ==
  ASSUME TypeOK, WorkOrdered, NEW t \in Tasks, NEW op, NEW p, NEW about, Began(t, op, p, about)
  PROVE  WorkOrdered'
<1>1. /\ p \in Seq(Accesses) /\ Started(op, p) /\ about = (IF op.op = "clear" THEN Ids ELSE {op.id})
      /\ work'[t] = p /\ holds'[t] = (IF p = <<>> THEN {} ELSE about)
      /\ \A s \in Tasks \ {t} : work'[s] = work[s] /\ holds'[s] = holds[s]
  BY DEF Began
<1>2. /\ InOrder(p) \/ p = RestOfClear(0)
      /\ (\E i \in DOMAIN p : p[i].at = "clear") => op.op = "clear" /\ p = RestOfClear(0)
  BY <1>1, StartInOrder
<1>3. InOrder(p)
  <2>1. CASE p = RestOfClear(0)
    <3>1. \A i \in DOMAIN p : p[i].at = "clear" /\ p[1].at = "clear"
      <4>1. Len(p) = 9 /\ DOMAIN p = 1 .. 9 /\ \A i \in 1 .. 9 : p[i] = Clear(Maps[0 + i])
        BY <1>1, <2>1, ClearFacts, LenProperties
      <4> QED BY <4>1 DEF Clear
    <3> QED BY <3>1 DEF InOrder, Placed, IsLone, IsIndexing
  <2> QED BY <1>2, <2>1
<1>4. ClearsOnly(p, holds'[t])
  <2>1. CASE \E i \in DOMAIN p : p[i].at = "clear"
    <3>1. p = RestOfClear(0) /\ p # <<>> /\ holds'[t] = Ids
      BY <1>1, <1>2, <2>1
    <3>2. 0 \in 0 .. 8 OBVIOUS
    <3> QED BY <3>1, <3>2, ClearsMeans, Zenon
  <2>2. CASE ~ \E i \in DOMAIN p : p[i].at = "clear"
    BY <2>2 DEF ClearsOnly
  <2> QED BY <2>1, <2>2
<1> SUFFICES ASSUME NEW s \in Tasks
             PROVE  ClearsOnly(work'[s], holds'[s]) /\ InOrder(work'[s])
  BY DEF WorkOrdered, InOrder
<1>5. CASE s = t
  BY <1>1, <1>3, <1>4, <1>5
<1>6. CASE s # t
  BY <1>1, <1>6 DEF WorkOrdered, InOrder
<1> QED BY <1>5, <1>6

(***************************************************************************)
(* The base of all further invariants.                                     *)
(***************************************************************************)
Base == TypeOK /\ RacesNoticed /\ WorkOrdered

LEMMA BaseStays ==
  ASSUME Base, [Next]_vars
  PROVE  /\ Base'
         /\ \/ \E t \in Tasks : \E op, p, about : Began(t, op, p, about)
            \/ \E t \in Tasks : Accessed(t)
            \/ UNCHANGED vars
<1>1. TypeOK /\ RacesNoticed /\ WorkOrdered
  BY DEF Base
<1>2. \/ \E t \in Tasks : \E op, p, about : Began(t, op, p, about)
      \/ \E t \in Tasks : Accessed(t)
      \/ UNCHANGED vars
  BY <1>1, Steps
<1>3. RacesNoticed'
  BY <1>1, RacesStayNoticed
<1>4. TypeOK'
  BY <1>1, <1>2, BeginTyped, AccessTyped, StutterTyped
<1>5. WorkOrdered'
  <2>1. CASE UNCHANGED vars
    BY <1>1, <2>1 DEF WorkOrdered, vars
  <2> QED BY <1>1, <1>2, <2>1, BeginOrdered, AccessOrdered
<1> QED BY <1>2, <1>3, <1>4, <1>5 DEF Base

LEMMA BaseAtFirst == Init => Base
<1> SUFFICES ASSUME Init PROVE Base
  OBVIOUS
<1>1. \A t \in Tasks : DOMAIN work[t] = {} /\ holds[t] = {}
  BY DEF Init
<1>2. RacesNoticed
  <2>1. Contended(work, holds) = {}
    BY <1>1 DEF Contended, Touched
  <2>2. Shared(docs, work) = {}
    <3>1. \A k \in {"room", "user"} : \A i \in IdsOf(k) : NameOf(k, docs[k][i]) = None
      BY DEF Init, NameOf, Kinds
    <3>2. \A n \in Names : n # None
      BY NoneAssumption
    <3> QED BY <1>1, <3>1, <3>2 DEF Shared, Claims
  <2> QED BY <2>1, <2>2 DEF RacesNoticed
<1>3. WorkOrdered
  BY <1>1 DEF WorkOrdered, ClearsOnly
<1> QED BY <1>2, <1>3, InitTyped DEF Base

(***************************************************************************)
(* What is pending, before a step and after it, and by whom.               *)
(***************************************************************************)
LEMMA PendingMoves ==
  ASSUME TypeOK, NEW t \in Tasks, work[t] # <<>>, NEW more \in Seq(Accesses), Advances(t, more)
  PROVE  /\ \A a : Pending(a)' => a \in Range(more) \/ Pending(a)
         /\ \A a : Pending(a) => a = Head(work[t]) \/ Pending(a)'
         /\ \A a : a \in Range(more) => Pending(a)'
         /\ Pending(Head(work[t]))
<1>1. /\ work'[t] = more \o Tail(work[t]) /\ \A s \in Tasks \ {t} : work'[s] = work[s]
      /\ work[t] \in Seq(Accesses)
  BY DEF Advances, TypeOK
<1>2. /\ Range(work[t]) = {Head(work[t])} \cup Range(Tail(work[t]))
      /\ Range(work'[t]) = Range(more) \cup Range(Tail(work[t]))
  BY <1>1, Joined
<1>3. \A a : Pending(a)' <=> \E s \in Tasks : a \in Range(work'[s])
  BY DEF Pending
<1>4. \A a : Pending(a) <=> \E s \in Tasks : a \in Range(work[s])
  BY DEF Pending
<1> QED BY <1>1, <1>2, <1>3, <1>4

(* An id no two tasks have worked on at the same time. *)
Touches(t, id) == id \in holds[t] \/ \E a \in Range(work[t]) : a.id = id
Alone(t, id) == \A s \in Tasks \ {t} : \A a \in Range(work[s]) : a.id # id /\ a.at # "clear"

LEMMA Touching == \A t, id : id \in Touched(work, holds, t) <=> Touches(t, id)
BY DEF Touches, Touched, Range

LEMMA Sole ==
  Base => \A t \in Tasks : \A id \in Ids \ raced : Touches(t, id) => Alone(t, id)
<1> SUFFICES ASSUME Base, NEW t \in Tasks, NEW id \in Ids \ raced, Touches(t, id),
                    NEW s \in Tasks \ {t}, NEW a \in Range(work[s])
             PROVE  a.id # id /\ a.at # "clear"
  BY DEF Alone
<1>1. ~ Touches(s, id)
  BY Touching DEF Base, RacesNoticed, Contended
<1>2. a.id # id
  BY <1>1 DEF Touches
<1>3. a.at # "clear"
  <2> SUFFICES ASSUME a.at = "clear" PROVE FALSE
    OBVIOUS
  <2>1. \E i \in DOMAIN work[s] : work[s][i].at = "clear"
    BY DEF Range
  <2>2. holds[s] = Ids
    BY <2>1, ClearsMeans, Zenon DEF Base, WorkOrdered
  <2> QED BY <1>1, <2>2 DEF Touches
<1> QED BY <1>2, <1>3

LEMMA SettledMeans ==
  ASSUME Base, NEW id \in Ids, Settled(id)
  PROVE  id \notin raced /\ \A a : Pending(a) => a.id # id /\ a.at # "clear"
<1>1. id \notin raced /\ \A t \in Tasks : ~ Touches(t, id)
  BY Touching DEF Settled
<1>2. ASSUME NEW a, NEW s \in Tasks, a \in Range(work[s])
      PROVE  a.id # id /\ a.at # "clear"
  <2>1. a.id # id
    BY <1>1, <1>2 DEF Touches
  <2>2. a.at # "clear"
    <3> SUFFICES ASSUME a.at = "clear" PROVE FALSE
      OBVIOUS
    <3>1. \E i \in DOMAIN work[s] : work[s][i].at = "clear"
      BY <1>2 DEF Range
    <3>2. holds[s] = Ids
      BY <3>1, ClearsMeans, Zenon DEF Base, WorkOrdered
    <3> QED BY <1>1, <3>2 DEF Touches
  <2> QED BY <2>1, <2>2
<1> QED BY <1>1, <1>2 DEF Pending

LEMMA Acting ==
  ASSUME Base, NEW t \in Tasks, work[t] # <<>>, NEW id \in Ids \ raced, Head(work[t]).id = id
  PROVE  \A a : Pending(a) /\ (a.id = id \/ a.at = "clear") => a \in Range(work[t])
<1>1. work[t] \in Seq(Accesses)
  BY DEF Base, TypeOK
<1>2. Head(work[t]) \in Range(work[t])
  BY <1>1, Joined
<1>3. Alone(t, id)
  BY <1>2, Sole DEF Touches
<1> QED BY <1>3 DEF Alone, Pending

(* What may follow the first access. *)
LEMMA Following ==
  ASSUME Base, NEW t \in Tasks, work[t] # <<>>, Head(work[t]).at # "clear"
  PROVE  /\ \A a \in Range(work[t]) : a.at # "clear"
         /\ Head(work[t]).at # "unindex" =>
              \A a \in Range(Tail(work[t])) : ~ IsIndexing(a) /\ a.at # "forget"
         /\ ~ IsIndexing(Head(work[t])) => \A a \in Range(Tail(work[t])) : a.at # "count"
         /\ \A a \in Range(Tail(work[t])) : a.at # "note" /\ ~ IsLone(a)
         /\ ~ IsIndexing(Head(work[t])) /\ Head(work[t]).at # "login" =>
              \A a \in Range(Tail(work[t])) :
                 /\ a.at \in {"drop", "purge", "dropring", "iscurrent"}
                 /\ a.at = "drop" => ~ a.forget
<1>1. PICK w : w = work[t] OBVIOUS
<1>2. /\ \A i \in DOMAIN w : w[i].at # "clear"
      /\ w \in Seq(Accesses) /\ InOrder(w) /\ Head(w) = w[1] /\ 1 \in DOMAIN w
  BY <1>1, Unclear DEF Base
<1>3. /\ Range(Tail(w)) = {w[i] : i \in 2 .. Len(w)} /\ DOMAIN w = 1 .. Len(w) /\ Len(w) \in Nat
  BY <1>1, <1>2, Joined, LenProperties
<1>4. \A a \in Range(w) : a.at # "clear"
  BY <1>2 DEF Range
<1>5. ASSUME NEW i \in 2 .. Len(w)
      PROVE  /\ w[1].at # "unindex" => ~ IsIndexing(w[i]) /\ w[i].at # "forget"
             /\ ~ IsIndexing(w[1]) => w[i].at # "count"
             /\ w[i].at # "note" /\ ~ IsLone(w[i])
  <2>1. Placed(w, i) /\ 1 \in 1 .. i - 1 /\ i # 1 /\ Len(w) # 1
    BY <1>2, <1>3 DEF InOrder
  <2> QED BY <2>1 DEF Placed
<1>6. ~ IsIndexing(w[1]) /\ w[1].at # "login" =>
        \A i \in 2 .. Len(w) : /\ w[i].at \in {"drop", "purge", "dropring", "iscurrent"}
                               /\ w[i].at = "drop" => ~ w[i].forget
  BY <1>1, <1>2, CalmTail DEF Calm
<1> QED BY <1>1, <1>2, <1>3, <1>4, <1>5, <1>6

LEMMA PendingSame ==
  ASSUME TypeOK, NEW t \in Tasks, work[t] # <<>>, NEW more \in Seq(Accesses), Advances(t, more)
  PROVE  \A a : a # Head(work[t]) /\ a \notin Range(more) => (Pending(a)' <=> Pending(a))
BY PendingMoves

(***************************************************************************)
(* The name indexes.                                                       *)
(***************************************************************************)
LEMMA IndexingForms ==
  \A k, i, n : /\ Unindex(k, i, n).at = "unindex" /\ Enindex(k, i, n).at = "enindex"
               /\ Unindex(k, i, n).id = i /\ Enindex(k, i, n).id = i
               /\ Unindex(k, i, n).kind = k /\ Enindex(k, i, n).kind = k
               /\ Unindex(k, i, n).name = n /\ Enindex(k, i, n).name = n
BY DEF Unindex, Enindex

(* What has to do neither with the names of an entity nor with the clearing of a map. *)
LEMMA NameApart ==
  ASSUME TypeOK, NEW t \in Tasks, work[t] # <<>>, NEW more \in Seq(Accesses), Advances(t, more),
         NEW k \in {"room", "user"}, NEW i \in IdsOf(k), NameFollows(k, i),
         docs'[k][i] = docs[k][i], \A n \in Names : index'[k][n] = i <=> index[k][n] = i,
         \A n \in Names : Head(work[t]) # Unindex(k, i, n) /\ Unindex(k, i, n) \notin Range(more),
         \A n \in Names : Head(work[t]) # Enindex(k, i, n) /\ Enindex(k, i, n) \notin Range(more),
         Head(work[t]).at # "clear", \A a \in Range(more) : a.at # "clear"
  PROVE  NameFollows(k, i)'
<1>1. \A a : a # Head(work[t]) /\ a \notin Range(more) => (Pending(a)' <=> Pending(a))
  BY PendingSame
<1>2. \A n \in Names : /\ Pending(Unindex(k, i, n))' <=> Pending(Unindex(k, i, n))
                       /\ Pending(Enindex(k, i, n))' <=> Pending(Enindex(k, i, n))
  BY <1>1
<1>3. \A map : Clearing(map)' <=> Clearing(map)
  <2>1. \A map : Clear(map).at = "clear"
    BY DEF Clear
  <2>2. \A map : Clear(map) # Head(work[t]) /\ Clear(map) \notin Range(more)
    BY <2>1
  <2> QED BY <1>1, <2>2 DEF Clearing
<1>4. shared \subseteq shared'
  BY DEF Advances
<1> QED BY <1>2, <1>3, <1>4 DEF NameFollows

(* An entity one task alone is about to store or to drop: its index is exact. *)
LEMMA NameExact ==
  ASSUME Base, NEW t \in Tasks, work[t] # <<>>,
         NEW k \in {"room", "user"}, NEW i \in IdsOf(k) \ raced,
         Head(work[t]).at \in {"upsert", "drop"}, Head(work[t]).id = i, NameFollows(k, i)
  PROVE  /\ \A n \in Names : ~ Pending(Unindex(k, i, n)) /\ ~ Pending(Enindex(k, i, n))
         /\ \A map : ~ Clearing(map)
         /\ \A n \in Names : index[k][n] = i => NameOf(k, docs[k][i]) = n
         /\ \A n \in Names : NameOf(k, docs[k][i]) = n => n \in shared \/ index[k][n] = i
<1>1. i \in Ids
  BY DEF IdsOf, Ids
<1>2. \A a : Pending(a) /\ (a.id = i \/ a.at = "clear") => a \in Range(work[t])
  BY <1>1, Acting
<1>3. /\ \A a \in Range(work[t]) : a.at # "clear"
      /\ \A a \in Range(Tail(work[t])) : ~ IsIndexing(a)
  BY Following
<1>4. Range(work[t]) = {Head(work[t])} \cup Range(Tail(work[t]))
  BY Joined DEF Base, TypeOK
<1>5. \A n \in Names : ~ Pending(Unindex(k, i, n)) /\ ~ Pending(Enindex(k, i, n))
  BY <1>2, <1>3, <1>4, IndexingForms DEF IsIndexing
<1>6. \A map : ~ Clearing(map)
  <2>1. \A map : Clear(map).at = "clear"
    BY DEF Clear
  <2> QED BY <1>2, <1>3, <2>1 DEF Clearing
<1> QED BY <1>5, <1>6 DEF NameFollows

LEMMA NameUpserted ==
  ASSUME Base, NEW t \in Tasks,
         NEW kind, NEW id, NEW doc, NEW mode, NEW more, Upserted(t, kind, id, doc, mode, more),
         NEW k \in {"room", "user"}, NEW i \in IdsOf(k) \ raced, NameFollows(k, i)
  PROVE  NameFollows(k, i)'
<1>1. /\ work[t] # <<>> /\ Head(work[t]) = Upsert(kind, id, doc, mode)
      /\ kind \in Kinds /\ id \in IdsOf(kind)
      /\ Advances(t, more) /\ more \in Seq(Accesses) /\ index' = index
      /\ \A q \in Kinds : \A j \in IdsOf(q) : q # kind \/ j # id => docs'[q][j] = docs[q][j]
  BY DEF Upserted, UpsertMore, DocPut
<1>2. PICK old, new : /\ old = NameOf(kind, docs[kind][id])
                      /\ new = NameOf(kind, Stored(docs[kind][id], doc, mode))
  OBVIOUS
<1>3. /\ docs'[kind][id] = Stored(docs[kind][id], doc, mode)
      /\ \A a : a \in Range(more) <=>
           \/ a = Unindex(kind, id, old) /\ old # None /\ old # new
           \/ a = Enindex(kind, id, new) /\ new # None /\ old # new
           \/ a = CountUsers(id) /\ kind = "user" /\ docs[kind][id] = None /\ setup.userCapacity > 0
  BY <1>2 DEF Upserted, UpsertMore, DocPut
<1>4. Head(work[t]).at = "upsert" /\ Head(work[t]).id = id
  BY <1>1 DEF Upsert
<1>5. /\ TypeOK /\ CountUsers(id).at = "count"
      /\ k \in Kinds
  BY DEF Base, CountUsers, Kinds
<1>6. CASE k # kind \/ i # id
  <2>1. docs'[k][i] = docs[k][i]
    BY <1>1, <1>5, <1>6
  <2>2. \A n \in Names : Unindex(k, i, n) \notin Range(more) /\ Enindex(k, i, n) \notin Range(more)
    BY <1>3, <1>5, <1>6, IndexingForms
  <2>3. \A a \in Range(more) : a.at # "clear"
    BY <1>3, <1>5, IndexingForms
  <2> QED BY <1>1, <1>4, <1>5, <2>1, <2>2, <2>3, NameApart, IndexingForms
<1>7. CASE k = kind /\ i = id
  <2>1. /\ \A n \in Names : ~ Pending(Unindex(k, i, n)) /\ ~ Pending(Enindex(k, i, n))
        /\ \A map : ~ Clearing(map)
        /\ \A n \in Names : index[k][n] = i => old = n
        /\ \A n \in Names : old = n => n \in shared \/ index[k][n] = i
    BY <1>1, <1>2, <1>4, <1>7, NameExact
  <2>2. \A a : (a \in Range(more) => Pending(a)') /\ (Pending(a)' => a \in Range(more)
          \/ Pending(a))
    BY <1>1, <1>5, PendingMoves
  <2>3. \A n \in Names : n # None
    BY NoneAssumption
  <2>4. \A map : ~ Clearing(map)'
    <3>1. \A map : Clear(map).at = "clear"
      BY DEF Clear
    <3>2. \A map : Clear(map) \notin Range(more)
      BY <1>3, <1>5, <3>1, IndexingForms
    <3> QED BY <2>1, <2>2, <3>2 DEF Clearing
  <2>5. \A n \in Names : /\ Pending(Unindex(k, i, n))' <=> n = old /\ old # new
                         /\ Pending(Enindex(k, i, n))' <=> n = new /\ old # new
    BY <1>3, <1>5, <1>7, <2>1, <2>2, <2>3, IndexingForms
  <2>6. NameOf(k, docs'[k][i]) = new /\ index' = index /\ shared \subseteq shared'
    BY <1>1, <1>2, <1>3, <1>7 DEF Advances
  <2> QED BY <2>1, <2>4, <2>5, <2>6 DEF NameFollows
<1> QED BY <1>6, <1>7

LEMMA NameDropped ==
  ASSUME Base, NEW t \in Tasks,
         NEW kind, NEW id, NEW forget, NEW more, Dropped(t, kind, id, forget, more),
         NEW k \in {"room", "user"}, NEW i \in IdsOf(k) \ raced, NameFollows(k, i)
  PROVE  NameFollows(k, i)'
<1>1. /\ work[t] # <<>> /\ Head(work[t]) = DropDoc(kind, id, forget)
      /\ kind \in Kinds /\ id \in IdsOf(kind)
      /\ Advances(t, more) /\ more \in Seq(Accesses) /\ index' = index
      /\ \A q \in Kinds : \A j \in IdsOf(q) : q # kind \/ j # id => docs'[q][j] = docs[q][j]
      /\ docs'[kind][id] = None
  BY DEF Dropped, DropMore, DocPut
<1>2. PICK old : old = NameOf(kind, docs[kind][id])
  OBVIOUS
<1>3. \A a : a \in Range(more) <=>
        \/ a = Unindex(kind, id, old) /\ old # None
        \/ a = Forget(id) /\ forget /\ docs[kind][id] # None /\ setup.userCapacity > 0
        \/ a \in {DropDoc("subscription", id, FALSE), DropRing(id)} /\ kind = "room"
  BY <1>2 DEF Dropped, DropMore
<1>4. Head(work[t]).at = "drop" /\ Head(work[t]).id = id
  BY <1>1 DEF DropDoc
<1>5. /\ TypeOK /\ Forget(id).at = "forget" /\ k \in Kinds
      /\ DropDoc("subscription", id, FALSE).at = "drop" /\ DropRing(id).at = "dropring"
  BY DEF Base, Forget, DropDoc, DropRing, Kinds
<1>6. \A a \in Range(more) :
        \/ a = Unindex(kind, id, old) /\ old # None
        \/ a.at \in {"forget", "drop", "dropring"}
  <2>1. PICK f, d, r : /\ f = Forget(id) /\ d = DropDoc("subscription", id, FALSE)
                       /\ r = DropRing(id)
    OBVIOUS
  <2>2. f.at = "forget" /\ d.at = "drop" /\ r.at = "dropring"
    BY <1>5, <2>1
  <2>3. \A a \in Range(more) : (a = Unindex(kind, id, old) /\ old # None) \/ a \in {f, d, r}
    BY <1>3, <2>1
  <2> QED BY <2>2, <2>3
<1>7. old # None => Unindex(kind, id, old) \in Range(more)
  BY <1>3
<1>8. CASE k # kind \/ i # id
  <2>1. docs'[k][i] = docs[k][i]
    BY <1>1, <1>5, <1>8
  <2>2. \A n \in Names : Unindex(k, i, n) \notin Range(more) /\ Enindex(k, i, n) \notin Range(more)
    BY <1>8, <1>6, IndexingForms
  <2>3. \A a \in Range(more) : a.at # "clear"
    BY <1>6, IndexingForms
  <2> QED BY <1>1, <1>4, <1>5, <2>1, <2>2, <2>3, NameApart, IndexingForms
<1>9. CASE k = kind /\ i = id
  <2>1. /\ \A n \in Names : ~ Pending(Unindex(k, i, n)) /\ ~ Pending(Enindex(k, i, n))
        /\ \A map : ~ Clearing(map)
        /\ \A n \in Names : index[k][n] = i => old = n
    BY <1>1, <1>2, <1>4, <1>9, NameExact
  <2>2. \A a : (a \in Range(more) => Pending(a)') /\ (Pending(a)' => a \in Range(more)
          \/ Pending(a))
    BY <1>1, <1>5, PendingMoves
  <2>3. \A n \in Names : n # None
    BY NoneAssumption
  <2>4. \A map : ~ Clearing(map)'
    <3>1. \A map : Clear(map).at = "clear"
      BY DEF Clear
    <3>2. \A map : Clear(map) \notin Range(more)
      BY <1>6, <3>1, IndexingForms
    <3> QED BY <2>1, <2>2, <3>2 DEF Clearing
  <2>5. \A n \in Names : /\ n = old => Pending(Unindex(k, i, n))'
                         /\ ~ Pending(Enindex(k, i, n))'
    BY <1>9, <1>6, <1>7, <2>1, <2>2, <2>3, IndexingForms
  <2>6. NameOf(k, docs'[k][i]) = None /\ index' = index
    BY <1>1, <1>9 DEF NameOf
  <2> QED BY <2>1, <2>3, <2>4, <2>5, <2>6 DEF NameFollows
<1> QED BY <1>8, <1>9

LEMMA NameUnindexed ==
  ASSUME Base, NEW t \in Tasks, NEW kind, NEW id, NEW name, Unindexed(t, kind, id, name),
         NEW k \in {"room", "user"}, NEW i \in IdsOf(k) \ raced, NameFollows(k, i)
  PROVE  NameFollows(k, i)'
<1>1. /\ work[t] # <<>> /\ Head(work[t]) = Unindex(kind, id, name)
      /\ kind \in {"room", "user"} /\ id \in IdsOf(kind) /\ name \in Names
      /\ Advances(t, <<>>) /\ docs' = docs
      /\ index'[kind][name] = IF index[kind][name] = id THEN None ELSE index[kind][name]
      /\ \A q \in {"room", "user"} : \A n \in Names :
           q # kind \/ n # name => index'[q][n] = index[q][n]
  BY DEF Unindexed, NamePut
<1>2. <<>> \in Seq(Accesses) /\ Range(<<>>) = {} /\ TypeOK
  BY Singles DEF Base
<1>3. /\ \A a : a # Head(work[t]) => (Pending(a)' <=> Pending(a))
      /\ Pending(Head(work[t])) /\ \A a : Pending(a)' => Pending(a)
  BY <1>1, <1>2, PendingSame, PendingMoves
<1>4. i # None
  BY NoneAssumption DEF IdsOf, Ids
<1>5. /\ \A map : Clearing(map)' <=> Clearing(map)
      /\ \A n \in Names : Pending(Enindex(k, i, n))' <=> Pending(Enindex(k, i, n))
      /\ \A n \in Names : k # kind \/ i # id \/ n # name =>
           (Pending(Unindex(k, i, n))' <=> Pending(Unindex(k, i, n)))
      /\ \A n \in Names : Pending(Unindex(k, i, n))' => Pending(Unindex(k, i, n))
  <2>1. \A map : Clear(map).at = "clear"
    BY DEF Clear
  <2>2. \A map : Clear(map) # Head(work[t])
    BY <1>1, <2>1, IndexingForms
  <2>3. \A map : Clearing(map)' <=> Clearing(map)
    BY <1>3, <2>2 DEF Clearing
  <2>4. \A n \in Names : Pending(Enindex(k, i, n))' <=> Pending(Enindex(k, i, n))
    BY <1>1, <1>3, IndexingForms
  <2>5. \A n \in Names : k # kind \/ i # id \/ n # name => Unindex(k, i, n) # Head(work[t])
    BY <1>1, IndexingForms
  <2> QED BY <1>3, <2>3, <2>4, <2>5
<1>6. PICK doc : doc = NameOf(k, docs[k][i]) /\ doc = NameOf(k, docs'[k][i])
  BY <1>1
<1>7. /\ k = kind /\ i = id => doc # name
      /\ \A n \in Names : index'[k][n] = i => index[k][n] = i /\ ~ (k = kind /\ i = id /\ n = name)
      /\ \A n \in Names : index[k][n] = i => index'[k][n] = i \/ (k = kind /\ i = id /\ n = name)
  BY <1>1, <1>3, <1>4, <1>6 DEF NameFollows
<1>8. shared \subseteq shared' /\ docs'[k][i] = docs[k][i]
  BY <1>1 DEF Advances
<1>9. ASSUME NEW n \in Names
      PROVE  /\ Pending(Unindex(k, i, n))' => doc # n
             /\ Pending(Enindex(k, i, n))' => doc = n
             /\ index'[k][n] = i =>
                  doc = n \/ Pending(Unindex(k, i, n))' \/ Clearing(<<"index", k>>)'
             /\ doc = n => n \in shared' \/ index'[k][n] = i \/ Pending(Enindex(k, i, n))'
  <2>1. /\ Pending(Unindex(k, i, n)) => doc # n
        /\ Pending(Enindex(k, i, n)) => doc = n
        /\ index[k][n] = i => doc = n \/ Pending(Unindex(k, i, n)) \/ Clearing(<<"index", k>>)
        /\ doc = n => n \in shared \/ index[k][n] = i \/ Pending(Enindex(k, i, n))
    BY <1>6 DEF NameFollows
  <2> QED BY <1>5, <1>7, <1>8, <2>1
<1>10. Clearing(<<"index", k>>)' => docs'[k][i] = None \/ Clearing(<<"docs", k>>)'
  BY <1>5, <1>8 DEF NameFollows
<1> QED BY <1>6, <1>9, <1>10 DEF NameFollows

LEMMA NameEnindexed ==
  ASSUME Base, NEW t \in Tasks, NEW kind, NEW id, NEW name, Enindexed(t, kind, id, name),
         NEW k \in {"room", "user"}, NEW i \in IdsOf(k) \ raced, NameFollows(k, i)
  PROVE  NameFollows(k, i)'
<1>1. /\ work[t] # <<>> /\ Head(work[t]) = Enindex(kind, id, name)
      /\ kind \in {"room", "user"} /\ id \in IdsOf(kind) /\ name \in Names
      /\ Advances(t, <<>>) /\ docs' = docs
      /\ index'[kind][name] = id
      /\ \A q \in {"room", "user"} : \A n \in Names :
           q # kind \/ n # name => index'[q][n] = index[q][n]
  BY DEF Enindexed, NamePut
<1>2. <<>> \in Seq(Accesses) /\ Range(<<>>) = {} /\ TypeOK
  BY Singles DEF Base
<1>3. /\ \A a : a # Head(work[t]) => (Pending(a)' <=> Pending(a))
      /\ Pending(Head(work[t])) /\ \A a : Pending(a)' => Pending(a)
  BY <1>1, <1>2, PendingSame, PendingMoves
<1>4. /\ \A map : Clearing(map)' <=> Clearing(map)
      /\ \A n \in Names : Pending(Unindex(k, i, n))' <=> Pending(Unindex(k, i, n))
      /\ \A n \in Names : k # kind \/ i # id \/ n # name =>
           (Pending(Enindex(k, i, n))' <=> Pending(Enindex(k, i, n)))
      /\ \A n \in Names : Pending(Enindex(k, i, n))' => Pending(Enindex(k, i, n))
  <2>1. \A map : Clear(map).at = "clear"
    BY DEF Clear
  <2>2. \A map : Clear(map) # Head(work[t])
    BY <1>1, <2>1, IndexingForms
  <2>3. \A map : Clearing(map)' <=> Clearing(map)
    BY <1>3, <2>2 DEF Clearing
  <2>4. \A n \in Names : Pending(Unindex(k, i, n))' <=> Pending(Unindex(k, i, n))
    BY <1>1, <1>3, IndexingForms
  <2>5. \A n \in Names : k # kind \/ i # id \/ n # name => Enindex(k, i, n) # Head(work[t])
    BY <1>1, IndexingForms
  <2> QED BY <1>3, <2>3, <2>4, <2>5
<1>5. PICK doc : doc = NameOf(k, docs[k][i]) /\ doc = NameOf(k, docs'[k][i])
  BY <1>1
<1>6. /\ k = kind /\ i = id => doc = name
      /\ \A n \in Names : index'[k][n] = i => index[k][n] = i \/ doc = n
  BY <1>1, <1>3, <1>5 DEF NameFollows
<1>7. shared \subseteq shared' /\ docs'[k][i] = docs[k][i]
  BY <1>1 DEF Advances
(* Another document's name goes the same way: the two share it. *)
<1>8. k = kind /\ i # id /\ doc = name => name \in shared
  <2> SUFFICES ASSUME k = kind, i # id, doc = name PROVE name \in shared
    OBVIOUS
  <2>1. Claims(docs, work, k, i, name)
    BY <1>5 DEF Claims
  <2>2. PICK j : j \in DOMAIN work[t] /\ work[t][j] = Enindex(k, id, name)
    <3>1. Head(work[t]) \in Range(work[t])
      BY <1>1, <1>2, Joined DEF TypeOK
    <3> QED BY <1>1, <3>1 DEF Range
  <2>3. Claims(docs, work, k, id, name)
    BY <2>2, Zenon DEF Claims
  <2>4. name \in Shared(docs, work)
    BY <1>1, <2>1, <2>3, Zenon DEF Shared
  <2> QED BY <2>4 DEF Base, RacesNoticed
<1>9. ASSUME NEW n \in Names
      PROVE  /\ Pending(Unindex(k, i, n))' => doc # n
             /\ Pending(Enindex(k, i, n))' => doc = n
             /\ index'[k][n] = i =>
                  doc = n \/ Pending(Unindex(k, i, n))' \/ Clearing(<<"index", k>>)'
             /\ doc = n => n \in shared' \/ index'[k][n] = i \/ Pending(Enindex(k, i, n))'
  <2>1. /\ Pending(Unindex(k, i, n)) => doc # n
        /\ Pending(Enindex(k, i, n)) => doc = n
        /\ index[k][n] = i => doc = n \/ Pending(Unindex(k, i, n)) \/ Clearing(<<"index", k>>)
        /\ doc = n => n \in shared \/ index[k][n] = i \/ Pending(Enindex(k, i, n))
    BY <1>5 DEF NameFollows
  <2>2. doc = n => n \in shared' \/ index'[k][n] = i \/ Pending(Enindex(k, i, n))'
    <3>1. CASE k = kind /\ i = id
      BY <1>1, <1>6, <3>1
    <3>2. CASE k = kind /\ i # id /\ n = name
      BY <1>8, <1>7, <3>2
    <3>3. CASE k # kind \/ (i # id /\ n # name)
      BY <1>1, <1>4, <1>7, <2>1, <3>3
    <3> QED BY <3>1, <3>2, <3>3
  <2> QED BY <1>4, <1>6, <2>1, <2>2
<1>10. Clearing(<<"index", k>>)' => docs'[k][i] = None \/ Clearing(<<"docs", k>>)'
  BY <1>4, <1>7 DEF NameFollows
<1> QED BY <1>5, <1>9, <1>10 DEF NameFollows

(***************************************************************************)
(* Cache::clear: the task that clears works on every id.                   *)
(***************************************************************************)
LEMMA MapNames ==
  /\ Maps[1] = <<"docs", "room">> /\ Maps[2] = <<"index", "room">>
  /\ Maps[3] = <<"docs", "user">> /\ Maps[4] = <<"index", "user">>
  /\ Maps[5] = <<"docs", "subscription">> /\ Maps[6] = <<"messages">> /\ Maps[7] = <<"rings">>
  /\ Maps[8] = <<"current">> /\ Maps[9] = <<"order">>
  /\ \A i, j \in 1 .. 9 : Maps[i] = Maps[j] => i = j
BY DEF Maps

LEMMA ClearingAlone ==
  ASSUME Base, NEW t \in Tasks, NEW map, Cleared(t, map), NEW id \in Ids \ raced
  PROVE  \E n \in 1 .. 9 :
           /\ map = Maps[n]
           /\ \A a : Pending(a) /\ a.id = id => FALSE
           /\ \A m \in 1 .. 9 : /\ Clearing(Maps[m]) <=> m >= n
                                /\ Clearing(Maps[m])' <=> m > n
<1>1. TypeOK /\ WorkOrdered
  BY DEF Base
<1>2. PICK n \in 1 .. 9 : /\ map = Maps[n] /\ holds[t] = Ids
                          /\ Range(work[t]) = {Clear(Maps[i]) : i \in n .. 9}
                          /\ Range(work'[t]) = {Clear(Maps[i]) : i \in n + 1 .. 9}
  BY <1>1, ClearAdvance
<1>3. /\ \A s \in Tasks \ {t} : work'[s] = work[s]
  BY DEF Cleared, Advances
<1>4. Alone(t, id)
  BY <1>2, Sole DEF Touches
<1>5. \A m : Clear(m).at = "clear" /\ Clear(m).id = None /\ Clear(m).map = m
  BY DEF Clear
<1>6. ASSUME NEW a, Pending(a), a.id = id PROVE FALSE
  <2>1. a \in Range(work[t])
    BY <1>4, <1>6 DEF Pending, Alone
  <2>2. a.id = None
    BY <1>2, <1>5, <2>1
  <2> QED BY <1>6, <2>2, NoneAssumption
<1>7. \A m : /\ Clearing(m) <=> Clear(m) \in Range(work[t])
             /\ Clearing(m)' <=> Clear(m) \in Range(work'[t])
  BY <1>3, <1>4, <1>5 DEF Alone, Clearing, Pending
<1>8. ASSUME NEW m \in 1 .. 9
      PROVE  /\ Clearing(Maps[m]) <=> m >= n
             /\ Clearing(Maps[m])' <=> m > n
  <2>1. \A i \in 1 .. 9 : Clear(Maps[i]) = Clear(Maps[m]) => i = m
    BY <1>5, MapNames
  <2>2. Clear(Maps[m]) \in Range(work[t]) <=> m \in n .. 9
    BY <1>2, <2>1
  <2>3. Clear(Maps[m]) \in Range(work'[t]) <=> m \in n + 1 .. 9
    BY <1>2, <2>1
  <2> QED BY <1>7, <2>2, <2>3
<1> QED BY <1>2, <1>6, <1>8

LEMMA NameCleared ==
  ASSUME Base, NEW t \in Tasks, NEW map, Cleared(t, map),
         NEW k \in {"room", "user"}, NEW i \in IdsOf(k) \ raced, NameFollows(k, i)
  PROVE  NameFollows(k, i)'
<1>1. PICK n \in 1 .. 9 :
        /\ map = Maps[n]
        /\ \A a : Pending(a) /\ a.id = i => FALSE
        /\ \A m \in 1 .. 9 : /\ Clearing(Maps[m]) <=> m >= n
                             /\ Clearing(Maps[m])' <=> m > n
  BY ClearingAlone DEF IdsOf, Ids
<1>2. PICK m \in {1, 3} : Maps[m] = <<"docs", k>> /\ Maps[m + 1] = <<"index", k>>
  BY MapNames
<1>3. m \in 1 .. 9 /\ m + 1 \in 1 .. 9 /\ (map = <<"docs", k>> <=> n = m)
        /\ (map = <<"index", k>> <=> n = m + 1)
  BY <1>1, <1>2, MapNames
<1>4. /\ \A q \in Names : ~ Pending(Unindex(k, i, q)) /\ ~ Pending(Enindex(k, i, q))
      /\ Clearing(<<"docs", k>>) <=> m >= n
      /\ Clearing(<<"docs", k>>)' <=> m > n
      /\ Clearing(<<"index", k>>) <=> m + 1 >= n
      /\ Clearing(<<"index", k>>)' <=> m + 1 > n
  <2>1. \A q \in Names : ~ Pending(Unindex(k, i, q)) /\ ~ Pending(Enindex(k, i, q))
    BY <1>1, IndexingForms
  <2>2. /\ Clearing(Maps[m]) <=> m >= n
        /\ Clearing(Maps[m])' <=> m > n
        /\ Clearing(Maps[m + 1]) <=> m + 1 >= n
        /\ Clearing(Maps[m + 1])' <=> m + 1 > n
    BY <1>1, <1>3
  <2>3. PICK d, x : d = <<"docs", k>> /\ x = <<"index", k>> /\ d = Maps[m] /\ x = Maps[m + 1]
    BY <1>2
  <2>4. /\ Clearing(d) <=> m >= n
        /\ Clearing(d)' <=> m > n
        /\ Clearing(x) <=> m + 1 >= n
        /\ Clearing(x)' <=> m + 1 > n
    BY <2>2, <2>3, Zenon
  <2> QED BY <2>1, <2>3, <2>4
<1>5. /\ docs'[k] = IF map = <<"docs", k>> THEN [j \in IdsOf(k) |-> None] ELSE docs[k]
      /\ index'[k] = IF map = <<"index", k>> THEN [q \in Names |-> None] ELSE index[k]
      /\ work[t] # <<>> /\ Advances(t, <<>>) /\ k \in Kinds
  BY DEF Cleared, Kinds
<1>6. \A q \in Names : ~ Pending(Unindex(k, i, q))' /\ ~ Pending(Enindex(k, i, q))'
  <2>1. <<>> \in Seq(Accesses) /\ Range(<<>>) = {} /\ TypeOK
    BY Singles DEF Base
  <2> QED BY <1>4, <1>5, <2>1, PendingMoves
<1>7. PICK name : name = NameOf(k, docs[k][i]) OBVIOUS
<1>8. /\ docs'[k][i] = IF n = m THEN None ELSE docs[k][i]
      /\ \A q \in Names : index'[k][q] = IF n = m + 1 THEN None ELSE index[k][q]
  BY <1>3, <1>5
<1>9. PICK new : /\ new = NameOf(k, docs'[k][i])
                 /\ n = m => new = None
                 /\ n # m => new = name
  BY <1>7, <1>8 DEF NameOf
<1>10. /\ \A q \in Names : index[k][q] = i => name = q \/ m + 1 >= n
       /\ \A q \in Names : name = q => q \in shared \/ index[k][q] = i
       /\ m + 1 >= n => docs[k][i] = None \/ m >= n
       /\ docs[k][i] = None => name = None
       /\ shared \subseteq shared' /\ i # None /\ \A q \in Names : q # None
  <2>1. /\ \A q \in Names : index[k][q] = i => name = q \/ Clearing(<<"index", k>>)
        /\ \A q \in Names : name = q => q \in shared \/ index[k][q] = i
        /\ Clearing(<<"index", k>>) => docs[k][i] = None \/ Clearing(<<"docs", k>>)
    BY <1>4, <1>7 DEF NameFollows
  <2>2. docs[k][i] = None => name = None
    BY <1>7 DEF NameOf
  <2>3. shared \subseteq shared' /\ i # None /\ \A q \in Names : q # None
    BY <1>5, NoneAssumption DEF Advances, IdsOf, Ids
  <2> QED BY <1>4, <2>1, <2>2, <2>3
<1>11. ASSUME NEW q \in Names
       PROVE  /\ index'[k][q] = i => new = q \/ m + 1 > n
              /\ new = q => q \in shared' \/ index'[k][q] = i
  BY <1>8, <1>9, <1>10
<1>12. m + 1 > n => docs'[k][i] = None \/ m > n
  BY <1>8, <1>10
<1> QED BY <1>4, <1>6, <1>9, <1>11, <1>12 DEF NameFollows

(***************************************************************************)
(* An operation that begins.                                               *)
(***************************************************************************)
LEMMA PendingBegins ==
  ASSUME TypeOK, NEW t \in Tasks, NEW op, NEW p, NEW about, Began(t, op, p, about)
  PROVE  /\ \A a : Pending(a)' <=> a \in Range(p) \/ Pending(a)
         /\ \/ \A map : Clearing(map)' <=> Clearing(map)
            \/ \A m \in 1 .. 9 : Clearing(Maps[m])'
<1>1. /\ work[t] = <<>> /\ work'[t] = p /\ \A s \in Tasks \ {t} : work'[s] = work[s]
      /\ Started(op, p) /\ p \in Seq(Accesses)
  BY DEF Began
<1>2. \A a : Pending(a)' <=> a \in Range(p) \/ Pending(a)
  <2>1. Range(work[t]) = {}
    BY <1>1, Singles
  <2>2. \A a : Pending(a)' <=> \E s \in Tasks : a \in Range(work'[s])
    BY DEF Pending
  <2>3. \A a : Pending(a) <=> \E s \in Tasks : a \in Range(work[s])
    BY DEF Pending
  <2> QED BY <1>1, <2>1, <2>2, <2>3
<1>3. \A m : Clear(m).at = "clear"
  BY DEF Clear
<1>4. CASE \E i \in DOMAIN p : p[i].at = "clear"
  <2>1. p = RestOfClear(0)
    BY <1>1, <1>4, StartInOrder
  <2>2. DOMAIN p = 1 .. 9 /\ \A i \in 1 .. 9 : p[i] = Clear(Maps[0 + i])
    <3>1. 0 \in 0 .. 8
      OBVIOUS
    <3> QED BY <1>1, <2>1, <3>1, ClearFacts, LenProperties
  <2>3. \A m \in 1 .. 9 : Clear(Maps[m]) \in Range(p)
    <3>1. \A m \in 1 .. 9 : m \in DOMAIN p /\ p[m] = Clear(Maps[m])
      BY <2>2
    <3> QED BY <3>1, Zenon DEF Range
  <2> QED BY <1>2, <2>3 DEF Clearing
<1>5. CASE ~ \E i \in DOMAIN p : p[i].at = "clear"
  <2>1. \A m : Clear(m) \notin Range(p)
    BY <1>3, <1>5 DEF Range
  <2> QED BY <1>2, <2>1 DEF Clearing
<1> QED BY <1>2, <1>4, <1>5

LEMMA NameBegan ==
  ASSUME Base, NEW t \in Tasks, NEW op, NEW p, NEW about, Began(t, op, p, about),
         NEW k \in {"room", "user"}, NEW i \in IdsOf(k) \ raced, NameFollows(k, i)
  PROVE  NameFollows(k, i)'
<1>1. docs' = docs /\ index' = index /\ shared' = shared /\ Started(op, p)
  BY DEF Began, store
<1>2. /\ \A a : Pending(a)' <=> a \in Range(p) \/ Pending(a)
      /\ \/ \A map : Clearing(map)' <=> Clearing(map)
         \/ \A m \in 1 .. 9 : Clearing(Maps[m])'
  BY PendingBegins DEF Base
<1>3. \A n \in Names : /\ Pending(Unindex(k, i, n))' <=> Pending(Unindex(k, i, n))
                       /\ Pending(Enindex(k, i, n))' <=> Pending(Enindex(k, i, n))
  <2>1. \A a \in Range(p) : ~ IsIndexing(a)
    BY <1>1, StartedWith DEF IsIndexing
  <2> QED BY <1>2, <2>1, IndexingForms DEF IsIndexing
<1>4. \/ /\ Clearing(<<"docs", k>>)' <=> Clearing(<<"docs", k>>)
         /\ Clearing(<<"index", k>>)' <=> Clearing(<<"index", k>>)
      \/ Clearing(<<"docs", k>>)' /\ Clearing(<<"index", k>>)'
  BY <1>2, MapNames
<1>5. \A map : Clearing(map) => Clearing(map)'
  BY <1>2 DEF Clearing
<1> QED BY <1>1, <1>3, <1>4, <1>5 DEF NameFollows

(***************************************************************************)
(* Accesses by the maps they concern.                                      *)
(***************************************************************************)
Proceeds(t, more, heads, tails) ==
  /\ work[t] # <<>> /\ more \in Seq(Accesses) /\ Advances(t, more)
  /\ Head(work[t]).at \in heads /\ \A a \in Range(more) : a.at \in tails

OnNames(t) ==
  \/ \E kind, id, name : Unindexed(t, kind, id, name)
  \/ \E kind, id, name : Enindexed(t, kind, id, name)
OnQueue(t) ==
  \/ \E id, over : Counted(t, id, over)
  \/ \E id, over, n, more : Noted(t, id, over, n, more)
  \/ \E id : Forgot(t, id)
OnCurrent(t) ==
  \/ \E id, doc, mode : LoggedIn(t, id, doc, mode)
  \/ \E id, doc, mode, more : Checked(t, id, doc, mode, more)
  \/ \E id, doc, mode : Refreshed(t, id, doc, mode)
OnMessages(t) ==
  \/ \E id, room, doc, mode, new, more : Messaged(t, id, room, doc, mode, new, more)
  \/ \E id, room, ring, k, more : Linked(t, id, room, ring, k, more)
  \/ \E id : Purged(t, id)
  \/ \E id, asked, room, more : Took(t, id, asked, room, more)
  \/ \E id, room, ring, more : Unlinked(t, id, room, ring, more)
  \/ \E room : Unringed(t, room)
  \/ \E room, more : RingDropped(t, room, more)

LEMMA Groups ==
  ASSUME NEW t, Accessed(t)
  PROVE  \/ \E kind, id, doc, mode, more : Upserted(t, kind, id, doc, mode, more)
         \/ \E kind, id, forget, more : Dropped(t, kind, id, forget, more)
         \/ \E map : Cleared(t, map)
         \/ OnNames(t) \/ OnQueue(t) \/ OnCurrent(t) \/ OnMessages(t)
BY Zenon DEF Accessed, OnNames, OnQueue, OnCurrent, OnMessages

LEMMA NamesProceed ==
  ASSUME NEW t, OnNames(t)
  PROVE  /\ \E more : Proceeds(t, more, {"unindex", "enindex"}, {}) /\ more = <<>>
         /\ UNCHANGED <<docs, order, current, messages, rings>>
<1>1. <<>> \in Seq(Accesses) /\ Range(<<>>) = {}
  BY Singles
<1>2. /\ work[t] # <<>> /\ Advances(t, <<>>) /\ Head(work[t]).at \in {"unindex", "enindex"}
      /\ UNCHANGED <<docs, order, current, messages, rings>>
  <2>1. ASSUME NEW kind, NEW id, NEW name, Unindexed(t, kind, id, name)
               \/ Enindexed(t, kind, id, name)
        PROVE  /\ work[t] # <<>> /\ Advances(t, <<>>)
               /\ Head(work[t]).at \in {"unindex", "enindex"}
               /\ UNCHANGED <<docs, order, current, messages, rings>>
    BY <2>1, IndexingForms DEF Unindexed, Enindexed
  <2> QED BY <2>1, Zenon DEF OnNames
<1>3. Proceeds(t, <<>>, {"unindex", "enindex"}, {})
  BY <1>1, <1>2 DEF Proceeds
<1> QED BY <1>2, <1>3

LEMMA QueueProceeds ==
  ASSUME NEW t, OnQueue(t)
  PROVE  /\ \E more : Proceeds(t, more, {"count", "note", "forget"}, {"note", "drop"})
         /\ UNCHANGED <<docs, index, current, messages, rings>>
<1>1. ASSUME NEW id, NEW over, Counted(t, id, over)
      PROVE  /\ \E more : Proceeds(t, more, {"count", "note", "forget"}, {"note", "drop"})
             /\ UNCHANGED <<docs, index, current, messages, rings>>
  <2>1. PICK a : a = NoteUser(id, over) OBVIOUS
  <2>2. a \in Accesses /\ a.at = "note"
    BY <1>1, <2>1, Made DEF Counted, NoteUser
  <2>3. <<a>> \in Seq(Accesses) /\ Range(<<a>>) = {a}
    BY <2>2, Singles
  <2>4. Proceeds(t, <<a>>, {"count", "note", "forget"}, {"note", "drop"})
    BY <1>1, <2>1, <2>2, <2>3 DEF Counted, Proceeds, CountUsers
  <2> QED BY <1>1, <2>4 DEF Counted, store
<1>2. ASSUME NEW id, NEW over, NEW n, NEW more, Noted(t, id, over, n, more)
      PROVE  /\ Proceeds(t, more, {"count", "note", "forget"}, {"note", "drop"})
             /\ UNCHANGED <<docs, index, current, messages, rings>>
  <2>1. /\ work[t] # <<>> /\ more \in Seq(Accesses) /\ Advances(t, more)
        /\ Head(work[t]).at = "note" /\ Len(more) = n
        /\ UNCHANGED <<docs, index, current, messages, rings>>
    BY <1>2 DEF Noted, NoteUser
  <2>2. \A i \in 1 .. n : more[i].at = "drop"
    <3>1. \A i \in 1 .. n : more[i] = DropDoc("user", order[i], FALSE)
      BY <1>2 DEF Noted
    <3>2. \A x : DropDoc("user", x, FALSE).at = "drop"
      BY DEF DropDoc
    <3> HIDE DEF DropDoc
    <3> QED BY <3>1, <3>2
  <2>3. \A a \in Range(more) : a.at = "drop"
    <3>1. DOMAIN more = 1 .. n
      BY <2>1, LenProperties
    <3> QED BY <2>2, <3>1 DEF Range
  <2> QED BY <2>1, <2>3 DEF Proceeds
<1>3. ASSUME NEW id, Forgot(t, id)
      PROVE  /\ \E more : Proceeds(t, more, {"count", "note", "forget"}, {"note", "drop"})
             /\ UNCHANGED <<docs, index, current, messages, rings>>
  <2>1. Proceeds(t, <<>>, {"count", "note", "forget"}, {"note", "drop"})
    BY <1>3, Singles DEF Forgot, Proceeds, Forget
  <2> QED BY <1>3, <2>1 DEF Forgot
<1> QED BY <1>1, <1>2, <1>3 DEF OnQueue

LEMMA CurrentProceeds ==
  ASSUME NEW t, OnCurrent(t)
  PROVE  /\ \E more : Proceeds(t, more, {"login", "iscurrent", "refresh"}, {"refresh"})
         /\ UNCHANGED <<docs, index, order, messages, rings>>
<1>1. ASSUME NEW id, NEW doc, NEW mode, LoggedIn(t, id, doc, mode) \/ Refreshed(t, id, doc, mode)
      PROVE  /\ Proceeds(t, <<>>, {"login", "iscurrent", "refresh"}, {"refresh"})
             /\ UNCHANGED <<docs, index, order, messages, rings>>
  BY <1>1, Singles DEF LoggedIn, Refreshed, Proceeds, Refresh
<1>2. ASSUME NEW id, NEW doc, NEW mode, NEW more, Checked(t, id, doc, mode, more)
      PROVE  /\ Proceeds(t, more, {"login", "iscurrent", "refresh"}, {"refresh"})
             /\ UNCHANGED <<docs, index, order, messages, rings>>
  <2>1. PICK a : a = Refresh("refresh", id, doc, mode) OBVIOUS
  <2>2. more = <<a>> \/ more = <<>>
    BY <1>2, <2>1 DEF Checked
  <2>3. \A b \in Range(more) : b.at = "refresh"
    <3>1. Range(<<a>>) = {a} /\ a.at = "refresh"
      BY <2>1, Singles DEF Refresh
    <3> QED BY <2>2, <3>1, Singles
  <2> QED BY <1>2, <2>3 DEF Checked, Proceeds, Refresh, store
<1> QED BY <1>1, <1>2 DEF OnCurrent

LEMMA MessagesProceed ==
  ASSUME NEW t, OnMessages(t)
  PROVE  /\ \E more : Proceeds(t, more,
              {"message", "link", "purge", "take", "unlink", "unring", "dropring"},
              {"link", "purge", "unlink", "unring"})
         /\ UNCHANGED <<docs, index, order, current>>
<1> DEFINE H == {"message", "link", "purge", "take", "unlink", "unring", "dropring"}
           T == {"link", "purge", "unlink", "unring"}
<1>1. \A a : Range(<<a>>) = {a} /\ Range(<<>>) = {}
  BY Singles
<1>2. ASSUME NEW id, NEW room, NEW doc, NEW mode, NEW new, NEW more,
             Messaged(t, id, room, doc, mode, new, more)
      PROVE  Proceeds(t, more, H, T) /\ UNCHANGED <<docs, index, order, current>>
  <2>1. PICK a : a = Link(id, room) OBVIOUS
  <2>2. (more = <<a>> \/ more = <<>>) /\ a.at = "link"
    BY <1>2, <2>1 DEF Messaged, Link
  <2>3. \A b \in Range(more) : b.at = "link"
    BY <2>2, <1>1
  <2> QED BY <1>2, <2>3 DEF Messaged, Proceeds, StoreMessage
<1>3. ASSUME NEW id, NEW room, NEW ring, NEW k, NEW more, Linked(t, id, room, ring, k, more)
      PROVE  Proceeds(t, more, H, T) /\ UNCHANGED <<docs, index, order, current>>
  <2>1. PICK a : a = Purge(Ring(room)[k + 1]) OBVIOUS
  <2>2. (more = <<a>> \/ more = <<>>) /\ a.at = "purge"
    BY <1>3, <2>1 DEF Linked, Purge
  <2>3. \A b \in Range(more) : b.at = "purge"
    BY <2>2, <1>1
  <2> QED BY <1>3, <2>3 DEF Linked, Proceeds, Link
<1>4. ASSUME NEW id, Purged(t, id) \/ Unringed(t, id)
      PROVE  Proceeds(t, <<>>, H, T) /\ UNCHANGED <<docs, index, order, current>>
  BY <1>4, Singles DEF Purged, Unringed, Proceeds, Purge, Unring
<1>5. ASSUME NEW id, NEW asked, NEW room, NEW more, Took(t, id, asked, room, more)
      PROVE  Proceeds(t, more, H, T) /\ UNCHANGED <<docs, index, order, current>>
  <2>1. PICK a : a = Unlink(id, room) OBVIOUS
  <2>2. (more = <<a>> \/ more = <<>>) /\ a.at = "unlink"
    BY <1>5, <2>1 DEF Took, Unlink
  <2>3. \A b \in Range(more) : b.at = "unlink"
    BY <2>2, <1>1
  <2> QED BY <1>5, <2>3 DEF Took, Proceeds, Take
<1>6. ASSUME NEW id, NEW room, NEW ring, NEW more, Unlinked(t, id, room, ring, more)
      PROVE  Proceeds(t, more, H, T) /\ UNCHANGED <<docs, index, order, current>>
  <2>1. PICK a : a = Unring(room) OBVIOUS
  <2>2. (more = <<a>> \/ more = <<>>) /\ a.at = "unring"
    BY <1>6, <2>1 DEF Unlinked, Unring
  <2>3. \A b \in Range(more) : b.at = "unring"
    BY <2>2, <1>1
  <2> QED BY <1>6, <2>3 DEF Unlinked, Proceeds, Unlink
<1>7. ASSUME NEW room, NEW more, RingDropped(t, room, more)
      PROVE  Proceeds(t, more, H, T) /\ UNCHANGED <<docs, index, order, current>>
  <2>1. /\ work[t] # <<>> /\ more \in Seq(Accesses) /\ Advances(t, more)
        /\ Head(work[t]).at = "dropring" /\ DOMAIN more = 1 .. Len(more)
        /\ UNCHANGED <<docs, index, order, current>>
    BY <1>7, LenProperties DEF RingDropped, DropRing
  <2>2. \A x : Purge(x).at = "purge"
    BY DEF Purge
  <2>3. \A i \in 1 .. Len(more) : more[i] = Purge(Ring(room)[i])
    BY <1>7 DEF RingDropped
  <2>4. \A a \in Range(more) : a.at = "purge"
    <3> HIDE DEF Purge
    <3> QED BY <2>1, <2>2, <2>3 DEF Range
  <2> QED BY <2>1, <2>4 DEF Proceeds
<1> HIDE DEF H, T
<1>8. (\E more : Proceeds(t, more, H, T)) /\ UNCHANGED <<docs, index, order, current>>
  BY <1>2, <1>3, <1>4, <1>5, <1>6, <1>7, Zenon DEF OnMessages
<1> QED BY <1>8 DEF H, T

LEMMA NameApartFrom ==
  ASSUME TypeOK, NEW t \in Tasks, NEW more, NEW heads, NEW tails,
         Proceeds(t, more, heads, tails),
         {"unindex", "enindex", "clear"} \cap (heads \cup tails) = {},
         docs' = docs, index' = index,
         NEW k \in {"room", "user"}, NEW i \in IdsOf(k), NameFollows(k, i)
  PROVE  NameFollows(k, i)'
<1>1. /\ work[t] # <<>> /\ more \in Seq(Accesses) /\ Advances(t, more)
      /\ Head(work[t]).at \notin {"unindex", "enindex", "clear"}
      /\ \A a \in Range(more) : a.at \notin {"unindex", "enindex", "clear"}
  BY DEF Proceeds
<1>2. \A n : /\ Head(work[t]) # Unindex(k, i, n) /\ Unindex(k, i, n) \notin Range(more)
             /\ Head(work[t]) # Enindex(k, i, n) /\ Enindex(k, i, n) \notin Range(more)
  BY <1>1, IndexingForms
<1> QED BY <1>1, <1>2, NameApart

LEMMA NameStays ==
  ASSUME Base, NEW t \in Tasks, Accessed(t),
         NEW k \in {"room", "user"}, NEW i \in IdsOf(k) \ raced, NameFollows(k, i)
  PROVE  NameFollows(k, i)'
<1>1. CASE \E kind, id, doc, mode, more : Upserted(t, kind, id, doc, mode, more)
  BY <1>1, NameUpserted
<1>2. CASE \E kind, id, forget, more : Dropped(t, kind, id, forget, more)
  BY <1>2, NameDropped
<1>3. CASE \E map : Cleared(t, map)
  BY <1>3, NameCleared
<1>4. CASE OnNames(t)
  BY <1>4, NameUnindexed, NameEnindexed DEF OnNames
<1>5. CASE OnQueue(t)
  BY <1>5, QueueProceeds, NameApartFrom DEF Base
<1>6. CASE OnCurrent(t)
  BY <1>6, CurrentProceeds, NameApartFrom DEF Base
<1>7. CASE OnMessages(t)
  <2>1. PICK more : Proceeds(t, more,
              {"message", "link", "purge", "take", "unlink", "unring", "dropring"},
              {"link", "purge", "unlink", "unring"})
    BY <1>7, MessagesProceed
  <2>2. docs' = docs /\ index' = index
    BY <1>7, MessagesProceed
  <2> QED BY <2>1, <2>2, NameApartFrom DEF Base
<1> QED BY <1>1, <1>2, <1>3, <1>4, <1>5, <1>6, <1>7, Groups

LEMMA IndexStays ==
  ASSUME Base, IndexFollows, [Next]_vars
  PROVE  IndexFollows'
<1>1. /\ Base'
      /\ \/ \E t \in Tasks : \E op, p, about : Began(t, op, p, about)
         \/ \E t \in Tasks : Accessed(t)
         \/ UNCHANGED vars
  BY BaseStays
<1> SUFFICES ASSUME NEW k \in {"room", "user"}, NEW i \in IdsOf(k) \ raced'
             PROVE  NameFollows(k, i)'
  BY DEF IndexFollows
<1>2. i \in IdsOf(k) \ raced /\ NameFollows(k, i)
  <2>1. raced \subseteq raced'
    <3>1. ASSUME NEW t \in Tasks, Accessed(t) PROVE raced \subseteq raced'
      BY <3>1, AccessTyped DEF Advances, Base
    <3>2. ASSUME NEW t, NEW op, NEW p, NEW about, Began(t, op, p, about)
          PROVE  raced \subseteq raced'
      BY <3>2 DEF Began
    <3> QED BY <1>1, <3>1, <3>2 DEF vars
  <2> QED BY <2>1 DEF IndexFollows
<1>3. CASE UNCHANGED vars
  <2>1. UNCHANGED <<docs, index, work, shared>>
    BY <1>3 DEF vars, store
  <2>2. \A a : Pending(a)' <=> Pending(a)
    BY <2>1 DEF Pending
  <2> QED BY <1>2, <2>1, <2>2 DEF NameFollows, Clearing
<1> QED BY <1>1, <1>2, <1>3, NameBegan, NameStays

LEMMA IndexAtFirst == Init => IndexFollows
<1> SUFFICES ASSUME Init, NEW k \in {"room", "user"}, NEW i \in IdsOf(k)
             PROVE  NameFollows(k, i)
  BY DEF IndexFollows
<1>1. /\ NameOf(k, docs[k][i]) = None /\ \A n \in Names : index[k][n] = None
      /\ docs[k][i] = None
  BY DEF Init, NameOf, Kinds
<1>2. \A a : ~ Pending(a)
  BY Singles DEF Init, Pending
<1>3. i # None /\ \A n \in Names : n # None
  BY NoneAssumption DEF IdsOf, Ids
<1> QED BY <1>1, <1>2, <1>3 DEF NameFollows, Clearing

LEMMA BaseHolds == Spec => []Base
<1>1. Base /\ [Next]_vars => Base'
  BY BaseStays
<1> QED BY <1>1, BaseAtFirst, PTL DEF Spec

(* The name indexes say of an entity that one task at a time has worked on what its *)
(* document says: store_room, store_user, drop_user and remove_room leave no stale   *)
(* name behind and lose none that only this document bears.                          *)
THEOREM IndexesExact == Spec => []IndexExact
<1>1. Base /\ IndexFollows => IndexExact
  <2> SUFFICES ASSUME Base, IndexFollows, NEW k \in {"room", "user"}, NEW i \in IdsOf(k), Settled(i)
               PROVE  /\ \A n \in Names : index[k][n] = i => NameOf(k, docs[k][i]) = n
                      /\ LET n == NameOf(k, docs[k][i])
                         IN n # None /\ n \notin shared => index[k][n] = i
    BY DEF IndexExact
  <2>1. i \notin raced /\ \A a : Pending(a) => a.id # i /\ a.at # "clear"
    BY SettledMeans DEF IdsOf, Ids
  <2>2. NameFollows(k, i)
    BY <2>1 DEF IndexFollows
  <2>3. /\ \A n : ~ Pending(Unindex(k, i, n)) /\ ~ Pending(Enindex(k, i, n))
        /\ \A map : ~ Clearing(map)
    <3>1. \A map : Clear(map).at = "clear"
      BY DEF Clear
    <3> QED BY <2>1, <3>1, IndexingForms DEF Clearing
  <2>4. NameOf(k, docs[k][i]) \in Names \cup {None}
    <3>1. docs[k][i] \in Documents \cup {None}
      BY DEF Base, TypeOK, Kinds
    <3> QED BY <3>1, DocumentFacts
  <2> QED BY <2>2, <2>3, <2>4 DEF NameFollows
<1>2. Base /\ IndexFollows /\ [Next]_vars => IndexFollows'
  BY IndexStays
<1> QED BY <1>1, <1>2, BaseHolds, IndexAtFirst, PTL DEF Spec

(***************************************************************************)
(* The two copies of the logged-in user.                                   *)
(***************************************************************************)
LEMMA Agreeing ==
  /\ \A c \in Documents, d \in Documents \cup {None} : Agree(c, Stored(d, c, "Merge"))
  /\ \A c, e \in Documents, d \in Documents \cup {None}, mode \in Modes :
       (d # None => Agree(c, d)) => Agree(Stored(c, e, mode), Stored(d, e, mode))
<1>1. \A c \in Documents : c # None
  BY DocumentFacts
<1>2. \A c, d \in Documents : DOMAIN MergeDocuments(c, d) = DOMAIN c \cup DOMAIN d
  BY DocumentFacts
<1>3. \A c, d \in Documents : \A f \in DOMAIN c \cup DOMAIN d :
        MergeDocuments(c, d)[f] = IF f \in DOMAIN d THEN d[f] ELSE c[f]
  BY DEF MergeDocuments
<1>4. \A c, d, mode : Stored(c, d, mode) =
        IF c = None \/ mode = "Replace" THEN d ELSE MergeDocuments(c, d)
  BY DEF Stored
<1> HIDE DEF MergeDocuments, Stored
<1>5. ASSUME NEW c \in Documents, NEW d \in Documents \cup {None}
      PROVE  Agree(c, Stored(d, c, "Merge"))
  <2>1. CASE d = None
    BY <1>4, <2>1 DEF Agree
  <2>2. CASE d # None
    <3>1. d \in Documents /\ Stored(d, c, "Merge") = MergeDocuments(d, c)
      BY <1>4, <2>2
    <3> QED BY <3>1, <1>2, <1>3 DEF Agree
  <2> QED BY <2>1, <2>2
<1>6. ASSUME NEW c \in Documents, NEW e \in Documents, NEW d \in Documents \cup {None},
             NEW mode \in Modes, d # None => Agree(c, d)
      PROVE  Agree(Stored(c, e, mode), Stored(d, e, mode))
  <2>1. CASE mode = "Replace"
    BY <1>4, <2>1 DEF Agree
  <2>2. CASE mode # "Replace"
    <3>1. Stored(c, e, mode) = MergeDocuments(c, e)
      BY <1>1, <1>4, <2>2
    <3>2. CASE d = None
      <4>1. Stored(d, e, mode) = e
        BY <1>4, <3>2
      <4> QED BY <3>1, <4>1, <1>2, <1>3 DEF Agree
    <3>3. CASE d # None
      <4>1. Stored(d, e, mode) = MergeDocuments(d, e) /\ d \in Documents
        BY <1>4, <2>2, <3>3
      <4>2. \A f \in DOMAIN c \cap DOMAIN d : c[f] = d[f]
        BY <1>6, <3>3 DEF Agree
      <4>3. PICK x, y : x = MergeDocuments(c, e) /\ y = MergeDocuments(d, e)
        OBVIOUS
      <4>4. /\ DOMAIN x = DOMAIN c \cup DOMAIN e /\ DOMAIN y = DOMAIN d \cup DOMAIN e
            /\ \A f \in DOMAIN c \cup DOMAIN e : x[f] = IF f \in DOMAIN e THEN e[f] ELSE c[f]
            /\ \A f \in DOMAIN d \cup DOMAIN e : y[f] = IF f \in DOMAIN e THEN e[f] ELSE d[f]
        BY <4>1, <4>3, <1>2, <1>3
      <4>5. \A f \in DOMAIN x \cap DOMAIN y : x[f] = y[f]
        BY <4>2, <4>4
      <4> QED BY <3>1, <4>1, <4>3, <4>5 DEF Agree
    <3> QED BY <3>2, <3>3
  <2> QED BY <2>1, <2>2
<1> QED BY <1>5, <1>6

(* The last access of a program stays the last while others are made before it. *)
LEMMA Lasts ==
  ASSUME NEW X, NEW p \in Seq(X), NEW w \in Seq(X), w # <<>>
  PROVE  /\ Len(w) > 1 => /\ p \o Tail(w) # <<>>
                          /\ (p \o Tail(w))[Len(p \o Tail(w))] = w[Len(w)]
         /\ Len(w) = 1 => p \o Tail(w) = p
         /\ p # <<>> => (p \o Tail(w))[1] = p[1] /\ p[1] \in Range(p)
         /\ p = <<>> => p \o Tail(w) = Tail(w) /\ (Len(w) > 1 => Tail(w)[1] = w[2])
         /\ p # <<>> => p[Len(p)] \in Range(p)
<1>1. /\ Len(w) \in Nat \ {0} /\ Len(p) \in Nat
      /\ Tail(w) \in Seq(X) /\ p \o Tail(w) \in Seq(X)
      /\ Len(p \o Tail(w)) = Len(p) + Len(w) - 1
      /\ \A i \in 1 .. Len(p) : (p \o Tail(w))[i] = p[i]
      /\ \A i \in 2 .. Len(w) : (p \o Tail(w))[Len(p) + i - 1] = w[i]
  BY Joined
<1>2. Len(w) > 1 => Len(w) \in 2 .. Len(w) /\ 2 \in 2 .. Len(w) /\ Len(p) + Len(w) - 1 # 0
  BY <1>1
<1>3. Len(w) > 1 => /\ p \o Tail(w) # <<>>
                    /\ (p \o Tail(w))[Len(p \o Tail(w))] = w[Len(w)]
  BY <1>1, <1>2
<1>4. Len(w) = 1 => p \o Tail(w) = p
  <2> SUFFICES ASSUME Len(w) = 1 PROVE p \o Tail(w) = p
    OBVIOUS
  <2>1. Len(Tail(w)) = 0
    BY HeadTailProperties
  <2>2. Tail(w) = <<>>
    BY <1>1, <2>1, EmptySeq
  <2> QED BY <2>2, ConcatEmptySeq
<1>5. p # <<>> => 1 \in 1 .. Len(p) /\ Len(p) \in 1 .. Len(p) /\ DOMAIN p = 1 .. Len(p)
  BY <1>1, EmptySeq, LenProperties
<1>6. p # <<>> => p[Len(p)] \in Range(p) /\ p[1] \in Range(p) /\ (p \o Tail(w))[1] = p[1]
  BY <1>1, <1>5 DEF Range
<1>7. p = <<>> => p \o Tail(w) = Tail(w)
  BY <1>1, ConcatEmptySeq
<1>8. Len(w) > 1 => Tail(w)[1] = w[2]
  BY HeadTailProperties
<1> QED BY <1>3, <1>4, <1>6, <1>7, <1>8

(* What is about to be done to the user u does not change with other accesses. *)
SameOf(w, v, u) ==
  /\ ToStore(v, u) <=> ToStore(w, u)
  /\ ToStore(w, u) => v[1] = w[1]
  /\ ToRefresh(v, u) <=> ToRefresh(w, u)
  /\ ToRefresh(w, u) => v[Len(v)].doc = w[Len(w)].doc /\ v[Len(v)].mode = w[Len(w)].mode

LEMMA Endings ==
  ASSUME Base, NEW t \in Tasks, NEW more, NEW heads, NEW tails,
         Proceeds(t, more, heads, tails),
         {"login", "upsert", "iscurrent", "refresh", "clear"} \cap heads = {},
         {"login", "upsert", "iscurrent", "refresh"} \cap tails = {}, NEW u
  PROVE  SameOf(work[t], work'[t], u)
<1>1. PICK w, v : w = work[t] /\ v = work'[t] OBVIOUS
<1>2. /\ w # <<>> /\ w \in Seq(Accesses) /\ v = more \o Tail(w) /\ more \in Seq(Accesses)
      /\ Head(w).at \notin {"login", "upsert", "iscurrent", "refresh", "clear"}
      /\ \A a \in Range(more) : a.at \notin {"login", "upsert", "iscurrent", "refresh"}
  BY <1>1 DEF Proceeds, Advances, Base, TypeOK
<1>3. /\ Head(w) = w[1] /\ InOrder(w) /\ Len(w) \in Nat \ {0} /\ DOMAIN w = 1 .. Len(w)
  BY <1>1, <1>2, Unclear, Joined, LenProperties DEF Base
<1>4. ~ ToStore(w, u) /\ (ToRefresh(w, u) => Len(w) > 1)
  BY <1>2, <1>3 DEF ToStore, ToRefresh
<1>5. v # <<>> => v[1].at # "upsert"
  <2>1. CASE more # <<>>
    BY <1>2, <2>1, Lasts
  <2>2. CASE more = <<>> /\ Len(w) > 1
    <3>1. v[1] = w[2]
      BY <1>2, <2>2, Lasts
    <3>2. Placed(w, 2)
      BY <1>3, <2>2 DEF InOrder
    <3> QED BY <1>2, <1>3, <3>1, <3>2 DEF Placed
  <2>3. CASE more = <<>> /\ Len(w) = 1
    BY <1>2, <2>3, Lasts
  <2> QED BY <1>3, <2>1, <2>2, <2>3
<1>6. ~ ToStore(v, u)
  <2> SUFFICES ASSUME Len(v) = 1 PROVE v # <<>>
    BY <1>5 DEF ToStore
  <2> QED OBVIOUS
<1>7. Len(w) > 1 => v # <<>> /\ v[Len(v)] = w[Len(w)] /\ w[1].at # "upsert"
  BY <1>2, <1>3, Lasts
<1>8. Len(w) = 1 => ~ ToRefresh(v, u)
  <2> SUFFICES ASSUME Len(w) = 1, v # <<>> PROVE v[Len(v)].at \notin {"iscurrent", "refresh"}
    BY DEF ToRefresh
  <2>1. v = more /\ more # <<>>
    BY <1>2, Lasts
  <2> QED BY <1>2, <2>1, Lasts
<1>9. /\ ToRefresh(v, u) <=> ToRefresh(w, u)
      /\ ToRefresh(w, u) => v[Len(v)] = w[Len(w)]
  <2>1. CASE Len(w) = 1
    BY <1>4, <1>8, <2>1
  <2>2. CASE Len(w) > 1
    BY <1>2, <1>5, <1>7, <2>2 DEF ToRefresh
  <2> QED BY <1>3, <2>1, <2>2
<1> QED BY <1>1, <1>4, <1>6, <1>9 DEF SameOf

LEMMA CopyApart ==
  ASSUME CopyFollows, current' = current,
         docs'["user"][current.id] = docs["user"][current.id],
         \A s \in Tasks : SameOf(work[s], work'[s], current.id)
  PROVE  CopyFollows'
BY DEF CopyFollows, SameOf

LEMMA UpsertProceeds ==
  ASSUME NEW t, NEW kind, NEW id, NEW doc, NEW mode, NEW more,
         Upserted(t, kind, id, doc, mode, more)
  PROVE  Proceeds(t, more, {"upsert"}, {"unindex", "enindex", "count"})
<1>1. /\ Advances(t, more) /\ more \in Seq(Accesses) /\ work[t] # <<>>
      /\ Head(work[t]).at = "upsert"
  BY DEF Upserted, UpsertMore, Upsert
<1>2. \A a \in Range(more) : a.at \in {"unindex", "enindex", "count"}
  BY DEF Upserted, UpsertMore, Unindex, Enindex, CountUsers
<1> QED BY <1>1, <1>2 DEF Proceeds

LEMMA DropProceeds ==
  ASSUME NEW t, NEW kind, NEW id, NEW forget, NEW more, Dropped(t, kind, id, forget, more)
  PROVE  Proceeds(t, more, {"drop"}, {"unindex", "forget", "drop", "dropring"})
<1>1. /\ Advances(t, more) /\ more \in Seq(Accesses) /\ work[t] # <<>>
      /\ Head(work[t]).at = "drop"
  BY DEF Dropped, DropMore, DropDoc
<1>2. \A a \in Range(more) : a.at \in {"unindex", "forget", "drop", "dropring"}
  BY DEF Dropped, DropMore, Unindex, Forget, DropDoc, DropRing
<1> QED BY <1>1, <1>2 DEF Proceeds

LEMMA ClearProceeds ==
  ASSUME NEW t, NEW map, Cleared(t, map)
  PROVE  Proceeds(t, <<>>, {"clear"}, {})
BY Singles DEF Cleared, Proceeds, Clear

LEMMA LoginsStay ==
  ASSUME Base, NEW t \in Tasks, NEW more, NEW heads, NEW tails,
         Proceeds(t, more, heads, tails), "login" \notin tails, LoginsStore
  PROVE  LoginsStore'
<1>1. PICK w, v : w = work[t] /\ v = work'[t] OBVIOUS
<1>2. /\ w # <<>> /\ w \in Seq(Accesses) /\ v = more \o Tail(w) /\ more \in Seq(Accesses)
      /\ \A a \in Range(more) : a.at # "login"
      /\ setup' = setup /\ \A s \in Tasks \ {t} : work'[s] = work[s]
  BY <1>1 DEF Proceeds, Advances, Base, TypeOK
<1>3. InOrder(w) /\ Len(w) \in Nat \ {0} /\ DOMAIN w = 1 .. Len(w)
  BY <1>1, <1>2, Joined, LenProperties DEF Base, WorkOrdered, InOrder
<1>4. v # <<>> => v[1].at # "login"
  <2>1. CASE more # <<>>
    BY <1>2, <2>1, Lasts
  <2>2. CASE more = <<>> /\ Len(w) > 1
    <3>1. v[1] = w[2]
      BY <1>2, <2>2, Lasts
    <3>2. Placed(w, 2)
      BY <1>3, <2>2 DEF InOrder
    <3> QED BY <3>1, <3>2 DEF Placed
  <2>3. CASE more = <<>> /\ Len(w) = 1
    BY <1>2, <2>3, Lasts
  <2> QED BY <1>3, <2>1, <2>2, <2>3
<1> SUFFICES ASSUME NEW s \in Tasks, Len(work'[s]) = 1, work'[s][1].at = "login"
             PROVE  ~ Wants("user")'
  BY DEF LoginsStore
<1>5. s # t
  <2> SUFFICES ASSUME s = t PROVE v # <<>>
    BY <1>1, <1>4
  <2> QED BY <1>1
<1> QED BY <1>2, <1>5 DEF LoginsStore, Wants

(* Of the other tasks none is about to touch a user that this one works on. *)
LEMMA OthersCopies ==
  ASSUME Base, NEW t \in Tasks, NEW u \in Users \ raced, Touches(t, u),
         NEW s \in Tasks \ {t}
  PROVE  ~ ToStore(work[s], u) /\ ~ ToRefresh(work[s], u)
<1>1. Alone(t, u)
  BY Sole DEF Ids
<1>2. PICK w : w = work[s] /\ w \in Seq(Accesses)
  BY DEF Base, TypeOK
<1>3. w # <<>> => w[1] \in Range(w) /\ w[Len(w)] \in Range(w)
  BY <1>2, Lasts
<1>4. \A a \in Range(w) : a.id # u
  BY <1>1, <1>2 DEF Alone
<1>5. Len(w) = 1 => w # <<>>
  OBVIOUS
<1> QED BY <1>2, <1>3, <1>4, <1>5 DEF ToStore, ToRefresh

LEMMA CopyLogged ==
  ASSUME Base, NEW t \in Tasks, NEW id, NEW doc, NEW mode, LoggedIn(t, id, doc, mode),
         LoginsStore, current'.id \notin raced
  PROVE  CopyFollows'
<1>1. /\ work[t] # <<>> /\ Head(work[t]) = Refresh("login", id, doc, mode)
      /\ id \in Users /\ doc \in Documents /\ current' = [id |-> id, doc |-> doc]
      /\ Advances(t, <<>>) /\ docs' = docs
  BY DEF LoggedIn
<1>2. /\ current'.id = id /\ current'.doc = doc /\ id \in Users \ raced
      /\ Head(work[t]).at = "login" /\ Head(work[t]).id = id /\ Head(work[t]).doc = doc
  BY <1>1 DEF Refresh
<1>3. PICK w, v : w = work[t] /\ v = work'[t] OBVIOUS
<1>4. /\ w # <<>> /\ w \in Seq(Accesses) /\ v = <<>> \o Tail(w) /\ <<>> \in Seq(Accesses)
      /\ \A s \in Tasks \ {t} : work'[s] = work[s]
  BY <1>1, <1>3, Singles DEF Advances, Base, TypeOK
<1>5. /\ Head(w) = w[1] /\ InOrder(w) /\ Len(w) \in Nat \ {0} /\ DOMAIN w = 1 .. Len(w)
      /\ w[1] \in Range(w)
  BY <1>2, <1>3, <1>4, Unclear, Joined, LenProperties DEF Base
<1>6. Touches(t, id)
  BY <1>2, <1>3, <1>5 DEF Touches
<1>7. \A s \in Tasks \ {t} : ~ ToStore(work'[s], id) /\ ~ ToRefresh(work'[s], id)
  BY <1>2, <1>4, <1>6, OthersCopies
<1>8. CASE Len(w) = 1
  <2>1. v = <<>>
    BY <1>4, <1>8, Lasts
  <2>2. ~ Wants("user")
    BY <1>2, <1>3, <1>5, <1>8 DEF LoginsStore
  <2>3. docs'["user"][id] = None
    BY <1>1, <1>2, <2>2 DEF Base, TypeOK, Kinds, IdsOf
  <2>4. ~ ToStore(v, id) /\ ~ ToRefresh(v, id)
    BY <2>1 DEF ToStore, ToRefresh
  <2> QED BY <1>2, <1>3, <1>7, <2>3, <2>4 DEF CopyFollows
<1>9. CASE Len(w) > 1
  <2>1. Len(w) = 2 /\ w[2] = Upsert("user", id, doc, "Merge")
    <3>1. 2 \in DOMAIN w
      BY <1>5, <1>9
    <3>2. w[2] = Upsert("user", w[1].id, w[1].doc, "Merge")
      BY <1>2, <1>3, <1>5, <3>1 DEF InOrder, Placed
    <3>3. ~ 3 \in DOMAIN w
      BY <1>2, <1>3, <1>5 DEF InOrder, Placed
    <3>4. Len(w) = 2
      BY <1>5, <1>9, <3>3
    <3>5. w[1].id = id /\ w[1].doc = doc
      BY <1>2, <1>3, <1>5
    <3> QED BY <3>2, <3>4, <3>5
  <2>2. Len(v) = 1 /\ v[1] = w[2]
    <3>1. v = Tail(w) /\ v[1] = w[2]
      BY <1>4, <1>9, Lasts
    <3> QED BY <1>4, <2>1, <3>1, HeadTailProperties
  <2>3. /\ v[1].at = "upsert" /\ v[1].kind = "user" /\ v[1].id = id
        /\ v[1].doc = doc /\ v[1].mode = "Merge"
    BY <2>1, <2>2 DEF Upsert
  <2>4. ToStore(v, id) /\ ~ ToRefresh(v, id)
    BY <2>2, <2>3 DEF ToStore, ToRefresh
  <2> QED BY <1>2, <1>3, <1>7, <2>3, <2>4 DEF CopyFollows
<1> QED BY <1>5, <1>8, <1>9

LEMMA CopyRefreshed ==
  ASSUME Base, NEW t \in Tasks, NEW id, NEW doc, NEW mode, Refreshed(t, id, doc, mode),
         current # None, current'.id \notin raced, CopyFollows
  PROVE  CopyFollows'
<1>1. /\ work[t] # <<>> /\ Head(work[t]) = Refresh("refresh", id, doc, mode)
      /\ id \in Users /\ doc \in Documents /\ Advances(t, <<>>) /\ docs' = docs
  BY DEF Refreshed
<1>2. /\ Head(work[t]).at = "refresh" /\ Head(work[t]).id = id
      /\ Head(work[t]).doc = doc /\ Head(work[t]).mode = mode
  BY <1>1 DEF Refresh
<1>3. PICK w, v : w = work[t] /\ v = work'[t] OBVIOUS
<1>4. /\ w # <<>> /\ w \in Seq(Accesses) /\ v = <<>> \o Tail(w) /\ <<>> \in Seq(Accesses)
      /\ \A s \in Tasks \ {t} : work'[s] = work[s]
  BY <1>1, <1>3, Singles DEF Advances, Base, TypeOK
<1>5. /\ Head(w) = w[1] /\ InOrder(w) /\ Len(w) \in Nat \ {0} /\ DOMAIN w = 1 .. Len(w)
      /\ w[1] \in Range(w)
  BY <1>2, <1>3, <1>4, Unclear, Joined, LenProperties DEF Base
<1>6. Len(w) = 1
  BY <1>2, <1>3, <1>5 DEF InOrder, Placed, IsLone
<1>7. v = <<>>
  BY <1>4, <1>6, Lasts
<1>8. CASE current.id = id
  <2>1. current' = [id |-> id, doc |-> Stored(current.doc, doc, mode)]
    BY <1>8 DEF Refreshed, IsCurrent
  <2>2. /\ current'.id = id /\ current'.doc = Stored(current.doc, doc, mode)
        /\ id \in Users \ raced
    BY <1>1, <2>1
  <2>3. Touches(t, id)
    BY <1>2, <1>3, <1>5 DEF Touches
  <2>4. \A s \in Tasks \ {t} : ~ ToStore(work'[s], id) /\ ~ ToRefresh(work'[s], id)
    BY <1>4, <2>2, <2>3, OthersCopies
  <2>5. ~ ToStore(v, id) /\ ~ ToRefresh(v, id)
    BY <1>7 DEF ToStore, ToRefresh
  <2>6. docs["user"][id] # None => Agree(Stored(current.doc, doc, mode), docs["user"][id])
    <3>1. ToRefresh(w, id)
      BY <1>2, <1>3, <1>4, <1>5, <1>6 DEF ToRefresh
    <3> QED BY <1>2, <1>3, <1>5, <1>6, <1>8, <3>1 DEF CopyFollows
  <2> QED BY <1>1, <1>3, <2>2, <2>4, <2>5, <2>6 DEF CopyFollows
<1>9. CASE current.id # id
  <2>1. current' = current
    BY <1>9 DEF Refreshed, IsCurrent
  <2>2. SameOf(w, v, current.id)
    BY <1>2, <1>3, <1>5, <1>6, <1>7, <1>9 DEF SameOf, ToStore, ToRefresh
  <2>3. \A s \in Tasks : SameOf(work[s], work'[s], current.id)
    BY <1>3, <1>4, <2>2 DEF SameOf
  <2> QED BY <1>1, <2>1, <2>3, CopyApart
<1> QED BY <1>8, <1>9

(* An arrival is all of its program, or a refresh comes after it. *)
LEMMA UpsertShape ==
  ASSUME Base, NEW t \in Tasks,
         NEW kind, NEW id, NEW doc, NEW mode, NEW more, Upserted(t, kind, id, doc, mode, more)
  PROVE  /\ work[t][1] = Upsert(kind, id, doc, mode) /\ work[t][1] \in Range(work[t])
         /\ work'[t] # <<>> => work'[t][1].at # "upsert"
         /\ \/ /\ Len(work[t]) = 1
               /\ work'[t] # <<>> =>
                    work'[t][Len(work'[t])].at \notin {"iscurrent", "refresh"}
            \/ /\ Len(work[t]) = 2 /\ kind = "user" /\ work'[t] # <<>>
               /\ work'[t][Len(work'[t])] = Refresh("iscurrent", id, doc, mode)
<1>1. PICK w, v : w = work[t] /\ v = work'[t] OBVIOUS
<1>2. /\ w # <<>> /\ w \in Seq(Accesses) /\ v = more \o Tail(w) /\ more \in Seq(Accesses)
      /\ Head(w) = Upsert(kind, id, doc, mode)
      /\ \A a \in Range(more) : a.at \in {"unindex", "enindex", "count"}
  <2>1. Proceeds(t, more, {"upsert"}, {"unindex", "enindex", "count"})
    BY UpsertProceeds
  <2>2. /\ work[t] # <<>> /\ more \in Seq(Accesses) /\ work'[t] = more \o Tail(work[t])
        /\ \A a \in Range(more) : a.at \in {"unindex", "enindex", "count"}
    BY <2>1 DEF Proceeds, Advances
  <2>3. work[t] \in Seq(Accesses)
    BY DEF Base, TypeOK
  <2>4. Head(work[t]) = Upsert(kind, id, doc, mode)
    BY DEF Upserted
  <2> QED BY <1>1, <2>2, <2>3, <2>4
<1>3. Head(w).at = "upsert" /\ Head(w).id = id /\ Head(w).kind = kind /\ Head(w).doc = doc
        /\ Head(w).mode = mode
  BY <1>2 DEF Upsert
<1>4. /\ Head(w) = w[1] /\ InOrder(w) /\ Len(w) \in Nat \ {0} /\ DOMAIN w = 1 .. Len(w)
      /\ w[1] \in Range(w)
  BY <1>1, <1>2, <1>3, Unclear, Joined, LenProperties DEF Base
<1>5. \A i \in 2 .. Len(w) :
        i = 2 /\ w[1].kind = "user" /\ w[i] = Refresh("iscurrent", w[1].id, w[1].doc, w[1].mode)
  BY <1>3, <1>4 DEF InOrder, Placed
<1>6. CASE Len(w) = 1
  <2>1. v = more
    BY <1>2, <1>6, Lasts
  <2>2. v # <<>> => v[1] \in Range(more) /\ v[Len(v)] \in Range(more)
    BY <1>2, <2>1, Lasts
  <2> QED BY <1>1, <1>2, <1>4, <1>6, <2>2
<1>7. CASE Len(w) > 1
  <2>1. Len(w) = 2
    <3>1. ~ 3 \in 1 .. Len(w)
      BY <1>5
    <3> QED BY <1>4, <1>7, <3>1
  <2>2. kind = "user" /\ w[2] = Refresh("iscurrent", id, doc, mode)
    BY <1>3, <1>4, <1>5, <2>1
  <2>3. v # <<>> /\ v[Len(v)] = w[2]
    <3>1. v # <<>> /\ v[Len(v)] = w[Len(w)]
      BY <1>2, <1>7, Lasts
    <3> QED BY <2>1, <3>1
  <2>4. v[1].at # "upsert"
    <3>1. CASE more = <<>>
      <4>1. v[1] = w[2]
        BY <1>2, <1>7, <3>1, Lasts
      <4> QED BY <2>2, <4>1 DEF Refresh
    <3>2. CASE more # <<>>
      BY <1>2, <3>2, Lasts
    <3> QED BY <3>1, <3>2
  <2> QED BY <1>1, <1>2, <1>4, <2>1, <2>2, <2>3, <2>4
<1> QED BY <1>4, <1>6, <1>7

LEMMA CopyUpserted ==
  ASSUME Base, NEW t \in Tasks,
         NEW kind, NEW id, NEW doc, NEW mode, NEW more, Upserted(t, kind, id, doc, mode, more),
         current # None, current.id \notin raced, CopyFollows
  PROVE  CopyFollows'
<1>1. PICK w, v, u : w = work[t] /\ v = work'[t] /\ u = current.id OBVIOUS
<1>2. /\ w[1] = Upsert(kind, id, doc, mode) /\ w[1] \in Range(w)
      /\ v # <<>> => v[1].at # "upsert"
      /\ \/ Len(w) = 1 /\ (v # <<>> => v[Len(v)].at \notin {"iscurrent", "refresh"})
         \/ Len(w) = 2 /\ kind = "user" /\ v # <<>>
              /\ v[Len(v)] = Refresh("iscurrent", id, doc, mode)
  BY <1>1, UpsertShape
<1>3. /\ w[1].at = "upsert" /\ w[1].id = id /\ w[1].kind = kind /\ w[1].doc = doc
      /\ w[1].mode = mode
  BY <1>2 DEF Upsert
<1>4. /\ current' = current /\ \A s \in Tasks \ {t} : work'[s] = work[s]
      /\ \A k \in Kinds : \A i \in IdsOf(k) : k # kind \/ i # id => docs'[k][i] = docs[k][i]
      /\ kind \in Kinds /\ id \in IdsOf(kind) /\ docs[kind][id] \in Documents \cup {None}
      /\ doc \in Documents /\ mode \in Modes
      /\ docs'[kind][id] = Stored(docs[kind][id], doc, mode)
  BY DEF Upserted, Advances, DocPut
<1>5. /\ current \in [id : Users, doc : Documents] /\ u \in Users \ raced
           /\ current.doc \in Documents
      /\ "user" \in Kinds /\ u \in IdsOf("user")
  BY <1>1 DEF Base, TypeOK, Kinds, IdsOf
<1>6. /\ ~ ToStore(v, u) /\ ~ ToRefresh(w, u)
      /\ ToStore(w, u) <=> Len(w) = 1 /\ kind = "user" /\ id = u
      /\ ToRefresh(v, u) <=> Len(w) = 2 /\ kind = "user" /\ id = u
  <2>1. ~ ToStore(v, u)
    <3> SUFFICES ASSUME Len(v) = 1 PROVE v # <<>>
      BY <1>2 DEF ToStore
    <3> QED OBVIOUS
  <2>2. ToStore(w, u) <=> Len(w) = 1 /\ kind = "user" /\ id = u
    BY <1>3 DEF ToStore
  <2>3. ToRefresh(v, u) <=> Len(w) = 2 /\ kind = "user" /\ id = u
    <3>1. Refresh("iscurrent", id, doc, mode).at = "iscurrent"
            /\ Refresh("iscurrent", id, doc, mode).id = id
      BY DEF Refresh
    <3> QED BY <1>2, <3>1 DEF ToRefresh
  <2> QED BY <1>3, <2>1, <2>2, <2>3 DEF ToRefresh
<1>7. CASE kind = "user" /\ id = u
  <2>1. \A s \in Tasks \ {t} : /\ ~ ToStore(work[s], u) /\ ~ ToRefresh(work[s], u)
                               /\ ~ ToStore(work'[s], u) /\ ~ ToRefresh(work'[s], u)
    <3>1. Touches(t, u)
      BY <1>1, <1>2, <1>3, <1>7 DEF Touches
    <3> QED BY <1>4, <1>5, <3>1, OthersCopies
  <2>2. PICK d : d = docs["user"][u] /\ d \in Documents \cup {None}
    BY <1>4, <1>7
  <2>3. docs'["user"][u] = Stored(d, doc, mode)
    BY <1>4, <1>7, <2>2
  <2>4. CASE Len(w) = 1
    <3>1. doc = current.doc /\ mode = "Merge"
      <4>1. ToStore(w, u)
        BY <1>6, <1>7, <2>4
      <4> QED BY <1>1, <1>3, <4>1 DEF CopyFollows
    <3>2. Agree(current.doc, docs'["user"][u])
      BY <1>5, <2>2, <2>3, <3>1, Agreeing
    <3>3. ~ ToRefresh(v, u)
      BY <1>6, <2>4
    <3> QED BY <1>1, <1>4, <1>6, <2>1, <3>2, <3>3 DEF CopyFollows
  <2>5. CASE Len(w) = 2
    <3>1. ToRefresh(v, u) /\ ~ ToStore(w, u)
      BY <1>6, <1>7, <2>5
    <3>2. v[Len(v)].doc = doc /\ v[Len(v)].mode = mode
      BY <1>2, <2>5 DEF Refresh
    <3>3. d # None => Agree(current.doc, d)
      BY <1>1, <1>6, <2>1, <2>2, <3>1 DEF CopyFollows
    <3>4. Agree(Stored(current.doc, doc, mode), docs'["user"][u])
      BY <1>4, <1>5, <2>2, <2>3, <3>3, Agreeing
    <3> QED BY <1>1, <1>4, <1>6, <2>1, <3>1, <3>2, <3>4 DEF CopyFollows
  <2> QED BY <1>2, <2>4, <2>5
<1>8. CASE ~ (kind = "user" /\ id = u)
  <2>1. docs'["user"][u] = docs["user"][u]
    BY <1>4, <1>5, <1>8
  <2>2. SameOf(w, v, u)
    BY <1>6, <1>8 DEF SameOf
  <2>3. \A s \in Tasks : SameOf(work[s], work'[s], u)
    BY <1>1, <1>4, <2>2 DEF SameOf
  <2> QED BY <1>1, <1>4, <2>1, <2>3, CopyApart
<1> QED BY <1>7, <1>8

LEMMA CopyDropped ==
  ASSUME Base, NEW t \in Tasks,
         NEW kind, NEW id, NEW forget, NEW more, Dropped(t, kind, id, forget, more),
         current # None, CopyFollows
  PROVE  CopyFollows'
<1>1. PICK u : u = current.id OBVIOUS
<1>2. Proceeds(t, more, {"drop"}, {"unindex", "forget", "drop", "dropring"})
  BY DropProceeds
<1>3. SameOf(work[t], work'[t], u)
  BY <1>2, Endings
<1>4. /\ current' = current /\ \A s \in Tasks \ {t} : work'[s] = work[s]
      /\ \A k \in Kinds : \A i \in IdsOf(k) : k # kind \/ i # id => docs'[k][i] = docs[k][i]
      /\ docs'[kind][id] = None
  BY DEF Dropped, Advances, DocPut
<1>5. \A s \in Tasks : SameOf(work[s], work'[s], u)
  BY <1>3, <1>4 DEF SameOf
<1>6. u \in Users /\ "user" \in Kinds /\ u \in IdsOf("user")
  BY <1>1 DEF Base, TypeOK, Kinds, IdsOf
<1>7. CASE docs'["user"][u] = docs["user"][u]
  BY <1>1, <1>4, <1>5, <1>7, CopyApart
<1>8. CASE docs'["user"][u] = None
  BY <1>1, <1>4, <1>5, <1>8 DEF CopyFollows, SameOf
<1> QED BY <1>4, <1>6, <1>7, <1>8

LEMMA CopyApartFrom ==
  ASSUME Base, NEW t \in Tasks, NEW more, NEW heads, NEW tails,
         Proceeds(t, more, heads, tails),
         {"login", "upsert", "iscurrent", "refresh", "clear"} \cap heads = {},
         {"login", "upsert", "iscurrent", "refresh"} \cap tails = {},
         docs' = docs, current' = current, CopyFollows
  PROVE  CopyFollows'
<1>1. SameOf(work[t], work'[t], current.id)
  BY Endings
<1>2. \A s \in Tasks : SameOf(work[s], work'[s], current.id)
  BY <1>1 DEF SameOf, Proceeds, Advances
<1> QED BY <1>2, CopyApart

LEMMA CopyChecked ==
  ASSUME Base, NEW t \in Tasks,
         NEW id, NEW doc, NEW mode, NEW more, Checked(t, id, doc, mode, more),
         current # None, CopyFollows
  PROVE  CopyFollows'
<1>1. PICK w, v, u : w = work[t] /\ v = work'[t] /\ u = current.id OBVIOUS
<1>2. /\ w # <<>> /\ w \in Seq(Accesses) /\ v = more \o Tail(w) /\ more \in Seq(Accesses)
      /\ Head(w) = Refresh("iscurrent", id, doc, mode)
      /\ \A s \in Tasks \ {t} : work'[s] = work[s]
      /\ docs' = docs /\ current' = current
  BY <1>1 DEF Checked, Advances, Base, TypeOK, store
<1>3. Head(w).at = "iscurrent" /\ Head(w).id = id /\ Head(w).doc = doc /\ Head(w).mode = mode
  BY <1>2 DEF Refresh
<1>4. Head(w) = w[1] /\ InOrder(w) /\ Len(w) \in Nat \ {0} /\ DOMAIN w = 1 .. Len(w)
  BY <1>1, <1>2, <1>3, Unclear, Joined, LenProperties DEF Base
<1>5. Len(w) = 1 /\ v = more
  <2>1. Len(w) = 1
    BY <1>3, <1>4 DEF InOrder, Placed
  <2> QED BY <1>2, <2>1, Lasts
<1>6. ~ ToStore(w, u) /\ (ToRefresh(w, u) <=> id = u)
  BY <1>2, <1>3, <1>4, <1>5 DEF ToStore, ToRefresh
<1>7. CASE id = u
  <2>1. v = <<Refresh("refresh", id, doc, mode)>>
    BY <1>1, <1>5, <1>7 DEF Checked, IsCurrent
  <2>2. PICK a : a = Refresh("refresh", id, doc, mode) /\ v = <<a>>
    BY <2>1
  <2>3. a.at = "refresh" /\ a.id = id /\ a.doc = doc /\ a.mode = mode
    BY <2>2 DEF Refresh
  <2>4. v # <<>> /\ Len(v) = 1 /\ v[1] = a
    BY <2>2
  <2>5. SameOf(w, v, u)
    BY <1>3, <1>4, <1>5, <1>6, <1>7, <2>3, <2>4 DEF SameOf, ToStore, ToRefresh
  <2>6. \A s \in Tasks : SameOf(work[s], work'[s], u)
    BY <1>1, <1>2, <2>5 DEF SameOf
  <2> QED BY <1>1, <1>2, <2>6, CopyApart
<1>8. CASE id # u
  <2>1. v = <<>>
    BY <1>1, <1>5, <1>8 DEF Checked, IsCurrent
  <2>2. SameOf(w, v, u)
    BY <1>6, <1>8, <2>1 DEF SameOf, ToStore, ToRefresh
  <2>3. \A s \in Tasks : SameOf(work[s], work'[s], u)
    BY <1>1, <1>2, <2>2 DEF SameOf
  <2> QED BY <1>1, <1>2, <2>3, CopyApart
<1> QED BY <1>7, <1>8

LEMMA CopyCleared ==
  ASSUME Base, NEW t \in Tasks, NEW map, Cleared(t, map),
         current' # None, current # None, current.id \notin raced, CopyFollows
  PROVE  CopyFollows'
<1>1. PICK w, v, u : w = work[t] /\ v = work'[t] /\ u = current.id OBVIOUS
<1>2. /\ current' = current
      /\ \A s \in Tasks \ {t} : work'[s] = work[s]
      /\ docs'["user"] = IF map = <<"docs", "user">>
                         THEN [i \in IdsOf("user") |-> None] ELSE docs["user"]
      /\ w \in Seq(Accesses)
  BY <1>1 DEF Cleared, Advances, Base, TypeOK, Kinds
<1>3. /\ current \in [id : Users, doc : Documents] /\ u \in Users \ raced
      /\ u \in Ids \ raced /\ u \in IdsOf("user")
  BY <1>1 DEF Base, TypeOK, Ids, IdsOf
<1>4. holds[t] = Ids /\ \A a \in Range(w) \cup Range(v) : a.at = "clear"
  <2>1. PICK n \in 1 .. 9 : /\ Range(w) = {Clear(Maps[i]) : i \in n .. 9}
                            /\ Range(v) = {Clear(Maps[i]) : i \in n + 1 .. 9}
    BY <1>1, ClearAdvance DEF Base
  <2>2. holds[t] = Ids
    BY ClearAdvance DEF Base
  <2>3. \A m : Clear(m).at = "clear"
    BY DEF Clear
  <2> QED BY <2>1, <2>2, <2>3
<1>5. v \in Seq(Accesses)
  BY <1>1 DEF Cleared, Advances
<1>6. /\ ~ ToStore(w, u) /\ ~ ToRefresh(w, u)
      /\ ~ ToStore(v, u) /\ ~ ToRefresh(v, u)
  <2>1. \A x \in Seq(Accesses) : x # <<>> => x[1] \in Range(x) /\ x[Len(x)] \in Range(x)
    BY Lasts
  <2>2. ASSUME NEW x \in {w, v} PROVE ~ ToStore(x, u) /\ ~ ToRefresh(x, u)
    <3>1. x \in Seq(Accesses) /\ \A a \in Range(x) : a.at = "clear"
      BY <1>2, <1>4, <1>5
    <3>2. Len(x) = 1 => x # <<>>
      OBVIOUS
    <3> QED BY <2>1, <3>1, <3>2 DEF ToStore, ToRefresh
  <2> QED BY <2>2
<1>7. \A s \in Tasks \ {t} : ~ ToStore(work[s], u) /\ ~ ToRefresh(work[s], u)
  <2>1. Touches(t, u)
    BY <1>3, <1>4 DEF Touches
  <2> QED BY <1>3, <2>1, OthersCopies
<1>8. docs["user"][u] # None => Agree(current.doc, docs["user"][u])
  BY <1>1, <1>6, <1>7 DEF CopyFollows
<1>9. docs'["user"][u] # None => docs'["user"][u] = docs["user"][u]
  BY <1>2, <1>3
<1> QED BY <1>1, <1>2, <1>6, <1>7, <1>8, <1>9 DEF CopyFollows

LEMMA CopyBegan ==
  ASSUME Base, NEW t \in Tasks, NEW op, NEW p, NEW about, Began(t, op, p, about),
         LoginsStore
  PROVE  LoginsStore' /\ (current # None /\ CopyFollows => CopyFollows')
<1>1. /\ Started(op, p) /\ work[t] = <<>> /\ work'[t] = p
      /\ \A s \in Tasks \ {t} : work'[s] = work[s]
      /\ docs' = docs /\ current' = current /\ setup' = setup
  BY DEF Began, store
<1>2. \A k : Wants(k)' <=> Wants(k)
  BY <1>1 DEF Wants
<1>3. \/ p = <<>>
      \/ \E a : a.at \notin {"login", "upsert", "iscurrent", "refresh"} /\ p = <<a>>
      \/ \E a : a.at = "upsert" /\ p = <<a>> /\ (a.kind = "user" => ~ Wants("current_user"))
      \/ \E a : a.at \in {"login", "iscurrent"} /\ p = <<a>> /\ ~ Wants("user")
      \/ \E a, b : a.at = "upsert" /\ p = <<a, b>>
      \/ \E a, b : b.at = "upsert" /\ p = <<a, b>>
      \/ p = RestOfClear(0)
  <2>1. /\ \A kind, id, doc, mode : /\ Upsert(kind, id, doc, mode).at = "upsert"
                                    /\ Upsert(kind, id, doc, mode).kind = kind
        /\ \A at, id, doc, mode : Refresh(at, id, doc, mode).at = at
        /\ \A kind, id, forget : DropDoc(kind, id, forget).at = "drop"
        /\ \A id, room : Take(id, room).at = "take"
        /\ \A id, room, doc, mode : StoreMessage(id, room, doc, mode).at = "message"
    BY DEF Upsert, Refresh, DropDoc, Take, StoreMessage
  <2>2. CASE op.op = "store"
    BY <1>1, <2>1, <2>2 DEF Started
  <2>3. CASE op.op = "user"
    BY <1>1, <2>1, <2>3 DEF Started
  <2>4. CASE op.op = "login"
    BY <1>1, <2>1, <2>4 DEF Started
  <2>5. CASE op.op = "remove"
    BY <1>1, <2>1, <2>5 DEF Started
  <2>6. CASE op.op = "message"
    BY <1>1, <2>1, <2>6 DEF Started
  <2>7. CASE op.op \notin {"store", "user", "login", "remove", "message"}
    BY <1>1, <2>1, <2>7 DEF Started
  <2> QED BY <2>2, <2>3, <2>4, <2>5, <2>6, <2>7
<1>4. /\ \A a : Len(<<a>>) = 1 /\ <<a>>[1] = a /\ <<a>> # <<>>
      /\ \A a, b : Len(<<a, b>>) = 2 /\ <<a, b>>[1] = a /\ <<a, b>>[2] = b /\ <<a, b>> # <<>>
      /\ Len(<<>>) = 0
  OBVIOUS
<1>5. p = RestOfClear(0) => /\ Len(p) = 9
                            /\ p[1].at = "clear" /\ p[9].at = "clear"
  <2>1. 0 \in 0 .. 8 /\ 1 \in 1 .. 9 - 0 /\ 9 \in 1 .. 9 - 0 /\ 9 - 0 = 9
    OBVIOUS
  <2>2. PICK q : q = RestOfClear(0) OBVIOUS
  <2>3. Len(q) = 9 /\ q[1] = Clear(Maps[0 + 1]) /\ q[9] = Clear(Maps[0 + 9])
    BY <2>1, <2>2, ClearFacts
  <2>4. \A m : Clear(m).at = "clear"
    BY DEF Clear
  <2> QED BY <2>2, <2>3, <2>4
<1>6. LoginsStore'
  <2>1. Len(p) = 1 /\ p[1].at = "login" => ~ Wants("user")
    BY <1>3, <1>4, <1>5
  <2> QED BY <1>1, <1>2, <2>1 DEF LoginsStore
<1>7. /\ Len(p) = 1 /\ p[1].at = "upsert" => (p[1].kind = "user" => ~ Wants("current_user"))
      /\ p # <<>> /\ p[1].at # "upsert" /\ p[Len(p)].at \in {"iscurrent", "refresh"} =>
           ~ Wants("user")
  <2>1. CASE \E a : /\ a.at \notin {"login", "upsert", "iscurrent", "refresh"} /\ p = <<a>>
    BY <1>4, <2>1
  <2>2. CASE \E a : a.at = "upsert" /\ p = <<a>> /\ (a.kind = "user" => ~ Wants("current_user"))
    BY <1>4, <2>2
  <2>3. CASE \E a : a.at \in {"login", "iscurrent"} /\ p = <<a>> /\ ~ Wants("user")
    BY <1>4, <2>3
  <2>4. CASE \E a, b : a.at = "upsert" /\ p = <<a, b>>
    BY <1>4, <2>4
  <2>5. CASE \E a, b : b.at = "upsert" /\ p = <<a, b>>
    BY <1>4, <2>5
  <2>6. CASE p = RestOfClear(0)
    BY <1>5, <2>6
  <2>7. CASE p = <<>>
    BY <1>4, <2>7
  <2> QED BY <1>3, <2>1, <2>2, <2>3, <2>4, <2>5, <2>6, <2>7
<1>8. ASSUME current # None, CopyFollows
      PROVE  CopyFollows'
  <2>1. PICK u, d : u = current.id /\ d = docs["user"][u] OBVIOUS
  <2>2. /\ Wants("current_user") /\ u \in IdsOf("user")
        /\ ~ Wants("user") => d = None
    BY <1>8, <2>1 DEF Base, TypeOK, Kinds, IdsOf
  <2>3. ~ ToStore(p, u)
    BY <1>7, <2>2 DEF ToStore
  <2>4. ToRefresh(p, u) => d = None
    BY <1>7, <2>2 DEF ToRefresh
  <2>5. ~ ToStore(work[t], u) /\ ~ ToRefresh(work[t], u)
    BY <1>1, <1>4 DEF ToStore, ToRefresh
  <2> QED BY <1>1, <1>8, <2>1, <2>3, <2>4, <2>5 DEF CopyFollows
<1> QED BY <1>6, <1>8

LEMMA CopyStays ==
  ASSUME Base, NEW t \in Tasks, Accessed(t), LoginsStore,
         current # None /\ current.id \notin raced => CopyFollows,
         current' # None, current'.id \notin raced
  PROVE  CopyFollows'
<1>1. CASE \E kind, id, doc, mode, more : Upserted(t, kind, id, doc, mode, more)
  <2>1. current' = current
    BY <1>1 DEF Upserted
  <2> QED BY <1>1, <2>1, CopyUpserted
<1>2. CASE \E kind, id, forget, more : Dropped(t, kind, id, forget, more)
  <2>1. current' = current
    BY <1>2 DEF Dropped
  <2> QED BY <1>2, <2>1, CopyDropped
<1>3. CASE \E map : Cleared(t, map)
  <2>1. current' = current
    BY <1>3 DEF Cleared
  <2> QED BY <1>3, <2>1, CopyCleared
<1>4. CASE OnNames(t)
  <2>1. docs' = docs /\ current' = current
    BY <1>4, NamesProceed
  <2>2. PICK more : Proceeds(t, more, {"unindex", "enindex"}, {})
    BY <1>4, NamesProceed
  <2> QED BY <2>1, <2>2, CopyApartFrom
<1>5. CASE OnQueue(t)
  <2>1. docs' = docs /\ current' = current
    BY <1>5, QueueProceeds
  <2>2. PICK more : Proceeds(t, more, {"count", "note", "forget"}, {"note", "drop"})
    BY <1>5, QueueProceeds
  <2> QED BY <2>1, <2>2, CopyApartFrom
<1>6. CASE OnCurrent(t)
  <2>1. CASE \E id, doc, mode : LoggedIn(t, id, doc, mode)
    BY <2>1, CopyLogged
  <2>2. CASE \E id, doc, mode, more : Checked(t, id, doc, mode, more)
    <3>1. current' = current
      BY <2>2 DEF Checked, store
    <3> QED BY <2>2, <3>1, CopyChecked
  <2>3. CASE \E id, doc, mode : Refreshed(t, id, doc, mode)
    <3>1. PICK id, doc, mode : Refreshed(t, id, doc, mode)
      BY <2>3
    <3>2. current # None /\ current'.id = current.id
      <4>1. CASE IsCurrent(id)
        BY <3>1, <4>1 DEF Refreshed, IsCurrent
      <4>2. CASE ~ IsCurrent(id)
        BY <3>1, <4>2 DEF Refreshed
      <4> QED BY <4>1, <4>2
    <3> QED BY <3>1, <3>2, CopyRefreshed
  <2> QED BY <1>6, <2>1, <2>2, <2>3 DEF OnCurrent
<1>7. CASE OnMessages(t)
  <2>1. docs' = docs /\ current' = current
    BY <1>7, MessagesProceed
  <2>2. PICK more : Proceeds(t, more,
              {"message", "link", "purge", "take", "unlink", "unring", "dropring"},
              {"link", "purge", "unlink", "unring"})
    BY <1>7, MessagesProceed
  <2> QED BY <2>1, <2>2, CopyApartFrom
<1> QED BY <1>1, <1>2, <1>3, <1>4, <1>5, <1>6, <1>7, Groups

(* What no access schedules: an operation begins with it. *)
LEMMA Scheduled ==
  ASSUME Base, NEW t \in Tasks, Accessed(t)
  PROVE  \E more, heads, tails :
           Proceeds(t, more, heads, tails)
             /\ {"login", "upsert", "take", "message", "iscurrent", "clear"} \cap tails = {}
<1>1. CASE \E kind, id, doc, mode, more : Upserted(t, kind, id, doc, mode, more)
  <2>1. PICK more : Proceeds(t, more, {"upsert"}, {"unindex", "enindex", "count"})
    BY <1>1, UpsertProceeds
  <2> QED BY <2>1
<1>2. CASE \E kind, id, forget, more : Dropped(t, kind, id, forget, more)
  <2>1. PICK more : Proceeds(t, more, {"drop"}, {"unindex", "forget", "drop", "dropring"})
    BY <1>2, DropProceeds
  <2> QED BY <2>1
<1>3. CASE \E map : Cleared(t, map)
  <2>1. Proceeds(t, <<>>, {"clear"}, {})
    BY <1>3, ClearProceeds
  <2> QED BY <2>1
<1>4. CASE OnNames(t)
  <2>1. PICK more : Proceeds(t, more, {"unindex", "enindex"}, {})
    BY <1>4, NamesProceed
  <2> QED BY <2>1
<1>5. CASE OnQueue(t)
  <2>1. PICK more : Proceeds(t, more, {"count", "note", "forget"}, {"note", "drop"})
    BY <1>5, QueueProceeds
  <2> QED BY <2>1
<1>6. CASE OnCurrent(t)
  <2>1. PICK more : Proceeds(t, more, {"login", "iscurrent", "refresh"}, {"refresh"})
    BY <1>6, CurrentProceeds
  <2> QED BY <2>1
<1>7. CASE OnMessages(t)
  <2>1. PICK more : Proceeds(t, more,
              {"message", "link", "purge", "take", "unlink", "unring", "dropring"},
              {"link", "purge", "unlink", "unring"})
    BY <1>7, MessagesProceed
  <2> QED BY <2>1
<1> QED BY <1>1, <1>2, <1>3, <1>4, <1>5, <1>6, <1>7, Groups

LEMMA RacedGrows ==
  ASSUME Base, [Next]_vars
  PROVE  raced \subseteq raced'
<1>1. ASSUME NEW t \in Tasks, Accessed(t) PROVE raced \subseteq raced'
  BY <1>1, AccessTyped DEF Advances, Base
<1>2. ASSUME NEW t, NEW op, NEW p, NEW about, Began(t, op, p, about)
      PROVE  raced \subseteq raced'
  BY <1>2 DEF Began
<1> QED BY <1>1, <1>2, BaseStays DEF vars

LEMMA CopiesStay ==
  ASSUME Base, CopiesFollow, [Next]_vars
  PROVE  CopiesFollow'
<1>1. /\ Base'
      /\ \/ \E t \in Tasks : \E op, p, about : Began(t, op, p, about)
         \/ \E t \in Tasks : Accessed(t)
         \/ UNCHANGED vars
  BY BaseStays
<1>2. raced \subseteq raced'
  BY RacedGrows
<1>3. LoginsStore /\ (current # None /\ current.id \notin raced => CopyFollows)
  BY DEF CopiesFollow
<1>4. ASSUME NEW t \in Tasks, NEW op, NEW p, NEW about, Began(t, op, p, about)
      PROVE  CopiesFollow'
  <2>1. current' = current
    BY <1>4 DEF Began, store
  <2>2. LoginsStore' /\ (current # None /\ CopyFollows => CopyFollows')
    BY <1>3, <1>4, CopyBegan
  <2> QED BY <1>2, <1>3, <2>1, <2>2 DEF CopiesFollow
<1>5. ASSUME NEW t \in Tasks, Accessed(t)
      PROVE  CopiesFollow'
  <2>1. LoginsStore'
    BY <1>3, <1>5, Scheduled, LoginsStay
  <2>2. current' # None /\ current'.id \notin raced => CopyFollows'
    BY <1>3, <1>5, CopyStays
  <2> QED BY <1>2, <2>1, <2>2 DEF CopiesFollow
<1>6. CASE UNCHANGED vars
  <2>1. UNCHANGED <<docs, current, work, raced, setup>>
    BY <1>6 DEF vars, store
  <2> QED BY <2>1 DEF CopiesFollow, LoginsStore, CopyFollows, Wants
<1> QED BY <1>1, <1>4, <1>5, <1>6, Zenon

(* Whoever is logged in is cached twice, as a user and as the current user: the two  *)
(* agree on what both carry once no task is at work on that user, whether            *)
(* set_current_user or refresh_current_user came last.                               *)
THEOREM CopiesAgreed == Spec => []CopiesAgree
<1>1. Base /\ CopiesFollow => CopiesAgree
  <2> SUFFICES ASSUME Base, CopiesFollow, current # None, Settled(current.id),
                      docs["user"][current.id] # None
               PROVE  Agree(current.doc, docs["user"][current.id])
    BY DEF CopiesAgree, Agree
  <2>1. current.id \in Users /\ current.id \in Ids
    BY DEF Base, TypeOK, Ids
  <2>2. current.id \notin raced /\ \A a : Pending(a) => a.id # current.id
    BY <2>1, SettledMeans
  <2>3. CopyFollows
    BY <2>2 DEF CopiesFollow
  <2>4. ASSUME NEW s \in Tasks
        PROVE  ~ ToStore(work[s], current.id) /\ ~ ToRefresh(work[s], current.id)
    <3>1. PICK w : w = work[s] /\ w \in Seq(Accesses)
      BY DEF Base, TypeOK
    <3>2. w # <<>> => w[1] \in Range(w) /\ w[Len(w)] \in Range(w)
      BY <3>1, Lasts
    <3>3. \A a \in Range(w) : a.id # current.id
      BY <2>2, <3>1 DEF Pending
    <3>4. Len(w) = 1 => w # <<>>
      OBVIOUS
    <3> QED BY <3>1, <3>2, <3>3, <3>4 DEF ToStore, ToRefresh
  <2> QED BY <2>3, <2>4 DEF CopyFollows
<1>2. Base /\ CopiesFollow /\ [Next]_vars => CopiesFollow'
  BY CopiesStay
<1>3. Init => CopiesFollow
  BY DEF Init, CopiesFollow, LoginsStore
<1> QED BY <1>1, <1>2, <1>3, BaseHolds, PTL DEF Spec

(***************************************************************************)
(* The rings.  First, elements that occur once.                            *)
(***************************************************************************)
LEMMA OnceAppend ==
  ASSUME NEW X, NEW s \in Seq(X), NEW y \in X, NEW x
  PROVE  Once(Append(s, y), x) <=> Once(s, x) /\ (y = x => x \notin Range(s))
<1>1. PICK p : p = Append(s, y) OBVIOUS
<1>2. /\ Len(s) \in Nat /\ DOMAIN s = 1 .. Len(s) /\ DOMAIN p = 1 .. Len(s) + 1
      /\ p[Len(s) + 1] = y /\ \A i \in 1 .. Len(s) : p[i] = s[i]
  BY <1>1, AppendProperties, LenProperties
<1>3. ASSUME Once(p, x) PROVE Once(s, x) /\ (y = x => x \notin Range(s))
  BY <1>2, <1>3 DEF Once, Range
<1>4. ASSUME Once(s, x), y = x => x \notin Range(s) PROVE Once(p, x)
  BY <1>2, <1>4 DEF Once, Range
<1> QED BY <1>1, <1>3, <1>4

LEMMA OnceKept ==
  ASSUME NEW X, NEW S, NEW x
  PROVE  \A s \in Seq(X) : Once(s, x) => Once(Kept(s, S), x)
<1>1. PICK T : T = {s \in Seq(X) : Once(s, x) => Once(Kept(s, S), x)} OBVIOUS
<1>2. <<>> \in T
  <2>1. <<>> \in Seq(X) /\ Kept(<<>>, S) = <<>>
    BY KeptEmpty
  <2> QED BY <1>1, <2>1
<1>3. ASSUME NEW s \in Seq(X), NEW y \in X, s \in T PROVE Append(s, y) \in T
  <2>1. Append(s, y) \in Seq(X)
    BY AppendProperties
  <2>2. ASSUME Once(Append(s, y), x) PROVE Once(Kept(Append(s, y), S), x)
    <3>1. Once(s, x) /\ (y = x => x \notin Range(s))
      BY <2>2, OnceAppend
    <3>2. Once(Kept(s, S), x)
      BY <1>1, <1>3, <3>1
    <3>3. Kept(Append(s, y), S) = IF y \in S THEN Append(Kept(s, S), y) ELSE Kept(s, S)
      BY KeptAppend
    <3>4. Kept(s, S) \in Seq(X \cap S) /\ Range(Kept(s, S)) = Range(s) \cap S
      BY KeptType, KeptElements
    <3>5. y \in S => Once(Append(Kept(s, S), y), x)
      BY <3>1, <3>2, <3>4, OnceAppend
    <3> QED BY <3>2, <3>3, <3>5
  <2> QED BY <1>1, <2>1, <2>2
<1>4. Seq(X) \subseteq T
  BY <1>2, <1>3, InductionOnSeq
<1> QED BY <1>1, <1>4

LEMMA OccursOnce ==
  ASSUME NEW X, NEW s \in Seq(X), NEW x, Once(s, x)
  PROVE  Occurs(x, s) = IF x \in Range(s) THEN 1 ELSE 0
<1>1. PICK D : D = {i \in DOMAIN s : s[i] = x} OBVIOUS
<1>2. CASE x \in Range(s)
  <2>1. PICK i \in DOMAIN s : s[i] = x
    BY <1>2 DEF Range
  <2>2. D = {i}
    BY <1>1, <2>1 DEF Once
  <2>3. Cardinality({i}) = 1
    BY FS_Singleton
  <2> QED BY <1>1, <1>2, <2>2, <2>3 DEF Occurs
<1>3. CASE x \notin Range(s)
  <2>1. D = {}
    BY <1>1, <1>3 DEF Range
  <2> QED BY <1>1, <1>3, <2>1, FS_EmptySet DEF Occurs
<1> QED BY <1>2, <1>3

(***************************************************************************)
(* What concerns one message and one ring.                                 *)
(***************************************************************************)
LEMMA RingForms ==
  \A m, r : /\ Link(m, r).at = "link" /\ Link(m, r).id = m /\ Link(m, r).room = r
            /\ Unlink(m, r).at = "unlink" /\ Unlink(m, r).id = m /\ Unlink(m, r).room = r
            /\ Take(m, r).at = "take" /\ Take(m, r).id = m /\ Take(m, r).room = r
            /\ Purge(m).at = "purge" /\ Purge(m).id = m
            /\ Unring(r).at = "unring" /\ Unring(r).id = r
            /\ DropRing(r).at = "dropring" /\ DropRing(r).id = r
            /\ Clear(r).at = "clear"
BY DEF Link, Unlink, Take, Purge, Unring, DropRing, Clear

LEMMA OneHome ==
  ASSUME TypeOK, NEW m, NEW q, NEW r, Home(m, q), Home(m, r)
  PROVE  q = r
BY SetupAssumption DEF TypeOK, Home

(* A task at its only access: all that is pending about the id, before and after. *)
LEMMA LoneWorker ==
  ASSUME Base, NEW t \in Tasks, work[t] # <<>>, IsLone(Head(work[t])),
         Head(work[t]).at # "clear",
         NEW id \in Ids \ raced, Head(work[t]).id = id,
         NEW more \in Seq(Accesses), Advances(t, more)
  PROVE  \A a : a.id = id \/ a.at = "clear" => /\ Pending(a) => a = Head(work[t])
                                               /\ Pending(a)' => a \in Range(more)
<1>1. PICK w : w = work[t] OBVIOUS
<1>2. /\ w \in Seq(Accesses) /\ InOrder(w) /\ Head(w) = w[1] /\ 1 \in DOMAIN w
  BY <1>1, Unclear DEF Base
<1>3. Len(w) = 1
  BY <1>1, <1>2 DEF InOrder, Placed
<1>4. Range(w) = {Head(w)}
  <2>1. DOMAIN w = {1}
    BY <1>2, <1>3, LenProperties
  <2> QED BY <1>2, <2>1 DEF Range
<1>5. work'[t] = more
  <2>1. work'[t] = more \o Tail(w)
    BY <1>1 DEF Advances
  <2> QED BY <1>1, <1>2, <1>3, <2>1, Lasts
<1>6. Alone(t, id)
  <2>1. Touches(t, id)
    BY <1>1, <1>4 DEF Touches
  <2> QED BY <2>1, Sole
<1>7. \A s \in Tasks \ {t} : work'[s] = work[s]
  BY DEF Advances
<1> QED BY <1>1, <1>4, <1>5, <1>6, <1>7 DEF Alone, Pending

LEMMA SoleAfter ==
  Base' => \A s \in Tasks, i \in Ids \ raced' :
             (\E a \in Range(work'[s]) : a.id = i) =>
               \A q \in Tasks \ {s} : \A a \in Range(work'[q]) : a.id # i /\ a.at # "clear"
<1>1. (Base => \A t \in Tasks : \A id \in Ids \ raced : Touches(t, id) => Alone(t, id))'
  BY Sole, PTL
<1> QED BY <1>1 DEF Touches, Alone

(* An id that what was scheduled is about: all that is pending about it is the task's. *)
LEMMA AloneAfter ==
  ASSUME Base, NEW t \in Tasks, NEW more, NEW heads, NEW tails,
         Proceeds(t, more, heads, tails), Base',
         NEW id \in Ids \ raced', NEW b \in Range(more), b.id = id
  PROVE  Alone(t, id)
<1>1. \A s \in Tasks \ {t} : \A a \in Range(work'[s]) : a.id # id /\ a.at # "clear"
  <2>1. b \in Range(work'[t])
    <3>1. work'[t] = more \o Tail(work[t]) /\ work[t] \in Seq(Accesses)
      BY DEF Proceeds, Advances, Base, TypeOK
    <3> QED BY <3>1, Joined DEF Proceeds
  <2> QED BY <2>1, SoleAfter
<1> QED BY <1>1 DEF Alone, Proceeds, Advances

LEMMA RingApart ==
  ASSUME NEW m \in Messages, NEW r \in Rooms, RingFollows(m, r), messages'[m] = messages[m],
         InRing(m, r)' <=> InRing(m, r), rings'[r] # None => Once(rings'[r], m),
         Pending(Link(m, r))' <=> Pending(Link(m, r)),
         Pending(Purge(m))' <=> Pending(Purge(m)),
         Pending(Unlink(m, r))' <=> Pending(Unlink(m, r)),
         Clearing(<<"rings">>)' <=> Clearing(<<"rings">>),
         Clearing(<<"messages">>)' <=> Clearing(<<"messages">>)
  PROVE  RingFollows(m, r)'
<1>1. Lives(m, r)' <=> Lives(m, r)
  BY DEF Lives
<1> QED BY <1>1 DEF RingFollows

LEMMA RingApartFrom ==
  ASSUME TypeOK, NEW t \in Tasks, NEW more, NEW heads, NEW tails,
         Proceeds(t, more, heads, tails), "clear" \notin heads \cup tails,
         NEW m \in Messages, NEW r \in Rooms, RingFollows(m, r), messages'[m] = messages[m],
         InRing(m, r)' <=> InRing(m, r), rings'[r] # None => Once(rings'[r], m),
         Head(work[t]) \notin {Link(m, r), Purge(m), Unlink(m, r)},
         \A a \in Range(more) : a \notin {Link(m, r), Purge(m), Unlink(m, r)}
  PROVE  RingFollows(m, r)'
<1>1. /\ work[t] # <<>> /\ more \in Seq(Accesses) /\ Advances(t, more)
      /\ Head(work[t]).at # "clear" /\ \A a \in Range(more) : a.at # "clear"
  BY DEF Proceeds
<1>2. \A a : a # Head(work[t]) /\ a \notin Range(more) => (Pending(a)' <=> Pending(a))
  BY <1>1, PendingSame
<1>3. /\ Pending(Link(m, r))' <=> Pending(Link(m, r))
      /\ Pending(Purge(m))' <=> Pending(Purge(m))
      /\ Pending(Unlink(m, r))' <=> Pending(Unlink(m, r))
  <2>1. PICK a, b, c : a = Link(m, r) /\ b = Purge(m) /\ c = Unlink(m, r)
    OBVIOUS
  <2>2. \A x \in {a, b, c} : Pending(x)' <=> Pending(x)
    BY <1>2, <2>1
  <2> QED BY <2>1, <2>2 DEF Pending
<1>4. \A map : Clearing(map)' <=> Clearing(map)
  BY <1>1, <1>2, RingForms DEF Clearing
<1> QED BY <1>3, <1>4, RingApart

(* Accesses that concern neither a message nor a ring. *)
LEMMA RingElsewhere ==
  ASSUME TypeOK, NEW t \in Tasks, NEW more, NEW heads, NEW tails,
         Proceeds(t, more, heads, tails),
         {"link", "purge", "unlink", "clear"} \cap (heads \cup tails) = {},
         messages' = messages, rings' = rings,
         NEW m \in Messages, NEW r \in Rooms, RingFollows(m, r)
  PROVE  RingFollows(m, r)'
<1>1. /\ Head(work[t]).at \notin {"link", "purge", "unlink"}
      /\ \A a \in Range(more) : a.at \notin {"link", "purge", "unlink"}
  BY DEF Proceeds
<1>2. InRing(m, r)' <=> InRing(m, r)
  BY DEF InRing
<1>3. rings'[r] # None => Once(rings'[r], m)
  BY DEF RingFollows
<1>4. /\ Head(work[t]) \notin {Link(m, r), Purge(m), Unlink(m, r)}
      /\ \A a \in Range(more) : a \notin {Link(m, r), Purge(m), Unlink(m, r)}
  BY <1>1, RingForms
<1> QED BY <1>2, <1>3, <1>4, RingApartFrom

(* A task alone at its only access, before any link or unlink of the message. *)
LEMMA RingExact ==
  ASSUME Base, NEW t \in Tasks, work[t] # <<>>, Head(work[t]).at \in {"message", "take"},
         NEW m \in Messages \ raced, Head(work[t]).id = m,
         NEW more \in Seq(Accesses), Advances(t, more),
         NEW r \in Rooms, RingFollows(m, r)
  PROVE  /\ InRing(m, r) <=> Lives(m, r)
         /\ rings[r] # None => Once(rings[r], m)
         /\ \A a : (a.id = m \/ a.at = "clear") /\ Pending(a)' => a \in Range(more)
<1>1. m \in Ids \ raced /\ IsLone(Head(work[t])) /\ Head(work[t]).at # "clear"
  BY DEF Ids, IsLone
<1>2. \A a : a.id = m \/ a.at = "clear" => /\ Pending(a) => a = Head(work[t])
                                           /\ Pending(a)' => a \in Range(more)
  BY <1>1, LoneWorker
<1>3. /\ ~ Pending(Link(m, r)) /\ ~ Pending(Purge(m)) /\ ~ Pending(Unlink(m, r))
      /\ ~ Clearing(<<"rings">>)
  BY <1>2, RingForms DEF Clearing
<1> QED BY <1>2, <1>3 DEF RingFollows

LEMMA HeadAtHome ==
  ASSUME Base, AtHome, NEW t \in Tasks, work[t] # <<>>,
         Head(work[t]).at \in {"message", "link", "take", "unlink"}
  PROVE  \/ Head(work[t]).at = "take" /\ Head(work[t]).room = None
         \/ Home(Head(work[t]).id, Head(work[t]).room)
<1>1. work[t] \in Seq(Accesses) /\ <<>> \in Seq(Accesses)
  BY Singles DEF Base, TypeOK
<1>2. Head(work[t]) \in Range(work[t])
  BY <1>1, Joined
<1>3. PICK a : a = Head(work[t])
  OBVIOUS
<1>4. (a.at = "take" /\ a.room = None) \/ Home(a.id, a.room)
  <2> HIDE DEF Home
  <2> QED BY <1>2, <1>3 DEF AtHome
<1> QED BY <1>3, <1>4

LEMMA RingMessaged ==
  ASSUME Base, AtHome, NEW t \in Tasks,
         NEW id, NEW room, NEW doc, NEW mode, NEW new, NEW more,
         Messaged(t, id, room, doc, mode, new, more),
         NEW m \in Messages \ raced, NEW r \in Rooms, RingFollows(m, r)
  PROVE  RingFollows(m, r)'
<1>1. /\ work[t] # <<>> /\ Head(work[t]) = StoreMessage(id, room, doc, mode)
      /\ id \in Messages /\ room \in Rooms
      /\ messages[id] \in [room : Rooms, doc : Documents] \cup {None}
      /\ MessagePut(id, [room |-> room, doc |-> new]) /\ new \in Documents
      /\ more = (IF messages[id] = None THEN <<Link(id, room)>> ELSE <<>>)
      /\ more \in Seq(Accesses) /\ Advances(t, more) /\ rings' = rings
  BY DEF Messaged
<1>2. Head(work[t]).at = "message" /\ Head(work[t]).id = id /\ Head(work[t]).room = room
  BY <1>1 DEF StoreMessage
<1>3. Range(more) = IF messages[id] = None THEN {Link(id, room)} ELSE {}
  BY <1>1, Singles
<1>4. InRing(m, r)' <=> InRing(m, r)
  BY <1>1 DEF InRing
<1>5. CASE id # m
  <2>1. /\ \A a \in Range(more) : a \notin {Link(m, r), Purge(m), Unlink(m, r)}
        /\ \A a \in Range(more) : a.at = "link"
    BY <1>3, <1>5, RingForms
  <2>2. Head(work[t]) \notin {Link(m, r), Purge(m), Unlink(m, r)}
    BY <1>2, RingForms
  <2>3. Proceeds(t, more, {"message"}, {"link"})
    BY <1>1, <1>2, <2>1 DEF Proceeds
  <2>4. messages'[m] = messages[m]
    BY <1>1, <1>5 DEF MessagePut
  <2>5. rings'[r] # None => Once(rings'[r], m)
    BY <1>1 DEF RingFollows
  <2> QED BY <1>4, <2>1, <2>2, <2>3, <2>4, <2>5, RingApartFrom DEF Base
<1>6. CASE id = m
  <2>1. /\ InRing(m, r) <=> Lives(m, r)
        /\ rings[r] # None => Once(rings[r], m)
        /\ \A a : (a.id = m \/ a.at = "clear") /\ Pending(a)' => a \in Range(more)
    BY <1>1, <1>2, <1>6, RingExact
  <2>2. Lives(m, r)' <=> r = room
    <3>1. messages'[m] = [room |-> room, doc |-> new]
      BY <1>1, <1>6 DEF MessagePut
    <3>2. [room |-> room, doc |-> new] \in [room : Rooms, doc : Documents]
      BY <1>1
    <3>3. messages'[m] # None /\ messages'[m].room = room
      BY <3>1, <3>2, NoneAssumption
    <3> QED BY <3>3 DEF Lives
  <2>3. /\ ~ Pending(Purge(m))' /\ ~ Pending(Unlink(m, r))'
        /\ ~ Clearing(<<"rings">>)' /\ ~ Clearing(<<"messages">>)'
    BY <1>3, <2>1, RingForms DEF Clearing
  <2>4. CASE messages[m] = None
    <3>1. ~ Lives(m, r)
      BY <2>4 DEF Lives
    <3>2. Pending(Link(m, r))' => r = room
      BY <1>3, <1>6, <2>1, RingForms
    <3>3. r = room => Pending(Link(m, r))'
      BY <1>1, <1>3, <1>6, <2>4, PendingMoves DEF Base
    <3> QED BY <1>1, <1>4, <2>1, <2>2, <2>3, <3>1, <3>2, <3>3 DEF RingFollows
  <2>5. CASE messages[m] # None
    <3>1. Lives(m, messages[m].room) /\ messages[m].room \in Rooms
      BY <1>1, <1>6, <2>5 DEF Lives
    <3>2. Home(m, room)
      BY <1>1, <1>2, <1>6, HeadAtHome
    <3>3. messages[m].room = room
      BY <3>1, <3>2, OneHome DEF AtHome, Base
    <3>4. Lives(m, r) <=> r = room
      BY <2>5, <3>3 DEF Lives
    <3>5. ~ Pending(Link(m, r))'
      BY <1>3, <1>6, <2>1, <2>5, RingForms
    <3> QED BY <1>1, <1>4, <2>1, <2>2, <2>3, <3>4, <3>5 DEF RingFollows
  <2> QED BY <2>4, <2>5
<1> QED BY <1>5, <1>6

LEMMA RingPurged ==
  ASSUME Base, NEW t \in Tasks, NEW id, Purged(t, id),
         NEW m \in Messages \ raced, NEW r \in Rooms, RingFollows(m, r)
  PROVE  RingFollows(m, r)'
<1>1. /\ work[t] # <<>> /\ Head(work[t]) = Purge(id) /\ id \in Messages
      /\ MessagePut(id, None) /\ Advances(t, <<>>) /\ rings' = rings
      /\ <<>> \in Seq(Accesses) /\ Range(<<>>) = {}
  BY Singles DEF Purged
<1>2. /\ InRing(m, r)' <=> InRing(m, r)
      /\ rings'[r] # None => Once(rings'[r], m)
  BY <1>1 DEF InRing, RingFollows
<1>3. Head(work[t]).at = "purge" /\ Head(work[t]).id = id
  BY <1>1, RingForms
<1>4. CASE id # m
  <2>1. Proceeds(t, <<>>, {"purge"}, {})
    BY <1>1, <1>3 DEF Proceeds
  <2>2. Head(work[t]) \notin {Link(m, r), Purge(m), Unlink(m, r)}
    BY <1>3, <1>4, RingForms
  <2>3. messages'[m] = messages[m]
    BY <1>1, <1>4 DEF MessagePut
  <2> QED BY <1>1, <1>2, <2>1, <2>2, <2>3, RingApartFrom DEF Base
<1>5. CASE id = m
  <2>1. \A a : Pending(a) /\ (a.id = m \/ a.at = "clear") => a \in Range(work[t])
    BY <1>1, <1>3, <1>5, Acting DEF Ids
  <2>2. \A a \in Range(work[t]) : a.at \in {"drop", "purge", "dropring", "iscurrent"}
    <3>1. \A a \in Range(Tail(work[t])) : a.at \in {"drop", "purge", "dropring", "iscurrent"}
      BY <1>1, <1>3, Following DEF IsIndexing
    <3>2. Range(work[t]) = {Head(work[t])} \cup Range(Tail(work[t]))
      BY <1>1, Joined DEF Base, TypeOK
    <3> QED BY <1>3, <3>1, <3>2
  <2>3. Pending(Purge(m)) /\ \A a : Pending(a)' => Pending(a)
    BY <1>1, <1>5, PendingMoves DEF Base
  <2>4. /\ ~ Pending(Link(m, r))' /\ ~ Pending(Unlink(m, r))'
        /\ ~ Clearing(<<"rings">>)' /\ ~ Clearing(<<"messages">>)'
    BY <2>1, <2>2, <2>3, RingForms DEF Clearing
  <2>5. ~ InRing(m, r)
    BY <2>3 DEF RingFollows
  <2>6. ~ Lives(m, r)'
    BY <1>1, <1>5 DEF MessagePut, Lives
  <2> QED BY <1>2, <2>4, <2>5, <2>6 DEF RingFollows
<1> QED BY <1>4, <1>5

LEMMA RingTook ==
  ASSUME Base, AtHome, NEW t \in Tasks,
         NEW id, NEW asked, NEW room, NEW more, Took(t, id, asked, room, more),
         NEW m \in Messages \ raced, NEW r \in Rooms, RingFollows(m, r)
  PROVE  RingFollows(m, r)'
<1>1. /\ work[t] # <<>> /\ Head(work[t]) = Take(id, asked)
      /\ id \in Messages /\ asked \in Rooms \cup {None} /\ room \in Rooms \cup {None}
      /\ room = (IF asked # None THEN asked
                 ELSE IF messages[id] # None THEN messages[id].room ELSE None)
      /\ MessagePut(id, None)
      /\ more = (IF room # None THEN <<Unlink(id, room)>> ELSE <<>>)
      /\ more \in Seq(Accesses) /\ Advances(t, more) /\ rings' = rings
  BY DEF Took
<1>2. Head(work[t]).at = "take" /\ Head(work[t]).id = id /\ Head(work[t]).room = asked
  BY <1>1, RingForms
<1>3. Range(more) = IF room # None THEN {Unlink(id, room)} ELSE {}
  BY <1>1, Singles
<1>4. /\ InRing(m, r)' <=> InRing(m, r)
      /\ rings'[r] # None => Once(rings'[r], m)
  BY <1>1 DEF InRing, RingFollows
<1>5. CASE id # m
  <2>1. /\ \A a \in Range(more) : a \notin {Link(m, r), Purge(m), Unlink(m, r)}
        /\ \A a \in Range(more) : a.at = "unlink"
    BY <1>3, <1>5, RingForms
  <2>2. Head(work[t]) \notin {Link(m, r), Purge(m), Unlink(m, r)}
    BY <1>2, RingForms
  <2>3. Proceeds(t, more, {"take"}, {"unlink"})
    BY <1>1, <1>2, <2>1 DEF Proceeds
  <2>4. messages'[m] = messages[m]
    BY <1>1, <1>5 DEF MessagePut
  <2> QED BY <1>4, <2>1, <2>2, <2>3, <2>4, RingApartFrom DEF Base
<1>6. CASE id = m
  <2>1. /\ InRing(m, r) <=> Lives(m, r)
        /\ \A a : (a.id = m \/ a.at = "clear") /\ Pending(a)' => a \in Range(more)
    BY <1>1, <1>2, <1>6, RingExact
  <2>2. messages'[m] = None /\ ~ Lives(m, r)'
    BY <1>1, <1>6 DEF MessagePut, Lives
  <2>3. /\ ~ Pending(Purge(m))' /\ ~ Pending(Link(m, r))'
        /\ ~ Clearing(<<"rings">>)' /\ ~ Clearing(<<"messages">>)'
    BY <1>3, <2>1, RingForms DEF Clearing
  <2>4. ASSUME InRing(m, r) PROVE Pending(Unlink(m, r))'
    <3>1. Lives(m, r) /\ messages[m] # None /\ messages[m].room = r
      BY <2>1, <2>4 DEF Lives
    <3>2. asked # None => asked = r
      BY <1>1, <1>2, <1>6, <3>1, HeadAtHome, OneHome DEF AtHome, Base
    <3>3. room = r /\ r # None
      BY <1>1, <1>6, <3>1, <3>2, NoneAssumption DEF Ids
    <3> QED BY <1>1, <1>3, <1>6, <3>3, PendingMoves DEF Base
  <2> QED BY <1>4, <2>2, <2>3, <2>4 DEF RingFollows
<1> QED BY <1>5, <1>6

LEMMA RingUnlinked ==
  ASSUME Base, NEW t \in Tasks,
         NEW id, NEW room, NEW ring, NEW more, Unlinked(t, id, room, ring, more),
         NEW m \in Messages \ raced, NEW r \in Rooms, RingFollows(m, r), RingFollows(m, room)
  PROVE  RingFollows(m, r)'
<1>1. /\ work[t] # <<>> /\ Head(work[t]) = Unlink(id, room)
      /\ id \in Messages /\ room \in Rooms
      /\ rings[room] = None => ring = None /\ more = <<>>
      /\ rings[room] # None =>
           /\ rings[room] \in Seq(Messages) /\ ring = Kept(rings[room], Messages \ {id})
           /\ Range(ring) = Range(rings[room]) \ {id}
           /\ more = IF ring = <<>> THEN <<Unring(room)>> ELSE <<>>
      /\ RingPut(room, ring)
      /\ more \in Seq(Accesses) /\ Advances(t, more) /\ messages' = messages
  BY DEF Unlinked
<1>2. Head(work[t]).at = "unlink" /\ Head(work[t]).id = id /\ Head(work[t]).room = room
  BY <1>1, RingForms
<1>3. \A a \in Range(more) : a.at = "unring"
  BY <1>1, Singles, RingForms
<1>4. /\ r # room => rings'[r] = rings[r]
      /\ rings'[room] = ring
  BY <1>1 DEF RingPut
<1>5. rings'[r] # None => Once(rings'[r], m)
  <2>1. CASE r = room /\ rings[r] # None
    <3>1. rings[room] \in Seq(Messages) /\ ring = Kept(rings[room], Messages \ {id})
      BY <1>1, <2>1
    <3>2. Once(rings[room], m)
      BY <2>1 DEF RingFollows
    <3> QED BY <1>4, <2>1, <3>1, <3>2, OnceKept
  <2>2. CASE r = room /\ rings[r] = None
    BY <1>1, <1>4, <2>2
  <2>3. CASE r # room
    BY <1>4, <2>3 DEF RingFollows
  <2> QED BY <2>1, <2>2, <2>3
<1>6. InRing(m, r)' <=> InRing(m, r) /\ (r # room \/ m # id)
  <2>1. CASE r = room /\ rings[r] # None
    <3>1. Range(ring) = Range(rings[room]) \ {id}
      BY <1>1, <2>1
    <3>2. ring # None
      <4>1. PICK S : S = Messages \ {id}
        OBVIOUS
      <4>2. rings[room] \in Seq(Messages) /\ ring = Kept(rings[room], S)
        BY <1>1, <2>1, <4>1
      <4>3. ring \in Seq(Messages \cap S)
        BY <4>2, KeptType
      <4>4. Messages \cap S \subseteq Messages
        OBVIOUS
      <4> QED BY <4>3, <4>4, NoneAssumption
    <3> QED BY <1>4, <2>1, <3>1, <3>2 DEF InRing
  <2>2. CASE r = room /\ rings[r] = None
    BY <1>1, <1>4, <2>2 DEF InRing
  <2>3. CASE r # room
    BY <1>4, <2>3 DEF InRing
  <2> QED BY <2>1, <2>2, <2>3
<1>7. CASE id # m
  <2>1. \A a \in Range(more) : a \notin {Link(m, r), Purge(m), Unlink(m, r)}
    BY <1>3, RingForms
  <2>2. Head(work[t]) \notin {Link(m, r), Purge(m), Unlink(m, r)}
    BY <1>2, <1>7, RingForms
  <2>3. Proceeds(t, more, {"unlink"}, {"unring"})
    BY <1>1, <1>2, <1>3 DEF Proceeds
  <2> QED BY <1>1, <1>5, <1>6, <1>7, <2>1, <2>2, <2>3, RingApartFrom DEF Base
<1>8. CASE id = m
  <2>1. \A a : a.id = m \/ a.at = "clear" => /\ Pending(a) => a = Head(work[t])
                                             /\ Pending(a)' => a \in Range(more)
    BY <1>1, <1>2, <1>8, LoneWorker DEF Ids, IsLone
  <2>2. Pending(Unlink(m, room))
    BY <1>1, <1>8, PendingMoves DEF Base
  <2>3. messages[m] = None
    BY <2>2 DEF RingFollows
  <2>4. ~ Lives(m, r) /\ ~ Lives(m, r)'
    BY <1>1, <2>3 DEF Lives
  <2>5. /\ ~ Pending(Link(m, r))' /\ ~ Pending(Unlink(m, r))' /\ ~ Pending(Purge(m))'
        /\ ~ Clearing(<<"rings">>)' /\ ~ Clearing(<<"messages">>)'
        /\ ~ Clearing(<<"rings">>) /\ (r # room => ~ Pending(Unlink(m, r)))
    BY <1>2, <1>3, <2>1, RingForms DEF Clearing
  <2>6. ~ InRing(m, r)'
    BY <1>6, <1>8, <2>4, <2>5 DEF RingFollows
  <2> QED BY <1>5, <2>4, <2>5, <2>6 DEF RingFollows
<1> QED BY <1>7, <1>8

LEMMA RingUnringed ==
  ASSUME Base, NEW t \in Tasks, NEW room, Unringed(t, room),
         NEW m \in Messages \ raced, NEW r \in Rooms, RingFollows(m, r)
  PROVE  RingFollows(m, r)'
<1>1. /\ work[t] # <<>> /\ Head(work[t]) = Unring(room) /\ room \in Rooms
      /\ RingPut(room, IF rings[room] = <<>> THEN None ELSE rings[room])
      /\ Advances(t, <<>>) /\ messages' = messages
      /\ <<>> \in Seq(Accesses) /\ Range(<<>>) = {}
  BY Singles DEF Unringed
<1>2. Head(work[t]).at = "unring"
  BY <1>1, RingForms
<1>3. rings'[r] = rings[r] \/ (rings[r] = <<>> /\ rings'[r] = None)
  BY <1>1 DEF RingPut
<1>4. /\ InRing(m, r)' <=> InRing(m, r)
      /\ rings'[r] # None => Once(rings'[r], m)
  BY <1>1, <1>3 DEF InRing, RingFollows
<1>5. Head(work[t]) \notin {Link(m, r), Purge(m), Unlink(m, r)}
  BY <1>2, RingForms
<1>6. Proceeds(t, <<>>, {"unring"}, {})
  BY <1>1, <1>2 DEF Proceeds
<1> QED BY <1>1, <1>4, <1>5, <1>6, RingApartFrom DEF Base

(* What drops out of a full ring, or with its room, is on its way out of the cache. *)
LEMMA RingExpels ==
  ASSUME Base, NEW t \in Tasks, NEW more,
         Proceeds(t, more, {"link", "dropring"}, {"purge"}), Base',
         NEW m \in Messages \ (raced \cup raced'), Purge(m) \in Range(more),
         Head(work[t]).at = "link" => Head(work[t]).id # m,
         NEW room \in Rooms, RingFollows(m, room), InRing(m, room),
         ~ InRing(m, room)', rings'[room] # None => Once(rings'[room], m),
         messages' = messages, \A r \in Rooms \ {room} : rings'[r] = rings[r],
         NEW r \in Rooms, RingFollows(m, r)
  PROVE  RingFollows(m, r)'
<1>1. /\ work[t] # <<>> /\ more \in Seq(Accesses) /\ Advances(t, more)
      /\ Head(work[t]).at \in {"link", "dropring"} /\ \A a \in Range(more) : a.at = "purge"
  BY DEF Proceeds
<1>2. Alone(t, m)
  BY RingForms, AloneAfter DEF Ids
<1>3. \A a \in Range(work[t]) :
        a = Head(work[t]) \/ a.at \in {"drop", "purge", "dropring", "iscurrent"}
  <2>1. \A a \in Range(Tail(work[t])) : a.at \in {"drop", "purge", "dropring", "iscurrent"}
    BY <1>1, Following DEF IsIndexing
  <2>2. Range(work[t]) = {Head(work[t])} \cup Range(Tail(work[t]))
    BY <1>1, Joined DEF Base, TypeOK
  <2> QED BY <2>1, <2>2
<1>4. \A a : Pending(a) /\ (a.id = m \/ a.at = "clear") =>
              a.at \in {"drop", "purge", "dropring", "iscurrent"}
  BY <1>1, <1>2, <1>3 DEF Alone, Pending
<1>5. /\ ~ Clearing(<<"rings">>) /\ ~ Clearing(<<"messages">>)
      /\ \A q \in Rooms : ~ Pending(Link(m, q)) /\ ~ Pending(Unlink(m, q))
  BY <1>4, RingForms DEF Clearing
<1>6. /\ ~ Clearing(<<"rings">>)' /\ ~ Clearing(<<"messages">>)'
      /\ \A q \in Rooms : ~ Pending(Link(m, q))' /\ ~ Pending(Unlink(m, q))'
  <2>1. \A a : Pending(a)' => a \in Range(more) \/ Pending(a)
    BY <1>1, PendingMoves DEF Base
  <2> QED BY <1>1, <1>5, <2>1, RingForms DEF Clearing
<1>7. Pending(Purge(m))'
  BY <1>1, PendingMoves DEF Base
<1>8. Lives(m, room)
  BY <1>5 DEF RingFollows
<1>9. \A q : Lives(m, q)' <=> q = room
  BY <1>8 DEF Lives
<1>10. CASE r = room
  BY <1>6, <1>7, <1>9, <1>10 DEF RingFollows
<1>11. CASE r # room
  <2>1. ~ InRing(m, r)
    BY <1>5, <1>8, <1>11 DEF RingFollows, Lives
  <2>2. ~ InRing(m, r)' /\ (rings'[r] # None => Once(rings'[r], m))
    BY <1>11, <2>1 DEF InRing, RingFollows
  <2> QED BY <1>6, <1>9, <1>11, <2>2 DEF RingFollows
<1> QED BY <1>10, <1>11

LEMMA RingRoomDropped ==
  ASSUME Base, Base', NEW t \in Tasks, NEW room, NEW more, RingDropped(t, room, more),
         NEW m \in Messages \ (raced \cup raced'), NEW r \in Rooms,
         RingFollows(m, r), RingFollows(m, room)
  PROVE  RingFollows(m, r)'
<1>1. /\ work[t] # <<>> /\ Head(work[t]) = DropRing(room) /\ room \in Rooms
      /\ Ring(room) \in Seq(Messages)
      /\ RingPut(room, None)
      /\ more \in Seq(Accesses) /\ Len(more) = Len(Ring(room))
      /\ \A i \in 1 .. Len(more) : more[i] = Purge(Ring(room)[i])
      /\ Advances(t, more) /\ messages' = messages
  BY DEF RingDropped
<1>2. Head(work[t]).at = "dropring" /\ Head(work[t]).id = room
  BY <1>1, RingForms
<1>3. Range(more) = {Purge(x) : x \in Range(Ring(room))}
  <2>1. DOMAIN more = 1 .. Len(more) /\ DOMAIN Ring(room) = 1 .. Len(more)
    BY <1>1, LenProperties
  <2> QED BY <1>1, <2>1 DEF Range
<1>4. \A a \in Range(more) : a.at = "purge"
  BY <1>3, RingForms
<1>5. Proceeds(t, more, {"link", "dropring"}, {"purge"})
  BY <1>1, <1>2, <1>4 DEF Proceeds
<1>6. rings'[room] = None /\ \A q \in Rooms \ {room} : rings'[q] = rings[q]
  BY <1>1 DEF RingPut
<1>7. ~ InRing(m, room)'
  BY <1>6 DEF InRing
<1>8. CASE InRing(m, room)
  <2>1. Purge(m) \in Range(more)
    BY <1>3, <1>8 DEF InRing, Ring
  <2> QED BY <1>1, <1>2, <1>5, <1>6, <1>7, <1>8, <2>1, RingExpels
<1>9. CASE ~ InRing(m, room)
  <2>1. m \notin Range(Ring(room))
    BY <1>9, Singles DEF InRing, Ring
  <2>2. \A a \in Range(more) : a \notin {Link(m, r), Purge(m), Unlink(m, r)}
    BY <1>3, <2>1, RingForms
  <2>3. Head(work[t]) \notin {Link(m, r), Purge(m), Unlink(m, r)}
    BY <1>2, RingForms
  <2>4. InRing(m, r)' <=> InRing(m, r)
    BY <1>6, <1>7, <1>9 DEF InRing
  <2>5. rings'[r] # None => Once(rings'[r], m)
    BY <1>6 DEF RingFollows
  <2> QED BY <1>1, <1>5, <2>2, <2>3, <2>4, <2>5, RingApartFrom DEF Base
<1> QED BY <1>8, <1>9

(* A newcomer leads the ring and may drive the last one out. *)
LEMMA RingLinked ==
  ASSUME Base, Base', NEW t \in Tasks,
         NEW id, NEW room, NEW ring, NEW k, NEW more, Linked(t, id, room, ring, k, more),
         NEW m \in Messages \ (raced \cup raced'), NEW r \in Rooms,
         RingFollows(m, r), RingFollows(m, room)
  PROVE  RingFollows(m, r)'
<1>1. /\ work[t] # <<>> /\ Head(work[t]) = Link(id, room)
      /\ id \in Messages /\ room \in Rooms
      /\ Ring(room) \in Seq(Messages) /\ k \in 0 .. Len(Ring(room))
      /\ ring \in Seq(Messages) /\ Len(ring) = k + 1 /\ ring[1] = id
      /\ \A i \in 1 .. k : ring[i + 1] = Ring(room)[i]
      /\ RingPut(room, ring)
      /\ \/ k = Len(Ring(room)) /\ more = <<>>
         \/ k + 1 = Len(Ring(room)) /\ more = <<Purge(Ring(room)[k + 1])>>
      /\ more \in Seq(Accesses) /\ Advances(t, more) /\ messages' = messages
  BY DEF Linked
<1>2. Head(work[t]).at = "link" /\ Head(work[t]).id = id /\ Head(work[t]).room = room
  BY <1>1, RingForms
<1>3. /\ k = Len(Ring(room)) => Range(more) = {}
      /\ k + 1 = Len(Ring(room)) => Range(more) = {Purge(Ring(room)[k + 1])}
  <2>1. PICK n, a : n = Len(Ring(room)) /\ a = Purge(Ring(room)[k + 1])
    OBVIOUS
  <2>2. Range(<<a>>) = {a} /\ Range(<<>>) = {}
    BY Singles
  <2>3. (n = k /\ more = <<>>) \/ (n = k + 1 /\ more = <<a>>)
    BY <1>1, <2>1
  <2>4. n = k => n # k + 1
    BY <1>1, <2>1
  <2> QED BY <2>1, <2>2, <2>3, <2>4
<1>4. /\ \A a \in Range(more) : a.at = "purge"
      /\ Proceeds(t, more, {"link", "dropring"}, {"purge"})
  BY <1>1, <1>2, <1>3, RingForms DEF Proceeds
<1>5. rings'[room] = ring /\ ring # None /\ \A q \in Rooms \ {room} : rings'[q] = rings[q]
  BY <1>1, NoneAssumption DEF RingPut
<1>6. DOMAIN ring = 1 .. k + 1 /\ DOMAIN Ring(room) = 1 .. Len(Ring(room))
  BY <1>1, LenProperties
<1>7. InRing(m, room) <=> m \in Range(Ring(room))
  BY Singles DEF InRing, Ring
<1>8. InRing(m, room)' <=> id = m \/ \E i \in 1 .. k : Ring(room)[i] = m
  <2>1. InRing(m, room)' <=> m \in Range(ring)
    BY <1>5 DEF InRing
  <2>2. m \in Range(ring) => id = m \/ \E i \in 1 .. k : Ring(room)[i] = m
    <3> SUFFICES ASSUME NEW j \in 1 .. k + 1, ring[j] = m, id # m
                 PROVE  \E i \in 1 .. k : Ring(room)[i] = m
      BY <1>6 DEF Range
    <3>1. j - 1 \in 1 .. k /\ ring[(j - 1) + 1] = Ring(room)[j - 1]
      BY <1>1
    <3>2. (j - 1) + 1 = j
      OBVIOUS
    <3> QED BY <3>1, <3>2
  <2>3. id = m \/ (\E i \in 1 .. k : Ring(room)[i] = m) => m \in Range(ring)
    <3>1. 1 \in 1 .. k + 1 /\ \A i \in 1 .. k : i + 1 \in 1 .. k + 1
      BY <1>1
    <3>2. \A i \in DOMAIN ring : ring[i] \in Range(ring)
      BY DEF Range
    <3>3. ring[1] \in Range(ring) /\ \A i \in 1 .. k : ring[i + 1] \in Range(ring)
      BY <1>6, <3>1, <3>2
    <3> QED BY <1>1, <3>3
  <2> QED BY <2>1, <2>2, <2>3
<1>9. Once(Ring(room), m)
  BY Singles DEF Ring, RingFollows, Once
<1>10. id # m \/ ~ InRing(m, room) => Once(ring, m)
  <2> SUFFICES ASSUME id # m \/ ~ InRing(m, room),
                      NEW i \in 1 .. k + 1, NEW j \in 1 .. k + 1, ring[i] = m, ring[j] = m
               PROVE  i = j
    BY <1>6 DEF Once
  <2>1. \A n \in 2 .. k + 1 : n - 1 \in DOMAIN Ring(room) /\ ring[n] = Ring(room)[n - 1]
    <3> TAKE n \in 2 .. k + 1
    <3>1. PICK h : h = n - 1
      OBVIOUS
    <3>2. k \in Nat /\ Len(Ring(room)) \in Nat /\ k <= Len(Ring(room))
      BY <1>1, LenProperties
    <3>3. h \in 1 .. k /\ h + 1 = n /\ h \in 1 .. Len(Ring(room))
      BY <3>1, <3>2
    <3>4. ring[h + 1] = Ring(room)[h]
      BY <1>1, <3>3
    <3> QED BY <1>6, <3>1, <3>3, <3>4
  <2>2. \A n \in 2 .. k + 1 : ring[n] = m => id # m
    BY <1>7, <2>1 DEF Range
  <2>3. (i = 1 \/ i \in 2 .. k + 1) /\ (j = 1 \/ j \in 2 .. k + 1)
    BY <1>1
  <2>4. i \in 2 .. k + 1 /\ j \in 2 .. k + 1 => i - 1 = j - 1
    BY <1>9, <2>1 DEF Once
  <2> QED BY <1>1, <2>2, <2>3, <2>4
<1>11. CASE id = m
  <2>1. \A a : a.id = m \/ a.at = "clear" => /\ Pending(a) => a = Head(work[t])
                                             /\ Pending(a)' => a \in Range(more)
    BY <1>1, <1>2, <1>11, LoneWorker DEF Ids, IsLone
  <2>2. Pending(Link(m, room))
    BY <1>1, <1>11, PendingMoves DEF Base
  <2>3. Lives(m, room) /\ ~ InRing(m, room)
    BY <2>2 DEF RingFollows
  <2>4. Purge(m) \notin Range(more)
    <3>1. Ring(room)[k + 1] = m /\ k + 1 = Len(Ring(room)) => m \in Range(Ring(room))
      BY <1>1, <1>6 DEF Range
    <3> QED BY <1>1, <1>3, <1>7, <2>3, <3>1, RingForms
  <2>5. /\ ~ Pending(Link(m, r))' /\ ~ Pending(Unlink(m, r))' /\ ~ Pending(Purge(m))'
        /\ ~ Clearing(<<"rings">>)' /\ ~ Clearing(<<"messages">>)'
        /\ ~ Clearing(<<"rings">>) /\ ~ Pending(Unlink(m, r))
    BY <1>2, <1>4, <2>1, <2>4, RingForms DEF Clearing
  <2>6. Lives(m, r)' <=> r = room
    BY <1>1, <2>3 DEF Lives
  <2>7. CASE r = room
    BY <1>5, <1>8, <1>10, <1>11, <2>3, <2>5, <2>6, <2>7 DEF RingFollows
  <2>8. CASE r # room
    <3>1. ~ InRing(m, r)
      BY <2>3, <2>5, <2>8 DEF RingFollows, Lives
    <3>2. ~ InRing(m, r)' /\ (rings'[r] # None => Once(rings'[r], m))
      BY <1>5, <2>8, <3>1 DEF InRing, RingFollows
    <3> QED BY <2>5, <2>6, <2>8, <3>2 DEF RingFollows
  <2> QED BY <2>7, <2>8
<1>12. CASE id # m /\ Purge(m) \in Range(more)
  <2>1. k + 1 = Len(Ring(room)) /\ Ring(room)[k + 1] = m
    BY <1>1, <1>3, <1>12, RingForms
  <2>2. InRing(m, room)
    <3>1. k + 1 \in DOMAIN Ring(room)
      <4>1. k \in Nat
        BY <1>1
      <4> QED BY <1>6, <2>1, <4>1
    <3> QED BY <1>7, <2>1, <3>1 DEF Range
  <2>3. ~ InRing(m, room)'
    BY <1>1, <1>6, <1>8, <1>9, <1>12, <2>1 DEF Once
  <2> QED BY <1>1, <1>2, <1>4, <1>5, <1>10, <1>12, <2>2, <2>3, RingExpels
<1>13. CASE id # m /\ Purge(m) \notin Range(more)
  <2>1. InRing(m, room)' <=> InRing(m, room)
    <3>1. m \in Range(Ring(room)) => \E i \in 1 .. Len(Ring(room)) : Ring(room)[i] = m
      BY <1>6 DEF Range
    <3>2. \A i \in 1 .. Len(Ring(room)) : Ring(room)[i] = m => i \in 1 .. k
      <4> TAKE i \in 1 .. Len(Ring(room))
      <4>1. PICK n : n = Len(Ring(room))
        OBVIOUS
      <4>2. i \in 1 .. k \/ (i = k + 1 /\ k + 1 = n)
        <5>1. n = k \/ n = k + 1
          BY <1>1, <4>1
        <5>2. i \in 1 .. n /\ k \in Nat
          BY <1>1, <4>1
        <5> QED BY <5>1, <5>2
      <4>3. i = k + 1 /\ k + 1 = Len(Ring(room)) /\ Ring(room)[i] = m => Purge(m) \in Range(more)
        BY <1>3
      <4> QED BY <1>13, <4>1, <4>2, <4>3
    <3>3. \A i \in 1 .. k : Ring(room)[i] = m => m \in Range(Ring(room))
      BY <1>1, <1>6 DEF Range
    <3> QED BY <1>7, <1>8, <1>13, <3>1, <3>2, <3>3
  <2>2. InRing(m, r)' <=> InRing(m, r)
    BY <1>5, <2>1 DEF InRing
  <2>3. rings'[r] # None => Once(rings'[r], m)
    BY <1>5, <1>10, <1>13 DEF RingFollows
  <2>4. \A a \in Range(more) : a \notin {Link(m, r), Purge(m), Unlink(m, r)}
    BY <1>4, <1>13, RingForms
  <2>5. Head(work[t]) \notin {Link(m, r), Purge(m), Unlink(m, r)}
    BY <1>2, <1>13, RingForms
  <2>6. messages'[m] = messages[m]
    BY <1>1
  <2> QED BY <1>4, <2>2, <2>3, <2>4, <2>5, <2>6, RingApartFrom DEF Base
<1> QED BY <1>11, <1>12, <1>13

LEMMA RingCleared ==
  ASSUME Base, NEW t \in Tasks, NEW map, Cleared(t, map),
         NEW m \in Messages \ raced, NEW r \in Rooms, RingFollows(m, r)
  PROVE  RingFollows(m, r)'
<1>1. PICK n \in 1 .. 9 :
        /\ map = Maps[n]
        /\ \A a : Pending(a) /\ a.id = m => FALSE
        /\ \A i \in 1 .. 9 : /\ Clearing(Maps[i]) <=> i >= n
                             /\ Clearing(Maps[i])' <=> i > n
  BY ClearingAlone DEF Ids
<1>2. /\ messages' = IF map = <<"messages">> THEN [x \in Messages |-> None] ELSE messages
      /\ rings' = IF map = <<"rings">> THEN [x \in Rooms |-> None] ELSE rings
      /\ work[t] # <<>> /\ <<>> \in Seq(Accesses) /\ Advances(t, <<>>) /\ Range(<<>>) = {}
  BY Singles DEF Cleared
<1>3. \A a : Pending(a)' => Pending(a)
  BY <1>2, PendingMoves DEF Base
<1>4. /\ ~ Pending(Link(m, r)) /\ ~ Pending(Unlink(m, r)) /\ ~ Pending(Purge(m))
      /\ ~ Pending(Link(m, r))' /\ ~ Pending(Unlink(m, r))' /\ ~ Pending(Purge(m))'
  BY <1>1, <1>3, RingForms
<1>5. /\ map = <<"messages">> <=> n = 6
      /\ map = <<"rings">> <=> n = 7
      /\ Clearing(<<"messages">>) <=> 6 >= n
      /\ Clearing(<<"messages">>)' <=> 6 > n
      /\ Clearing(<<"rings">>) <=> 7 >= n
      /\ Clearing(<<"rings">>)' <=> 7 > n
  <2>1. Maps[6] = <<"messages">> /\ Maps[7] = <<"rings">>
    BY MapNames
  <2>2. (Maps[n] = Maps[6] <=> n = 6) /\ (Maps[n] = Maps[7] <=> n = 7)
    BY MapNames
  <2>3. /\ Clearing(Maps[6]) <=> 6 >= n
        /\ Clearing(Maps[6])' <=> 6 > n
        /\ Clearing(Maps[7]) <=> 7 >= n
        /\ Clearing(Maps[7])' <=> 7 > n
    BY <1>1
  <2> QED BY <1>1, <2>1, <2>2, <2>3 DEF Clearing, Pending
<1>6. CASE n = 6
  <2>1. messages'[m] = None /\ rings' = rings
    BY <1>2, <1>5, <1>6
  <2>2. ~ Lives(m, r)' /\ (InRing(m, r)' <=> InRing(m, r)) /\ Clearing(<<"rings">>)'
    BY <1>5, <1>6, <2>1 DEF Lives, InRing
  <2> QED BY <1>4, <2>1, <2>2 DEF RingFollows
<1>7. CASE n = 7
  <2>1. rings'[r] = None /\ messages' = messages
    BY <1>2, <1>5, <1>7
  <2>2. messages[m] = None
    BY <1>5, <1>7 DEF RingFollows
  <2>3. ~ Lives(m, r)' /\ ~ InRing(m, r)'
    BY <2>1, <2>2 DEF Lives, InRing
  <2> QED BY <1>4, <2>1, <2>2, <2>3 DEF RingFollows
<1>8. CASE n # 6 /\ n # 7
  <2>1. messages' = messages /\ rings' = rings
    BY <1>2, <1>5, <1>8
  <2>2. /\ Clearing(<<"rings">>)' <=> Clearing(<<"rings">>)
        /\ Clearing(<<"messages">>)' <=> Clearing(<<"messages">>)
    BY <1>5, <1>8
  <2>3. InRing(m, r)' <=> InRing(m, r)
    BY <2>1 DEF InRing
  <2>4. rings'[r] # None => Once(rings'[r], m)
    BY <2>1 DEF RingFollows
  <2> QED BY <1>4, <2>1, <2>2, <2>3, <2>4, RingApart
<1> QED BY <1>6, <1>7, <1>8

LEMMA RingBegan ==
  ASSUME Base, NEW t \in Tasks, NEW op, NEW p, NEW about, Began(t, op, p, about),
         NEW m \in Messages, NEW r \in Rooms, RingFollows(m, r)
  PROVE  RingFollows(m, r)'
<1>1. messages' = messages /\ rings' = rings /\ Started(op, p)
  BY DEF Began, store
<1>2. \A a : Pending(a)' <=> a \in Range(p) \/ Pending(a)
  BY PendingBegins DEF Base
<1>3. \A a \in Range(p) : a.at \notin {"link", "unlink", "purge"}
  BY <1>1, StartedWith
<1>4. /\ Pending(Link(m, r))' <=> Pending(Link(m, r))
      /\ Pending(Purge(m))' <=> Pending(Purge(m))
      /\ Pending(Unlink(m, r))' <=> Pending(Unlink(m, r))
  <2>1. PICK a, b, c : a = Link(m, r) /\ b = Purge(m) /\ c = Unlink(m, r)
    OBVIOUS
  <2>2. \A x \in {a, b, c} : Pending(x)' <=> Pending(x)
    BY <1>2, <1>3, <2>1, RingForms
  <2> QED BY <2>1, <2>2 DEF Pending
<1>5. InRing(m, r)' <=> InRing(m, r)
  BY <1>1 DEF InRing
<1>6. rings'[r] # None => Once(rings'[r], m)
  BY <1>1 DEF RingFollows
<1>7. (\A map : Clearing(map)' <=> Clearing(map)) \/ (\A i \in 1 .. 9 : Clearing(Maps[i])')
  BY PendingBegins DEF Base
<1>8. CASE \A map : Clearing(map)' <=> Clearing(map)
  BY <1>1, <1>4, <1>5, <1>6, <1>8, RingApart
<1>9. CASE \A i \in 1 .. 9 : Clearing(Maps[i])'
  <2>1. Maps[6] = <<"messages">> /\ Maps[7] = <<"rings">>
    BY MapNames
  <2>2. Clearing(Maps[6])' /\ Clearing(Maps[7])'
    BY <1>9
  <2>3. Clearing(<<"messages">>)' /\ Clearing(<<"rings">>)'
    BY <2>1, <2>2 DEF Clearing, Pending
  <2>4. Lives(m, r)' <=> Lives(m, r)
    BY <1>1 DEF Lives
  <2> QED BY <1>1, <1>4, <1>5, <1>6, <2>3, <2>4 DEF RingFollows
<1> QED BY <1>7, <1>8, <1>9

LEMMA RingStays ==
  ASSUME Base, AtHome, Base', NEW t \in Tasks, Accessed(t),
         NEW m \in Messages \ (raced \cup raced'), NEW r \in Rooms,
         \A q \in Rooms : RingFollows(m, q)
  PROVE  RingFollows(m, r)'
<1>1. RingFollows(m, r) /\ m \in Messages \ raced
  OBVIOUS
<1>2. CASE \E kind, id, doc, mode, more : Upserted(t, kind, id, doc, mode, more)
  <2>1. PICK kind, id, doc, mode, more : Upserted(t, kind, id, doc, mode, more)
    BY <1>2
  <2>2. Proceeds(t, more, {"upsert"}, {"unindex", "enindex", "count"})
    BY <2>1, UpsertProceeds
  <2>3. messages' = messages /\ rings' = rings
    BY <2>1 DEF Upserted
  <2> QED BY <1>1, <2>2, <2>3, RingElsewhere DEF Base
<1>3. CASE \E kind, id, forget, more : Dropped(t, kind, id, forget, more)
  <2>1. PICK kind, id, forget, more : Dropped(t, kind, id, forget, more)
    BY <1>3
  <2>2. Proceeds(t, more, {"drop"}, {"unindex", "forget", "drop", "dropring"})
    BY <2>1, DropProceeds
  <2>3. messages' = messages /\ rings' = rings
    BY <2>1 DEF Dropped
  <2> QED BY <1>1, <2>2, <2>3, RingElsewhere DEF Base
<1>4. CASE \E map : Cleared(t, map)
  BY <1>1, <1>4, RingCleared
<1>5. CASE OnNames(t)
  <2>1. /\ \E more : Proceeds(t, more, {"unindex", "enindex"}, {}) /\ more = <<>>
        /\ messages' = messages /\ rings' = rings
    BY <1>5, NamesProceed
  <2>2. PICK more : Proceeds(t, more, {"unindex", "enindex"}, {})
    BY <2>1
  <2> QED BY <1>1, <2>1, <2>2, RingElsewhere DEF Base
<1>6. CASE OnQueue(t)
  <2>1. /\ \E more : Proceeds(t, more, {"count", "note", "forget"}, {"note", "drop"})
        /\ messages' = messages /\ rings' = rings
    BY <1>6, QueueProceeds
  <2>2. PICK more : Proceeds(t, more, {"count", "note", "forget"}, {"note", "drop"})
    BY <2>1
  <2> QED BY <1>1, <2>1, <2>2, RingElsewhere DEF Base
<1>7. CASE OnCurrent(t)
  <2>1. /\ \E more : Proceeds(t, more, {"login", "iscurrent", "refresh"}, {"refresh"})
        /\ messages' = messages /\ rings' = rings
    BY <1>7, CurrentProceeds
  <2>2. PICK more : Proceeds(t, more, {"login", "iscurrent", "refresh"}, {"refresh"})
    BY <2>1
  <2> QED BY <1>1, <2>1, <2>2, RingElsewhere DEF Base
<1>8. CASE OnMessages(t)
  <2>1. CASE \E id, room, doc, mode, new, more : Messaged(t, id, room, doc, mode, new, more)
    BY <1>1, <2>1, RingMessaged
  <2>2. CASE \E id, room, ring, k, more : Linked(t, id, room, ring, k, more)
    <3>1. PICK id, room, ring, k, more : Linked(t, id, room, ring, k, more)
      BY <2>2
    <3>2. RingFollows(m, room)
      BY <3>1 DEF Linked
    <3> QED BY <1>1, <3>1, <3>2, RingLinked
  <2>3. CASE \E id : Purged(t, id)
    BY <1>1, <2>3, RingPurged
  <2>4. CASE \E id, asked, room, more : Took(t, id, asked, room, more)
    BY <1>1, <2>4, RingTook
  <2>5. CASE \E id, room, ring, more : Unlinked(t, id, room, ring, more)
    <3>1. PICK id, room, ring, more : Unlinked(t, id, room, ring, more)
      BY <2>5
    <3>2. RingFollows(m, room)
      BY <3>1 DEF Unlinked
    <3> QED BY <1>1, <3>1, <3>2, RingUnlinked
  <2>6. CASE \E room : Unringed(t, room)
    BY <1>1, <2>6, RingUnringed
  <2>7. CASE \E room, more : RingDropped(t, room, more)
    <3>1. PICK room, more : RingDropped(t, room, more)
      BY <2>7
    <3>2. RingFollows(m, room)
      BY <3>1 DEF RingDropped
    <3> QED BY <1>1, <3>1, <3>2, RingRoomDropped
  <2> QED BY <1>8, <2>1, <2>2, <2>3, <2>4, <2>5, <2>6, <2>7 DEF OnMessages
<1> QED BY <1>2, <1>3, <1>4, <1>5, <1>6, <1>7, <1>8, Groups

(* A message and the room it is in: the server never moves one. *)
LEMMA HomeStays ==
  ASSUME setup' = setup
  PROVE  \A m, r : Home(m, r)' <=> Home(m, r)
BY DEF Home

LEMMA AtHomeMeans ==
  AtHome <=> /\ \A m \in Messages, r \in Rooms : Lives(m, r) => Home(m, r)
             /\ \A a : Pending(a) /\ a.at \in {"message", "link", "take", "unlink"} =>
                         (a.at = "take" /\ a.room = None) \/ Home(a.id, a.room)
BY DEF AtHome, Pending

(* Documents are stored, and links and unlinks scheduled, for the room of the head. *)
LEMMA HomeKept ==
  ASSUME Base, AtHome, NEW t \in Tasks, NEW more \in Seq(Accesses), Advances(t, more),
         work[t] # <<>>,
         \A m \in Messages, r \in Rooms : Lives(m, r)' => Lives(m, r) \/ Home(m, r),
         \A a \in Range(more) : a.at \in {"message", "link", "take", "unlink"} =>
                                  Home(a.id, a.room)
  PROVE  AtHome'
<1>1. \A m, r : Home(m, r)' <=> Home(m, r)
  BY HomeStays DEF Advances
<1>2. \A a : Pending(a)' => a \in Range(more) \/ Pending(a)
  BY PendingMoves DEF Base
<1>3. /\ \A m \in Messages, r \in Rooms : Lives(m, r) => Home(m, r)
      /\ \A a : Pending(a) /\ a.at \in {"message", "link", "take", "unlink"} =>
                  (a.at = "take" /\ a.room = None) \/ Home(a.id, a.room)
  BY AtHomeMeans
<1>4. \A m \in Messages, r \in Rooms : Lives(m, r)' => Home(m, r)'
  BY <1>1, <1>3
<1>5. ASSUME NEW a, Pending(a)', a.at \in {"message", "link", "take", "unlink"}
      PROVE  (a.at = "take" /\ a.room = None) \/ Home(a.id, a.room)'
  <2>1. (a.at = "take" /\ a.room = None) \/ Home(a.id, a.room)
    BY <1>2, <1>3, <1>5
  <2> QED BY <1>1, <2>1
<1>6. (AtHome <=> /\ \A m \in Messages, r \in Rooms : Lives(m, r) => Home(m, r)
                  /\ \A a : Pending(a) /\ a.at \in {"message", "link", "take", "unlink"} =>
                              (a.at = "take" /\ a.room = None) \/ Home(a.id, a.room))'
  BY AtHomeMeans, PTL
<1> QED BY <1>4, <1>5, <1>6

(* Accesses that store no message and link or unlink none. *)
LEMMA HomeKeptElsewhere ==
  ASSUME Base, AtHome, NEW t \in Tasks, NEW more, NEW heads, NEW tails,
         Proceeds(t, more, heads, tails), {"message", "link", "take", "unlink"} \cap tails = {},
         \A m \in Messages : messages'[m] = messages[m] \/ messages'[m] = None
  PROVE  AtHome'
<1>1. \A a \in Range(more) : a.at \notin {"message", "link", "take", "unlink"}
  BY DEF Proceeds
<1>2. \A m \in Messages, r \in Rooms : Lives(m, r)' => Lives(m, r)
  BY DEF Lives
<1>3. work[t] # <<>> /\ more \in Seq(Accesses) /\ Advances(t, more)
  BY DEF Proceeds
<1>4. \A a \in Range(more) : a.at \in {"message", "link", "take", "unlink"} => Home(a.id, a.room)
  BY <1>1
<1>5. \A m \in Messages, r \in Rooms : Lives(m, r)' => Lives(m, r) \/ Home(m, r)
  BY <1>2
<1> QED BY <1>3, <1>4, <1>5, HomeKept

LEMMA HomeOnMessages ==
  ASSUME Base, AtHome, NEW t \in Tasks, OnMessages(t)
  PROVE  AtHome'
<1>1. ASSUME NEW id, NEW room, NEW doc, NEW mode, NEW new, NEW more,
             Messaged(t, id, room, doc, mode, new, more)
      PROVE  AtHome'
  <2>1. /\ work[t] # <<>> /\ Head(work[t]) = StoreMessage(id, room, doc, mode)
        /\ id \in Messages /\ room \in Rooms
        /\ MessagePut(id, [room |-> room, doc |-> new])
        /\ more = (IF messages[id] = None THEN <<Link(id, room)>> ELSE <<>>)
        /\ more \in Seq(Accesses) /\ Advances(t, more)
    BY <1>1 DEF Messaged
  <2>2. Head(work[t]).at = "message" /\ Head(work[t]).id = id /\ Head(work[t]).room = room
    BY <2>1 DEF StoreMessage
  <2>3. Home(id, room)
    BY <2>1, <2>2, HeadAtHome
  <2>4. \A a \in Range(more) : a = Link(id, room)
    BY <2>1, Singles
  <2>5. \A a \in Range(more) : Home(a.id, a.room)
    BY <2>3, <2>4, RingForms
  <2>6. ASSUME NEW m \in Messages, NEW r \in Rooms, Lives(m, r)'
        PROVE  Lives(m, r) \/ Home(m, r)
    <3>1. CASE m = id
      <4>1. messages'[m] = [room |-> room, doc |-> new]
        BY <2>1, <3>1 DEF MessagePut
      <4>2. r = room
        BY <2>6, <4>1 DEF Lives
      <4> QED BY <2>3, <3>1, <4>2
    <3>2. CASE m # id
      BY <2>1, <2>6, <3>2 DEF MessagePut, Lives
    <3> QED BY <3>1, <3>2
  <2> QED BY <2>1, <2>5, <2>6, HomeKept
<1>2. ASSUME NEW id, NEW room, NEW ring, NEW k, NEW more, Linked(t, id, room, ring, k, more)
      PROVE  AtHome'
  <2>1. /\ work[t] # <<>> /\ more \in Seq(Accesses) /\ Advances(t, more)
        /\ messages' = messages
        /\ more = <<>> \/ \E q : more = <<Purge(q)>>
    BY <1>2 DEF Linked
  <2>2. \A a \in Range(more) : a.at = "purge"
    BY <2>1, Singles, RingForms
  <2>3. Proceeds(t, more, {Head(work[t]).at}, {"purge"})
    BY <2>1, <2>2 DEF Proceeds
  <2> QED BY <2>1, <2>3, HomeKeptElsewhere
<1>3. ASSUME NEW id, Purged(t, id) PROVE AtHome'
  <2>1. /\ work[t] # <<>> /\ <<>> \in Seq(Accesses) /\ Advances(t, <<>>) /\ Range(<<>>) = {}
        /\ MessagePut(id, None)
    BY <1>3, Singles DEF Purged
  <2>2. Proceeds(t, <<>>, {Head(work[t]).at}, {})
    BY <2>1 DEF Proceeds
  <2>3. \A m \in Messages : messages'[m] = messages[m] \/ messages'[m] = None
    BY <2>1 DEF MessagePut
  <2> QED BY <2>2, <2>3, HomeKeptElsewhere
<1>4. ASSUME NEW id, NEW asked, NEW room, NEW more, Took(t, id, asked, room, more)
      PROVE  AtHome'
  <2>1. /\ work[t] # <<>> /\ Head(work[t]) = Take(id, asked)
        /\ id \in Messages /\ asked \in Rooms \cup {None} /\ room \in Rooms \cup {None}
        /\ room = (IF asked # None THEN asked
                   ELSE IF messages[id] # None THEN messages[id].room ELSE None)
        /\ MessagePut(id, None)
        /\ more = (IF room # None THEN <<Unlink(id, room)>> ELSE <<>>)
        /\ more \in Seq(Accesses) /\ Advances(t, more)
    BY <1>4 DEF Took
  <2>2. Head(work[t]).at = "take" /\ Head(work[t]).id = id /\ Head(work[t]).room = asked
    BY <2>1, RingForms
  <2>3. room # None => Home(id, room)
    <3>1. asked # None => Home(id, asked)
      BY <2>1, <2>2, HeadAtHome
    <3>2. ASSUME asked = None, room # None PROVE Lives(id, room) /\ room \in Rooms
      BY <2>1, <3>2 DEF Lives
    <3> QED BY <2>1, <3>1, <3>2 DEF AtHome
  <2>4. \A a \in Range(more) : room # None /\ a = Unlink(id, room)
    BY <2>1, Singles
  <2>5. \A a \in Range(more) : Home(a.id, a.room)
    BY <2>3, <2>4, RingForms
  <2>6. \A m \in Messages, r \in Rooms : Lives(m, r)' => Lives(m, r)
    BY <2>1 DEF MessagePut, Lives
  <2> QED BY <2>1, <2>5, <2>6, HomeKept
<1>5. ASSUME NEW id, NEW room, NEW ring, NEW more, Unlinked(t, id, room, ring, more)
      PROVE  AtHome'
  <2>1. /\ work[t] # <<>> /\ more \in Seq(Accesses) /\ Advances(t, more)
        /\ messages' = messages
        /\ more = <<>> \/ more = <<Unring(room)>>
    BY <1>5 DEF Unlinked
  <2>2. \A a \in Range(more) : a.at = "unring"
    BY <2>1, Singles, RingForms
  <2>3. Proceeds(t, more, {Head(work[t]).at}, {"unring"})
    BY <2>1, <2>2 DEF Proceeds
  <2> QED BY <2>1, <2>3, HomeKeptElsewhere
<1>6. ASSUME NEW room, Unringed(t, room) PROVE AtHome'
  <2>1. /\ work[t] # <<>> /\ <<>> \in Seq(Accesses) /\ Advances(t, <<>>) /\ Range(<<>>) = {}
        /\ messages' = messages
    BY <1>6, Singles DEF Unringed
  <2>2. Proceeds(t, <<>>, {Head(work[t]).at}, {})
    BY <2>1 DEF Proceeds
  <2> QED BY <2>1, <2>2, HomeKeptElsewhere
<1>7. ASSUME NEW room, NEW more, RingDropped(t, room, more) PROVE AtHome'
  <2>1. /\ work[t] # <<>> /\ more \in Seq(Accesses) /\ Advances(t, more)
        /\ messages' = messages
        /\ \A i \in 1 .. Len(more) : more[i] = Purge(Ring(room)[i])
    BY <1>7 DEF RingDropped
  <2>2. \A a \in Range(more) : a.at = "purge"
    <3>1. DOMAIN more = 1 .. Len(more)
      BY <2>1, LenProperties
    <3> QED BY <2>1, <3>1, RingForms DEF Range
  <2>3. Proceeds(t, more, {Head(work[t]).at}, {"purge"})
    BY <2>1, <2>2 DEF Proceeds
  <2> QED BY <2>1, <2>3, HomeKeptElsewhere
<1> QED BY <1>1, <1>2, <1>3, <1>4, <1>5, <1>6, <1>7 DEF OnMessages

LEMMA HomeAccessed ==
  ASSUME Base, AtHome, NEW t \in Tasks, Accessed(t)
  PROVE  AtHome'
<1>1. CASE \E kind, id, doc, mode, more : Upserted(t, kind, id, doc, mode, more)
  <2>1. PICK kind, id, doc, mode, more : Upserted(t, kind, id, doc, mode, more)
    BY <1>1
  <2>2. Proceeds(t, more, {"upsert"}, {"unindex", "enindex", "count"})
    BY <2>1, UpsertProceeds
  <2>3. messages' = messages
    BY <2>1 DEF Upserted
  <2> QED BY <2>2, <2>3, HomeKeptElsewhere
<1>2. CASE \E kind, id, forget, more : Dropped(t, kind, id, forget, more)
  <2>1. PICK kind, id, forget, more : Dropped(t, kind, id, forget, more)
    BY <1>2
  <2>2. Proceeds(t, more, {"drop"}, {"unindex", "forget", "drop", "dropring"})
    BY <2>1, DropProceeds
  <2>3. messages' = messages
    BY <2>1 DEF Dropped
  <2> QED BY <2>2, <2>3, HomeKeptElsewhere
<1>3. CASE \E map : Cleared(t, map)
  <2>1. PICK map : Cleared(t, map)
    BY <1>3
  <2>2. Proceeds(t, <<>>, {"clear"}, {})
    BY <2>1, ClearProceeds
  <2>3. \A m \in Messages : messages'[m] = messages[m] \/ messages'[m] = None
    BY <2>1 DEF Cleared
  <2> QED BY <2>2, <2>3, HomeKeptElsewhere
<1>4. CASE OnNames(t)
  <2>1. /\ \E more : Proceeds(t, more, {"unindex", "enindex"}, {}) /\ more = <<>>
        /\ messages' = messages
    BY <1>4, NamesProceed
  <2>2. PICK more : Proceeds(t, more, {"unindex", "enindex"}, {})
    BY <2>1
  <2> QED BY <2>1, <2>2, HomeKeptElsewhere
<1>5. CASE OnQueue(t)
  <2>1. /\ \E more : Proceeds(t, more, {"count", "note", "forget"}, {"note", "drop"})
        /\ messages' = messages
    BY <1>5, QueueProceeds
  <2>2. PICK more : Proceeds(t, more, {"count", "note", "forget"}, {"note", "drop"})
    BY <2>1
  <2> QED BY <2>1, <2>2, HomeKeptElsewhere
<1>6. CASE OnCurrent(t)
  <2>1. /\ \E more : Proceeds(t, more, {"login", "iscurrent", "refresh"}, {"refresh"})
        /\ messages' = messages
    BY <1>6, CurrentProceeds
  <2>2. PICK more : Proceeds(t, more, {"login", "iscurrent", "refresh"}, {"refresh"})
    BY <2>1
  <2> QED BY <2>1, <2>2, HomeKeptElsewhere
<1>7. CASE OnMessages(t)
  BY <1>7, HomeOnMessages
<1> QED BY <1>1, <1>2, <1>3, <1>4, <1>5, <1>6, <1>7, Groups

(* Of the accesses an operation begins with, those about a message name its room. *)
LEMMA StartedMessages ==
  ASSUME NEW op, NEW p, Started(op, p), NEW a \in Range(p),
         a.at \in {"message", "link", "take", "unlink"}
  PROVE  \/ op.op \in {"message", "removeMessageIn"} /\ a.id = op.id /\ a.room = op.room
         \/ a.at = "take" /\ a.room = None
<1>1. \A k, i, d, m : /\ Upsert(k, i, d, m).at = "upsert" /\ Refresh(k, i, d, m).at = k
                      /\ StoreMessage(k, i, d, m).at = "message"
                      /\ StoreMessage(k, i, d, m).id = k /\ StoreMessage(k, i, d, m).room = i
  BY DEF Upsert, Refresh, StoreMessage
<1>2. \A k, i, f : /\ DropDoc(k, i, f).at = "drop" /\ Take(k, i).at = "take"
                   /\ Take(k, i).id = k /\ Take(k, i).room = i
  BY DEF DropDoc, Take
<1>3. \A b : Range(<<b>>) = {b} /\ \A c : Range(<<b, c>>) = {b, c}
  BY DEF Range
<1>4. p # <<>> /\ a.at \in {"take", "message"}
  BY StartedWith, Singles
<1>5. p # RestOfClear(0)
  <2>1. RestOfClear(0) \in Seq(Clears) /\ \A b \in Clears : b.at = "clear"
    <3>1. 0 \in 0 .. 8
      OBVIOUS
    <3> QED BY <3>1, ClearFacts, Forms
  <2>2. \A b \in Range(RestOfClear(0)) : b.at = "clear"
    BY <2>1, ElementOfSeq, LenProperties DEF Range
  <2> QED BY <1>4, <2>2
<1>6. CASE op.op = "message"
  <2>1. p = <<Take(op.id, op.room)>>
          \/ p = <<StoreMessage(op.id, op.room, op.doc, MessageMode(op))>>
    BY <1>4, <1>6 DEF Started
  <2>2. a = Take(op.id, op.room) \/ a = StoreMessage(op.id, op.room, op.doc, MessageMode(op))
    BY <1>3, <2>1
  <2>3. a.id = op.id /\ a.room = op.room
    BY <1>1, <1>2, <2>2
  <2> QED BY <1>6, <2>3
<1>7. CASE op.op = "removeMessageIn"
  <2>1. p = <<Take(op.id, op.room)>>
    BY <1>4, <1>7 DEF Started
  <2> QED BY <1>2, <1>3, <1>7, <2>1
<1>8. CASE op.op = "removeMessage"
  <2>1. p = <<Take(op.id, None)>>
    BY <1>4, <1>8 DEF Started
  <2> QED BY <1>2, <1>3, <2>1
<1>9. ASSUME op.op \notin {"message", "removeMessage", "removeMessageIn"}
      PROVE  FALSE
  <2>1. CASE op.op = "store"
    BY <1>1, <1>3, <1>4, <1>5, <2>1 DEF Started
  <2>2. CASE op.op = "remove"
    BY <1>2, <1>3, <1>4, <1>5, <2>2 DEF Started
  <2>3. CASE op.op = "user"
    <3>1. \/ p = <<Upsert("user", op.id, op.doc, op.mode)>>
          \/ p = <<Refresh("iscurrent", op.id, op.doc, op.mode)>>
          \/ p = <<Upsert("user", op.id, op.doc, op.mode),
                   Refresh("iscurrent", op.id, op.doc, op.mode)>>
      BY <1>4, <1>5, <2>3 DEF Started
    <3>2. \/ a = Upsert("user", op.id, op.doc, op.mode)
          \/ a = Refresh("iscurrent", op.id, op.doc, op.mode)
      BY <1>3, <3>1
    <3> QED BY <1>1, <1>4, <3>2
  <2>4. CASE op.op = "login"
    <3>1. \/ p = <<Upsert("user", op.id, op.doc, "Merge")>>
          \/ p = <<Refresh("login", op.id, op.doc, "Merge")>>
          \/ p = <<Refresh("login", op.id, op.doc, "Merge"),
                   Upsert("user", op.id, op.doc, "Merge")>>
      BY <1>4, <1>5, <2>4 DEF Started
    <3>2. \/ a = Upsert("user", op.id, op.doc, "Merge")
          \/ a = Refresh("login", op.id, op.doc, "Merge")
      BY <1>3, <3>1
    <3> QED BY <1>1, <1>4, <3>2
  <2>5. CASE op.op \notin {"store", "remove", "user", "login"}
    BY <1>4, <1>5, <1>9, <2>5 DEF Started
  <2> QED BY <2>1, <2>2, <2>3, <2>4, <2>5
<1> QED BY <1>6, <1>7, <1>8, <1>9

LEMMA HomeBegan ==
  ASSUME Base, AtHome, NEW t \in Tasks, NEW op, NEW p, NEW about, Began(t, op, p, about)
  PROVE  AtHome'
<1>1. /\ op \in setup.operations /\ Started(op, p) /\ setup' = setup /\ messages' = messages
  BY DEF Began, store
<1>2. \A a : Pending(a)' <=> a \in Range(p) \/ Pending(a)
  BY PendingBegins DEF Base
<1>3. \A m, r : Home(m, r)' <=> Home(m, r)
  BY <1>1, HomeStays
<1>4. /\ \A m \in Messages, r \in Rooms : Lives(m, r) => Home(m, r)
      /\ \A a : Pending(a) /\ a.at \in {"message", "link", "take", "unlink"} =>
                  (a.at = "take" /\ a.room = None) \/ Home(a.id, a.room)
  BY AtHomeMeans
<1>5. \A m \in Messages, r \in Rooms : Lives(m, r)' => Home(m, r)'
  BY <1>1, <1>3, <1>4 DEF Lives
<1>6. ASSUME NEW a \in Range(p), a.at \in {"message", "link", "take", "unlink"}
      PROVE  (a.at = "take" /\ a.room = None) \/ Home(a.id, a.room)
  <2>1. op.op \in {"message", "removeMessageIn"} => Home(op.id, op.room)
    BY <1>1 DEF Home
  <2>2. \/ op.op \in {"message", "removeMessageIn"} /\ a.id = op.id /\ a.room = op.room
        \/ a.at = "take" /\ a.room = None
    BY <1>1, <1>6, StartedMessages
  <2> QED BY <2>1, <2>2
<1>7. ASSUME NEW a, Pending(a)', a.at \in {"message", "link", "take", "unlink"}
      PROVE  (a.at = "take" /\ a.room = None) \/ Home(a.id, a.room)'
  <2>1. (a.at = "take" /\ a.room = None) \/ Home(a.id, a.room)
    BY <1>2, <1>4, <1>6, <1>7
  <2> QED BY <1>3, <2>1
<1>8. (AtHome <=> /\ \A m \in Messages, r \in Rooms : Lives(m, r) => Home(m, r)
                  /\ \A a : Pending(a) /\ a.at \in {"message", "link", "take", "unlink"} =>
                              (a.at = "take" /\ a.room = None) \/ Home(a.id, a.room))'
  BY AtHomeMeans, PTL
<1> QED BY <1>5, <1>7, <1>8

(* An empty ring is about to be removed. *)
LEMMA EmptyKept ==
  ASSUME TypeOK, NoEmptyRing, NEW t \in Tasks, NEW more, NEW heads, NEW tails,
         Proceeds(t, more, heads, tails), "unring" \notin heads, rings' = rings
  PROVE  NoEmptyRing'
<1>1. work[t] # <<>> /\ more \in Seq(Accesses) /\ Advances(t, more) /\ Head(work[t]).at # "unring"
  BY DEF Proceeds
<1>2. \A a : Pending(a) => a = Head(work[t]) \/ Pending(a)'
  BY <1>1, PendingMoves
<1>3. ASSUME NEW r \in Rooms, rings'[r] = <<>> PROVE Pending(Unring(r))'
  <2>1. PICK a : a = Unring(r)
    OBVIOUS
  <2>2. Pending(a)
    BY <1>3, <2>1 DEF NoEmptyRing
  <2>3. Pending(a)'
    BY <1>1, <1>2, <2>1, <2>2, RingForms
  <2> QED BY <2>1, <2>3 DEF Pending
<1> QED BY <1>3 DEF NoEmptyRing

(* One ring changes. *)
LEMMA EmptyPut ==
  ASSUME TypeOK, NoEmptyRing, NEW t \in Tasks, NEW more \in Seq(Accesses), Advances(t, more),
         work[t] # <<>>, NEW room \in Rooms,
         \A r \in Rooms : r # room =>
           Head(work[t]) # Unring(r) /\ rings'[r] = rings[r],
         rings'[room] = <<>> => Unring(room) \in Range(more)
  PROVE  NoEmptyRing'
<1>1. /\ \A a : Pending(a) => a = Head(work[t]) \/ Pending(a)'
      /\ \A a : a \in Range(more) => Pending(a)'
  BY PendingMoves
<1>2. ASSUME NEW r \in Rooms, rings'[r] = <<>> PROVE Pending(Unring(r))'
  <2>1. PICK a : a = Unring(r)
    OBVIOUS
  <2>2. CASE r = room
    <3>1. Pending(a)'
      BY <1>1, <1>2, <2>1, <2>2
    <3> QED BY <2>1, <3>1 DEF Pending
  <2>3. CASE r # room
    <3>1. Pending(a)
      BY <1>2, <2>1, <2>3 DEF NoEmptyRing
    <3>2. Pending(a)'
      BY <1>1, <2>1, <2>3, <3>1
    <3> QED BY <2>1, <3>2 DEF Pending
  <2> QED BY <2>2, <2>3
<1> QED BY <1>2 DEF NoEmptyRing

LEMMA EmptyOnMessages ==
  ASSUME Base, NoEmptyRing, NEW t \in Tasks, OnMessages(t)
  PROVE  NoEmptyRing'
<1> USE RingForms DEF Base
<1>1. ASSUME NEW id, NEW room, NEW doc, NEW mode, NEW new, NEW more,
             Messaged(t, id, room, doc, mode, new, more)
      PROVE  NoEmptyRing'
  <2>1. /\ work[t] # <<>> /\ Head(work[t]).at = "message" /\ rings' = rings
        /\ more \in Seq(Accesses) /\ Advances(t, more)
    BY <1>1 DEF Messaged, StoreMessage
  <2>2. Proceeds(t, more, {"message"}, {a.at : a \in Range(more)})
    BY <2>1 DEF Proceeds
  <2> QED BY <2>1, <2>2, EmptyKept
<1>2. ASSUME NEW id, NEW room, NEW ring, NEW k, NEW more, Linked(t, id, room, ring, k, more)
      PROVE  NoEmptyRing'
  <2>1. /\ work[t] # <<>> /\ Head(work[t]) = Link(id, room) /\ room \in Rooms
        /\ more \in Seq(Accesses) /\ Advances(t, more)
        /\ RingPut(room, ring) /\ Len(ring) = k + 1 /\ k \in 0 .. Len(Ring(room))
        /\ Ring(room) \in Seq(Messages)
    BY <1>2 DEF Linked
  <2>2. ring # <<>>
    <3>1. k + 1 # 0
      BY <2>1
    <3> QED BY <2>1, <3>1, Singles
  <2>3. /\ \A r \in Rooms : r # room => Head(work[t]) # Unring(r) /\ rings'[r] = rings[r]
        /\ rings'[room] # <<>>
    BY <2>1, <2>2 DEF RingPut
  <2> QED BY <2>1, <2>3, EmptyPut
<1>3. ASSUME NEW id, Purged(t, id) PROVE NoEmptyRing'
  <2>1. /\ work[t] # <<>> /\ Head(work[t]) = Purge(id) /\ rings' = rings
        /\ <<>> \in Seq(Accesses) /\ Advances(t, <<>>) /\ Range(<<>>) = {}
    BY <1>3, Singles DEF Purged
  <2>2. Proceeds(t, <<>>, {"purge"}, {})
    BY <2>1 DEF Proceeds
  <2> QED BY <2>1, <2>2, EmptyKept
<1>4. ASSUME NEW id, NEW asked, NEW room, NEW more, Took(t, id, asked, room, more)
      PROVE  NoEmptyRing'
  <2>1. /\ work[t] # <<>> /\ Head(work[t]) = Take(id, asked) /\ rings' = rings
        /\ more \in Seq(Accesses) /\ Advances(t, more)
    BY <1>4 DEF Took
  <2>2. Proceeds(t, more, {"take"}, {a.at : a \in Range(more)})
    BY <2>1 DEF Proceeds
  <2> QED BY <2>1, <2>2, EmptyKept
<1>5. ASSUME NEW id, NEW room, NEW ring, NEW more, Unlinked(t, id, room, ring, more)
      PROVE  NoEmptyRing'
  <2>1. /\ work[t] # <<>> /\ Head(work[t]) = Unlink(id, room) /\ room \in Rooms
        /\ more \in Seq(Accesses) /\ Advances(t, more)
        /\ RingPut(room, ring)
        /\ rings[room] = None => ring = None
        /\ rings[room] # None => more = IF ring = <<>> THEN <<Unring(room)>> ELSE <<>>
    BY <1>5 DEF Unlinked
  <2>2. None # <<>>
    <3>1. <<>> \in Seq(Messages)
      BY Singles
    <3> QED BY <3>1, NoneAssumption
  <2>3. Range(<<Unring(room)>>) = {Unring(room)}
    BY Singles
  <2>4. ring = <<>> => Unring(room) \in Range(more)
    BY <2>1, <2>2, <2>3
  <2>5. \A r \in Rooms : r # room => Head(work[t]) # Unring(r) /\ rings'[r] = rings[r]
    BY <2>1 DEF RingPut
  <2>6. rings'[room] = <<>> => Unring(room) \in Range(more)
    BY <2>1, <2>4 DEF RingPut
  <2> QED BY <2>1, <2>5, <2>6, EmptyPut
<1>6. ASSUME NEW room, Unringed(t, room) PROVE NoEmptyRing'
  <2>1. /\ work[t] # <<>> /\ Head(work[t]) = Unring(room) /\ room \in Rooms
        /\ RingPut(room, IF rings[room] = <<>> THEN None ELSE rings[room])
        /\ <<>> \in Seq(Accesses) /\ Advances(t, <<>>)
    BY <1>6, Singles DEF Unringed
  <2>2. None # <<>>
    <3>1. <<>> \in Seq(Messages)
      BY Singles
    <3> QED BY <3>1, NoneAssumption
  <2>3. rings'[room] # <<>>
    <3>1. rings'[room] = IF rings[room] = <<>> THEN None ELSE rings[room]
      BY <2>1 DEF RingPut
    <3> QED BY <2>2, <3>1
  <2>4. \A r \in Rooms : r # room => Head(work[t]) # Unring(r) /\ rings'[r] = rings[r]
    BY <2>1 DEF RingPut
  <2>5. PICK more : more = <<>>
    OBVIOUS
  <2>6. work[t] # <<>> /\ room \in Rooms /\ more \in Seq(Accesses) /\ Advances(t, more)
    BY <2>1, <2>5
  <2> QED BY <2>3, <2>4, <2>6, EmptyPut
<1>7. ASSUME NEW room, NEW more, RingDropped(t, room, more) PROVE NoEmptyRing'
  <2>1. /\ work[t] # <<>> /\ Head(work[t]) = DropRing(room) /\ room \in Rooms
        /\ RingPut(room, None) /\ more \in Seq(Accesses) /\ Advances(t, more)
    BY <1>7 DEF RingDropped
  <2>2. None # <<>>
    <3>1. <<>> \in Seq(Messages)
      BY Singles
    <3> QED BY <3>1, NoneAssumption
  <2>3. /\ \A r \in Rooms : r # room => Head(work[t]) # Unring(r) /\ rings'[r] = rings[r]
        /\ rings'[room] # <<>>
    BY <2>1, <2>2 DEF RingPut
  <2> QED BY <2>1, <2>3, EmptyPut
<1> QED BY <1>1, <1>2, <1>3, <1>4, <1>5, <1>6, <1>7 DEF OnMessages

LEMMA EmptyAccessed ==
  ASSUME Base, NoEmptyRing, NEW t \in Tasks, Accessed(t)
  PROVE  NoEmptyRing'
<1>1. CASE \E kind, id, doc, mode, more : Upserted(t, kind, id, doc, mode, more)
  <2>1. PICK kind, id, doc, mode, more : Upserted(t, kind, id, doc, mode, more)
    BY <1>1
  <2>2. Proceeds(t, more, {"upsert"}, {"unindex", "enindex", "count"})
    BY <2>1, UpsertProceeds
  <2>3. rings' = rings
    BY <2>1 DEF Upserted
  <2> QED BY <2>2, <2>3, EmptyKept DEF Base
<1>2. CASE \E kind, id, forget, more : Dropped(t, kind, id, forget, more)
  <2>1. PICK kind, id, forget, more : Dropped(t, kind, id, forget, more)
    BY <1>2
  <2>2. Proceeds(t, more, {"drop"}, {"unindex", "forget", "drop", "dropring"})
    BY <2>1, DropProceeds
  <2>3. rings' = rings
    BY <2>1 DEF Dropped
  <2> QED BY <2>2, <2>3, EmptyKept DEF Base
<1>3. CASE \E map : Cleared(t, map)
  <2>1. PICK map : Cleared(t, map)
    BY <1>3
  <2>2. Proceeds(t, <<>>, {"clear"}, {})
    BY <2>1, ClearProceeds
  <2>3. CASE rings' = rings
    BY <2>2, <2>3, EmptyKept DEF Base
  <2>4. CASE rings' = [r \in Rooms |-> None]
    <3>1. None # <<>>
      <4>1. <<>> \in Seq(Messages)
        BY Singles
      <4> QED BY <4>1, NoneAssumption
    <3> QED BY <2>4, <3>1 DEF NoEmptyRing
  <2> QED BY <2>1, <2>3, <2>4 DEF Cleared
<1>4. CASE OnNames(t)
  <2>1. (\E more : Proceeds(t, more, {"unindex", "enindex"}, {}) /\ more = <<>>) /\ rings' = rings
    BY <1>4, NamesProceed
  <2>2. PICK more : Proceeds(t, more, {"unindex", "enindex"}, {})
    BY <2>1
  <2> QED BY <2>1, <2>2, EmptyKept DEF Base
<1>5. CASE OnQueue(t)
  <2>1. /\ \E more : Proceeds(t, more, {"count", "note", "forget"}, {"note", "drop"})
        /\ rings' = rings
    BY <1>5, QueueProceeds
  <2>2. PICK more : Proceeds(t, more, {"count", "note", "forget"}, {"note", "drop"})
    BY <2>1
  <2> QED BY <2>1, <2>2, EmptyKept DEF Base
<1>6. CASE OnCurrent(t)
  <2>1. /\ \E more : Proceeds(t, more, {"login", "iscurrent", "refresh"}, {"refresh"})
        /\ rings' = rings
    BY <1>6, CurrentProceeds
  <2>2. PICK more : Proceeds(t, more, {"login", "iscurrent", "refresh"}, {"refresh"})
    BY <2>1
  <2> QED BY <2>1, <2>2, EmptyKept DEF Base
<1>7. CASE OnMessages(t)
  BY <1>7, EmptyOnMessages
<1> QED BY <1>1, <1>2, <1>3, <1>4, <1>5, <1>6, <1>7, Groups

LEMMA EmptyBegan ==
  ASSUME Base, NoEmptyRing, NEW t \in Tasks, NEW op, NEW p, NEW about, Began(t, op, p, about)
  PROVE  NoEmptyRing'
<1>1. rings' = rings
  BY DEF Began, store
<1>2. \A a : Pending(a) => Pending(a)'
  BY PendingBegins DEF Base
<1>3. ASSUME NEW r \in Rooms, rings'[r] = <<>> PROVE Pending(Unring(r))'
  <2>1. PICK a : a = Unring(r)
    OBVIOUS
  <2>2. Pending(a)'
    BY <1>1, <1>2, <1>3, <2>1 DEF NoEmptyRing
  <2> QED BY <2>1, <2>2 DEF Pending
<1> QED BY <1>3 DEF NoEmptyRing

LEMMA RingsStay ==
  ASSUME Base, RingsFollow, [Next]_vars
  PROVE  RingsFollow'
<1>1. /\ Base'
      /\ \/ \E t \in Tasks : \E op, p, about : Began(t, op, p, about)
         \/ \E t \in Tasks : Accessed(t)
         \/ UNCHANGED vars
  BY BaseStays
<1>2. raced \subseteq raced'
  BY RacedGrows
<1>3. /\ AtHome /\ NoEmptyRing
      /\ \A m \in Messages \ raced : \A r \in Rooms : RingFollows(m, r)
  BY DEF RingsFollow
<1>4. ASSUME NEW t \in Tasks, NEW op, NEW p, NEW about, Began(t, op, p, about)
      PROVE  RingsFollow'
  <2>1. \A m \in Messages \ raced' : \A r \in Rooms : RingFollows(m, r)'
    BY <1>2, <1>3, <1>4, RingBegan
  <2>2. AtHome' /\ NoEmptyRing'
    BY <1>3, <1>4, HomeBegan, EmptyBegan
  <2> QED BY <2>1, <2>2 DEF RingsFollow
<1>5. ASSUME NEW t \in Tasks, Accessed(t)
      PROVE  RingsFollow'
  <2>1. \A m \in Messages \ raced' : \A r \in Rooms : RingFollows(m, r)'
    BY <1>1, <1>2, <1>3, <1>5, RingStays
  <2>2. AtHome' /\ NoEmptyRing'
    BY <1>3, <1>5, HomeAccessed, EmptyAccessed
  <2> QED BY <2>1, <2>2 DEF RingsFollow
<1>6. CASE UNCHANGED vars
  <2>1. UNCHANGED <<messages, rings, work, raced, setup>>
    BY <1>6 DEF vars, store
  <2>2. \A m, r : /\ Lives(m, r)' <=> Lives(m, r)
                  /\ InRing(m, r)' <=> InRing(m, r)
                  /\ Home(m, r)' <=> Home(m, r)
    BY <2>1 DEF Lives, InRing, Home
  <2>3. AtHome'
    BY <1>3, <2>1, <2>2 DEF AtHome
  <2>4. NoEmptyRing'
    BY <1>3, <2>1 DEF NoEmptyRing, Pending
  <2>5. ASSUME NEW m \in Messages \ raced', NEW r \in Rooms
        PROVE  RingFollows(m, r)'
    <3>1. RingFollows(m, r)
      BY <1>3, <2>1
    <3> QED BY <2>1, <2>2, <3>1 DEF RingFollows, Pending, Clearing
  <2> QED BY <2>3, <2>4, <2>5 DEF RingsFollow
<1> QED BY <1>1, <1>4, <1>5, <1>6

LEMMA RingsAtFirst == Init => RingsFollow
<1> SUFFICES ASSUME Init PROVE RingsFollow
  OBVIOUS
<1>1. /\ \A m \in Messages : messages[m] = None
      /\ \A r \in Rooms : rings[r] = None
      /\ \A t \in Tasks : work[t] = <<>>
  BY DEF Init
<1>2. \A a : ~ Pending(a)
  BY <1>1, Singles DEF Pending
<1>3. \A m \in Messages, r \in Rooms : ~ Lives(m, r) /\ ~ InRing(m, r)
  BY <1>1 DEF Lives, InRing
<1>4. AtHome
  BY <1>2, <1>3, AtHomeMeans
<1>5. NoEmptyRing
  <2>1. None # <<>>
    <3>1. <<>> \in Seq(Messages)
      BY Singles
    <3> QED BY <3>1, NoneAssumption
  <2> QED BY <1>1, <2>1 DEF NoEmptyRing
<1>6. \A m \in Messages, r \in Rooms : RingFollows(m, r)
  BY <1>1, <1>2, <1>3 DEF RingFollows, Clearing
<1> QED BY <1>4, <1>5, <1>6 DEF RingsFollow

(* A message that one task at a time has worked on is in the ring of its room exactly *)
(* once while it is cached, and in no ring afterwards: link_message, unlink_message   *)
(* and remove_room lose none that eviction would then miss.  No empty ring stays.     *)
THEOREM RingsCorrect == Spec => []RingsExact
<1>1. Base /\ RingsFollow => RingsExact
  <2> SUFFICES ASSUME Base, RingsFollow PROVE RingsExact
    OBVIOUS
  <2>1. ASSUME NEW m \in Messages, NEW r \in Rooms, Settled(m)
        PROVE  Occurs(m, IF rings[r] = None THEN <<>> ELSE rings[r])
                 = IF messages[m] # None /\ messages[m].room = r THEN 1 ELSE 0
    <3>1. m \notin raced /\ \A a : Pending(a) => a.id # m /\ a.at # "clear"
      BY <2>1, SettledMeans DEF Ids
    <3>2. RingFollows(m, r)
      BY <3>1 DEF RingsFollow
    <3>3. InRing(m, r) <=> Lives(m, r)
      BY <3>1, <3>2, RingForms DEF RingFollows, Clearing
    <3>4. PICK s : s = IF rings[r] = None THEN <<>> ELSE rings[r]
      OBVIOUS
    <3>5. s \in Seq(Messages) /\ Once(s, m) /\ (m \in Range(s) <=> InRing(m, r))
      <4>1. CASE rings[r] = None
        <5>1. s = <<>> /\ <<>> \in Seq(Messages) /\ Range(<<>>) = {} /\ DOMAIN <<>> = {}
          BY <3>4, <4>1, Singles
        <5> QED BY <4>1, <5>1 DEF InRing, Once
      <4>2. CASE rings[r] # None
        <5>1. s = rings[r] /\ rings[r] \in Seq(Messages)
          BY <3>4, <4>2 DEF Base, TypeOK
        <5> QED BY <3>2, <4>2, <5>1 DEF InRing, RingFollows
      <4> QED BY <4>1, <4>2
    <3>6. Occurs(m, s) = IF m \in Range(s) THEN 1 ELSE 0
      BY <3>5, OccursOnce
    <3> QED BY <3>3, <3>4, <3>5, <3>6 DEF Lives
  <2>2. ASSUME NEW r \in Rooms, \A t \in Tasks : r \notin Touched(work, holds, t)
        PROVE  rings[r] # <<>>
    <3>1. ~ Pending(Unring(r))
      BY <2>2, Touching, RingForms DEF Touches, Pending
    <3> QED BY <3>1 DEF RingsFollow, NoEmptyRing
  <2> QED BY <2>1, <2>2 DEF RingsExact
<1>2. Base /\ RingsFollow /\ [Next]_vars => RingsFollow'
  BY RingsStay
<1> QED BY <1>1, <1>2, RingsAtFirst, BaseHolds, PTL DEF Spec

(***************************************************************************)
(* The eviction queue.                                                     *)
(***************************************************************************)
LEMMA QueueForms ==
  \A u, over : /\ CountUsers(u).at = "count" /\ CountUsers(u).id = u
               /\ NoteUser(u, over).at = "note" /\ NoteUser(u, over).id = u
               /\ NoteUser(u, over).over = over
               /\ Forget(u).at = "forget" /\ Forget(u).id = u
               /\ \A kind : /\ DropDoc(kind, u, over).at = "drop"
                            /\ DropDoc(kind, u, over).id = u
                            /\ DropDoc(kind, u, over).kind = kind
                            /\ DropDoc(kind, u, over).forget = over
BY DEF CountUsers, NoteUser, Forget, DropDoc

(* What an access means for the place of a user in the queue. *)
Concerns(a, u) == (a.at \in {"count", "note", "forget"} /\ a.id = u)
  \/ a = DropDoc("user", u, FALSE)

LEMMA StagedMeans ==
  \A u : Staged(u) <=> \E a : Pending(a) /\ a.at \in {"count", "note"} /\ a.id = u
BY DEF Staged, Pending

LEMMA StagedAfter ==
  \A u : Staged(u)' <=> \E a : Pending(a)' /\ a.at \in {"count", "note"} /\ a.id = u
BY DEF Staged, Pending

LEMMA QueueApart ==
  ASSUME NEW u, UserFollows(u), Once(order', u),
         (u \in Queued)' <=> u \in Queued,
         (u \in Cached)' <=> u \in Cached,
         Staged(u)' <=> Staged(u), Doomed(u)' <=> Doomed(u),
         Pending(Forget(u))' <=> Pending(Forget(u)),
         Clearing(<<"order">>)' <=> Clearing(<<"order">>),
         Clearing(<<"docs", "user">>)' <=> Clearing(<<"docs", "user">>)
  PROVE  UserFollows(u)'
<1>1. UserFollows(u)
  OBVIOUS
<1> QED BY <1>1 DEF UserFollows

LEMMA QueueApartFrom ==
  ASSUME TypeOK, NEW t \in Tasks, NEW more, NEW heads, NEW tails,
         Proceeds(t, more, heads, tails), "clear" \notin heads \cup tails,
         NEW u \in Users, UserFollows(u), Once(order', u),
         (u \in Queued)' <=> u \in Queued,
         docs'["user"][u] = docs["user"][u],
         ~ Concerns(Head(work[t]), u), \A a \in Range(more) : ~ Concerns(a, u)
  PROVE  UserFollows(u)'
<1>1. /\ work[t] # <<>> /\ more \in Seq(Accesses) /\ Advances(t, more)
      /\ Head(work[t]).at # "clear" /\ \A a \in Range(more) : a.at # "clear"
  BY DEF Proceeds
<1>2. \A a : a # Head(work[t]) /\ a \notin Range(more) => (Pending(a)' <=> Pending(a))
  BY <1>1, PendingSame
<1>3. \A a : Concerns(a, u) => (Pending(a)' <=> Pending(a))
  BY <1>2
<1>4. Staged(u)' <=> Staged(u)
  BY <1>3, StagedMeans, StagedAfter DEF Concerns
<1>5. Doomed(u)' <=> Doomed(u)
  <2>1. PICK a : a = DropDoc("user", u, FALSE)
    OBVIOUS
  <2>2. Pending(a)' <=> Pending(a)
    BY <1>3, <2>1 DEF Concerns
  <2> QED BY <2>1, <2>2 DEF Doomed, Pending
<1>6. Pending(Forget(u))' <=> Pending(Forget(u))
  <2>1. PICK a : a = Forget(u)
    OBVIOUS
  <2>2. Pending(a)' <=> Pending(a)
    BY <1>3, <2>1, QueueForms DEF Concerns
  <2> QED BY <2>1, <2>2 DEF Pending
<1>7. \A map : Clearing(map)' <=> Clearing(map)
  BY <1>1, <1>2, RingForms DEF Clearing
<1>8. (u \in Cached)' <=> u \in Cached
  BY DEF Cached
<1> QED BY <1>4, <1>5, <1>6, <1>7, <1>8, QueueApart

(* Accesses that neither count nor queue nor drop a user. *)
LEMMA QueueElsewhere ==
  ASSUME TypeOK, NEW t \in Tasks, NEW more, NEW heads, NEW tails,
         Proceeds(t, more, heads, tails),
         {"count", "note", "forget", "drop", "clear"} \cap (heads \cup tails) = {},
         docs' = docs, order' = order,
         NEW u \in Users, UserFollows(u)
  PROVE  UserFollows(u)'
<1>1. /\ Head(work[t]).at \notin {"count", "note", "forget", "drop"}
      /\ \A a \in Range(more) : a.at \notin {"count", "note", "forget", "drop"}
  BY DEF Proceeds
<1>2. ~ Concerns(Head(work[t]), u) /\ \A a \in Range(more) : ~ Concerns(a, u)
  <2>1. PICK b : b = DropDoc("user", u, FALSE)
    OBVIOUS
  <2>2. b.at = "drop"
    BY <2>1 DEF DropDoc
  <2> QED BY <1>1, <2>1, <2>2 DEF Concerns
<1>3. Once(order', u) /\ ((u \in Queued)' <=> u \in Queued)
  BY DEF UserFollows, Queued
<1> QED BY <1>2, <1>3, QueueApartFrom

(* What is pending about a user whom the task at its head is about. *)
LEMMA QueueActing ==
  ASSUME Base, NEW t \in Tasks, work[t] # <<>>, NEW u \in Users \ raced,
         Head(work[t]).id = u, Head(work[t]).at \in {"upsert", "drop", "count", "note", "forget"},
         NEW more \in Seq(Accesses), Advances(t, more)
  PROVE  /\ \A a : (a.id = u \/ a.at = "clear") =>
                     /\ Pending(a) => \/ a = Head(work[t])
                                      \/ a.at = "drop" /\ ~ a.forget
                                      \/ a.at \in {"purge", "dropring", "iscurrent"}
                     /\ Pending(a)' => \/ a \in Range(more)
                                       \/ a.at = "drop" /\ ~ a.forget
                                       \/ a.at \in {"purge", "dropring", "iscurrent"}
         /\ Head(work[t]).at = "upsert" => ~ Doomed(u)
              /\ \A a \in Range(Tail(work[t])) : a.at # "drop"
<1>1. u \in Ids \ raced
  BY DEF Ids
<1>2. PICK w : w = work[t] /\ w \in Seq(Accesses) /\ w # <<>>
  BY DEF Base, TypeOK
<1>3. /\ Range(w) = {Head(w)} \cup Range(Tail(w)) /\ Head(w) \in Range(w)
      /\ Range(more \o Tail(w)) = Range(more) \cup Range(Tail(w))
  BY <1>2, Joined
<1>4. Alone(t, u)
  <2>1. Touches(t, u)
    BY <1>2, <1>3 DEF Touches
  <2> QED BY <1>1, <2>1, Sole
<1>5. Head(w).at # "clear" /\ ~ IsIndexing(Head(w)) /\ Head(w).at # "login"
  BY <1>2 DEF IsIndexing
<1>6. \A a \in Range(Tail(w)) : \/ a.at = "drop" /\ ~ a.forget
                                \/ a.at \in {"purge", "dropring", "iscurrent"}
  BY <1>2, <1>5, Following
<1>7. ASSUME NEW a, a.id = u \/ a.at = "clear", Pending(a)
      PROVE  a \in Range(w)
  BY <1>2, <1>4, <1>7 DEF Alone, Pending
<1>8. ASSUME NEW a, a.id = u \/ a.at = "clear", Pending(a)'
      PROVE  a \in Range(more) \/ a \in Range(Tail(w))
  <2>1. PICK s \in Tasks : a \in Range(work'[s])
    BY <1>8 DEF Pending
  <2>2. s = t
    BY <1>4, <1>8, <2>1 DEF Alone, Advances
  <2>3. work'[t] = more \o Tail(w)
    BY <1>2 DEF Advances
  <2> QED BY <1>3, <2>1, <2>2, <2>3
<1>9. ASSUME Head(w).at = "upsert"
      PROVE  \A a \in Range(Tail(w)) : a.at # "drop"
  <2>1. InOrder(w) /\ Head(w) = w[1]
    BY <1>2, <1>5, Unclear DEF Base
  <2>2. ASSUME NEW i \in 2 .. Len(w) PROVE w[i].at = "iscurrent"
    <3>1. Placed(w, i) /\ i # 1
      BY <1>2, <2>1, <2>2, LenProperties DEF InOrder
    <3>2. w[i] = Refresh("iscurrent", w[1].id, w[1].doc, w[1].mode)
      BY <1>9, <2>1, <3>1 DEF Placed
    <3> QED BY <3>2 DEF Refresh
  <2>3. Range(Tail(w)) = {w[i] : i \in 2 .. Len(w)}
    BY <1>2, Joined
  <2> QED BY <2>2, <2>3
<1>10. ASSUME Head(w).at = "upsert" PROVE ~ Doomed(u)
  <2>1. PICK a : a = DropDoc("user", u, FALSE)
    OBVIOUS
  <2>2. a.at = "drop" /\ a.id = u
    BY <2>1 DEF DropDoc
  <2>3. ~ Pending(a)
    BY <1>3, <1>7, <1>9, <1>10, <2>2
  <2> QED BY <2>1, <2>3 DEF Doomed
<1> QED BY <1>2, <1>3, <1>6, <1>7, <1>8, <1>9, <1>10

(* Whether a user is doomed changes with nothing but the dropping of that user. *)
LEMMA DoomedSame ==
  ASSUME TypeOK, NEW t \in Tasks, work[t] # <<>>, NEW more \in Seq(Accesses), Advances(t, more),
         NEW u, Head(work[t]) # DropDoc("user", u, FALSE),
         DropDoc("user", u, FALSE) \notin Range(more)
  PROVE  Doomed(u)' <=> Doomed(u)
<1>1. PICK a : a = DropDoc("user", u, FALSE)
  OBVIOUS
<1>2. Pending(a)' <=> Pending(a)
  BY <1>1, PendingSame
<1> QED BY <1>1, <1>2 DEF Doomed, Pending

LEMMA QueueUpserted ==
  ASSUME Base, setup.userCapacity > 0, NEW t \in Tasks,
         NEW kind, NEW id, NEW doc, NEW mode, NEW more, Upserted(t, kind, id, doc, mode, more),
         NEW u \in Users \ raced, UserFollows(u)
  PROVE  UserFollows(u)'
<1>1. PICK new : new = Stored(docs[kind][id], doc, mode)
  OBVIOUS
<1>2. /\ work[t] # <<>> /\ Head(work[t]) = Upsert(kind, id, doc, mode)
      /\ kind \in Kinds /\ id \in IdsOf(kind) /\ new \in Documents
      /\ DocPut(kind, id, new) /\ Advances(t, more) /\ order' = order /\ more \in Seq(Accesses)
  BY <1>1, UpsertProceeds DEF Upserted, Proceeds
<1>3. Proceeds(t, more, {"upsert"}, {"unindex", "enindex", "count"})
  BY UpsertProceeds
<1>4. \A a \in Range(more) : a.at = "count" =>
                               a = CountUsers(id) /\ kind = "user" /\ docs[kind][id] = None
  BY IndexingForms DEF Upserted, UpsertMore
<1>5. Head(work[t]).at = "upsert" /\ Head(work[t]).id = id
  BY <1>2 DEF Upsert
<1>6. Once(order', u) /\ ((u \in Queued)' <=> u \in Queued)
  BY <1>2 DEF UserFollows, Queued
<1>7. PICK d : d = DropDoc("user", u, FALSE)
  OBVIOUS
<1>8. d.at = "drop" /\ d.id = u
  BY <1>7 DEF DropDoc
<1>9. Head(work[t]) # d /\ d \notin Range(more)
  BY <1>3, <1>5, <1>8 DEF Proceeds
<1>10. CASE kind # "user" \/ id # u
  <2>1. docs'["user"][u] = docs["user"][u]
    BY <1>2, <1>10 DEF DocPut, Kinds, IdsOf
  <2>2. \A a \in Range(more) : ~ Concerns(a, u)
    <3>1. \A a \in Range(more) : a.at \notin {"note", "forget"}
      BY <1>3 DEF Proceeds
    <3>2. \A a \in Range(more) : a.at = "count" => a.id # u
      BY <1>4, <1>10, QueueForms
    <3> QED BY <1>7, <1>9, <3>1, <3>2 DEF Concerns
  <2>3. ~ Concerns(Head(work[t]), u)
    BY <1>5, <1>7, <1>9 DEF Concerns
  <2> QED BY <1>3, <1>6, <2>1, <2>2, <2>3, QueueApartFrom DEF Base
<1>11. CASE kind = "user" /\ id = u
  <2>1. /\ \A a : (a.id = u \/ a.at = "clear") =>
                     /\ Pending(a) => \/ a = Head(work[t])
                                      \/ a.at = "drop" /\ ~ a.forget
                                      \/ a.at \in {"purge", "dropring", "iscurrent"}
                     /\ Pending(a)' => \/ a \in Range(more)
                                       \/ a.at = "drop" /\ ~ a.forget
                                       \/ a.at \in {"purge", "dropring", "iscurrent"}
        /\ ~ Doomed(u)
    BY <1>2, <1>5, <1>11, QueueActing
  <2>2. ~ Doomed(u)'
    BY <1>2, <1>7, <1>9, <2>1, DoomedSame DEF Base
  <2>3. /\ ~ Pending(Forget(u)) /\ ~ Pending(Forget(u))'
        /\ ~ Clearing(<<"order">>) /\ ~ Clearing(<<"order">>)'
    BY <1>3, <1>5, <2>1, QueueForms, RingForms DEF Clearing, Proceeds
  <2>4. ~ Staged(u) /\ (Staged(u)' => docs["user"][u] = None)
    <3>1. ~ Staged(u)
      BY <1>5, <2>1, StagedMeans
    <3>2. ASSUME Staged(u)' PROVE docs["user"][u] = None
      <4>1. PICK a : Pending(a)' /\ a.at \in {"count", "note"} /\ a.id = u
        BY <3>2, StagedAfter
      <4>2. a \in Range(more)
        BY <2>1, <4>1
      <4>3. a.at = "count"
        BY <1>3, <4>1, <4>2 DEF Proceeds
      <4> QED BY <1>4, <1>11, <4>2, <4>3
    <3> QED BY <3>1, <3>2
  <2>5. new # None /\ docs'["user"][u] = new
    BY <1>2, <1>11, DocumentFacts DEF DocPut
  <2>6. (u \in Cached)' /\ (u \in Cached <=> docs["user"][u] # None)
    BY <2>5 DEF Cached
  <2>7. docs["user"][u] = None => Staged(u)'
    <3>1. docs["user"][u] = None => CountUsers(u) \in Range(more)
      BY <1>11 DEF Upserted, UpsertMore
    <3>2. CountUsers(u) \in Range(more) => Pending(CountUsers(u))'
      BY <1>2, PendingMoves DEF Base
    <3> QED BY <3>1, <3>2, StagedAfter, QueueForms
  <2>8. u \in Queued <=> docs["user"][u] # None
    BY <2>1, <2>3, <2>4, <2>6 DEF UserFollows
  <2> QED BY <1>6, <2>2, <2>3, <2>4, <2>6, <2>7, <2>8 DEF UserFollows
<1> QED BY <1>10, <1>11

LEMMA QueueDropped ==
  ASSUME Base, setup.userCapacity > 0, NEW t \in Tasks,
         NEW kind, NEW id, NEW forget, NEW more, Dropped(t, kind, id, forget, more),
         NEW u \in Users \ raced, UserFollows(u)
  PROVE  UserFollows(u)'
<1>1. /\ work[t] # <<>> /\ Head(work[t]) = DropDoc(kind, id, forget)
      /\ kind \in Kinds /\ id \in IdsOf(kind) /\ forget \in BOOLEAN /\ (forget => kind = "user")
      /\ DocPut(kind, id, None) /\ Advances(t, more) /\ order' = order /\ more \in Seq(Accesses)
  BY DropProceeds DEF Dropped, Proceeds
<1>2. /\ Head(work[t]).at = "drop" /\ Head(work[t]).id = id
      /\ Head(work[t]).kind = kind /\ Head(work[t]).forget = forget
  BY <1>1 DEF DropDoc
<1>3. Proceeds(t, more, {"drop"}, {"unindex", "forget", "drop", "dropring"})
  BY DropProceeds
<1>4. \A a : a \in Range(more) <=>
         \/ a = Unindex(kind, id, NameOf(kind, docs[kind][id]))
              /\ NameOf(kind, docs[kind][id]) # None
         \/ a = Forget(id) /\ forget /\ docs[kind][id] # None /\ setup.userCapacity > 0
         \/ a \in {DropDoc("subscription", id, FALSE), DropRing(id)} /\ kind = "room"
  BY DEF Dropped, DropMore
<1>5. Once(order', u) /\ ((u \in Queued)' <=> u \in Queued)
  BY <1>1 DEF UserFollows, Queued
<1>6. PICK d : d = DropDoc("user", u, FALSE)
  OBVIOUS
<1>7. d.at = "drop" /\ d.id = u /\ d.kind = "user"
  BY <1>6 DEF DropDoc
<1>8. d \notin Range(more)
  <2>1. \A a \in Range(more) : a.at # "drop" \/ a.kind = "subscription"
    <3>1. /\ \A n : Unindex(kind, id, n).at = "unindex"
          /\ Forget(id).at = "forget" /\ DropRing(id).at = "dropring"
      BY IndexingForms, QueueForms, RingForms
    <3>2. PICK b : b = DropDoc("subscription", id, FALSE)
      OBVIOUS
    <3>3. b.kind = "subscription"
      BY <3>2 DEF DropDoc
    <3> QED BY <1>4, <3>1, <3>2, <3>3
  <2> QED BY <1>7, <2>1
<1>9. CASE kind # "user" \/ id # u
  <2>1. docs'["user"][u] = docs["user"][u]
    BY <1>1, <1>9 DEF DocPut, Kinds, IdsOf
  <2>2. \A a \in Range(more) : ~ Concerns(a, u)
    <3>1. \A a \in Range(more) : a.at = "forget" => a.id # u
      <4>1. /\ \A n : Unindex(kind, id, n).at = "unindex"
            /\ Forget(id).id = id /\ DropRing(id).at = "dropring"
        BY IndexingForms, QueueForms, RingForms
      <4>2. PICK b : b = DropDoc("subscription", id, FALSE)
        OBVIOUS
      <4>3. b.at = "drop"
        BY <4>2 DEF DropDoc
      <4> QED BY <1>1, <1>4, <1>9, <4>1, <4>2, <4>3
    <3> QED BY <1>3, <1>6, <1>8, <3>1 DEF Concerns, Proceeds
  <2>3. ~ Concerns(Head(work[t]), u)
    BY <1>2, <1>6, <1>7, <1>9 DEF Concerns
  <2> QED BY <1>3, <1>5, <2>1, <2>2, <2>3, QueueApartFrom DEF Base
<1>10. CASE kind = "user" /\ id = u
  <2>1. \A a : (a.id = u \/ a.at = "clear") =>
                     /\ Pending(a) => \/ a = Head(work[t])
                                      \/ a.at = "drop" /\ ~ a.forget
                                      \/ a.at \in {"purge", "dropring", "iscurrent"}
                     /\ Pending(a)' => \/ a \in Range(more)
                                       \/ a.at = "drop" /\ ~ a.forget
                                       \/ a.at \in {"purge", "dropring", "iscurrent"}
    BY <1>1, <1>2, <1>10, QueueActing
  <2>2. ~ Staged(u) /\ ~ Pending(Forget(u)) /\ ~ Clearing(<<"order">>)
    BY <1>2, <2>1, StagedMeans, QueueForms, RingForms DEF Clearing
  <2>3. ~ Staged(u)' /\ ~ Clearing(<<"order">>)'
    BY <1>3, <2>1, StagedAfter, RingForms DEF Clearing, Proceeds
  <2>4. ~ (u \in Cached)' /\ (u \in Cached <=> docs["user"][u] # None)
    BY <1>1, <1>10 DEF DocPut, Cached
  <2>5. forget => (u \in Queued => Pending(Forget(u))')
    <3>1. forget /\ docs["user"][u] # None => Forget(u) \in Range(more)
      BY <1>4, <1>10
    <3>2. Forget(u) \in Range(more) => Pending(Forget(u))'
      BY <1>1, PendingMoves DEF Base
    <3> QED BY <2>2, <2>4, <3>1, <3>2 DEF UserFollows
  <2>6. ~ forget => u \notin Queued
    <3>1. ~ forget => Doomed(u)
      BY <1>1, <1>10, PendingMoves DEF Base, Doomed
    <3> QED BY <3>1 DEF UserFollows
  <2>7. Doomed(u)' => u \notin Queued
    <3>1. ASSUME Doomed(u)' PROVE Doomed(u)
      <4>1. Pending(d)'
        BY <1>6, <3>1 DEF Doomed, Pending
      <4>2. Pending(d)
        BY <1>1, <1>8, <4>1, PendingMoves DEF Base
      <4> QED BY <1>6, <4>2 DEF Doomed, Pending
    <3> QED BY <3>1 DEF UserFollows
  <2> QED BY <1>1, <1>5, <2>3, <2>4, <2>5, <2>6, <2>7 DEF UserFollows
<1> QED BY <1>9, <1>10


LEMMA QueueCounted ==
  ASSUME Base, NEW t \in Tasks, NEW id, NEW over, Counted(t, id, over),
         NEW u \in Users, UserFollows(u)
  PROVE  UserFollows(u)'
<1>1. PICK more : more = <<NoteUser(id, over)>>
  OBVIOUS
<1>2. /\ work[t] # <<>> /\ Head(work[t]) = CountUsers(id) /\ id \in Users /\ over \in Nat
      /\ Advances(t, more) /\ docs' = docs /\ order' = order
  BY <1>1 DEF Counted, store
<1>3. NoteUser(id, over) \in Accesses
  BY <1>2, Made
<1>4. more \in Seq(Accesses) /\ Range(more) = {NoteUser(id, over)}
  BY <1>1, <1>3, Singles
<1>5. Proceeds(t, more, {"count"}, {"note"})
  BY <1>2, <1>4, QueueForms DEF Proceeds
<1>6. Once(order', u) /\ ((u \in Queued)' <=> u \in Queued)
  BY <1>2 DEF UserFollows, Queued
<1>7. PICK d : d = DropDoc("user", u, FALSE)
  OBVIOUS
<1>8. d.at = "drop"
  BY <1>7 DEF DropDoc
<1>9. Head(work[t]).at = "count" /\ Head(work[t]).id = id
  BY <1>2, QueueForms
<1>10. \A a \in Range(more) : a.at = "note" /\ a.id = id
  BY <1>4, QueueForms
<1>11. CASE id # u
  <2>1. ~ Concerns(Head(work[t]), u) /\ \A a \in Range(more) : ~ Concerns(a, u)
    BY <1>7, <1>8, <1>11, <1>9, <1>10 DEF Concerns
  <2> QED BY <1>2, <1>5, <1>6, <2>1, QueueApartFrom DEF Base
<1>12. CASE id = u
  <2>1. Staged(u) /\ Staged(u)'
    <3>1. Pending(CountUsers(u)) /\ Pending(NoteUser(u, over))'
      BY <1>2, <1>4, <1>12, PendingMoves DEF Base
    <3> QED BY <3>1, StagedMeans, StagedAfter, QueueForms
  <2>2. Doomed(u)' <=> Doomed(u)
    <3>1. d # Head(work[t]) /\ d \notin Range(more)
      BY <1>8, <1>9, <1>10
    <3> QED BY <1>2, <1>4, <1>7, <3>1, DoomedSame DEF Base
  <2>3. Pending(Forget(u))' <=> Pending(Forget(u))
    <3>1. PICK f : f = Forget(u)
      OBVIOUS
    <3>2. f # Head(work[t]) /\ f \notin Range(more)
      BY <1>2, <1>4, <3>1, QueueForms
    <3>3. Pending(f)' <=> Pending(f)
      BY <1>2, <1>4, <3>2, PendingSame DEF Base
    <3> QED BY <3>1, <3>3 DEF Pending
  <2>4. \A map : Clearing(map)' <=> Clearing(map)
    <3>1. \A a : a.at = "clear" => (Pending(a)' <=> Pending(a))
      BY <1>2, <1>4, PendingSame, QueueForms DEF Base
    <3> QED BY <3>1, RingForms DEF Clearing
  <2>5. (u \in Cached)' <=> u \in Cached
    BY <1>2 DEF Cached
  <2> QED BY <1>6, <2>1, <2>2, <2>3, <2>4, <2>5, QueueApart
<1> QED BY <1>11, <1>12

(* The newcomer queues and the first in the queue leave it. *)
NoteFacts(t, id, over, n, more) ==
  /\ work[t] # <<>> /\ Head(work[t]) = NoteUser(id, over) /\ id \in Users /\ over \in Nat
  /\ Advances(t, more) /\ docs' = docs /\ more \in Seq(Accesses) /\ Len(more) = n
  /\ order \in Seq(Users) /\ order' \in Seq(Users) /\ n \in 0 .. Len(order)
  /\ Len(order') = Len(order) + 1 - n
  /\ \A i \in 1 .. Len(order) - n : order'[i] = order[n + i]
  /\ order'[Len(order) + 1 - n] = id
  /\ \A i \in 1 .. n : order[i] # id
  /\ n <= over /\ (n = over \/ order'[1] = id)
  /\ Proceeds(t, more, {"note"}, {"drop"})
  /\ Head(work[t]).at = "note" /\ Head(work[t]).id = id
  /\ \A u : DropDoc("user", u, FALSE) \in Range(more) <=> \E i \in 1 .. n : order[i] = u

LEMMA NotedFacts ==
  ASSUME Base, NEW t \in Tasks, NEW id, NEW over, NEW n, NEW more, Noted(t, id, over, n, more)
  PROVE  NoteFacts(t, id, over, n, more)
<1>1. /\ work[t] # <<>> /\ Head(work[t]) = NoteUser(id, over) /\ id \in Users /\ over \in Nat
      /\ Advances(t, more) /\ docs' = docs /\ more \in Seq(Accesses) /\ Len(more) = n
  BY DEF Noted
<1>2. /\ order \in Seq(Users) /\ order' \in Seq(Users) /\ n \in 0 .. Len(order)
      /\ Len(order') = Len(order) + 1 - n
      /\ \A i \in 1 .. Len(order) - n : order'[i] = order[n + i]
      /\ order'[Len(order) + 1 - n] = id
      /\ \A i \in 1 .. n : order[i] # id
      /\ n <= over /\ (n = over \/ order'[1] = id)
  BY DEF Noted, OrderOK, Base, TypeOK
<1>3. \A a : a \in Range(more) <=> \E i \in 1 .. n : a = DropDoc("user", order[i], FALSE)
  <2>1. \A i \in 1 .. n : more[i] = DropDoc("user", order[i], FALSE)
    BY DEF Noted
  <2>2. DOMAIN more = 1 .. n
    BY <1>1
  <2> QED BY <2>1, <2>2 DEF Range
<1>4. Proceeds(t, more, {"note"}, {"drop"})
  <2>1. Head(work[t]).at = "note"
    BY <1>1, QueueForms
  <2>2. ASSUME NEW a \in Range(more) PROVE a.at = "drop"
    <3>1. PICK i \in 1 .. n : a = DropDoc("user", order[i], FALSE)
      BY <1>3
    <3> QED BY <3>1 DEF DropDoc
  <2> QED BY <1>1, <2>1, <2>2 DEF Proceeds
<1>5. ASSUME NEW u
      PROVE  DropDoc("user", u, FALSE) \in Range(more) <=> \E i \in 1 .. n : order[i] = u
  <2>1. PICK d : d = DropDoc("user", u, FALSE)
    OBVIOUS
  <2>2. d.id = u
    BY <2>1 DEF DropDoc
  <2>3. ASSUME d \in Range(more) PROVE \E i \in 1 .. n : order[i] = u
    <3>1. PICK i \in 1 .. n : d = DropDoc("user", order[i], FALSE)
      BY <1>3, <2>3
    <3>2. d.id = order[i]
      BY <3>1 DEF DropDoc
    <3> QED BY <2>2, <3>2
  <2>4. ASSUME NEW i \in 1 .. n, order[i] = u PROVE d \in Range(more)
    BY <1>3, <2>1, <2>4
  <2> QED BY <2>1, <2>3, <2>4
<1>6. Head(work[t]).at = "note" /\ Head(work[t]).id = id
  BY <1>1, QueueForms
<1> QED BY <1>1, <1>2, <1>4, <1>5, <1>6 DEF NoteFacts

(* Who leaves the queue over capacity waited in it once: nobody else is at work on  *)
(* that user, who is cached still and about to be dropped.                          *)
LEMMA QueueEvicted ==
  ASSUME Base, Base', NEW t \in Tasks, NEW id, NEW over, NEW n, NEW more,
         Noted(t, id, over, n, more), NEW u \in Users \ (raced \cup raced'), UserFollows(u),
         \E i \in 1 .. n : order[i] = u
  PROVE  u \in Cached /\ ~ Doomed(u) /\ Doomed(u)' /\ UserFollows(u)'
<1>1. NoteFacts(t, id, over, n, more)
  BY NotedFacts
<1>2. /\ work[t] # <<>> /\ Head(work[t]) = NoteUser(id, over) /\ id \in Users
      /\ Advances(t, more) /\ docs' = docs /\ more \in Seq(Accesses)
  BY <1>1 DEF NoteFacts
<1>3. /\ order \in Seq(Users) /\ order' \in Seq(Users) /\ n \in 0 .. Len(order)
      /\ Len(order') = Len(order) + 1 - n
      /\ \A i \in 1 .. Len(order) - n : order'[i] = order[n + i]
      /\ order'[Len(order) + 1 - n] = id
      /\ \A i \in 1 .. n : order[i] # id
  BY <1>1 DEF NoteFacts
<1>4. id # u /\ \E i \in 1 .. n : order[i] = u
  BY <1>3
<1>5. PICK d : d = DropDoc("user", u, FALSE)
  OBVIOUS
<1>6. d.at = "drop" /\ d.id = u
  BY <1>5 DEF DropDoc
<1>7. Proceeds(t, more, {"note"}, {"drop"})
  BY <1>1 DEF NoteFacts
<1>8. d \in Range(more) <=> \E i \in 1 .. n : order[i] = u
  BY <1>1, <1>5 DEF NoteFacts
<1>9. (u \in Cached)' <=> u \in Cached
  BY <1>2 DEF Cached
<1>10. Head(work[t]).at = "note" /\ Head(work[t]).id = id
  BY <1>1 DEF NoteFacts
<1>11. u \in Queued /\ Once(order, u)
  BY <1>3, <1>4 DEF Queued, Range, UserFollows
<1>12. \A i \in 1 .. Len(order') : order'[i] # u
  <2>1. PICK k \in 1 .. n : order[k] = u
    BY <1>4
  <2>2. \A i \in 1 .. Len(order) : order[i] = u => i = k
    BY <1>3, <1>11, <2>1 DEF Once
  <2>3. ASSUME NEW i \in 1 .. Len(order'), order'[i] = u
        PROVE  FALSE
    <3>1. /\ Len(order) \in Nat /\ Len(order') \in Nat /\ n \in Nat /\ n <= Len(order)
          /\ Len(order') = Len(order) + 1 - n
      BY <1>3
    <3>2. i # Len(order) + 1 - n
      BY <1>3, <1>4, <2>3
    <3>3. i \in 1 .. Len(order) - n /\ n + i \in 1 .. Len(order) /\ n + i > n
      BY <2>3, <3>1, <3>2
    <3>4. order[n + i] = u
      BY <1>3, <2>3, <3>3
    <3>5. n + i = k
      BY <2>2, <3>3, <3>4
    <3> QED BY <2>1, <3>1, <3>3, <3>5
  <2> QED BY <2>3
<1>13. ~ (u \in Queued)' /\ Once(order', u)
  <2>1. DOMAIN order' = 1 .. Len(order')
    BY <1>3
  <2> QED BY <1>12, <2>1 DEF Queued, Range, Once
<1>14. d \in Range(more)
  BY <1>8, <1>4
<1>15. Doomed(u)'
  <2>1. Pending(d)'
    BY <1>2, <1>14, PendingMoves DEF Base
  <2> QED BY <1>5, <2>1 DEF Doomed, Pending
<1>16. Alone(t, u)
  BY <1>6, <1>7, <1>14, AloneAfter DEF Ids
<1>17. /\ \A a \in Range(Tail(work[t])) : a.at \in {"drop", "purge", "dropring", "iscurrent"}
       /\ Range(work[t]) = {Head(work[t])} \cup Range(Tail(work[t]))
  <2>1. /\ Head(work[t]).at # "clear" /\ ~ IsIndexing(Head(work[t]))
        /\ Head(work[t]).at # "login"
    BY <1>10 DEF IsIndexing
  <2>2. \A a \in Range(Tail(work[t])) : a.at \in {"drop", "purge", "dropring", "iscurrent"}
    BY <1>2, <2>1, Following
  <2> QED BY <1>2, <2>2, Joined DEF Base, TypeOK
<1>18. ASSUME NEW a, a.id = u \/ a.at = "clear", a.at \in {"forget", "clear"}, Pending(a)
      PROVE  FALSE
  BY <1>10, <1>4, <1>16, <1>17, <1>18 DEF Alone, Pending
<1>19. ~ Pending(Forget(u)) /\ \A map : ~ Clearing(map)
  BY <1>18, QueueForms, RingForms DEF Clearing
<1>20. u \in Cached
  BY <1>11, <1>19 DEF UserFollows
<1>21. ASSUME NEW a, a.id = u \/ a.at = "clear", a.at \in {"count", "note", "forget", "clear"},
              Pending(a)'
       PROVE  FALSE
  <2>1. PICK s \in Tasks : a \in Range(work'[s])
    BY <1>21 DEF Pending
  <2>2. s = t
    <4>1. \A q \in Tasks \ {t} : work'[q] = work[q]
      BY <1>2 DEF Advances
    <4> QED BY <1>16, <1>21, <2>1, <4>1 DEF Alone
  <2>3. Range(work'[t]) = Range(more) \cup Range(Tail(work[t]))
    BY <1>2, Joined DEF Advances, Base, TypeOK
  <2>4. a.at \in {"drop", "purge", "dropring", "iscurrent"}
    BY <1>7, <1>17, <2>1, <2>2, <2>3 DEF Proceeds
  <2> QED BY <1>21, <2>4
<1>22. ~ Staged(u)' /\ ~ Pending(Forget(u))' /\ ~ Clearing(<<"order">>)'
  BY <1>21, StagedAfter, QueueForms, RingForms DEF Clearing
<1>23. ~ Doomed(u)
  BY <1>11 DEF UserFollows
<1> QED BY <1>9, <1>13, <1>15, <1>20, <1>22, <1>23 DEF UserFollows


LEMMA QueueNoted ==
  ASSUME Base, Base', NEW t \in Tasks, NEW id, NEW over, NEW n, NEW more,
         Noted(t, id, over, n, more), NEW u \in Users \ (raced \cup raced'), UserFollows(u)
  PROVE  UserFollows(u)'
<1>1. NoteFacts(t, id, over, n, more)
  BY NotedFacts
<1>2. /\ work[t] # <<>> /\ Head(work[t]) = NoteUser(id, over) /\ id \in Users
      /\ Advances(t, more) /\ docs' = docs /\ more \in Seq(Accesses)
  BY <1>1 DEF NoteFacts
<1>3. /\ order \in Seq(Users) /\ order' \in Seq(Users) /\ n \in 0 .. Len(order)
      /\ Len(order') = Len(order) + 1 - n
      /\ \A i \in 1 .. Len(order) - n : order'[i] = order[n + i]
      /\ order'[Len(order) + 1 - n] = id
      /\ \A i \in 1 .. n : order[i] # id
  BY <1>1 DEF NoteFacts
<1>4. /\ Len(order) \in Nat /\ Len(order') \in Nat /\ n \in Nat /\ n <= Len(order)
      /\ Len(order') = Len(order) + 1 - n
  BY <1>3
<1>5. u \in Queued <=> \E i \in 1 .. Len(order) : order[i] = u
  <2>1. DOMAIN order = 1 .. Len(order)
    BY <1>3
  <2> QED BY <2>1 DEF Queued, Range
<1>6. (u \in Queued)' <=> \E i \in 1 .. Len(order') : order'[i] = u
  <2>1. DOMAIN order' = 1 .. Len(order')
    BY <1>3
  <2> QED BY <2>1 DEF Queued, Range
<1>7. PICK d : d = DropDoc("user", u, FALSE)
  OBVIOUS
<1>8. d.at = "drop" /\ d.id = u
  BY <1>7 DEF DropDoc
<1>9. Proceeds(t, more, {"note"}, {"drop"})
  BY <1>1 DEF NoteFacts
<1>10. d \in Range(more) <=> \E i \in 1 .. n : order[i] = u
  BY <1>1, <1>7 DEF NoteFacts
<1>11. (u \in Cached)' <=> u \in Cached
  BY <1>2 DEF Cached
<1>12. Head(work[t]).at = "note" /\ Head(work[t]).id = id
  BY <1>1 DEF NoteFacts
<1>13. d \notin Range(more) => (Doomed(u)' <=> Doomed(u))
  BY <1>2, <1>7, <1>8, <1>12, DoomedSame DEF Base
<1>14. CASE id = u
  <2>1. Staged(u)
    BY <1>2, <1>12, <1>14, PendingMoves, StagedMeans DEF Base
  <2>2. u \in Cached /\ u \notin Queued /\ ~ Doomed(u)
    BY <2>1 DEF UserFollows
  <2>3. \A a : (a.id = u \/ a.at = "clear") /\ Pending(a)' =>
                 \/ a \in Range(more) \/ a.at = "drop"
                 \/ a.at \in {"purge", "dropring", "iscurrent"}
    BY <1>2, <1>12, <1>14, QueueActing
  <2>4. /\ ~ Staged(u)' /\ ~ Pending(Forget(u))' /\ ~ Clearing(<<"order">>)'
    BY <1>9, <2>3, StagedAfter, QueueForms, RingForms DEF Clearing, Proceeds
  <2>5. ~ Doomed(u)'
    BY <1>3, <1>10, <1>13, <1>14, <2>2
  <2>6. (u \in Queued)' /\ Once(order', u)
    <3>1. \A i \in 1 .. Len(order) : order[i] # u
      BY <1>5, <2>2
    <3>2. ASSUME NEW i \in 1 .. Len(order') PROVE order'[i] = u <=> i = Len(order')
      <4>1. CASE i = Len(order')
        <5>1. i = Len(order) + 1 - n
          BY <1>4, <4>1
        <5>2. order'[Len(order) + 1 - n] = id
          BY <1>3
        <5> QED BY <1>14, <4>1, <5>1, <5>2
      <4>2. CASE i # Len(order')
        <5>1. i \in 1 .. Len(order) - n /\ n + i \in 1 .. Len(order)
          BY <1>4, <4>2
        <5>2. order'[i] = order[n + i]
          BY <1>3, <5>1
        <5> QED BY <3>1, <4>2, <5>1, <5>2
      <4> QED BY <4>1, <4>2
    <3>3. Len(order') \in 1 .. Len(order')
      BY <1>4
    <3>4. (u \in Queued)'
      BY <1>6, <3>2, <3>3
    <3>5. Once(order', u)
      BY <3>2 DEF Once
    <3> QED BY <3>4, <3>5
  <2> QED BY <1>11, <2>2, <2>4, <2>5, <2>6 DEF UserFollows
<1>15. CASE \E i \in 1 .. n : order[i] = u
  BY <1>15, QueueEvicted
<1>16. CASE id # u /\ ~ \E i \in 1 .. n : order[i] = u
  <2>1. (u \in Queued)' <=> u \in Queued
    <3>1. ASSUME NEW i \in 1 .. Len(order), order[i] = u
          PROVE  \E j \in 1 .. Len(order') : order'[j] = u
      <4>1. PICK j \in Nat : i = n + j /\ j \in 1 .. Len(order) - n
        <5>1. ~ i <= n
          BY <1>4, <1>16, <3>1
        <5>2. i - n \in 1 .. Len(order) - n /\ i = n + (i - n)
          BY <1>4, <3>1, <5>1
        <5> QED BY <5>2
      <4>2. order'[j] = order[n + j] /\ j \in 1 .. Len(order')
        BY <1>3, <4>1
      <4> QED BY <3>1, <4>1, <4>2
    <3>2. \A i \in 1 .. Len(order') : order'[i] = u =>
            n + i \in 1 .. Len(order) /\ order[n + i] = u
      BY <1>3, <1>16
    <3> QED BY <1>5, <1>6, <3>1, <3>2
  <2>2. Once(order', u)
    <3>1. \A i, j \in 1 .. Len(order) : order[i] = u /\ order[j] = u => i = j
      BY <1>3 DEF UserFollows, Once
    <3>2. \A i \in 1 .. Len(order') : order'[i] = u =>
            n + i \in 1 .. Len(order) /\ order[n + i] = u
      BY <1>3, <1>16
    <3>3. \A i, j \in 1 .. Len(order') : order'[i] = u /\ order'[j] = u => i = j
      BY <1>3, <3>1, <3>2
    <3> QED BY <1>3, <3>3 DEF Once
  <2>3. ~ Concerns(Head(work[t]), u)
    BY <1>7, <1>8, <1>12, <1>16 DEF Concerns
  <2>4. \A a \in Range(more) : ~ Concerns(a, u)
    BY <1>7, <1>9, <1>10, <1>16 DEF Concerns, Proceeds
  <2> QED BY <1>2, <1>9, <2>1, <2>2, <2>3, <2>4, QueueApartFrom DEF Base
<1> QED BY <1>14, <1>15, <1>16

LEMMA QueueForgot ==
  ASSUME Base, NEW t \in Tasks, NEW id, Forgot(t, id),
         NEW u \in Users \ raced, UserFollows(u)
  PROVE  UserFollows(u)'
<1>1. PICK more : more = <<>>
  OBVIOUS
<1>2. more \in Seq(Accesses) /\ Range(more) = {}
  BY <1>1, Singles
<1>3. /\ work[t] # <<>> /\ Head(work[t]) = Forget(id) /\ id \in Users
      /\ order' = Kept(order, Users \ {id}) /\ Range(order') = Range(order) \ {id}
      /\ Advances(t, more) /\ docs' = docs
  BY <1>1 DEF Forgot
<1>4. Head(work[t]).at = "forget" /\ Head(work[t]).id = id
  BY <1>3, QueueForms
<1>5. Proceeds(t, more, {"forget"}, {})
  BY <1>2, <1>3, <1>4 DEF Proceeds
<1>6. Once(order', u)
  BY <1>3, OnceKept DEF UserFollows, Base, TypeOK
<1>7. CASE id # u
  <2>1. (u \in Queued)' <=> u \in Queued
    BY <1>3, <1>7 DEF Queued
  <2>2. ~ Concerns(Head(work[t]), u) /\ \A a \in Range(more) : ~ Concerns(a, u)
    <3>1. PICK d : d = DropDoc("user", u, FALSE)
      OBVIOUS
    <3>2. d.at = "drop"
      BY <3>1 DEF DropDoc
    <3> QED BY <1>2, <1>4, <1>7, <3>1, <3>2 DEF Concerns
  <2>3. "clear" \notin {"forget"} \cup {} /\ u \in Users /\ docs'["user"][u] = docs["user"][u]
    BY <1>3
  <2> QED BY <1>5, <1>6, <2>1, <2>2, <2>3, QueueApartFrom DEF Base
<1>8. CASE id = u
  <2>1. \A a : (a.id = u \/ a.at = "clear") /\ Pending(a)' =>
                 \/ a \in Range(more) \/ a.at = "drop"
                 \/ a.at \in {"purge", "dropring", "iscurrent"}
    BY <1>2, <1>3, <1>4, <1>8, QueueActing
  <2>2. ~ Staged(u)' /\ ~ Pending(Forget(u))' /\ ~ Clearing(<<"order">>)'
    BY <1>2, <2>1, StagedAfter, QueueForms, RingForms DEF Clearing
  <2>3. ~ (u \in Queued)'
    BY <1>3, <1>8 DEF Queued
  <2>4. ~ (u \in Cached)'
    <3>1. Pending(Forget(u))
      BY <1>2, <1>3, <1>8, PendingMoves DEF Base
    <3>2. u \notin Cached
      BY <3>1 DEF UserFollows
    <3> QED BY <1>3, <3>2 DEF Cached
  <2> QED BY <1>6, <2>2, <2>3, <2>4 DEF UserFollows
<1> QED BY <1>7, <1>8

LEMMA QueueCleared ==
  ASSUME Base, NEW t \in Tasks, NEW map, Cleared(t, map),
         NEW u \in Users \ raced, UserFollows(u)
  PROVE  UserFollows(u)'
<1>1. PICK n \in 1 .. 9 :
        /\ map = Maps[n]
        /\ \A a : Pending(a) /\ a.id = u => FALSE
        /\ \A m \in 1 .. 9 : /\ Clearing(Maps[m]) <=> m >= n
                             /\ Clearing(Maps[m])' <=> m > n
  BY ClearingAlone DEF Ids
<1>2. PICK more : more = <<>>
  OBVIOUS
<1>3. /\ more \in Seq(Accesses) /\ Range(more) = {} /\ work[t] # <<>> /\ Advances(t, more)
  BY <1>2, Singles DEF Cleared
<1>4. \A a : Pending(a)' => a.id # u
  BY <1>1, <1>3, PendingMoves DEF Base
<1>5. /\ ~ Staged(u) /\ ~ Staged(u)' /\ ~ Pending(Forget(u)) /\ ~ Pending(Forget(u))'
  BY <1>1, <1>4, StagedMeans, StagedAfter, QueueForms
<1>6. ~ Doomed(u) /\ ~ Doomed(u)'
  <2>1. PICK d : d = DropDoc("user", u, FALSE)
    OBVIOUS
  <2>2. d.id = u
    BY <2>1 DEF DropDoc
  <2>3. ~ Pending(d) /\ ~ Pending(d)'
    BY <1>1, <1>4, <2>2
  <2> QED BY <2>1, <2>3 DEF Doomed, Pending
<1>7. /\ Clearing(<<"docs", "user">>) <=> 3 >= n
      /\ Clearing(<<"docs", "user">>)' <=> 3 > n
      /\ Clearing(<<"order">>) <=> 9 >= n
      /\ Clearing(<<"order">>)' <=> 9 > n
  BY <1>1, MapNames
<1>8. (u \in Cached)' <=> u \in Cached /\ n # 3
  <2>1. n = 3 => docs'["user"] = [i \in IdsOf("user") |-> None]
    BY <1>1, MapNames DEF Cleared, Kinds
  <2>2. n # 3 => docs'["user"] = docs["user"]
    BY <1>1, MapNames DEF Cleared, Kinds
  <2> QED BY <2>1, <2>2 DEF Cached, IdsOf
<1>9. Once(order', u) /\ ((u \in Queued)' <=> u \in Queued /\ n # 9)
  <2>1. CASE n = 9
    <3>1. order' = <<>> /\ Range(<<>>) = {} /\ DOMAIN <<>> = {}
      BY <1>1, <2>1, MapNames, Singles DEF Cleared
    <3> QED BY <2>1, <3>1 DEF Once, Queued
  <2>2. CASE n # 9
    <3>1. order' = order
      BY <1>1, <2>2, MapNames DEF Cleared
    <3> QED BY <2>2, <3>1 DEF UserFollows, Queued
  <2> QED BY <2>1, <2>2
<1> QED BY <1>5, <1>6, <1>7, <1>8, <1>9 DEF UserFollows


(* An operation begins with no access of the queue: a removal is not an eviction. *)
LEMMA BeginApart ==
  ASSUME TypeOK, NEW t \in Tasks, NEW op, NEW p, NEW about, Began(t, op, p, about)
  PROVE  /\ \A u : DropDoc("user", u, FALSE) \notin Range(p)
         /\ \A a \in Range(p) : a.at \notin {"count", "note", "forget"}
<1>1. Started(op, p)
  BY DEF Began
<1>2. \A a \in Range(p) : a.at \notin {"count", "note", "forget"}
  BY <1>1, StartedWith
<1>3. ASSUME NEW u, DropDoc("user", u, FALSE) \in Range(p)
      PROVE  FALSE
  <2>1. PICK d : d = DropDoc("user", u, FALSE)
    OBVIOUS
  <2>2. d.at = "drop" /\ d.kind = "user" /\ d.forget = FALSE
    BY <2>1 DEF DropDoc
  <2>3. /\ \A kind, id, doc, mode : Upsert(kind, id, doc, mode).at = "upsert"
        /\ \A at, id, doc, mode : Refresh(at, id, doc, mode).at = at
        /\ \A id, room, doc, mode : StoreMessage(id, room, doc, mode).at = "message"
        /\ \A id, room : Take(id, room).at = "take"
    BY DEF Upsert, Refresh, StoreMessage, Take
  <2>4. \A b : Range(<<b>>) = {b} /\ \A c : Range(<<b, c>>) = {b, c}
    BY DEF Range
  <2>5. d \in Range(p)
    BY <1>3, <2>1
  <2>6. CASE p = <<>>
    BY <1>3, <2>6, Singles
  <2>7. CASE op.op = "store" /\ p = <<Upsert(op.kind, op.id, op.doc, op.mode)>>
    BY <2>5, <2>2, <2>3, <2>4, <2>7
  <2>8. CASE /\ op.op = "user"
             /\ \/ p = <<Upsert("user", op.id, op.doc, op.mode)>>
                \/ p = <<Refresh("iscurrent", op.id, op.doc, op.mode)>>
                \/ p = <<Upsert("user", op.id, op.doc, op.mode),
                         Refresh("iscurrent", op.id, op.doc, op.mode)>>
    <3>1. \/ d = Upsert("user", op.id, op.doc, op.mode)
          \/ d = Refresh("iscurrent", op.id, op.doc, op.mode)
      BY <2>5, <2>8, <2>4
    <3> QED BY <2>2, <2>3, <3>1
  <2>9. CASE /\ op.op = "login"
             /\ \/ p = <<Upsert("user", op.id, op.doc, "Merge")>>
                \/ p = <<Refresh("login", op.id, op.doc, "Merge")>>
                \/ p = <<Refresh("login", op.id, op.doc, "Merge"),
                         Upsert("user", op.id, op.doc, "Merge")>>
    <3>1. \/ d = Upsert("user", op.id, op.doc, "Merge")
          \/ d = Refresh("login", op.id, op.doc, "Merge")
      BY <2>5, <2>9, <2>4
    <3> QED BY <2>2, <2>3, <3>1
  <2>10. CASE op.op = "remove" /\ p = <<DropDoc(op.kind, op.id, op.kind = "user")>>
    <3>1. PICK c \in BOOLEAN : c = (op.kind = "user")
      OBVIOUS
    <3>2. p = <<DropDoc(op.kind, op.id, c)>>
      BY <2>10, <3>1
    <3>3. d = DropDoc(op.kind, op.id, c)
      BY <2>5, <2>4, <3>2
    <3>4. d.kind = op.kind /\ d.forget = c
      BY <3>3 DEF DropDoc
    <3> QED BY <2>2, <3>1, <3>4
  <2>11. CASE /\ op.op = "message"
              /\ \/ p = <<Take(op.id, op.room)>>
                 \/ p = <<StoreMessage(op.id, op.room, op.doc, MessageMode(op))>>
    BY <2>5, <2>2, <2>3, <2>4, <2>11
  <2>12. CASE p = <<Take(op.id, None)>> \/ p = <<Take(op.id, op.room)>>
    BY <2>5, <2>2, <2>3, <2>4, <2>12
  <2>13. CASE p = RestOfClear(0)
    <3>1. Range(p) \subseteq Clears
      BY <2>13, ClearFacts DEF Range
    <3> QED BY <2>5, <2>2, <3>1, Forms
  <2> QED BY <1>1, <2>6, <2>7, <2>8, <2>9, <2>10, <2>11, <2>12, <2>13 DEF Started
<1> QED BY <1>2, <1>3

LEMMA QueueBegan ==
  ASSUME Base, NEW t \in Tasks, NEW op, NEW p, NEW about, Began(t, op, p, about),
         NEW u \in Users, UserFollows(u)
  PROVE  UserFollows(u)'
<1>1. docs' = docs /\ order' = order
  BY DEF Began, store
<1>2. \A a : Pending(a)' <=> a \in Range(p) \/ Pending(a)
  BY PendingBegins DEF Base
<1>3. /\ \A v : DropDoc("user", v, FALSE) \notin Range(p)
      /\ \A a \in Range(p) : a.at \notin {"count", "note", "forget"}
  BY BeginApart DEF Base
<1>4. Staged(u)' <=> Staged(u)
  BY <1>2, <1>3, StagedMeans, StagedAfter
<1>5. Doomed(u)' <=> Doomed(u)
  <2>1. PICK d : d = DropDoc("user", u, FALSE)
    OBVIOUS
  <2>2. Pending(d)' <=> Pending(d)
    BY <1>2, <1>3, <2>1
  <2> QED BY <2>1, <2>2 DEF Doomed, Pending
<1>6. Pending(Forget(u))' <=> Pending(Forget(u))
  <2>1. PICK f : f = Forget(u)
    OBVIOUS
  <2>2. f.at = "forget"
    BY <2>1, QueueForms
  <2>3. Pending(f)' <=> Pending(f)
    BY <1>2, <1>3, <2>2
  <2> QED BY <2>1, <2>3 DEF Pending
<1>7. /\ (u \in Cached)' <=> u \in Cached
      /\ (u \in Queued)' <=> u \in Queued
      /\ Once(order', u)
  BY <1>1 DEF Cached, Queued, UserFollows
<1>8. (\A map : Clearing(map)' <=> Clearing(map)) \/ (\A i \in 1 .. 9 : Clearing(Maps[i])')
  BY PendingBegins DEF Base
<1>9. CASE \A map : Clearing(map)' <=> Clearing(map)
  BY <1>4, <1>5, <1>6, <1>7, <1>9, QueueApart
<1>10. CASE \A i \in 1 .. 9 : Clearing(Maps[i])'
  <2>1. Maps[3] = <<"docs", "user">> /\ Maps[9] = <<"order">>
    BY MapNames
  <2>2. Clearing(Maps[3])' /\ Clearing(Maps[9])'
    BY <1>10
  <2>3. Clearing(<<"docs", "user">>)' /\ Clearing(<<"order">>)'
    BY <2>1, <2>2 DEF Clearing, Pending
  <2> QED BY <1>4, <1>5, <1>6, <1>7, <2>3 DEF UserFollows
<1> QED BY <1>8, <1>9, <1>10

LEMMA UserStays ==
  ASSUME Base, Base', setup.userCapacity > 0, NEW t \in Tasks, Accessed(t),
         NEW u \in Users \ (raced \cup raced'), UserFollows(u)
  PROVE  UserFollows(u)'
<1>1. u \in Users \ raced /\ u \in Users
  OBVIOUS
<1>2. CASE \E kind, id, doc, mode, more : Upserted(t, kind, id, doc, mode, more)
  BY <1>1, <1>2, QueueUpserted
<1>3. CASE \E kind, id, forget, more : Dropped(t, kind, id, forget, more)
  BY <1>1, <1>3, QueueDropped
<1>4. CASE \E map : Cleared(t, map)
  BY <1>1, <1>4, QueueCleared
<1>5. CASE OnNames(t)
  <2>1. /\ \E more : Proceeds(t, more, {"unindex", "enindex"}, {}) /\ more = <<>>
        /\ docs' = docs /\ order' = order
    BY <1>5, NamesProceed
  <2>2. PICK more : Proceeds(t, more, {"unindex", "enindex"}, {})
    BY <2>1
  <2> QED BY <1>1, <2>1, <2>2, QueueElsewhere DEF Base
<1>6. CASE OnQueue(t)
  <2>1. CASE \E id, over : Counted(t, id, over)
    BY <1>1, <2>1, QueueCounted
  <2>2. CASE \E id, over, n, more : Noted(t, id, over, n, more)
    BY <1>1, <2>2, QueueNoted
  <2>3. CASE \E id : Forgot(t, id)
    BY <1>1, <2>3, QueueForgot
  <2> QED BY <1>6, <2>1, <2>2, <2>3 DEF OnQueue
<1>7. CASE OnCurrent(t)
  <2>1. /\ \E more : Proceeds(t, more, {"login", "iscurrent", "refresh"}, {"refresh"})
        /\ docs' = docs /\ order' = order
    BY <1>7, CurrentProceeds
  <2>2. PICK more : Proceeds(t, more, {"login", "iscurrent", "refresh"}, {"refresh"})
    BY <2>1
  <2> QED BY <1>1, <2>1, <2>2, QueueElsewhere DEF Base
<1>8. CASE OnMessages(t)
  <2>1. /\ \E more : Proceeds(t, more,
             {"message", "link", "purge", "take", "unlink", "unring", "dropring"},
             {"link", "purge", "unlink", "unring"})
        /\ docs' = docs /\ order' = order
    BY <1>8, MessagesProceed
  <2>2. PICK more : Proceeds(t, more,
             {"message", "link", "purge", "take", "unlink", "unring", "dropring"},
             {"link", "purge", "unlink", "unring"})
    BY <2>1
  <2> QED BY <1>1, <2>1, <2>2, QueueElsewhere DEF Base
<1> QED BY <1>2, <1>3, <1>4, <1>5, <1>6, <1>7, <1>8, Groups

LEMMA QueueStays ==
  ASSUME Base, QueueFollows, [Next]_vars
  PROVE  QueueFollows'
<1>1. /\ Base'
      /\ \/ \E t \in Tasks : \E op, p, about : Began(t, op, p, about)
         \/ \E t \in Tasks : Accessed(t)
         \/ UNCHANGED vars
  BY BaseStays
<1>2. raced \subseteq raced'
  BY RacedGrows
<1> SUFFICES ASSUME setup'.userCapacity > 0, NEW u \in Users \ raced'
             PROVE  UserFollows(u)'
  BY DEF QueueFollows
<1>3. setup' = setup
  <2>1. ASSUME NEW t \in Tasks, NEW op, NEW p, NEW about, Began(t, op, p, about)
        PROVE  setup' = setup
    BY <2>1 DEF Began
  <2>2. ASSUME NEW t \in Tasks, Accessed(t)
        PROVE  setup' = setup
    BY <2>2, AccessTyped DEF Base, Advances
  <2>3. CASE UNCHANGED vars
    BY <2>3 DEF vars
  <2> QED BY <1>1, <2>1, <2>2, <2>3
<1>4. setup.userCapacity > 0 /\ u \in Users /\ UserFollows(u)
  BY <1>2, <1>3 DEF QueueFollows
<1>5. ASSUME NEW t \in Tasks, NEW op, NEW p, NEW about, Began(t, op, p, about)
      PROVE  UserFollows(u)'
  BY <1>4, <1>5, QueueBegan
<1>6. ASSUME NEW t \in Tasks, Accessed(t)
      PROVE  UserFollows(u)'
  BY <1>1, <1>2, <1>4, <1>6, UserStays
<1>7. CASE UNCHANGED vars
  <2>1. UNCHANGED <<docs, order, work>>
    BY <1>7 DEF vars, store
  <2>2. /\ Staged(u)' <=> Staged(u)
        /\ Doomed(u)' <=> Doomed(u)
        /\ Pending(Forget(u))' <=> Pending(Forget(u))
        /\ Clearing(<<"order">>)' <=> Clearing(<<"order">>)
        /\ Clearing(<<"docs", "user">>)' <=> Clearing(<<"docs", "user">>)
    BY <2>1 DEF Staged, Doomed, Pending, Clearing
  <2>3. /\ (u \in Cached)' <=> u \in Cached
        /\ (u \in Queued)' <=> u \in Queued
        /\ Once(order', u)
    BY <1>4, <2>1 DEF Cached, Queued, UserFollows
  <2> QED BY <1>4, <2>2, <2>3, QueueApart
<1> QED BY <1>1, <1>5, <1>6, <1>7

LEMMA QueueAtFirst == Init => QueueFollows
<1> SUFFICES ASSUME Init PROVE QueueFollows
  OBVIOUS
<1>1. /\ docs["user"] = [i \in IdsOf("user") |-> None] /\ order = <<>>
      /\ \A t \in Tasks : work[t] = <<>>
  BY DEF Init, Kinds
<1>2. \A a : ~ Pending(a)
  BY <1>1, Singles DEF Pending
<1>3. Cached = {} /\ Queued = {} /\ \A u : Once(order, u) /\ ~ Staged(u) /\ ~ Doomed(u)
  <2>1. Range(<<>>) = {} /\ DOMAIN <<>> = {}
    BY Singles
  <2>2. \A u : ~ Staged(u) /\ ~ Doomed(u)
    BY <1>2, StagedMeans DEF Doomed
  <2> QED BY <1>1, <2>1, <2>2 DEF Cached, Queued, Once, IdsOf
<1> QED BY <1>2, <1>3 DEF QueueFollows, UserFollows, Clearing


(***************************************************************************)
(* How many are cached: never over the capacity by as many as there are    *)
(* tasks, unless a newcomer is still to be counted or to make room.        *)
(***************************************************************************)
BoundedBy ==
  \/ \E u \in Users : Pending(CountUsers(u))
  \/ Cardinality(Alive) < setup.userCapacity + Cardinality(Tasks)
  \/ \E a : Pending(a) /\ a.at = "note" /\ Cardinality(Alive) <= setup.userCapacity + a.over

LEMMA BoundMeans ==
  UsersBounded <=> (setup.userCapacity > 0 /\ raced \cap Users = {} => BoundedBy)
BY DEF UsersBounded, BoundedBy, Pending

LEMMA FewerUsers ==
  ASSUME NEW A \in SUBSET Users, NEW B \in SUBSET A
  PROVE  /\ IsFiniteSet(A) /\ IsFiniteSet(B)
         /\ Cardinality(A) \in Nat /\ Cardinality(B) \in Nat
         /\ Cardinality(B) <= Cardinality(A)
<1>1. IsFiniteSet(A)
  BY BoundAssumption, FS_Subset
<1>2. IsFiniteSet(B) /\ Cardinality(B) <= Cardinality(A)
  BY <1>1, FS_Subset
<1> QED BY <1>1, <1>2, FS_CardinalityType

LEMMA AliveUsers == Alive \subseteq Cached /\ Cached \subseteq Users
BY DEF Alive, Cached

(* Nobody comes back to life. *)
LEMMA AliveShrinks ==
  ASSUME Base, NEW t \in Tasks, NEW more \in Seq(Accesses), Advances(t, more), work[t] # <<>>,
         \A u \in Users : docs'["user"][u] # None =>
           docs["user"][u] # None /\ Head(work[t]) # DropDoc("user", u, FALSE)
  PROVE  Alive' \subseteq Alive
<1> SUFFICES ASSUME NEW u \in Alive' PROVE u \in Alive
  OBVIOUS
<1>1. u \in Users /\ docs'["user"][u] # None /\ ~ Doomed(u)'
  BY DEF Alive, Cached
<1>2. PICK d : d = DropDoc("user", u, FALSE)
  OBVIOUS
<1>3. ~ Pending(d)'
  BY <1>1, <1>2 DEF Doomed, Pending
<1>4. ~ Pending(d)
  BY <1>1, <1>2, <1>3, PendingMoves DEF Base
<1> QED BY <1>1, <1>2, <1>4 DEF Alive, Cached, Doomed

LEMMA BoundKept ==
  ASSUME Base, setup.userCapacity > 0, setup' = setup, Alive' \subseteq Alive, BoundedBy,
         \A a : Pending(a) /\ a.at \in {"count", "note"} => Pending(a)'
  PROVE  BoundedBy'
<1>1. /\ Cardinality(Alive) \in Nat /\ Cardinality(Alive') \in Nat
      /\ Cardinality(Alive') <= Cardinality(Alive)
  BY AliveUsers, FewerUsers
<1>2. setup.userCapacity \in Nat /\ Cardinality(Tasks) \in Nat
  BY SetupFacts, BoundAssumption, FS_CardinalityType DEF Base
<1>3. CASE \E u \in Users : Pending(CountUsers(u))
  <2>1. PICK u \in Users : Pending(CountUsers(u))
    BY <1>3
  <2>2. PICK c : c = CountUsers(u)
    OBVIOUS
  <2>3. Pending(c)'
    BY <2>1, <2>2, QueueForms
  <2> QED BY <2>2, <2>3 DEF BoundedBy, Pending
<1>4. CASE Cardinality(Alive) < setup.userCapacity + Cardinality(Tasks)
  BY <1>1, <1>2, <1>4 DEF BoundedBy
<1>5. CASE \E a : Pending(a) /\ a.at = "note" /\ Cardinality(Alive) <= setup.userCapacity + a.over
  <2>1. PICK a : Pending(a) /\ a.at = "note" /\ Cardinality(Alive) <= setup.userCapacity + a.over
    BY <1>5
  <2>2. a.over \in Nat
    <3>1. a \in Accesses
      BY <2>1, ElementOfSeq DEF Pending, Range, Base, TypeOK
    <3> QED BY <2>1, <3>1, AccessKinds, Forms
  <2>3. Pending(a)' /\ Cardinality(Alive') <= setup'.userCapacity + a.over
    BY <1>1, <1>2, <2>1, <2>2
  <2> QED BY <2>1, <2>3 DEF BoundedBy
<1> QED BY <1>3, <1>4, <1>5 DEF BoundedBy

(* A task has at most one newcomer on the way into the queue. *)
LEMMA OneStaged ==
  Base => \A s \in Tasks : \A a, b \in Range(work[s]) :
            a.at \in {"count", "note"} /\ b.at \in {"count", "note"} => a.id = b.id
<1> SUFFICES ASSUME Base, NEW s \in Tasks,
                    NEW a \in Range(work[s]), NEW b \in Range(work[s]),
                    a.at \in {"count", "note"}, b.at \in {"count", "note"}
             PROVE  a.id = b.id
  OBVIOUS
<1>1. PICK w : w = work[s] /\ w \in Seq(Accesses)
  BY DEF Base, TypeOK
<1>2. \A i \in DOMAIN w : Placed(w, i)
  BY <1>1 DEF Base, WorkOrdered
<1>3. DOMAIN w = 1 .. Len(w) /\ Len(w) \in Nat
  BY <1>1
<1>4. PICK i \in DOMAIN w : w[i] = a
  BY <1>1 DEF Range
<1>5. PICK j \in DOMAIN w : w[j] = b
  BY <1>1 DEF Range
<1>6. ASSUME NEW m \in DOMAIN w, NEW n \in DOMAIN w, m < n,
             w[m].at \in {"count", "note"}, w[n].at \in {"count", "note"}
      PROVE  FALSE
  <2>1. w[n].at = "note" => n = 1
    BY <1>2 DEF Placed
  <2>2. w[n].at = "count" => \A k \in 1 .. n - 1 : IsIndexing(w[k])
    BY <1>2 DEF Placed
  <2>3. m \in 1 .. n - 1 /\ n # 1
    BY <1>3, <1>6
  <2> QED BY <1>6, <2>1, <2>2, <2>3 DEF IsIndexing
<1>7. i = j
  BY <1>3, <1>4, <1>5, <1>6
<1> QED BY <1>4, <1>5, <1>7

(* When the newcomer alone waits, the others alive are on their way into the queue: *)
(* there are no more of them than there are tasks.                                  *)
LEMMA AliveStaged ==
  Base /\ (\A u \in Users : UserFollows(u)) =>
    \A s \in Tasks : \A i :
      Queued \subseteq {i} /\ (\A a \in Range(work[s]) : a.at \notin {"count", "note"}) =>
        Cardinality(Alive) <= Cardinality(Tasks)
<1> SUFFICES ASSUME Base, \A u \in Users : UserFollows(u), NEW t \in Tasks, NEW id,
                    Queued \subseteq {id},
                    \A a \in Range(work[t]) : a.at \notin {"count", "note"}
             PROVE  Cardinality(Alive) <= Cardinality(Tasks)
  OBVIOUS
<1>1. PICK g : g = [s \in Tasks |->
                      IF s = t THEN id
                      ELSE CHOOSE u : \E a \in Range(work[s]) :
                                        a.at \in {"count", "note"} /\ a.id = u]
  OBVIOUS
<1>2. PICK S : S = {g[s] : s \in Tasks}
  OBVIOUS
<1>3. g \in Surjection(Tasks, S)
  BY <1>1, <1>2 DEF Surjection
<1>4. IsFiniteSet(S) /\ Cardinality(S) <= Cardinality(Tasks)
  BY <1>3, BoundAssumption, FS_Surjection
<1>5. ASSUME NEW u \in Alive PROVE u \in S
  <2>1. u \in Users /\ u \in Cached /\ ~ Doomed(u) /\ UserFollows(u)
    BY AliveUsers DEF Alive
  <2>2. u \in Queued \/ Staged(u)
    BY <2>1 DEF UserFollows
  <2>3. CASE u \in Queued
    <3>1. g[t] = u
      BY <1>1, <2>3
    <3> QED BY <1>2, <3>1
  <2>4. CASE Staged(u)
    <3>1. PICK s \in Tasks : \E a \in Range(work[s]) : a.at \in {"count", "note"} /\ a.id = u
      BY <2>4 DEF Staged
    <3>2. PICK a \in Range(work[s]) : a.at \in {"count", "note"} /\ a.id = u
      BY <3>1
    <3>3. s # t
      BY <3>2
    <3>4. \A v : (\E b \in Range(work[s]) : b.at \in {"count", "note"} /\ b.id = v) => v = u
      BY <3>2, OneStaged
    <3>5. (CHOOSE v : \E b \in Range(work[s]) : b.at \in {"count", "note"} /\ b.id = v) = u
      BY <3>1, <3>4
    <3>6. g[s] = u
      BY <1>1, <3>3, <3>5
    <3> QED BY <1>2, <3>6
  <2> QED BY <2>2, <2>3, <2>4
<1>6. Cardinality(Alive) <= Cardinality(S)
  BY <1>4, <1>5, FS_Subset
<1>7. Cardinality(Alive) \in Nat /\ Cardinality(S) \in Nat /\ Cardinality(Tasks) \in Nat
  BY <1>4, AliveUsers, FewerUsers, BoundAssumption, FS_CardinalityType
<1> QED BY <1>4, <1>6, <1>7


LEMMA AliveStagedAfter ==
  ASSUME Base', \A u \in Users : UserFollows(u)', NEW t \in Tasks, NEW id,
         Range(order') \subseteq {id},
         \A a \in Range(work'[t]) : a.at \notin {"count", "note"}
  PROVE  Cardinality(Alive') <= Cardinality(Tasks)
<1>1. (Base /\ (\A u \in Users : UserFollows(u)) =>
         \A s \in Tasks : \A i :
           Queued \subseteq {i} /\ (\A a \in Range(work[s]) : a.at \notin {"count", "note"}) =>
             Cardinality(Alive) <= Cardinality(Tasks))'
  BY AliveStaged, PTL
<1> QED BY <1>1 DEF Queued

(* Those who left the queue over capacity are alive no more. *)
LEMMA AliveEvicted ==
  ASSUME Base, Base', NEW t \in Tasks, NEW id, NEW over, NEW n, NEW more,
         Noted(t, id, over, n, more), Users \cap (raced \cup raced') = {},
         \A u \in Users : UserFollows(u)
  PROVE  Alive' \subseteq Alive /\ Cardinality(Alive') + n <= Cardinality(Alive)
<1>1. NoteFacts(t, id, over, n, more)
  BY NotedFacts
<1>2. PICK P : P = {order[i] : i \in 1 .. n}
  OBVIOUS
<1>3. order \in Seq(Users) /\ n \in 0 .. Len(order) /\ n \in Nat
  BY <1>1 DEF NoteFacts
<1>4. Alive' \subseteq Alive
  <2>1. /\ work[t] # <<>> /\ Advances(t, more) /\ more \in Seq(Accesses) /\ docs' = docs
        /\ Head(work[t]).at = "note"
    BY <1>1 DEF NoteFacts
  <2>2. ASSUME NEW u PROVE Head(work[t]) # DropDoc("user", u, FALSE)
    <3>1. PICK d : d = DropDoc("user", u, FALSE)
      OBVIOUS
    <3> QED BY <2>1, <3>1 DEF DropDoc
  <2> QED BY <2>1, <2>2, AliveShrinks
<1>5. ASSUME NEW u \in P PROVE u \in Alive /\ u \notin Alive'
  <2>1. PICK i \in 1 .. n : order[i] = u
    BY <1>2
  <2>2. u \in Users \ (raced \cup raced') /\ UserFollows(u)
    BY <1>3, <2>1
  <2>3. u \in Cached /\ ~ Doomed(u) /\ Doomed(u)'
    BY <2>1, <2>2, QueueEvicted
  <2> QED BY <2>3 DEF Alive
<1>6. IsFiniteSet(P) /\ n <= Cardinality(P)
  <2>1. PICK f : f = [i \in 1 .. n |-> order[i]]
    OBVIOUS
  <2>2. \A i, j \in 1 .. n : order[i] = order[j] => i = j
    <3>1. ASSUME NEW i \in 1 .. n, NEW j \in 1 .. n, order[i] = order[j]
          PROVE  i = j
      <4>1. order[i] \in Users /\ i \in DOMAIN order /\ j \in DOMAIN order
        BY <1>3
      <4>2. Once(order, order[i])
        BY <4>1 DEF UserFollows
      <4> QED BY <3>1, <4>1, <4>2 DEF Once
    <3> QED BY <3>1
  <2>3. f \in Injection(1 .. n, P)
    BY <1>2, <2>1, <2>2 DEF Injection, IsInjective
  <2>4. P \subseteq Alive
    BY <1>5
  <2>5. IsFiniteSet(P)
    BY <2>4, AliveUsers, FewerUsers
  <2>6. Cardinality(1 .. n) <= Cardinality(P)
    BY <2>3, <2>5, FS_Injection
  <2>7. Cardinality(1 .. n) = n
    BY <1>3, FS_Interval
  <2> QED BY <2>5, <2>6, <2>7
<1>7. /\ IsFiniteSet(Alive) /\ Cardinality(Alive) \in Nat
      /\ IsFiniteSet(Alive') /\ Cardinality(Alive') \in Nat
  BY <1>4, AliveUsers, FewerUsers
<1>8. Cardinality(Alive' \cup P) <= Cardinality(Alive)
  <2>1. Alive' \cup P \subseteq Alive
    BY <1>4, <1>5
  <2> QED BY <1>7, <2>1, FS_Subset
<1>9. Cardinality(Alive' \cup P) = Cardinality(Alive') + Cardinality(P)
  <2>1. Alive' \cap P = {}
    BY <1>5
  <2>2. Cardinality(Alive' \cap P) = 0
    BY <2>1, FS_EmptySet
  <2>3. Cardinality(Alive' \cup P) =
          Cardinality(Alive') + Cardinality(P) - Cardinality(Alive' \cap P)
    BY <1>6, <1>7, FS_Union
  <2>4. Cardinality(P) \in Nat
    BY <1>6, FS_CardinalityType
  <2> QED BY <1>7, <2>2, <2>3, <2>4
<1>10. Cardinality(P) \in Nat
  BY <1>6, FS_CardinalityType
<1> QED BY <1>3, <1>4, <1>6, <1>7, <1>8, <1>9, <1>10

LEMMA BoundNoted ==
  ASSUME Base, Base', setup.userCapacity > 0, setup' = setup,
         NEW t \in Tasks, NEW id, NEW over, NEW n, NEW more, Noted(t, id, over, n, more),
         Users \cap (raced \cup raced') = {}, \A u \in Users : UserFollows(u), BoundedBy
  PROVE  BoundedBy'
<1>1. NoteFacts(t, id, over, n, more)
  BY NotedFacts
<1>2. Alive' \subseteq Alive /\ Cardinality(Alive') + n <= Cardinality(Alive)
  BY AliveEvicted
<1>3. Cardinality(Alive) \in Nat /\ Cardinality(Alive') \in Nat
  BY <1>2, AliveUsers, FewerUsers
<1>4. /\ setup.userCapacity \in Nat /\ Cardinality(Tasks) \in Nat \ {0}
      /\ n \in Nat /\ over \in Nat /\ n <= over /\ (n = over \/ order'[1] = id)
  <2>1. Cardinality(Tasks) \in Nat /\ (Cardinality(Tasks) = 0 <=> Tasks = {})
    BY BoundAssumption, FS_CardinalityType, FS_EmptySet
  <2> QED BY <1>1, <2>1, SetupFacts DEF Base, NoteFacts
<1>5. /\ work[t] # <<>> /\ more \in Seq(Accesses) /\ Advances(t, more)
      /\ Head(work[t]) = NoteUser(id, over)
  BY <1>1 DEF NoteFacts
<1>6. \A a : Pending(a) /\ a # NoteUser(id, over) => Pending(a)'
  BY <1>5, PendingMoves DEF Base
<1>7. CASE Cardinality(Alive) <= setup.userCapacity + over
  <2>1. CASE n = over
    BY <1>2, <1>3, <1>4, <1>7, <2>1 DEF BoundedBy
  <2>2. CASE n # over
    <3>1. \A u \in Users : UserFollows(u)'
      BY QueueNoted
    <3>2. Range(order') \subseteq {id}
      <4>1. /\ order' \in Seq(Users) /\ Len(order') = Len(order) + 1 - n
            /\ order'[Len(order) + 1 - n] = id /\ id \in Users /\ n \in 0 .. Len(order)
            /\ Len(order) \in Nat
        BY <1>1 DEF NoteFacts
      <4>2. order'[1] = id /\ 1 \in DOMAIN order' /\ Len(order') \in DOMAIN order'
        BY <1>4, <2>2, <4>1
      <4>3. Once(order', id)
        BY <3>1, <4>1 DEF UserFollows
      <4>4. Len(order') = 1
        BY <4>1, <4>2, <4>3 DEF Once
      <4> QED BY <4>1, <4>2, <4>4 DEF Range
    <3>3. \A a \in Range(work'[t]) : a.at \notin {"count", "note"}
      <4>1. Range(work'[t]) = Range(more) \cup Range(Tail(work[t]))
        BY <1>5, Joined DEF Advances, Base, TypeOK
      <4>2. \A a \in Range(more) : a.at = "drop"
        BY <1>1 DEF NoteFacts, Proceeds
      <4>3. \A a \in Range(Tail(work[t])) : a.at \notin {"count", "note"}
        <5>1. /\ Head(work[t]).at # "clear" /\ ~ IsIndexing(Head(work[t]))
          BY <1>5, QueueForms DEF IsIndexing
        <5> QED BY <1>5, <5>1, Following
      <4> QED BY <4>1, <4>2, <4>3
    <3>4. Cardinality(Alive') <= Cardinality(Tasks)
      BY <3>1, <3>2, <3>3, AliveStagedAfter
    <3> QED BY <1>3, <1>4, <3>4 DEF BoundedBy
  <2> QED BY <2>1, <2>2
<1>8. CASE \E u \in Users : Pending(CountUsers(u))
  <2>1. PICK u \in Users : Pending(CountUsers(u))
    BY <1>8
  <2>2. PICK c : c = CountUsers(u)
    OBVIOUS
  <2>3. c # NoteUser(id, over)
    BY <2>2, QueueForms
  <2>4. Pending(c)'
    BY <1>6, <2>1, <2>2, <2>3
  <2> QED BY <2>2, <2>4 DEF BoundedBy, Pending
<1>9. CASE Cardinality(Alive) < setup.userCapacity + Cardinality(Tasks)
  BY <1>2, <1>3, <1>4, <1>9 DEF BoundedBy
<1>10. CASE \E a : /\ Pending(a) /\ a.at = "note" /\ a # NoteUser(id, over)
                   /\ Cardinality(Alive) <= setup.userCapacity + a.over
  <2>1. PICK a : /\ Pending(a) /\ a.at = "note" /\ a # NoteUser(id, over)
                 /\ Cardinality(Alive) <= setup.userCapacity + a.over
    BY <1>10
  <2>2. a.over \in Nat
    <3>1. a \in Accesses
      BY <2>1, ElementOfSeq DEF Pending, Range, Base, TypeOK
    <3> QED BY <2>1, <3>1, AccessKinds, Forms
  <2>3. Pending(a)' /\ Cardinality(Alive') <= setup'.userCapacity + a.over
    BY <1>2, <1>3, <1>4, <1>6, <2>1, <2>2
  <2> QED BY <2>1, <2>3 DEF BoundedBy
<1>11. NoteUser(id, over).over = over
  BY QueueForms
<1> QED BY <1>7, <1>8, <1>9, <1>10, <1>11 DEF BoundedBy

LEMMA BoundCounted ==
  ASSUME Base, Base', setup' = setup, NEW t \in Tasks, NEW id, NEW over, Counted(t, id, over)
  PROVE  BoundedBy'
<1>1. PICK note : note = NoteUser(id, over)
  OBVIOUS
<1>2. note.at = "note" /\ note.over = over
  BY <1>1, QueueForms
<1>3. Pending(note)'
  <2>1. id \in Users /\ over \in Nat /\ work[t] # <<>> /\ Advances(t, <<note>>)
    BY <1>1 DEF Counted
  <2>2. note \in Accesses
    BY <1>1, <2>1, Made
  <2>3. <<note>> \in Seq(Accesses) /\ Range(<<note>>) = {note}
    BY <2>2, Singles
  <2>4. PICK more : more = <<note>>
    OBVIOUS
  <2> QED BY <2>1, <2>3, <2>4, PendingMoves DEF Base
<1>4. Alive' \subseteq Cached
  BY DEF Alive, Cached, Counted, store
<1>5. /\ Cardinality(Alive') \in Nat /\ Cardinality(Cached) \in Nat
      /\ Cardinality(Alive') <= Cardinality(Cached)
  BY <1>4, AliveUsers, FewerUsers
<1>6. Cardinality(Alive') <= setup.userCapacity + over
  <2>1. /\ over \in Nat
        /\ over = IF Cardinality(Cached) > setup.userCapacity
                  THEN Cardinality(Cached) - setup.userCapacity ELSE 0
    BY DEF Counted
  <2>2. setup.userCapacity \in Nat
    BY SetupFacts DEF Base
  <2> QED BY <1>5, <2>1, <2>2
<1> QED BY <1>2, <1>3, <1>6 DEF BoundedBy


(* Accesses that neither count nor queue, and that bring nobody into the cache. *)
LEMMA BoundElsewhere ==
  ASSUME Base, setup.userCapacity > 0, NEW t \in Tasks, NEW more, NEW heads, NEW tails,
         Proceeds(t, more, heads, tails), {"count", "note"} \cap heads = {},
         \A u \in Users : docs'["user"][u] # None =>
           docs["user"][u] # None /\ Head(work[t]) # DropDoc("user", u, FALSE),
         BoundedBy
  PROVE  BoundedBy'
<1>1. /\ work[t] # <<>> /\ more \in Seq(Accesses) /\ Advances(t, more)
      /\ Head(work[t]).at \notin {"count", "note"}
  BY DEF Proceeds
<1>2. Alive' \subseteq Alive
  BY <1>1, AliveShrinks
<1>3. \A a : Pending(a) /\ a.at \in {"count", "note"} => Pending(a)'
  BY <1>1, PendingMoves DEF Base
<1>4. setup' = setup
  BY <1>1 DEF Advances
<1> QED BY <1>2, <1>3, <1>4, BoundKept

LEMMA BoundUpserted ==
  ASSUME Base, setup.userCapacity > 0, NEW t \in Tasks,
         NEW kind, NEW id, NEW doc, NEW mode, NEW more, Upserted(t, kind, id, doc, mode, more),
         BoundedBy
  PROVE  BoundedBy'
<1>1. Proceeds(t, more, {"upsert"}, {"unindex", "enindex", "count"})
  BY UpsertProceeds
<1>2. /\ work[t] # <<>> /\ Head(work[t]) = Upsert(kind, id, doc, mode) /\ Advances(t, more)
      /\ kind \in Kinds /\ id \in IdsOf(kind) /\ more \in Seq(Accesses)
      /\ \A k \in Kinds : \A i \in IdsOf(k) : k # kind \/ i # id => docs'[k][i] = docs[k][i]
  BY <1>1 DEF Upserted, Proceeds, DocPut
<1>3. CASE kind = "user" /\ docs["user"][id] = None
  <2>1. CountUsers(id) \in Range(more)
    BY <1>3 DEF Upserted, UpsertMore
  <2>2. Pending(CountUsers(id))'
    BY <1>2, <2>1, PendingMoves DEF Base
  <2>3. id \in Users
    BY <1>2, <1>3 DEF IdsOf
  <2> QED BY <2>2, <2>3 DEF BoundedBy, Pending
<1>4. CASE kind # "user" \/ docs["user"][id] # None
  <2>1. ASSUME NEW u \in Users, docs'["user"][u] # None
        PROVE  docs["user"][u] # None /\ Head(work[t]) # DropDoc("user", u, FALSE)
    <3>1. docs["user"][u] # None
      BY <1>2, <1>4, <2>1 DEF Kinds, IdsOf
    <3>2. PICK d : d = DropDoc("user", u, FALSE)
      OBVIOUS
    <3>3. d.at = "drop" /\ Head(work[t]).at = "upsert"
      BY <1>2, <3>2 DEF DropDoc, Upsert
    <3> QED BY <3>1, <3>2, <3>3
  <2>2. PICK heads, tails : Proceeds(t, more, heads, tails) /\ heads = {"upsert"}
    BY <1>1
  <2>3. {"count", "note"} \cap heads = {}
    BY <2>2
  <2> QED BY <2>1, <2>2, <2>3, BoundElsewhere
<1> QED BY <1>3, <1>4

LEMMA BoundDropped ==
  ASSUME Base, setup.userCapacity > 0, NEW t \in Tasks,
         NEW kind, NEW id, NEW forget, NEW more, Dropped(t, kind, id, forget, more), BoundedBy
  PROVE  BoundedBy'
<1>1. Proceeds(t, more, {"drop"}, {"unindex", "forget", "drop", "dropring"})
  BY DropProceeds
<1>2. /\ Head(work[t]) = DropDoc(kind, id, forget) /\ kind \in Kinds /\ id \in IdsOf(kind)
      /\ docs'[kind][id] = None
      /\ \A k \in Kinds : \A i \in IdsOf(k) : k # kind \/ i # id => docs'[k][i] = docs[k][i]
  BY DEF Dropped, DocPut
<1>3. ASSUME NEW u \in Users, docs'["user"][u] # None
      PROVE  docs["user"][u] # None /\ Head(work[t]) # DropDoc("user", u, FALSE)
  <2>1. kind # "user" \/ id # u
    BY <1>2, <1>3
  <2>2. docs["user"][u] # None
    BY <1>2, <1>3, <2>1 DEF Kinds, IdsOf
  <2>3. PICK d : d = DropDoc("user", u, FALSE)
    OBVIOUS
  <2>4. d.kind = "user" /\ d.id = u /\ Head(work[t]).kind = kind /\ Head(work[t]).id = id
    BY <1>2, <2>3 DEF DropDoc
  <2> QED BY <2>1, <2>2, <2>3, <2>4
<1>4. PICK heads, tails : Proceeds(t, more, heads, tails) /\ heads = {"drop"}
  BY <1>1
<1>5. {"count", "note"} \cap heads = {}
  BY <1>4
<1> QED BY <1>3, <1>4, <1>5, BoundElsewhere

LEMMA BoundCleared ==
  ASSUME Base, setup.userCapacity > 0, NEW t \in Tasks, NEW map, Cleared(t, map), BoundedBy
  PROVE  BoundedBy'
<1>1. Proceeds(t, <<>>, {"clear"}, {})
  BY ClearProceeds
<1>2. PICK more : more = <<>> /\ Proceeds(t, more, {"clear"}, {})
  BY <1>1
<1>3. ASSUME NEW u \in Users, docs'["user"][u] # None
      PROVE  docs["user"][u] # None /\ Head(work[t]) # DropDoc("user", u, FALSE)
  <2>1. \/ docs'["user"] = [i \in IdsOf("user") |-> None]
        \/ docs'["user"] = docs["user"]
    BY DEF Cleared, Kinds
  <2>2. docs["user"][u] # None
    BY <1>3, <2>1 DEF IdsOf
  <2>3. PICK d : d = DropDoc("user", u, FALSE)
    OBVIOUS
  <2>4. d.at = "drop" /\ Head(work[t]).at = "clear"
    BY <1>2, <2>3 DEF DropDoc, Proceeds
  <2> QED BY <2>2, <2>3, <2>4
<1> QED BY <1>2, <1>3, BoundElsewhere

LEMMA BoundStays ==
  ASSUME Base, Base', setup.userCapacity > 0, setup' = setup, NEW t \in Tasks, Accessed(t),
         Users \cap (raced \cup raced') = {}, \A u \in Users : UserFollows(u), BoundedBy
  PROVE  BoundedBy'
<1>1. CASE \E kind, id, doc, mode, more : Upserted(t, kind, id, doc, mode, more)
  BY <1>1, BoundUpserted
<1>2. CASE \E kind, id, forget, more : Dropped(t, kind, id, forget, more)
  BY <1>2, BoundDropped
<1>3. CASE \E map : Cleared(t, map)
  BY <1>3, BoundCleared
<1>4. ASSUME NEW more, NEW heads, NEW tails, Proceeds(t, more, heads, tails), docs' = docs,
             {"count", "note", "drop"} \cap heads = {}
      PROVE  BoundedBy'
  <2>1. ASSUME NEW u \in Users PROVE Head(work[t]) # DropDoc("user", u, FALSE)
    <3>1. PICK d : d = DropDoc("user", u, FALSE)
      OBVIOUS
    <3>2. d.at = "drop"
      BY <3>1 DEF DropDoc
    <3> QED BY <1>4, <3>1, <3>2 DEF Proceeds
  <2> QED BY <1>4, <2>1, BoundElsewhere
<1>5. CASE OnNames(t)
  <2>1. PICK more : Proceeds(t, more, {"unindex", "enindex"}, {})
    BY <1>5, NamesProceed
  <2>2. docs' = docs
    BY <1>5, NamesProceed
  <2> QED BY <1>4, <2>1, <2>2
<1>6. CASE OnQueue(t)
  <2>1. CASE \E id, over : Counted(t, id, over)
    BY <2>1, BoundCounted
  <2>2. CASE \E id, over, n, more : Noted(t, id, over, n, more)
    BY <2>2, BoundNoted
  <2>3. CASE \E id : Forgot(t, id)
    <3>1. PICK id : Forgot(t, id)
      BY <2>3
    <3>2. PICK more : more = <<>>
      OBVIOUS
    <3>3. /\ work[t] # <<>> /\ Advances(t, more) /\ docs' = docs
          /\ Head(work[t]).at = "forget"
      BY <3>1, <3>2, QueueForms DEF Forgot
    <3>4. more \in Seq(Accesses) /\ Range(more) = {}
      BY <3>2, Singles
    <3>5. Proceeds(t, more, {"forget"}, {})
      BY <3>3, <3>4 DEF Proceeds
    <3> QED BY <1>4, <3>3, <3>5
  <2> QED BY <1>6, <2>1, <2>2, <2>3 DEF OnQueue
<1>7. CASE OnCurrent(t)
  <2>1. PICK more : Proceeds(t, more, {"login", "iscurrent", "refresh"}, {"refresh"})
    BY <1>7, CurrentProceeds
  <2>2. docs' = docs
    BY <1>7, CurrentProceeds
  <2> QED BY <1>4, <2>1, <2>2
<1>8. CASE OnMessages(t)
  <2>1. PICK more : Proceeds(t, more,
             {"message", "link", "purge", "take", "unlink", "unring", "dropring"},
             {"link", "purge", "unlink", "unring"})
    BY <1>8, MessagesProceed
  <2>2. docs' = docs
    BY <1>8, MessagesProceed
  <2> QED BY <1>4, <2>1, <2>2
<1> QED BY <1>1, <1>2, <1>3, <1>5, <1>6, <1>7, <1>8, Groups

LEMMA BoundBegan ==
  ASSUME Base, setup.userCapacity > 0, setup' = setup,
         NEW t \in Tasks, NEW op, NEW p, NEW about, Began(t, op, p, about), BoundedBy
  PROVE  BoundedBy'
<1>1. docs' = docs
  BY DEF Began, store
<1>2. \A a : Pending(a) => Pending(a)'
  BY PendingBegins DEF Base
<1>3. ASSUME NEW u \in Alive' PROVE u \in Alive
  <2>1. PICK d : d = DropDoc("user", u, FALSE)
    OBVIOUS
  <2>2. ~ Pending(d)'
    BY <1>3, <2>1 DEF Alive, Doomed, Pending
  <2>3. ~ Pending(d)
    BY <1>2, <2>2
  <2> QED BY <1>1, <1>3, <2>1, <2>3 DEF Alive, Cached, Doomed
<1> QED BY <1>2, <1>3, BoundKept

LEMMA BoundAtFirst == Init => BoundedBy \/ ~ setup.userCapacity > 0
<1> SUFFICES ASSUME Init, setup.userCapacity > 0 PROVE BoundedBy
  OBVIOUS
<1>1. Cached = {}
  BY DEF Init, Cached, Kinds, IdsOf
<1>2. Alive = {}
  BY <1>1 DEF Alive
<1>3. Cardinality(Alive) = 0
  BY <1>2, FS_EmptySet
<1>4. setup.userCapacity \in Nat /\ Cardinality(Tasks) \in Nat
  BY SetupFacts, InitTyped, BoundAssumption, FS_CardinalityType
<1> QED BY <1>3, <1>4 DEF BoundedBy

LEMMA UsersStay ==
  ASSUME Base, QueueFollows, UsersBounded, [Next]_vars
  PROVE  QueueFollows' /\ UsersBounded'
<1>1. QueueFollows'
  BY QueueStays
<1>2. /\ Base'
      /\ \/ \E t \in Tasks : \E op, p, about : Began(t, op, p, about)
         \/ \E t \in Tasks : Accessed(t)
         \/ UNCHANGED vars
  BY BaseStays
<1>3. raced \subseteq raced'
  BY RacedGrows
<1>4. setup' = setup
  <2>1. ASSUME NEW t \in Tasks, NEW op, NEW p, NEW about, Began(t, op, p, about)
        PROVE  setup' = setup
    BY <2>1 DEF Began
  <2>2. ASSUME NEW t \in Tasks, Accessed(t)
        PROVE  setup' = setup
    BY <2>2, AccessTyped DEF Base, Advances
  <2>3. CASE UNCHANGED vars
    BY <2>3 DEF vars
  <2> QED BY <1>2, <2>1, <2>2, <2>3
<1>5. ASSUME setup.userCapacity > 0, raced' \cap Users = {}
      PROVE  BoundedBy'
  <2>1. Users \cap (raced \cup raced') = {} /\ \A u \in Users : UserFollows(u)
    BY <1>3, <1>5 DEF QueueFollows
  <2>2. BoundedBy
    BY <1>5, <2>1, BoundMeans
  <2>3. CASE \E t \in Tasks : \E op, p, about : Began(t, op, p, about)
    BY <1>4, <1>5, <2>2, <2>3, BoundBegan
  <2>4. CASE \E t \in Tasks : Accessed(t)
    BY <1>2, <1>4, <1>5, <2>1, <2>2, <2>4, BoundStays
  <2>5. CASE UNCHANGED vars
    <3>1. UNCHANGED <<docs, work, setup>>
      BY <2>5 DEF vars, store
    <3> QED BY <2>2, <3>1 DEF BoundedBy, Alive, Cached, Doomed, Pending
  <2> QED BY <1>2, <2>3, <2>4, <2>5
<1>6. (UsersBounded <=> (setup.userCapacity > 0 /\ raced \cap Users = {} => BoundedBy))'
  BY BoundMeans, PTL
<1> QED BY <1>1, <1>4, <1>5, <1>6

(* note_new_user and remove_user: a user that one task at a time has worked on waits *)
(* in the eviction queue exactly once while cached and not at all otherwise, and at  *)
(* rest the cache is over its capacity by less than the number of its writers,       *)
(* whichever writers counted, queued and evicted at the same time.                   *)
THEOREM EvictionComplete == Spec => []UsersEvictable
<1>1. Base /\ QueueFollows /\ UsersBounded => UsersEvictable
  <2> SUFFICES ASSUME Base, QueueFollows, UsersBounded, setup.userCapacity > 0
               PROVE  /\ \A u \in Users : Settled(u) =>
                           Occurs(u, order) = IF docs["user"][u] = None THEN 0 ELSE 1
                      /\ Quiet /\ raced \cap Users = {} =>
                           Cardinality({u \in Users : docs["user"][u] # None})
                             < setup.userCapacity + Cardinality(Tasks)
    BY DEF UsersEvictable
  <2>1. ASSUME NEW u \in Users, Settled(u)
        PROVE  Occurs(u, order) = IF docs["user"][u] = None THEN 0 ELSE 1
    <3>1. u \notin raced /\ \A a : Pending(a) => a.id # u /\ a.at # "clear"
      BY <2>1, SettledMeans DEF Ids
    <3>2. UserFollows(u)
      BY <3>1 DEF QueueFollows
    <3>3. ~ Staged(u) /\ ~ Pending(Forget(u)) /\ ~ Clearing(<<"order">>)
      BY <3>1, StagedMeans, QueueForms, RingForms DEF Clearing
    <3>4. ~ Doomed(u)
      <4>1. PICK d : d = DropDoc("user", u, FALSE)
        OBVIOUS
      <4>2. d.id = u
        BY <4>1 DEF DropDoc
      <4> QED BY <3>1, <4>1, <4>2 DEF Doomed
    <3>5. Once(order, u) /\ (u \in Range(order) <=> u \in Cached)
      BY <3>2, <3>3, <3>4 DEF UserFollows, Queued
    <3>6. Occurs(u, order) = IF u \in Range(order) THEN 1 ELSE 0
      BY <3>5, OccursOnce DEF Base, TypeOK
    <3> QED BY <3>5, <3>6 DEF Cached
  <2>2. ASSUME Quiet, raced \cap Users = {}
        PROVE  Cardinality({u \in Users : docs["user"][u] # None})
                 < setup.userCapacity + Cardinality(Tasks)
    <3>1. \A a : ~ Pending(a)
      BY <2>2, Singles DEF Quiet, Pending
    <3>2. BoundedBy
      BY <2>2, BoundMeans
    <3>3. Cardinality(Alive) < setup.userCapacity + Cardinality(Tasks)
      BY <3>1, <3>2 DEF BoundedBy
    <3>4. Alive = {u \in Users : docs["user"][u] # None}
      BY <3>1 DEF Alive, Cached, Doomed
    <3> QED BY <3>3, <3>4
  <2> QED BY <2>1, <2>2
<1>2. Base /\ QueueFollows /\ UsersBounded /\ [Next]_vars => QueueFollows' /\ UsersBounded'
  BY UsersStay
<1>3. Init => QueueFollows /\ UsersBounded
  BY QueueAtFirst, BoundAtFirst, BoundMeans
<1> QED BY <1>1, <1>2, <1>3, BaseHolds, PTL DEF Spec

==================================================================================
