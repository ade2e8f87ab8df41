-------------------------------- MODULE CacheInv ---------------------------------
(* Why the indexes, the rings, the eviction queue and the copy of the logged-in     *)
(* user are exact: what the accesses that tasks have still to make say of the maps. *)
EXTENDS Cache

Once(seq, x) == \A i, j \in DOMAIN seq : seq[i] = x /\ seq[j] = x => i = j
Pending(a) == \E t \in Tasks : a \in Range(work[t])
Clearing(map) == Pending(Clear(map))

(* Races are noticed as they arise, and so are names two documents claim. *)
RacesNoticed ==
  /\ Contended(work, holds) \subseteq raced
  /\ Shared(docs, work) \subseteq shared

(* In which order the accesses of an operation come.  What an access schedules goes *)
(* before the rest, so most kinds are met at the head or behind the indexes only.   *)
IsIndexing(a) == a.at \in {"unindex", "enindex"}
IsLone(a) ==
  a.at \in {"message", "link", "take", "unlink", "unring", "refresh"} \/ (a.at = "drop" /\ a.forget)
Placed(w, i) ==
  LET a == w[i] IN
  /\ IsLone(a) => Len(w) = 1
  /\ a.at \in {"login", "note"} => i = 1
  /\ a.at = "upsert" => i = 1 \/ (i = 2 /\ w[1].at = "login")
  /\ a.at = "iscurrent" => i = Len(w)
  /\ a.at = "count" => \A j \in 1 .. i - 1 : IsIndexing(w[j])
  /\ IsIndexing(a) \/ a.at = "forget" => \A j \in 1 .. i - 1 : w[j].at = "unindex"
  /\ w[1].at = "login" /\ i # 1 => i = 2 /\ a = Upsert("user", w[1].id, w[1].doc, "Merge")
  /\ w[1].at = "upsert" /\ i # 1 =>
       /\ i = 2 /\ w[1].kind = "user"
       /\ a = Refresh("iscurrent", w[1].id, w[1].doc, w[1].mode)

(* Cache::clear is nothing but its own accesses, in the order of the maps. *)
RestOfClear(n) == [j \in 1 .. Len(Maps) - n |-> Clear(Maps[n + j])]
ClearsOnly(w, h) ==
  (\E i \in DOMAIN w : w[i].at = "clear") =>
    h = Ids /\ \E n \in 0 .. Len(Maps) - 1 : w = RestOfClear(n)

WorkOrdered ==
  \A t \in Tasks : ClearsOnly(work[t], holds[t]) /\ \A i \in DOMAIN work[t] : Placed(work[t], i)

(* The name indexes: a name that leads elsewhere than its document says is about to *)
(* be put right.                                                                    *)
NameFollows(k, i) ==
  LET name == NameOf(k, docs[k][i]) IN
  /\ \A n \in Names :
       /\ Pending(Unindex(k, i, n)) => name # n
       /\ Pending(Enindex(k, i, n)) => name = n
       /\ index[k][n] = i => name = n \/ Pending(Unindex(k, i, n)) \/ Clearing(<<"index", k>>)
       /\ name = n => n \in shared \/ index[k][n] = i \/ Pending(Enindex(k, i, n))
  /\ Clearing(<<"index", k>>) => docs[k][i] = None \/ Clearing(<<"docs", k>>)
IndexFollows == \A k \in {"room", "user"} : \A i \in IdsOf(k) \ raced : NameFollows(k, i)

(* The logged-in user: the copies agree once the refresh that is under way is over. *)
Agree(c, d) == \A f \in DOMAIN c \cap DOMAIN d : c[f] = d[f]
ToStore(w, id) == Len(w) = 1 /\ w[1].at = "upsert" /\ w[1].kind = "user" /\ w[1].id = id
ToRefresh(w, id) ==
  /\ w # <<>> /\ w[1].at # "upsert"
  /\ w[Len(w)].at \in {"iscurrent", "refresh"} /\ w[Len(w)].id = id
CopyFollows ==
  LET u == current.id
      d == docs["user"][u]
  IN /\ \A t \in Tasks : LET w == work[t] IN
          /\ ToStore(w, u) => w[1].doc = current.doc /\ w[1].mode = "Merge"
          /\ ToRefresh(w, u) /\ d # None =>
               Agree(Stored(current.doc, w[Len(w)].doc, w[Len(w)].mode), d)
     /\ d # None /\ (\A t \in Tasks : ~ ToStore(work[t], u) /\ ~ ToRefresh(work[t], u)) =>
          Agree(current.doc, d)
LoginsStore ==
  \A t \in Tasks : Len(work[t]) = 1 /\ work[t][1].at = "login" => ~ Wants("user")
CopiesFollow ==
  LoginsStore /\ (current # None /\ current.id \notin raced => CopyFollows)

(* The eviction queue: who is cached waits in it once, or is on the way into it or  *)
(* out of the cache.                                                                *)
Cached == {u \in Users : docs["user"][u] # None}
Queued == Range(order)
Staged(u) ==
  \E t \in Tasks : \E a \in Range(work[t]) : a.at \in {"count", "note"} /\ a.id = u
Doomed(u) == Pending(DropDoc("user", u, FALSE))
UserFollows(u) ==
  /\ Once(order, u)
  /\ u \in Cached => u \in Queued \/ Staged(u) \/ Doomed(u)
  /\ u \in Queued => u \in Cached \/ Pending(Forget(u)) \/ Clearing(<<"order">>)
  /\ Staged(u) => u \in Cached /\ u \notin Queued /\ ~ Doomed(u)
  /\ Doomed(u) => u \notin Queued
  /\ Pending(Forget(u)) => u \notin Cached
  /\ Clearing(<<"order">>) => u \notin Cached \/ Clearing(<<"docs", "user">>)
QueueFollows == setup.userCapacity > 0 => \A u \in Users \ raced : UserFollows(u)

(* The cache is over its capacity by less than its writers, or the arrival that     *)
(* counted last is about to evict what is over.                                     *)
Alive == {u \in Cached : ~ Doomed(u)}
UsersBounded ==
  setup.userCapacity > 0 /\ raced \cap Users = {} =>
    \/ \E u \in Users : Pending(CountUsers(u))
    \/ Cardinality(Alive) < setup.userCapacity + Cardinality(Tasks)
    \/ \E t \in Tasks : \E a \in Range(work[t]) :
         a.at = "note" /\ Cardinality(Alive) <= setup.userCapacity + a.over

(* The rings: a message that is cached and not in its ring, or the other way round, *)
(* is about to be linked, purged or unlinked.                                       *)
Home(m, r) ==
  \E op \in setup.operations : op.op \in {"message", "removeMessageIn"} /\ op.id = m /\ op.room = r
InRing(m, r) == rings[r] # None /\ m \in Range(rings[r])
Lives(m, r) == messages[m] # None /\ messages[m].room = r
RingFollows(m, r) ==
  /\ rings[r] # None => Once(rings[r], m)
  /\ Lives(m, r) => InRing(m, r) \/ Pending(Link(m, r)) \/ Pending(Purge(m))
  /\ InRing(m, r) => Lives(m, r) \/ Pending(Unlink(m, r)) \/ Clearing(<<"rings">>)
  /\ Pending(Link(m, r)) => Lives(m, r) /\ ~ InRing(m, r)
  /\ Pending(Purge(m)) => ~ InRing(m, r)
  /\ Pending(Unlink(m, r)) => messages[m] = None
  /\ Clearing(<<"rings">>) => messages[m] = None \/ Clearing(<<"messages">>)
AtHome ==
  /\ \A m \in Messages, r \in Rooms : Lives(m, r) => Home(m, r)
  /\ \A t \in Tasks : \A a \in Range(work[t]) :
       a.at \in {"message", "link", "take", "unlink"} =>
         (a.at = "take" /\ a.room = None) \/ Home(a.id, a.room)
NoEmptyRing == \A r \in Rooms : rings[r] = <<>> => Pending(Unring(r))
RingsFollow ==
  /\ AtHome /\ NoEmptyRing
  /\ \A m \in Messages \ raced : \A r \in Rooms : RingFollows(m, r)

==================================================================================
