------------------------------- MODULE Roles -------------------------------
(***************************************************************************)
(* The role directory of crates/rocketsocket/src/roles.rs: cached answers  *)
(* of the server to who holds a role, one lookup at a time per slot,       *)
(* dropped by age, by role changes and by the bound on rooms.              *)
(*                                                                         *)
(* One author is asked about, and one key is watched: the server's truth   *)
(* is kept for it, while the answers for other keys are arbitrary.         *)
(* Instants are kept as ages in ticks, which stop counting at Horizon,     *)
(* where every comparison is already decided.                              *)
(***************************************************************************)
EXTENDS Integers, FiniteSets, SequencesExt, Subsequences

CONSTANTS
  Tasks,                     \* concurrent callers of verdict
  Rooms,
  Ttl, FailureTtl, Timeout,  \* RoleCacheConfig, in ticks
  MaxRooms,
  Global, None

ASSUME RolesAssumption ==
  /\ IsFiniteSet(Tasks)
  /\ Ttl \in Nat /\ FailureTtl \in Nat /\ Timeout \in Nat /\ MaxRooms \in Nat
  /\ Global \notin Rooms

VARIABLES
  watched,    \* the key whose role the server's state is kept for
  held,       \* server: the author holds that role
  sinceHeld,  \* ... and for how long not
  consulted,  \* the remembered rooms, the least recently consulted first
  entries,    \* what each slot holds
  task,       \* the verdict each task awaits
  revoked,    \* history: not held since before the last invalidation
  asked       \* history: the last request into the watched slot, while it counts

server == <<watched, held, sinceHeld>>
cache == <<consulted, entries>>
vars == <<server, cache, task, revoked, asked>>

Keys == {Global} \cup Rooms
Remembered == {Global} \cup ToSet(consulted)
Larger(a, b) == IF a < b THEN b ELSE a
Horizon == Larger(Larger(Ttl, FailureTtl), Timeout) + 1
Ages == 0 .. Horizon
Aged(age) == IF age < Horizon THEN age + 1 ELSE age

\* Entry, without its users: whether it grants, or that the lookup failed.
Answers == {"granted", "denied", "failed"}
Entries == [holders : Answers, age : Ages]
IsFresh(e) == e.age < IF e.holders = "failed" THEN FailureTtl ELSE Ttl
Grants(e) == e.holders = "granted"
Asking(age) == [holders |-> None, age |-> age]
Fresh(e) == IF e.holders = None \/ IsFresh(e) THEN e ELSE None

(* A slot is the Arc of a key: <<k, 0>> the one the map leads to, the      *)
(* others replaced, evicted or invalidated while a task still held them.   *)
(* It lives while the map or a task refers to it, and an entry that is no  *)
(* longer fresh is as good as none.                                        *)
Ranks == 1 .. Cardinality(Tasks) + 1
Slots == Keys \X ({0} \cup Ranks)
ASSUME NoneAssumption ==
  None \notin Rooms \cup Answers \cup Slots \cup [holders : Answers \cup {None}, age : Ages]

Holders(s) == {t \in Tasks : task[t].slot = s}
Store(es) ==
  entries' = [s \in Slots |->
    IF /\ (s[2] = 0 /\ s[1] \in Remembered') \/ Holders(s)' # {}
       /\ es[s] # None /\ IsFresh(es[s])
    THEN es[s] ELSE None]

\* A task holds a slot's mutex exactly while it fetches.
Idle == [pc |-> "idle", slot |-> None, next |-> None, age |-> 0, reply |-> None,
         passed |-> FALSE, revoked |-> FALSE]
Key(t) == task[t].slot[1]
Locked(s) == \E t \in Holders(s) : task[t].pc = "fetching"

(* Where a slot is found once its key got another one.                     *)
Spare(k) == CHOOSE i \in Ranks : Holders(<<k, i>>) = {}
Moved(s, keys) ==
  IF s # None /\ s \in keys \X {0} THEN <<s[1], Spare(s[1])>> ELSE s
TasksMoved(keys) == [t \in Tasks |-> [task[t] EXCEPT !.slot = Moved(@, keys)]]
EntriesMoved(keys) ==
  [s \in Slots |->
     IF s[1] \notin keys \/ s[2] \notin {0, Spare(s[1])} THEN entries[s]
     ELSE IF s[2] = 0 THEN None ELSE entries[<<s[1], 0>>]]

Init ==
  /\ watched \in Keys
  /\ held = FALSE /\ sinceHeld = Horizon
  /\ entries = [s \in Slots |-> None]
  /\ consulted = <<>>
  /\ task = [t \in Tasks |-> Idle]
  /\ revoked = FALSE /\ asked = None

(***************************************************************************)
(* The server, and time.                                                   *)
(***************************************************************************)
Promote ==
  /\ ~ held
  /\ held' = TRUE /\ sinceHeld' = 0
  /\ revoked' = FALSE
  /\ task' = [t \in Tasks |-> [task[t] EXCEPT !.revoked = FALSE]]
  /\ UNCHANGED <<watched, cache, asked>>

Demote ==
  /\ held
  /\ held' = FALSE
  /\ UNCHANGED <<watched, sinceHeld, cache, task, revoked, asked>>

Tick ==
  /\ \A t \in Tasks : task[t].pc = "fetching" => task[t].age < Timeout
  /\ sinceHeld' = IF held THEN 0 ELSE Aged(sinceHeld)
  /\ task' = [t \in Tasks |-> IF task[t].pc = "fetching"
                              THEN [task[t] EXCEPT !.age = Aged(@)] ELSE task[t]]
  /\ asked' = IF asked = None THEN None ELSE Fresh([asked EXCEPT !.age = Aged(@)])
  /\ UNCHANGED <<watched, held, consulted, revoked>>
  /\ Store([s \in Slots |-> IF entries[s] = None THEN None
                            ELSE [entries[s] EXCEPT !.age = Aged(@)]])

(***************************************************************************)
(* verdict, is_admin, is_room_admin.                                       *)
(***************************************************************************)
\* Mutant: evicting makes way for none.
EvictedTooFew(r) ==
  IF r \in Remembered \/ MaxRooms = 0 \/ Len(consulted) <= MaxRooms THEN {}
  ELSE {Head(consulted)}

\* The rooms that make way for another, the least recently consulted.
Evicted(r) ==
  IF r \in Remembered \/ MaxRooms = 0 \/ Len(consulted) < MaxRooms THEN {}
  ELSE {consulted[i] : i \in 1 .. Len(consulted) - MaxRooms + 1}

\* global_slot, room_slot: the caller leaves with the slot, not the map.
TakeSlot(t, k, next) ==
  LET evicted == Evicted(k)
  IN /\ consulted' = IF k = Global THEN consulted
          ELSE Append(Kept(consulted, Rooms \ (evicted \cup {k})), k)
     /\ task' = [TasksMoved(evicted) EXCEPT
                   ![t] = [Idle EXCEPT !.pc = "queued", !.slot = <<k, 0>>, !.next = next,
                                       !.revoked = k = watched /\ revoked]]
     /\ Store(EntriesMoved(evicted))
     /\ asked' = IF watched \in evicted THEN None ELSE asked
  /\ UNCHANGED <<server, revoked>>

\* RoleDirectory::verdict: Admin, RoomAdmin, or the second only if not the first.
Ask(t) ==
  /\ task[t].pc = "idle"
  /\ \/ TakeSlot(t, Global, None)
     \/ \E r \in Rooms : TakeSlot(t, r, None) \/ TakeSlot(t, Global, r)

AskRoom(t) == task[t].pc = "asking" /\ TakeSlot(t, task[t].next, None)

Watching(t) == task[t].slot = <<watched, 0>>

\* The answer of entry; AdminOrRoomAdmin goes on to the room.
Answered(t, e) ==
  task' = [task EXCEPT ![t] =
    IF Grants(e) \/ @.next = None THEN [Idle EXCEPT !.passed = Grants(e)]
    ELSE [Idle EXCEPT !.pc = "asking", !.next = task[t].next]]

StartFetch(t) ==
  /\ task' = [task EXCEPT ![t].pc = "fetching", ![t].age = 0]
  /\ asked' = IF Watching(t) THEN Asking(0) ELSE asked
  /\ UNCHANGED <<server, cache, revoked>>

\* Mutant: whoever had to wait asks again.
LockSlotUnchecked(t) ==
  /\ task[t].pc = "queued" /\ ~ Locked(task[t].slot)
  /\ StartFetch(t)

LockSlot(t) ==
  /\ task[t].pc = "queued" /\ ~ Locked(task[t].slot)
  /\ LET s == task[t].slot
     IN \/ /\ entries[s] # None /\ Answered(t, entries[s])
           /\ UNCHANGED <<server, consulted, revoked, asked>>
           /\ Store(entries)
        \/ entries[s] = None /\ StartFetch(t)

\* The server reads its roles at some moment of the request.
Serve(t) ==
  /\ task[t].pc = "fetching" /\ task[t].reply = None
  /\ \E holds \in BOOLEAN :
       /\ Key(t) = watched => holds = held
       /\ task' = [task EXCEPT ![t].reply = IF holds THEN "granted" ELSE "denied"]
  /\ UNCHANGED <<server, cache, revoked, asked>>

\* Mutant: the entry is stamped when the reply arrives.
StampedOnReply(t) == 0
Stamped(t) == task[t].age

\* The reply is stored and answers; a failed or late one is stored as well.
Finish(t) ==
  /\ task[t].pc = "fetching"
  /\ \E holders \in {task[t].reply, "failed"} \ {None} :
       LET e == [holders |-> holders, age |-> Stamped(t)]
       IN /\ Answered(t, e)
          /\ asked' = IF Watching(t) THEN Fresh([holders |-> holders, age |-> task[t].age]) ELSE asked
          /\ UNCHANGED <<server, consulted, revoked>>
          /\ Store([entries EXCEPT ![task[t].slot] = e])

\* The caller's future is dropped: the guard goes, nothing is stored.
Drop(t) ==
  /\ task[t].pc # "idle"
  /\ task' = [task EXCEPT ![t] = Idle]
  /\ asked' = IF task[t].pc = "fetching" /\ Watching(t) THEN None ELSE asked
  /\ UNCHANGED <<server, consulted, revoked>>
  /\ Store(entries)

(***************************************************************************)
(* Invalidation.                                                           *)
(***************************************************************************)
\* Mutant: the entry is cleared in place.
InvalidateInPlace(keys) ==
  /\ entries' = [s \in Slots |-> IF s \in keys \X {0} THEN None ELSE entries[s]]
  /\ UNCHANGED <<consulted, task>>

\* invalidate_global, invalidate_room, invalidate_all: slots are replaced.
Invalidate(keys) ==
  /\ consulted' = Kept(consulted, Rooms \ keys)
  /\ task' = TasksMoved(keys)
  /\ Store(EntriesMoved(keys))

\* apply_role_change.
Affected(change) ==
  IF change.u = None \/ change.action = "changed" THEN Keys
  ELSE {IF change.scope = None THEN Global ELSE change.scope}

RoleChanges ==
  [u : {None, "author"}, action : {"changed", "added"}, scope : Rooms \cup {None}]

Invalidated(keys) ==
  /\ revoked' = IF watched \in keys THEN ~ held ELSE revoked
  /\ asked' = IF watched \in keys THEN None ELSE asked
  /\ UNCHANGED server

ApplyRoleChange ==
  \E keys \in {Affected(change) : change \in RoleChanges} :
    Invalidate(keys) /\ Invalidated(keys)

\* Framework::observe, on Resubscribed.
InvalidateAll == Invalidate(Keys) /\ Invalidated(Keys)

Next ==
  \/ Promote
  \/ Demote
  \/ Tick
  \/ \E t \in Tasks :
       Ask(t) \/ AskRoom(t) \/ LockSlot(t) \/ Serve(t) \/ Finish(t) \/ Drop(t)
  \/ ApplyRoleChange
  \/ InvalidateAll

Spec == Init /\ [][Next]_vars

-----------------------------------------------------------------------------
Verdicts ==
  [pc : {"idle", "asking", "queued", "fetching"}, slot : Slots \cup {None},
   next : Rooms \cup {None}, age : Ages, reply : {"granted", "denied", None},
   passed : BOOLEAN, revoked : BOOLEAN]

(* Every variable keeps its type; the map never holds more rooms than the  *)
(* ceiling (room_slot).                                                    *)
TypeOK ==
  /\ watched \in Keys /\ held \in BOOLEAN /\ sinceHeld \in Ages
  /\ consulted \in Seq(Rooms) /\ IsInjective(consulted)
  /\ MaxRooms > 0 => Len(consulted) <= MaxRooms
  /\ entries \in [Slots -> Entries \cup {None}]
  /\ task \in [Tasks -> Verdicts]
  /\ revoked \in BOOLEAN
  /\ asked \in [holders : Answers \cup {None}, age : Ages] \cup {None}

Passes(t) == task[t].pc # "idle" /\ task'[t].passed

(* A grant is backed by the server: the author held the role no longer ago *)
(* than the time a cached answer is trusted, or the lookup itself took,    *)
(* whatever events were missed ("it can never pin a stale grant").         *)
GrantsAreRecent ==
  [][\A t \in Tasks :
       Passes(t) /\ Key(t) = watched => sinceHeld <= Larger(Ttl - 1, Timeout)]_vars

(* A lookup that begins after an invalidation never grants a role that was *)
(* lost before it, even with requests from before still under way: those   *)
(* complete "into a slot nobody can reach any more" (Slot).                *)
InvalidationsObeyed ==
  [][\A t \in Tasks : Passes(t) => ~ task[t].revoked]_vars

(* The callers of a slot make one request for its answer, also for one     *)
(* that failed: the next goes out when the answer has expired, when the    *)
(* slot was replaced, or when its caller is gone without an answer (entry: *)
(* "no stampede").                                                         *)
NoStampede ==
  [][\A t \in Tasks :
       task[t].pc = "queued" /\ task'[t].pc = "fetching" /\ Watching(t)
       => asked = None]_vars

-----------------------------------------------------------------------------
(***************************************************************************)
(* Why: the inductive invariant behind the three properties.               *)
(***************************************************************************)
Fetching(t, s) == task[t].pc = "fetching" /\ task[t].slot = s
Replied(s) == \E t \in Tasks : Fetching(t, s) /\ task[t].reply = "granted"
Current == <<watched, 0>>

(* One task fetches into a slot at a time, and not beyond the timeout; a   *)
(* slot leads somewhere only while a caller has it, and the map knows it.  *)
SingleFlight ==
  /\ \A t \in Tasks :
       /\ task[t].pc \in {"queued", "fetching"} <=> task[t].slot # None
       /\ task[t].pc = "asking" => task[t].next # None
       /\ task[t].reply # None => task[t].pc = "fetching"
       /\ task[t].passed => task[t].pc = "idle"
       /\ task[t].pc = "fetching" => task[t].age <= Timeout
       /\ task[t].slot \in Keys \X {0} => Key(t) \in Remembered
  /\ \A t, u \in Tasks :
       task[t].pc = "fetching" /\ Fetching(u, task[t].slot) => t = u
  /\ \A s \in Slots : entries[s] # None =>
       /\ IsFresh(entries[s])
       /\ s[2] = 0 => s[1] \in Remembered
       /\ s[2] # 0 => Holders(s) # {}

(* A grant, stored or under way, is no older than the role's last moment.  *)
GrantsAged ==
  /\ held => sinceHeld = 0
  /\ \A s \in Slots :
       s[1] = watched /\ entries[s] # None /\ Grants(entries[s]) => sinceHeld <= entries[s].age
  /\ \A t \in Tasks :
       task[t].pc = "fetching" /\ Key(t) = watched /\ task[t].reply = "granted"
         => sinceHeld <= task[t].age

(* Whoever asked after the invalidation has a slot without a grant.        *)
Denied(s) == ~ held /\ (entries[s] # None => ~ Grants(entries[s])) /\ ~ Replied(s)
RevokedDenied ==
  /\ revoked => Denied(Current)
  /\ \A t \in Tasks : task[t].revoked =>
       /\ task[t].pc \in {"queued", "fetching"} /\ Key(t) = watched
       /\ Denied(task[t].slot)

(* The request that counts is under way, or its answer is stored.          *)
AskedOnce ==
  /\ \A t \in Tasks : Fetching(t, Current) => asked = Asking(task[t].age)
  /\ asked # None =>
       IF asked.holders = None THEN \E t \in Tasks : Fetching(t, Current)
       ELSE entries[Current] = asked

DirectoryInvariant ==
  TypeOK /\ SingleFlight /\ GrantsAged /\ RevokedDenied /\ AskedOnce

=============================================================================
