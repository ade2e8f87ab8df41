----------------------------- MODULE Correlator -----------------------------
(***************************************************************************)
(* The pending-call tables of crates/rocketsocket-realtime/src/            *)
(* correlate.rs.  The runner owns two of them, `methods' (prefix "m") and  *)
(* `subs' (prefix "s"), and always disconnects both together; they are     *)
(* modelled side by side, an id being the pair of its prefix and number.   *)
(*                                                                         *)
(* An entry's `who' is the caller holding the other end of its oneshot.    *)
(***************************************************************************)
EXTENDS Naturals

CONSTANTS
  Methods,   \* the Connection::call invocations callers may make
  Subs,      \* the Connection::subscribe invocations callers may make
  Login      \* the waiter of the runner's own `login' call

ASSUME CallAssumption ==
  /\ Methods \cap Subs = {}
  /\ Login \notin Methods \cup Subs

Calls == Methods \cup Subs
Lanes == {"m", "s"}
Keys == Lanes \X Nat

Lane(c) == IF c \in Methods THEN "m" ELSE "s"

VARIABLES
  epoch,     \* Correlator::epoch of each table
  nextId,    \* Correlator::next_id of each table
  pending    \* Correlator::pending of both tables

corrVars == <<epoch, nextId, pending>>

Entries == [key : Keys, epoch : Nat, sent : BOOLEAN, who : Calls \cup {Login}]

CorrelatorInit ==
  /\ epoch = [l \in Lanes |-> 0]
  /\ nextId = [l \in Lanes |-> 0]
  /\ pending = {}

NextKey(l) == <<l, nextId[l]>>

(* Correlator::register.                                                   *)
Register(l, who) ==
  /\ nextId' = [nextId EXCEPT ![l] = @ + 1]
  /\ pending' = pending \cup
       {[key |-> NextKey(l), epoch |-> epoch[l], sent |-> FALSE, who |-> who]}
  /\ UNCHANGED epoch

(* Correlator::register followed at once by Correlator::cancel: the id is  *)
(* spent and no entry is left.                                             *)
RegisterAndCancel(l) ==
  /\ nextId' = [nextId EXCEPT ![l] = @ + 1]
  /\ UNCHANGED <<epoch, pending>>

\* Mutant: a flush marks the whole table.
MarkAllSent(P, keys) == {[e EXCEPT !.sent = TRUE] : e \in P}

(* Correlator::mark_sent for every key of a flushed batch.                 *)
MarkSent(P, keys) ==
  {[e EXCEPT !.sent = @ \/ e.key \in keys] : e \in P}

(* Correlator::resolve: the entry goes away whatever its epoch, and only   *)
(* one of the current epoch is answered.                                   *)
Resolve(keys) ==
  /\ pending' = {e \in pending : e.key \notin keys}
  /\ UNCHANGED <<epoch, nextId>>

\* Mutant: the epoch comparison is inverted.
AnsweredIfStale(keys) ==
  {e \in pending : e.key \in keys /\ e.epoch # epoch[e.key[1]]}

\* Mutant: the other table is searched as well, by number.
AnsweredInEitherTable(keys) ==
  {e \in pending : /\ e.key[2] \in {k[2] : k \in keys}
                   /\ e.epoch = epoch[e.key[1]]}

Answered(keys) ==
  {e \in pending : e.key \in keys /\ e.epoch = epoch[e.key[1]]}

(* Mutant: only one of the two tables moves on.                            *)
DisconnectMethodsOnly(n) ==
  /\ epoch' = [epoch EXCEPT !["m"] = @ + n]
  /\ pending' = {}
  /\ UNCHANGED nextId

(* Correlator::disconnect of both tables, `n' times over.                  *)
Disconnect(n) ==
  /\ epoch' = [l \in Lanes |-> epoch[l] + n]
  /\ pending' = {}
  /\ UNCHANGED nextId

=============================================================================
