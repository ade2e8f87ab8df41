------------------------------- MODULE Standby -------------------------------
(***************************************************************************)
(* Waiting inline for an event: crates/rocketsocket-realtime/src/          *)
(* standby.rs.  wait_for and process share a lock, which process lets go   *)
(* before it sends; futures are dropped at any moment, without the lock.   *)
(* A predicate that panics does so with the lock held and poisons it.      *)
(***************************************************************************)
EXTENDS Integers, SequencesExt, Subsequences

CONSTANTS
  Waiters,  \* the futures of wait_for
  Drivers,  \* tasks that call process
  Events,   \* events a predicate tells apart
  Nothing, Canceled

ASSUME StandbyAssumption == Nothing \notin Waiters \cup Events

VARIABLES
  waiters,   \* Standby::waiters
  exists,    \* the Standby is not dropped
  poisoned,  \* of the lock
  future,    \* the state of each future
  result,    \* what a future ended with
  driver,    \* how far each call of process is
  matched,   \* history: the event each waiter was matched to
  offered    \* history: the last event offered, and a bit each offer flips

vars == <<waiters, exists, poisoned, future, result, driver, matched, offered>>

Predicates == [Events -> {"yes", "no", "panic"}]
Registered == [who : Waiters, predicate : Predicates]
Returned == [pc |-> "returned", event |-> Nothing, winner |-> Nothing]
Held == \E d \in Drivers : driver[d].pc = "reaped"

Init ==
  /\ waiters = <<>> /\ exists = TRUE
  /\ poisoned = FALSE
  /\ future = [w \in Waiters |-> "none"]
  /\ result = [w \in Waiters |-> Nothing]
  /\ driver = [d \in Drivers |-> Returned]
  /\ matched = [w \in Waiters |-> Nothing]
  /\ offered = [event |-> Nothing, bit |-> FALSE]

\* Standby::wait_for; behind a poisoned lock the sender is dropped at once.
WaitFor(w) ==
  /\ exists /\ ~ Held
  /\ future[w] = "none"
  /\ \/ /\ poisoned
        /\ future' = [future EXCEPT ![w] = "ended"]
        /\ result' = [result EXCEPT ![w] = Canceled]
        /\ UNCHANGED waiters
     \/ /\ ~ poisoned
        /\ future' = [future EXCEPT ![w] = "pending"]
        /\ \E p \in Predicates : waiters' = Append(waiters, [who |-> w, predicate |-> p])
        /\ UNCHANGED result
  /\ UNCHANGED <<exists, poisoned, driver, matched, offered>>

DropFuture(w) ==
  /\ future[w] = "pending"
  /\ future' = [future EXCEPT ![w] = "dropped"]
  /\ UNCHANGED <<waiters, exists, poisoned, result, driver, matched, offered>>

\* Standby::process takes the lock and reaps the closed senders.
Reap(d, e) ==
  /\ exists /\ ~ Held /\ ~ poisoned
  /\ driver[d].pc = "returned"
  /\ waiters' = Kept(waiters, {x \in Registered : future[x.who] # "dropped"})
  /\ driver' = [driver EXCEPT ![d] = [pc |-> "reaped", event |-> e, winner |-> Nothing]]
  /\ offered' = [event |-> e, bit |-> ~ offered.bit]
  /\ UNCHANGED <<exists, poisoned, future, result, matched>>

\* How far the predicates are run: to the first that does not say no.
Reached(e) == SelectInSeq(waiters, LAMBDA x : x.predicate[e] # "no")
Answer(e) == IF Reached(e) = 0 THEN "no" ELSE waiters[Reached(e)].predicate[e]

\* Mutant: the last waiter takes the place of the one that leaves.
SwapRemoved(i) ==
  IF i = Len(waiters) THEN Front(waiters)
  ELSE [Front(waiters) EXCEPT ![i] = Last(waiters)]
Removed(i) == RemoveAt(waiters, i)

\* The predicates run, the winner leaves the registry, the lock is let go.
MatchNobody(d) ==
  /\ Answer(driver[d].event) = "no"
  /\ driver' = [driver EXCEPT ![d] = Returned]
  /\ UNCHANGED <<waiters, poisoned, matched>>

MatchFirst(d) ==
  /\ Answer(driver[d].event) = "yes"
  /\ LET i == Reached(driver[d].event)
         w == waiters[i].who
     IN /\ waiters' = Removed(i)
        /\ driver' = [driver EXCEPT ![d].pc = "sending", ![d].winner = w]
        /\ matched' = [matched EXCEPT ![w] = driver[d].event]
  /\ UNCHANGED poisoned

PredicatePanics(d) ==
  /\ Answer(driver[d].event) = "panic"
  /\ poisoned' = TRUE
  /\ driver' = [driver EXCEPT ![d] = Returned]
  /\ UNCHANGED <<waiters, matched>>

Match(d) ==
  /\ driver[d].pc = "reaped"
  /\ MatchNobody(d) \/ MatchFirst(d) \/ PredicatePanics(d)
  /\ UNCHANGED <<exists, future, result, offered>>

\* The send finds the future still there, or fails.
Send(d) ==
  /\ driver[d].pc = "sending"
  /\ LET w == driver[d].winner
     IN IF future[w] = "pending"
        THEN /\ future' = [future EXCEPT ![w] = "ended"]
             /\ result' = [result EXCEPT ![w] = driver[d].event]
        ELSE UNCHANGED <<future, result>>
  /\ driver' = [driver EXCEPT ![d] = Returned]
  /\ UNCHANGED <<waiters, exists, poisoned, matched, offered>>

\* The registry goes, with the senders in it; nobody is inside it then.
DropStandby ==
  /\ exists
  /\ \A d \in Drivers : driver[d] = Returned
  /\ exists' = FALSE /\ waiters' = <<>>
  /\ future' = [w \in Waiters |-> IF future[w] = "pending" THEN "ended" ELSE future[w]]
  /\ result' = [w \in Waiters |-> IF future[w] = "pending" THEN Canceled ELSE result[w]]
  /\ UNCHANGED <<poisoned, driver, matched, offered>>

Next ==
  \/ \E w \in Waiters : WaitFor(w) \/ DropFuture(w)
  \/ \E d \in Drivers :
       (\E e \in Events : Reap(d, e)) \/ Match(d) \/ Send(d)
  \/ DropStandby

Spec == Init /\ [][Next]_vars

-----------------------------------------------------------------------------
(***************************************************************************)
(* A call of process offers its event when it has reaped: whom it will     *)
(* match is then settled, though the future of that waiter may be dropped  *)
(* before the send.                                                        *)
(***************************************************************************)
Outcome(answer) == \E d \in Drivers : driver[d].pc = "reaped" /\ Answer(driver[d].event) = answer
Chosen == IF Outcome("yes") THEN waiters[Reached(offered.event)].who ELSE Nothing

Waiting == Kept(waiters, {x \in Registered : future[x.who] # "dropped" /\ x.who # Chosen})
Handed == [w \in Waiters |-> IF w = Chosen THEN offered.event ELSE matched[w]]
Open == exists /\ ~ poisoned /\ ~ Outcome("panic")

Contract ==
  INSTANCE Rendezvous WITH
    waiting <- Waiting, handed <- Handed, ended <- result, open <- Open, offered <- offered

(* process, wait_for: with calls of process, registrations, dropped        *)
(* futures and panicking predicates interleaved in any way, each event is  *)
(* handed to the first live waiter that matches it and to no other, and a  *)
(* wait ends with the event it was handed, or is canceled when the         *)
(* registry is dropped or poisoned.                                        *)
HandsOver == Contract!Spec

=============================================================================
