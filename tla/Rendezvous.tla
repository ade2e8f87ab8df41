----------------------------- MODULE Rendezvous -----------------------------
(***************************************************************************)
(* What Standby promises: every event offered is handed, at one instant,   *)
(* to the first registered waiter whose predicate matches it ("only the    *)
(* first match wins"), and a wait ends with the event it was handed or,    *)
(* once no more events are handed out, with Canceled.                      *)
(***************************************************************************)
EXTENDS SequencesExt

CONSTANTS Waiters, Events, Nothing, Canceled

VARIABLES
  waiting,  \* the waiters in order of registration, with their predicates
  handed,   \* the event each waiter was handed
  ended,    \* what each wait ended with
  open,     \* events are still handed out
  offered   \* the last event offered, and a bit that each offer flips

rendezvous == <<waiting, handed, ended, open, offered>>

Init ==
  /\ waiting = <<>>
  /\ handed = [w \in Waiters |-> Nothing]
  /\ ended = [w \in Waiters |-> Nothing]
  /\ open = TRUE
  /\ offered = [event |-> Nothing, bit |-> FALSE]

Register(w, predicate) ==
  /\ open
  /\ waiting' = Append(waiting, [who |-> w, predicate |-> predicate])
  /\ UNCHANGED <<handed, ended, open, offered>>

Leave(i) ==
  /\ waiting' = RemoveAt(waiting, i)
  /\ UNCHANGED <<handed, ended, open, offered>>

(* A predicate that panics ends the registry for everybody.                *)
Offer(e) ==
  /\ open
  /\ offered' = [event |-> e, bit |-> ~ offered.bit]
  /\ UNCHANGED ended
  /\ LET Says(i, answer) == waiting[i].predicate[e] = answer
         First(i) == ~ Says(i, "no") /\ \A j \in 1 .. i - 1 : Says(j, "no")
     IN \/ /\ \A i \in DOMAIN waiting : Says(i, "no")
           /\ UNCHANGED <<waiting, handed, open>>
        \/ \E i \in DOMAIN waiting :
             /\ First(i) /\ Says(i, "yes")
             /\ handed' = [handed EXCEPT ![waiting[i].who] = e]
             /\ waiting' = RemoveAt(waiting, i)
             /\ UNCHANGED open
        \/ \E i \in DOMAIN waiting :
             /\ First(i) /\ Says(i, "panic")
             /\ open' = FALSE
             /\ UNCHANGED <<waiting, handed>>

Take(w) ==
  /\ handed[w] # Nothing
  /\ ended' = [ended EXCEPT ![w] = handed[w]]
  /\ UNCHANGED <<waiting, handed, open, offered>>

(* The registry is dropped, with those who wait in it.                     *)
Close ==
  /\ open' = FALSE
  /\ waiting' = <<>>
  /\ ended' = [w \in Waiters |->
                 IF \E i \in DOMAIN waiting : waiting[i].who = w THEN Canceled ELSE ended[w]]
  /\ UNCHANGED <<handed, offered>>

Refuse(w) ==
  /\ ~ open
  /\ ended' = [ended EXCEPT ![w] = Canceled]
  /\ UNCHANGED <<waiting, handed, open, offered>>

Next ==
  \/ \E w \in Waiters, p \in [Events -> {"yes", "no", "panic"}] : Register(w, p)
  \/ \E i \in DOMAIN waiting : Leave(i)
  \/ \E e \in Events : Offer(e)
  \/ \E w \in Waiters : Take(w) \/ Refuse(w)
  \/ Close

Spec == Init /\ [][Next]_rendezvous

=============================================================================
