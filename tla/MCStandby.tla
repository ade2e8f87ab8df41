----------------------------- MODULE MCStandby ------------------------------
(* Model-checking instance of Standby.                                     *)
EXTENDS Standby

(* Futures, tasks and events are interchangeable.                          *)
StandbySymmetry ==
  Permutations(Waiters) \cup Permutations(Drivers) \cup Permutations(Events)

=============================================================================
