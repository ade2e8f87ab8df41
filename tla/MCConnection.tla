---------------------------- MODULE MCConnection ----------------------------
(* Model-checking instance of Connection.                                  *)
EXTENDS ConnectionInv, TLC

(* Calls of one kind are interchangeable.                                  *)
CallSymmetry == Permutations(Methods) \cup Permutations(Subs)

=============================================================================
