---------------------------- MODULE Subsequences ----------------------------
(***************************************************************************)
(* What retain leaves of a collection in order: the elements of a sequence *)
(* that are in a set.  It is SelectSeq with a set for its test, written as *)
(* a recursive function so that it can be reasoned about.                  *)
(***************************************************************************)
EXTENDS Integers, Sequences

Kept(s, S) ==
  LET kept[i \in 0 .. Len(s)] ==
        IF i = 0 THEN <<>>
        ELSE IF s[i] \in S THEN Append(kept[i - 1], s[i]) ELSE kept[i - 1]
  IN kept[Len(s)]

=============================================================================
