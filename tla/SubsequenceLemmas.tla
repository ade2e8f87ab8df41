------------------------- MODULE SubsequenceLemmas --------------------------
(***************************************************************************)
(* Induction over numbers and sequences, stated with sets, and with it     *)
(* what Kept returns.                                                      *)
(***************************************************************************)
EXTENDS Subsequences, SequencesExt, SequenceTheorems, FiniteSetTheorems, WellFoundedInduction, TLAPS

(* Every set of numbers has a least one: initial segments of Nat are       *)
(* finite, and finite sets are well-founded under inclusion.               *)
LEMMA LeastNumber ==
  ASSUME NEW T \in SUBSET Nat, T # {}
  PROVE  \E n \in T : \A m \in T : n <= m
<1> DEFINE F == {0 .. n : n \in T}
<1>1. \A n \in T : 0 .. n \in FiniteSubsetsOf(Nat)
  BY FS_Interval DEF FiniteSubsetsOf
<1>2. F \subseteq FiniteSubsetsOf(Nat) /\ F # {}
  BY <1>1
<1>3. IsWellFoundedOn(StrictSubsetOrdering(Nat), FiniteSubsetsOf(Nat))
  BY FS_StrictSubsetOrderingWellFounded
<1>4. PICK X \in F : \A Y \in F : <<Y, X>> \notin StrictSubsetOrdering(Nat)
  <2> HIDE DEF F
  <2> QED BY <1>2, <1>3, WFMin
<1>5. PICK n \in T : X = 0 .. n
  OBVIOUS
<1>6. ASSUME NEW m \in T, m < n
      PROVE  FALSE
  <2>1. 0 .. m \subseteq 0 .. n /\ n \in 0 .. n /\ n \notin 0 .. m
    BY <1>6
  <2>2. <<0 .. m, 0 .. n>> \in StrictSubsetOrdering(Nat)
    BY <1>1, <2>1 DEF StrictSubsetOrdering
  <2> QED BY <1>4, <1>5, <2>2
<1> QED BY <1>6

(* A set that holds 0 and every successor of its numbers holds them all.   *)
LEMMA InductionOnNat ==
  ASSUME NEW T, 0 \in T, \A n \in Nat : n \in T => n + 1 \in T
  PROVE  Nat \subseteq T
<1> SUFFICES ASSUME Nat \ T # {}
             PROVE  FALSE
  OBVIOUS
<1>1. PICK n \in Nat \ T : \A m \in Nat \ T : n <= m
  BY LeastNumber
<1>2. n # 0 /\ n - 1 \in Nat /\ n = (n - 1) + 1
  BY <1>1
<1>3. n - 1 \in T
  BY <1>1, <1>2
<1> QED BY <1>2, <1>3

(* ... and the same for sequences that grow at their end.                  *)
LEMMA InductionOnSeq ==
  ASSUME NEW X, NEW T, <<>> \in T,
         \A s \in Seq(X), x \in X : s \in T => Append(s, x) \in T
  PROVE  Seq(X) \subseteq T
<1> DEFINE N == {n \in Nat : \A s \in Seq(X) : Len(s) = n => s \in T}
<1>1. 0 \in N
  BY EmptySeq
<1>2. ASSUME NEW n \in Nat, n \in N PROVE n + 1 \in N
  <2> SUFFICES ASSUME NEW s \in Seq(X), Len(s) = n + 1 PROVE s \in T
    OBVIOUS
  <2> DEFINE front == SubSeq(s, 1, n)
  <2>1. front \in Seq(X) /\ Len(front) = n /\ s[n + 1] \in X
    BY SubSeqProperties
  <2>2. front \in T
    BY <1>2, <2>1
  <2>3. s = Append(front, s[n + 1])
    <3>1. \A i \in 1 .. n : front[i] = s[i]
      BY SubSeqProperties
    <3> HIDE DEF front
    <3>2. /\ Append(front, s[n + 1]) \in Seq(X)
          /\ Len(Append(front, s[n + 1])) = n + 1
          /\ \A i \in 1 .. n + 1 : Append(front, s[n + 1])[i] = s[i]
      BY <2>1, <3>1
    <3> QED BY <3>2, SeqEqual
  <2> HIDE DEF front
  <2> QED BY <2>1, <2>2, <2>3
<1>3. Nat \subseteq N
  <2> HIDE DEF N
  <2> QED BY <1>1, <1>2, InductionOnNat
<1> QED BY <1>3, LenProperties

-----------------------------------------------------------------------------
(* f runs through the prefixes of s up to the n-th, as Kept does.          *)
Filters(f, s, S, n) ==
  /\ f[0] = <<>>
  /\ \A i \in 1 .. n : f[i] = IF s[i] \in S THEN Append(f[i - 1], s[i]) ELSE f[i - 1]

LEMMA FilterExists ==
  ASSUME NEW X, NEW S, NEW s \in Seq(X)
  PROVE  \A n \in 0 .. Len(s) : \E f \in [0 .. n -> Seq(X)] : Filters(f, s, S, n)
<1> DEFINE N == {n \in Nat : n <= Len(s) => \E f \in [0 .. n -> Seq(X)] : Filters(f, s, S, n)}
<1>1. 0 \in N
  <2>1. [i \in 0 .. 0 |-> <<>>] \in [0 .. 0 -> Seq(X)]
    BY EmptySeq
  <2>2. Filters([i \in 0 .. 0 |-> <<>>], s, S, 0)
    BY DEF Filters
  <2> QED BY <2>1, <2>2
<1>2. ASSUME NEW n \in Nat, n \in N PROVE n + 1 \in N
  <2> SUFFICES ASSUME n + 1 <= Len(s)
               PROVE  \E f \in [0 .. n + 1 -> Seq(X)] : Filters(f, s, S, n + 1)
    OBVIOUS
  <2>0. Len(s) \in Nat /\ n <= Len(s) /\ n + 1 \in 1 .. Len(s)
    BY LenProperties
  <2>1. PICK f \in [0 .. n -> Seq(X)] : Filters(f, s, S, n)
    BY <1>2, <2>0
  <2>2. PICK last : last = IF s[n + 1] \in S THEN Append(f[n], s[n + 1]) ELSE f[n]
    OBVIOUS
  <2>3. last \in Seq(X)
    <3>1. f[n] \in Seq(X)
      OBVIOUS
    <3>2. s[n + 1] \in X
      BY <2>0, ElementOfSeq
    <3> QED BY <2>2, <3>1, <3>2, AppendProperties
  <2>4. PICK g : g = [i \in 0 .. n + 1 |-> IF i <= n THEN f[i] ELSE last]
    OBVIOUS
  <2>5. g \in [0 .. n + 1 -> Seq(X)]
    BY <2>3, <2>4
  <2>6. g[0] = <<>>
    BY <2>1, <2>4 DEF Filters
  <2>7. ASSUME NEW i \in 1 .. n + 1
        PROVE  g[i] = IF s[i] \in S THEN Append(g[i - 1], s[i]) ELSE g[i - 1]
    <3>1. CASE i <= n
      <4>1. i \in 1 .. n /\ g[i] = f[i] /\ g[i - 1] = f[i - 1]
        BY <2>4, <3>1
      <4> QED BY <2>1, <4>1 DEF Filters
    <3>2. CASE i = n + 1
      BY <2>2, <2>4, <3>2
    <3> QED BY <3>1, <3>2
  <2> QED BY <2>5, <2>6, <2>7 DEF Filters
<1>3. Nat \subseteq N
  <2> HIDE DEF N
  <2> QED BY <1>1, <1>2, InductionOnNat
<1> QED BY <1>3, LenProperties

LEMMA FilterUnique ==
  ASSUME NEW S, NEW s, NEW m \in Nat, NEW f, NEW g,
         Filters(f, s, S, m), Filters(g, s, S, m)
  PROVE  f[m] = g[m]
<1> DEFINE N == {n \in Nat : n <= m => f[n] = g[n]}
<1>1. 0 \in N
  BY DEF Filters
<1>2. ASSUME NEW n \in Nat, n \in N PROVE n + 1 \in N
  <2> SUFFICES ASSUME n + 1 <= m PROVE f[n + 1] = g[n + 1]
    OBVIOUS
  <2>1. n + 1 \in 1 .. m /\ (n + 1) - 1 = n /\ f[n] = g[n]
    BY <1>2
  <2> QED BY <2>1 DEF Filters
<1>3. Nat \subseteq N
  <2> HIDE DEF N
  <2> QED BY <1>1, <1>2, InductionOnNat
<1> QED BY <1>3

(* The definition of Kept by recursion is sound: whatever runs through the *)
(* prefixes that way ends with it.                                         *)
LEMMA KeptIs ==
  ASSUME NEW X, NEW S, NEW s \in Seq(X), NEW f, Filters(f, s, S, Len(s))
  PROVE  Kept(s, S) = f[Len(s)]
<1>0. Len(s) \in Nat
  BY LenProperties
<1> DEFINE Step(g) == [i \in 0 .. Len(s) |->
             IF i = 0 THEN <<>>
             ELSE IF s[i] \in S THEN Append(g[i - 1], s[i]) ELSE g[i - 1]]
<1> DEFINE kept == CHOOSE g : g = Step(g)
<1> HIDE DEF Step, kept
<1>1. PICK h \in [0 .. Len(s) -> Seq(X)] : Filters(h, s, S, Len(s))
  <2>1. Len(s) \in 0 .. Len(s)
    BY <1>0
  <2> QED BY <2>1, FilterExists
<1>2. h = Step(h)
  <2>1. ASSUME NEW i \in 0 .. Len(s) PROVE h[i] = Step(h)[i]
    <3>1. CASE i = 0
      BY <1>1, <3>1 DEF Filters, Step
    <3>2. CASE i # 0
      <4>1. i \in 1 .. Len(s)
        BY <1>0, <3>2
      <4> QED BY <1>1, <3>2, <4>1 DEF Filters, Step
    <3> QED BY <3>1, <3>2
  <2> QED BY <2>1 DEF Step
<1>3. kept = Step(kept)
  BY <1>2 DEF kept
<1>4. Filters(kept, s, S, Len(s))
  <2>1. kept[0] = <<>>
    BY <1>0, <1>3 DEF Step
  <2>2. ASSUME NEW i \in 1 .. Len(s)
        PROVE  kept[i] = IF s[i] \in S THEN Append(kept[i - 1], s[i]) ELSE kept[i - 1]
    <3>1. i \in 0 .. Len(s) /\ i # 0
      BY <1>0
    <3>2. kept[i] = Step(kept)[i]
      BY <1>3
    <3> QED BY <3>1, <3>2 DEF Step
  <2> QED BY <2>1, <2>2 DEF Filters
<1>5. kept[Len(s)] = f[Len(s)]
  BY <1>0, <1>4, FilterUnique
<1>6. Kept(s, S) = kept[Len(s)]
  BY DEF Kept, kept, Step
<1> QED BY <1>5, <1>6

-----------------------------------------------------------------------------
(* What Kept returns for the empty sequence and for one that grew.         *)
LEMMA KeptEmpty == \A S : Kept(<<>>, S) = <<>>
<1> TAKE S
<1>1. <<>> \in Seq({}) /\ Len(<<>>) = 0
  BY EmptySeq
<1>2. Filters([i \in 0 .. 0 |-> <<>>], <<>>, S, 0)
  BY DEF Filters
<1>3. Kept(<<>>, S) = [i \in 0 .. 0 |-> <<>>][0]
  BY <1>1, <1>2, KeptIs
<1> QED BY <1>3

LEMMA KeptAppend ==
  ASSUME NEW X, NEW s \in Seq(X), NEW x \in X, NEW S
  PROVE  Kept(Append(s, x), S) = IF x \in S THEN Append(Kept(s, S), x) ELSE Kept(s, S)
<1> DEFINE t == Append(s, x)
<1>1. /\ t \in Seq(X) /\ Len(t) = Len(s) + 1 /\ Len(s) \in Nat
      /\ t[Len(s) + 1] = x
      /\ \A i \in 1 .. Len(s) : t[i] = s[i]
  BY AppendProperties, LenProperties
<1> HIDE DEF t
<1>2. PICK f \in [0 .. Len(t) -> Seq(X)] : Filters(f, t, S, Len(t))
  <2>1. Len(t) \in 0 .. Len(t)
    BY <1>1
  <2> QED BY <1>1, <2>1, FilterExists
<1>3. Filters(f, s, S, Len(s))
  BY <1>1, <1>2 DEF Filters
<1>4. Kept(t, S) = f[Len(s) + 1] /\ Kept(s, S) = f[Len(s)]
  BY <1>1, <1>2, <1>3, KeptIs
<1>5. f[Len(s) + 1] = IF x \in S THEN Append(f[Len(s)], x) ELSE f[Len(s)]
  <2>1. Len(s) + 1 \in 1 .. Len(t) /\ (Len(s) + 1) - 1 = Len(s)
    BY <1>1
  <2> QED BY <1>1, <1>2, <2>1 DEF Filters
<1> QED BY <1>4, <1>5 DEF t

(* It is a sequence of the elements that are in the set, no longer than    *)
(* the one it is taken from.                                               *)
LEMMA KeptType ==
  ASSUME NEW X, NEW S
  PROVE  \A s \in Seq(X) : Kept(s, S) \in Seq(X \cap S) /\ Len(Kept(s, S)) <= Len(s)
<1> DEFINE T == {s \in Seq(X) : Kept(s, S) \in Seq(X \cap S) /\ Len(Kept(s, S)) <= Len(s)}
<1>1. <<>> \in T
  <2>1. <<>> \in Seq(X) /\ <<>> \in Seq(X \cap S)
    BY EmptySeq
  <2>2. Kept(<<>>, S) = <<>> /\ Len(<<>>) <= Len(<<>>)
    BY KeptEmpty
  <2>3. Kept(<<>>, S) \in Seq(X \cap S) /\ Len(Kept(<<>>, S)) <= Len(<<>>)
    BY <2>1, <2>2, Zenon
  <2> QED BY <2>1, <2>3
<1>2. ASSUME NEW s \in Seq(X), NEW x \in X, s \in T PROVE Append(s, x) \in T
  <2>1. Append(s, x) \in Seq(X) /\ Len(Append(s, x)) = Len(s) + 1 /\ Len(s) \in Nat
    BY AppendProperties, LenProperties
  <2>2. Kept(s, S) \in Seq(X \cap S) /\ Len(Kept(s, S)) <= Len(s) /\ Len(Kept(s, S)) \in Nat
    BY <1>2, LenProperties
  <2>3. CASE x \in S
    <3>1. Kept(Append(s, x), S) = Append(Kept(s, S), x)
      BY <2>3, KeptAppend
    <3>2. /\ Append(Kept(s, S), x) \in Seq(X \cap S)
          /\ Len(Append(Kept(s, S), x)) = Len(Kept(s, S)) + 1
      BY <2>2, <2>3, AppendProperties
    <3> QED BY <2>1, <2>2, <3>1, <3>2
  <2>4. CASE x \notin S
    <3>1. Kept(Append(s, x), S) = Kept(s, S)
      BY <2>4, KeptAppend
    <3> QED BY <2>1, <2>2, <3>1
  <2> QED BY <2>3, <2>4
<1>3. Seq(X) \subseteq T
  <2> HIDE DEF T
  <2> QED BY <1>1, <1>2, InductionOnSeq
<1> QED BY <1>3

(* It holds every element of the set that the sequence holds.              *)
LEMMA KeptElements ==
  ASSUME NEW X, NEW S
  PROVE  \A s \in Seq(X) : Range(Kept(s, S)) = Range(s) \cap S
<1> DEFINE T == {s \in Seq(X) : Range(Kept(s, S)) = Range(s) \cap S}
<1>1. <<>> \in T
  BY EmptySeq, KeptEmpty DEF Range
<1>2. ASSUME NEW s \in Seq(X), NEW x \in X, s \in T PROVE Append(s, x) \in T
  <2>1. \A Y : \A u \in Seq(Y), y \in Y : Range(Append(u, y)) = Range(u) \cup {y}
    BY AppendProperties, LenProperties DEF Range
  <2>2. Kept(s, S) \in Seq(X \cap S) /\ Append(s, x) \in Seq(X)
    BY KeptType, AppendProperties
  <2>3. CASE x \in S
    <3>1. Kept(Append(s, x), S) = Append(Kept(s, S), x)
      BY <2>3, KeptAppend
    <3>2. Range(Append(Kept(s, S), x)) = Range(Kept(s, S)) \cup {x}
      BY <2>1, <2>2, <2>3
    <3>3. Range(Append(s, x)) = Range(s) \cup {x}
      BY <2>1
    <3> QED BY <1>2, <2>2, <2>3, <3>1, <3>2, <3>3
  <2>4. CASE x \notin S
    <3>1. Kept(Append(s, x), S) = Kept(s, S)
      BY <2>4, KeptAppend
    <3>2. Range(Append(s, x)) = Range(s) \cup {x}
      BY <2>1
    <3> QED BY <1>2, <2>2, <2>4, <3>1, <3>2
  <2> QED BY <2>3, <2>4
<1>3. Seq(X) \subseteq T
  <2> HIDE DEF T
  <2> QED BY <1>1, <1>2, InductionOnSeq
<1> QED BY <1>3

(* Elements outside the set shorten it; without one it is the sequence.    *)
LEMMA KeptAll ==
  ASSUME NEW X, NEW S
  PROVE  \A s \in Seq(X) : IF Range(s) \subseteq S THEN Kept(s, S) = s
                           ELSE Len(Kept(s, S)) < Len(s)
<1> DEFINE T == {s \in Seq(X) : IF Range(s) \subseteq S THEN Kept(s, S) = s
                               ELSE Len(Kept(s, S)) < Len(s)}
<1>1. <<>> \in T
  <2>1. <<>> \in Seq(X) /\ Range(<<>>) = {}
    BY EmptySeq DEF Range
  <2> QED BY <2>1, KeptEmpty
<1>2. ASSUME NEW s \in Seq(X), NEW x \in X, s \in T PROVE Append(s, x) \in T
  <2>1. /\ Append(s, x) \in Seq(X) /\ Len(Append(s, x)) = Len(s) + 1 /\ Len(s) \in Nat
        /\ Range(Append(s, x)) = Range(s) \cup {x}
    BY AppendProperties, LenProperties DEF Range
  <2>2. /\ Kept(s, S) \in Seq(X \cap S) /\ Len(Kept(s, S)) <= Len(s) /\ Len(Kept(s, S)) \in Nat
    BY KeptType, LenProperties
  <2>3. CASE x \in S
    <3>1. Kept(Append(s, x), S) = Append(Kept(s, S), x)
      BY <2>3, KeptAppend
    <3>2. Len(Append(Kept(s, S), x)) = Len(Kept(s, S)) + 1
      BY <2>2, <2>3, AppendProperties
    <3>3. CASE Range(s) \subseteq S
      BY <1>2, <2>1, <2>3, <3>1, <3>3
    <3>4. CASE ~ (Range(s) \subseteq S)
      <4>1. Len(Kept(s, S)) < Len(s)
        BY <1>2, <3>4
      <4>2. ~ (Range(Append(s, x)) \subseteq S)
        BY <2>1, <3>4
      <4>3. Len(Kept(Append(s, x), S)) < Len(Append(s, x))
        BY <2>1, <2>2, <3>1, <3>2, <4>1
      <4> QED BY <2>1, <4>2, <4>3
    <3> QED BY <3>3, <3>4
  <2>4. CASE x \notin S
    <3>1. Kept(Append(s, x), S) = Kept(s, S)
      BY <2>4, KeptAppend
    <3>2. Len(Kept(Append(s, x), S)) < Len(Append(s, x))
      BY <2>1, <2>2, <3>1
    <3>3. ~ (Range(Append(s, x)) \subseteq S)
      BY <2>1, <2>4
    <3> QED BY <2>1, <3>2, <3>3
  <2> QED BY <2>3, <2>4
<1>3. Seq(X) \subseteq T
  <2> HIDE DEF T
  <2> QED BY <1>1, <1>2, InductionOnSeq
<1> QED BY <1>3

LEMMA ConcatAppend ==
  ASSUME NEW X, NEW s \in Seq(X), NEW t \in Seq(X), NEW x \in X
  PROVE  s \o Append(t, x) = Append(s \o t, x)
<1>1. Append(t, x) \in Seq(X) /\ s \o t \in Seq(X)
  BY AppendProperties, ConcatProperties
<1> QED BY <1>1, AppendProperties, ConcatProperties, LenProperties, SeqEqual

(* It may be taken in two parts, and in two turns.                         *)
LEMMA KeptConcat ==
  ASSUME NEW X, NEW S, NEW s \in Seq(X)
  PROVE  \A t \in Seq(X) : Kept(s \o t, S) = Kept(s, S) \o Kept(t, S)
<1> DEFINE T == {t \in Seq(X) : Kept(s \o t, S) = Kept(s, S) \o Kept(t, S)}
<1>0. Kept(s, S) \in Seq(X \cap S)
  BY KeptType
<1>1. <<>> \in T
  <2>1. <<>> \in Seq(X) /\ s \o <<>> = s /\ Kept(s, S) \o <<>> = Kept(s, S)
    BY <1>0, EmptySeq, ConcatEmptySeq
  <2> QED BY <2>1, KeptEmpty
<1>2. ASSUME NEW t \in Seq(X), NEW x \in X, t \in T PROVE Append(t, x) \in T
  <2>2. /\ Append(t, x) \in Seq(X) /\ s \o t \in Seq(X)
        /\ s \o Append(t, x) = Append(s \o t, x)
    BY ConcatAppend, AppendProperties, ConcatProperties
  <2>3. Kept(t, S) \in Seq(X \cap S)
    BY KeptType
  <2>4. CASE x \in S
    <3>1. Kept(s \o Append(t, x), S) = Append(Kept(s, S) \o Kept(t, S), x)
      BY <1>2, <2>2, <2>4, KeptAppend
    <3>2. Kept(Append(t, x), S) = Append(Kept(t, S), x)
      BY <2>4, KeptAppend
    <3>3. Append(Kept(s, S) \o Kept(t, S), x) = Kept(s, S) \o Append(Kept(t, S), x)
      <4>1. x \in X \cap S
        BY <2>4
      <4>2. \A u, v \in Seq(X \cap S) : u \o Append(v, x) = Append(u \o v, x)
        BY <4>1, ConcatAppend
      <4> QED BY <1>0, <2>3, <4>2
    <3> QED BY <2>2, <3>1, <3>2, <3>3
  <2>5. CASE x \notin S
    <3>1. Kept(s \o Append(t, x), S) = Kept(s \o t, S) /\ Kept(Append(t, x), S) = Kept(t, S)
      BY <2>2, <2>5, KeptAppend
    <3> QED BY <1>2, <2>2, <3>1
  <2> QED BY <2>4, <2>5
<1>3. Seq(X) \subseteq T
  <2> HIDE DEF T
  <2> QED BY <1>1, <1>2, InductionOnSeq
<1> QED BY <1>3

LEMMA KeptTwice ==
  ASSUME NEW X, NEW R, NEW S
  PROVE  \A s \in Seq(X) : Kept(Kept(s, R), S) = Kept(s, R \cap S)
<1> DEFINE T == {s \in Seq(X) : Kept(Kept(s, R), S) = Kept(s, R \cap S)}
<1>1. <<>> \in T
  BY EmptySeq, KeptEmpty
<1>2. ASSUME NEW s \in Seq(X), NEW x \in X, s \in T PROVE Append(s, x) \in T
  <2>1. Append(s, x) \in Seq(X) /\ Kept(s, R) \in Seq(X)
    <3>1. Kept(s, R) \in Seq(X \cap R) /\ X \cap R \subseteq X
      BY KeptType
    <3> QED BY <3>1, AppendProperties, SeqMonotonic
  <2>2. CASE x \in R
    <3>1. Kept(Append(s, x), R) = Append(Kept(s, R), x)
      BY <2>2, KeptAppend
    <3>2. Kept(Append(Kept(s, R), x), S)
            = IF x \in S THEN Append(Kept(Kept(s, R), S), x) ELSE Kept(Kept(s, R), S)
      BY <2>1, KeptAppend
    <3>3. Kept(Append(s, x), R \cap S)
            = IF x \in S THEN Append(Kept(s, R \cap S), x) ELSE Kept(s, R \cap S)
      BY <2>2, KeptAppend
    <3>4. Kept(Kept(s, R), S) = Kept(s, R \cap S)
      BY <1>2
    <3>5. Kept(Kept(Append(s, x), R), S) = Kept(Append(s, x), R \cap S)
      <4>1. CASE x \in S
        BY <3>1, <3>2, <3>3, <3>4, <4>1
      <4>2. CASE x \notin S
        BY <3>1, <3>2, <3>3, <3>4, <4>2
      <4> QED BY <4>1, <4>2
    <3> QED BY <2>1, <3>5
  <2>3. CASE x \notin R
    BY <1>2, <2>1, <2>3, KeptAppend
  <2> QED BY <2>2, <2>3
<1>3. Seq(X) \subseteq T
  <2> HIDE DEF T
  <2> QED BY <1>1, <1>2, InductionOnSeq
<1> QED BY <1>3

(* Only the elements of the sequence matter.                               *)
LEMMA KeptSame ==
  ASSUME NEW X, NEW R, NEW S
  PROVE  \A s \in Seq(X) : Range(s) \cap R = Range(s) \cap S => Kept(s, R) = Kept(s, S)
<1> DEFINE T == {s \in Seq(X) : Range(s) \cap R = Range(s) \cap S => Kept(s, R) = Kept(s, S)}
<1>1. <<>> \in T
  BY EmptySeq, KeptEmpty
<1>2. ASSUME NEW s \in Seq(X), NEW x \in X, s \in T PROVE Append(s, x) \in T
  <2>1. Append(s, x) \in Seq(X) /\ Range(Append(s, x)) = Range(s) \cup {x}
    BY AppendProperties, LenProperties DEF Range
  <2> SUFFICES ASSUME Range(Append(s, x)) \cap R = Range(Append(s, x)) \cap S
               PROVE  Kept(Append(s, x), R) = Kept(Append(s, x), S)
    BY <2>1
  <2>2. Range(s) \cap R = Range(s) \cap S /\ (x \in R <=> x \in S)
    BY <2>1
  <2>3. /\ Kept(Append(s, x), R) = IF x \in R THEN Append(Kept(s, R), x) ELSE Kept(s, R)
        /\ Kept(Append(s, x), S) = IF x \in S THEN Append(Kept(s, S), x) ELSE Kept(s, S)
    BY KeptAppend
  <2> QED BY <1>2, <2>2, <2>3
<1>3. Seq(X) \subseteq T
  <2> HIDE DEF T
  <2> QED BY <1>1, <1>2, InductionOnSeq
<1> QED BY <1>3

LEMMA RangeAppend ==
  ASSUME NEW X, NEW s \in Seq(X), NEW x \in X
  PROVE  Range(Append(s, x)) = Range(s) \cup {x}
  BY AppendProperties, LenProperties DEF Range

LEMMA InjectiveAppend ==
  ASSUME NEW X, NEW s \in Seq(X), IsInjective(s), NEW x \in X, x \notin Range(s)
  PROVE  IsInjective(Append(s, x))
<1> DEFINE t == Append(s, x)
<1>1. /\ t \in Seq(X) /\ Len(t) = Len(s) + 1 /\ Len(s) \in Nat
      /\ t[Len(s) + 1] = x
      /\ \A j \in 1 .. Len(s) : t[j] = s[j]
  BY AppendProperties, LenProperties
<1> HIDE DEF t
<1>2. DOMAIN t = 1 .. Len(s) + 1 /\ DOMAIN s = 1 .. Len(s)
  BY <1>1, LenProperties
<1>3. \A j \in 1 .. Len(s) : t[j] # x
  BY <1>1, <1>2 DEF Range
<1>4. ASSUME NEW i \in DOMAIN t, NEW j \in DOMAIN t, t[i] = t[j] PROVE i = j
  <2>1. CASE i \in 1 .. Len(s) /\ j \in 1 .. Len(s)
    BY <1>1, <1>2, <1>4, <2>1 DEF IsInjective
  <2>2. CASE i = Len(s) + 1 \/ j = Len(s) + 1
    BY <1>1, <1>2, <1>3, <1>4, <2>2
  <2> QED BY <1>1, <1>2, <2>1, <2>2
<1> QED BY <1>4 DEF IsInjective, t

(* No element comes twice unless it did before.                            *)
LEMMA KeptInjective ==
  ASSUME NEW X, NEW S
  PROVE  \A s \in Seq(X) : IsInjective(s) => IsInjective(Kept(s, S))
<1> DEFINE T == {s \in Seq(X) : IsInjective(s) => IsInjective(Kept(s, S))}
<1>1. <<>> \in T
  BY EmptySeq, KeptEmpty
<1>2. ASSUME NEW s \in Seq(X), NEW x \in X, s \in T PROVE Append(s, x) \in T
  <2>1. Append(s, x) \in Seq(X)
    BY AppendProperties
  <2> SUFFICES ASSUME IsInjective(Append(s, x)) PROVE IsInjective(Kept(Append(s, x), S))
    BY <2>1
  <2>2. IsInjective(s) /\ x \notin Range(s)
    BY AppendProperties, LenProperties DEF IsInjective, Range
  <2>3. IsInjective(Kept(s, S))
    BY <1>2, <2>2
  <2>4. Kept(s, S) \in Seq(X) /\ x \notin Range(Kept(s, S))
    <3>1. Kept(s, S) \in Seq(X \cap S) /\ X \cap S \subseteq X
      BY KeptType
    <3> QED BY <2>2, <3>1, SeqMonotonic, KeptElements
  <2>5. IsInjective(Append(Kept(s, S), x))
    BY <2>3, <2>4, InjectiveAppend
  <2>6. Kept(Append(s, x), S) = IF x \in S THEN Append(Kept(s, S), x) ELSE Kept(s, S)
    BY KeptAppend
  <2> QED BY <2>3, <2>5, <2>6
<1>3. Seq(X) \subseteq T
  <2> HIDE DEF T
  <2> QED BY <1>1, <1>2, InductionOnSeq
<1> QED BY <1>3

(* Keeping all but one element of an injective sequence removes it.        *)
LEMMA KeptWithout ==
  ASSUME NEW X, NEW s \in Seq(X), IsInjective(s), NEW i \in 1 .. Len(s)
  PROVE  Kept(s, X \ {s[i]}) = RemoveAt(s, i)
<1> DEFINE S == X \ {s[i]}
<1>0. Len(s) \in Nat /\ s \in [1 .. Len(s) -> X] /\ i \in Int
  BY LenProperties
<1>1. PICK a : a = SubSeq(s, 1, i - 1)
  OBVIOUS
<1>2. PICK b : b = <<s[i]>>
  OBVIOUS
<1>3. PICK c : c = SubSeq(s, i + 1, Len(s))
  OBVIOUS
<1> HIDE DEF S
<1>a. /\ a \in Seq(X) /\ Len(a) = i - 1 /\ \A j \in 1 .. i - 1 : a[j] = s[j]
  <2>1. \A j \in 1 .. i - 1 : s[j] \in X
    BY <1>0
  <2>2. /\ a \in Seq(X) /\ Len(a) = IF 1 <= i - 1 THEN i - 1 - 1 + 1 ELSE 0
        /\ \A j \in 1 .. i - 1 - 1 + 1 : a[j] = s[1 + j - 1]
    BY <1>0, <1>1, <2>1, SubSeqProperties
  <2>3. \A j \in Int : 1 + j - 1 = j
    OBVIOUS
  <2> QED BY <1>0, <2>2, <2>3
<1>c. c \in Seq(X) /\ Len(c) = Len(s) - i /\ \A j \in 1 .. Len(s) - i : c[j] = s[i + j]
  <2>1. \A j \in i + 1 .. Len(s) : s[j] \in X
    BY <1>0
  <2>2. /\ c \in Seq(X) /\ Len(c) = IF i + 1 <= Len(s) THEN Len(s) - (i + 1) + 1 ELSE 0
        /\ \A j \in 1 .. Len(s) - (i + 1) + 1 : c[j] = s[i + 1 + j - 1]
    BY <1>0, <1>3, <2>1, SubSeqProperties
  <2>3. Len(c) = Len(s) - i
    <3>1. CASE i + 1 <= Len(s)
      <4>1. Len(c) = Len(s) - (i + 1) + 1
        BY <2>2, <3>1
      <4>2. Len(s) - (i + 1) + 1 = Len(s) - i
        BY <1>0
      <4> QED BY <4>1, <4>2
    <3>2. CASE ~ (i + 1 <= Len(s))
      <4>1. Len(c) = 0
        BY <2>2, <3>2
      <4>2. Len(s) - i = 0
        <5>1. \A n, k \in Nat : k <= n /\ ~ (k + 1 <= n) => n - k = 0
          OBVIOUS
        <5>2. i \in Nat /\ i <= Len(s)
          BY <1>0
        <5> QED BY <1>0, <3>2, <5>1, <5>2
      <4> QED BY <4>1, <4>2
    <3> QED BY <3>1, <3>2
  <2>4. ASSUME NEW j \in 1 .. Len(s) - i PROVE c[j] = s[i + j]
    <3>1. j \in 1 .. Len(s) - (i + 1) + 1 /\ i + 1 + j - 1 = i + j
      BY <1>0
    <3>2. c[j] = s[i + 1 + j - 1]
      BY <2>2, <3>1
    <3> QED BY <3>1, <3>2
  <2> QED BY <2>2, <2>3, <2>4
<1>b. b \in Seq(X) /\ Len(b) = 1 /\ b[1] = s[i]
  BY <1>0, <1>2
<1>s. s = a \o (b \o c)
  <2>1. SubSeq(s, i, Len(s)) = b \o c
    BY <1>0, <1>2, <1>3, SubSeqRecursiveFirst
  <2>2. i - 1 \in 1 - 1 .. Len(s) /\ Len(s) \in i - 1 .. Len(s) /\ (i - 1) + 1 = i
    BY <1>0
  <2>3. SubSeq(s, 1, i - 1) \o SubSeq(s, (i - 1) + 1, Len(s)) = SubSeq(s, 1, Len(s))
    BY <1>0, <2>2, ConcatAdjacentSubSeq
  <2> QED BY <1>1, <2>1, <2>2, <2>3, SubSeqFull
<1>4. Kept(a, S) = a /\ Kept(c, S) = c
  <2>1. \A j \in 1 .. Len(s) : j # i => s[j] \in S
    BY <1>0 DEF IsInjective, S
  <2>2. Range(a) \subseteq S
    <3>1. DOMAIN a = 1 .. i - 1 /\ \A j \in 1 .. i - 1 : j \in 1 .. Len(s) /\ j # i
      BY <1>0, <1>a, LenProperties
    <3> QED BY <1>a, <2>1, <3>1 DEF Range
  <2>3. Range(c) \subseteq S
    <3>1. /\ DOMAIN c = 1 .. Len(s) - i
          /\ \A j \in 1 .. Len(s) - i : i + j \in 1 .. Len(s) /\ i + j # i
      BY <1>0, <1>c, LenProperties
    <3> QED BY <1>c, <2>1, <3>1 DEF Range
  <2> QED BY <1>a, <1>c, <2>2, <2>3, KeptAll
<1>5. Kept(b, S) = <<>>
  <2>1. <<>> \in Seq(X) /\ s[i] \in X /\ s[i] \notin S
    BY <1>0, EmptySeq DEF S
  <2>2. Kept(Append(<<>>, s[i]), S) = Kept(<<>>, S)
    BY <2>1, KeptAppend
  <2>3. b = Append(<<>>, s[i])
    BY <1>2
  <2> QED BY <2>2, <2>3, KeptEmpty
<1>6. Kept(s, S) = Kept(a, S) \o (Kept(b, S) \o Kept(c, S))
  <2>1. b \o c \in Seq(X)
    BY <1>b, <1>c, ConcatProperties
  <2>2. Kept(a \o (b \o c), S) = Kept(a, S) \o Kept(b \o c, S)
    BY <1>a, <2>1, KeptConcat
  <2>3. Kept(b \o c, S) = Kept(b, S) \o Kept(c, S)
    BY <1>b, <1>c, KeptConcat
  <2> QED BY <1>s, <2>2, <2>3
<1>7. Kept(s, S) = a \o c
  BY <1>c, <1>4, <1>5, <1>6, ConcatEmptySeq
<1> QED BY <1>1, <1>3, <1>7 DEF RemoveAt, S

=============================================================================
