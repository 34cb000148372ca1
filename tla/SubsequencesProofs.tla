------------------------- MODULE SubsequencesProofs -------------------------
(***************************************************************************)
(* Induction over the naturals with sets for predicates, and what Picked   *)
(* keeps of a sequence: its order, its prefixes, and what is picked from   *)
(* it again.                                                               *)
(***************************************************************************)
EXTENDS Subsequences, SequencesExt, SequenceTheorems, FiniteSetTheorems, WellFoundedInduction, TLAPS

-----------------------------------------------------------------------------
(* Induction.                                                              *)

\* The naturals are well-founded under <, as a set of pairs.
LEMMA LessWellFounded == IsWellFoundedOn({p \in Nat \X Nat : p[1] < p[2]}, Nat)
BY NatLessThanWellFounded DEF OpToRel

\* A set that has 0, and with a number its successor, has every number.  Stated of
\* a set, it can be used where a theorem about a predicate cannot.
THEOREM Induction ==
  ASSUME NEW S, 0 \in S, \A n \in Nat : n \in S => n + 1 \in S
  PROVE  \A n \in Nat : n \in S
<1> DEFINE R == {p \in Nat \X Nat : p[1] < p[2]}
           T == Nat \ S
<1> SUFFICES ASSUME T # {} PROVE FALSE
  OBVIOUS
<1>1. T \subseteq Nat /\ IsWellFoundedOn(R, Nat)
  BY LessWellFounded
<1>2. PICK n \in T : \A m \in T : ~(<<m, n>> \in R)
  <2> HIDE DEF R, T
  <2> QED BY <1>1, WFMin
<1>3. n # 0
  OBVIOUS
<1>4. n - 1 \in Nat /\ <<n - 1, n>> \in R
  BY <1>3
<1>5. n - 1 \in S
  BY <1>2, <1>4
<1> QED BY <1>4, <1>5

\* The same between two numbers.
LEMMA InductionBetween ==
  ASSUME NEW k \in Nat, NEW m \in Nat, NEW S, k \in S,
         \A n \in k .. m - 1 : n \in S => n + 1 \in S
  PROVE  \A n \in k .. m : n \in S
<1> DEFINE T == {n \in Nat : k + n <= m => k + n \in S}
<1>1. 0 \in T
  OBVIOUS
<1>2. ASSUME NEW n \in Nat, n \in T PROVE n + 1 \in T
  <2> SUFFICES ASSUME k + (n + 1) <= m PROVE k + (n + 1) \in S
    OBVIOUS
  <2>1. k + n \in k .. m - 1 /\ k + n \in S
    BY <1>2
  <2>2. (k + n) + 1 \in S
    BY <2>1
  <2> QED BY <2>2
<1>3. \A n \in Nat : n \in T
  <2> HIDE DEF T
  <2> QED BY <1>1, <1>2, Induction
<1>4. ASSUME NEW n \in k .. m PROVE n \in S
  <2>1. n - k \in Nat /\ k + (n - k) = n
    OBVIOUS
  <2>2. n - k \in T
    BY <1>3, <2>1
  <2> QED BY <2>1, <2>2
<1> QED BY <1>4

\* A set of positions that is not empty has a last one.
LEMMA LastPosition ==
  ASSUME NEW n \in Nat, NEW I \in SUBSET (1 .. n), I # {}
  PROVE  Max(I) \in I /\ \A i \in I : i <= Max(I)
<1> DEFINE R == {p \in Nat \X Nat : p[1] < p[2]}
           B == {m \in Nat : \A i \in I : i <= m}
<1>1. n \in B /\ B \subseteq Nat /\ \A i \in I : i \in Nat \ {0}
  OBVIOUS
<1>2. PICK m \in B : \A k \in B : ~(<<k, m>> \in R)
  <2> HIDE DEF R, B
  <2>1. IsWellFoundedOn(R, Nat) /\ B # {}
    BY <1>1, LessWellFounded DEF R
  <2> QED BY <1>1, <2>1, WFMin
<1>3. m \in I
  <2> SUFFICES ASSUME m \notin I PROVE FALSE
    OBVIOUS
  <2>1. ASSUME NEW i \in I PROVE i <= m - 1
    <3>1. i \in Nat /\ m \in Nat /\ i <= m /\ i # m
      BY <1>1
    <3> QED BY <3>1
  <2>2. m - 1 \in Nat
    <3>1. PICK i \in I : i \in Nat \ {0}
      BY <1>1
    <3>2. i <= m - 1 /\ m \in Nat
      BY <1>1, <2>1
    <3> QED BY <3>1, <3>2
  <2>3. m - 1 \in B /\ <<m - 1, m>> \in R
    BY <2>1, <2>2
  <2> QED BY <1>2, <2>3
<1>4. \E x \in I : \A y \in I : x >= y
  BY <1>1, <1>3
<1>5. Max(I) \in I /\ \A y \in I : Max(I) >= y
  BY <1>4 DEF Max
<1> QED BY <1>1, <1>5

-----------------------------------------------------------------------------
(* Prefixes.                                                               *)

\* A prefix agrees with the sequence as far as it goes.
LEMMA PrefixAgrees ==
  ASSUME NEW S, NEW s \in Seq(S), NEW t \in Seq(S)
  PROVE  IsPrefix(s, t) <=> Len(s) <= Len(t) /\ \A i \in 1 .. Len(s) : s[i] = t[i]
<1> DEFINE n == Len(s)
<1>1. n \in Nat /\ Len(t) \in Nat
  OBVIOUS
<1>2. SubSeq(s, 1, n) = s
  OBVIOUS
<1>3. ASSUME n <= Len(t)
      PROVE  /\ SubSeq(t, 1, n) \in Seq(S) /\ Len(SubSeq(t, 1, n)) = n
             /\ \A i \in 1 .. n : SubSeq(t, 1, n)[i] = t[i]
  <2>1. \A i \in 1 .. n : t[i] \in S
    BY <1>1, <1>3
  <2> HIDE DEF n
  <2> QED BY <1>1, <2>1, SubSeqProperties
<1>4. ASSUME n <= Len(t), \A i \in 1 .. n : s[i] = t[i] PROVE SubSeq(t, 1, n) = s
  BY <1>1, <1>3, <1>4, SeqEqual
<1> QED BY <1>1, <1>2, <1>3, <1>4 DEF IsPrefix

\* The front of a sequence up to one of its positions.
LEMMA FrontOf ==
  ASSUME NEW S, NEW s \in Seq(S), NEW n \in 0 .. Len(s)
  PROVE  /\ SubSeq(s, 1, n) \in Seq(S) /\ Len(SubSeq(s, 1, n)) = n
         /\ \A i \in 1 .. n : SubSeq(s, 1, n)[i] = s[i]
<1>1. n \in Int /\ \A i \in 1 .. n : s[i] \in S
  OBVIOUS
<1> QED BY <1>1, SubSeqProperties

-----------------------------------------------------------------------------
(* Ranks.                                                                  *)

\* The finite sets of positions.
Positions == {I \in SUBSET (Nat \ {0}) : IsFiniteSet(I)}

\* The positions of a sequence are finitely many.
LEMMA PositionsFinite ==
  ASSUME NEW n \in Nat, NEW I \in SUBSET (1 .. n)
  PROVE  I \in Positions /\ Cardinality(I) \in 0 .. n
<1>1. IsFiniteSet(1 .. n) /\ Cardinality(1 .. n) = n
  BY FS_Interval
<1>2. I \in SUBSET (Nat \ {0})
  OBVIOUS
<1>3. IsFiniteSet(I) /\ Cardinality(I) <= n
  BY <1>1, FS_Subset
<1>4. Cardinality(I) \in Nat
  BY <1>3, FS_CardinalityType
<1> QED BY <1>2, <1>3, <1>4 DEF Positions

\* What a set of positions has in it, and which sets it has.
LEMMA PositionsType ==
  ASSUME NEW I \in Positions
  PROVE  /\ \A i \in I : i \in Nat \ {0}
         /\ IsFiniteSet(I) /\ Cardinality(I) \in Nat
         /\ \A J \in SUBSET I : J \in Positions /\ Cardinality(J) \in 0 .. Cardinality(I)
<1>1. I \in SUBSET (Nat \ {0}) /\ IsFiniteSet(I) /\ Cardinality(I) \in Nat
  BY FS_CardinalityType DEF Positions
<1>2. ASSUME NEW J \in SUBSET I PROVE J \in Positions /\ Cardinality(J) \in 0 .. Cardinality(I)
  <2>1. IsFiniteSet(J) /\ Cardinality(J) <= Cardinality(I)
    BY <1>1, FS_Subset
  <2>2. Cardinality(J) \in Nat
    BY <2>1, FS_CardinalityType
  <2>3. J \in SUBSET (Nat \ {0})
    BY <1>1
  <2> QED BY <1>1, <2>1, <2>2, <2>3 DEF Positions
<1> QED BY <1>1, <1>2

\* Ranks count from 1 in the set, from 0 in front of it and to the end behind it.
LEMMA RankType ==
  ASSUME NEW I \in Positions, NEW i \in Int
  PROVE  /\ Rank(I, i) \in 0 .. Cardinality(I)
         /\ i \in I => Rank(I, i) \in 1 .. Cardinality(I)
         /\ (\A j \in I : j <= i) => Rank(I, i) = Cardinality(I)
         /\ (\A j \in I : j > i) => Rank(I, i) = 0
<1> DEFINE A == {j \in I : j <= i}
<1>1. /\ IsFiniteSet(A) /\ Cardinality(A) \in 0 .. Cardinality(I)
      /\ Cardinality(I) \in Nat
  BY PositionsType
<1>2. i \in I => A # {}
  OBVIOUS
<1>3. (\A j \in I : j <= i) => A = I
  OBVIOUS
<1>4. (\A j \in I : j > i) => A = {}
  BY PositionsType
<1>5. Rank(I, i) = Cardinality(A)
  BY DEF Rank
<1> HIDE DEF A
<1> QED BY <1>1, <1>2, <1>3, <1>4, <1>5, FS_EmptySet

\* Ranks do not decrease, and grow at the positions of the set.
LEMMA RankOrder ==
  ASSUME NEW I \in Positions, NEW i \in Int, NEW j \in Int, i <= j
  PROVE  /\ Rank(I, i) <= Rank(I, j)
         /\ i < j /\ j \in I => Rank(I, i) < Rank(I, j)
<1> DEFINE A == {k \in I : k <= i}
           B == {k \in I : k <= j}
<1>1. A \in SUBSET B /\ B \in SUBSET I
  BY PositionsType
<1>2. /\ Cardinality(A) \in Nat /\ Cardinality(B) \in Nat
      /\ Cardinality(A) <= Cardinality(B)
      /\ Cardinality(A) = Cardinality(B) => A = B
  <2> HIDE DEF A, B
  <2>1. IsFiniteSet(B) /\ Cardinality(B) \in Nat /\ Cardinality(A) \in 0 .. Cardinality(B)
    BY <1>1, PositionsType
  <2> QED BY <1>1, <2>1, FS_Subset
<1>3. i < j /\ j \in I => A # B
  <2>1. i < j /\ j \in I => j \in B /\ j \notin A
    OBVIOUS
  <2> QED BY <2>1
<1>4. Rank(I, i) = Cardinality(A) /\ Rank(I, j) = Cardinality(B)
  BY DEF Rank
<1> HIDE DEF A, B
<1> QED BY <1>2, <1>3, <1>4

\* So positions of the set are ordered as their ranks are.
LEMMA RankInjective ==
  ASSUME NEW I \in Positions, NEW i \in I, NEW j \in I
  PROVE  /\ Rank(I, i) = Rank(I, j) <=> i = j
         /\ Rank(I, i) <= Rank(I, j) <=> i <= j
<1>1. i \in Int /\ j \in Int
  BY PositionsType
<1>2. Rank(I, i) \in Int /\ Rank(I, j) \in Int
  BY <1>1, RankType
<1>3. i < j => Rank(I, i) < Rank(I, j)
  BY <1>1, RankOrder
<1>4. j < i => Rank(I, j) < Rank(I, i)
  BY <1>1, RankOrder
<1> QED BY <1>1, <1>2, <1>3, <1>4

\* Every rank belongs to a position: there are as many ranks as positions.
LEMMA RankOnto ==
  ASSUME NEW I \in Positions, NEW k \in 1 .. Cardinality(I)
  PROVE  \E i \in I : Rank(I, i) = k
<1> DEFINE c == Cardinality(I)
           f == [i \in I |-> Rank(I, i)]
<1>1. c \in Nat
  BY PositionsType
<1>2. IsFiniteSet(1 .. c) /\ Cardinality(1 .. c) = c
  BY <1>1, FS_Interval
<1>3. f \in [I -> 1 .. c]
  BY PositionsType, RankType
<1>4. f \in Injection(I, 1 .. c)
  BY <1>3, RankInjective DEF Injection, IsInjective
<1>5. f \in Surjection(I, 1 .. c)
  BY <1>2, <1>4, FS_Injection
<1> QED BY <1>5 DEF Surjection

\* A rank is one more than the one before, or the same.
LEMMA RankStep ==
  ASSUME NEW I \in Positions, NEW n \in Nat
  PROVE  Rank(I, n + 1) = IF n + 1 \in I THEN Rank(I, n) + 1 ELSE Rank(I, n)
<1> DEFINE A == {j \in I : j <= n}
           B == {j \in I : j <= n + 1}
<1>1. IsFiniteSet(A) /\ n + 1 \notin A
  BY PositionsType
<1>2. B = IF n + 1 \in I THEN A \cup {n + 1} ELSE A
  BY PositionsType
<1>3. Rank(I, n) = Cardinality(A) /\ Rank(I, n + 1) = Cardinality(B)
  BY DEF Rank
<1> HIDE DEF A, B
<1> QED BY <1>1, <1>2, <1>3, FS_AddElement

-----------------------------------------------------------------------------
(* Picked.                                                                 *)

\* Picking goes through the sequence step by step.
LEMMA PickingSteps ==
  ASSUME NEW s, Len(s) \in Nat, NEW I
  PROVE  /\ Picking(s, I)[0] = <<>>
         /\ \A n \in 1 .. Len(s) :
              Picking(s, I)[n] = IF n \in I THEN Append(Picking(s, I)[n - 1], s[n])
                                            ELSE Picking(s, I)[n - 1]
<1> DEFINE Step(t, n) == IF n \in I THEN Append(t, s[n]) ELSE t
           T == {m \in Nat : \E f : f = [n \in 0 .. m |-> IF n = 0 THEN <<>>
                                                         ELSE Step(f[n - 1], n)]}
<1>1. Picking(s, I) = CHOOSE f : f = [n \in 0 .. Len(s) |-> IF n = 0 THEN <<>>
                                                           ELSE Step(f[n - 1], n)]
  BY DEF Picking
<1>2. 0 \in T
  <2> HIDE DEF Step
  <2> DEFINE g == [n \in 0 .. 0 |-> <<>>]
  <2>1. g = [n \in 0 .. 0 |-> IF n = 0 THEN <<>> ELSE Step(g[n - 1], n)]
    OBVIOUS
  <2> QED BY <2>1
<1>3. ASSUME NEW m \in Nat, m \in T PROVE m + 1 \in T
  <2> HIDE DEF Step
  <2>1. PICK f : f = [n \in 0 .. m |-> IF n = 0 THEN <<>> ELSE Step(f[n - 1], n)]
    BY <1>3
  <2> DEFINE g == [n \in 0 .. m + 1 |-> IF n = m + 1 THEN Step(f[m], m + 1) ELSE f[n]]
  <2>2. \A n \in 0 .. m : /\ g[n] = f[n]
                          /\ f[n] = IF n = 0 THEN <<>> ELSE Step(f[n - 1], n)
    BY <2>1
  <2>3. \A n \in 0 .. m + 1 : g[n] = IF n = 0 THEN <<>> ELSE Step(g[n - 1], n)
    BY <2>2
  <2>4. g = [n \in 0 .. m + 1 |-> IF n = 0 THEN <<>> ELSE Step(g[n - 1], n)]
    BY <2>3
  <2> HIDE DEF g
  <2> QED BY <2>4
<1>4. Len(s) \in T
  <2> HIDE DEF T
  <2> QED BY <1>2, <1>3, Induction
<1> HIDE DEF Step
<1>5. \E f : f = [n \in 0 .. Len(s) |-> IF n = 0 THEN <<>> ELSE Step(f[n - 1], n)]
  BY <1>4
<1>6. Picking(s, I) = [n \in 0 .. Len(s) |-> IF n = 0 THEN <<>>
                                            ELSE Step(Picking(s, I)[n - 1], n)]
  BY <1>1, <1>5
<1>7. /\ Picking(s, I)[0] = <<>>
      /\ \A n \in 1 .. Len(s) : Picking(s, I)[n] = Step(Picking(s, I)[n - 1], n)
  BY <1>6
<1> QED BY <1>7 DEF Step

\* Every picked element is at the rank of its position, and there is no other.
LEMMA PickedType ==
  ASSUME NEW S, NEW s \in Seq(S), NEW I \in SUBSET (1 .. Len(s))
  PROVE  /\ I \in Positions
         /\ Picked(s, I) \in Seq(S)
         /\ Len(Picked(s, I)) = Cardinality(I)
         /\ \A i \in I : Picked(s, I)[Rank(I, i)] = s[i]
<1> DEFINE at == Picking(s, I)
           OK(n) == /\ at[n] \in Seq(S) /\ Len(at[n]) = Rank(I, n)
                    /\ \A i \in I : i <= n => at[n][Rank(I, i)] = s[i]
           T == {n \in Nat : n <= Len(s) => OK(n)}
<1>1. I \in Positions /\ Len(s) \in Nat /\ \A i \in I : i \in Nat \ {0} /\ i <= Len(s)
  BY PositionsFinite, PositionsType
<1>2. /\ at[0] = <<>>
      /\ \A n \in Nat : n + 1 <= Len(s) =>
           at[n + 1] = IF n + 1 \in I THEN Append(at[n], s[n + 1]) ELSE at[n]
  <2> HIDE DEF at
  <2>1. /\ at[0] = <<>>
        /\ \A n \in 1 .. Len(s) : at[n] = IF n \in I THEN Append(at[n - 1], s[n]) ELSE at[n - 1]
    BY <1>1, PickingSteps DEF at
  <2> QED BY <1>1, <2>1
<1>3. 0 \in T
  <2>1. Rank(I, 0) = 0
    BY <1>1, RankType
  <2>2. at[0] \in Seq(S) /\ Len(at[0]) = 0
    <3> HIDE DEF at
    <3> QED BY <1>2
  <2>3. \A i \in I : ~(i <= 0)
    BY <1>1
  <2> HIDE DEF at
  <2> QED BY <2>1, <2>2, <2>3
<1>4. ASSUME NEW n \in Nat, n \in T PROVE n + 1 \in T
  <2> SUFFICES ASSUME n + 1 <= Len(s) PROVE OK(n + 1)
    OBVIOUS
  <2>1. OK(n) /\ n <= Len(s)
    BY <1>1, <1>4
  <2>2. Rank(I, n + 1) = IF n + 1 \in I THEN Rank(I, n) + 1 ELSE Rank(I, n)
    BY <1>1, RankStep
  <2>3. \A i \in I : i <= n => Rank(I, i) \in 1 .. Rank(I, n)
    BY <1>1, RankType, RankOrder
  <2>4. s[n + 1] \in S /\ Rank(I, n) \in Nat
    BY <1>1, <2>1
  <2>5. \A i \in I : i <= n + 1 => i <= n \/ i = n + 1
    BY <1>1
  <2> HIDE DEF at
  <2>6. CASE n + 1 \in I
    <3>1. at[n + 1] = Append(at[n], s[n + 1]) /\ Rank(I, n + 1) = Rank(I, n) + 1
      BY <1>2, <2>2, <2>6
    <3>2. /\ at[n + 1] \in Seq(S) /\ Len(at[n + 1]) = Rank(I, n + 1)
          /\ at[n + 1][Rank(I, n + 1)] = s[n + 1]
          /\ \A k \in 1 .. Rank(I, n) : at[n + 1][k] = at[n][k]
      BY <2>1, <2>4, <3>1
    <3> QED BY <2>1, <2>3, <2>5, <3>2
  <2>7. CASE n + 1 \notin I
    <3>1. at[n + 1] = at[n] /\ Rank(I, n + 1) = Rank(I, n)
      BY <1>2, <2>2, <2>7
    <3> QED BY <2>1, <2>5, <2>7, <3>1
  <2> QED BY <2>6, <2>7
<1>5. OK(Len(s))
  <2>1. \A n \in Nat : n \in T
    <3> HIDE DEF T
    <3> QED BY <1>3, <1>4, Induction
  <2> QED BY <1>1, <2>1
<1>6. Rank(I, Len(s)) = Cardinality(I) /\ Picked(s, I) = at[Len(s)]
  BY <1>1, RankType DEF Picked
<1> HIDE DEF at
<1> QED BY <1>1, <1>5, <1>6

\* Which determines it.
LEMMA PickedUnique ==
  ASSUME NEW S, NEW s \in Seq(S), NEW I \in SUBSET (1 .. Len(s)),
         NEW t \in Seq(S), Len(t) = Cardinality(I), \A i \in I : t[Rank(I, i)] = s[i]
  PROVE  t = Picked(s, I)
<1>1. /\ I \in Positions /\ Picked(s, I) \in Seq(S) /\ Len(Picked(s, I)) = Cardinality(I)
      /\ \A i \in I : Picked(s, I)[Rank(I, i)] = s[i]
  BY PickedType
<1>2. ASSUME NEW k \in 1 .. Len(t) PROVE t[k] = Picked(s, I)[k]
  <2>1. PICK i \in I : Rank(I, i) = k
    BY <1>1, RankOnto
  <2> QED BY <1>1, <2>1
<1> QED BY <1>1, <1>2, SeqEqual

\* Sequences that agree at the positions have the same picked from them.
LEMMA PickedSame ==
  ASSUME NEW S, NEW s \in Seq(S), NEW t \in Seq(S),
         NEW I \in SUBSET (1 .. Len(s)), I \in SUBSET (1 .. Len(t)),
         \A i \in I : s[i] = t[i]
  PROVE  Picked(s, I) = Picked(t, I)
<1>1. /\ Picked(s, I) \in Seq(S) /\ Len(Picked(s, I)) = Cardinality(I)
      /\ \A i \in I : Picked(s, I)[Rank(I, i)] = s[i]
  BY PickedType
<1> QED BY <1>1, PickedUnique

\* All positions pick everything.
LEMMA PickedAll ==
  ASSUME NEW S, NEW s \in Seq(S)
  PROVE  Picked(s, 1 .. Len(s)) = s
<1>1. Len(s) \in Nat
  OBVIOUS
<1>2. Cardinality(1 .. Len(s)) = Len(s)
  BY <1>1, FS_Interval
<1>3. ASSUME NEW i \in 1 .. Len(s) PROVE Rank(1 .. Len(s), i) = i
  <2>1. {j \in 1 .. Len(s) : j <= i} = 1 .. i
    BY <1>1
  <2>2. Cardinality(1 .. i) = i
    BY FS_Interval
  <2> QED BY <2>1, <2>2 DEF Rank
<1>4. \A i \in 1 .. Len(s) : s[Rank(1 .. Len(s), i)] = s[i]
  BY <1>3
<1> QED BY <1>2, <1>4, PickedUnique

\* What is picked from the front of a sequence is the front of what is picked.
LEMMA PickedFront ==
  ASSUME NEW S, NEW s \in Seq(S), NEW I \in SUBSET (1 .. Len(s)), NEW n \in 0 .. Len(s)
  PROVE  /\ Rank(I, n) \in 0 .. Cardinality(I)
         /\ Picked(SubSeq(s, 1, n), {i \in I : i <= n}) = SubSeq(Picked(s, I), 1, Rank(I, n))
<1> DEFINE H == {i \in I : i <= n}
           p == Picked(s, I)
           r == Rank(I, n)
           t == SubSeq(p, 1, r)
           f == SubSeq(s, 1, n)
<1>1. /\ I \in Positions /\ p \in Seq(S) /\ Len(p) = Cardinality(I)
      /\ \A i \in I : p[Rank(I, i)] = s[i]
  BY PickedType
<1>2. r \in 0 .. Cardinality(I) /\ Cardinality(I) \in Nat
  BY <1>1, RankType, PositionsType
<1>3. Cardinality(H) = r
  BY DEF Rank
<1>4. t \in Seq(S) /\ Len(t) = r /\ \A k \in 1 .. r : t[k] = p[k]
  <2> HIDE DEF p, r
  <2> QED BY <1>1, <1>2
<1>5. f \in Seq(S) /\ Len(f) = n /\ \A i \in 1 .. n : f[i] = s[i]
  OBVIOUS
<1>6. /\ H \in SUBSET (1 .. n)
      /\ \A i \in I : i \in Int /\ 1 <= i
  <2>1. \A i \in I : i \in Int /\ 1 <= i
    OBVIOUS
  <2>2. \A i \in H : i \in 1 .. n
    BY <2>1
  <2> QED BY <2>1, <2>2
<1>7. ASSUME NEW i \in H PROVE t[Rank(H, i)] = f[i]
  <2>1. i \in I /\ i \in Int /\ i <= n /\ i \in 1 .. n
    OBVIOUS
  <2>2. Rank(H, i) = Rank(I, i)
    <3>1. \A j \in I : j <= i => j <= n
      <4> HIDE DEF H, t, f, p, r
      <4> QED BY <1>6, <2>1
    <3>2. {j \in H : j <= i} = {j \in I : j <= i}
      BY <3>1
    <3> QED BY <3>2 DEF Rank
  <2>3. Rank(I, i) \in 1 .. r
    <3>1. Rank(I, i) \in 1 .. Cardinality(I) /\ Rank(I, i) <= Rank(I, n)
      BY <1>1, <2>1, RankType, RankOrder
    <3> QED BY <1>2, <3>1
  <2> HIDE DEF H, t, f, p, r
  <2> QED BY <1>1, <1>4, <1>5, <2>1, <2>2, <2>3
<1>8. t = Picked(f, H)
  <2> HIDE DEF H, t, f, r, p
  <2>1. H \in SUBSET (1 .. Len(f)) /\ Len(t) = Cardinality(H)
    BY <1>3, <1>4, <1>5, <1>6
  <2> QED BY <1>4, <1>5, <1>7, <2>1, PickedUnique
<1> QED BY <1>2, <1>8

\* The ranks of some positions are as many as those.
LEMMA RanksOfSome ==
  ASSUME NEW K \in Positions, NEW N \in SUBSET K
  PROVE  LET J == {Rank(K, i) : i \in N} IN
         /\ J \in SUBSET (1 .. Cardinality(K))
         /\ Cardinality(J) = Cardinality(N)
<1> DEFINE J == {Rank(K, i) : i \in N}
           f == [i \in N |-> Rank(K, i)]
<1>1. N \in Positions /\ IsFiniteSet(N)
  BY PositionsType
<1>2. \A i \in N : Rank(K, i) \in 1 .. Cardinality(K)
  BY PositionsType, RankType
<1>3. f \in [N -> J] /\ \A j \in J : \E i \in N : f[i] = j
  OBVIOUS
<1>4. \A i, j \in N : f[i] = f[j] => i = j
  BY RankInjective
<1>5. f \in Surjection(N, J) /\ f \in Injection(N, J)
  BY <1>3, <1>4 DEF Surjection, Injection, IsInjective
<1>6. Cardinality(J) = Cardinality(N)
  <2> HIDE DEF J, f
  <2> QED BY <1>1, <1>5, FS_Surjection
<1> QED BY <1>2, <1>6

\* To pick again from what was picked is to pick once.
LEMMA PickedTwice ==
  ASSUME NEW S, NEW s \in Seq(S), NEW K \in SUBSET (1 .. Len(s)), NEW N \in SUBSET K
  PROVE  LET J == {Rank(K, i) : i \in N} IN
         /\ J \in SUBSET (1 .. Len(Picked(s, K)))
         /\ Picked(Picked(s, K), J) = Picked(s, N)
<1> DEFINE J == {Rank(K, i) : i \in N}
           p == Picked(s, K)
           q == Picked(p, J)
<1>1. /\ K \in Positions /\ p \in Seq(S) /\ Len(p) = Cardinality(K)
      /\ \A i \in K : p[Rank(K, i)] = s[i]
  BY PickedType
<1>2. J \in SUBSET (1 .. Len(p)) /\ Cardinality(J) = Cardinality(N)
  BY <1>1, RanksOfSome
<1>3. /\ q \in Seq(S) /\ Len(q) = Cardinality(N)
      /\ \A j \in J : q[Rank(J, j)] = p[j]
  <2> HIDE DEF J, p
  <2> QED BY <1>1, <1>2, PickedType
<1>4. ASSUME NEW i \in N PROVE q[Rank(N, i)] = s[i]
  <2>1. i \in K /\ i \in Int
    BY <1>1, PositionsType
  <2>2. Rank(J, Rank(K, i)) = Rank(N, i)
    <3> DEFINE M == {m \in N : m <= i}
    <3>1. {j \in J : j <= Rank(K, i)} = {Rank(K, m) : m \in M}
      <4>1. \A m \in N : Rank(K, m) <= Rank(K, i) <=> m <= i
        BY <1>1, <2>1, RankInjective
      <4> QED BY <4>1
    <3>2. Cardinality({Rank(K, m) : m \in M}) = Cardinality(M)
      <4>1. M \in SUBSET K
        OBVIOUS
      <4> HIDE DEF M
      <4> QED BY <1>1, <4>1, RanksOfSome
    <3> QED BY <3>1, <3>2 DEF Rank
  <2>3. Rank(K, i) \in J
    OBVIOUS
  <2> HIDE DEF J, p, q
  <2> QED BY <1>1, <1>3, <2>1, <2>2, <2>3
<1>5. q = Picked(s, N)
  <2>1. N \in SUBSET (1 .. Len(s))
    OBVIOUS
  <2> HIDE DEF q
  <2> QED BY <1>3, <1>4, <2>1, PickedUnique
<1> QED BY <1>2, <1>5

\* What is picked is there.
LEMMA PickedFrom ==
  ASSUME NEW S, NEW s \in Seq(S), NEW I \in SUBSET (1 .. Len(s)), NEW k \in 1 .. Len(Picked(s, I))
  PROVE  \E i \in I : Picked(s, I)[k] = s[i]
<1>1. /\ I \in Positions /\ Len(Picked(s, I)) = Cardinality(I)
      /\ \A i \in I : Picked(s, I)[Rank(I, i)] = s[i]
  BY PickedType
<1>2. PICK i \in I : Rank(I, i) = k
  BY <1>1, RankOnto
<1> QED BY <1>1, <1>2

=============================================================================
