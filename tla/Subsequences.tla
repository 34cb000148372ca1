---------------------------- MODULE Subsequences ----------------------------
(***************************************************************************)
(* What is left of a sequence when some of its positions are removed, as   *)
(* re.sub and str.replace do with what they replace by nothing.            *)
(***************************************************************************)
EXTENDS Integers, Sequences, FiniteSets

\* How many positions of I are not behind i.
Rank(I, i) == Cardinality({j \in I : j <= i})

\* The elements of s at the positions I, in their order, after each position of s.
Picking(s, I) ==
  LET at[n \in 0 .. Len(s)] ==
        IF n = 0 THEN <<>> ELSE IF n \in I THEN Append(at[n - 1], s[n]) ELSE at[n - 1]
  IN  at

Picked(s, I) == Picking(s, I)[Len(s)]

=============================================================================
