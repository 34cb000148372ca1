-------------------------- MODULE CaseUploadProofs --------------------------
(***************************************************************************)
(* What is read of a case, for any number of requests, any cases and texts *)
(* of any length.                                                          *)
(***************************************************************************)
EXTENDS CaseUpload, SubsequencesProofs

-----------------------------------------------------------------------------
(* Reading.                                                                *)

\* What can have been read: nothing is behind it while there is nothing.
Scans == {st \in [read : Seq(Chars), gap : BOOLEAN] : st.gap => st.read # <<>>}

Visible(c) == c \notin Blank \cup {"control", "null"}

\* How long it is, with a space that may follow.
Held(st) == IF st.gap THEN Len(st.read) + 1 ELSE Len(st.read)

\* A character that is not visible adds nothing to what has been read, and a visible one
\* is its end.
LEMMA ScanType ==
  ASSUME NEW st \in Scans, NEW c \in Chars
  PROVE  /\ Scan(st, c) \in Scans
         /\ ~Visible(c) => Scan(st, c).read = st.read
         /\ Visible(c) => ~Scan(st, c).gap /\ Scan(st, c).read # <<>>
         /\ Len(st.read) <= Len(Scan(st, c).read)
         /\ \A i \in 1 .. Len(st.read) : Scan(st, c).read[i] = st.read[i]
         /\ Len(Scan(st, c).read) <= Held(Scan(st, c)) /\ Held(Scan(st, c)) <= Held(st) + 1
         /\ Held(st) \in Nat /\ Held(Scan(st, c)) \in Nat
<1> DEFINE u == Scan(st, c)
<1>1. /\ st = [read |-> st.read, gap |-> st.gap] /\ st.read \in Seq(Chars) /\ st.gap \in BOOLEAN
      /\ st.gap => st.read # <<>>
      /\ Len(st.read) \in Nat
  BY DEF Scans
<1>2. CASE c = "null"
  <2>1. u = st
    BY <1>2 DEF Scan
  <2>2. ~Visible(c)
    BY <1>2 DEF Visible
  <2>3. Held(st) \in Nat /\ Len(st.read) <= Held(st)
    BY <1>1 DEF Held
  <2> QED BY <1>1, <2>1, <2>2, <2>3
<1>3. CASE c # "null" /\ c \in Blank \cup {"control"}
  <2>1. u = [st EXCEPT !.gap = st.read # <<>>]
    BY <1>3 DEF Scan
  <2>2. u = [read |-> st.read, gap |-> st.read # <<>>]
    BY <1>1, <2>1
  <2>3. ~Visible(c)
    BY <1>3 DEF Visible
  <2>4. u \in Scans
    BY <1>1, <2>2 DEF Scans
  <2> HIDE DEF u
  <2>5. u.read = st.read /\ u.gap \in BOOLEAN
    BY <2>2
  <2>6. Held(st) \in {Len(st.read), Len(st.read) + 1} /\ Held(u) \in {Len(st.read), Len(st.read) + 1}
    BY <1>1, <2>5 DEF Held
  <2> QED BY <1>1, <2>3, <2>4, <2>5, <2>6 DEF u
<1>4. CASE Visible(c)
  <2> DEFINE f == IF st.gap THEN Append(st.read, "space") ELSE st.read
  <2>1. u = [read |-> Append(f, c), gap |-> FALSE]
    BY <1>4 DEF Scan, Visible
  <2>2. /\ f \in Seq(Chars) /\ Len(f) = Held(st)
        /\ \A i \in 1 .. Len(st.read) : f[i] = st.read[i]
    <3>1. CASE st.gap
      <4>1. f = Append(st.read, "space") /\ Held(st) = Len(st.read) + 1
        BY <3>1 DEF Held
      <4>2. "space" \in Chars
        BY CharsAssumption DEF Blank
      <4> HIDE DEF f
      <4> QED BY <1>1, <4>1, <4>2, AppendProperties
    <3>2. CASE ~st.gap
      <4>1. f = st.read /\ Held(st) = Len(st.read)
        BY <3>2 DEF Held
      <4> HIDE DEF f
      <4> QED BY <1>1, <4>1
    <3> QED BY <3>1, <3>2
  <2> HIDE DEF f
  <2>3. /\ Append(f, c) \in Seq(Chars) /\ Append(f, c) # <<>> /\ Len(Append(f, c)) = Len(f) + 1
        /\ \A i \in 1 .. Len(f) : Append(f, c)[i] = f[i]
    BY <2>2, AppendProperties
  <2>4. u \in Scans
    BY <2>1, <2>3 DEF Scans
  <2>5. ASSUME NEW i \in 1 .. Len(st.read) PROVE Append(f, c)[i] = st.read[i]
    <3>1. Len(st.read) <= Len(f) /\ Len(f) \in Nat
      BY <1>1, <2>2 DEF Held
    <3>2. i \in 1 .. Len(f)
      BY <1>1, <3>1
    <3> QED BY <2>2, <2>3, <3>2
  <2> HIDE DEF u
  <2>6. u.read = Append(f, c) /\ ~u.gap
    BY <2>1
  <2>7. Held(u) = Held(st) + 1 /\ Held(st) \in Nat /\ Len(u.read) = Held(u) /\ Len(st.read) <= Held(st)
    BY <1>1, <2>2, <2>3, <2>6 DEF Held
  <2> QED BY <1>1, <1>4, <2>2, <2>3, <2>4, <2>5, <2>6, <2>7 DEF u
<1> QED BY <1>2, <1>3, <1>4 DEF Visible

\* Reading goes through a text step by step.
LEMMA ScanningSteps ==
  ASSUME NEW s, Len(s) \in Nat
  PROVE  /\ Scanning(s)[0] = NothingRead
         /\ \A n \in 1 .. Len(s) : Scanning(s)[n] = Scan(Scanning(s)[n - 1], s[n])
<1> DEFINE Step(st, n) == Scan(st, s[n])
           T == {m \in Nat : \E f : f = [n \in 0 .. m |-> IF n = 0 THEN NothingRead
                                                         ELSE Step(f[n - 1], n)]}
<1>1. Scanning(s) = CHOOSE f : f = [n \in 0 .. Len(s) |-> IF n = 0 THEN NothingRead
                                                         ELSE Step(f[n - 1], n)]
  BY DEF Scanning
<1>2. 0 \in T
  <2> HIDE DEF Step
  <2> DEFINE g == [n \in 0 .. 0 |-> NothingRead]
  <2>1. g = [n \in 0 .. 0 |-> IF n = 0 THEN NothingRead ELSE Step(g[n - 1], n)]
    OBVIOUS
  <2> HIDE DEF g
  <2> QED BY <2>1
<1>3. ASSUME NEW m \in Nat, m \in T PROVE m + 1 \in T
  <2> HIDE DEF Step
  <2>1. PICK f : f = [n \in 0 .. m |-> IF n = 0 THEN NothingRead ELSE Step(f[n - 1], n)]
    BY <1>3
  <2> DEFINE g == [n \in 0 .. m + 1 |-> IF n = m + 1 THEN Step(f[m], m + 1) ELSE f[n]]
  <2>2. \A n \in 0 .. m : /\ g[n] = f[n]
                          /\ f[n] = IF n = 0 THEN NothingRead ELSE Step(f[n - 1], n)
    BY <2>1
  <2>3. \A n \in 0 .. m + 1 : g[n] = IF n = 0 THEN NothingRead ELSE Step(g[n - 1], n)
    BY <2>2
  <2>4. g = [n \in 0 .. m + 1 |-> IF n = 0 THEN NothingRead ELSE Step(g[n - 1], n)]
    BY <2>3
  <2> HIDE DEF g
  <2> QED BY <2>4
<1>4. Len(s) \in T
  <2> HIDE DEF T
  <2> QED BY <1>2, <1>3, Induction
<1> HIDE DEF Step
<1>5. \E f : f = [n \in 0 .. Len(s) |-> IF n = 0 THEN NothingRead ELSE Step(f[n - 1], n)]
  BY <1>4
<1>6. Scanning(s) = [n \in 0 .. Len(s) |-> IF n = 0 THEN NothingRead
                                          ELSE Step(Scanning(s)[n - 1], n)]
  BY <1>1, <1>5
<1>7. /\ Scanning(s)[0] = NothingRead
      /\ \A n \in 1 .. Len(s) : Scanning(s)[n] = Step(Scanning(s)[n - 1], n)
  BY <1>6
<1> QED BY <1>7 DEF Step

\* No more is read than there is, and what has been read stays.
LEMMA ScanningType ==
  ASSUME NEW s \in Seq(Chars)
  PROVE  \A n \in 0 .. Len(s) :
           /\ Scanning(s)[n] \in Scans
           /\ Held(Scanning(s)[n]) <= n
<1> DEFINE T == {n \in Nat : /\ Scanning(s)[n] \in Scans
                             /\ Held(Scanning(s)[n]) <= n}
<1>1. Len(s) \in Nat /\ \A n \in 1 .. Len(s) : s[n] \in Chars
  OBVIOUS
<1>2. 0 \in T
  <2> DEFINE none == <<>>
  <2>1. Scanning(s)[0] = [read |-> none, gap |-> FALSE]
    BY <1>1, ScanningSteps DEF NothingRead
  <2>2. none \in Seq(Chars) /\ Len(none) = 0
    BY EmptySeq
  <2> HIDE DEF none
  <2> DEFINE st == [read |-> none, gap |-> FALSE]
  <2>3. st \in Scans
    BY <2>2 DEF Scans
  <2>4. Held(st) = 0
    BY <2>2 DEF Held
  <2> HIDE DEF st
  <2> QED BY <2>1, <2>3, <2>4 DEF st
<1>3. ASSUME NEW n \in 0 .. Len(s) - 1, n \in T PROVE n + 1 \in T
  <2> DEFINE st == Scanning(s)[n]
             u == Scanning(s)[n + 1]
  <2>1. n + 1 \in 1 .. Len(s) /\ (n + 1) - 1 = n /\ s[n + 1] \in Chars /\ n \in Nat
    BY <1>1
  <2>2. u = Scan(st, s[n + 1]) /\ st \in Scans
    BY <1>1, <1>3, <2>1, ScanningSteps
  <2>3. Held(st) <= n
    BY <1>3
  <2> HIDE DEF st, u
  <2>4. u \in Scans /\ Held(u) <= Held(st) + 1 /\ Held(u) \in Nat /\ Held(st) \in Nat
    BY <2>1, <2>2, ScanType
  <2> QED BY <2>1, <2>3, <2>4 DEF u
<1>4. \A n \in 0 .. Len(s) : n \in T
  <2> HIDE DEF T
  <2> QED BY <1>1, <1>2, <1>3, InductionBetween
<1> QED BY <1>4

\* Where texts agree, the same is read.
LEMMA ScanningAgrees ==
  ASSUME NEW s \in Seq(Chars), NEW t \in Seq(Chars), NEW m \in Nat,
         m <= Len(s), m <= Len(t), \A i \in 1 .. m : s[i] = t[i]
  PROVE  \A n \in 0 .. m : Scanning(s)[n] = Scanning(t)[n]
<1> DEFINE T == {n \in Nat : Scanning(s)[n] = Scanning(t)[n]}
<1>1. Len(s) \in Nat /\ Len(t) \in Nat
  OBVIOUS
<1>2. 0 \in T
  BY <1>1, ScanningSteps
<1>3. ASSUME NEW n \in 0 .. m - 1, n \in T PROVE n + 1 \in T
  <2>1. n + 1 \in 1 .. Len(s) /\ n + 1 \in 1 .. Len(t) /\ (n + 1) - 1 = n /\ n + 1 \in 1 .. m
    BY <1>1
  <2>2. /\ Scanning(s)[n + 1] = Scan(Scanning(s)[n], s[n + 1])
        /\ Scanning(t)[n + 1] = Scan(Scanning(t)[n], t[n + 1])
    BY <1>1, <2>1, ScanningSteps
  <2> QED BY <1>3, <2>1, <2>2
<1>4. \A n \in 0 .. m : n \in T
  <2> HIDE DEF T
  <2> QED BY <1>2, <1>3, InductionBetween
<1> QED BY <1>4

\* What has been read is the beginning of all that is, and all of it if nothing visible
\* follows.
LEMMA ReadingGrows ==
  ASSUME NEW s \in Seq(Chars), NEW k \in 0 .. Len(s)
  PROVE  /\ IsPrefix(Scanning(s)[k].read, Normal(s))
         /\ (\A i \in k + 1 .. Len(s) : ~Visible(s[i])) => Normal(s) = Scanning(s)[k].read
<1> DEFINE r == Scanning(s)[k].read
           OK(w) == /\ Len(r) <= Len(w) /\ \A i \in 1 .. Len(r) : w[i] = r[i]
                    /\ (\A i \in k + 1 .. Len(s) : ~Visible(s[i])) => w = r
           T == {n \in Nat : OK(Scanning(s)[n].read)}
<1>1. Len(s) \in Nat /\ k \in Nat /\ \A n \in 1 .. Len(s) : s[n] \in Chars
  OBVIOUS
<1>2. r \in Seq(Chars) /\ Len(r) \in Nat
  BY ScanningType DEF Scans
<1>3. k \in T
  BY <1>1, <1>2
<1>4. ASSUME NEW n \in k .. Len(s) - 1, n \in T PROVE n + 1 \in T
  <2> DEFINE st == Scanning(s)[n]
             u == Scanning(s)[n + 1]
  <2>1. /\ n + 1 \in 1 .. Len(s) /\ n + 1 \in k + 1 .. Len(s) /\ n \in 0 .. Len(s)
        /\ (n + 1) - 1 = n /\ s[n + 1] \in Chars /\ n + 1 \in Nat
    BY <1>1
  <2>2. u = Scan(st, s[n + 1]) /\ st \in Scans
    BY <1>1, <2>1, ScanningSteps, ScanningType
  <2>3. OK(st.read)
    BY <1>4
  <2> HIDE DEF st, u, r
  <2>4. /\ u \in Scans
        /\ ~Visible(s[n + 1]) => u.read = st.read
        /\ Len(st.read) <= Len(u.read)
        /\ \A i \in 1 .. Len(st.read) : u.read[i] = st.read[i]
    BY <2>1, <2>2, ScanType
  <2>5. Len(u.read) \in Nat /\ Len(st.read) \in Nat
    BY <2>2, <2>4 DEF Scans
  <2>6. Len(r) <= Len(u.read) /\ \A i \in 1 .. Len(r) : u.read[i] = r[i]
    BY <1>2, <2>3, <2>4, <2>5
  <2>7. (\A i \in k + 1 .. Len(s) : ~Visible(s[i])) => u.read = r
    BY <2>1, <2>3, <2>4
  <2> QED BY <2>1, <2>6, <2>7 DEF u
<1> HIDE DEF T
<1>5. Len(s) \in T
  <2>1. \A n \in k .. Len(s) : n \in T
    BY <1>1, <1>3, <1>4, InductionBetween
  <2> QED BY <1>1, <2>1
<1>6. OK(Normal(s))
  BY <1>5 DEF Normal, T
<1>7. Normal(s) \in Seq(Chars)
  <2>1. Len(s) \in 0 .. Len(s)
    BY <1>1
  <2> QED BY <2>1, ScanningType DEF Normal, Scans
<1> HIDE DEF r
<1> QED BY <1>2, <1>6, <1>7, PrefixAgrees DEF r

\* No more is read than there is.
LEMMA NormalLength ==
  ASSUME NEW s \in Seq(Chars)
  PROVE  Normal(s) \in Seq(Chars) /\ Len(Normal(s)) <= Len(s)
<1> DEFINE st == Scanning(s)[Len(s)]
<1>1. st \in Scans /\ Held(st) <= Len(s)
  <2>1. Len(s) \in 0 .. Len(s)
    OBVIOUS
  <2> QED BY <2>1, ScanningType
<1> HIDE DEF st
<1>2. st.read \in Seq(Chars) /\ Len(st.read) <= Held(st) /\ Held(st) \in Nat /\ Len(st.read) \in Nat
  BY <1>1 DEF Scans, Held
<1> QED BY <1>1, <1>2 DEF Normal, st

\* Of the beginning of a text, the beginning is read.
LEMMA NormalOfPrefix ==
  ASSUME NEW s \in Seq(Chars), NEW t \in Seq(Chars), IsPrefix(s, t)
  PROVE  IsPrefix(Normal(s), Normal(t))
<1>1. Len(s) \in Nat /\ Len(s) \in 0 .. Len(t) /\ \A i \in 1 .. Len(s) : s[i] = t[i]
  BY PrefixAgrees
<1>2. Scanning(s)[Len(s)] = Scanning(t)[Len(s)]
  <2>1. Len(s) \in 0 .. Len(s) /\ Len(s) <= Len(t)
    BY <1>1
  <2> QED BY <1>1, <2>1, ScanningAgrees
<1> QED BY <1>1, <1>2, ReadingGrows DEF Normal

-----------------------------------------------------------------------------
(* _clean_text.                                                            *)

\* Removing what changes nothing does not change what is read.
LEMMA PickedScanning ==
  ASSUME NEW s \in Seq(Chars), NEW K \in SUBSET (1 .. Len(s)), NEW m \in 0 .. Len(s),
         \A i \in 1 .. m : i \notin K => Scanning(s)[i] = Scanning(s)[i - 1]
  PROVE  \A n \in 0 .. m : Scanning(Picked(s, K))[Rank(K, n)] = Scanning(s)[n]
<1> DEFINE p == Picked(s, K)
           T == {n \in Nat : Scanning(p)[Rank(K, n)] = Scanning(s)[n]}
<1>1. /\ K \in Positions /\ p \in Seq(Chars) /\ Len(p) = Cardinality(K)
      /\ \A i \in K : p[Rank(K, i)] = s[i]
  BY PickedType
<1>2. Len(s) \in Nat /\ Len(p) \in Nat /\ m \in Nat
  BY <1>1
<1> HIDE DEF p
<1>3. 0 \in T
  <2>1. Rank(K, 0) = 0
    BY <1>1, RankType, PositionsType
  <2> QED BY <1>2, <2>1, ScanningSteps
<1>4. ASSUME NEW n \in 0 .. m - 1, n \in T PROVE n + 1 \in T
  <2>1. /\ n \in Nat /\ n + 1 \in 1 .. m /\ n + 1 \in 1 .. Len(s) /\ (n + 1) - 1 = n
        /\ Scanning(p)[Rank(K, n)] = Scanning(s)[n]
    BY <1>2, <1>4
  <2>2. Rank(K, n + 1) = IF n + 1 \in K THEN Rank(K, n) + 1 ELSE Rank(K, n)
    BY <1>1, <2>1, RankStep
  <2>3. CASE n + 1 \in K
    <3> DEFINE r == Rank(K, n)
    <3>1. r \in Nat /\ r + 1 = Rank(K, n + 1) /\ r + 1 \in 1 .. Len(p) /\ (r + 1) - 1 = r
      BY <1>1, <2>1, <2>2, <2>3, RankType
    <3>2. p[r + 1] = s[n + 1]
      BY <1>1, <2>3, <3>1
    <3> HIDE DEF r
    <3>3. Scanning(p)[r + 1] = Scan(Scanning(p)[r], p[r + 1])
      BY <1>2, <3>1, ScanningSteps
    <3>4. Scanning(s)[n + 1] = Scan(Scanning(s)[n], s[n + 1])
      BY <1>2, <2>1, ScanningSteps
    <3>5. Scanning(p)[r] = Scanning(s)[n]
      BY <2>1 DEF r
    <3> QED BY <2>1, <3>1, <3>2, <3>3, <3>4, <3>5
  <2>4. CASE n + 1 \notin K
    <3>1. Scanning(s)[n + 1] = Scanning(s)[n]
      BY <2>1, <2>4
    <3> QED BY <2>1, <2>2, <2>4, <3>1
  <2> QED BY <2>3, <2>4
<1>5. \A n \in 0 .. m : n \in T
  <2> HIDE DEF T
  <2> QED BY <1>2, <1>3, <1>4, InductionBetween
<1> QED BY <1>5 DEF p

\* So as much is read of what is left, up to the last position that changes something
\* or stays, and nothing visible follows.
LEMMA NothingLost ==
  ASSUME NEW s \in Seq(Chars), NEW K \in SUBSET (1 .. Len(s)), NEW m \in 0 .. Len(s),
         \A i \in 1 .. m : i \notin K => Scanning(s)[i] = Scanning(s)[i - 1],
         \A i \in K : i <= m,
         \A i \in m + 1 .. Len(s) : ~Visible(s[i])
  PROVE  Picked(s, K) \in Seq(Chars) /\ Normal(Picked(s, K)) = Normal(s)
<1> DEFINE p == Picked(s, K)
<1>1. K \in Positions /\ p \in Seq(Chars) /\ Len(p) = Cardinality(K)
  BY PickedType
<1>2. Rank(K, m) = Len(p)
  <2>1. m \in Int
    OBVIOUS
  <2> QED BY <1>1, <2>1, RankType
<1>3. Scanning(p)[Rank(K, m)] = Scanning(s)[m]
  <2>1. m \in 0 .. m
    OBVIOUS
  <2> QED BY <2>1, PickedScanning
<1>4. Normal(s) = Scanning(s)[m].read
  BY ReadingGrows
<1> QED BY <1>1, <1>2, <1>3, <1>4 DEF Normal

\* Nulls are not read.
LEMMA NullsUnread ==
  ASSUME NEW s \in Seq(Chars)
  PROVE  LET t == WithoutNulls(s) IN
         t \in Seq(Chars) /\ Storable(t) /\ Normal(t) = Normal(s)
<1> DEFINE K == {i \in 1 .. Len(s) : s[i] # "null"}
           t == WithoutNulls(s)
<1>1. /\ K \in SUBSET (1 .. Len(s)) /\ t = Picked(s, K) /\ Len(s) \in Nat /\ Len(s) \in 0 .. Len(s)
      /\ \A i \in K : i <= Len(s)
      /\ \A i \in Len(s) + 1 .. Len(s) : FALSE
  BY DEF WithoutNulls
<1>2. ASSUME NEW i \in 1 .. Len(s), i \notin K PROVE Scanning(s)[i] = Scanning(s)[i - 1]
  <2>1. Scanning(s)[i] = Scan(Scanning(s)[i - 1], s[i]) /\ s[i] = "null"
    BY <1>1, <1>2, ScanningSteps
  <2> QED BY <2>1 DEF Scan
<1>3. \A i \in K : s[i] # "null"
  OBVIOUS
<1> HIDE DEF K, t
<1>4. t \in Seq(Chars) /\ Normal(t) = Normal(s)
  BY <1>1, <1>2, NothingLost
<1>5. Storable(t)
  BY <1>1, <1>3, PickedFrom DEF Storable
<1> QED BY <1>4, <1>5 DEF t

\* Control characters are read as spaces are.
LEMMA SpacedUnread ==
  ASSUME NEW s \in Seq(Chars), Storable(s)
  PROVE  LET t == Spaced(s) IN
         t \in Seq(Chars) /\ Storable(t) /\ Normal(t) = Normal(s)
<1> DEFINE t == Spaced(s)
           T == {n \in Nat : Scanning(t)[n] = Scanning(s)[n]}
<1>1. Len(s) \in Nat /\ \A i \in 1 .. Len(s) : s[i] \in Chars /\ s[i] # "null"
  BY DEF Storable
<1>2. "space" \in Chars /\ "space" # "null"
  BY CharsAssumption DEF Blank
<1>3. t = [i \in 1 .. Len(s) |-> IF s[i] = "control" THEN "space" ELSE s[i]]
  BY DEF Spaced
<1>4. /\ t \in Seq(Chars) /\ Len(t) = Len(s)
      /\ \A i \in 1 .. Len(s) : t[i] = IF s[i] = "control" THEN "space" ELSE s[i]
  <2> HIDE DEF t
  <2> QED BY <1>1, <1>2, <1>3
<1> HIDE DEF t
<1>5. Storable(t)
  BY <1>1, <1>2, <1>4 DEF Storable
<1>6. 0 \in T
  BY <1>1, <1>4, ScanningSteps
<1>7. ASSUME NEW n \in 0 .. Len(s) - 1, n \in T PROVE n + 1 \in T
  <2> DEFINE st == Scanning(s)[n]
  <2>1. n + 1 \in 1 .. Len(s) /\ (n + 1) - 1 = n
    BY <1>1
  <2>2. /\ Scanning(s)[n + 1] = Scan(st, s[n + 1])
        /\ Scanning(t)[n + 1] = Scan(st, t[n + 1])
    BY <1>1, <1>4, <1>7, <2>1, ScanningSteps
  <2> HIDE DEF st
  <2>3. Scan(st, "control") = Scan(st, "space")
    BY DEF Scan, Blank
  <2>4. t[n + 1] = s[n + 1] \/ (s[n + 1] = "control" /\ t[n + 1] = "space")
    BY <1>4, <2>1
  <2> QED BY <2>1, <2>2, <2>3, <2>4
<1>8. Len(s) \in T
  <2>1. \A n \in 0 .. Len(s) : n \in T
    <3> HIDE DEF T
    <3> QED BY <1>1, <1>6, <1>7, InductionBetween
  <2> QED BY <1>1, <2>1
<1> QED BY <1>4, <1>5, <1>8 DEF Normal, t

\* Of a run of blanks, one is read.
LEMMA SurplusUnread ==
  ASSUME NEW s \in Seq(Chars), Storable(s), NEW c \in Blank, NEW kept \in Nat \ {0}
  PROVE  LET t == Shortened(s, c, kept) IN
         t \in Seq(Chars) /\ Storable(t) /\ Normal(t) = Normal(s)
<1> DEFINE D == Surplus(s, c, kept)
           K == (1 .. Len(s)) \ D
           t == Shortened(s, c, kept)
<1>1. /\ K \in SUBSET (1 .. Len(s)) /\ t = Picked(s, K) /\ Len(s) \in Nat /\ Len(s) \in 0 .. Len(s)
      /\ \A i \in K : i <= Len(s)
      /\ \A i \in Len(s) + 1 .. Len(s) : FALSE
  BY DEF Shortened
<1>2. ASSUME NEW i \in D
      PROVE  i \in 1 .. Len(s) /\ i - 1 \in 1 .. Len(s) /\ s[i] = c /\ s[i - 1] = c
  <2> DEFINE A == {j \in RunOf(s, i) : j <= i}
  <2>1. i \in 1 .. Len(s) /\ s[i] = c /\ Cardinality(A) > kept
    BY DEF Surplus
  <2>2. \E j \in A : j # i
    <3> SUFFICES ASSUME A \subseteq {i} PROVE FALSE
      OBVIOUS
    <3>1. IsFiniteSet({i}) /\ Cardinality({i}) = 1
      BY FS_Singleton
    <3> HIDE DEF A
    <3>2. Cardinality(A) <= 1 /\ Cardinality(A) \in Nat
      BY <3>1, FS_Subset, FS_CardinalityType
    <3> QED BY <2>1, <3>2
  <2>3. PICK j \in A : j # i
    BY <2>2
  <2>4. j \in 1 .. Len(s) /\ j <= i - 1 /\ \A k \in j .. i : s[k] = s[i]
    BY <2>1, <2>3 DEF RunOf
  <2>5. i - 1 \in j .. i
    BY <2>1, <2>4
  <2> QED BY <1>1, <2>1, <2>4, <2>5
<1>3. ASSUME NEW i \in 1 .. Len(s), i \notin K PROVE Scanning(s)[i] = Scanning(s)[i - 1]
  <2>1. i \in D
    BY <1>3
  <2> HIDE DEF D
  <2> DEFINE h == i - 1
             st == Scanning(s)[h - 1]
             u == Scanning(s)[h]
  <2>2. h \in 1 .. Len(s) /\ s[i] = c /\ s[h] = c /\ h - 1 \in 0 .. Len(s) /\ i - 1 = h
    BY <1>1, <1>2, <2>1
  <2> HIDE DEF h
  <2>3. u = Scan(st, c) /\ Scanning(s)[i] = Scan(u, c) /\ st \in Scans
    BY <1>1, <2>2, ScanningSteps, ScanningType
  <2> HIDE DEF st, u
  <2>4. c # "null" /\ c \in Blank \cup {"control"}
    BY DEF Blank
  <2>5. u = [st EXCEPT !.gap = st.read # <<>>] /\ Scan(u, c) = [u EXCEPT !.gap = u.read # <<>>]
    BY <2>3, <2>4 DEF Scan
  <2>6. Scan(u, c) = u
    BY <2>3, <2>5 DEF Scans
  <2> QED BY <2>2, <2>3, <2>6 DEF u
<1>6. \A i \in K : s[i] # "null"
  BY DEF Storable
<1> HIDE DEF K, D, t
<1>4. t \in Seq(Chars) /\ Normal(t) = Normal(s)
  BY <1>1, <1>3, NothingLost
<1>5. Storable(t)
  BY <1>1, <1>6, PickedFrom DEF Storable
<1> QED BY <1>4, <1>5 DEF t

\* While there have only been blanks, nothing has been read.
LEMMA BlankBeginning ==
  ASSUME NEW s \in Seq(Chars), NEW m \in 0 .. Len(s), \A i \in 1 .. m : s[i] \in Blank
  PROVE  \A n \in 0 .. m : Scanning(s)[n] = NothingRead
<1> DEFINE T == {n \in Nat : Scanning(s)[n] = NothingRead}
<1>1. Len(s) \in Nat /\ m \in Nat
  OBVIOUS
<1>2. 0 \in T
  BY <1>1, ScanningSteps
<1>3. ASSUME NEW n \in 0 .. m - 1, n \in T PROVE n + 1 \in T
  <2>1. n + 1 \in 1 .. Len(s) /\ (n + 1) - 1 = n /\ n + 1 \in 1 .. m
    BY <1>1
  <2>2. Scanning(s)[n + 1] = Scan(NothingRead, s[n + 1])
    BY <1>1, <1>3, <2>1, ScanningSteps
  <2>3. \A c \in Blank : Scan(NothingRead, c) = NothingRead
    <3> SUFFICES ASSUME NEW c \in Blank PROVE Scan(NothingRead, c) = NothingRead
      OBVIOUS
    <3> DEFINE none == <<>>
    <3>1. NothingRead = [read |-> none, gap |-> FALSE]
      BY DEF NothingRead
    <3>2. Scan(NothingRead, c) = [NothingRead EXCEPT !.gap = NothingRead.read # none]
      BY DEF Scan, Blank
    <3> HIDE DEF none
    <3> QED BY <3>1, <3>2
  <2> QED BY <2>1, <2>2, <2>3
<1>4. \A n \in 0 .. m : n \in T
  <2> HIDE DEF T
  <2> QED BY <1>1, <1>2, <1>3, InductionBetween
<1> QED BY <1>4

\* Blanks around a text are not read.
LEMMA BlanksAroundUnread ==
  ASSUME NEW s \in Seq(Chars)
  PROVE  LET t == Stripped(s) IN
         t \in Seq(Chars) /\ (Storable(s) => Storable(t)) /\ Normal(t) = Normal(s)
<1> DEFINE seen == {i \in 1 .. Len(s) : s[i] \notin Blank}
           K == {i \in 1 .. Len(s) : (\E j \in seen : j <= i) /\ (\E j \in seen : i <= j)}
           t == Stripped(s)
<1>1. K \in SUBSET (1 .. Len(s)) /\ t = Picked(s, K) /\ Len(s) \in Nat
  BY DEF Stripped
<1>2. \E m \in 0 .. Len(s) : /\ \A i \in seen : i <= m
                             /\ m = 0 \/ m \in seen
  <2>1. CASE seen = {}
    <3>1. 0 \in 0 .. Len(s)
      BY <1>1
    <3> QED BY <2>1, <3>1
  <2>2. CASE seen # {}
    <3>1. seen \in SUBSET (1 .. Len(s))
      OBVIOUS
    <3>2. \A i \in seen : i \in 0 .. Len(s)
      BY <1>1
    <3> HIDE DEF seen
    <3>3. Max(seen) \in seen /\ \A i \in seen : i <= Max(seen)
      BY <1>1, <2>2, <3>1, LastPosition
    <3> QED BY <3>2, <3>3
  <2> QED BY <2>1, <2>2
<1>3. PICK m \in 0 .. Len(s) : (\A i \in seen : i <= m) /\ (m = 0 \/ m \in seen)
  BY <1>2
<1>4. \A i \in K : i <= m
  BY <1>1, <1>3
<1>5. ASSUME NEW i \in m + 1 .. Len(s) PROVE ~Visible(s[i])
  <2>1. i \in 1 .. Len(s) /\ i \notin seen
    BY <1>1, <1>3
  <2> QED BY <2>1 DEF Visible
<1>6. ASSUME NEW i \in 1 .. m, i \notin K PROVE Scanning(s)[i] = Scanning(s)[i - 1]
  <2>1. i \in 1 .. Len(s) /\ i \in 0 .. Len(s) /\ m \in seen /\ i <= m
    BY <1>1, <1>3
  <2>2. ~(\E j \in seen : j <= i)
    BY <1>6, <2>1
  <2>3. ASSUME NEW j \in 1 .. i PROVE s[j] \in Blank
    <3>1. j \in 1 .. Len(s) /\ j <= i
      BY <1>1, <2>1
    <3> QED BY <2>2, <3>1
  <2>4. i \in 0 .. i /\ i - 1 \in 0 .. i
    BY <2>1
  <2> QED BY <2>1, <2>3, <2>4, BlankBeginning
<1> HIDE DEF K, t, seen
<1>7. t \in Seq(Chars) /\ Normal(t) = Normal(s)
  BY <1>1, <1>4, <1>5, <1>6, NothingLost
<1>8. Storable(s) => Storable(t)
  <2> SUFFICES ASSUME Storable(s) PROVE Storable(t)
    OBVIOUS
  <2>1. \A i \in K : s[i] # "null"
    BY <1>1 DEF Storable
  <2> QED BY <1>1, <2>1, PickedFrom DEF Storable
<1> QED BY <1>7, <1>8 DEF t

\* What _clean_text takes out of a text is not read, and nothing else, and a database can
\* store what is left.
THEOREM CleanReads ==
  ASSUME NEW s \in Seq(Chars)
  PROVE  Clean(s) \in Seq(Chars) /\ Storable(Clean(s)) /\ Normal(Clean(s)) = Normal(s)
<1> DEFINE a == WithoutNulls(s)
           b == Spaced(a)
           c == Shortened(b, "space", 1)
           d == Shortened(c, "newline", 3)
<1>1. a \in Seq(Chars) /\ Storable(a) /\ Normal(a) = Normal(s)
  BY NullsUnread
<1> HIDE DEF a
<1>2. b \in Seq(Chars) /\ Storable(b) /\ Normal(b) = Normal(s)
  BY <1>1, SpacedUnread
<1>3. "space" \in Blank /\ "newline" \in Blank
  BY DEF Blank
<1> HIDE DEF b
<1>4. c \in Seq(Chars) /\ Storable(c) /\ Normal(c) = Normal(s)
  BY <1>2, <1>3, SurplusUnread
<1> HIDE DEF c
<1>5. d \in Seq(Chars) /\ Storable(d) /\ Normal(d) = Normal(s)
  BY <1>3, <1>4, SurplusUnread
<1>6. Clean(s) = Stripped(d)
  BY DEF Clean, a, b, c
<1> HIDE DEF d
<1> QED BY <1>5, <1>6, BlanksAroundUnread

-----------------------------------------------------------------------------
(* The prompt.                                                             *)

\* What is left of a sequence up to m: all of it, or its first m elements.
LEMMA UptoType ==
  ASSUME NEW S, NEW s \in Seq(S), NEW m \in Nat
  PROVE  /\ Upto(s, m) \in Seq(S) /\ IsPrefix(Upto(s, m), s) /\ Len(Upto(s, m)) <= m
         /\ Len(s) <= m => Upto(s, m) = s
         /\ Len(s) >= m => Len(Upto(s, m)) = m
<1> DEFINE n == IF Len(s) < m THEN Len(s) ELSE m
           f == Upto(s, m)
<1>1. n \in 0 .. Len(s) /\ n <= m /\ n \in Nat /\ Len(s) \in Nat
  OBVIOUS
<1>2. (Len(s) <= m => n = Len(s)) /\ (Len(s) >= m => n = m)
  OBVIOUS
<1>3. f = SubSeq(s, 1, n)
  BY DEF Upto
<1> HIDE DEF n, f
<1>4. f \in Seq(S) /\ Len(f) = n /\ \A i \in 1 .. n : f[i] = s[i]
  BY <1>1, <1>3, FrontOf
<1>5. IsPrefix(f, s)
  BY <1>1, <1>4, PrefixAgrees
<1>6. Len(s) <= m => f = s
  <2> SUFFICES ASSUME Len(s) <= m PROVE f = s
    OBVIOUS
  <2>1. Len(f) = Len(s) /\ \A i \in 1 .. Len(f) : f[i] = s[i]
    BY <1>2, <1>4
  <2> QED BY <1>4, <2>1, SeqEqual
<1> QED BY <1>1, <1>2, <1>4, <1>5, <1>6 DEF f

\* The cap leaves a text as it is, or its first MaxText characters.
LEMMA CappedType ==
  ASSUME NEW s \in Seq(Chars)
  PROVE  /\ Capped(s) \in Seq(Chars) /\ IsPrefix(Capped(s), s) /\ Len(Capped(s)) <= MaxText
         /\ Len(s) <= MaxText => Capped(s) = s
         /\ Len(s) >= MaxText => Len(Capped(s)) = MaxText
BY UptoType, TextAssumption DEF Capped

\* Blocks are joined step by step.
LEMMA JoiningSteps ==
  ASSUME NEW s, Len(s) \in Nat
  PROVE  /\ Joining(s)[0] = <<>>
         /\ \A n \in 1 .. Len(s) :
              Joining(s)[n] = IF n = 1 THEN s[1]
                              ELSE Joining(s)[n - 1] \o <<"newline">> \o s[n]
<1> DEFINE Step(t, n) == IF n = 1 THEN s[1] ELSE t \o <<"newline">> \o s[n]
           T == {m \in Nat : \E f : f = [n \in 0 .. m |-> IF n = 0 THEN <<>>
                                                         ELSE Step(f[n - 1], n)]}
<1>1. Joining(s) = CHOOSE f : f = [n \in 0 .. Len(s) |-> IF n = 0 THEN <<>>
                                                        ELSE Step(f[n - 1], n)]
  BY DEF Joining
<1>2. 0 \in T
  <2> HIDE DEF Step
  <2> DEFINE g == [n \in 0 .. 0 |-> <<>>]
  <2>1. g = [n \in 0 .. 0 |-> IF n = 0 THEN <<>> ELSE Step(g[n - 1], n)]
    OBVIOUS
  <2> QED BY <2>1
<1>3. ASSUME NEW m \in Nat, m \in T PROVE m + 1 \in T
  <2> HIDE DEF Step
  <2>1. PICK f : f = [n \in 0 .. m |-> IF n = 0 THEN <<>> ELSE Step(f[n - 1], n)]
    BY <1>3
  <2> DEFINE g == [n \in 0 .. m + 1 |-> IF n = m + 1 THEN Step(f[m], m + 1) ELSE f[n]]
  <2>2. \A n \in 0 .. m : /\ g[n] = f[n]
                          /\ f[n] = IF n = 0 THEN <<>> ELSE Step(f[n - 1], n)
    BY <2>1
  <2>3. \A n \in 0 .. m + 1 : g[n] = IF n = 0 THEN <<>> ELSE Step(g[n - 1], n)
    BY <2>2
  <2>4. g = [n \in 0 .. m + 1 |-> IF n = 0 THEN <<>> ELSE Step(g[n - 1], n)]
    BY <2>3
  <2> HIDE DEF g
  <2> QED BY <2>4
<1>4. Len(s) \in T
  <2> HIDE DEF T
  <2> QED BY <1>2, <1>3, Induction
<1> HIDE DEF Step
<1>5. \E f : f = [n \in 0 .. Len(s) |-> IF n = 0 THEN <<>> ELSE Step(f[n - 1], n)]
  BY <1>4
<1>6. Joining(s) = [n \in 0 .. Len(s) |-> IF n = 0 THEN <<>> ELSE Step(Joining(s)[n - 1], n)]
  BY <1>1, <1>5
<1>7. /\ Joining(s)[0] = <<>>
      /\ \A n \in 1 .. Len(s) : Joining(s)[n] = Step(Joining(s)[n - 1], n)
  BY <1>6
<1> QED BY <1>7 DEF Step

\* Joined, they are a text.
LEMMA JoinedType ==
  ASSUME NEW s \in Seq(Seq(Chars))
  PROVE  Joined(s) \in Seq(Chars)
<1> DEFINE T == {n \in Nat : Joining(s)[n] \in Seq(Chars)}
<1>1. Len(s) \in Nat /\ \A n \in 1 .. Len(s) : s[n] \in Seq(Chars)
  OBVIOUS
<1>2. 0 \in T
  <2>1. Joining(s)[0] = <<>>
    BY <1>1, JoiningSteps
  <2>2. Joining(s)[0] \in Seq(Chars)
    BY <2>1, EmptySeq
  <2> QED BY <2>2
<1>3. ASSUME NEW n \in 0 .. Len(s) - 1, n \in T PROVE n + 1 \in T
  <2> DEFINE t == Joining(s)[n]
             h == <<"newline">>
             u == s[n + 1]
  <2>1. n + 1 \in 1 .. Len(s) /\ (n + 1) - 1 = n /\ n + 1 \in Nat
    BY <1>1
  <2>2. t \in Seq(Chars) /\ u \in Seq(Chars) /\ s[1] \in Seq(Chars)
    BY <1>1, <1>3, <2>1
  <2>3. h \in Seq(Chars)
    <3>1. "newline" \in Chars
      BY CharsAssumption DEF Blank
    <3> QED BY <3>1
  <2>4. Joining(s)[n + 1] = IF n + 1 = 1 THEN s[1] ELSE t \o h \o u
    BY <1>1, <2>1, JoiningSteps
  <2> HIDE DEF t, h, u
  <2>5. t \o h \in Seq(Chars)
    BY <2>2, <2>3
  <2>6. (t \o h) \o u \in Seq(Chars)
    BY <2>2, <2>5
  <2> QED BY <2>1, <2>2, <2>4, <2>6
<1>4. \A n \in 0 .. Len(s) : n \in T
  <2> HIDE DEF T
  <2> QED BY <1>1, <1>2, <1>3, InductionBetween
<1> QED BY <1>1, <1>4 DEF Joined

\* What an extractor takes is a text.
LEMMA FullTextType ==
  ASSUME NEW c \in Cases
  PROVE  FullText(c) \in Seq(Chars)
<1> DEFINE s == c.text
           I == (1 .. Len(s)) \ c.cells
           J == c.cells
<1>1. s \in Seq(Seq(Chars)) /\ I \in SUBSET (1 .. Len(s)) /\ J \in SUBSET (1 .. Len(s))
  BY CasesAssumption
<1> HIDE DEF s, I, J
<1>2. Filled(s, I) \in Seq(Seq(Chars)) /\ Filled(s, J) \in Seq(Seq(Chars))
  <2>1. ASSUME NEW K \in SUBSET (1 .. Len(s))
        PROVE  Filled(s, K) \in Seq(Seq(Chars))
    <3> DEFINE F == {i \in K : Stripped(s[i]) # <<>>}
    <3>1. F \in SUBSET (1 .. Len(s))
      OBVIOUS
    <3> HIDE DEF F
    <3>2. Picked(s, F) \in Seq(Seq(Chars))
      BY <1>1, <3>1, PickedType
    <3> QED BY <3>2 DEF Filled, F
  <2> QED BY <1>1, <2>1
<1>3. Filled(s, I) \o Filled(s, J) \in Seq(Seq(Chars))
  BY <1>2
<1>4. Upto(s, MaxPages) \in Seq(Seq(Chars))
  BY <1>1, UptoType, TextAssumption
<1>5. Blocks(c) \in {Upto(s, MaxPages), Filled(s, I) \o Filled(s, J), s}
  BY DEF Blocks, s, I, J
<1>6. Blocks(c) \in Seq(Seq(Chars))
  BY <1>1, <1>3, <1>4, <1>5
<1> QED BY <1>6, JoinedType DEF FullText

\* Of two prefixes of one text, the one that is no longer is a prefix of the other.
LEMMA PrefixesNested ==
  ASSUME NEW s \in Seq(Chars), NEW a \in Seq(Chars), NEW b \in Seq(Chars),
         IsPrefix(a, s), IsPrefix(b, s), Len(a) <= Len(b)
  PROVE  IsPrefix(a, b)
<1>1. /\ \A i \in 1 .. Len(a) : a[i] = s[i]
      /\ \A i \in 1 .. Len(b) : b[i] = s[i]
      /\ Len(a) \in Nat /\ Len(b) \in Nat
  BY PrefixAgrees
<1>2. \A i \in 1 .. Len(a) : a[i] = b[i]
  BY <1>1
<1> QED BY <1>2, PrefixAgrees

LEMMA PrefixOfPrefix ==
  ASSUME NEW s \in Seq(Chars), NEW a \in Seq(Chars), NEW b \in Seq(Chars),
         IsPrefix(a, b), IsPrefix(b, s)
  PROVE  IsPrefix(a, s)
<1>1. /\ \A i \in 1 .. Len(a) : a[i] = b[i]
      /\ \A i \in 1 .. Len(b) : b[i] = s[i]
      /\ Len(a) \in Nat /\ Len(b) \in Nat /\ Len(s) \in Nat /\ Len(a) <= Len(b) /\ Len(b) <= Len(s)
  BY PrefixAgrees
<1>2. Len(a) <= Len(s) /\ \A i \in 1 .. Len(a) : a[i] = s[i]
  BY <1>1
<1> QED BY <1>2, PrefixAgrees

\* The text of a case is all that is read of it, or as many characters as are sent.
LEMMA TextReads ==
  ASSUME NEW c \in Cases
  PROVE  /\ Text(c) \in Seq(Chars)
         /\ \E full \in Seq(Chars) :
              /\ Normal(full) = Normal(FullText(c)) /\ IsPrefix(Text(c), full)
              /\ Text(c) = full \/ Len(Text(c)) = MaxText
         /\ c.flow = "file" => Storable(Text(c))
<1>1. FullText(c) \in Seq(Chars)
  BY FullTextType
<1>2. CASE c.flow = "file"
  <2> DEFINE full == Clean(FullText(c))
  <2>1. full \in Seq(Chars) /\ Storable(full) /\ Normal(full) = Normal(FullText(c))
    BY <1>1, CleanReads
  <2>2. Text(c) = Capped(full)
    BY <1>2 DEF Text
  <2> HIDE DEF full
  <2>3. /\ Text(c) \in Seq(Chars) /\ IsPrefix(Text(c), full)
        /\ Text(c) = full \/ Len(Text(c)) = MaxText
    <3>1. Len(full) <= MaxText \/ Len(full) >= MaxText
      BY <2>1, TextAssumption
    <3> QED BY <2>1, <2>2, <3>1, CappedType
  <2>4. Storable(Text(c))
    <3>1. Len(Text(c)) <= Len(full) /\ \A i \in 1 .. Len(Text(c)) : Text(c)[i] = full[i]
      BY <2>1, <2>3, PrefixAgrees
    <3> QED BY <2>1, <2>3, <3>1 DEF Storable
  <2> QED BY <2>1, <2>3, <2>4
<1>3. CASE c.flow # "file"
  <2>1. Text(c) = Stripped(FullText(c))
    BY <1>3 DEF Text
  <2>2. Text(c) \in Seq(Chars) /\ Normal(Text(c)) = Normal(FullText(c))
    BY <1>1, <2>1, BlanksAroundUnread
  <2>3. IsPrefix(Text(c), Text(c))
    BY <2>2, PrefixAgrees
  <2> QED BY <1>3, <2>2, <2>3
<1> QED BY <1>2, <1>3

\* The content begins with the text, and ends with the extra context.
LEMMA ContentType ==
  ASSUME NEW c \in Cases
  PROVE  /\ Content(c) \in Seq(Chars) /\ IsPrefix(Text(c), Content(c))
         /\ c.flow = "file" /\ c.extra # <<>> =>
              \E u \in Seq(Chars) : Content(c) = u \o c.extra
<1>1. Text(c) \in Seq(Chars) /\ c.extra \in Seq(Chars)
  BY TextReads, CasesAssumption
<1>2. CASE c.flow = "file" /\ c.extra # <<>>
  <2> DEFINE t == Text(c)
             h == <<"heading">>
             u == t \o h
             x == c.extra
             z == u \o x
  <2>1. Content(c) = z
    BY <1>2 DEF Content
  <2>2. h \in Seq(Chars)
    <3>1. "heading" \in Chars
      BY CharsAssumption
    <3> QED BY <3>1
  <2>3. t \in Seq(Chars) /\ x \in Seq(Chars)
    BY <1>1
  <2> HIDE DEF h, t, x
  <2>4. /\ u \in Seq(Chars) /\ Len(u) = Len(t) + Len(h)
        /\ \A i \in 1 .. Len(t) : u[i] = t[i]
    BY <2>2, <2>3, ConcatProperties
  <2> HIDE DEF u
  <2>5. /\ z \in Seq(Chars) /\ Len(z) = Len(u) + Len(x)
        /\ \A i \in 1 .. Len(u) : z[i] = u[i]
    <3>1. u \in Seq(Chars) /\ x \in Seq(Chars)
      BY <2>3, <2>4
    <3> QED BY <3>1, ConcatProperties
  <2>6. Len(t) \in Nat /\ Len(h) \in Nat /\ Len(x) \in Nat
    BY <2>2, <2>3
  <2> HIDE DEF z
  <2>7. Len(t) <= Len(z) /\ \A i \in 1 .. Len(t) : t[i] = z[i]
    <3>1. Len(u) \in Nat /\ Len(u) = Len(t) + Len(h) /\ Len(z) = Len(u) + Len(x)
      BY <2>4, <2>5
    <3>2. Len(t) <= Len(z) /\ Len(t) <= Len(u)
      BY <2>6, <3>1
    <3>3. ASSUME NEW i \in 1 .. Len(t)
          PROVE  t[i] = z[i]
      <4>1. i \in 1 .. Len(u)
        BY <2>6, <3>1, <3>2
      <4> QED BY <2>4, <2>5, <4>1
    <3> QED BY <3>2, <3>3
  <2>8. IsPrefix(t, z)
    BY <2>3, <2>5, <2>7, PrefixAgrees
  <2>9. Content(c) \in Seq(Chars) /\ IsPrefix(Text(c), Content(c))
    <3>1. Text(c) = t
      BY DEF t
    <3> QED BY <2>1, <2>5, <2>8, <3>1, Zenon
  <2>10. \E v \in Seq(Chars) : Content(c) = v \o c.extra
    BY <2>1, <2>4 DEF z, x
  <2> QED BY <2>9, <2>10
<1>3. CASE ~(c.flow = "file" /\ c.extra # <<>>)
  <2>1. Content(c) = Text(c)
    BY <1>3 DEF Content
  <2>2. IsPrefix(Text(c), Text(c))
    BY <1>1, PrefixAgrees
  <2> QED BY <1>1, <1>3, <2>1, <2>2
<1> QED BY <1>2, <1>3

\* The prompt of a case of the same hash has the words of a case, as many as fill it.
LEMMA PromptReads ==
  ASSUME NEW c \in Cases, NEW d \in Cases, Text(c) = Text(d)
  PROVE  /\ Len(Prompt(d)) <= MaxText
         /\ \/ IsPrefix(Normal(FullText(c)), Normal(Prompt(d)))
            \/ Len(Prompt(d)) = MaxText /\ IsPrefix(Normal(Prompt(d)), Normal(FullText(c)))
<1> DEFINE t == Text(d)
           w == Content(d)
           p == Prompt(d)
<1>1. t \in Seq(Chars) /\ w \in Seq(Chars) /\ IsPrefix(t, w)
  BY TextReads, ContentType
<1>2. PICK full \in Seq(Chars) : /\ Normal(full) = Normal(FullText(c)) /\ IsPrefix(t, full)
                                 /\ t = full \/ Len(t) = MaxText
  BY TextReads
<1>3. p = Capped(w)
  BY DEF Prompt
<1> HIDE DEF t, w, p
<1>4. /\ p \in Seq(Chars) /\ IsPrefix(p, w) /\ Len(p) <= MaxText
      /\ Len(w) <= MaxText => p = w
      /\ Len(w) >= MaxText => Len(p) = MaxText
  BY <1>1, <1>3, CappedType
<1>5. Len(t) \in Nat /\ Len(w) \in Nat /\ Len(p) \in Nat /\ MaxText \in Nat /\ Len(t) <= Len(w)
  BY <1>1, <1>4, TextAssumption, PrefixAgrees
<1>6. CASE t = full /\ Len(t) <= Len(p)
  <2>1. IsPrefix(t, p)
    BY <1>1, <1>4, <1>6, PrefixesNested
  <2>2. IsPrefix(Normal(t), Normal(p))
    BY <1>1, <1>4, <2>1, NormalOfPrefix
  <2> QED BY <1>2, <1>4, <1>6, <2>2 DEF p
<1>7. CASE ~(t = full /\ Len(t) <= Len(p))
  <2>1. Len(p) = MaxText /\ Len(p) <= Len(t)
    BY <1>2, <1>4, <1>5, <1>7
  <2>2. IsPrefix(p, t)
    BY <1>1, <1>4, <2>1, PrefixesNested
  <2>3. IsPrefix(p, full)
    BY <1>1, <1>2, <1>4, <2>2, PrefixOfPrefix
  <2>4. IsPrefix(Normal(p), Normal(full))
    BY <1>4, <2>3, NormalOfPrefix
  <2> QED BY <1>2, <1>4, <2>1, <2>4 DEF p
<1> QED BY <1>6, <1>7

-----------------------------------------------------------------------------
(* How a case is refused.                                                  *)

\* What is appended to a text is its end.
LEMMA AppendedIsSuffix ==
  ASSUME NEW S, NEW u \in Seq(S), NEW e \in Seq(S)
  PROVE  IsSuffix(e, u \o e)
<1> DEFINE z == u \o e
           n == Len(e)
           a == Reverse(e)
           b == Reverse(z)
<1>1. /\ z \in Seq(S) /\ Len(z) = Len(u) + n
      /\ \A i \in 1 .. Len(u) + n : z[i] = IF i <= Len(u) THEN u[i] ELSE e[i - Len(u)]
  BY ConcatProperties
<1>2. n \in Nat /\ Len(u) \in Nat
  OBVIOUS
<1> HIDE DEF z, n
<1>3. a = [i \in 1 .. n |-> e[(n - i) + 1]] /\ b = [i \in 1 .. Len(z) |-> z[(Len(z) - i) + 1]]
  BY DEF n, Reverse
<1>4. \A i \in 1 .. n : e[i] \in S
  BY DEF n
<1>5. \A i \in 1 .. Len(z) : z[i] \in S
  BY <1>1
<1>6. Len(z) \in Nat
  BY <1>1, <1>2
<1> HIDE DEF a, b
<1>7. a \in Seq(S) /\ Len(a) = n
  <2>1. \A i \in 1 .. n : (n - i) + 1 \in 1 .. n
    BY <1>2
  <2>2. a \in [1 .. n -> S]
    BY <1>3, <1>4, <2>1
  <2> QED BY <1>2, <2>2
<1>8. b \in Seq(S) /\ Len(b) = Len(z)
  <2>1. \A i \in 1 .. Len(z) : (Len(z) - i) + 1 \in 1 .. Len(z)
    BY <1>6
  <2>2. b \in [1 .. Len(z) -> S]
    BY <1>3, <1>5, <2>1
  <2> QED BY <1>6, <2>2
<1>9. ASSUME NEW i \in 1 .. n PROVE a[i] = b[i]
  <2> DEFINE k == (Len(z) - i) + 1
  <2>1. /\ i \in 1 .. Len(z) /\ k \in 1 .. Len(u) + n /\ ~(k <= Len(u))
        /\ k - Len(u) = (n - i) + 1
    BY <1>1, <1>2
  <2>2. z[k] = e[k - Len(u)]
    BY <1>1, <2>1
  <2> QED BY <1>3, <2>1, <2>2
<1>10. Len(a) <= Len(b)
  BY <1>1, <1>2, <1>7, <1>8
<1>11. IsPrefix(a, b)
  <2>1. \A i \in 1 .. Len(a) : a[i] = b[i]
    BY <1>7, <1>9
  <2> QED BY <1>7, <1>8, <1>10, <2>1, PrefixAgrees
<1>12. IsPrefix(Reverse(e), Reverse(z))
  BY <1>11 DEF a, b
<1> QED BY <1>12 DEF z, IsSuffix

\* A case is refused with one of five codes; one that is a file can be stored.
LEMMA Refusals ==
  ASSUME NEW c \in Cases
  PROVE  /\ c.flow \in {"scenario", "file"}
         /\ Refusal(c) \in {200, 413, 415, 422, 500}
         /\ c.flow = "scenario" => ScenarioStatus(c) = Refusal(c)
         /\ c.flow = "file" /\ c.ext \in DOMAIN Extractors => UploadStatus(c) = Refusal(c)
         /\ c.flow = "file" /\ c.ext \notin DOMAIN Extractors => Refusal(c) = 415
<1>1. c.flow \in {"scenario", "file"}
  BY CasesAssumption
<1>2. ScenarioStatus(c) \in {200, 422}
  BY DEF ScenarioStatus
<1>3. UploadStatus(c) \in {200, 413, 422, 500}
  BY DEF UploadStatus
<1>4. "scenario" # "file"
  OBVIOUS
<1> HIDE DEF ScenarioStatus, UploadStatus
<1> QED BY <1>1, <1>2, <1>3, <1>4 DEF Refusal

\* A file that its extractor opens, with enough text in it, is not refused as a file.
LEMMA EnoughTextRefusal ==
  ASSUME NEW c \in Cases, EnoughText(c)
  PROVE  Refusal(c) \in {200, 500}
<1>1. /\ c.flow = "file" /\ c.ext \in DOMAIN Extractors /\ c.format \in Extractors[c.ext]
      /\ c.size \in 1 .. MaxBytes /\ Len(Normal(FullText(c))) >= MinText
  BY DEF EnoughText
<1>2. ~(Len(Clean(FullText(c))) < MinText)
  <2> DEFINE t == Clean(FullText(c))
  <2>1. FullText(c) \in Seq(Chars)
    BY FullTextType
  <2>2. t \in Seq(Chars) /\ Normal(t) = Normal(FullText(c))
    BY <2>1, CleanReads
  <2> HIDE DEF t
  <2>3. Normal(t) \in Seq(Chars) /\ Len(Normal(t)) <= Len(t)
    BY <2>2, NormalLength
  <2>4. ~(Len(t) < MinText)
    BY <1>1, <2>2, <2>3, TextAssumption
  <2> QED BY <2>4 DEF t
<1>3. ~(c.size > MaxBytes) /\ c.size # 0
  BY <1>1, ScenarioAssumption
<1>4. UploadStatus(c) \in {200, 500}
  BY <1>1, <1>2, <1>3 DEF UploadStatus
<1>5. Refusal(c) = UploadStatus(c)
  BY <1>1, Refusals
<1> QED BY <1>4, <1>5

-----------------------------------------------------------------------------
(* The inductive invariant.                                                *)

LEMMA InitInv == Init => UploadInv
<1> SUFFICES ASSUME Init PROVE UploadInv
  OBVIOUS
<1>1. TypeOK
  BY NoCaseAssumption DEF Init, TypeOK
<1>2. ASSUME NEW r \in Requests PROVE RequestOK(r)
  <2>1. pc[r] = "idle" /\ status[r] = 0 /\ answer[r] = NoId /\ made = {}
    BY DEF Init
  <2> QED BY <2>1 DEF RequestOK
<1> QED BY <1>1, <1>2 DEF UploadInv

\* What a step of r leaves to the others, and what it does to r.
Moves(r) ==
  /\ pc[r] # "answered"
  /\ \A q \in Requests \ {r} :
       pc'[q] = pc[q] /\ case'[q] = case[q] /\ status'[q] = status[q] /\ answer'[q] = answer[q]
  /\ made' \in {made, made \cup {r}}

\* So the others keep what the invariant says of them.
LEMMA OthersKeep ==
  ASSUME UploadInv, NEW r \in Requests, Moves(r), NEW q \in Requests, q # r
  PROVE  /\ RequestOK(q)'
         /\ pc'[q] # "idle" => case'[q] \in Cases
         /\ status'[q] = 201 <=> answer'[q] \in made'
<1>1. /\ pc'[q] = pc[q] /\ case'[q] = case[q] /\ status'[q] = status[q] /\ answer'[q] = answer[q]
      /\ q \in made' <=> q \in made
      /\ made \subseteq made'
  BY DEF Moves
<1>2. RequestOK(q) /\ r \notin made /\ status[r] = 0
  BY DEF UploadInv, RequestOK, Moves
<1>3. CASE status[q] = 201
  <2>1. answer[q] \in made /\ answer[q] \in Requests /\ answer[q] # r
    BY <1>2, <1>3 DEF UploadInv, TypeOK
  <2>2. case'[answer[q]] = case[answer[q]]
    BY <2>1 DEF Moves
  <2>3. case'[answer'[q]] = case[answer[q]]
    BY <1>1, <2>2
  <2>4. RequestOK(q)'
    BY <1>1, <1>2, <1>3, <2>3 DEF RequestOK
  <2>5. pc'[q] # "idle" => case'[q] \in Cases
    BY <1>1 DEF UploadInv, TypeOK
  <2>6. status'[q] = 201 /\ answer'[q] \in made'
    BY <1>1, <1>3, <2>1
  <2> QED BY <2>4, <2>5, <2>6
<1>4. CASE status[q] # 201
  <2>1. answer[q] = NoId /\ NoId \notin made'
    <3>1. answer[q] = NoId
      BY <1>2, <1>4 DEF RequestOK
    <3>2. NoId \notin made /\ NoId # r
      BY NoCaseAssumption DEF UploadInv, TypeOK
    <3> QED BY <3>1, <3>2 DEF Moves
  <2>2. RequestOK(q)'
    BY <1>1, <1>2, <1>4 DEF RequestOK
  <2>3. pc'[q] # "idle" => case'[q] \in Cases
    BY <1>1 DEF UploadInv, TypeOK
  <2>4. status'[q] # 201 /\ answer'[q] \notin made'
    BY <1>1, <1>4, <2>1
  <2> QED BY <2>2, <2>3, <2>4
<1> QED BY <1>3, <1>4

\* A step of r keeps the invariant if it keeps what is said of r, and the ranges.
LEMMA StepKeeps ==
  ASSUME UploadInv, NEW r \in Requests, Moves(r), RequestOK(r)',
         pc' \in [Requests -> {"idle", "posted", "reading", "looking", "calling", "answered"}],
         case' \in [Requests -> Cases \cup {NoCase}],
         status' \in [Requests -> {0, 201, 413, 415, 422, 500, 502}],
         answer' \in [Requests -> Requests \cup {NoId}],
         case'[r] \in Cases,
         status'[r] = 201 <=> answer'[r] \in made'
  PROVE  UploadInv'
<1>1. made' \subseteq Requests
  BY DEF Moves, UploadInv, TypeOK
<1>2. ASSUME NEW q \in Requests
      PROVE  /\ RequestOK(q)'
             /\ pc'[q] # "idle" => case'[q] \in Cases
             /\ status'[q] = 201 <=> answer'[q] \in made'
  <2>1. CASE q = r
    BY <2>1
  <2>2. CASE q # r
    BY <2>2, OthersKeep
  <2> QED BY <2>1, <2>2
<1>3. TypeOK'
  BY <1>1, <1>2 DEF TypeOK
<1> QED BY <1>2, <1>3 DEF UploadInv

\* A step that only takes r elsewhere.
LEMMA GoingKeeps ==
  ASSUME UploadInv, NEW r \in Requests, pc[r] # "answered", case[r] \in Cases,
         NEW p \in {"reading", "looking", "calling"}, GoTo(r, p), UNCHANGED <<case, made>>,
         p = "reading" => case[r].flow = "file" /\ case[r].ext \in DOMAIN Extractors,
         p \in {"looking", "calling"} => Refusal(case[r]) = 200,
         p = "calling" => Storable(Text(case[r]))
  PROVE  UploadInv'
<1>1. /\ pc' = [pc EXCEPT ![r] = p] /\ pc'[r] = p
      /\ status' = status /\ answer' = answer /\ case' = case /\ made' = made
  BY DEF GoTo, UploadInv, TypeOK
<1>2. Moves(r)
  BY <1>1 DEF Moves, UploadInv, TypeOK
<1>3. r \notin made /\ status[r] = 0 /\ answer[r] = NoId /\ NoId \notin made
  BY NoCaseAssumption DEF UploadInv, TypeOK, RequestOK
<1>4. RequestOK(r)'
  BY <1>1, <1>3 DEF RequestOK
<1>5. pc' \in [Requests -> {"idle", "posted", "reading", "looking", "calling", "answered"}]
  BY <1>1 DEF UploadInv, TypeOK
<1>6. /\ case' \in [Requests -> Cases \cup {NoCase}]
      /\ status' \in [Requests -> {0, 201, 413, 415, 422, 500, 502}]
      /\ answer' \in [Requests -> Requests \cup {NoId}]
      /\ case'[r] \in Cases
      /\ status'[r] = 201 <=> answer'[r] \in made'
  BY <1>1, <1>3 DEF UploadInv, TypeOK
<1> QED BY <1>2, <1>4, <1>5, <1>6, StepKeeps

\* A step that answers r, without an analysis.
LEMMA RefusingKeeps ==
  ASSUME UploadInv, NEW r \in Requests, pc[r] # "answered", case[r] \in Cases,
         NEW code \in {413, 415, 422, 500, 502}, AnswerWith(r, code, NoId), UNCHANGED <<case, made>>,
         \/ code = Refusal(case[r])
         \/ Refusal(case[r]) = 200 /\ (code = 502 \/ (code = 500 /\ ~Storable(Text(case[r]))))
  PROVE  UploadInv'
<1>1. /\ pc' = [pc EXCEPT ![r] = "answered"] /\ pc'[r] = "answered"
      /\ status' = [status EXCEPT ![r] = code] /\ status'[r] = code
      /\ answer' = [answer EXCEPT ![r] = NoId] /\ answer'[r] = NoId
      /\ case' = case /\ made' = made
  BY DEF AnswerWith, UploadInv, TypeOK
<1>2. Moves(r)
  BY <1>1 DEF Moves, UploadInv, TypeOK
<1>3. NoId \notin made /\ code # 201 /\ code # 200
  BY NoCaseAssumption DEF UploadInv, TypeOK
<1>4. RequestOK(r)'
  BY <1>1, <1>3 DEF RequestOK
<1>5. pc' \in [Requests -> {"idle", "posted", "reading", "looking", "calling", "answered"}]
  BY <1>1 DEF UploadInv, TypeOK
<1>6. /\ case' \in [Requests -> Cases \cup {NoCase}]
      /\ status' \in [Requests -> {0, 201, 413, 415, 422, 500, 502}]
      /\ answer' \in [Requests -> Requests \cup {NoId}]
      /\ case'[r] \in Cases
      /\ status'[r] = 201 <=> answer'[r] \in made'
  BY <1>1, <1>3 DEF UploadInv, TypeOK
<1> QED BY <1>2, <1>4, <1>5, <1>6, StepKeeps

\* A step that answers r with an analysis of its hash.
LEMMA AnsweringKeeps ==
  ASSUME UploadInv, NEW r \in Requests, pc[r] # "answered", case[r] \in Cases,
         NEW s \in Requests, AnswerWith(r, 201, s), case' = case,
         made' \in {made, made \cup {r}}, s \in made',
         Refusal(case[r]) = 200, ContentHash(case[s]) = ContentHash(case[r])
  PROVE  UploadInv'
<1>1. /\ pc' = [pc EXCEPT ![r] = "answered"] /\ pc'[r] = "answered"
      /\ status' = [status EXCEPT ![r] = 201] /\ status'[r] = 201
      /\ answer' = [answer EXCEPT ![r] = s] /\ answer'[r] = s
  BY DEF AnswerWith, UploadInv, TypeOK
<1>2. Moves(r)
  BY <1>1 DEF Moves, UploadInv, TypeOK
<1>3. RequestOK(r)'
  BY <1>1 DEF RequestOK
<1>4. pc' \in [Requests -> {"idle", "posted", "reading", "looking", "calling", "answered"}]
  BY <1>1 DEF UploadInv, TypeOK
<1>5. /\ case' \in [Requests -> Cases \cup {NoCase}]
      /\ status' \in [Requests -> {0, 201, 413, 415, 422, 500, 502}]
      /\ answer' \in [Requests -> Requests \cup {NoId}]
      /\ case'[r] \in Cases
      /\ status'[r] = 201 <=> answer'[r] \in made'
  BY <1>1 DEF UploadInv, TypeOK
<1> QED BY <1>2, <1>3, <1>4, <1>5, StepKeeps

LEMMA PostKeeps ==
  ASSUME UploadInv, NEW r \in Requests, NEW c \in Cases, Post(r, c)
  PROVE  UploadInv'
<1>1. /\ pc[r] = "idle" /\ pc' = [pc EXCEPT ![r] = "posted"] /\ pc'[r] = "posted"
      /\ case' = [case EXCEPT ![r] = c] /\ case'[r] = c
      /\ status' = status /\ answer' = answer /\ made' = made
  BY DEF Post, GoTo, UploadInv, TypeOK
<1>2. Moves(r)
  BY <1>1 DEF Moves, UploadInv, TypeOK
<1>3. r \notin made /\ status[r] = 0 /\ answer[r] = NoId /\ NoId \notin made
  BY <1>1, NoCaseAssumption DEF UploadInv, TypeOK, RequestOK
<1>4. RequestOK(r)'
  BY <1>1, <1>3 DEF RequestOK
<1>5. /\ pc' \in [Requests -> {"idle", "posted", "reading", "looking", "calling", "answered"}]
      /\ case' \in [Requests -> Cases \cup {NoCase}]
  BY <1>1 DEF UploadInv, TypeOK
<1>6. /\ status' \in [Requests -> {0, 201, 413, 415, 422, 500, 502}]
      /\ answer' \in [Requests -> Requests \cup {NoId}]
      /\ case'[r] \in Cases
      /\ status'[r] = 201 <=> answer'[r] \in made'
  BY <1>1, <1>3 DEF UploadInv, TypeOK
<1> QED BY <1>2, <1>4, <1>5, <1>6, StepKeeps

\* How an upload or a scenario is received.
LEMMA ReceivingKeeps ==
  ASSUME UploadInv, NEW r \in Requests, ReceiveFile(r) \/ Extract(r) \/ ReceiveScenario(r)
  PROVE  UploadInv'
<1> DEFINE c == case[r]
<1>1. pc[r] \in {"posted", "reading"} /\ UNCHANGED <<case, made>>
  BY DEF ReceiveFile, Extract, ReceiveScenario
<1>2. c \in Cases /\ pc[r] # "answered"
  BY <1>1 DEF UploadInv, TypeOK
<1> HIDE DEF c
<1>3. /\ c.flow \in {"scenario", "file"}
      /\ Refusal(c) \in {200, 413, 415, 422, 500}
      /\ c.flow = "scenario" => ScenarioStatus(c) = Refusal(c)
      /\ c.flow = "file" /\ c.ext \in DOMAIN Extractors => UploadStatus(c) = Refusal(c)
      /\ c.flow = "file" /\ c.ext \notin DOMAIN Extractors => Refusal(c) = 415
  BY <1>2, Refusals
<1>4. c = case[r]
  BY DEF c
<1>5. CASE ReceiveFile(r)
  <2>1. CASE c.ext \in DOMAIN Extractors
    <3>1. GoTo(r, "reading") /\ c.flow = "file"
      BY <1>4, <1>5, <2>1 DEF ReceiveFile
    <3> QED BY <1>1, <1>2, <1>4, <2>1, <3>1, GoingKeeps
  <2>2. CASE c.ext \notin DOMAIN Extractors
    <3>1. AnswerWith(r, 415, NoId) /\ Refusal(c) = 415
      BY <1>3, <1>4, <1>5, <2>2 DEF ReceiveFile
    <3> QED BY <1>1, <1>2, <1>4, <3>1, RefusingKeeps
  <2> QED BY <2>1, <2>2
<1>6. CASE Extract(r)
  <2>1. pc[r] = "reading" /\ UploadStatus(c) = Refusal(c)
    <3>1. pc[r] = "reading" /\ c.flow = "file" /\ c.ext \in DOMAIN Extractors
      BY <1>4, <1>6 DEF Extract, UploadInv, RequestOK
    <3> QED BY <1>3, <3>1
  <2>2. CASE Refusal(c) = 200
    <3>1. GoTo(r, "looking")
      BY <1>4, <1>6, <2>1, <2>2 DEF Extract
    <3> QED BY <1>1, <1>2, <1>4, <2>2, <3>1, GoingKeeps
  <2>3. CASE Refusal(c) # 200
    <3>1. AnswerWith(r, Refusal(c), NoId)
      BY <1>4, <1>6, <2>1, <2>3 DEF Extract
    <3> QED BY <1>1, <1>2, <1>3, <1>4, <2>3, <3>1, RefusingKeeps
  <2> QED BY <2>2, <2>3
<1>7. CASE ReceiveScenario(r)
  <2>1. ScenarioStatus(c) = Refusal(c)
    BY <1>3, <1>4, <1>7 DEF ReceiveScenario
  <2>2. CASE Refusal(c) = 200
    <3>1. GoTo(r, "looking")
      BY <1>4, <1>7, <2>1, <2>2 DEF ReceiveScenario
    <3> QED BY <1>1, <1>2, <1>4, <2>2, <3>1, GoingKeeps
  <2>3. CASE Refusal(c) # 200
    <3>1. AnswerWith(r, Refusal(c), NoId)
      BY <1>4, <1>7, <2>1, <2>3 DEF ReceiveScenario
    <3> QED BY <1>1, <1>2, <1>3, <1>4, <2>3, <3>1, RefusingKeeps
  <2> QED BY <2>2, <2>3
<1> QED BY <1>5, <1>6, <1>7

\* How it is looked up, and analysed.
LEMMA AnalysingKeeps ==
  ASSUME UploadInv, NEW r \in Requests,
         Reuse(r) \/ CallModel(r) \/ Analyse(r) \/ AnalysisFails(r)
  PROVE  UploadInv'
<1>1. pc[r] \in {"looking", "calling"} /\ case' = case
  BY DEF Reuse, CallModel, Analyse, AnalysisFails
<1>2. case[r] \in Cases /\ pc[r] # "answered" /\ Refusal(case[r]) = 200
  BY <1>1 DEF UploadInv, TypeOK, RequestOK
<1>3. CASE Reuse(r)
  <2>1. PICK s \in Known(r) : AnswerWith(r, 201, s)
    BY <1>3 DEF Reuse
  <2>2. s \in made /\ s \in Requests /\ ContentHash(case[s]) = ContentHash(case[r]) /\ made' = made
    BY <1>3, <2>1 DEF Reuse, Known, UploadInv, TypeOK
  <2> QED BY <1>1, <1>2, <2>1, <2>2, AnsweringKeeps
<1>4. CASE CallModel(r)
  <2>1. UNCHANGED <<case, made>>
    BY <1>4 DEF CallModel
  <2>2. CASE Storable(Text(case[r]))
    <3>1. GoTo(r, "calling")
      BY <1>4, <2>2 DEF CallModel
    <3> QED BY <1>2, <2>1, <2>2, <3>1, GoingKeeps
  <2>3. CASE ~Storable(Text(case[r]))
    <3>1. AnswerWith(r, 500, NoId)
      BY <1>4, <2>3 DEF CallModel
    <3> QED BY <1>2, <2>1, <2>3, <3>1, RefusingKeeps
  <2> QED BY <2>2, <2>3
<1>5. CASE Analyse(r)
  <2>1. AnswerWith(r, 201, r) /\ made' = made \cup {r}
    BY <1>5 DEF Analyse
  <2> QED BY <1>1, <1>2, <2>1, AnsweringKeeps
<1>6. CASE AnalysisFails(r)
  <2>1. AnswerWith(r, 502, NoId) /\ UNCHANGED <<case, made>>
    BY <1>6 DEF AnalysisFails
  <2> QED BY <1>2, <2>1, RefusingKeeps
<1> QED BY <1>3, <1>4, <1>5, <1>6

\* The inductive invariant: only what is not refused is looked up, and an answer carries
\* an analysis of the same hash or the reason why there is none.
THEOREM UploadInvariant == Spec => []UploadInv
<1>1. UploadInv /\ [Next]_vars => UploadInv'
  <2> SUFFICES ASSUME UploadInv, [Next]_vars PROVE UploadInv'
    OBVIOUS
  <2>1. CASE Next
    <3>1. PICK r \in Requests :
            \/ \E c \in Cases : Post(r, c)
            \/ ReceiveFile(r) \/ Extract(r) \/ ReceiveScenario(r)
            \/ Reuse(r) \/ CallModel(r) \/ Analyse(r) \/ AnalysisFails(r)
      BY <2>1 DEF Next
    <3> QED BY <3>1, PostKeeps, ReceivingKeeps, AnalysingKeeps
  <2>2. CASE UNCHANGED vars
    BY <2>2 DEF vars, UploadInv, TypeOK, RequestOK
  <2> QED BY <2>1, <2>2
<1> QED BY InitInv, <1>1, PTL DEF Spec

\* Types of all variables; an answer names a stored analysis with status 201 only.
THEOREM TypeCorrect == Spec => []TypeOK
<1>1. UploadInv => TypeOK
  BY DEF UploadInv
<1> QED BY <1>1, UploadInvariant, PTL

-----------------------------------------------------------------------------
(* What the answers are worth.                                             *)

\* Who is answered with an analysis, and whose text it was made of.
LEMMA Answered ==
  ASSUME UploadInv, NEW r \in Requests, status[r] = 201
  PROVE  /\ case[r] \in Cases /\ answer[r] \in Requests /\ case[answer[r]] \in Cases
         /\ Text(case[r]) = Text(case[answer[r]])
         /\ case[r].flow = case[answer[r]].flow
<1>1. pc[r] = "answered" /\ answer[r] \in made /\ answer[r] \in Requests
  BY DEF UploadInv, TypeOK, RequestOK
<1>2. pc[answer[r]] = "answered"
  BY <1>1 DEF UploadInv, RequestOK
<1>3. case[r] \in Cases /\ case[answer[r]] \in Cases
  BY <1>1, <1>2 DEF UploadInv, TypeOK
<1>4. ContentHash(case[answer[r]]) = ContentHash(case[r])
  BY DEF UploadInv, RequestOK
<1>5. Text(case[r]) = Text(case[answer[r]]) /\ case[r].flow = case[answer[r]].flow
  BY <1>4 DEF ContentHash
<1> QED BY <1>1, <1>3, <1>5

\* Whoever's analysis an answer carries, its prompt had the words of the pages that are
\* read, or of the paragraphs and then the tables, apart and in order: all of them, or as
\* many as fill it.
THEOREM AnswerReads == Spec => []AnswerReadsCase
<1>1. UploadInv => AnswerReadsCase
  <2> SUFFICES ASSUME UploadInv, NEW r \in Requests, status[r] = 201
               PROVE  LET read == Normal(PromptFor(r))
                          words == Normal(FullText(case[r])) IN
                      /\ Len(PromptFor(r)) <= MaxText
                      /\ \/ IsPrefix(words, read)
                         \/ Len(PromptFor(r)) = MaxText /\ IsPrefix(read, words)
    BY DEF AnswerReadsCase
  <2>1. /\ case[r] \in Cases /\ case[answer[r]] \in Cases
        /\ Text(case[r]) = Text(case[answer[r]])
    BY Answered
  <2> QED BY <2>1, PromptReads DEF PromptFor
<1> QED BY <1>1, UploadInvariant, PTL

\* A file that its extractor opens, with enough text where it is looked for, is never
\* refused as too large, of the wrong type or too short.
THEOREM EnoughTextTaken == Spec => []EnoughTextIsTaken
<1>1. UploadInv => EnoughTextIsTaken
  <2> SUFFICES ASSUME UploadInv, NEW r \in Requests, pc[r] = "answered", EnoughText(case[r])
               PROVE  status[r] \notin {413, 415, 422}
    BY DEF EnoughTextIsTaken
  <2>1. case[r] \in Cases
    BY DEF UploadInv, TypeOK
  <2>2. Refusal(case[r]) \in {200, 500}
    BY <2>1, EnoughTextRefusal
  <2>3. IF Refusal(case[r]) # 200 THEN status[r] = Refusal(case[r])
        ELSE status[r] \in {201, 502} \/ (status[r] = 500 /\ ~Storable(Text(case[r])))
    BY DEF UploadInv, RequestOK
  <2> QED BY <2>2, <2>3
<1> QED BY <1>1, UploadInvariant, PTL

\* Extra context is lost only behind a prompt that is full, or to an analysis made with
\* another context.
THEOREM ContextRead == Spec => []ContextIsRead
<1>1. UploadInv => ContextIsRead
  <2> SUFFICES ASSUME UploadInv, NEW r \in Requests, status[r] = 201, case[r].extra # <<>>,
                      case[answer[r]].extra = case[r].extra
               PROVE  IsSuffix(case[r].extra, PromptFor(r)) \/ Len(PromptFor(r)) = MaxText
    BY DEF ContextIsRead
  <2> DEFINE d == case[answer[r]]
             w == Content(d)
             e == d.extra
             p == Prompt(d)
  <2>1. d \in Cases /\ case[r] \in Cases /\ e # <<>>
    BY Answered
  <2>2. d.flow = "file"
    BY <2>1, CasesAssumption
  <2>3. p = Capped(w) /\ PromptFor(r) = p /\ case[r].extra = e
    BY DEF Prompt, PromptFor
  <2> HIDE DEF d, w, p
  <2>4. /\ w \in Seq(Chars) /\ e \in Seq(Chars)
        /\ \E u \in Seq(Chars) : w = u \o e
    BY <2>1, <2>2, ContentType, CasesAssumption DEF w
  <2> HIDE DEF e
  <2>5. PICK u \in Seq(Chars) : w = u \o e
    BY <2>4
  <2>6. IsSuffix(e, w)
    BY <2>4, <2>5, AppendedIsSuffix
  <2>7. /\ Len(w) <= MaxText => p = w
        /\ Len(w) >= MaxText => Len(p) = MaxText
    BY <2>3, <2>4, CappedType
  <2>8. Len(w) <= MaxText \/ Len(w) >= MaxText
    BY <2>4, TextAssumption
  <2> QED BY <2>3, <2>6, <2>7, <2>8
<1> QED BY <1>1, UploadInvariant, PTL

=============================================================================
