-------------------------- MODULE JsonRepairProofs --------------------------
(***************************************************************************)
(* What the layers of LLMService._robust_parse do, for replies of any      *)
(* length.                                                                 *)
(***************************************************************************)
EXTENDS JsonRepair, SubsequencesProofs

-----------------------------------------------------------------------------
(* The reader.                                                             *)

\* Where a reader is inside the object, and where it can be at all.
Inside == {"first", "next", "value", "string", "escape", "number", "after", "cut"}
Modes == Inside \cup {"start", "done", "error"}

Readers ==
  {st \in [mode : Modes, open : Seq(Openers)] :
     /\ st.mode \in Inside => st.open # <<>>
     /\ st.mode \in {"start", "done"} => st.open = <<>>}

LEMMA NotReadType == NotRead \in Readers
BY DEF NotRead, Readers, Modes, Inside, Openers

\* What is open in an object, its innermost bracket and the others.
LEMMA OpenType ==
  ASSUME NEW o \in Seq(Openers)
  PROVE  /\ \A t \in Openers : Append(o, t) \in Seq(Openers) /\ Append(o, t) # <<>>
         /\ o # <<>> => /\ Len(o) \in Nat /\ Len(o) >= 1
                        /\ Last(o) \in Openers
                        /\ Front(o) \in Seq(Openers) /\ Len(Front(o)) = Len(o) - 1
                        /\ Front(o) = <<>> <=> Len(o) = 1
<1>1. \A t \in Openers : Append(o, t) \in Seq(Openers) /\ Append(o, t) # <<>>
  BY AppendProperties
<1>2. ASSUME o # <<>>
      PROVE  /\ Len(o) \in Nat /\ Len(o) >= 1
             /\ Last(o) \in Openers
             /\ Front(o) \in Seq(Openers) /\ Len(Front(o)) = Len(o) - 1
  <2>1. Len(o) \in Nat /\ Len(o) >= 1
    BY <1>2, EmptySeq
  <2>2. o[Len(o)] \in Openers
    BY <2>1, ElementOfSeq
  <2>3. SubSeq(o, 1, Len(o) - 1) \in Seq(Openers) /\ Len(SubSeq(o, 1, Len(o) - 1)) = Len(o) - 1
    <3> DEFINE k == Len(o) - 1
    <3>1. k \in Nat /\ \A i \in 1 .. k : o[i] \in Openers
      BY <2>1, ElementOfSeq
    <3> HIDE DEF k
    <3>2. SubSeq(o, 1, k) \in Seq(Openers) /\ Len(SubSeq(o, 1, k)) = k
      BY <3>1, SubSeqProperties
    <3> QED BY <3>2 DEF k
  <2> QED BY <2>1, <2>2, <2>3 DEF Last, Front
<1>3. Len(<<>>) = 0 /\ \A q \in Seq(Openers) : q # <<>> => Len(q) # 0
  BY EmptySeq
<1>4. o # <<>> => (Front(o) = <<>> <=> Len(o) = 1)
  BY <1>2, <1>3
<1> QED BY <1>1, <1>2, <1>4

LEMMA ReadValueType ==
  ASSUME NEW st \in Readers, NEW t \in Tokens, st.mode = "start" => t = "lbrace",
         st.open = <<>> => st.mode = "start"
  PROVE  ReadValue(st, t) \in Readers /\ ReadValue(st, t).mode \notin {"start", "done"}
<1>1. t \in Openers => Append(st.open, t) \in Seq(Openers) /\ Append(st.open, t) # <<>>
  BY OpenType DEF Readers
<1>2. "lbrace" \in Openers
  BY DEF Openers
<1>3. /\ ReadValue(st, t) \in [mode : Modes \ {"start", "done"}, open : Seq(Openers)]
      /\ ReadValue(st, t).open # <<>>
  BY <1>1, <1>2 DEF ReadValue, Readers, Modes, Inside
<1> QED BY <1>3 DEF Readers

LEMMA ReadEndType ==
  ASSUME NEW st \in Readers, NEW t \in Tokens, st.open # <<>>
  PROVE  ReadEnd(st, t) \in Readers /\ ReadEnd(st, t).mode \in {"done", "after", "error"}
<1>1. /\ Len(st.open) \in Nat /\ Len(st.open) >= 1
      /\ Front(st.open) \in Seq(Openers)
      /\ Front(st.open) = <<>> <=> Len(st.open) = 1
  BY OpenType DEF Readers
<1>2. CASE t \in Closers /\ t = Closer(Last(st.open))
  <2>1. ReadEnd(st, t) = [mode |-> IF Len(st.open) = 1 THEN "done" ELSE "after",
                          open |-> Front(st.open)]
    BY <1>2 DEF ReadEnd
  <2> QED BY <1>1, <2>1 DEF Readers, Modes, Inside
<1>3. CASE ~(t \in Closers /\ t = Closer(Last(st.open)))
  <2>1. ReadEnd(st, t) = [st EXCEPT !.mode = "error"]
    BY <1>3 DEF ReadEnd
  <2> QED BY <2>1 DEF Readers, Modes, Inside
<1> QED BY <1>2, <1>3

LEMMA ReadItemType ==
  ASSUME NEW st \in Readers, NEW t \in Tokens, st.open # <<>>
  PROVE  ReadItem(st, t) \in Readers /\ ReadItem(st, t).mode \notin {"start", "done"}
<1>1. CASE Last(st.open) = "lbracket"
  <2>1. ReadItem(st, t) = ReadValue(st, t) /\ st.mode # "start"
    BY <1>1 DEF ReadItem, Readers
  <2> QED BY <2>1, ReadValueType
<1>2. CASE Last(st.open) # "lbracket"
  <2>1. \E m \in {"value", "cut", "error"} : ReadItem(st, t) = [st EXCEPT !.mode = m]
    BY <1>2 DEF ReadItem
  <2> QED BY <2>1 DEF Readers, Modes, Inside
<1> QED BY <1>1, <1>2

\* Every token takes the reader somewhere, and never back to the start.
LEMMA ReadType ==
  ASSUME NEW st \in Readers, NEW t \in Tokens
  PROVE  Read(st, t) \in Readers /\ Read(st, t).mode # "start"
<1>1. st.mode \in Inside => st.open # <<>>
  BY DEF Readers
<1>2. CASE st.mode = "start"
  BY <1>2, ReadValueType DEF Read, Readers, Modes, Inside
<1>3. CASE st.mode = "first"
  <2>1. Read(st, t) = IF t \in Closers THEN ReadEnd(st, t) ELSE ReadItem(st, t)
    BY <1>3 DEF Read
  <2> QED BY <1>1, <1>3, <2>1, ReadEndType, ReadItemType DEF Inside
<1>4. CASE st.mode = "next"
  <2>1. Read(st, t) = ReadItem(st, t)
    BY <1>4 DEF Read
  <2> QED BY <1>1, <1>4, <2>1, ReadItemType DEF Inside
<1>5. CASE st.mode = "value"
  <2>1. Read(st, t) = ReadValue(st, t)
    BY <1>5 DEF Read
  <2> QED BY <1>1, <1>5, <2>1, ReadValueType DEF Inside
<1>6. CASE st.mode \in {"string", "escape"}
  <2>1. \E m \in {"after", "escape", "error", "string"} : Read(st, t) = [st EXCEPT !.mode = m]
    BY <1>6 DEF Read
  <2> QED BY <1>1, <1>6, <2>1 DEF Readers, Modes, Inside
<1>7. CASE st.mode \in {"number", "after"}
  <2>1. \/ Read(st, t) = [st EXCEPT !.mode = "next"]
        \/ Read(st, t) = st
        \/ Read(st, t) = ReadEnd(st, t)
    BY <1>7 DEF Read
  <2>2. CASE Read(st, t) = [st EXCEPT !.mode = "next"]
    BY <1>1, <1>7, <2>2 DEF Readers, Modes, Inside
  <2> QED BY <1>1, <1>7, <2>1, <2>2, ReadEndType DEF Inside
<1>8. CASE st.mode \in {"cut", "done", "error"}
  <2>1. Read(st, t) = [st EXCEPT !.mode = "error"]
    BY <1>8 DEF Read
  <2> QED BY <2>1 DEF Readers, Modes, Inside
<1> QED BY <1>2, <1>3, <1>4, <1>5, <1>6, <1>7, <1>8 DEF Readers, Modes, Inside

\* Reading goes through a text step by step.
LEMMA ReadingSteps ==
  ASSUME NEW s, Len(s) \in Nat
  PROVE  /\ Reading(s)[0] = NotRead
         /\ \A n \in 1 .. Len(s) : Reading(s)[n] = Read(Reading(s)[n - 1], s[n])
<1> DEFINE Step(st, n) == Read(st, s[n])
           T == {m \in Nat : \E f : f = [n \in 0 .. m |-> IF n = 0 THEN NotRead
                                                         ELSE Step(f[n - 1], n)]}
<1>1. Reading(s) = CHOOSE f : f = [n \in 0 .. Len(s) |-> IF n = 0 THEN NotRead
                                                        ELSE Step(f[n - 1], n)]
  BY DEF Reading
<1>2. 0 \in T
  <2> HIDE DEF Step
  <2> DEFINE g == [n \in 0 .. 0 |-> NotRead]
  <2>1. g = [n \in 0 .. 0 |-> IF n = 0 THEN NotRead ELSE Step(g[n - 1], n)]
    OBVIOUS
  <2> HIDE DEF g
  <2> QED BY <2>1
<1>3. ASSUME NEW m \in Nat, m \in T PROVE m + 1 \in T
  <2> HIDE DEF Step
  <2>1. PICK f : f = [n \in 0 .. m |-> IF n = 0 THEN NotRead ELSE Step(f[n - 1], n)]
    BY <1>3
  <2> DEFINE g == [n \in 0 .. m + 1 |-> IF n = m + 1 THEN Step(f[m], m + 1) ELSE f[n]]
  <2>2. \A n \in 0 .. m : /\ g[n] = f[n]
                          /\ f[n] = IF n = 0 THEN NotRead ELSE Step(f[n - 1], n)
    BY <2>1
  <2>3. \A n \in 0 .. m + 1 : g[n] = IF n = 0 THEN NotRead ELSE Step(g[n - 1], n)
    BY <2>2
  <2>4. g = [n \in 0 .. m + 1 |-> IF n = 0 THEN NotRead ELSE Step(g[n - 1], n)]
    BY <2>3
  <2> HIDE DEF g
  <2> QED BY <2>4
<1>4. Len(s) \in T
  <2> HIDE DEF T
  <2> QED BY <1>2, <1>3, Induction
<1> HIDE DEF Step
<1>5. \E f : f = [n \in 0 .. Len(s) |-> IF n = 0 THEN NotRead ELSE Step(f[n - 1], n)]
  BY <1>4
<1>6. Reading(s) = [n \in 0 .. Len(s) |-> IF n = 0 THEN NotRead
                                         ELSE Step(Reading(s)[n - 1], n)]
  BY <1>1, <1>5
<1>7. /\ Reading(s)[0] = NotRead
      /\ \A n \in 1 .. Len(s) : Reading(s)[n] = Step(Reading(s)[n - 1], n)
  BY <1>6
<1> QED BY <1>7 DEF Step

\* Which keeps it among the readers.
LEMMA ReadingType ==
  ASSUME NEW s \in Seq(Tokens)
  PROVE  /\ \A n \in 0 .. Len(s) : Reading(s)[n] \in Readers
         /\ \A n \in 1 .. Len(s) : Reading(s)[n].mode # "start"
<1> DEFINE T == {n \in Nat : Reading(s)[n] \in Readers}
<1>1. Len(s) \in Nat /\ \A n \in 1 .. Len(s) : s[n] \in Tokens
  OBVIOUS
<1>2. 0 \in T
  BY <1>1, ReadingSteps, NotReadType
<1>3. ASSUME NEW n \in 0 .. Len(s) - 1, n \in T PROVE n + 1 \in T
  <2>1. n + 1 \in 1 .. Len(s) /\ (n + 1) - 1 = n /\ s[n + 1] \in Tokens
    BY <1>1
  <2>2. Reading(s)[n + 1] = Read(Reading(s)[n], s[n + 1])
    BY <1>1, <2>1, ReadingSteps
  <2> QED BY <1>3, <2>1, <2>2, ReadType
<1>4. \A n \in 0 .. Len(s) : n \in T
  <2> HIDE DEF T
  <2> QED BY <1>1, <1>2, <1>3, InductionBetween
<1>5. ASSUME NEW n \in 1 .. Len(s) PROVE Reading(s)[n].mode # "start"
  <2>1. n - 1 \in 0 .. Len(s) /\ Reading(s)[n - 1] \in Readers
    BY <1>1, <1>4
  <2> QED BY <1>1, <2>1, ReadingSteps, ReadType
<1> QED BY <1>4, <1>5

\* Where texts agree, they are read alike.
LEMMA ReadingAgrees ==
  ASSUME NEW s \in Seq(Tokens), NEW t \in Seq(Tokens), NEW m \in Nat,
         m <= Len(s), m <= Len(t), \A i \in 1 .. m : s[i] = t[i]
  PROVE  \A n \in 0 .. m : Reading(s)[n] = Reading(t)[n]
<1> DEFINE T == {n \in Nat : Reading(s)[n] = Reading(t)[n]}
<1>1. Len(s) \in Nat /\ Len(t) \in Nat
  OBVIOUS
<1>2. 0 \in T
  BY <1>1, ReadingSteps
<1>3. ASSUME NEW n \in 0 .. m - 1, n \in T PROVE n + 1 \in T
  <2>1. n + 1 \in 1 .. Len(s) /\ n + 1 \in 1 .. Len(t) /\ (n + 1) - 1 = n /\ n + 1 \in 1 .. m
    BY <1>1
  <2>2. /\ Reading(s)[n + 1] = Read(Reading(s)[n], s[n + 1])
        /\ Reading(t)[n + 1] = Read(Reading(t)[n], t[n + 1])
    BY <1>1, <2>1, ReadingSteps
  <2> QED BY <1>3, <2>1, <2>2
<1>4. \A n \in 0 .. m : n \in T
  <2> HIDE DEF T
  <2> QED BY <1>2, <1>3, InductionBetween
<1> QED BY <1>4

\* Behind the end of an object, or an error, everything is an error.
LEMMA DoneOnce ==
  ASSUME NEW s \in Seq(Tokens), NEW k \in 0 .. Len(s), Reading(s)[k].mode \in {"done", "error"}
  PROVE  \A n \in k + 1 .. Len(s) : Reading(s)[n].mode = "error"
<1> DEFINE T == {n \in Nat : Reading(s)[n].mode \in {"done", "error"}}
<1>1. Len(s) \in Nat
  OBVIOUS
<1>2. ASSUME NEW n \in k .. Len(s) - 1, n \in T PROVE Reading(s)[n + 1].mode = "error"
  <2>1. n + 1 \in 1 .. Len(s) /\ (n + 1) - 1 = n /\ n \in 0 .. Len(s)
    BY <1>1
  <2>2. Reading(s)[n + 1] = Read(Reading(s)[n], s[n + 1]) /\ Reading(s)[n] \in Readers
    BY <1>1, <2>1, ReadingSteps, ReadingType
  <2>3. Read(Reading(s)[n], s[n + 1]) = [Reading(s)[n] EXCEPT !.mode = "error"]
    BY <1>2 DEF Read
  <2> QED BY <2>2, <2>3 DEF Readers
<1>3. \A n \in k .. Len(s) : n \in T
  <2>1. k \in T /\ k \in Nat
    OBVIOUS
  <2>2. \A n \in k .. Len(s) - 1 : n \in T => n + 1 \in T
    BY <1>1, <1>2
  <2> HIDE DEF T
  <2> QED BY <1>1, <2>1, <2>2, InductionBetween
<1>4. ASSUME NEW n \in k + 1 .. Len(s) PROVE Reading(s)[n].mode = "error"
  <2>1. n - 1 \in k .. Len(s) - 1 /\ (n - 1) + 1 = n
    BY <1>1
  <2>2. n - 1 \in T
    BY <1>1, <1>3, <2>1
  <2> QED BY <1>2, <2>1, <2>2
<1> QED BY <1>4

\* One token more is one more step of the reader.
LEMMA ReadingOn ==
  ASSUME NEW s \in Seq(Tokens), NEW t \in Tokens
  PROVE  /\ Append(s, t) \in Seq(Tokens) /\ Len(Append(s, t)) = Len(s) + 1
         /\ Append(s, t)[Len(s) + 1] = t /\ \A i \in 1 .. Len(s) : Append(s, t)[i] = s[i]
         /\ \A n \in 0 .. Len(s) : Reading(Append(s, t))[n] = Reading(s)[n]
         /\ Reading(Append(s, t))[Len(s) + 1] = Read(Reading(s)[Len(s)], t)
<1> DEFINE a == Append(s, t)
<1>1. /\ a \in Seq(Tokens) /\ Len(a) = Len(s) + 1 /\ Len(s) \in Nat
      /\ a[Len(s) + 1] = t /\ \A i \in 1 .. Len(s) : a[i] = s[i]
  BY AppendProperties
<1> HIDE DEF a
<1>2. \A n \in 0 .. Len(s) : Reading(a)[n] = Reading(s)[n]
  BY <1>1, ReadingAgrees
<1>3. Reading(a)[Len(s) + 1] = Read(Reading(a)[Len(s)], t)
  <2>1. Len(s) + 1 \in 1 .. Len(a) /\ (Len(s) + 1) - 1 = Len(s) /\ Len(a) \in Nat
    BY <1>1
  <2> QED BY <1>1, <2>1, ReadingSteps
<1>4. Reading(a)[Len(s)] = Reading(s)[Len(s)]
  BY <1>1, <1>2
<1> QED BY <1>1, <1>2, <1>3, <1>4 DEF a

-----------------------------------------------------------------------------
(* The reply.                                                              *)

\* Init establishes the inductive invariant.
LEMMA RepairInit == Init => RepairInv
<1> SUFFICES ASSUME Init PROVE RepairInv
  OBVIOUS
<1> DEFINE none == <<>>
<1>1. text = Append(none, "lbrace") /\ none \in Seq(Tokens) /\ Len(none) = 0
  <2>1. text = Append(none, "lbrace")
    BY DEF Init
  <2> QED BY <2>1, EmptySeq
<1>2. "lbrace" \in Tokens
  BY DEF Tokens, Openers
<1> HIDE DEF none
<1>3. /\ text \in Seq(Tokens) /\ Len(text) = 1 /\ text[1] = "lbrace"
      /\ Reading(text)[1] = Read(NotRead, "lbrace")
  <2>1. /\ text \in Seq(Tokens) /\ Len(text) = Len(none) + 1 /\ text[Len(none) + 1] = "lbrace"
        /\ Reading(text)[Len(none) + 1] = Read(Reading(none)[Len(none)], "lbrace")
    BY <1>1, <1>2, ReadingOn
  <2>2. Reading(none)[0] = NotRead
    BY <1>1, ReadingSteps
  <2> QED BY <1>1, <2>1, <2>2
<1>4. Read(NotRead, "lbrace").mode = "first"
  <2>1. NotRead.mode = "start"
    BY DEF NotRead
  <2>2. Read(NotRead, "lbrace") = ReadValue(NotRead, "lbrace")
    BY <2>1 DEF Read
  <2>3. "lbrace" \in Openers
    BY DEF Openers
  <2> QED BY <2>2, <2>3 DEF ReadValue
<1>5. "fence" \notin ToSet(text)
  <2>1. DOMAIN text = 1 .. 1
    BY <1>3, LenProperties
  <2> QED BY <1>3, <2>1 DEF ToSet
<1>6. Len(text) <= MaxLength
  BY <1>3, LengthAssumption
<1> QED BY <1>3, <1>4, <1>5, <1>6, EmptySeq DEF Init, RepairInv, TypeOK

\* And every step keeps it.
LEMMA RepairStep == RepairInv /\ [Next]_vars => RepairInv'
<1> SUFFICES ASSUME RepairInv, [Next]_vars PROVE RepairInv'
  OBVIOUS
<1>1. ASSUME NEW t \in Tokens \ {"fence"}, Emit(t) PROVE RepairInv'
  <2>0. /\ text \in Seq(Tokens) /\ text' = Append(text, t) /\ Len(text) < MaxLength
        /\ object = <<>> /\ reader' = Read(reader, t) /\ reader = Reading(text)[Len(text)]
    BY <1>1 DEF Emit, RepairInv, TypeOK
  <2>1. /\ text' \in Seq(Tokens)
        /\ Len(text) \in Nat /\ Len(text') = Len(text) + 1 /\ text'[Len(text) + 1] = t
        /\ \A i \in 1 .. Len(text) : text'[i] = text[i]
        /\ Reading(text')[Len(text) + 1] = reader'
    BY <2>0, ReadingOn
  <2>2. Reading(text')[Len(text')] = reader'
    BY <2>1
  <2>3. reader'.mode # "start"
    <3>1. Len(text) \in 0 .. Len(text)
      BY <2>1
    <3>2. reader \in Readers
      BY <2>0, <3>1, ReadingType
    <3> QED BY <2>0, <3>2, ReadType
  <2>4. "fence" \notin ToSet(text')
    <3>1. DOMAIN text = 1 .. Len(text) /\ DOMAIN text' = 1 .. Len(text) + 1
      BY <2>0, <2>1, LenProperties
    <3>2. \A i \in 1 .. Len(text) : text[i] # "fence"
      BY <2>0, <3>1 DEF ToSet, RepairInv
    <3> QED BY <1>1, <2>1, <3>1, <3>2 DEF ToSet
  <2>5. Len(text') <= MaxLength
    BY <2>0, <2>1, LengthAssumption
  <2>6. CASE reader'.mode = "done"
    <3>1. object' = text' /\ object' # <<>>
      BY <1>1, <2>1, <2>6 DEF Emit
    <3> QED BY <2>1, <2>2, <2>5, <2>6, <3>1, PrefixAgrees DEF RepairInv, TypeOK, Loads
  <2>7. CASE reader'.mode # "done"
    <3>1. object' = <<>> /\ reader'.mode # "error"
      BY <1>1, <2>7 DEF Emit
    <3> QED BY <2>1, <2>2, <2>3, <2>4, <2>5, <2>7, <3>1 DEF RepairInv, TypeOK
  <2> QED BY <2>6, <2>7
<1>2. ASSUME NEW t \in Tokens, Trail(t) PROVE RepairInv'
  <2>0. text \in Seq(Tokens) /\ text' = Append(text, t)
    BY <1>2 DEF Trail, RepairInv, TypeOK
  <2>1. /\ text' \in Seq(Tokens)
        /\ Len(text) \in Nat /\ Len(text') = Len(text) + 1
        /\ \A i \in 1 .. Len(text) : text'[i] = text[i]
    BY <2>0, ReadingOn
  <2>2. object' = object /\ object # <<>> /\ object \in Seq(Tokens) /\ Loads(object)
    BY <1>2 DEF Trail, RepairInv, TypeOK
  <2>3. IsPrefix(object, text')
    <3>1. IsPrefix(object, text)
      BY <2>2 DEF RepairInv, TypeOK
    <3>2. Len(object) <= Len(text) /\ \A i \in 1 .. Len(object) : object[i] = text[i]
      BY <2>0, <2>2, <3>1, PrefixAgrees
    <3>3. Len(object) <= Len(text') /\ \A i \in 1 .. Len(object) : object[i] = text'[i]
      BY <2>1, <2>2, <3>2
    <3> QED BY <2>1, <2>2, <3>3, PrefixAgrees
  <2>4. Len(text') <= MaxLength
    BY <1>2, <2>1, LengthAssumption DEF Trail
  <2> QED BY <2>1, <2>2, <2>3, <2>4 DEF RepairInv, TypeOK
<1>3. CASE UNCHANGED vars
  BY <1>3 DEF vars, RepairInv, TypeOK
<1> QED BY <1>1, <1>2, <1>3 DEF Next

\* A reply that has no object yet is somewhere inside one, and one that has it is
\* led by it, after any number of tokens.
THEOREM RepairInvariant == Spec => []RepairInv
<1> QED BY RepairInit, RepairStep, PTL DEF Spec

\* Every variable keeps its type, and the reader is where the text has got it.
THEOREM TypeCorrect == Spec => []TypeOK
<1>1. RepairInv => TypeOK
  BY DEF RepairInv
<1> QED BY <1>1, RepairInvariant, PTL

-----------------------------------------------------------------------------
(* An object among what follows it.                                        *)

\* What loads has a token, and its last one closes a bracket.
LEMMA LoadsEnds ==
  ASSUME NEW s \in Seq(Tokens), Loads(s)
  PROVE  Len(s) \in Nat \ {0} /\ s[Len(s)] \in Closers
<1>1. Len(s) \in Nat /\ Reading(s)[Len(s)].mode = "done"
  BY DEF Loads
<1>2. Len(s) # 0
  <2>1. Reading(s)[0].mode = "start"
    BY <1>1, ReadingSteps DEF NotRead
  <2> QED BY <1>1, <2>1
<1> DEFINE st == Reading(s)[Len(s) - 1]
           t == s[Len(s)]
<1>3. st \in Readers /\ t \in Tokens /\ Read(st, t).mode = "done"
  BY <1>1, <1>2, ReadingSteps, ReadingType, ElementOfSeq
<1> HIDE DEF st, t
<1>4. t \in Closers
  <2>1. /\ st.mode \in Inside => st.open # <<>>
        /\ st.mode \in Modes
    BY <1>3 DEF Readers
  <2>2. CASE st.mode = "start"
    BY <1>3, <2>2, ReadValueType DEF Read, Readers
  <2>3. CASE st.mode = "first" /\ t \notin Closers
    <3>1. Read(st, t) = ReadItem(st, t)
      BY <2>3 DEF Read
    <3> QED BY <1>3, <2>1, <2>3, <3>1, ReadItemType DEF Inside
  <2>4. CASE st.mode = "next"
    <3>1. Read(st, t) = ReadItem(st, t)
      BY <2>4 DEF Read
    <3> QED BY <1>3, <2>1, <2>4, <3>1, ReadItemType DEF Inside
  <2>5. CASE st.mode = "value"
    <3>1. Read(st, t) = ReadValue(st, t)
      BY <2>5 DEF Read
    <3> QED BY <1>3, <2>1, <2>5, <3>1, ReadValueType DEF Inside
  <2>6. CASE st.mode \in {"string", "escape"}
    BY <1>3, <2>6 DEF Read, Readers
  <2>7. CASE st.mode \in {"number", "after"}
    <3>1. \/ Read(st, t).mode = "next"
          \/ Read(st, t) = st
          \/ Read(st, t) = ReadEnd(st, t)
      BY <1>3, <2>7 DEF Read, Readers
    <3>2. Read(st, t) = ReadEnd(st, t)
      BY <1>3, <2>7, <3>1
    <3> QED BY <1>3, <3>2 DEF ReadEnd, Readers
  <2>8. CASE st.mode \in {"cut", "done", "error"}
    BY <1>3, <2>8 DEF Read, Readers
  <2> QED BY <2>1, <2>2, <2>3, <2>4, <2>5, <2>6, <2>7, <2>8 DEF Modes, Inside
<1> QED BY <1>1, <1>2, <1>4 DEF t

\* No text comes to the end of an object twice.
LEMMA LoadsOnce ==
  ASSUME NEW s \in Seq(Tokens), NEW m \in 0 .. Len(s), NEW n \in 0 .. Len(s),
         Reading(s)[m].mode = "done", Reading(s)[n].mode = "done"
  PROVE  m = n
<1>1. Len(s) \in Nat
  OBVIOUS
<1>2. ~(m < n)
  <2>1. m < n => n \in m + 1 .. Len(s)
    BY <1>1
  <2> QED BY <2>1, DoneOnce
<1>3. ~(n < m)
  <2>1. n < m => m \in n + 1 .. Len(s)
    BY <1>1
  <2> QED BY <2>1, DoneOnce
<1> QED BY <1>1, <1>2, <1>3

\* A prefix that loads is where the text comes to the end of an object.
LEMMA PrefixLoads ==
  ASSUME NEW s \in Seq(Tokens), NEW o \in Seq(Tokens), IsPrefix(o, s)
  PROVE  /\ Len(o) \in 0 .. Len(s) /\ \A i \in 1 .. Len(o) : o[i] = s[i]
         /\ Loads(o) <=> Reading(s)[Len(o)].mode = "done"
<1>1. Len(o) \in 0 .. Len(s) /\ Len(o) \in Nat /\ \A i \in 1 .. Len(o) : o[i] = s[i]
  BY PrefixAgrees
<1>2. Reading(o)[Len(o)] = Reading(s)[Len(o)]
  BY <1>1, ReadingAgrees
<1> QED BY <1>1, <1>2 DEF Loads

\* Prefixes of a text that load are the same.
LEMMA PrefixesThatLoad ==
  ASSUME NEW s \in Seq(Tokens), NEW o \in Seq(Tokens), NEW q \in Seq(Tokens),
         IsPrefix(o, s), IsPrefix(q, s), Loads(o), Loads(q)
  PROVE  o = q
<1>1. Len(o) = Len(q)
  BY PrefixLoads, LoadsOnce
<1> QED BY <1>1, PrefixLoads, SeqEqual

\* What is stripped off behind an object is at most a fence.
LEMMA StrippedBehind ==
  ASSUME NEW t \in Seq(Tokens), NEW o \in Seq(Tokens), IsPrefix(o, t), Loads(o)
  PROVE  /\ Stripped(t) \in Seq(Tokens) /\ IsPrefix(o, Stripped(t))
         /\ \/ Stripped(t) = t /\ t[Len(t)] # "fence"
            \/ t[Len(t)] = "fence" /\ Len(Stripped(t)) = Len(t) - 1
         /\ \A i \in 1 .. Len(Stripped(t)) : Stripped(t)[i] = t[i]
<1>1. /\ Len(o) \in Nat \ {0} /\ o[Len(o)] \in Closers
      /\ Len(o) \in 0 .. Len(t) /\ \A i \in 1 .. Len(o) : o[i] = t[i]
      /\ Len(t) \in Nat \ {0} /\ t # <<>>
  <2>1. Len(o) \in Nat \ {0} /\ Len(o) \in 0 .. Len(t)
    BY LoadsEnds, PrefixLoads
  <2> QED BY <2>1, LoadsEnds, PrefixLoads, EmptySeq
<1>2. CASE t[Len(t)] # "fence"
  <2>1. Stripped(t) = t
    BY <1>2 DEF Stripped, Last
  <2> QED BY <1>2, <2>1
<1>3. CASE t[Len(t)] = "fence"
  <2> DEFINE n == Len(t) - 1
  <2>1. Stripped(t) = SubSeq(t, 1, n)
    BY <1>1, <1>3 DEF Stripped, Last, Front
  <2>2. n \in 0 .. Len(t)
    BY <1>1
  <2>3. Stripped(t) \in Seq(Tokens) /\ Len(Stripped(t)) = n /\ \A i \in 1 .. n : Stripped(t)[i] = t[i]
    <3> HIDE DEF n
    <3> QED BY <2>1, <2>2, FrontOf
  <2>4. Len(o) # Len(t)
    <3>1. "fence" \notin Closers
      BY DEF Closers
    <3> QED BY <1>1, <1>3, <3>1
  <2>5. Len(o) <= n /\ \A i \in 1 .. Len(o) : o[i] = Stripped(t)[i]
    BY <1>1, <2>3, <2>4
  <2> QED BY <1>3, <2>3, <2>5, PrefixAgrees
<1> QED BY <1>2, <1>3

-----------------------------------------------------------------------------
(* The layers.                                                             *)

\* The first layer whose text loads answers with it.
LEMMA FirstThatLoads ==
  ASSUME NEW t
  PROVE  LET s == Stripped(t) IN
         /\ Loads(s) => RobustParse(t) = [layer |-> 1, parsed |-> s]
         /\ ~Loads(s) /\ Loads(LastBalanced(s))
              => RobustParse(t) = [layer |-> 2, parsed |-> LastBalanced(s)]
         /\ ~Loads(s) /\ ~Loads(LastBalanced(s)) /\ Loads(Repaired(s))
              => RobustParse(t) = [layer |-> 3, parsed |-> Repaired(s)]
         /\ ~Loads(s) /\ ~Loads(LastBalanced(s)) /\ ~Loads(Repaired(s))
              => RobustParse(t) = [layer |-> 4, parsed |-> <<>>]
<1> DEFINE s == Stripped(t)
           tries == <<s, LastBalanced(s), Repaired(s)>>
           layers == {i \in 1 .. 3 : Loads(tries[i])}
<1>1. RobustParse(t) = IF layers = {} THEN [layer |-> 4, parsed |-> <<>>]
                       ELSE [layer |-> Min(layers), parsed |-> tries[Min(layers)]]
  BY DEF RobustParse
<1>2. \A i \in 1 .. 3 : i = 1 \/ i = 2 \/ i = 3
  OBVIOUS
<1>3. /\ tries[1] = s /\ tries[2] = LastBalanced(s) /\ tries[3] = Repaired(s)
      /\ 1 \in layers <=> Loads(s)
      /\ 2 \in layers <=> Loads(LastBalanced(s))
      /\ 3 \in layers <=> Loads(Repaired(s))
  <2>1. tries[1] = s /\ tries[2] = LastBalanced(s) /\ tries[3] = Repaired(s)
    OBVIOUS
  <2> HIDE DEF tries, s
  <2> QED BY <2>1
<1>4. ASSUME NEW i \in layers, \A j \in layers : i <= j PROVE Min(layers) = i
  <2>1. \A j \in layers : j \in Int
    OBVIOUS
  <2> HIDE DEF layers
  <2>2. \A x \in layers : (\A y \in layers : x <= y) <=> x = i
    BY <1>4, <2>1
  <2> QED BY <2>2 DEF Min
<1> DEFINE answer == RobustParse(t)
<1> HIDE DEF tries, s, answer
<1>5. layers \subseteq 1 .. 3
  OBVIOUS
<1> HIDE DEF layers
<1>6. ASSUME NEW i \in layers, \A j \in layers : i <= j
      PROVE  answer = [layer |-> i, parsed |-> tries[i]]
  BY <1>1, <1>4, <1>6 DEF answer
<1>7. Loads(s) => answer = [layer |-> 1, parsed |-> s]
  BY <1>2, <1>3, <1>5, <1>6
<1>8. ~Loads(s) /\ Loads(LastBalanced(s)) => answer = [layer |-> 2, parsed |-> LastBalanced(s)]
  BY <1>2, <1>3, <1>5, <1>6
<1>9. /\ ~Loads(s) /\ ~Loads(LastBalanced(s)) /\ Loads(Repaired(s))
          => answer = [layer |-> 3, parsed |-> Repaired(s)]
      /\ ~Loads(s) /\ ~Loads(LastBalanced(s)) /\ ~Loads(Repaired(s)) => layers = {}
  BY <1>2, <1>3, <1>5, <1>6
<1> QED BY <1>1, <1>7, <1>8, <1>9 DEF s, answer

\* Layer 2 tries a front of the text.
LEMMA LastBalancedIsPrefix ==
  ASSUME NEW s \in Seq(Tokens)
  PROVE  LastBalanced(s) \in Seq(Tokens) /\ IsPrefix(LastBalanced(s), s)
<1>1. CASE Balanced(s) = {}
  <2> DEFINE none == <<>>
  <2>1. LastBalanced(s) = none
    BY <1>1 DEF LastBalanced
  <2>2. none \in Seq(Tokens) /\ Len(none) = 0 /\ Len(s) \in Nat
    BY EmptySeq
  <2> HIDE DEF none
  <2>3. IsPrefix(none, s)
    <3>1. Len(none) <= Len(s) /\ \A i \in 1 .. Len(none) : none[i] = s[i]
      BY <2>2
    <3> QED BY <2>2, <3>1, PrefixAgrees
  <2> QED BY <2>1, <2>2, <2>3
<1>2. CASE Balanced(s) # {}
  <2> DEFINE n == Max(Balanced(s))
  <2>1. Len(s) \in Nat /\ Balanced(s) \in SUBSET (1 .. Len(s))
    BY DEF Balanced, Where
  <2>2. n \in 0 .. Len(s)
    <3>1. n \in Balanced(s)
      BY <1>2, <2>1, LastPosition
    <3> HIDE DEF n
    <3> QED BY <2>1, <3>1
  <2>3. LastBalanced(s) = SubSeq(s, 1, n)
    BY <1>2 DEF LastBalanced
  <2> HIDE DEF n
  <2>4. /\ LastBalanced(s) \in Seq(Tokens) /\ Len(LastBalanced(s)) = n /\ n <= Len(s)
        /\ \A i \in 1 .. n : LastBalanced(s)[i] = s[i]
    BY <2>1, <2>2, <2>3, FrontOf
  <2> QED BY <2>4, PrefixAgrees
<1> QED BY <1>1, <1>2

\* An object with as many brackets closed as opened and no bracket behind it is
\* what layer 2 takes.
LEMMA BalancedObject ==
  ASSUME NEW s \in Seq(Tokens), NEW o \in Seq(Tokens), IsPrefix(o, s), Loads(o), Depth(o) = 0,
         \A i \in Len(o) + 1 .. Len(s) : s[i] \notin Closers
  PROVE  LastBalanced(s) = o
<1> DEFINE m == Len(o)
           B == Balanced(s)
<1>1. /\ m \in Nat \ {0} /\ o[m] \in Closers
      /\ m \in 0 .. Len(s) /\ \A i \in 1 .. m : o[i] = s[i]
      /\ Len(s) \in Nat
  BY LoadsEnds, PrefixLoads
<1>2. SubSeq(s, 1, m) = o
  <2> HIDE DEF m
  <2>1. m = Len(o)
    BY DEF m
  <2> QED BY <1>1, <2>1, FrontOf, SeqEqual
<1>3. m \in B
  <2>1. m \in 1 .. Len(s) /\ s[m] \in Closers
    BY <1>1
  <2>2. Depth(SubSeq(s, 1, m)) = 0
    BY <1>2
  <2> HIDE DEF m
  <2> QED BY <2>1, <2>2 DEF Balanced, Where
<1>4. B \in SUBSET (1 .. Len(s)) /\ \A i \in B : i <= m
  BY <1>1 DEF Balanced, Where
<1>5. Max(B) = m
  <2> HIDE DEF B, m
  <2>1. B # {} /\ \A i \in B : i \in Int
    BY <1>3, <1>4
  <2>2. Max(B) \in B /\ m <= Max(B) /\ Max(B) <= m
    BY <1>1, <1>3, <1>4, <2>1, LastPosition
  <2> QED BY <1>1, <2>1, <2>2
<1> QED BY <1>2, <1>3, <1>5 DEF LastBalanced

\* A complete object is returned, if the text ends with it but for a fence, or if
\* no bracket follows it and it has as many that open as close.
LEMMA CompleteReturned ==
  ASSUME RepairInv, object # <<>>,
         \/ Behind \in {<<>>, <<"fence">>}
         \/ Depth(object) = 0 /\ ToSet(Behind) \cap Brackets = {}
  PROVE  RobustParse(text).parsed = object
<1> DEFINE s == Stripped(text)
           m == Len(object)
           k == m + 1
<1>1. text \in Seq(Tokens) /\ object \in Seq(Tokens) /\ IsPrefix(object, text) /\ Loads(object)
  BY DEF RepairInv, TypeOK
<1>2. /\ s \in Seq(Tokens) /\ IsPrefix(object, s)
      /\ \/ Len(s) = Len(text) /\ text[Len(text)] # "fence"
         \/ text[Len(text)] = "fence" /\ Len(s) = Len(text) - 1
      /\ \A i \in 1 .. Len(s) : s[i] = text[i]
  BY <1>1, StrippedBehind
<1> HIDE DEF s
<1>3. m \in Nat /\ Len(s) \in Nat /\ Len(text) \in Nat /\ m <= Len(s) /\ m <= Len(text)
  BY <1>1, <1>2, PrefixLoads
<1>4. /\ Behind \in Seq(Tokens) /\ Len(Behind) = Len(text) - m
      /\ \A i \in k .. Len(text) : i - m \in 1 .. Len(Behind) /\ Behind[i - m] = text[i]
  <2>1. Behind = SubSeq(text, k, Len(text))
    BY DEF Behind
  <2>2. k \in Int /\ \A i \in k .. Len(text) : text[i] \in Tokens
    BY <1>1, <1>3
  <2>3. k = m + 1
    OBVIOUS
  <2> HIDE DEF k, m
  <2>4. /\ Behind \in Seq(Tokens)
        /\ Len(Behind) = IF k <= Len(text) THEN Len(text) - k + 1 ELSE 0
        /\ \A i \in 1 .. Len(text) - k + 1 : Behind[i] = text[k + i - 1]
    BY <1>3, <2>1, <2>2, SubSeqProperties
  <2>5. Len(Behind) = Len(text) - m
    BY <1>3, <2>3, <2>4
  <2>6. ASSUME NEW i \in k .. Len(text) PROVE i - m \in 1 .. Len(Behind) /\ Behind[i - m] = text[i]
    <3>1. i - m \in 1 .. Len(text) - k + 1 /\ k + (i - m) - 1 = i
      BY <1>3, <2>3
    <3> QED BY <1>3, <2>3, <2>4, <2>5, <3>1
  <2> QED BY <2>4, <2>5, <2>6
<1>5. CASE Len(s) = m
  <2>1. s = object
    BY <1>1, <1>2, <1>5, PrefixLoads, SeqEqual
  <2> QED BY <1>1, <2>1, FirstThatLoads DEF s
<1>6. CASE Len(s) # m
  <2>1. Behind \notin {<<>>, <<"fence">>}
    <3>1. Behind # <<>>
      BY <1>2, <1>3, <1>4, <1>6, EmptySeq
    <3>2. ASSUME Behind = <<"fence">> PROVE FALSE
      <4>1. Len(Behind) = 1 /\ Behind[1] = "fence"
        BY <3>2
      <4>2. Len(text) = m + 1 /\ text[Len(text)] = "fence"
        <5>1. Len(text) = m + 1 /\ k \in k .. Len(text) /\ k - m = 1
          <6>1. Len(text) - m = 1
            BY <1>4, <4>1
          <6>2. m \in Nat /\ Len(text) \in Nat
            BY <1>3
          <6> HIDE DEF m
          <6> QED BY <6>1, <6>2
        <5>2. Behind[k - m] = text[k]
          BY <1>4, <5>1
        <5> QED BY <4>1, <5>1, <5>2
      <4> QED BY <1>2, <1>3, <1>6, <4>2
    <3> QED BY <3>1, <3>2
  <2>2. ASSUME NEW i \in k .. Len(s) PROVE s[i] \notin Closers
    <3>1. i \in k .. Len(text) /\ s[i] = text[i]
      BY <1>2, <1>3
    <3>2. s[i] \in ToSet(Behind)
      <4>1. i - m \in 1 .. Len(Behind) /\ Behind[i - m] = s[i]
        BY <1>4, <3>1
      <4>2. DOMAIN Behind = 1 .. Len(Behind)
        BY <1>4, LenProperties
      <4> QED BY <4>1, <4>2 DEF ToSet
    <3> QED BY <2>1, <3>2 DEF Brackets
  <2>3. LastBalanced(s) = object
    BY <1>1, <1>2, <2>1, <2>2, BalancedObject
  <2>4. ~Loads(s)
    <3>1. IsPrefix(s, s)
      BY <1>2, <1>3, PrefixAgrees
    <3> QED BY <1>1, <1>2, <1>6, <3>1, PrefixesThatLoad
  <2> QED BY <1>1, <2>3, <2>4, FirstThatLoads DEF s
<1> QED BY <1>5, <1>6

\* A complete object is returned as it is.
THEOREM CompleteReturnedAlways == Spec => []CompleteIsReturned
<1>1. RepairInv => CompleteIsReturned
  BY CompleteReturned DEF CompleteIsReturned
<1> QED BY <1>1, RepairInvariant, PTL

-----------------------------------------------------------------------------
(* What layer 3 keeps.                                                     *)

\* A comma is read in a string, or between two items; there nothing may be closed.
LEMMA ReadComma ==
  ASSUME NEW st \in Readers
  PROVE  /\ Read(st, "comma") =
              [st EXCEPT !.mode = CASE st.mode = "string" -> "string"
                                    [] st.mode \in {"number", "after"} -> "next"
                                    [] OTHER -> "error"]
<1> DEFINE t == "comma"
<1>1. /\ t \notin Openers /\ t \notin Closers
      /\ t \notin {"lbrace", "quote", "digit", "slash", "w", "key", "name", "part"}
      /\ t = "comma"
  BY DEF Openers, Closers
<1>2. st.mode \in Modes
  BY DEF Readers
<1> HIDE DEF t
<1>3. ReadValue(st, t) = [st EXCEPT !.mode = "error"]
  BY <1>1 DEF ReadValue
<1>4. ReadItem(st, t) = [st EXCEPT !.mode = "error"]
  BY <1>1, <1>3 DEF ReadItem
<1>5. CASE st.mode \in {"start", "first", "next", "value"}
  BY <1>1, <1>3, <1>4, <1>5 DEF Read
<1>6. CASE st.mode \in {"string", "escape"}
  BY <1>1, <1>6 DEF Read
<1>7. CASE st.mode \in {"number", "after"}
  BY <1>1, <1>7 DEF Read
<1>8. CASE st.mode \in {"cut", "done", "error"}
  BY <1>1, <1>8 DEF Read
<1> QED BY <1>1, <1>2, <1>5, <1>6, <1>7, <1>8 DEF Modes, Inside

LEMMA ReadCloserNext ==
  ASSUME NEW st \in Readers, st.mode \in {"next", "error"}, NEW c \in Closers
  PROVE  Read(st, c).mode = "error"
<1>1. c \notin Openers /\ c \notin {"quote", "digit", "key", "name", "part"}
  BY DEF Openers, Closers
<1>2. ReadValue(st, c) = [st EXCEPT !.mode = "error"]
  BY <1>1 DEF ReadValue
<1>3. ReadItem(st, c) = [st EXCEPT !.mode = "error"]
  BY <1>1, <1>2 DEF ReadItem
<1>4. Read(st, c) = [st EXCEPT !.mode = "error"]
  BY <1>3 DEF Read
<1> QED BY <1>4 DEF Readers

\* So where no error is found, a comma with a closing bracket behind it is in a
\* string, and changes nothing.
LEMMA SpareComma ==
  ASSUME NEW s \in Seq(Tokens), NEW i \in TrailingCommas(s), Reading(s)[i + 1].mode # "error"
  PROVE  Reading(s)[i] = Reading(s)[i - 1] /\ Reading(s)[i].mode = "string"
<1>1. /\ i \in 1 .. Len(s) /\ i + 1 \in 1 .. Len(s) /\ (i + 1) - 1 = i /\ i - 1 \in 0 .. Len(s)
      /\ Len(s) \in Nat /\ s[i] = "comma" /\ s[i + 1] \in Closers
  BY DEF TrailingCommas, Where
<1> DEFINE st == Reading(s)[i - 1]
           u == Reading(s)[i]
<1>2. st \in Readers /\ u \in Readers /\ u = Read(st, "comma")
  BY <1>1, ReadingSteps, ReadingType
<1>3. Reading(s)[i + 1] = Read(u, s[i + 1])
  BY <1>1, ReadingSteps
<1> HIDE DEF st, u
<1>4. u.mode \notin {"next", "error"}
  BY <1>1, <1>2, <1>3, ReadCloserNext
<1>5. u = st /\ st.mode = "string"
  <2>1. u = [st EXCEPT !.mode = CASE st.mode = "string" -> "string"
                                  [] st.mode \in {"number", "after"} -> "next"
                                  [] OTHER -> "error"]
    BY <1>2, ReadComma
  <2>2. st.mode = "string"
    BY <1>2, <1>4, <2>1 DEF Readers
  <2>3. u = [st EXCEPT !.mode = "string"]
    BY <2>1, <2>2
  <2> QED BY <1>2, <2>2, <2>3 DEF Readers
<1> QED BY <1>5 DEF st, u

\* Removing what changes nothing does not change where the reader gets.
LEMMA PickedReading ==
  ASSUME NEW s \in Seq(Tokens), NEW K \in SUBSET (1 .. Len(s)), NEW m \in 0 .. Len(s),
         \A i \in 1 .. m : i \notin K => Reading(s)[i] = Reading(s)[i - 1]
  PROVE  \A n \in 0 .. m : Reading(Picked(s, K))[Rank(K, n)] = Reading(s)[n]
<1> DEFINE p == Picked(s, K)
           T == {n \in Nat : Reading(p)[Rank(K, n)] = Reading(s)[n]}
<1>1. /\ K \in Positions /\ p \in Seq(Tokens) /\ Len(p) = Cardinality(K)
      /\ \A i \in K : p[Rank(K, i)] = s[i]
  BY PickedType
<1>2. Len(s) \in Nat /\ Len(p) \in Nat /\ m \in Nat
  BY <1>1
<1> HIDE DEF p
<1>3. 0 \in T
  <2>1. Rank(K, 0) = 0
    BY <1>1, RankType, PositionsType
  <2> QED BY <1>2, <2>1, ReadingSteps
<1>4. ASSUME NEW n \in 0 .. m - 1, n \in T PROVE n + 1 \in T
  <2>1. /\ n \in Nat /\ n + 1 \in 1 .. m /\ n + 1 \in 1 .. Len(s) /\ (n + 1) - 1 = n
        /\ Reading(p)[Rank(K, n)] = Reading(s)[n]
    BY <1>2, <1>4
  <2>2. Rank(K, n + 1) = IF n + 1 \in K THEN Rank(K, n) + 1 ELSE Rank(K, n)
    BY <1>1, <2>1, RankStep
  <2>3. CASE n + 1 \in K
    <3> DEFINE r == Rank(K, n)
    <3>1. r \in Nat /\ r + 1 = Rank(K, n + 1) /\ r + 1 \in 1 .. Len(p) /\ (r + 1) - 1 = r
      BY <1>1, <2>1, <2>2, <2>3, RankType
    <3>2. p[r + 1] = s[n + 1]
      BY <1>1, <2>3, <3>1
    <3> HIDE DEF r
    <3>3. Reading(p)[r + 1] = Read(Reading(p)[r], p[r + 1])
      BY <1>2, <3>1, ReadingSteps
    <3>4. Reading(s)[n + 1] = Read(Reading(s)[n], s[n + 1])
      BY <1>2, <2>1, ReadingSteps
    <3>5. Reading(p)[r] = Reading(s)[n]
      BY <2>1 DEF r
    <3> QED BY <2>1, <3>1, <3>2, <3>3, <3>4, <3>5
  <2>4. CASE n + 1 \notin K
    <3>1. Reading(s)[n + 1] = Reading(s)[n]
      BY <2>1, <2>4
    <3> QED BY <2>1, <2>2, <2>4, <3>1
  <2> QED BY <2>3, <2>4
<1>5. \A n \in 0 .. m : n \in T
  <2> HIDE DEF T
  <2> QED BY <1>2, <1>3, <1>4, InductionBetween
<1> QED BY <1>5 DEF p

\* What stays when the trailing commas go.
LEMMA CommaPositions ==
  ASSUME NEW s \in Seq(Tokens)
  PROVE  LET K == (1 .. Len(s)) \ TrailingCommas(s)
             p == WithoutTrailingCommas(s) IN
         /\ K \in SUBSET (1 .. Len(s)) /\ K \in Positions
         /\ p = Picked(s, K) /\ p \in Seq(Tokens) /\ Len(p) = Cardinality(K)
         /\ \A i \in K : p[Rank(K, i)] = s[i] /\ Rank(K, i) \in 1 .. Len(p)
<1> DEFINE K == (1 .. Len(s)) \ TrailingCommas(s)
           p == WithoutTrailingCommas(s)
<1>1. K \in SUBSET (1 .. Len(s)) /\ p = Picked(s, K)
  BY DEF WithoutTrailingCommas
<1> HIDE DEF K, p
<1>2. /\ K \in Positions /\ p \in Seq(Tokens) /\ Len(p) = Cardinality(K)
      /\ \A i \in K : p[Rank(K, i)] = s[i]
  BY <1>1, PickedType
<1>3. \A i \in K : i \in Int
  BY <1>2, PositionsType
<1>4. \A i \in K : Rank(K, i) \in 1 .. Len(p)
  BY <1>2, <1>3, RankType
<1> QED BY <1>1, <1>2, <1>4 DEF K, p

\* An object that more follows is one that more follows, without trailing commas.
LEMMA DoneWithoutCommas ==
  ASSUME NEW s \in Seq(Tokens), NEW m \in 1 .. Len(s), m < Len(s), Reading(s)[m].mode = "done"
  PROVE  LET p == WithoutTrailingCommas(s) IN
         p \in Seq(Tokens) /\ \E k \in 0 .. Len(p) - 1 : Reading(p)[k].mode = "done"
<1> DEFINE K == (1 .. Len(s)) \ TrailingCommas(s)
           p == WithoutTrailingCommas(s)
           k == Rank(K, m)
<1>1. /\ K \in SUBSET (1 .. Len(s)) /\ K \in Positions
      /\ p = Picked(s, K) /\ p \in Seq(Tokens) /\ Len(p) = Cardinality(K)
      /\ \A i \in K : Rank(K, i) \in 1 .. Len(p)
  BY CommaPositions
<1>2. Len(s) \in Nat /\ m \in Nat /\ Len(s) \in K
  BY DEF TrailingCommas
<1>3. s[m] \in Closers
  <2> DEFINE f == SubSeq(s, 1, m)
  <2>1. f \in Seq(Tokens) /\ Len(f) = m /\ \A i \in 1 .. m : f[i] = s[i]
    BY FrontOf
  <2> HIDE DEF f
  <2>2. IsPrefix(f, s)
    BY <1>2, <2>1, PrefixAgrees
  <2>3. Loads(f)
    BY <2>1, <2>2, PrefixLoads
  <2> QED BY <1>2, <2>1, <2>3, LoadsEnds
<1>4. ASSUME NEW i \in 1 .. m, i \notin K PROVE Reading(s)[i] = Reading(s)[i - 1]
  <2>1. i \in TrailingCommas(s) /\ s[i] = "comma"
    BY <1>2, <1>4 DEF TrailingCommas, Where
  <2>2. i # m
    BY <1>3, <2>1 DEF Closers
  <2>3. i + 1 \in 1 .. m /\ i + 1 \in 0 .. Len(s)
    BY <1>2, <2>2
  <2>4. Reading(s)[i + 1].mode # "error"
    <3> SUFFICES ASSUME Reading(s)[i + 1].mode = "error" PROVE FALSE
      OBVIOUS
    <3>1. i + 1 # m
      OBVIOUS
    <3>2. m \in (i + 1) + 1 .. Len(s)
      BY <1>2, <2>3, <3>1
    <3>3. Reading(s)[m].mode = "error"
      BY <2>3, <3>2, DoneOnce
    <3> QED BY <3>3
  <2> QED BY <2>1, <2>4, SpareComma
<1> HIDE DEF K, p
<1>5. Reading(p)[k].mode = "done"
  <2>1. m \in 0 .. Len(s) /\ m \in 0 .. m
    BY <1>2
  <2>2. Reading(p)[k] = Reading(s)[m]
    BY <1>1, <1>4, <2>1, PickedReading
  <2> QED BY <2>2
<1>6. k \in 0 .. Len(p) - 1
  <2>1. Rank(K, m) \in 0 .. Len(p) /\ Rank(K, Len(s)) \in 1 .. Len(p) /\ Len(p) \in Nat
    BY <1>1, <1>2, RankType
  <2>2. Rank(K, m) < Rank(K, Len(s))
    BY <1>1, <1>2, RankOrder
  <2> QED BY <2>1, <2>2
<1> QED BY <1>1, <1>5, <1>6 DEF p

\* The stack goes through a text step by step, too.
LEMMA StackSteps ==
  ASSUME NEW s, Len(s) \in Nat
  PROVE  /\ Stack(s)[0] = <<>>
         /\ \A n \in 1 .. Len(s) : Stack(s)[n] = Stacked(Stack(s)[n - 1], s[n])
<1> DEFINE Step(stack, n) == Stacked(stack, s[n])
           T == {m \in Nat : \E f : f = [n \in 0 .. m |-> IF n = 0 THEN <<>>
                                                         ELSE Step(f[n - 1], n)]}
<1>1. Stack(s) = CHOOSE f : f = [n \in 0 .. Len(s) |-> IF n = 0 THEN <<>>
                                                      ELSE Step(f[n - 1], n)]
  BY DEF Stack
<1>2. 0 \in T
  <2> HIDE DEF Step
  <2> DEFINE g == [n \in 0 .. 0 |-> <<>>]
  <2>1. g = [n \in 0 .. 0 |-> IF n = 0 THEN <<>> ELSE Step(g[n - 1], n)]
    OBVIOUS
  <2> HIDE DEF g
  <2> QED BY <2>1
<1>3. ASSUME NEW m \in Nat, m \in T PROVE m + 1 \in T
  <2> HIDE DEF Step
  <2>1. PICK f : f = [n \in 0 .. m |-> IF n = 0 THEN <<>> ELSE Step(f[n - 1], n)]
    BY <1>3
  <2> DEFINE g == [n \in 0 .. m + 1 |-> IF n = m + 1 THEN Step(f[m], m + 1) ELSE f[n]]
  <2>2. \A n \in 0 .. m : /\ g[n] = f[n]
                          /\ f[n] = IF n = 0 THEN <<>> ELSE Step(f[n - 1], n)
    BY <2>1
  <2>3. \A n \in 0 .. m + 1 : g[n] = IF n = 0 THEN <<>> ELSE Step(g[n - 1], n)
    BY <2>2
  <2>4. g = [n \in 0 .. m + 1 |-> IF n = 0 THEN <<>> ELSE Step(g[n - 1], n)]
    BY <2>3
  <2> HIDE DEF g
  <2> QED BY <2>4
<1>4. Len(s) \in T
  <2> HIDE DEF T
  <2> QED BY <1>2, <1>3, Induction
<1> HIDE DEF Step
<1>5. \E f : f = [n \in 0 .. Len(s) |-> IF n = 0 THEN <<>> ELSE Step(f[n - 1], n)]
  BY <1>4
<1>6. Stack(s) = [n \in 0 .. Len(s) |-> IF n = 0 THEN <<>> ELSE Step(Stack(s)[n - 1], n)]
  BY <1>1, <1>5
<1>7. /\ Stack(s)[0] = <<>>
      /\ \A n \in 1 .. Len(s) : Stack(s)[n] = Step(Stack(s)[n - 1], n)
  BY <1>6
<1> QED BY <1>7 DEF Step

\* It holds opening brackets.
LEMMA StackType ==
  ASSUME NEW s \in Seq(Tokens)
  PROVE  \A n \in 0 .. Len(s) : Stack(s)[n] \in Seq(Openers)
<1> DEFINE T == {n \in Nat : Stack(s)[n] \in Seq(Openers)}
<1>1. Len(s) \in Nat /\ \A n \in 1 .. Len(s) : s[n] \in Tokens
  OBVIOUS
<1>2. 0 \in T
  BY <1>1, StackSteps, EmptySeq
<1>3. ASSUME NEW n \in 0 .. Len(s) - 1, n \in T PROVE n + 1 \in T
  <2>1. n + 1 \in 1 .. Len(s) /\ (n + 1) - 1 = n /\ n + 1 \in Nat
    BY <1>1
  <2>2. Stack(s)[n + 1] = Stacked(Stack(s)[n], s[n + 1])
    BY <1>1, <2>1, StackSteps
  <2> DEFINE o == Stack(s)[n]
             t == s[n + 1]
  <2>3. o \in Seq(Openers)
    BY <1>3
  <2> HIDE DEF o, t
  <2>4. Stacked(o, t) \in Seq(Openers)
    BY <2>3, OpenType DEF Stacked
  <2> QED BY <2>1, <2>2, <2>4 DEF o, t
<1>4. \A n \in 0 .. Len(s) : n \in T
  <2> HIDE DEF T
  <2> QED BY <1>1, <1>2, <1>3, InductionBetween
<1> QED BY <1>4

\* What closes is as long as what is open.
LEMMA ClosingType ==
  ASSUME NEW o \in Seq(Openers)
  PROVE  /\ Closing(o) \in Seq(Tokens) /\ Len(Closing(o)) = Len(o)
         /\ \A i \in 1 .. Len(o) : /\ Closing(o)[i] = Closer(o[Len(o) - i + 1])
                                   /\ Closing(o)[i] \in Closers
<1> DEFINE n == Len(o)
           c == Closing(o)
<1>1. n \in Nat /\ c = [i \in 1 .. n |-> Closer(o[n - i + 1])]
  BY DEF Closing
<1>2. \A t : Closer(t) \in Closers /\ Closer(t) \in Tokens
  BY DEF Closer, Closers, Tokens
<1> HIDE DEF n, c
<1>3. c \in Seq(Tokens) /\ Len(c) = n /\ \A i \in 1 .. n : c[i] = Closer(o[n - i + 1])
  BY <1>1, <1>2
<1> QED BY <1>2, <1>3 DEF n, c

\* The text that layer 3 closes goes on from the one it has.
LEMMA ClosedType ==
  ASSUME NEW s \in Seq(Tokens)
  PROVE  LET o == Stack(s)[Len(s)] IN
         /\ o \in Seq(Openers)
         /\ Closed(s) \in Seq(Tokens) /\ Len(Closed(s)) = Len(s) + Len(o)
         /\ \A i \in 1 .. Len(s) : Closed(s)[i] = s[i]
         /\ \A i \in 1 .. Len(o) : /\ Closed(s)[Len(s) + i] = Closer(o[Len(o) - i + 1])
                                   /\ Closed(s)[Len(s) + i] \in Closers
<1> DEFINE o == Stack(s)[Len(s)]
           c == Closing(o)
           z == Closed(s)
<1>1. o \in Seq(Openers) /\ Len(s) \in Nat
  <2>1. Len(s) \in 0 .. Len(s)
    OBVIOUS
  <2> QED BY <2>1, StackType
<1>2. z = s \o c
  BY DEF Closed
<1> HIDE DEF o
<1>3. /\ c \in Seq(Tokens) /\ Len(c) = Len(o) /\ Len(o) \in Nat
      /\ \A i \in 1 .. Len(o) : c[i] = Closer(o[Len(o) - i + 1]) /\ c[i] \in Closers
  BY <1>1, ClosingType
<1> HIDE DEF c, z
<1>4. /\ z \in Seq(Tokens) /\ Len(z) = Len(s) + Len(c)
      /\ \A i \in 1 .. Len(s) + Len(c) : z[i] = IF i <= Len(s) THEN s[i] ELSE c[i - Len(s)]
  <2>1. /\ s \o c \in Seq(Tokens) /\ Len(s \o c) = Len(s) + Len(c)
        /\ \A i \in 1 .. Len(s) + Len(c) : (s \o c)[i] = IF i <= Len(s) THEN s[i] ELSE c[i - Len(s)]
    BY <1>3, ConcatProperties, Zenon
  <2> QED BY <1>2, <2>1, Zenon
<1>5. \A i \in 1 .. Len(s) : z[i] = s[i]
  BY <1>1, <1>3, <1>4
<1>6. ASSUME NEW i \in 1 .. Len(o) PROVE z[Len(s) + i] = c[i]
  <2>1. Len(s) + i \in 1 .. Len(s) + Len(c) /\ ~(Len(s) + i <= Len(s)) /\ (Len(s) + i) - Len(s) = i
    BY <1>1, <1>3
  <2> QED BY <1>4, <2>1
<1> QED BY <1>1, <1>3, <1>4, <1>5, <1>6 DEF o, z

\* And so does the one with even quotes.
LEMMA EvenQuotesType ==
  ASSUME NEW s \in Seq(Tokens)
  PROVE  WithEvenQuotes(s) \in {s, Append(s, "quote")} /\ WithEvenQuotes(s) \in Seq(Tokens)
<1>1. "quote" \in Tokens
  BY DEF Tokens
<1> QED BY <1>1, AppendProperties DEF WithEvenQuotes

\* Together they keep what they are given.
LEMMA ClosedKeeps ==
  ASSUME NEW p \in Seq(Tokens)
  PROVE  LET z == Closed(WithEvenQuotes(p)) IN z \in Seq(Tokens) /\ IsPrefix(p, z)
<1> DEFINE q == WithEvenQuotes(p)
           z == Closed(q)
<1>1. /\ q \in Seq(Tokens) /\ Len(p) <= Len(q) /\ \A i \in 1 .. Len(p) : q[i] = p[i]
      /\ Len(p) \in Nat /\ Len(q) \in Nat
  <2>1. "quote" \in Tokens
    BY DEF Tokens
  <2>2. q \in {p, Append(p, "quote")} /\ q \in Seq(Tokens)
    BY EvenQuotesType
  <2> HIDE DEF q
  <2> QED BY <2>1, <2>2, AppendProperties
<1> HIDE DEF q
<1>2. /\ z \in Seq(Tokens) /\ Len(z) >= Len(q) /\ \A i \in 1 .. Len(q) : z[i] = q[i]
  BY <1>1, ClosedType
<1> HIDE DEF z
<1>3. Len(p) <= Len(z) /\ \A i \in 1 .. Len(p) : p[i] = z[i]
  BY <1>1, <1>2
<1> QED BY <1>1, <1>2, <1>3, PrefixAgrees DEF z, q

\* Layer 3 gives no object back that more follows.
LEMMA RepairedBehind ==
  ASSUME NEW s \in Seq(Tokens), NEW m \in 1 .. Len(s), m < Len(s), Reading(s)[m].mode = "done"
  PROVE  ~Loads(Repaired(s))
<1> DEFINE p == WithoutTrailingCommas(s)
           z == Closed(WithEvenQuotes(p))
           x == WithoutTrailingCommas(z)
<1>1. p \in Seq(Tokens) /\ \E k \in 0 .. Len(p) - 1 : Reading(p)[k].mode = "done"
  BY DoneWithoutCommas
<1> HIDE DEF p
<1>2. z \in Seq(Tokens) /\ IsPrefix(p, z)
  BY <1>1, ClosedKeeps
<1> HIDE DEF z
<1>3. PICK k \in 0 .. Len(p) - 1 : Reading(p)[k].mode = "done"
  BY <1>1
<1>4. /\ k \in 1 .. Len(z) /\ k < Len(z) /\ Reading(z)[k].mode = "done"
  <2>1. Len(p) \in Nat /\ Len(z) \in Nat /\ Len(p) <= Len(z) /\ \A i \in 1 .. Len(p) : p[i] = z[i]
    BY <1>1, <1>2, PrefixAgrees
  <2>2. k \in 0 .. Len(p) /\ Reading(p)[k] = Reading(z)[k]
    BY <1>1, <1>2, <2>1, ReadingAgrees
  <2>3. k # 0
    BY <1>3, <2>1, ReadingSteps DEF NotRead
  <2> QED BY <1>3, <2>1, <2>2, <2>3
<1>5. x \in Seq(Tokens) /\ \E j \in 0 .. Len(x) - 1 : Reading(x)[j].mode = "done"
  BY <1>2, <1>4, DoneWithoutCommas
<1> HIDE DEF x
<1>6. PICK j \in 0 .. Len(x) - 1 : Reading(x)[j].mode = "done"
  BY <1>5
<1>7. Reading(x)[Len(x)].mode = "error"
  <2>1. j \in 0 .. Len(x) /\ Len(x) \in j + 1 .. Len(x)
    BY <1>5, <1>6
  <2> QED BY <1>5, <1>6, <2>1, DoneOnce
<1>8. Repaired(s) = x
  BY DEF Repaired, x, z, p
<1> QED BY <1>7, <1>8 DEF Loads

\* Trailing commas are commas.
LEMMA CommasTwice ==
  ASSUME NEW s \in Seq(Tokens)
  PROVE  WithoutCommas(WithoutTrailingCommas(s)) = WithoutCommas(s)
<1> DEFINE K == (1 .. Len(s)) \ TrailingCommas(s)
           p == WithoutTrailingCommas(s)
           N == (1 .. Len(s)) \ Where(s, {"comma"})
           J == {Rank(K, i) : i \in N}
<1>1. /\ K \in SUBSET (1 .. Len(s)) /\ K \in Positions
      /\ p = Picked(s, K) /\ p \in Seq(Tokens) /\ Len(p) = Cardinality(K)
      /\ \A i \in K : p[Rank(K, i)] = s[i] /\ Rank(K, i) \in 1 .. Len(p)
  BY CommaPositions
<1>2. N \in SUBSET K /\ \A i \in K : i \in N <=> s[i] # "comma"
  BY DEF TrailingCommas, Where
<1>3. J = (1 .. Len(p)) \ Where(p, {"comma"})
  <2> HIDE DEF K, p, N
  <2>1. ASSUME NEW j \in J PROVE j \in 1 .. Len(p) /\ p[j] # "comma"
    BY <1>1, <1>2
  <2>2. ASSUME NEW j \in 1 .. Len(p), p[j] # "comma" PROVE j \in J
    <3>1. PICK i \in K : Rank(K, i) = j
      BY <1>1, RankOnto
    <3> QED BY <1>1, <1>2, <2>2, <3>1
  <2>3. \A j \in 1 .. Len(p) : j \in Where(p, {"comma"}) <=> p[j] = "comma"
    BY DEF Where
  <2> HIDE DEF J
  <2> QED BY <2>1, <2>2, <2>3
<1>4. Picked(Picked(s, K), J) = Picked(s, N)
  <2> HIDE DEF K, N
  <2> QED BY <1>1, <1>2, PickedTwice
<1> QED BY <1>1, <1>3, <1>4 DEF WithoutCommas

\* Without commas, too, a prefix is one.
LEMMA CommasOfPrefix ==
  ASSUME NEW u \in Seq(Tokens), NEW z \in Seq(Tokens), IsPrefix(u, z)
  PROVE  IsPrefix(WithoutCommas(u), WithoutCommas(z))
<1> DEFINE n == Len(u)
           I == (1 .. Len(z)) \ Where(z, {"comma"})
           H == {i \in I : i <= n}
           w == WithoutCommas(z)
           r == Rank(I, n)
<1>1. n \in 0 .. Len(z) /\ Len(z) \in Nat /\ \A i \in 1 .. n : u[i] = z[i]
  BY PrefixLoads
<1>2. SubSeq(z, 1, n) = u
  BY DEF IsPrefix
<1>3. H = (1 .. n) \ Where(u, {"comma"})
  BY <1>1 DEF Where
<1>4. I \in SUBSET (1 .. Len(z)) /\ w = Picked(z, I) /\ WithoutCommas(u) = Picked(u, H)
  BY <1>3 DEF WithoutCommas
<1> HIDE DEF I, w, n
<1>5. /\ r \in 0 .. Cardinality(I) /\ Picked(u, H) = SubSeq(w, 1, r)
      /\ w \in Seq(Tokens) /\ Len(w) = Cardinality(I)
  BY <1>1, <1>2, <1>4, PickedFront, PickedType
<1> HIDE DEF H, r
<1>6. /\ Picked(u, H) \in Seq(Tokens) /\ Len(Picked(u, H)) = r /\ r <= Len(w)
      /\ \A i \in 1 .. r : Picked(u, H)[i] = w[i]
  BY <1>5, FrontOf
<1> QED BY <1>4, <1>5, <1>6, PrefixAgrees DEF w

\* A reply without an object is tried by layer 3 only.
LEMMA Unfinished ==
  ASSUME RepairInv, object = <<>>
  PROVE  /\ text \in Seq(Tokens) /\ Len(text) \in Nat \ {0} /\ Stripped(text) = text
         /\ \A n \in 0 .. Len(text) : Reading(text)[n].mode \notin {"done", "error"}
         /\ ~Loads(text) /\ ~Loads(LastBalanced(text))
<1>1. /\ text \in Seq(Tokens) /\ reader = Reading(text)[Len(text)]
      /\ reader.mode \notin {"start", "done", "error"} /\ "fence" \notin ToSet(text)
  BY DEF RepairInv, TypeOK
<1>2. Len(text) \in Nat \ {0}
  <2>1. Len(text) \in Nat
    BY <1>1
  <2> QED BY <1>1, <2>1, ReadingSteps DEF NotRead
<1>3. ASSUME NEW n \in 0 .. Len(text) PROVE Reading(text)[n].mode \notin {"done", "error"}
  <2>1. n = Len(text) \/ Len(text) \in n + 1 .. Len(text)
    BY <1>2
  <2> QED BY <1>1, <2>1, DoneOnce
<1>4. ~Loads(text)
  BY <1>1 DEF Loads
<1>5. ~Loads(LastBalanced(text))
  BY <1>1, <1>3, LastBalancedIsPrefix, PrefixLoads
<1>6. Stripped(text) = text
  <2>1. DOMAIN text = 1 .. Len(text) /\ Len(text) \in 1 .. Len(text)
    BY <1>1, <1>2, LenProperties
  <2>2. text[Len(text)] # "fence"
    BY <1>1, <2>1 DEF ToSet
  <2> QED BY <2>2 DEF Stripped, Last
<1> QED BY <1>1, <1>2, <1>3, <1>4, <1>5, <1>6

\* Whatever a layer answers with, it is the object, or what came of it.
LEMMA WhatCameKept ==
  ASSUME RepairInv, RobustParse(text).layer # 4
  PROVE  LET result == RobustParse(text) IN
         IF object # <<>> THEN result.parsed = object
         ELSE result.layer = 3 /\ IsPrefix(WithoutCommas(text), WithoutCommas(result.parsed))
<1> DEFINE result == RobustParse(text)
           s == Stripped(text)
<1>1. CASE object # <<>>
  <2>1. text \in Seq(Tokens) /\ object \in Seq(Tokens) /\ IsPrefix(object, text) /\ Loads(object)
    BY <1>1 DEF RepairInv, TypeOK
  <2>2. s \in Seq(Tokens) /\ IsPrefix(object, s)
    BY <2>1, StrippedBehind
  <2>3. Len(s) \in Nat /\ Len(object) \in Nat \ {0} /\ Len(object) \in 0 .. Len(s)
    BY <2>1, <2>2, LoadsEnds, PrefixLoads
  <2>4. ASSUME NEW u \in Seq(Tokens), IsPrefix(u, s), Loads(u) PROVE u = object
    BY <2>1, <2>2, <2>4, PrefixesThatLoad
  <2>5. CASE Loads(s)
    <3>1. IsPrefix(s, s)
      BY <2>2, <2>3, PrefixAgrees
    <3>2. result.parsed = s
      BY <2>5, FirstThatLoads
    <3> HIDE DEF s, result
    <3>3. s = object
      BY <2>2, <2>4, <2>5, <3>1
    <3> QED BY <1>1, <3>2, <3>3 DEF result
  <2>6. CASE ~Loads(s) /\ Loads(LastBalanced(s))
    <3>1. result.parsed = LastBalanced(s)
      BY <2>6, FirstThatLoads
    <3> HIDE DEF s, result
    <3>2. LastBalanced(s) = object
      BY <2>2, <2>4, <2>6, LastBalancedIsPrefix
    <3> QED BY <1>1, <3>1, <3>2 DEF result
  <2>7. CASE ~Loads(s) /\ ~Loads(LastBalanced(s))
    <3>1. Loads(Repaired(s))
      BY <2>7, FirstThatLoads
    <3> HIDE DEF s
    <3>2. Len(object) # Len(s)
      BY <2>1, <2>2, <2>7, PrefixLoads, SeqEqual
    <3>3. Len(object) \in 1 .. Len(s) /\ Len(object) < Len(s)
      BY <2>3, <3>2
    <3>4. Reading(s)[Len(object)].mode = "done"
      BY <2>1, <2>2, PrefixLoads
    <3> QED BY <2>2, <3>1, <3>3, <3>4, RepairedBehind
  <2> QED BY <2>5, <2>6, <2>7
<1>2. CASE object = <<>>
  <2>1. /\ text \in Seq(Tokens) /\ s = text /\ ~Loads(text) /\ ~Loads(LastBalanced(text))
    BY <1>2, Unfinished
  <2>2. result.layer = 3 /\ result.parsed = Repaired(text)
    BY <2>1, FirstThatLoads
  <2> DEFINE p == WithoutTrailingCommas(text)
             z == Closed(WithEvenQuotes(p))
  <2>3. p \in Seq(Tokens) /\ WithoutCommas(p) = WithoutCommas(text)
    BY <2>1, CommaPositions, CommasTwice
  <2>4. Repaired(text) = WithoutTrailingCommas(z)
    BY DEF Repaired
  <2> HIDE DEF p
  <2>5. z \in Seq(Tokens) /\ IsPrefix(p, z)
    BY <2>3, ClosedKeeps
  <2> HIDE DEF z
  <2>6. WithoutCommas(Repaired(text)) = WithoutCommas(z)
    BY <2>4, <2>5, CommasTwice
  <2>7. IsPrefix(WithoutCommas(p), WithoutCommas(z))
    BY <2>3, <2>5, CommasOfPrefix
  <2> QED BY <1>2, <2>2, <2>3, <2>6, <2>7
<1> QED BY <1>1, <1>2

\* Layers 1 to 3 never return another object than the one a reply holds, nor, when it
\* is cut, one that is missing anything that came but a comma.
THEOREM WhatCameKeptAlways == Spec => []KeepsWhatCame
<1>1. RepairInv => KeepsWhatCame
  BY WhatCameKept DEF KeepsWhatCame
<1> QED BY <1>1, RepairInvariant, PTL

-----------------------------------------------------------------------------
(* What layer 3 repairs.                                                   *)

\* Where a value may begin, a bracket, a string or a number does.
LEMMA ReadValueStep ==
  ASSUME NEW st \in Readers, NEW t \in Tokens, ReadValue(st, t).mode # "error"
  PROVE  \/ t \in Openers /\ ReadValue(st, t) = [mode |-> "first", open |-> Append(st.open, t)]
         \/ t = "quote" /\ ReadValue(st, t) = [mode |-> "string", open |-> st.open]
         \/ t = "digit" /\ ReadValue(st, t) = [mode |-> "number", open |-> st.open]
<1>1. st = [mode |-> st.mode, open |-> st.open]
  BY DEF Readers
<1>2. CASE t \in Openers
  <2>1. t \notin {"quote", "digit"}
    BY <1>2 DEF Openers
  <2> QED BY <1>2, <2>1 DEF ReadValue
<1>3. CASE t \notin Openers /\ t = "quote"
  BY <1>1, <1>3 DEF ReadValue
<1>4. CASE t \notin Openers /\ t = "digit"
  BY <1>1, <1>4 DEF ReadValue
<1>5. CASE t \notin Openers /\ t \notin {"quote", "digit"}
  <2>1. ReadValue(st, t) = [st EXCEPT !.mode = "error"]
    BY <1>5 DEF ReadValue
  <2> QED BY <1>1, <2>1
<1> QED BY <1>2, <1>3, <1>4, <1>5

\* And a key, or a part of one, where an item of an object may.
LEMMA ReadItemStep ==
  ASSUME NEW st \in Readers, NEW t \in Tokens, ReadItem(st, t).mode # "error"
  PROVE  \/ ReadItem(st, t) = ReadValue(st, t)
         \/ t = "key" /\ ReadItem(st, t) = [mode |-> "value", open |-> st.open]
         \/ t \in {"name", "part"} /\ ReadItem(st, t) = [mode |-> "cut", open |-> st.open]
<1>1. st = [mode |-> st.mode, open |-> st.open]
  BY DEF Readers
<1>2. CASE Last(st.open) = "lbracket"
  BY <1>2 DEF ReadItem
<1>3. CASE Last(st.open) # "lbracket"
  <2>1. ReadItem(st, t) = [mode |-> CASE t = "key" -> "value"
                                      [] t \in {"name", "part"} -> "cut"
                                      [] OTHER -> "error",
                           open |-> st.open]
    BY <1>1, <1>3 DEF ReadItem
  <2> QED BY <2>1
<1> QED BY <1>2, <1>3

\* Closing takes the innermost bracket.
LEMMA ReadEndStep ==
  ASSUME NEW st \in Readers, NEW t \in Tokens, ReadEnd(st, t).mode \notin {"done", "error"}
  PROVE  t \in Closers /\ ReadEnd(st, t) = [mode |-> "after", open |-> Front(st.open)]
<1>1. st = [mode |-> st.mode, open |-> st.open]
  BY DEF Readers
<1>2. CASE t \in Closers /\ t = Closer(Last(st.open))
  BY <1>2 DEF ReadEnd
<1>3. CASE ~(t \in Closers /\ t = Closer(Last(st.open)))
  <2>1. ReadEnd(st, t) = [st EXCEPT !.mode = "error"]
    BY <1>3 DEF ReadEnd
  <2> QED BY <1>1, <2>1
<1> QED BY <1>2, <1>3

\* One step of the reader, where strings are plain and no error is found.
PlainStep(st, t, u) ==
  /\ st.mode # "cut" /\ u.mode # "escape"
  /\ u.open = Stacked(st.open, t)
  /\ u.mode # "cut" => (t \in {"quote", "part"} <=> (u.mode = "string" <=> st.mode # "string"))
  /\ u.mode = "cut" => t \in {"name", "part"} /\ st.mode # "string"
  /\ u.mode = "value" => t = "key"
  /\ u.mode = "next" => t = "comma" /\ st.mode \in {"number", "after"} /\ u.open = st.open
  /\ t = "comma" => u.mode \in {"string", "next"}

LEMMA ReadPlain ==
  ASSUME NEW st \in Readers, NEW t \in Tokens, st.mode \notin {"escape", "done", "error"},
         st.mode = "string" => t \notin Brackets \cup {"slash"},
         NEW u, u = Read(st, t), u.mode \notin {"done", "error"}
  PROVE  PlainStep(st, t, u)
<1>1. /\ st = [mode |-> st.mode, open |-> st.open] /\ st.mode \in Modes
      /\ st.mode \in Inside => st.open # <<>>
  BY DEF Readers
<1>2. /\ t \in Openers => t \notin Closers /\ t \notin {"quote", "part", "comma", "digit", "key", "name"}
      /\ t \in Closers => t \notin {"quote", "part", "comma", "digit", "key", "name"}
  BY DEF Openers, Closers
<1>3. ASSUME st.mode \in {"start", "first", "next", "value"}, u = ReadValue(st, t)
      PROVE  PlainStep(st, t, u)
  <2>1. \/ t \in Openers /\ u = [mode |-> "first", open |-> Append(st.open, t)]
        \/ t = "quote" /\ u = [mode |-> "string", open |-> st.open]
        \/ t = "digit" /\ u = [mode |-> "number", open |-> st.open]
    <3>1. ReadValue(st, t).mode # "error"
      BY <1>3
    <3>2. \/ t \in Openers /\ ReadValue(st, t) = [mode |-> "first", open |-> Append(st.open, t)]
          \/ t = "quote" /\ ReadValue(st, t) = [mode |-> "string", open |-> st.open]
          \/ t = "digit" /\ ReadValue(st, t) = [mode |-> "number", open |-> st.open]
      BY <3>1, ReadValueStep, Zenon
    <3> QED BY <1>3, <3>2, Zenon
  <2>3. st.mode # "string" /\ st.mode # "cut"
    BY <1>3
  <2>4. CASE t \in Openers /\ u = [mode |-> "first", open |-> Append(st.open, t)]
    <3>1. t \notin {"quote", "part"} /\ t # "comma" /\ u.mode = "first"
      BY <1>2, <2>4
    <3>2. u.open = Stacked(st.open, t)
      BY <1>2, <2>4 DEF Stacked
    <3> QED BY <2>3, <3>1, <3>2, Zenon DEF PlainStep
  <2>5. CASE t = "quote" /\ u = [mode |-> "string", open |-> st.open]
    <3>1. t \in {"quote", "part"} /\ t # "comma" /\ u.mode = "string"
      BY <2>5
    <3>2. u.open = Stacked(st.open, t)
      BY <1>2, <2>5 DEF Stacked
    <3> QED BY <2>3, <3>1, <3>2, Zenon DEF PlainStep
  <2>6. CASE t = "digit" /\ u = [mode |-> "number", open |-> st.open]
    <3>1. t \notin {"quote", "part"} /\ t # "comma" /\ u.mode = "number"
      BY <2>6
    <3>2. u.open = Stacked(st.open, t)
      BY <1>2, <2>6 DEF Stacked
    <3> QED BY <2>3, <3>1, <3>2, Zenon DEF PlainStep
  <2> QED BY <2>1, <2>4, <2>5, <2>6
<1>4. ASSUME st.mode \in {"first", "number", "after"}, u = ReadEnd(st, t)
      PROVE  PlainStep(st, t, u)
  <2>1. t \in Closers /\ u = [mode |-> "after", open |-> Front(st.open)]
    BY <1>4, ReadEndStep
  <2>2. st.open # <<>>
    BY <1>1, <1>4 DEF Inside
  <2> QED BY <1>2, <1>4, <2>1, <2>2 DEF PlainStep, Stacked
<1>5. ASSUME st.mode \in {"first", "next"}, u = ReadItem(st, t)
      PROVE  PlainStep(st, t, u)
  <2>1. \/ u = ReadValue(st, t)
        \/ t = "key" /\ u = [mode |-> "value", open |-> st.open]
        \/ t \in {"name", "part"} /\ u = [mode |-> "cut", open |-> st.open]
    BY <1>5, ReadItemStep
  <2>2. CASE u = ReadValue(st, t)
    BY <1>3, <1>5, <2>2
  <2>3. CASE t = "key" /\ u = [mode |-> "value", open |-> st.open]
    <3> QED BY <1>2, <1>5, <2>3 DEF PlainStep, Stacked
  <2>4. CASE t \in {"name", "part"} /\ u = [mode |-> "cut", open |-> st.open]
    <3> QED BY <1>2, <1>5, <2>4 DEF PlainStep, Stacked
  <2> QED BY <2>1, <2>2, <2>3, <2>4
<1>6. CASE st.mode = "start"
  <2>1. u = IF t = "lbrace" THEN ReadValue(st, t) ELSE [st EXCEPT !.mode = "error"]
    BY <1>6 DEF Read
  <2>2. u = ReadValue(st, t)
    BY <1>1, <2>1
  <2> QED BY <1>3, <1>6, <2>2
<1>7. CASE st.mode = "first"
  <2>1. u = IF t \in Closers THEN ReadEnd(st, t) ELSE ReadItem(st, t)
    BY <1>7 DEF Read
  <2> QED BY <1>4, <1>5, <1>7, <2>1
<1>8. CASE st.mode = "next"
  <2>1. u = ReadItem(st, t)
    BY <1>8 DEF Read
  <2> QED BY <1>5, <1>8, <2>1
<1>9. CASE st.mode = "value"
  <2>1. u = ReadValue(st, t)
    BY <1>9 DEF Read
  <2> QED BY <1>3, <1>9, <2>1
<1>10. CASE st.mode = "string"
  <2>1. t \notin Openers /\ t \notin Closers /\ t # "slash"
    BY <1>10 DEF Brackets
  <2>2. u = [mode |-> CASE t = "quote" -> "after"
                        [] t = "slash" -> "escape"
                        [] t \in {"key", "name", "part"} -> "error"
                        [] OTHER -> "string",
             open |-> st.open]
    BY <1>1, <1>10 DEF Read
  <2>3. \/ t = "quote" /\ u = [mode |-> "after", open |-> st.open]
        \/ t \notin {"quote", "part"} /\ u = [mode |-> "string", open |-> st.open]
    BY <2>1, <2>2
  <2>4. u.open = Stacked(st.open, t)
    BY <2>1, <2>3 DEF Stacked
  <2>5. CASE t = "quote" /\ u = [mode |-> "after", open |-> st.open]
    <3>1. t \in {"quote", "part"} /\ t # "comma" /\ u.mode = "after"
      BY <2>5
    <3> QED BY <1>10, <2>4, <3>1, Zenon DEF PlainStep
  <2>6. CASE t \notin {"quote", "part"} /\ u = [mode |-> "string", open |-> st.open]
    <3>1. t \notin {"quote", "part"} /\ u.mode = "string" /\ u.mode \in {"string", "next"}
      BY <2>6
    <3> QED BY <1>10, <2>4, <3>1, Zenon DEF PlainStep
  <2> QED BY <2>3, <2>5, <2>6
<1>11. CASE st.mode \in {"number", "after"}
  <2>1. \/ t = "comma" /\ u = [mode |-> "next", open |-> st.open]
        \/ t = "digit" /\ st.mode = "number" /\ u = st
        \/ u = ReadEnd(st, t)
    BY <1>1, <1>11 DEF Read
  <2>2. CASE t = "comma" /\ u = [mode |-> "next", open |-> st.open]
    <3>1. u.open = Stacked(st.open, t)
      BY <1>2, <2>2 DEF Stacked
    <3>2. /\ t \notin {"quote", "part"} /\ t = "comma"
          /\ u.mode = "next" /\ u.mode \in {"string", "next"} /\ u.open = st.open
      BY <2>2
    <3>3. st.mode # "string" /\ st.mode # "cut"
      BY <1>11
    <3> QED BY <1>11, <3>1, <3>2, <3>3, Zenon DEF PlainStep
  <2>3. CASE t = "digit" /\ st.mode = "number" /\ u = st
    <3>1. u.open = Stacked(st.open, t)
      BY <1>2, <2>3 DEF Stacked
    <3>2. t \notin {"quote", "part"} /\ t # "comma" /\ u.mode = "number" /\ st.mode = "number"
      BY <2>3
    <3> QED BY <3>1, <3>2, Zenon DEF PlainStep
  <2> QED BY <1>4, <1>11, <2>1, <2>2, <2>3
<1>12. CASE st.mode = "cut"
  <2>1. u = [st EXCEPT !.mode = "error"]
    BY <1>12 DEF Read
  <2> QED BY <1>1, <2>1
<1> QED BY <1>1, <1>6, <1>7, <1>8, <1>9, <1>10, <1>11, <1>12 DEF Modes, Inside

\* No string of s holds a bracket or an escape.
PlainText(s) ==
  \A i \in 1 .. Len(s) :
    Reading(s)[i - 1].mode = "string" => s[i] \notin Brackets \cup {"slash"}

\* Where the reader is when quotes are counted.
Quoted(s, n) ==
  LET st == Reading(s)[n] IN
  /\ st.mode # "escape"
  /\ Stack(s)[n] = st.open
  /\ st.mode # "cut" => (Rank(Where(s, {"quote", "part"}), n) % 2 = 1 <=> st.mode = "string")

\* While strings are plain and no error is found, a quote counts as often as it begins or
\* ends a string, and the stack has what is open.
LEMMA PlainReading ==
  ASSUME NEW s \in Seq(Tokens), PlainText(s),
         \A n \in 0 .. Len(s) : Reading(s)[n].mode \notin {"done", "error"}
  PROVE  /\ \A n \in 0 .. Len(s) : Quoted(s, n)
         /\ \A n \in 1 .. Len(s) : PlainStep(Reading(s)[n - 1], s[n], Reading(s)[n])
<1> DEFINE W == Where(s, {"quote", "part"})
           T == {n \in Nat : Quoted(s, n)}
<1>1. /\ Len(s) \in Nat /\ W \in SUBSET (1 .. Len(s)) /\ W \in Positions
      /\ \A i \in 1 .. Len(s) : i \in W <=> s[i] \in {"quote", "part"}
  <2>1. Len(s) \in Nat /\ W \in SUBSET (1 .. Len(s))
    BY DEF Where
  <2> QED BY <2>1, PositionsFinite DEF Where
<1>2. Quoted(s, 0)
  <2>1. Rank(W, 0) = 0
    BY <1>1, RankType, PositionsType
  <2>2. Reading(s)[0].mode = "start" /\ Reading(s)[0].open = Stack(s)[0]
    BY <1>1, ReadingSteps, StackSteps DEF NotRead
  <2> QED BY <2>1, <2>2 DEF Quoted
<1>3. ASSUME NEW n \in 0 .. Len(s) - 1, Quoted(s, n)
      PROVE  Quoted(s, n + 1) /\ PlainStep(Reading(s)[n], s[n + 1], Reading(s)[n + 1])
  <2> DEFINE st == Reading(s)[n]
             t == s[n + 1]
             u == Reading(s)[n + 1]
             r == Rank(W, n)
  <2>1. /\ n + 1 \in 1 .. Len(s) /\ n \in Nat /\ n \in 0 .. Len(s) /\ n + 1 \in 0 .. Len(s)
        /\ (n + 1) - 1 = n
    BY <1>1
  <2>2. st \in Readers /\ t \in Tokens /\ u = Read(st, t)
    BY <1>1, <2>1, ReadingSteps, ReadingType, ElementOfSeq
  <2>3. st.mode \notin {"done", "error"} /\ u.mode \notin {"done", "error"}
    BY <2>1
  <2>4. st.mode = "string" => t \notin Brackets \cup {"slash"}
    BY <2>1 DEF PlainText
  <2>5. /\ st.mode # "escape" /\ Stack(s)[n] = st.open
        /\ st.mode # "cut" => (r % 2 = 1 <=> st.mode = "string")
    BY <1>3 DEF Quoted
  <2>6. Stack(s)[n + 1] = Stacked(st.open, t)
    BY <1>1, <2>1, <2>5, StackSteps
  <2>7. r \in Nat /\ Rank(W, n + 1) = IF t \in {"quote", "part"} THEN r + 1 ELSE r
    <3>1. n + 1 \in W <=> t \in {"quote", "part"}
      BY <1>1, <2>1
    <3> HIDE DEF W, t
    <3>2. Rank(W, n + 1) = IF n + 1 \in W THEN r + 1 ELSE r
      BY <1>1, <2>1, RankStep
    <3>3. n \in Int /\ Cardinality(W) \in Nat
      BY <1>1, <2>1, PositionsType
    <3>4. r \in 0 .. Cardinality(W)
      BY <1>1, <3>3, RankType
    <3> HIDE DEF r
    <3> QED BY <3>1, <3>2, <3>3, <3>4
  <2> HIDE DEF st, t, u, r, W
  <2>8. PlainStep(st, t, u)
    BY <2>2, <2>3, <2>4, <2>5, ReadPlain
  <2>9. /\ st.mode # "cut" /\ u.mode # "escape" /\ u.open = Stacked(st.open, t)
        /\ u.mode # "cut" => (t \in {"quote", "part"} <=> (u.mode = "string" <=> st.mode # "string"))
    BY <2>8 DEF PlainStep
  <2>10. u.mode # "cut" => (Rank(W, n + 1) % 2 = 1 <=> u.mode = "string")
    <3>1. CASE t \in {"quote", "part"}
      <4>1. (r + 1) % 2 = 1 <=> ~(r % 2 = 1)
        BY <2>7
      <4> QED BY <2>5, <2>7, <2>9, <3>1, <4>1, Zenon
    <3>2. CASE t \notin {"quote", "part"}
      BY <2>5, <2>7, <2>9, <3>2, Zenon
    <3> QED BY <3>1, <3>2
  <2>11. Quoted(s, n + 1)
    BY <2>6, <2>9, <2>10 DEF Quoted, u, W
  <2> QED BY <2>8, <2>11 DEF st, t, u
<1>4. \A n \in 0 .. Len(s) : n \in T
  <2>1. 0 \in T /\ \A n \in 0 .. Len(s) - 1 : n \in T => n + 1 \in T
    BY <1>1, <1>2, <1>3
  <2> HIDE DEF T
  <2> QED BY <1>1, <2>1, InductionBetween
<1>5. ASSUME NEW n \in 1 .. Len(s) PROVE PlainStep(Reading(s)[n - 1], s[n], Reading(s)[n])
  <2> DEFINE m == n - 1
  <2>1. m \in 0 .. Len(s) - 1 /\ m \in 0 .. Len(s) /\ m + 1 = n
    BY <1>1
  <2> HIDE DEF m
  <2>2. PlainStep(Reading(s)[m], s[m + 1], Reading(s)[m + 1])
    BY <1>3, <1>4, <2>1
  <2> QED BY <2>1, <2>2 DEF m
<1> QED BY <1>4, <1>5

\* And it has no comma in front of a closing bracket.
LEMMA NoSpareComma ==
  ASSUME NEW s \in Seq(Tokens), PlainText(s),
         \A n \in 0 .. Len(s) : Reading(s)[n].mode \notin {"done", "error"}
  PROVE  TrailingCommas(s) = {}
<1> SUFFICES ASSUME NEW i \in TrailingCommas(s) PROVE FALSE
  OBVIOUS
<1>1. /\ Len(s) \in Nat /\ i + 1 \in 1 .. Len(s) /\ i + 1 \in 0 .. Len(s) /\ (i + 1) - 1 = i
      /\ s[i + 1] \in Closers
  BY DEF TrailingCommas, Where
<1>2. Reading(s)[i + 1].mode # "error"
  BY <1>1
<1>3. Reading(s)[i].mode = "string"
  BY <1>2, SpareComma
<1> QED BY <1>1, <1>3 DEF PlainText, Brackets

\* Where texts agree, so do their stacks.
LEMMA StackAgrees ==
  ASSUME NEW s \in Seq(Tokens), NEW t \in Seq(Tokens), NEW m \in Nat,
         m <= Len(s), m <= Len(t), \A i \in 1 .. m : s[i] = t[i]
  PROVE  \A n \in 0 .. m : Stack(s)[n] = Stack(t)[n]
<1> DEFINE T == {n \in Nat : Stack(s)[n] = Stack(t)[n]}
<1>1. Len(s) \in Nat /\ Len(t) \in Nat
  OBVIOUS
<1>2. 0 \in T
  BY <1>1, StackSteps
<1>3. ASSUME NEW n \in 0 .. m - 1, n \in T PROVE n + 1 \in T
  <2>1. n + 1 \in 1 .. Len(s) /\ n + 1 \in 1 .. Len(t) /\ (n + 1) - 1 = n /\ n + 1 \in 1 .. m
    BY <1>1
  <2>2. /\ Stack(s)[n + 1] = Stacked(Stack(s)[n], s[n + 1])
        /\ Stack(t)[n + 1] = Stacked(Stack(t)[n], t[n + 1])
    BY <1>1, <2>1, StackSteps
  <2> QED BY <1>3, <2>1, <2>2
<1>4. \A n \in 0 .. m : n \in T
  <2> HIDE DEF T
  <2> QED BY <1>2, <1>3, InductionBetween
<1> QED BY <1>4

\* A front of a sequence, but for its last element, is a front of it.
LEMMA FrontOfFront ==
  ASSUME NEW S, NEW o \in Seq(S), NEW k \in 1 .. Len(o)
  PROVE  LET f == SubSeq(o, 1, k) IN
         Len(f) = k /\ Last(f) = o[k] /\ Front(f) = SubSeq(o, 1, k - 1)
<1> DEFINE f == SubSeq(o, 1, k)
           h == k - 1
           a == SubSeq(f, 1, h)
           b == SubSeq(o, 1, h)
<1>1. h \in 0 .. Len(o) /\ h <= k /\ k \in 0 .. Len(o) /\ Len(o) \in Nat /\ h \in 0 .. k
  OBVIOUS
<1> HIDE DEF h
<1>2. f \in Seq(S) /\ Len(f) = k /\ \A j \in 1 .. k : f[j] = o[j]
  BY <1>1, FrontOf
<1> HIDE DEF f
<1>3. a \in Seq(S) /\ Len(a) = h /\ \A j \in 1 .. h : a[j] = f[j]
  BY <1>1, <1>2, FrontOf
<1>4. b \in Seq(S) /\ Len(b) = h /\ \A j \in 1 .. h : b[j] = o[j]
  BY <1>1, FrontOf
<1> HIDE DEF a, b
<1>5. \A j \in 1 .. Len(a) : a[j] = b[j]
  BY <1>1, <1>2, <1>3, <1>4
<1>6. a = b
  BY <1>3, <1>4, <1>5, SeqEqual
<1>7. Last(f) = o[k]
  BY <1>1, <1>2 DEF Last
<1>8. Front(f) = a
  BY <1>2 DEF Front, a, h
<1> QED BY <1>2, <1>6, <1>7, <1>8 DEF f, b, h

\* Once every open bracket is closed, from the innermost on, the object is complete.
LEMMA ClosingReads ==
  ASSUME NEW z \in Seq(Tokens), NEW m \in 0 .. Len(z), NEW o \in Seq(Openers),
         Reading(z)[m].open = o, o # <<>>, Reading(z)[m].mode \in {"first", "number", "after"},
         Len(z) = m + Len(o), \A i \in 1 .. Len(o) : z[m + i] = Closer(o[Len(o) - i + 1])
  PROVE  Loads(z)
<1> DEFINE At(i) == /\ Reading(z)[m + i].mode \in {"first", "number", "after"}
                    /\ Reading(z)[m + i].open = SubSeq(o, 1, Len(o) - i)
           T == {i \in Nat : At(i)}
<1>1. Len(z) \in Nat /\ Len(o) \in Nat \ {0} /\ m \in Nat
  BY EmptySeq
<1>2. At(0)
  <2>1. m + 0 = m /\ Len(o) - 0 = Len(o) /\ SubSeq(o, 1, Len(o)) = o
    BY <1>1
  <2> QED BY <2>1
<1>3. ASSUME NEW i \in 0 .. Len(o) - 1, At(i)
      PROVE  Reading(z)[m + (i + 1)] = [mode |-> IF i = Len(o) - 1 THEN "done" ELSE "after",
                                        open |-> SubSeq(o, 1, Len(o) - (i + 1))]
  <2> DEFINE k == Len(o) - i
             st == Reading(z)[m + i]
             c == z[m + (i + 1)]
             f == SubSeq(o, 1, k)
  <2>1. /\ k \in 1 .. Len(o) /\ i + 1 \in 1 .. Len(o) /\ Len(o) - (i + 1) + 1 = k
        /\ Len(o) - (i + 1) = k - 1 /\ (k = 1 <=> i = Len(o) - 1)
        /\ m + (i + 1) \in 1 .. Len(z) /\ (m + (i + 1)) - 1 = m + i
    BY <1>1
  <2>2. c = Closer(o[k])
    BY <2>1
  <2>3. Reading(z)[m + (i + 1)] = Read(st, c)
    BY <1>1, <2>1, ReadingSteps
  <2>4. st.open = f /\ st.mode \in {"first", "number", "after"}
    BY <1>3
  <2>5. Len(f) = k /\ Last(f) = o[k] /\ Front(f) = SubSeq(o, 1, k - 1)
    <3> HIDE DEF k
    <3> QED BY <2>1, FrontOfFront
  <2> HIDE DEF st, c, f, k
  <2>7. c \in Closers /\ c \notin {"comma", "digit"}
    BY <2>2 DEF Closer, Closers
  <2>8. Read(st, c) = ReadEnd(st, c)
    <3>1. CASE st.mode = "first"
      BY <2>7, <3>1 DEF Read
    <3>2. CASE st.mode \in {"number", "after"}
      BY <2>7, <3>2 DEF Read
    <3> QED BY <2>4, <3>1, <3>2
  <2>9. c = Closer(Last(st.open))
    BY <2>2, <2>4, <2>5
  <2>10. ReadEnd(st, c) = [mode |-> IF Len(st.open) = 1 THEN "done" ELSE "after",
                           open |-> Front(st.open)]
    BY <2>7, <2>9 DEF ReadEnd
  <2>11. Reading(z)[m + (i + 1)] = [mode |-> IF k = 1 THEN "done" ELSE "after",
                                    open |-> SubSeq(o, 1, k - 1)]
    BY <2>3, <2>4, <2>5, <2>8, <2>10
  <2> QED BY <2>1, <2>11
<1>4. \A i \in 0 .. Len(o) - 1 : i \in T
  <2>1. 0 \in T
    BY <1>2
  <2>2. ASSUME NEW i \in 0 .. (Len(o) - 1) - 1, i \in T PROVE i + 1 \in T
    <3>1. i \in 0 .. Len(o) - 1 /\ i # Len(o) - 1 /\ i + 1 \in Nat
      BY <1>1
    <3>2. Reading(z)[m + (i + 1)] = [mode |-> "after", open |-> SubSeq(o, 1, Len(o) - (i + 1))]
      BY <1>3, <2>2, <3>1
    <3> QED BY <3>1, <3>2
  <2> HIDE DEF T
  <2>3. Len(o) - 1 \in Nat
    BY <1>1
  <2> QED BY <2>1, <2>2, <2>3, InductionBetween
<1>5. Reading(z)[m + ((Len(o) - 1) + 1)].mode = "done"
  <2> DEFINE i == Len(o) - 1
  <2>1. i \in 0 .. Len(o) - 1 /\ i = Len(o) - 1
    BY <1>1
  <2> HIDE DEF i
  <2>2. At(i)
    BY <1>4, <2>1
  <2> HIDE DEF At
  <2>3. Reading(z)[m + (i + 1)] = [mode |-> IF i = Len(o) - 1 THEN "done" ELSE "after",
                                   open |-> SubSeq(o, 1, Len(o) - (i + 1))]
    BY <1>3, <2>1, <2>2
  <2>4. Reading(z)[m + (i + 1)].mode = "done"
    BY <2>1, <2>3
  <2> QED BY <2>4 DEF i
<1>6. m + ((Len(o) - 1) + 1) = Len(z)
  BY <1>1
<1> QED BY <1>5, <1>6 DEF Loads

\* Layer 3 gives a reply without trailing commas back with a quote, if it has an odd
\* number, and what closes its brackets.
LEMMA QuotedAndClosed ==
  ASSUME NEW s \in Seq(Tokens), Len(s) \in Nat \ {0}, PlainText(s),
         \A n \in 0 .. Len(s) : Reading(s)[n].mode \notin {"done", "error"}
  PROVE  LET st == Reading(s)[Len(s)]
             z == Closed(WithEvenQuotes(s))
             m == Len(z) - Len(st.open) IN
         /\ Repaired(s) = WithoutTrailingCommas(z)
         /\ st \in Readers /\ st.mode \in Inside /\ st.open # <<>>
         /\ PlainStep(Reading(s)[Len(s) - 1], s[Len(s)], st)
         /\ z \in Seq(Tokens) /\ m \in Len(s) .. Len(s) + 1
         /\ \A i \in 1 .. Len(s) : z[i] = s[i]
         /\ \A i \in 1 .. Len(st.open) : /\ z[m + i] = Closer(st.open[Len(st.open) - i + 1])
                                         /\ z[m + i] \in Closers
         /\ m # Len(s) => m = Len(s) + 1 /\ z[m] = "quote"
         /\ st.mode # "cut" => (m = Len(s) + 1 <=> st.mode = "string")
<1> DEFINE N == Len(s)
           W == Where(s, {"quote", "part"})
           st == Reading(s)[N]
           o == st.open
           q == WithEvenQuotes(s)
           z == Closed(q)
<1>1. N \in Nat \ {0} /\ N \in 0 .. N /\ N \in 1 .. N
  OBVIOUS
<1>2. PlainStep(Reading(s)[N - 1], s[N], st) /\ Quoted(s, N)
  BY <1>1, PlainReading
<1>3. st \in Readers /\ st.mode \in Inside /\ o # <<>>
  <2>1. st \in Readers /\ st.mode # "start" /\ st.mode \notin {"done", "error"}
    BY <1>1, ReadingType
  <2> QED BY <2>1 DEF Readers, Modes
<1>4. o \in Seq(Openers) /\ Len(o) \in Nat \ {0}
  BY <1>3, EmptySeq DEF Readers
<1>5. Repaired(s) = WithoutTrailingCommas(z)
  <2>1. WithoutTrailingCommas(s) = s
    BY NoSpareComma, PickedAll DEF WithoutTrailingCommas
  <2> QED BY <2>1 DEF Repaired
<1>6. Stack(s)[N] = o /\ (st.mode # "cut" => (Rank(W, N) % 2 = 1 <=> st.mode = "string"))
  BY <1>2 DEF Quoted
<1>7. Rank(W, N) = Cardinality(W) /\ Cardinality(W) \in Nat
  <2>1. W \in SUBSET (1 .. N) /\ N \in Int
    BY <1>1 DEF Where
  <2> HIDE DEF W
  <2>2. W \in Positions /\ \A j \in W : j <= N
    BY <1>1, <2>1, PositionsFinite
  <2> QED BY <2>1, <2>2, RankType, PositionsType
<1>8. /\ q \in Seq(Tokens) /\ Len(q) \in N .. N + 1 /\ Stack(q)[Len(q)] = o
      /\ \A i \in 1 .. N : q[i] = s[i]
      /\ Len(q) # N => Len(q) = N + 1 /\ q[Len(q)] = "quote"
      /\ Len(q) = N + 1 <=> Cardinality(W) % 2 = 1
  <2>1. CASE Cardinality(W) % 2 = 0
    <3>1. q = s
      BY <2>1 DEF WithEvenQuotes
    <3> HIDE DEF q
    <3> QED BY <1>1, <1>6, <2>1, <3>1
  <2>2. CASE Cardinality(W) % 2 # 0
    <3>1. q = Append(s, "quote") /\ Cardinality(W) % 2 = 1
      BY <1>7, <2>2 DEF WithEvenQuotes
    <3>2. "quote" \in Tokens /\ "quote" \notin Openers /\ "quote" \notin Closers
      BY DEF Tokens, Openers, Closers
    <3> HIDE DEF q
    <3>3. q \in Seq(Tokens) /\ Len(q) = N + 1 /\ q[N + 1] = "quote" /\ \A i \in 1 .. N : q[i] = s[i]
      BY <3>1, <3>2, AppendProperties
    <3>4. Stack(q)[N] = o
      BY <1>1, <1>6, <3>3, StackAgrees
    <3>5. Stack(q)[N + 1] = Stacked(Stack(q)[(N + 1) - 1], q[N + 1])
      <4>1. N + 1 \in 1 .. Len(q) /\ Len(q) \in Nat
        BY <1>1, <3>3
      <4> QED BY <4>1, StackSteps
    <3>6. Stack(q)[N + 1] = o
      <4>1. (N + 1) - 1 = N
        BY <1>1
      <4> QED BY <3>2, <3>3, <3>4, <3>5, <4>1 DEF Stacked
    <3> QED BY <1>1, <3>1, <3>3, <3>6
  <2> QED BY <2>1, <2>2
<1> HIDE DEF q
<1>9. /\ z \in Seq(Tokens) /\ Len(z) = Len(q) + Len(o)
      /\ \A i \in 1 .. Len(q) : z[i] = q[i]
      /\ \A i \in 1 .. Len(o) : /\ z[Len(q) + i] = Closer(o[Len(o) - i + 1])
                                /\ z[Len(q) + i] \in Closers
  <2> HIDE DEF st, N
  <2>1. q \in Seq(Tokens) /\ Stack(q)[Len(q)] = o
    BY <1>8
  <2>2. LET y == Stack(q)[Len(q)] IN
        /\ Closed(q) \in Seq(Tokens) /\ Len(Closed(q)) = Len(q) + Len(y)
        /\ \A i \in 1 .. Len(q) : Closed(q)[i] = q[i]
        /\ \A i \in 1 .. Len(y) : /\ Closed(q)[Len(q) + i] = Closer(y[Len(y) - i + 1])
                                  /\ Closed(q)[Len(q) + i] \in Closers
    BY <2>1, ClosedType, Zenon
  <2> QED BY <2>1, <2>2, Zenon
<1> HIDE DEF z, W, N, st
<1>10. Len(z) - Len(o) = Len(q)
  BY <1>4, <1>8, <1>9
<1>11. /\ \A i \in 1 .. N : z[i] = s[i]
       /\ Len(q) # N => z[Len(q)] = "quote"
  BY <1>1, <1>8, <1>9
<1>12. st.mode # "cut" => (Len(q) = N + 1 <=> st.mode = "string")
  BY <1>6, <1>7, <1>8
<1> QED BY <1>2, <1>3, <1>5, <1>8, <1>9, <1>10, <1>11, <1>12 DEF z, q, st, N

\* A trailing comma there can only be the last token of the reply.
LEMMA LastComma ==
  ASSUME NEW s \in Seq(Tokens), NEW z \in Seq(Tokens), Len(z) >= Len(s),
         \A i \in 1 .. Len(s) : z[i] = s[i],
         \A i \in Len(s) + 1 .. Len(z) : z[i] # "comma",
         TrailingCommas(s) = {}
  PROVE  \A i \in TrailingCommas(z) : i = Len(s) /\ s[i] = "comma"
<1> SUFFICES ASSUME NEW i \in TrailingCommas(z) PROVE i = Len(s) /\ s[i] = "comma"
  OBVIOUS
<1>1. /\ i \in 1 .. Len(z) /\ z[i] = "comma" /\ i < Len(z) /\ z[i + 1] \in Closers
      /\ Len(z) \in Nat /\ Len(s) \in Nat
  BY DEF TrailingCommas, Where
<1>2. i \in 1 .. Len(s) /\ s[i] = "comma"
  BY <1>1
<1>3. ~(i < Len(s))
  <2> SUFFICES ASSUME i < Len(s) PROVE FALSE
    OBVIOUS
  <2>1. z[i + 1] = s[i + 1]
    BY <1>1, <1>2
  <2>2. i \in TrailingCommas(s)
    BY <1>1, <1>2, <2>1 DEF TrailingCommas, Where
  <2> QED BY <2>2
<1> QED BY <1>1, <1>2, <1>3

\* Removing one position moves what is behind it.
LEMMA PickedButOne ==
  ASSUME NEW S, NEW z \in Seq(S), NEW k \in 1 .. Len(z)
  PROVE  LET x == Picked(z, (1 .. Len(z)) \ {k}) IN
         /\ x \in Seq(S) /\ Len(x) = Len(z) - 1
         /\ \A i \in 1 .. k - 1 : x[i] = z[i]
         /\ \A i \in k .. Len(z) - 1 : x[i] = z[i + 1]
<1> DEFINE K == (1 .. Len(z)) \ {k}
           x == Picked(z, K)
<1>1. Len(z) \in Nat /\ k \in Nat \ {0} /\ K \in SUBSET (1 .. Len(z))
  OBVIOUS
<1>2. /\ K \in Positions /\ x \in Seq(S) /\ Len(x) = Cardinality(K)
      /\ \A i \in K : x[Rank(K, i)] = z[i]
  BY <1>1, PickedType
<1>3. Cardinality(K) = Len(z) - 1
  <2>1. IsFiniteSet(1 .. Len(z)) /\ Cardinality(1 .. Len(z)) = Len(z)
    BY <1>1, FS_Interval
  <2> QED BY <2>1, FS_RemoveElement
<1>4. ASSUME NEW i \in 1 .. k - 1 PROVE Rank(K, i) = i
  <2>1. {j \in K : j <= i} = 1 .. i /\ i \in Nat \ {0}
    BY <1>1
  <2>2. Cardinality(1 .. i) = i
    BY <2>1, FS_Interval
  <2> QED BY <2>1, <2>2 DEF Rank
<1>5. ASSUME NEW i \in k .. Len(z) - 1 PROVE Rank(K, i + 1) = i
  <2> DEFINE h == i + 1
             B == 1 .. h
  <2>1. h \in Nat \ {0} /\ h - 1 = i /\ k \in B /\ {j \in K : j <= h} = B \ {k}
    BY <1>1
  <2> HIDE DEF h
  <2>2. IsFiniteSet(B) /\ Cardinality(B) = h
    BY <2>1, FS_Interval
  <2> HIDE DEF B
  <2>3. Cardinality(B \ {k}) = h - 1
    BY <2>1, <2>2, FS_RemoveElement
  <2>4. Rank(K, h) = i
    BY <2>1, <2>3 DEF Rank
  <2> QED BY <2>4 DEF h
<1>6. /\ \A i \in 1 .. k - 1 : i \in K
      /\ \A i \in k .. Len(z) - 1 : i + 1 \in K
  BY <1>1
<1> HIDE DEF K, x
<1>7. /\ \A i \in 1 .. k - 1 : x[i] = z[i]
      /\ \A i \in k .. Len(z) - 1 : x[i] = z[i + 1]
  BY <1>2, <1>4, <1>5, <1>6
<1> QED BY <1>2, <1>3, <1>7 DEF x, K

\* What layer 3 gives back loads exactly if the reply is not cut between the beginning of
\* a key and the value that belongs to it.
LEMMA RepairedLoads ==
  ASSUME NEW s \in Seq(Tokens), Len(s) \in Nat \ {0}, PlainText(s),
         \A n \in 0 .. Len(s) : Reading(s)[n].mode \notin {"done", "error"}
  PROVE  Loads(Repaired(s)) <=> Reading(s)[Len(s)].mode \notin {"cut", "value"}
<1> DEFINE N == Len(s)
           st == Reading(s)[N]
           o == st.open
           z == Closed(WithEvenQuotes(s))
           m == Len(z) - Len(o)
           c == s[N]
<1>1. /\ Repaired(s) = WithoutTrailingCommas(z)
      /\ st \in Readers /\ st.mode \in Inside /\ o # <<>>
      /\ PlainStep(Reading(s)[N - 1], c, st)
      /\ z \in Seq(Tokens) /\ m \in N .. N + 1
      /\ \A i \in 1 .. N : z[i] = s[i]
      /\ \A i \in 1 .. Len(o) : z[m + i] = Closer(o[Len(o) - i + 1]) /\ z[m + i] \in Closers
      /\ m # N => m = N + 1 /\ z[m] = "quote"
      /\ st.mode # "cut" => (m = N + 1 <=> st.mode = "string")
  BY QuotedAndClosed
<1>2. /\ N \in Nat \ {0} /\ N - 1 \in 0 .. N /\ N \in 0 .. N /\ N \in 1 .. N
      /\ o \in Seq(Openers) /\ Len(o) \in Nat \ {0} /\ Len(z) \in Nat
  BY <1>1, EmptySeq DEF Readers
<1>3. TrailingCommas(s) = {}
  BY NoSpareComma
<1>4. Reading(s)[N - 1] \in Readers
  BY <1>2, ReadingType
<1> HIDE DEF z
<1>5. /\ Len(z) = m + Len(o) /\ m \in 0 .. Len(z) /\ N <= Len(z) /\ N + 1 \in 1 .. Len(z)
      /\ m \in Nat
  BY <1>1, <1>2
<1>6. /\ \A n \in 0 .. N : Reading(z)[n] = Reading(s)[n]
      /\ Reading(z)[N + 1] = Read(st, z[N + 1])
  <2>1. \A n \in 0 .. N : Reading(z)[n] = Reading(s)[n]
    <3>1. /\ z \in Seq(Tokens) /\ N \in Nat /\ N <= Len(z) /\ N <= Len(s)
          /\ \A i \in 1 .. N : z[i] = s[i]
      <4> HIDE DEF st, o, m, c
      <4>1. N <= Len(s)
        BY <1>2
      <4> HIDE DEF N
      <4> QED BY <1>1, <1>2, <1>5, <4>1
    <3> HIDE DEF N
    <3> QED BY <3>1, ReadingAgrees
  <2>2. (N + 1) - 1 = N
    BY <1>2
  <2> QED BY <1>2, <1>5, <2>1, <2>2, ReadingSteps
<1> HIDE DEF m
<1>7. \A i \in N + 1 .. Len(z) : z[i] \in Closers \cup {"quote"}
  <2> SUFFICES ASSUME NEW i \in N + 1 .. Len(z) PROVE z[i] \in Closers \cup {"quote"}
    OBVIOUS
  <2>1. CASE i = m
    BY <1>1, <1>2, <2>1
  <2>2. CASE i # m
    <3> DEFINE k == i - m
    <3>1. k \in 1 .. Len(o) /\ m + k = i
      BY <1>1, <1>2, <1>5, <2>2
    <3> HIDE DEF k
    <3>2. z[m + k] \in Closers
      BY <1>1, <3>1
    <3> QED BY <3>1, <3>2
  <2> QED BY <2>1, <2>2
<1>8. \A i \in N + 1 .. Len(z) : z[i] # "comma"
  BY <1>7 DEF Closers
<1> HIDE DEF st, o, N, c
<1>9. \A i \in TrailingCommas(z) : i = N /\ c = "comma"
  BY <1>1, <1>3, <1>5, <1>8, LastComma DEF N, c
<1>10. TrailingCommas(z) = {} => Repaired(s) = z
  BY <1>1, PickedAll DEF WithoutTrailingCommas
<1>11. CASE st.mode = "string"
  <2>1. m = N + 1 /\ z[N + 1] = "quote"
    BY <1>1, <1>2, <1>11
  <2>2. TrailingCommas(z) = {}
    BY <1>9, <2>1 DEF TrailingCommas, Closers
  <2>3. Reading(z)[m].open = o /\ Reading(z)[m].mode \in {"first", "number", "after"}
    <3>1. Read(st, "quote") = [st EXCEPT !.mode = "after"]
      BY <1>11 DEF Read
    <3> QED BY <1>1, <1>6, <2>1, <3>1 DEF Readers, o
  <2>4. Loads(z)
    BY <1>1, <1>2, <1>5, <2>3, ClosingReads
  <2> QED BY <1>10, <1>11, <2>2, <2>4 DEF st, N
<1>12. CASE st.mode \in {"first", "number", "after"}
  <2>1. m = N
    BY <1>1, <1>2, <1>12
  <2>2. c # "comma"
    BY <1>1, <1>12 DEF PlainStep
  <2>3. TrailingCommas(z) = {}
    BY <1>9, <2>2
  <2>4. Reading(z)[m].open = o /\ Reading(z)[m].mode \in {"first", "number", "after"}
    BY <1>2, <1>6, <1>12, <2>1 DEF o, st
  <2>5. Loads(z)
    BY <1>1, <1>2, <1>5, <2>4, ClosingReads
  <2> QED BY <1>10, <1>12, <2>3, <2>5 DEF st, N
<1>13. CASE st.mode = "next"
  <2> DEFINE x == Picked(z, (1 .. Len(z)) \ {N})
             v == Reading(s)[N - 1]
  <2>1. m = N
    BY <1>1, <1>2, <1>13
  <2>2. c = "comma" /\ v.mode \in {"number", "after"} /\ v.open = o
    BY <1>1, <1>13 DEF PlainStep, o
  <2>3. z[N + 1] \in Closers
    <3>1. 1 \in 1 .. Len(o)
      BY <1>2
    <3> QED BY <1>1, <2>1, <3>1
  <2>4. TrailingCommas(z) = {N}
    <3>1. N \in 1 .. Len(z) /\ N < Len(z) /\ z[N] = "comma"
      BY <1>1, <1>2, <1>5, <2>2 DEF c
    <3>2. N \in TrailingCommas(z)
      BY <2>3, <3>1 DEF TrailingCommas, Where
    <3> QED BY <1>9, <3>2
  <2>5. Repaired(s) = x
    BY <1>1, <2>4 DEF WithoutTrailingCommas
  <2>6. /\ x \in Seq(Tokens) /\ Len(x) = Len(z) - 1
        /\ \A i \in 1 .. N - 1 : x[i] = z[i]
        /\ \A i \in N .. Len(z) - 1 : x[i] = z[i + 1]
    <3>1. N \in 1 .. Len(z)
      BY <1>2, <1>5
    <3> QED BY <1>1, <3>1, PickedButOne
  <2> DEFINE h == N - 1
  <2>7. h \in Nat /\ h + 1 = N /\ h \in 0 .. Len(x) /\ Len(x) = h + Len(o) /\ h <= N
    BY <1>2, <1>5, <2>1, <2>6
  <2> HIDE DEF x
  <2>8. Reading(x)[h] = v
    <3>1. h <= Len(x) /\ h <= Len(s)
      BY <2>6, <2>7 DEF N
    <3>2. ASSUME NEW i \in 1 .. h PROVE x[i] = s[i]
      <4>1. i \in 1 .. N - 1 /\ i \in 1 .. N
        BY <1>2
      <4> QED BY <1>1, <2>6, <4>1
    <3> HIDE DEF h
    <3>3. Reading(x)[h] = Reading(s)[h]
      <4>1. h \in 0 .. h
        BY <2>7
      <4> QED BY <2>6, <2>7, <3>1, <3>2, <4>1, ReadingAgrees
    <3> QED BY <3>3 DEF h
  <2>9. \A i \in 1 .. Len(o) : x[h + i] = Closer(o[Len(o) - i + 1])
    <3> SUFFICES ASSUME NEW i \in 1 .. Len(o) PROVE x[h + i] = Closer(o[Len(o) - i + 1])
      OBVIOUS
    <3>1. h + i \in N .. Len(z) - 1 /\ (h + i) + 1 = m + i
      BY <1>2, <2>1, <2>6, <2>7
    <3>2. x[h + i] = z[m + i]
      BY <2>6, <3>1
    <3> QED BY <1>1, <3>2
  <2> HIDE DEF h, v
  <2>10. Loads(x)
    <3>1. Reading(x)[h].open = o /\ Reading(x)[h].mode \in {"first", "number", "after"}
      BY <2>2, <2>8
    <3> QED BY <1>1, <1>2, <2>6, <2>7, <2>9, <3>1, ClosingReads
  <2> QED BY <1>13, <2>5, <2>10 DEF st, N
<1>14. CASE st.mode = "value"
  <2>1. m = N /\ c # "comma"
    <3>1. m = N
      BY <1>1, <1>2, <1>14
    <3>2. c = "key"
      BY <1>1, <1>14 DEF PlainStep
    <3> QED BY <3>1, <3>2
  <2>2. TrailingCommas(z) = {}
    BY <1>9, <2>1
  <2>3. z[N + 1] \in Closers
    <3>1. 1 \in 1 .. Len(o)
      BY <1>2
    <3> QED BY <1>1, <2>1, <3>1
  <2>4. Reading(z)[N + 1].mode = "error"
    <3> DEFINE t == z[N + 1]
    <3>1. t \notin Openers /\ t # "quote" /\ t # "digit"
      BY <2>3 DEF Openers, Closers
    <3> HIDE DEF t
    <3>2. Read(st, t) = ReadValue(st, t)
      BY <1>14 DEF Read
    <3>3. ReadValue(st, t) = [st EXCEPT !.mode = "error"]
      BY <3>1 DEF ReadValue
    <3>4. [st EXCEPT !.mode = "error"].mode = "error"
      BY <1>1 DEF Readers
    <3> QED BY <1>6, <3>2, <3>3, <3>4 DEF t
  <2>5. ~Loads(z)
    BY <1>1, <1>2, <1>5, <2>4, DoneOnce DEF Loads
  <2> QED BY <1>10, <1>14, <2>2, <2>5 DEF st, N
<1>15. CASE st.mode = "cut"
  <2>1. c # "comma"
    BY <1>1, <1>15 DEF PlainStep
  <2>2. TrailingCommas(z) = {}
    BY <1>9, <2>1
  <2>3. Reading(z)[N + 1].mode = "error"
    <3>1. Read(st, z[N + 1]) = [st EXCEPT !.mode = "error"]
      BY <1>15 DEF Read
    <3> QED BY <1>1, <1>6, <3>1 DEF Readers
  <2>4. ~Loads(z)
    BY <1>1, <1>2, <1>5, <2>3, DoneOnce DEF Loads
  <2> QED BY <1>10, <1>15, <2>2, <2>4 DEF st, N
<1>16. st.mode # "escape"
  BY <1>1 DEF PlainStep
<1> QED BY <1>1, <1>11, <1>12, <1>13, <1>14, <1>15, <1>16 DEF Inside

\* While no string has brackets or escapes in it, layer 3 repairs a reply that is cut
\* exactly if it is not cut between the beginning of a key and its value.
LEMMA CutRepaired ==
  ASSUME RepairInv, object = <<>>, PlainStrings
  PROVE  RobustParse(text).layer = 3 <=> reader.mode \notin {"cut", "value"}
<1>1. /\ text \in Seq(Tokens) /\ Len(text) \in Nat \ {0} /\ Stripped(text) = text
      /\ \A n \in 0 .. Len(text) : Reading(text)[n].mode \notin {"done", "error"}
      /\ ~Loads(text) /\ ~Loads(LastBalanced(text))
  BY Unfinished
<1>2. reader = Reading(text)[Len(text)]
  BY DEF RepairInv, TypeOK
<1>3. PlainText(text)
  BY DEF PlainStrings, PlainText
<1>4. Loads(Repaired(text)) <=> reader.mode \notin {"cut", "value"}
  BY <1>1, <1>2, <1>3, RepairedLoads
<1>5. RobustParse(text).layer = 3 <=> Loads(Repaired(text))
  BY <1>1, FirstThatLoads
<1> QED BY <1>4, <1>5

\* A reply that is cut is repaired exactly if it is not cut between the beginning of a
\* key and the value that belongs to it, however long it is.
THEOREM CutRepairedAlways == Spec => []CutIsRepaired
<1>1. RepairInv => CutIsRepaired
  BY CutRepaired DEF CutIsRepaired
<1> QED BY <1>1, RepairInvariant, PTL

=============================================================================
