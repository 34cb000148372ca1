----------------------------- MODULE JsonRepair -----------------------------
(***************************************************************************)
(* LLMService._robust_parse.  A reply arrives token by token and may be    *)
(* cut anywhere, at max_tokens, or go on behind its object.  What the      *)
(* layers make of it is a function of the text so far.                     *)
(*                                                                         *)
(* A token is a character, called by a name, except for the keys: "key" is *)
(* a quoted key with its colon, "name" is one without the colon yet, and   *)
(* "part" is one without its second quote.  "w" is any other character,    *)
(* whitespace is left out, and numbers stand for all scalars that are not  *)
(* strings.                                                                *)
(***************************************************************************)
EXTENDS Subsequences, SequencesExt

CONSTANT MaxLength  \* how many tokens of a reply are looked at

ASSUME LengthAssumption == MaxLength \in Nat \ {0}

VARIABLES
  text,    \* the reply so far, from its first brace
  reader,  \* where a JSON reader is in it: [mode, open]
  object   \* the object of the reply, once it is complete, and before <<>>

vars == <<text, reader, object>>

Openers == {"lbrace", "lbracket"}
Closers == {"rbrace", "rbracket"}
Closer(t) == IF t = "lbrace" THEN "rbrace" ELSE "rbracket"
Tokens ==
  Openers \cup Closers
  \cup {"comma", "quote", "slash", "w", "digit", "key", "name", "part", "fence"}

-----------------------------------------------------------------------------
(* JSON: json.loads accepts a text if its reader ends "done".              *)

\* How a token goes on where a value may begin.
ReadValue(st, t) ==
  CASE t \in Openers -> [mode |-> "first", open |-> Append(st.open, t)]
    [] t = "quote"   -> [st EXCEPT !.mode = "string"]
    [] t = "digit"   -> [st EXCEPT !.mode = "number"]
    [] OTHER         -> [st EXCEPT !.mode = "error"]

\* How it goes on in an object or array that may end with it.
ReadEnd(st, t) ==
  IF t \in Closers /\ t = Closer(Last(st.open))
    THEN [mode |-> IF Len(st.open) = 1 THEN "done" ELSE "after", open |-> Front(st.open)]
    ELSE [st EXCEPT !.mode = "error"]

\* How it goes on where an item, after a key in an object, may begin.
ReadItem(st, t) ==
  IF Last(st.open) = "lbracket"
    THEN ReadValue(st, t)
    ELSE [st EXCEPT !.mode = CASE t = "key" -> "value"
                               [] t \in {"name", "part"} -> "cut"
                               [] OTHER -> "error"]

Read(st, t) ==
  CASE st.mode = "start"  -> IF t = "lbrace" THEN ReadValue(st, t) ELSE [st EXCEPT !.mode = "error"]
    [] st.mode = "first"  -> IF t \in Closers THEN ReadEnd(st, t) ELSE ReadItem(st, t)
    [] st.mode = "next"   -> ReadItem(st, t)
    [] st.mode = "value"  -> ReadValue(st, t)
    [] st.mode = "string" -> [st EXCEPT !.mode = CASE t = "quote" -> "after"
                                                   [] t = "slash" -> "escape"
                                                   [] t \in {"key", "name", "part"} -> "error"
                                                   [] OTHER -> "string"]
    [] st.mode = "escape" -> [st EXCEPT !.mode = IF t \in {"quote", "slash", "w"}
                                                   THEN "string" ELSE "error"]
    [] st.mode \in {"number", "after"} ->
         CASE t = "comma" -> [st EXCEPT !.mode = "next"]
           [] t = "digit" /\ st.mode = "number" -> st
           [] OTHER -> ReadEnd(st, t)
    [] OTHER -> [st EXCEPT !.mode = "error"]

NotRead == [mode |-> "start", open |-> <<>>]

\* The reader after each token of s.
Reading(s) ==
  LET at[n \in 0 .. Len(s)] == IF n = 0 THEN NotRead ELSE Read(at[n - 1], s[n]) IN at

Loads(s) == Reading(s)[Len(s)].mode = "done"

-----------------------------------------------------------------------------
(* The layers.                                                             *)

\* The fences: one in front of the object is gone with everything there, one
\* at the end is stripped.
Stripped(s) == IF s # <<>> /\ Last(s) = "fence" THEN Front(s) ELSE s

\* Where s has tokens of T.
Where(s, T) == {i \in 1 .. Len(s) : s[i] \in T}

\* Brackets opened less brackets closed, those in strings too.
Depth(s) == Cardinality(Where(s, Openers)) - Cardinality(Where(s, Closers))

\* The brackets that bring the depth to 0.
Balanced(s) == {i \in Where(s, Closers) : Depth(SubSeq(s, 1, i)) = 0}

\* Mutant: s[:last_valid].
LastBalancedExclusive(s) ==
  IF Balanced(s) = {} THEN <<>> ELSE SubSeq(s, 1, Max(Balanced(s)) - 1)

\* Layer 2: up to the last of them.
LastBalanced(s) == IF Balanced(s) = {} THEN <<>> ELSE SubSeq(s, 1, Max(Balanced(s)))

\* The commas with a closing bracket behind them.
TrailingCommas(s) == {i \in Where(s, {"comma"}) : i < Len(s) /\ s[i + 1] \in Closers}

\* re.sub of a comma and the bracket behind it by the bracket.
WithoutTrailingCommas(s) == Picked(s, (1 .. Len(s)) \ TrailingCommas(s))

\* A key has two quotes.
WithEvenQuotes(s) ==
  IF Cardinality(Where(s, {"quote", "part"})) % 2 = 0 THEN s ELSE Append(s, "quote")

\* A closing bracket takes whatever is on the stack.
Stacked(stack, t) ==
  IF t \in Openers THEN Append(stack, t)
  ELSE IF t \in Closers /\ stack # <<>> THEN Front(stack)
  ELSE stack

\* The stack after each token of s.
Stack(s) ==
  LET at[n \in 0 .. Len(s)] == IF n = 0 THEN <<>> ELSE Stacked(at[n - 1], s[n]) IN at

\* Mutant: closed in the order they were opened.
ClosedInOrder(s) ==
  LET stack == Stack(s)[Len(s)] IN s \o [i \in 1 .. Len(stack) |-> Closer(stack[i])]

\* Brackets closed from the top of the stack.
Closing(stack) == [i \in 1 .. Len(stack) |-> Closer(stack[Len(stack) - i + 1])]

Closed(s) == s \o Closing(Stack(s)[Len(s)])

\* Mutant: everything behind the last comma is given up.
RepairedToComma(s) ==
  LET commas == Where(s, {"comma"})
      t == IF commas = {} THEN s ELSE SubSeq(s, 1, Max(commas) - 1)
  IN  WithoutTrailingCommas(Closed(WithEvenQuotes(WithoutTrailingCommas(t))))

\* Layer 3.
Repaired(s) == WithoutTrailingCommas(Closed(WithEvenQuotes(WithoutTrailingCommas(s))))

\* The layer that answers, and the text whose object it answers with; layer 4
\* answers with an object of its own.
RobustParse(t) ==
  LET s == Stripped(t)
      tries == <<s, LastBalanced(s), Repaired(s)>>
      layers == {i \in 1 .. 3 : Loads(tries[i])}
  IN  IF layers = {} THEN [layer |-> 4, parsed |-> <<>>]
      ELSE [layer |-> Min(layers), parsed |-> tries[Min(layers)]]

-----------------------------------------------------------------------------
(* The reply.                                                              *)

Init ==
  /\ text = <<"lbrace">>
  /\ reader = Read(NotRead, "lbrace")
  /\ object = <<>>

\* Mutant: the object is taken to end before its last bracket.
EmitShort(t) ==
  /\ object = <<>>
  /\ Len(text) < MaxLength
  /\ reader' = Read(reader, t)
  /\ reader'.mode # "error"
  /\ text' = Append(text, t)
  /\ object' = IF reader'.mode = "done" THEN text ELSE <<>>

\* The object goes on.
Emit(t) ==
  /\ object = <<>>
  /\ Len(text) < MaxLength
  /\ reader' = Read(reader, t)
  /\ reader'.mode # "error"
  /\ text' = Append(text, t)
  /\ object' = IF reader'.mode = "done" THEN text' ELSE <<>>

\* Something else follows it.
Trail(t) ==
  /\ object # <<>>
  /\ Len(text) < MaxLength
  /\ text' = Append(text, t)
  /\ UNCHANGED <<reader, object>>

Next ==
  \/ \E t \in Tokens \ {"fence"} : Emit(t)
  \/ \E t \in Tokens \ {"digit", "key", "name", "part"} : Trail(t)

Spec == Init /\ [][Next]_vars

-----------------------------------------------------------------------------
(* Properties.                                                             *)

Brackets == Openers \cup Closers

\* What follows the object.
Behind == SubSeq(text, Len(object) + 1, Len(text))

\* No string holds a bracket or an escape.
PlainStrings ==
  \A i \in 1 .. Len(text) :
    Reading(text)[i - 1].mode = "string" => text[i] \notin Brackets \cup {"slash"}

WithoutCommas(s) == Picked(s, (1 .. Len(s)) \ Where(s, {"comma"}))

\* Every variable keeps its type, and the reader is where the text has got it.
TypeOK ==
  /\ {text, object} \subseteq Seq(Tokens) /\ Len(text) <= MaxLength
  /\ IF object = <<>> THEN reader = Reading(text)[Len(text)]
                      ELSE IsPrefix(object, text) /\ Loads(object)

\* And while it has not got to the end of an object, the text goes on with one
\* and has no fence yet.
RepairInv ==
  /\ TypeOK
  /\ object = <<>> => reader.mode \notin {"start", "done", "error"} /\ "fence" \notin ToSet(text)

\* A complete object is returned as it is whatever its strings contain, if
\* nothing but a fence follows it; and if words follow it, as long as its
\* strings close as many brackets as they open.
CompleteIsReturned ==
  object # <<>> /\ \/ Behind \in {<<>>, <<"fence">>}
                   \/ Depth(object) = 0 /\ ToSet(Behind) \cap Brackets = {}
    => RobustParse(text).parsed = object

\* Whatever the reply, layers 1 to 3 never return another object than the one
\* it holds, nor, when it is cut, one that is missing anything that came but
\* a comma: layer 2 cannot take an inner object, or a bracket in a string, for
\* the end.
KeepsWhatCame ==
  LET result == RobustParse(text) IN
  result.layer # 4 =>
    IF object # <<>> THEN result.parsed = object
    ELSE result.layer = 3 /\ IsPrefix(WithoutCommas(text), WithoutCommas(result.parsed))

\* While no string has brackets or escapes in it, a reply that is cut is
\* repaired exactly if it is not cut between the beginning of a key and the
\* value that belongs to it.
CutIsRepaired ==
  object = <<>> /\ PlainStrings =>
    (RobustParse(text).layer = 3 <=> reader.mode \notin {"cut", "value"})

=============================================================================
