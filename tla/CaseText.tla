------------------------------ MODULE CaseText ------------------------------
(***************************************************************************)
(* What the service makes of the text of a case: what an upload has to be, *)
(* which text is taken from it, which hash it is known by and which prompt *)
(* the LLM is given.  A case is a record                                   *)
(*   flow   : "scenario" or "file" - the endpoint it is posted to          *)
(*   ext    : the suffix of the file's name                                *)
(*   format : what its bytes are, a format of Formats                      *)
(*   size   : how many bytes it has                                        *)
(*   text   : the blocks of text that the extractor for ext finds in a     *)
(*            file of that format: the pages of a PDF, the paragraphs and  *)
(*            the table cells of a DOCX; one block for anything else       *)
(*   cells  : which of the blocks are table cells                          *)
(*   extra  : the stripped extra_context of a file                         *)
(*   scope  : the jurisdiction and the client side                         *)
(* A text is a sequence of characters: "space", "newline", "null",         *)
(* "control" (any other control character), "surrogate" (one that UTF-8    *)
(* does not encode; the text of a PDF may have some) and visible ones.     *)
(***************************************************************************)
EXTENDS Subsequences, SequencesExt

CONSTANTS Chars,        \* the characters a text may have
          MaxText,      \* MAX_TEXT_CHARS
          MaxPages,     \* the most pages that are read of a PDF, 40
          MinText,      \* the least an extracted text must have, 20
          MinScenario,  \* the least a stripped scenario must have, 40
          MaxScenario,  \* the most a scenario may have, 10000
          MaxBytes      \* max_upload_bytes

ASSUME TextAssumption == MaxText \in Nat /\ MaxPages \in Nat /\ MinText \in Nat
ASSUME ScenarioAssumption == {MinScenario, MaxScenario, MaxBytes} \subseteq Nat

Formats == {"pdf", "locked pdf", "docx", "doc", "text"}

\* ALLOWED_EXTENSIONS, each with the formats its extractor reads: an encrypted
\* PDF is refused, python-docx opens no .doc, and anything can be decoded.
Extractors ==
  [pdf |-> {"pdf"}, docx |-> {"docx"}, doc |-> {"docx"}, txt |-> Formats, rtf |-> Formats]

-----------------------------------------------------------------------------
(* _clean_text.                                                            *)

Blank == {"space", "newline"}

ASSUME CharsAssumption == Blank \cup {"null", "control", "surrogate", "heading"} \subseteq Chars

\* The unbroken run of one character that position i of s is in.
RunOf(s, i) == {j \in 1 .. Len(s) : \A k \in (i .. j) \cup (j .. i) : s[k] = s[i]}

\* Mutant: a long run is removed altogether.
ShortenedAway(s, c, kept) ==
  Picked(s, {i \in 1 .. Len(s) : s[i] # c \/ Cardinality(RunOf(s, i)) < 4})

\* What is too much of a run of four or more c's.
Surplus(s, c, kept) ==
  {i \in 1 .. Len(s) : /\ s[i] = c
                       /\ Cardinality(RunOf(s, i)) >= 4
                       /\ Cardinality({j \in RunOf(s, i) : j <= i}) > kept}

\* Of every such run, the first kept ones.
Shortened(s, c, kept) == Picked(s, (1 .. Len(s)) \ Surplus(s, c, kept))

\* str.strip: from the first character that is not blank to the last one.
Stripped(s) ==
  LET seen == {i \in 1 .. Len(s) : s[i] \notin Blank}
  IN  Picked(s, {i \in 1 .. Len(s) : (\E j \in seen : j <= i) /\ (\E j \in seen : i <= j)})

WithoutNulls(s) == Picked(s, {i \in 1 .. Len(s) : s[i] # "null"})

Spaced(s) == [i \in 1 .. Len(s) |-> IF s[i] = "control" THEN "space" ELSE s[i]]

Clean(s) == Stripped(Shortened(Shortened(Spaced(WithoutNulls(s)), "space", 1), "newline", 3))

-----------------------------------------------------------------------------

\* s[: n].
Upto(s, n) == SubSeq(s, 1, IF Len(s) < n THEN Len(s) ELSE n)

\* raw_text[: MAX_TEXT_CHARS].
Capped(s) == Upto(s, MaxText)

\* "\n".join, after each of the blocks.
Joining(blocks) ==
  LET at[n \in 0 .. Len(blocks)] ==
        IF n = 0 THEN <<>>
        ELSE IF n = 1 THEN blocks[1] ELSE at[n - 1] \o <<"newline">> \o blocks[n]
  IN  at

Joined(blocks) == Joining(blocks)[Len(blocks)]

\* Those of some blocks that are not blank.
Filled(blocks, I) == Picked(blocks, {i \in I : Stripped(blocks[i]) # <<>>})

\* What an extractor takes: the first pages of a PDF, the paragraphs of a DOCX
\* before all of its tables; of anything else, everything.
Blocks(c) ==
  IF c.flow = "file" /\ c.ext = "pdf" THEN Upto(c.text, MaxPages)
  ELSE IF c.flow = "file" /\ c.ext \in {"docx", "doc"}
  THEN Filled(c.text, (1 .. Len(c.text)) \ c.cells) \o Filled(c.text, c.cells)
  ELSE c.text

\* full_text, or the scenario.
FullText(c) == Joined(Blocks(c))

\* Text that str.encode takes.
Encodes(s) == \A i \in 1 .. Len(s) : s[i] # "surrogate"

\* Text that a column of PostgreSQL takes.
Storable(s) == \A i \in 1 .. Len(s) : s[i] # "null"

\* The text of a case: the service's scenario, or a FileExtractionResult's
\* raw_text.
Text(c) == IF c.flow = "file" THEN Capped(Clean(FullText(c))) ELSE Stripped(FullText(c))

\* Mutant: a file of exactly the maximum is too large.
UploadStatusBelow(c) ==
  IF c.size >= MaxBytes THEN 413
  ELSE IF \/ c.size = 0 \/ c.format \notin Extractors[c.ext]
          \/ Len(Clean(FullText(c))) < MinText THEN 422
  ELSE IF Encodes(Text(c)) THEN 200 ELSE 500

\* How an upload that has been read is answered at once, if not with 200.  The
\* digest of the text is taken outside of what catches an extractor's errors.
UploadStatus(c) ==
  IF c.size > MaxBytes THEN 413
  ELSE IF \/ c.size = 0 \/ c.format \notin Extractors[c.ext]
          \/ Len(Clean(FullText(c))) < MinText THEN 422
  ELSE IF Encodes(Text(c)) THEN 200 ELSE 500

\* And a scenario: by the schema's lengths and the one of the stripped text.
ScenarioStatus(c) ==
  IF Len(FullText(c)) > MaxScenario \/ Len(Text(c)) < MinScenario THEN 422 ELSE 200

\* SHA-256 is taken to be injective.
ContentHash(c) == <<c.flow, Text(c), c.scope>>

\* Mutant: the merged content is not what the LLM is called with.
ContentUnmerged(c) == Text(c)

\* The text with the extra context behind it; "heading" is what comes between.
Content(c) ==
  IF c.flow = "file" /\ c.extra # <<>> THEN Text(c) \o <<"heading">> \o c.extra ELSE Text(c)

\* content[:MAX_TEXT_CHARS], what _build_user_prompt has of the case.
Prompt(c) == Capped(Content(c))

=============================================================================
