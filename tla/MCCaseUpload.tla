---------------------------- MODULE MCCaseUpload ----------------------------
(* Instances of CaseUpload for TLC.                                        *)
EXTENDS CaseUpload

AllChars == {"a", "b", "c", "space", "newline", "null", "control", "surrogate", "heading"}

File(ext, format, size, text, cells, extra) ==
  [flow |-> "file", ext |-> ext, format |-> format, size |-> size,
   text |-> text, cells |-> cells, extra |-> extra, scope |-> "India"]

\* Four spaces, and four newlines.
Wide == <<"space", "space", "space", "space">>
Tall == <<"newline", "newline", "newline", "newline">>

\* Texts with a long run, with what is removed, beyond the cap, too short, with
\* what cannot be encoded before and behind the cap.
Texts == {
  <<"a", "b">>, <<"b", "a">>, <<"a", "b", "a", "b">>,
  <<"a">> \o Wide \o <<"b">>, <<"null", "a", "control", "b", "space">>,
  <<"a">> \o Tall \o <<"b">>, <<"a", "b", "a", "b", "b", "a">>,
  <<"a", "b", "a", "b", "b", "b">>, <<"a", "newline">>, <<>>,
  <<"null", "a", "b", "a", "b">>, <<"a", "surrogate">>, <<"a", "b", "a", "b", "b", "surrogate">> }

\* Of pages or paragraphs: two, with different ones behind them, with nothing before
\* them, and with blank ones between them.
Several == {
  <<<<"a">>, <<"b">>>>, <<<<"a">>, <<"b">>, <<"a">>>>, <<<<"a">>, <<"b">>, <<"b">>>>,
  <<<<>>, <<>>, <<"a", "b">>>>, <<<<"b">>, <<"space">>, <<"a">>>> }

Extras == {<<>>, <<"c">>}

\* Files of every suffix and size; every text; pages and paragraphs, of which some are
\* in tables; scenarios of every length.
AllCases ==
  {File(e, f, 1, <<<<"a", "b">>>>, {}, <<>>) :
     e \in {"pdf", "docx", "doc", "txt", "rtf", "png"}, f \in Formats}
  \cup {File("pdf", "pdf", n, <<<<"a", "b">>>>, {}, <<>>) : n \in 0 .. 3}
  \cup {File("pdf", "pdf", 1, <<t>>, {}, x) : t \in Texts, x \in Extras}
  \cup {File("pdf", "pdf", 1, t, {}, <<>>) : t \in Several}
  \cup {File("docx", "docx", 1, t, i, <<>>) : t \in Several, i \in {{}, {1}, {1, 2}}}
  \cup {[flow |-> "scenario", ext |-> "none", format |-> "text", size |-> 1,
         text |-> <<t>>, cells |-> {}, extra |-> <<>>, scope |-> s] :
        t \in {u \in Texts : Encodes(u)}, s \in {"India", "UK"}}

=============================================================================
