------------------------ MODULE MCAnalysisPipeline ------------------------
(***************************************************************************)
(* Small instances of AnalysisPipeline for TLC.                            *)
(***************************************************************************)
EXTENDS AnalysisPipeline

CONSTANTS r1, r2, r3, defence, injury, short

MCUnusable == {short}

Scenario(text) == [source_type |-> "scenario", text |-> text, scope |-> defence]

File(text) == [source_type |-> "file", text |-> text, scope |-> defence]

\* The two flows over the same text: two contents.
BothFlows == {Scenario(injury), File(injury)}

\* The same with a scenario that is too short.
WithShort == BothFlows \cup {Scenario(short)}

\* One content that is posted again and again.
OneInput == {Scenario(injury)}

=============================================================================
