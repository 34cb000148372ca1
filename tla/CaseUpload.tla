----------------------------- MODULE CaseUpload -----------------------------
(***************************************************************************)
(* Both POST endpoints, for what AnalysisPipeline leaves out of them: what *)
(* of a case the analysis has read that the client is given.  Requests     *)
(* meet in the stored analyses, by hash.  What may be lost on the way is   *)
(* AnalysisPipeline's: here an analysis that the LLM has made is stored.   *)
(***************************************************************************)
EXTENDS CaseText

CONSTANTS Requests, Cases,  \* who posts, and what may be posted
          NoCase, NoId

ASSUME NoCaseAssumption == NoCase \notin Cases /\ NoId \notin Requests

\* A scenario has no extra context.
ASSUME CasesAssumption ==
  \A c \in Cases : /\ c.flow \in {"scenario", "file"} /\ c.size \in Nat
                   /\ c.text \in Seq(Seq(Chars)) /\ c.extra \in Seq(Chars)
                   /\ c.cells \subseteq 1 .. Len(c.text)
                   /\ c.flow = "scenario" => c.extra = <<>>

VARIABLES
  pc,      \* pc[r]: what r waits for
  case,    \* case[r]: what r has posted
  status,  \* status[r]: the status r is answered with, 0 before
  answer,  \* answer[r]: the analysis r is answered with, named by its request
  made     \* the requests whose analysis is stored

vars == <<pc, case, status, answer, made>>

Init ==
  /\ pc = [r \in Requests |-> "idle"]
  /\ case = [r \in Requests |-> NoCase]
  /\ status = [r \in Requests |-> 0]
  /\ answer = [r \in Requests |-> NoId]
  /\ made = {}

GoTo(r, p) == pc' = [pc EXCEPT ![r] = p] /\ UNCHANGED <<status, answer>>

AnswerWith(r, code, id) ==
  /\ pc' = [pc EXCEPT ![r] = "answered"]
  /\ status' = [status EXCEPT ![r] = code]
  /\ answer' = [answer EXCEPT ![r] = id]

Post(r, c) ==
  /\ pc[r] = "idle"
  /\ case' = [case EXCEPT ![r] = c]
  /\ GoTo(r, "posted")
  /\ UNCHANGED made

\* The suffix decides whether a file is read at all.
ReceiveFile(r) ==
  /\ pc[r] = "posted" /\ case[r].flow = "file"
  /\ IF case[r].ext \in DOMAIN Extractors THEN GoTo(r, "reading")
                                          ELSE AnswerWith(r, 415, NoId)
  /\ UNCHANGED <<case, made>>

\* The file has been read; what follows up to the lookup does not wait.
Extract(r) ==
  /\ pc[r] = "reading"
  /\ IF UploadStatus(case[r]) = 200 THEN GoTo(r, "looking")
                                    ELSE AnswerWith(r, UploadStatus(case[r]), NoId)
  /\ UNCHANGED <<case, made>>

ReceiveScenario(r) ==
  /\ pc[r] = "posted" /\ case[r].flow = "scenario"
  /\ IF ScenarioStatus(case[r]) = 200 THEN GoTo(r, "looking")
                                      ELSE AnswerWith(r, ScenarioStatus(case[r]), NoId)
  /\ UNCHANGED <<case, made>>

\* Stored analyses of what r asks for.
Known(r) == {s \in made : ContentHash(case[s]) = ContentHash(case[r])}

\* The cache or the database has one.
Reuse(r) ==
  /\ pc[r] = "looking"
  /\ \E s \in Known(r) : AnswerWith(r, 201, s)
  /\ UNCHANGED <<case, made>>

\* Neither has one: a row is inserted.
CallModel(r) ==
  /\ pc[r] = "looking"
  /\ Known(r) = {}
  /\ IF Storable(Text(case[r])) THEN GoTo(r, "calling") ELSE AnswerWith(r, 500, NoId)
  /\ UNCHANGED <<case, made>>

\* Mutant: the analysis is answered and not stored.
AnalyseUnstored(r) ==
  /\ pc[r] = "calling"
  /\ AnswerWith(r, 201, r)
  /\ UNCHANGED <<case, made>>

\* The LLM has analysed the prompt of r.
Analyse(r) ==
  /\ pc[r] = "calling"
  /\ made' = made \cup {r}
  /\ AnswerWith(r, 201, r)
  /\ UNCHANGED case

\* It has not.
AnalysisFails(r) ==
  /\ pc[r] = "calling"
  /\ AnswerWith(r, 502, NoId)
  /\ UNCHANGED <<case, made>>

Next ==
  \E r \in Requests :
    \/ \E c \in Cases : Post(r, c)
    \/ ReceiveFile(r) \/ Extract(r) \/ ReceiveScenario(r)
    \/ Reuse(r) \/ CallModel(r) \/ Analyse(r) \/ AnalysisFails(r)

Spec == Init /\ [][Next]_vars

-----------------------------------------------------------------------------
(* Properties.                                                             *)

\* Every variable keeps its type; an answer names an analysis with status 201
\* and only then.
TypeOK ==
  /\ pc \in [Requests -> {"idle", "posted", "reading", "looking", "calling", "answered"}]
  /\ case \in [Requests -> Cases \cup {NoCase}]
  /\ status \in [Requests -> {0, 201, 413, 415, 422, 500, 502}]
  /\ answer \in [Requests -> Requests \cup {NoId}]
  /\ made \subseteq Requests
  /\ \A r \in Requests : /\ pc[r] # "idle" => case[r] \in Cases
                         /\ status[r] = 201 <=> answer[r] \in made

\* How a case is refused before it is looked up, or 200.
Refusal(c) ==
  IF c.flow = "scenario" THEN ScenarioStatus(c)
  ELSE IF c.ext \in DOMAIN Extractors THEN UploadStatus(c) ELSE 415

\* Beyond its type: only what is not refused is looked up, only what can be stored is
\* sent to the LLM, what is stored is that, and an answer carries an analysis of the same
\* hash, or the reason why there is none.
RequestOK(r) ==
  /\ pc[r] = "reading" => case[r].flow = "file" /\ case[r].ext \in DOMAIN Extractors
  /\ pc[r] \in {"looking", "calling"} => Refusal(case[r]) = 200
  /\ pc[r] = "calling" => Storable(Text(case[r]))
  /\ pc[r] # "answered" => r \notin made /\ status[r] = 0
  /\ pc[r] = "answered" =>
       LET code == Refusal(case[r]) IN
       IF code # 200 THEN status[r] = code
       ELSE status[r] \in {201, 502} \/ (status[r] = 500 /\ ~Storable(Text(case[r])))
  /\ IF status[r] = 201 THEN ContentHash(case[answer[r]]) = ContentHash(case[r])
                        ELSE answer[r] = NoId

UploadInv == TypeOK /\ \A r \in Requests : RequestOK(r)

\* How reading goes on with a character: what has been read, with one space wherever
\* anything but visible characters is between two of them, and whether that is behind it.
Scan(st, c) ==
  IF c = "null" THEN st
  ELSE IF c \in Blank \cup {"control"} THEN [st EXCEPT !.gap = st.read # <<>>]
  ELSE [read |-> Append(IF st.gap THEN Append(st.read, "space") ELSE st.read, c), gap |-> FALSE]

NothingRead == [read |-> <<>>, gap |-> FALSE]

Scanning(s) ==
  LET at[n \in 0 .. Len(s)] == IF n = 0 THEN NothingRead ELSE Scan(at[n - 1], s[n]) IN at

\* All that is read of a text.
Normal(s) == Scanning(s)[Len(s)].read

\* The prompt of the analysis that r is answered with.
PromptFor(r) == Prompt(case[answer[r]])

\* Whoever's analysis an answer carries, its prompt was no longer than the LLM
\* is sent, and had the words of the case, apart, from the first one on: all of
\* them, or as many as fill it.  The words of a PDF are those of its first
\* MaxPages pages, the others are lost without a notice; those of a DOCX come in
\* the order of its paragraphs and then of its tables.
AnswerReadsCase ==
  \A r \in Requests :
    status[r] = 201 =>
      LET read == Normal(PromptFor(r))
          words == Normal(FullText(case[r])) IN
      /\ Len(PromptFor(r)) <= MaxText
      /\ \/ IsPrefix(words, read)
         \/ Len(PromptFor(r)) = MaxText /\ IsPrefix(read, words)

\* A file that the extractor for its suffix opens, that is not empty and no larger than
\* the maximum, and has as much text as is asked for where it is looked for.
EnoughText(c) ==
  /\ c.flow = "file"
  /\ c.ext \in DOMAIN Extractors /\ c.format \in Extractors[c.ext]
  /\ c.size \in 1 .. MaxBytes
  /\ Len(Normal(FullText(c))) >= MinText

\* Nothing that is done to the text of such a file makes it one that is refused as
\* too large, of the wrong type or too short: what is cleaned away does not count.
EnoughTextIsTaken ==
  \A r \in Requests :
    pc[r] = "answered" /\ EnoughText(case[r]) => status[r] \notin {413, 415, 422}

\* Extra context is lost in two ways only: what does not fit behind the text is
\* cut, and an analysis made before may have been made with another context,
\* which the hash does not tell apart.
ContextIsRead ==
  \A r \in Requests :
    status[r] = 201 /\ case[r].extra # <<>> =>
      \/ IsSuffix(case[r].extra, PromptFor(r))
      \/ Len(PromptFor(r)) = MaxText
      \/ case[answer[r]].extra # case[r].extra

=============================================================================
