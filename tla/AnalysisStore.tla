-------------------------- MODULE AnalysisStore --------------------------
(***************************************************************************)
(* What the two POST endpoints promise their clients, with no cache, no    *)
(* sessions and no model calls in sight: a request is asked once and       *)
(* answered at most once; an answer that carries an analysis carries a     *)
(* stored one of the same content; and a request asked after its content   *)
(* has been analysed never adds a second analysis.                         *)
(* The request that produces an analysis is its id.                        *)
(***************************************************************************)
EXTENDS ContentKey

CONSTANTS Requests, Inputs, NoInput, NoId

VARIABLES asked,     \* asked[r]: the input of r, or NoInput
          fresh,     \* requests whose content was not stored when they came
          stored,    \* the ids of the stored analyses
          served,    \* served[r]: the id returned to r, or NoId
          answered   \* requests that have been answered

vars == <<asked, fresh, stored, served, answered>>

Init ==
  /\ asked = [r \in Requests |-> NoInput]
  /\ fresh = {}
  /\ stored = {}
  /\ served = [r \in Requests |-> NoId]
  /\ answered = {}

SameContent(r, s) == ContentHash(asked[r]) = ContentHash(asked[s])

Open(r) == asked[r] # NoInput /\ r \notin answered

\* A client posts a text.
Ask(r, in) ==
  /\ asked[r] = NoInput
  /\ asked' = [asked EXCEPT ![r] = in]
  /\ fresh' = IF \E s \in stored : ContentHash(asked[s]) = ContentHash(in)
                THEN fresh ELSE fresh \cup {r}
  /\ UNCHANGED <<stored, served, answered>>

\* An analysis is made and stored; its request is yet to be answered.
Store(r) ==
  /\ Open(r)
  /\ r \in fresh
  /\ r \notin stored
  /\ stored' = stored \cup {r}
  /\ UNCHANGED <<asked, fresh, served, answered>>

\* An analysis is made, stored and returned.
StoreAndServe(r) ==
  /\ Open(r)
  /\ r \in fresh
  /\ r \notin stored
  /\ stored' = stored \cup {r}
  /\ served' = [served EXCEPT ![r] = r]
  /\ answered' = answered \cup {r}
  /\ UNCHANGED <<asked, fresh>>

\* A stored analysis of the same content is returned.
Reuse(r) ==
  /\ Open(r)
  /\ \E s \in stored : /\ SameContent(r, s)
                       /\ served' = [served EXCEPT ![r] = s]
  /\ answered' = answered \cup {r}
  /\ UNCHANGED <<asked, fresh, stored>>

\* The request ends in an error, or its connection is lost.
Refuse(r) ==
  /\ Open(r)
  /\ answered' = answered \cup {r}
  /\ UNCHANGED <<asked, fresh, stored, served>>

Next ==
  \E r \in Requests :
    \/ \E in \in Inputs : Ask(r, in)
    \/ Store(r)
    \/ StoreAndServe(r)
    \/ Reuse(r)
    \/ Refuse(r)

Spec == Init /\ [][Next]_vars

=============================================================================
