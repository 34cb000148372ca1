---------------------------- MODULE MCRetrieval ----------------------------
(***************************************************************************)
(* A small instance of Retrieval for TLC.                                  *)
(***************************************************************************)
EXTENDS Retrieval

\* No filter, and a jurisdiction that not every row is of.
AllOrOdd == {Analyses, {a \in Analyses : a % 2 = 1}}

=============================================================================
