--------------------------- MODULE ContentKey ---------------------------
(***************************************************************************)
(* What a POST carries and the key it is deduplicated by.  A request is a  *)
(* record                                                                  *)
(*   source_type : "scenario" or "file" - the endpoint it came through     *)
(*   text        : the stripped scenario, or the text FileService extracts *)
(*   scope       : the jurisdiction and the client side                    *)
(* The legal area and a file's extra context shape the prompt but are not  *)
(* hashed; they are left out, so POSTs that differ only there are equal    *)
(* here, as they are to the service.  SHA-256 is taken to be injective,    *)
(* and a scenario never equals the hex digest a file is hashed by, so a    *)
(* hash is the triple it is computed from.                                 *)
(***************************************************************************)

CONSTANT UnusableTexts  \* stripped scenarios under 40 characters, and files
                        \* FileService refuses (type, size, extracted text)

IsRequest(in) ==
  /\ DOMAIN in = {"source_type", "text", "scope"}
  /\ in.source_type \in {"scenario", "file"}

\* content_hash of create_scenario_analysis and create_file_analysis.
ContentHash(in) == <<in.source_type, in.text, in.scope>>

\* The stripped length check, or validate_and_extract, lets the input through.
Usable(in) == in.text \notin UnusableTexts

=============================================================================
