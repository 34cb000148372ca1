------------------------- MODULE ResponseSchema -------------------------
(***************************************************************************)
(* The shape of an LLM reply, reduced to what the service tells apart: the *)
(* top-level keys of the JSON object that LLMService._robust_parse finds   *)
(* in it, and whether AnalysisResponse.model_validate accepts that object. *)
(* A reply is one of four kinds:                                           *)
(*   "no_object"  - empty, or no opening brace: _robust_parse gives None   *)
(*   "prompted"   - the camelCase object SYSTEM_PROMPT_TEMPLATE dictates   *)
(*   "broken"     - an object no repair layer can parse: layer 4 rebuilds  *)
(*                  it from regular expressions                            *)
(*   "snake_case" - an object named as the schema AnalysisResult is        *)
(***************************************************************************)

AllReplies == {"no_object", "prompted", "broken", "snake_case"}

\* The keys SYSTEM_PROMPT_TEMPLATE tells the model to use.
PromptKeys ==
  {"caseTitle", "legalAreas", "scenarioSummary", "jurisdiction", "sourceType",
   "applicableLaws", "applicableSections", "relevantCaseLaws", "smartDefence",
   "possibleOutcomes", "litigationStrategy", "immediateActions", "keyRisks"}

\* The keys of the dictionary _extract_fields_fallback builds (layer 4).
FallbackKeys ==
  {"caseTitle", "legalAreas", "scenarioSummary", "jurisdiction", "sourceType",
   "applicableLaws", "applicableSections", "relevantCaseLaws", "smartDefence",
   "possibleOutcomes", "litigationStrategy", "immediateActions", "keyRisks"}

\* The fields of AnalysisResult without a default; the model has no aliases.
RequiredFields ==
  {"case_title", "legal_areas", "scenario_summary", "jurisdiction",
   "source_type", "smart_defence"}

\* The top-level keys of _robust_parse(reply), for a reply that has an object.
ParsedKeys(reply) ==
  CASE reply = "prompted"   -> PromptKeys
    [] reply = "broken"     -> FallbackKeys
    [] reply = "snake_case" -> RequiredFields
    [] reply = "no_object"  -> {}

\* _robust_parse(reply) is not None.
Parsed(reply) == reply # "no_object"

\* AnalysisResponse.model_validate accepts a row whose result column holds
\* the parsed reply.
Conforms(reply) == RequiredFields \subseteq ParsedKeys(reply)

=============================================================================
