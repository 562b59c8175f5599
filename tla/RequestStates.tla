--------------------------- MODULE RequestStates ---------------------------
(***************************************************************************)
(* The states of an LlmRequest and the transitions that transition_to      *)
(* allows, engine/request.py.                                              *)
(***************************************************************************)

RequestState ==
    {"CONTEXT_INIT", "CONTEXT_IN_PROGRESS", "GENERATION_IN_PROGRESS",
     "GENERATION_COMPLETE"}

VALID_TRANSITIONS(s) ==
    CASE s = "CONTEXT_INIT" -> {"CONTEXT_IN_PROGRESS"}
      [] s = "CONTEXT_IN_PROGRESS" ->
            {"CONTEXT_IN_PROGRESS", "GENERATION_IN_PROGRESS"}
      [] s = "GENERATION_IN_PROGRESS" ->
            {"GENERATION_IN_PROGRESS", "GENERATION_COMPLETE"}
      [] s = "GENERATION_COMPLETE" -> {}

=============================================================================
