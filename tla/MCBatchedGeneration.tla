------------------------ MODULE MCBatchedGeneration ------------------------
(***************************************************************************)
(* BatchedGeneration for TLC: two calls with up to two of three prompts,   *)
(* of one and of two tokens, and four output tokens.                      *)
(***************************************************************************)
EXTENDS BatchedGeneration

CONSTANTS a, eos

TwoTokens == {a, eos}
ThreePrompts == {<<a>>, <<a, a>>, <<eos, a>>}

=============================================================================
