------------------------- MODULE BatchedGeneration -------------------------
(***************************************************************************)
(* BatchedExecutor.generate_batch (engine/batched_executor.py) over        *)
(* BatchedHFModel, beside the serial loop of scripts/benchmark_batched.py  *)
(* over HFKVCacheAdapter (engine/hf_adapter.py), both on one HuggingFace   *)
(* model.                                                                  *)
(*                                                                         *)
(* The model is any function from the cache entries a row may attend to,   *)
(* each with its token and position, to the greedy next token; `model'     *)
(* holds the answers it has given so far.  No caller passes position ids,  *)
(* so the library places new tokens after all entries of the cache, the    *)
(* padding included.                                                       *)
(***************************************************************************)
EXTENDS Integers, Sequences, SequencesExt, FiniteSets

CONSTANTS
    Token, eos_token_id,
    Prompts,       \* token_ids of the prompts a caller may pass
    max_tokens,
    MaxBatch,      \* bound: prompts of one call
    MaxCalls       \* bound: calls of generate_batch on one BatchedHFModel

ASSUME BatchedAssumption ==
    /\ Prompts \subseteq Seq(Token) \ {<<>>}
    /\ {max_tokens, MaxBatch, MaxCalls} \subseteq Nat \ {0}

VARIABLES
    model,                              \* the answers of the model
    phase, prompts,                     \* of the current call
    past_key_values, _pad_lens, _total_len,   \* BatchedHFModel
    batch_tokens, active, step,         \* locals of generate_batch
    results,                            \* tokens of each prompt of the last call
    serial_prompt, serial_cache, generated,   \* HFKVCacheAdapter and its loop
    calls                               \* history: calls so far

batched == <<past_key_values, _pad_lens, _total_len>>
serial == <<serial_prompt, serial_cache, generated>>
vars == <<model, phase, prompts, batched, batch_tokens, active, step, results, serial, calls>>

Init ==
    /\ model = <<>>
    /\ phase = "idle" /\ prompts = <<>>
    /\ past_key_values = <<>> /\ _pad_lens = <<>> /\ _total_len = 0
    /\ batch_tokens = <<>> /\ active = <<>> /\ step = 0
    /\ results = <<>>
    /\ serial_prompt = <<>> /\ serial_cache = <<>> /\ generated = <<>>
    /\ calls = 0

-----------------------------------------------------------------------------
(* The model: entries of new tokens, and answers that never change.         *)

Entries(tokens, past) == [i \in DOMAIN tokens |-> [tok |-> tokens[i], pos |-> past + i - 1]]

Answers(contexts) ==
    {[c \in DOMAIN model \cup contexts |-> IF c \in DOMAIN model THEN model[c] ELSE new[c]] :
         new \in [contexts \ DOMAIN model -> Token]}

(* A token keeps the entries its logits were computed from.                 *)
Greedy(context, answers) == [tok |-> answers[context], seen |-> context]

-----------------------------------------------------------------------------
(* generate_batch: prefill_batch runs each prompt alone and pads the caches *)
(* on the left to the longest one.                                          *)

SetLens(lists) == {Len(lists[i]) : i \in DOMAIN lists}
Padding(n) == [i \in 1 .. n |-> [tok |-> "pad", pos |-> 0]]

PadLens(lists) ==
    LET max_len == CHOOSE n \in SetLens(lists) : \A l \in SetLens(lists) : l <= n
    IN  [i \in DOMAIN lists |-> max_len - Len(lists[i])]

prefill_batch(lists) ==
    /\ past_key_values' = [i \in DOMAIN lists |->
                              Padding(PadLens(lists)[i]) \o Entries(lists[i], 0)]
    /\ _pad_lens' = PadLens(lists)
    /\ _total_len' = Len(lists[1]) + PadLens(lists)[1]

generate_batch(lists) ==
    /\ phase = "idle"
    /\ calls < MaxCalls
    /\ calls' = calls + 1
    /\ prompts' = lists
    /\ prefill_batch(lists)
    /\ LET context == [i \in DOMAIN lists |-> Entries(lists[i], 0)] IN
       \E answers \in Answers({context[i] : i \in DOMAIN lists}) :
          /\ model' = answers
          /\ batch_tokens' = [i \in DOMAIN lists |-> <<Greedy(context[i], answers)>>]
          /\ active' = [i \in DOMAIN lists |-> answers[context[i]] # eos_token_id]
    /\ step' = 0
    /\ phase' = "decode"
    /\ UNCHANGED <<results, serial>>

NoPadMask(i, len, cache) == SubSeq(cache, 1, len)   \* mutant: one mask for all rows
(* attn_mask: the entries of row i from its padding on, len in all.         *)
Visible(i, len, cache) == SubSeq(cache, _pad_lens[i] + 1, len)

(* The cache of a row, after a forward pass on its last token.              *)
Extended(i) == past_key_values[i]
                   \o Entries(<<Last(batch_tokens[i]).tok>>, Len(past_key_values[i]))

decode_batch ==
    /\ past_key_values' = [i \in DOMAIN prompts |-> Extended(i)]
    /\ _total_len' = _total_len + 1
    /\ UNCHANGED _pad_lens

(* The answers that active rows take from decode_batch; the others repeat   *)
(* their last token and drop their logits.                                  *)
Decode ==
    /\ phase = "decode"
    /\ step < max_tokens - 1
    /\ \E i \in DOMAIN active : active[i]
    /\ decode_batch
    /\ LET context == [i \in DOMAIN prompts |-> Visible(i, _total_len + 1, Extended(i))] IN
       \E answers \in Answers({context[i] : i \in {j \in DOMAIN prompts : active[j]}}) :
          /\ model' = answers
          /\ batch_tokens' = [i \in DOMAIN prompts |-> Append(batch_tokens[i],
                 IF active[i] THEN Greedy(context[i], answers) ELSE Last(batch_tokens[i]))]
          /\ active' = [i \in DOMAIN prompts |->
                 active[i] /\ answers[context[i]] # eos_token_id]
    /\ step' = step + 1
    /\ UNCHANGED <<phase, prompts, results, serial, calls>>

(* tokens[: max_tokens], then up to the first EOS.                          *)
Truncated(tokens) ==
    LET ends == {i \in DOMAIN tokens : tokens[i] = eos_token_id}
                \cup {max_tokens, Len(tokens)}
    IN  SubSeq(tokens, 1, CHOOSE i \in ends : \A j \in ends : i <= j)

Tokens(list) == [i \in DOMAIN list |-> list[i].tok]

Return ==
    /\ phase = "decode"
    /\ step >= max_tokens - 1 \/ \A i \in DOMAIN active : ~active[i]
    /\ results' = [p \in ToSet(prompts) |->
           LET last == CHOOSE i \in DOMAIN prompts :
                          prompts[i] = p /\ \A j \in DOMAIN prompts : prompts[j] = p => j <= i
           IN  Truncated(Tokens(batch_tokens[last]))]
    /\ phase' = "serial"
    /\ UNCHANGED <<model, prompts, batched, batch_tokens, active, step, serial, calls>>

-----------------------------------------------------------------------------
(* The serial loop for one prompt of the call, on an adapter that may still *)
(* hold the cache of an earlier prompt.                                     *)

AfterStale(token_ids, cache) == cache \o Entries(token_ids, Len(cache))   \* mutant
Prefilled(token_ids, cache) == Entries(token_ids, 0)

SerialPrefill(p) ==
    /\ phase = "serial"
    /\ serial_prompt = <<>>
    /\ serial_prompt' = p
    /\ LET cache == Prefilled(p, serial_cache) IN
       /\ serial_cache' = cache
       /\ \E answers \in Answers({cache}) :
             /\ model' = answers
             /\ generated' = <<answers[cache]>>
    /\ UNCHANGED <<phase, prompts, batched, batch_tokens, active, step, results, calls>>

SerialDecode ==
    /\ phase = "serial"
    /\ serial_prompt # <<>>
    /\ Len(generated) < max_tokens
    /\ LET cache == serial_cache \o Entries(<<Last(generated)>>, Len(serial_cache)) IN
       /\ serial_cache' = cache
       /\ \E answers \in Answers({cache}) :
             /\ model' = answers
             /\ generated' = Append(generated, answers[cache])
    /\ UNCHANGED <<phase, prompts, batched, batch_tokens, active, step, results,
                   serial_prompt, calls>>

SerialDone == serial_prompt # <<>> /\ Len(generated) = max_tokens

(* The next call; reset() may or may not be called on the adapter.          *)
NextCall ==
    /\ phase = "serial"
    /\ SerialDone
    /\ phase' = "idle"
    /\ serial_prompt' = <<>> /\ generated' = <<>>
    /\ serial_cache' \in {serial_cache, <<>>}
    /\ prompts' = <<>> /\ batch_tokens' = <<>> /\ active' = <<>>
    /\ UNCHANGED <<model, batched, step, results, calls>>

Next ==
    \/ \E lists \in UNION {[1 .. n -> Prompts] : n \in 1 .. MaxBatch} : generate_batch(lists)
    \/ Decode \/ Return
    \/ \E p \in ToSet(prompts) : SerialPrefill(p)
    \/ SerialDecode \/ NextCall

Spec == Init /\ [][Next]_vars

-----------------------------------------------------------------------------
(* Properties.                                                             *)

(* A prompt that needed no padding gets from generate_batch exactly the     *)
(* tokens of the serial loop, cut at the first EOS, whatever else is in the *)
(* batch, whatever the earlier calls left in the caches (prefill_batch,     *)
(* decode_batch, prefill, decode, the truncation of generate_batch).        *)
BatchedEqualsSerial ==
    SerialDone =>
        \A i \in DOMAIN prompts :
            prompts[i] = serial_prompt /\ _pad_lens[i] = 0 =>
                LET tokens == results[serial_prompt] IN
                /\ IsPrefix(tokens, generated)
                /\ eos_token_id \notin ToSet(Front(tokens))
                /\ Len(tokens) = max_tokens \/ Last(tokens) = eos_token_id

(* Every token of a row, padded or not, is computed from exactly its own    *)
(* prompt and the tokens generated before it, each once and in increasing   *)
(* positions: no padding, no token of another row or of an earlier call     *)
(* (the padding and attention mask of BatchedHFModel).                      *)
RowContext ==
    \A i \in DOMAIN batch_tokens : \A n \in DOMAIN batch_tokens[i] :
        LET before == SubSeq(Tokens(batch_tokens[i]), 1, n - 1)
            seen   == batch_tokens[i][n].seen
        IN  eos_token_id \notin ToSet(before) =>
                /\ Tokens(seen) = prompts[i] \o before
                /\ \A j, k \in DOMAIN seen : j < k => seen[j].pos < seen[k].pos

=============================================================================
