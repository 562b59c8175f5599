---------------------------- MODULE ModelEngine ----------------------------
(***************************************************************************)
(* How a batch is packed into one flat input and its logits are handed out *)
(* again: ModelEngine._prepare_inputs and _extract_sampling_logits         *)
(* (engine/model_engine.py), and the grouping of Sampler.sample_async      *)
(* (engine/sampler.py).  A row of the input is the request it belongs to,  *)
(* the token it carries (its index in prompt and output) and the position  *)
(* it is given; the model turns the row into logits, so a logit is named   *)
(* by its row.                                                             *)
(***************************************************************************)
EXTENDS Integers, Sequences, SequencesExt, Lists

(* start, chunk, context_len and num_output are functions of the request.   *)
ContextRows(r, start, chunk) ==
    [i \in 1 .. chunk[r] |->
        [req |-> r, tok |-> start[r] + i - 1, pos |-> start[r] + i - 1]]

SequenceRows(r, n) == [i \in 1 .. n |-> [req |-> r, tok |-> i - 1, pos |-> i - 1]]

(* Mutant: the position counts the token that is about to be made.          *)
LateRow(r, context_len, num_output) ==
    <<[req |-> r, tok |-> context_len[r] + num_output[r] - 1,
       pos |-> context_len[r] + num_output[r]]>>
(* output_token_ids[-1] or token_ids[-1], at max(0, pos).                   *)
LastTokenRow(r, context_len, num_output) ==
    LET pos == context_len[r] + num_output[r] - 1 IN
    <<[req |-> r,
       tok |-> IF num_output[r] > 0 THEN pos ELSE context_len[r] - 1,
       pos |-> IF pos < 0 THEN 0 ELSE pos]>>

GenerationRows(r, context_len, num_output, full_sequence) ==
    IF full_sequence
    THEN SequenceRows(r, context_len[r] + num_output[r])
    ELSE LastTokenRow(r, context_len, num_output)

(* The parts of the flat input, one for each request of the batch.          *)
_prepare_inputs(batch, start, context_len, num_output, full_sequence) ==
    [i \in DOMAIN batch.context_chunking |->
        ContextRows(batch.context_chunking[i], start, batch.tokens)]
    \o [i \in DOMAIN batch.context_last_chunk |->
        ContextRows(batch.context_last_chunk[i], start, batch.tokens)]
    \o [i \in DOMAIN batch.generation |->
        GenerationRows(batch.generation[i], context_len, num_output, full_sequence)]

(* The last row of each part: the offsets are computed again from widths.   *)
SamplingIndices(batch, context_len, num_output, full_sequence) ==
    LET context == batch.context_chunking \o batch.context_last_chunk
        widths  == [i \in DOMAIN context |-> batch.tokens[context[i]]]
                   \o [i \in DOMAIN batch.generation |->
                          IF full_sequence
                          THEN context_len[batch.generation[i]]
                                   + num_output[batch.generation[i]]
                          ELSE 1]
        offset[i \in 0 .. Len(widths)] == IF i = 0 THEN 0 ELSE offset[i - 1] + widths[i]
    IN  [i \in DOMAIN widths |-> offset[i]]

(* forward(): the logits of the rows that are sampled from.                 *)
forward(batch, start, context_len, num_output, full_sequence) ==
    LET input_ids == FlattenSeq(_prepare_inputs(batch, start, context_len, num_output,
                                                full_sequence))
        indices   == SamplingIndices(batch, context_len, num_output, full_sequence)
    IN  [i \in DOMAIN indices |-> input_ids[indices[i]]]

FirstRows(logits, n) == SubSeq(logits, 1, n)   \* mutant: logits[:n]
(* logits[-n:]                                                              *)
LastRows(logits, n) == SubSeq(logits, Len(logits) - n + 1, Len(logits))

(* Indices of the requests that share their sampling parameters.            *)
_group_by_strategy(requests, params) ==
    [key \in {params[requests[i]] : i \in DOMAIN requests} |->
        Keep([i \in DOMAIN requests |-> i],
             {i \in DOMAIN requests : params[requests[i]] = key})]

(* One kernel per group; its tokens go back to the indices of the group.    *)
sample_async(logits, requests, params) ==
    LET groups == _group_by_strategy(requests, params)
        Kernel(key) == [j \in DOMAIN groups[key] |->
                           [row |-> logits[groups[key][j]], key |-> key]]
    IN  [i \in DOMAIN requests |->
            LET key == CHOOSE k \in DOMAIN groups : Contains(groups[k], i)
            IN  Kernel(key)[CHOOSE j \in DOMAIN groups[key] : groups[key][j] = i]]

=============================================================================
