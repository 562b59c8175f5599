---------------------- MODULE BatchedGenerationProofs ----------------------
(***************************************************************************)
(* Proofs about generate_batch and the serial loop, for any prompts,       *)
(* batch sizes and models: what a row attends to, and that a row without   *)
(* padding gets the tokens of the serial loop.                             *)
(***************************************************************************)
EXTENDS BatchedGeneration, DataLemmas

-----------------------------------------------------------------------------
(* The cache entries of a prompt and of the tokens tok after it, in a row   *)
(* with so much padding.                                                    *)

Entry == [tok : Token \cup {"pad"}, pos : Nat]
Out   == [tok : Token, seen : Seq(Entry)]

EntryAt(prompt, tok, pad, j) ==
    [tok |-> IF j <= Len(prompt) THEN prompt[j] ELSE tok[j - Len(prompt)],
     pos |-> IF j <= Len(prompt) THEN j - 1 ELSE pad + j - 1]

Context(prompt, tok, pad, m) == [j \in 1 .. m |-> EntryAt(prompt, tok, pad, j)]

CacheIs(cache, prompt, tok, pad, m) ==
    /\ cache \in Seq(Entry)
    /\ Len(cache) = pad + m
    /\ \A j \in 1 .. m : cache[pad + j] = EntryAt(prompt, tok, pad, j)

-----------------------------------------------------------------------------
(* The inductive invariant: a row and the serial loop, against the answers. *)

Extends(new, old) == \A c \in DOMAIN old : c \in DOMAIN new /\ new[c] = old[c]

NoEos(out, n) == \A k \in 1 .. n : out[k].tok # eos_token_id

RowIs(prompt, pad, out, act, cache, s, mdl) ==
    /\ pad \in Nat /\ s \in Nat
    /\ out \in Seq(Out) /\ Len(out) = s + 1
    /\ CacheIs(cache, prompt, Tokens(out), pad, Len(prompt) + s)
    /\ \A n \in 1 .. s + 1 : NoEos(out, n - 1) =>
           /\ out[n].seen = Context(prompt, Tokens(out), pad, Len(prompt) + n - 1)
           /\ out[n].seen \in DOMAIN mdl
           /\ out[n].tok = mdl[out[n].seen]
    /\ act <=> NoEos(out, s + 1)

SerialIs(prompt, gen, cache, mdl) ==
    /\ gen \in Seq(Token) /\ Len(gen) \in 1 .. max_tokens
    /\ CacheIs(cache, prompt, gen, 0, Len(prompt) + Len(gen) - 1)
    /\ \A n \in 1 .. Len(gen) :
           LET context == Context(prompt, gen, 0, Len(prompt) + n - 1) IN
           context \in DOMAIN mdl /\ gen[n] = mdl[context]

CallOK ==
    /\ phase \in {"idle", "decode", "serial"}
    /\ prompts \in Seq(Prompts)
    /\ phase = "idle" => prompts = <<>>
    /\ DOMAIN batch_tokens = 1 .. Len(prompts)
    /\ DOMAIN active = 1 .. Len(prompts)
    /\ model \in [DOMAIN model -> Token]

RowsOK ==
    \A i \in 1 .. Len(prompts) :
        /\ RowIs(prompts[i], _pad_lens[i], batch_tokens[i], active[i], past_key_values[i],
                 step, model)
        /\ _total_len = Len(past_key_values[i])
        /\ step < max_tokens

LastOf(p) == CHOOSE i \in DOMAIN prompts :
                 prompts[i] = p /\ \A j \in DOMAIN prompts : prompts[j] = p => j <= i

ReturnOK ==
    phase = "serial" =>
        /\ step >= max_tokens - 1 \/ \A i \in DOMAIN active : ~active[i]
        /\ results = [p \in ToSet(prompts) |-> Truncated(Tokens(batch_tokens[LastOf(p)]))]

SerialOK ==
    serial_prompt # <<>> =>
        /\ phase = "serial" /\ serial_prompt \in ToSet(prompts)
        /\ SerialIs(serial_prompt, generated, serial_cache, model)

IInv == CallOK /\ RowsOK /\ ReturnOK /\ SerialOK

-----------------------------------------------------------------------------
(* Caches and contexts.                                                     *)

PromptOK(prompt) == prompt \in Seq(Token) /\ prompt # <<>>

LEMMA PromptLen ==
    ASSUME NEW prompt, PromptOK(prompt)
    PROVE  /\ prompt \in Seq(Token) /\ Len(prompt) \in Nat \ {0}
           /\ \A j \in 1 .. Len(prompt) : prompt[j] \in Token
BY LenProperties, EmptySeq DEF PromptOK

(* Only the tokens up to m are in the entries up to m.                      *)
LEMMA EntrySame ==
    ASSUME NEW prompt, PromptOK(prompt), NEW pad, NEW tok, NEW new, NEW j \in Nat \ {0},
           \A k \in 1 .. j - Len(prompt) : new[k] = tok[k]
    PROVE  EntryAt(prompt, new, pad, j) = EntryAt(prompt, tok, pad, j)
<1>1. Len(prompt) \in Nat BY PromptLen
<1>2. CASE j <= Len(prompt) BY <1>2 DEF EntryAt
<1>3. CASE ~(j <= Len(prompt))
  <2>1. j - Len(prompt) \in 1 .. j - Len(prompt) BY <1>1, <1>3
  <2>2. new[j - Len(prompt)] = tok[j - Len(prompt)] BY <2>1
  <2> QED BY <1>3, <2>2 DEF EntryAt
<1> QED BY <1>2, <1>3

AgreeTo(new, tok, n) == \A k \in 1 .. n : new[k] = tok[k]

LEMMA ContextSame ==
    ASSUME NEW prompt, PromptOK(prompt), NEW pad, NEW tok, NEW new, NEW m \in Nat,
           AgreeTo(new, tok, m - Len(prompt))
    PROVE  /\ Context(prompt, new, pad, m) = Context(prompt, tok, pad, m)
           /\ \A c : CacheIs(c, prompt, tok, pad, m) => CacheIs(c, prompt, new, pad, m)
<1>1. Len(prompt) \in Nat BY PromptLen
<1>2. ASSUME NEW j \in 1 .. m
      PROVE  EntryAt(prompt, new, pad, j) = EntryAt(prompt, tok, pad, j)
  <2>1. j \in Nat \ {0} OBVIOUS
  <2>2. \A k \in 1 .. j - Len(prompt) : k \in 1 .. m - Len(prompt) BY <1>1
  <2>3. \A k \in 1 .. j - Len(prompt) : new[k] = tok[k] BY <2>2 DEF AgreeTo
  <2> QED BY <2>1, <2>3, EntrySame
<1>3. Context(prompt, new, pad, m) = Context(prompt, tok, pad, m) BY <1>2 DEF Context
<1> QED BY <1>2, <1>3 DEF CacheIs

(* The cache of a prompt alone, with its padding.                           *)
LEMMA EntriesOf ==
    ASSUME NEW prompt, PromptOK(prompt), NEW tok, NEW pad \in Nat
    PROVE  /\ Entries(prompt, 0) = Context(prompt, tok, pad, Len(prompt))
           /\ Entries(prompt, 0) \in Seq(Entry)
           /\ Len(Entries(prompt, 0)) = Len(prompt)
<1>1. /\ Len(prompt) \in Nat /\ DOMAIN prompt = 1 .. Len(prompt)
      /\ \A j \in 1 .. Len(prompt) : prompt[j] \in Token
  BY PromptLen, LenProperties
<1> DEFINE e == Entries(prompt, 0)
           n == Len(prompt)
<1>2. e = [j \in 1 .. n |-> [tok |-> prompt[j], pos |-> j - 1]]
  <2>1. e = [j \in 1 .. n |-> [tok |-> prompt[j], pos |-> 0 + j - 1]] BY <1>1 DEF Entries
  <2>2. \A j \in 1 .. n : 0 + j - 1 = j - 1 BY <1>1
  <2> QED BY <2>1, <2>2
<1>3. \A j \in 1 .. n : [tok |-> prompt[j], pos |-> j - 1] \in Entry
  <2>1. \A j \in 1 .. n : j - 1 \in Nat /\ prompt[j] \in Token BY <1>1
  <2> QED BY <2>1 DEF Entry
<1>4. \A j \in 1 .. n : EntryAt(prompt, tok, pad, j) = [tok |-> prompt[j], pos |-> j - 1]
  BY <1>1 DEF EntryAt
<1> HIDE DEF e
<1>5. e = Context(prompt, tok, pad, n) BY <1>2, <1>4 DEF Context
<1>6. e \in Seq(Entry) /\ Len(e) = n
  <2> HIDE DEF n
  <2>1. n \in Nat BY <1>1 DEF n
  <2> QED BY <1>2, <1>3, <2>1, IsASeq
<1> QED BY <1>5, <1>6 DEF e

LEMMA CacheStarts ==
    ASSUME NEW prompt, PromptOK(prompt), NEW tok, NEW pad \in Nat
    PROVE  CacheIs(Padding(pad) \o Entries(prompt, 0), prompt, tok, pad, Len(prompt))
<1> DEFINE a == Padding(pad)
           e == Entries(prompt, 0)
           c == a \o e
           n == Len(prompt)
<1>1. a \in Seq(Entry) /\ Len(a) = pad
  <2>1. \A i \in 1 .. pad : [tok |-> "pad", pos |-> 0] \in Entry BY DEF Entry
  <2>2. a = [i \in 1 .. pad |-> [tok |-> "pad", pos |-> 0]] BY DEF Padding
  <2> HIDE DEF a
  <2> QED BY <2>1, <2>2, IsASeq
<1>2. e = Context(prompt, tok, pad, n) /\ e \in Seq(Entry) /\ Len(e) = n BY EntriesOf
<1>3. n \in Nat BY PromptLen
<1> HIDE DEF a, e
<1>4. /\ c \in Seq(Entry) /\ Len(c) = pad + n
      /\ \A i \in 1 .. pad + n : c[i] = IF i <= pad THEN a[i] ELSE e[i - pad]
  <2> HIDE DEF c, n
  <2>1. /\ c \in Seq(Entry) /\ Len(c) = Len(a) + Len(e)
        /\ \A i \in 1 .. Len(a) + Len(e) : c[i] = IF i <= Len(a) THEN a[i] ELSE e[i - Len(a)]
    BY <1>1, <1>2, ConcatProperties DEF c
  <2> QED BY <1>1, <1>2, <2>1
<1> HIDE DEF c, n
<1>5. ASSUME NEW j \in 1 .. n PROVE c[pad + j] = EntryAt(prompt, tok, pad, j)
  <2>1. pad + j \in 1 .. pad + n /\ ~(pad + j <= pad) /\ (pad + j) - pad = j BY <1>3
  <2>2. c[pad + j] = e[j] BY <1>4, <2>1
  <2> QED BY <1>2, <2>2 DEF Context
<1> QED BY <1>4, <1>5 DEF CacheIs, c, a, e, n

(* One more token.                                                          *)
LEMMA CacheExtends ==
    ASSUME NEW prompt, PromptOK(prompt), NEW tok, NEW pad \in Nat, NEW m \in Nat,
           Len(prompt) <= m, NEW cache, CacheIs(cache, prompt, tok, pad, m),
           NEW t \in Token, t = tok[m + 1 - Len(prompt)]
    PROVE  CacheIs(cache \o Entries(<<t>>, Len(cache)), prompt, tok, pad, m + 1)
<1> DEFINE l == Len(cache)
           e == Entries(<<t>>, l)
           c == cache \o e
           r == [tok |-> t, pos |-> l]
<1>1. cache \in Seq(Entry) /\ l = pad + m /\ l \in Nat /\ Len(prompt) \in Nat
  BY PromptLen DEF CacheIs
<1>2. e \in Seq(Entry) /\ Len(e) = 1 /\ e[1] = r
  <2> HIDE DEF l
  <2>1. <<t>>[1] = t /\ DOMAIN <<t>> = 1 .. 1 OBVIOUS
  <2>2. e = [i \in 1 .. 1 |-> [tok |-> <<t>>[i], pos |-> l + i - 1]] BY <2>1 DEF Entries
  <2>3. l + 1 - 1 = l BY <1>1
  <2>4. [tok |-> <<t>>[1], pos |-> l + 1 - 1] = r BY <2>1, <2>3
  <2>5. r \in Entry BY <1>1 DEF Entry
  <2> HIDE DEF r, e
  <2>6. e = [i \in 1 .. 1 |-> r]
    <3>1. \A i \in 1 .. 1 : [tok |-> <<t>>[i], pos |-> l + i - 1] = r
      <4>1. \A i \in 1 .. 1 : i = 1 OBVIOUS
      <4> QED BY <2>4, <4>1
    <3> QED BY <2>2, <3>1
  <2>7. \A i \in 1 .. 1 : r \in Entry BY <2>5
  <2>8. [i \in 1 .. 1 |-> r] \in Seq(Entry) /\ Len([i \in 1 .. 1 |-> r]) = 1
    BY <2>7, IsASeq
  <2>9. e[1] = r
    <3>1. 1 \in 1 .. 1 OBVIOUS
    <3> QED BY <2>6, <3>1
  <2>10. e \in Seq(Entry) /\ Len(e) = 1 BY <2>6, <2>8
  <2> QED BY <2>9, <2>10
<1> HIDE DEF l, e
<1>3. /\ c \in Seq(Entry) /\ Len(c) = l + 1
      /\ \A i \in 1 .. l + 1 : c[i] = IF i <= l THEN cache[i] ELSE e[i - l]
  <2> HIDE DEF c
  <2>1. /\ c \in Seq(Entry) /\ Len(c) = Len(cache) + Len(e)
        /\ \A i \in 1 .. Len(cache) + Len(e) :
               c[i] = IF i <= Len(cache) THEN cache[i] ELSE e[i - Len(cache)]
    BY <1>1, <1>2, ConcatProperties DEF c
  <2> QED BY <1>2, <2>1 DEF l
<1> HIDE DEF c
<1>4. ASSUME NEW j \in 1 .. m + 1 PROVE c[pad + j] = EntryAt(prompt, tok, pad, j)
  <2>1. CASE j \in 1 .. m
    <3>1. pad + j \in 1 .. l + 1 /\ pad + j <= l BY <1>1, <2>1
    <3> QED BY <1>3, <2>1, <3>1 DEF CacheIs
  <2>2. CASE j = m + 1
    <3>1. pad + j \in 1 .. l + 1 /\ ~(pad + j <= l) /\ (pad + j) - l = 1 BY <1>1, <2>2
    <3>2. c[pad + j] = r BY <1>2, <1>3, <3>1
    <3>3. ~(j <= Len(prompt)) /\ pad + j - 1 = l BY <1>1, <2>2
    <3>4. tok[j - Len(prompt)] = t BY <2>2
    <3> QED BY <3>2, <3>3, <3>4 DEF EntryAt
  <2> QED BY <2>1, <2>2
<1>5. l + 1 = pad + (m + 1) BY <1>1
<1> QED BY <1>3, <1>4, <1>5 DEF CacheIs, c, e, l

(* The mask leaves exactly the context.                                     *)
LEMMA MaskedCache ==
    ASSUME NEW prompt, NEW tok, NEW pad \in Nat, NEW m \in Nat,
           NEW cache, CacheIs(cache, prompt, tok, pad, m)
    PROVE  /\ SubSeq(cache, pad + 1, Len(cache)) = Context(prompt, tok, pad, m)
           /\ Context(prompt, tok, pad, m) \in Seq(Entry)
<1> DEFINE u == SubSeq(cache, pad + 1, Len(cache))
           v == Context(prompt, tok, pad, m)
<1>1. cache \in Seq(Entry) /\ Len(cache) = pad + m BY DEF CacheIs
<1>2. u = [j \in 1 .. m |-> cache[pad + j]]
  <2>1. u = [j \in 1 .. (pad + m) - (pad + 1) + 1 |-> cache[(pad + 1) + j - 1]]
    BY <1>1
  <2>2. (pad + m) - (pad + 1) + 1 = m OBVIOUS
  <2>3. \A j \in 1 .. m : (pad + 1) + j - 1 = pad + j OBVIOUS
  <2> QED BY <2>1, <2>2, <2>3
<1>3. \A j \in 1 .. m : cache[pad + j] \in Entry
  <2>1. \A j \in 1 .. m : pad + j \in 1 .. pad + m OBVIOUS
  <2> QED BY <1>1, <2>1, LenProperties
<1>4. v = [j \in 1 .. m |-> cache[pad + j]] BY DEF Context, CacheIs
<1>5. [j \in 1 .. m |-> cache[pad + j]] \in Seq(Entry) BY <1>3, IsASeq
<1> QED BY <1>2, <1>4, <1>5

-----------------------------------------------------------------------------
(* A row, from the answers it gets.                                         *)

LEMMA TokensAppended ==
    ASSUME NEW out \in Seq(Out), NEW o \in Out
    PROVE  /\ Append(out, o) \in Seq(Out) /\ Len(Append(out, o)) = Len(out) + 1
           /\ Len(out) \in Nat
           /\ Append(out, o)[Len(out) + 1] = o
           /\ \A i \in 1 .. Len(out) : Append(out, o)[i] = out[i] /\ out[i] \in Out
           /\ AgreeTo(Tokens(Append(out, o)), Tokens(out), Len(out))
           /\ \A i \in 1 .. Len(out) : Tokens(out)[i] = out[i].tok
<1> DEFINE u == Append(out, o)
           n == Len(out)
<1>1. /\ u \in Seq(Out) /\ Len(u) = n + 1 /\ n \in Nat /\ u[n + 1] = o
      /\ \A i \in 1 .. n : u[i] = out[i]
      /\ \A i \in 1 .. n : out[i] \in Out
  BY AppendProperties, LenProperties
<1>2. DOMAIN u = 1 .. n + 1 /\ DOMAIN out = 1 .. n BY <1>1, LenProperties
<1> HIDE DEF u, n
<1>3. \A i \in 1 .. n : Tokens(u)[i] = u[i].tok /\ Tokens(out)[i] = out[i].tok
  <2>1. \A i \in 1 .. n : i \in 1 .. n + 1 BY <1>1
  <2> QED BY <1>2, <2>1 DEF Tokens
<1>4. AgreeTo(Tokens(u), Tokens(out), n) BY <1>1, <1>3 DEF AgreeTo
<1> QED BY <1>1, <1>3, <1>4 DEF u, n

LEMMA RowStarts ==
    ASSUME NEW prompt, PromptOK(prompt), NEW pad \in Nat, NEW mdl,
           Entries(prompt, 0) \in DOMAIN mdl, mdl[Entries(prompt, 0)] \in Token,
           NEW act \in BOOLEAN, act <=> mdl[Entries(prompt, 0)] # eos_token_id
    PROVE  RowIs(prompt, pad, <<Greedy(Entries(prompt, 0), mdl)>>, act,
                 Padding(pad) \o Entries(prompt, 0), 0, mdl)
<1> DEFINE ctx == Entries(prompt, 0)
           o   == Greedy(ctx, mdl)
           out == <<o>>
           l   == Len(prompt)
<1>1. l \in Nat BY PromptLen
<1>2. CacheIs(Padding(pad) \o ctx, prompt, Tokens(out), pad, l + 0)
  <2>1. CacheIs(Padding(pad) \o ctx, prompt, Tokens(out), pad, l) BY CacheStarts
  <2>2. l + 0 = l BY <1>1
  <2> HIDE DEF ctx, out, l
  <2> QED BY <2>1, <2>2
<1>3. ctx = Context(prompt, Tokens(out), pad, l) /\ ctx \in Seq(Entry) BY EntriesOf
<1>4. o.tok = mdl[ctx] /\ o.seen = ctx /\ o \in Out
  <2> HIDE DEF ctx
  <2> QED BY <1>3 DEF Greedy, Out, ctx
<1> HIDE DEF ctx, o, l
<1>5. out \in Seq(Out) /\ Len(out) = 1 /\ out[1] = o BY <1>4
<1> HIDE DEF out
<1>6. ASSUME NEW n \in 1 .. 0 + 1
      PROVE  /\ out[n].seen = Context(prompt, Tokens(out), pad, l + n - 1)
             /\ out[n].seen \in DOMAIN mdl /\ out[n].tok = mdl[out[n].seen]
  <2>1. n = 1 /\ l + n - 1 = l BY <1>1
  <2>2. ctx \in DOMAIN mdl BY DEF ctx
  <2> QED BY <1>3, <1>4, <1>5, <2>1, <2>2
<1>7. act <=> NoEos(out, 0 + 1)
  <2>1. NoEos(out, 0 + 1) <=> out[1].tok # eos_token_id BY DEF NoEos
  <2> QED BY <1>4, <1>5, <2>1 DEF ctx
<1> QED BY <1>2, <1>5, <1>6, <1>7 DEF RowIs, out, o, l, ctx

(* What a decode step makes of a row: its new cache, what the row sees of   *)
(* it, the token it takes, and whether it goes on.                          *)
DecodesTo(pad, out, act, cache, mdl, longer, ctx, o, more) ==
    /\ longer = cache \o Entries(<<Last(out).tok>>, Len(cache))
    /\ ctx = SubSeq(longer, pad + 1, Len(cache) + 1)
    /\ act => ctx \in DOMAIN mdl /\ mdl[ctx] \in Token
    /\ o = (IF act THEN Greedy(ctx, mdl) ELSE Last(out))
    /\ more <=> act /\ mdl[ctx] # eos_token_id

LEMMA RowDecodes ==
    ASSUME NEW prompt, PromptOK(prompt), NEW pad, NEW out, NEW act, NEW cache, NEW s, NEW old,
           RowIs(prompt, pad, out, act, cache, s, old),
           NEW mdl, Extends(mdl, old), NEW longer, NEW ctx, NEW o, NEW more,
           DecodesTo(pad, out, act, cache, mdl, longer, ctx, o, more)
    PROVE  /\ RowIs(prompt, pad, Append(out, o), more, longer, s + 1, mdl)
           /\ Len(longer) = Len(cache) + 1
<1> DEFINE l   == Len(prompt)
           tok == Tokens(out)
           m   == l + s
           u   == Append(out, o)
           new == Tokens(u)
<1>0. /\ longer = cache \o Entries(<<Last(out).tok>>, Len(cache))
      /\ ctx = SubSeq(longer, pad + 1, Len(cache) + 1)
      /\ act => ctx \in DOMAIN mdl /\ mdl[ctx] \in Token
      /\ o = (IF act THEN Greedy(ctx, mdl) ELSE Last(out))
      /\ more <=> act /\ mdl[ctx] # eos_token_id
  BY DEF DecodesTo
<1>1. l \in Nat \ {0} BY PromptLen
<1>2. /\ pad \in Nat /\ s \in Nat /\ out \in Seq(Out) /\ Len(out) = s + 1
      /\ CacheIs(cache, prompt, tok, pad, m)
      /\ act <=> NoEos(out, s + 1)
      /\ \A n \in 1 .. s + 1 : NoEos(out, n - 1) =>
             /\ out[n].seen = Context(prompt, tok, pad, l + n - 1)
             /\ out[n].seen \in DOMAIN old
             /\ out[n].tok = old[out[n].seen]
  BY DEF RowIs
<1>3. /\ m \in Nat /\ l <= m /\ m + 1 - l = s + 1 /\ s + 1 \in 1 .. s + 1
      /\ l + (s + 1) = m + 1 /\ l + ((s + 1) + 1) - 1 = m + 1
  BY <1>1, <1>2
<1>4. Last(out) = out[s + 1] /\ Last(out) \in Out /\ tok[s + 1] = Last(out).tok
  <2>1. Last(out) = out[s + 1] BY <1>2 DEF Last
  <2>2. DOMAIN out = 1 .. s + 1 /\ \A i \in 1 .. s + 1 : out[i] \in Out BY <1>2, LenProperties
  <2> QED BY <1>3, <2>1, <2>2 DEF Tokens
<1>5. Last(out).tok \in Token BY <1>4 DEF Out
<1> HIDE DEF l, tok, m
<1>6. CacheIs(longer, prompt, tok, pad, m + 1)
  <2> DEFINE t == Last(out).tok
  <2>1. t \in Token /\ t = tok[m + 1 - Len(prompt)] BY <1>3, <1>4, <1>5 DEF l
  <2> HIDE DEF t
  <2>2. CacheIs(cache \o Entries(<<t>>, Len(cache)), prompt, tok, pad, m + 1)
    BY <1>2, <1>3, <2>1, CacheExtends DEF l
  <2> QED BY <1>0, <2>2 DEF t
<1>7. Len(cache) = pad + m /\ Len(longer) = pad + (m + 1) BY <1>2, <1>6 DEF CacheIs
<1>8. Len(longer) = Len(cache) + 1
  <2>1. pad + (m + 1) = (pad + m) + 1 BY <1>2, <1>3
  <2> QED BY <1>7, <2>1
<1>9. ctx = Context(prompt, tok, pad, m + 1) /\ ctx \in Seq(Entry)
  <2> DEFINE k == m + 1
  <2>1. k \in Nat BY <1>3
  <2>2. ctx = SubSeq(longer, pad + 1, Len(longer)) BY <1>0, <1>8
  <2>3. CacheIs(longer, prompt, tok, pad, k) BY <1>6
  <2> HIDE DEF k
  <2>4. /\ SubSeq(longer, pad + 1, Len(longer)) = Context(prompt, tok, pad, k)
        /\ Context(prompt, tok, pad, k) \in Seq(Entry)
    BY <1>2, <2>1, <2>3, MaskedCache
  <2> QED BY <2>2, <2>4 DEF k
<1>10. o \in Out
  <2>1. CASE act BY <1>0, <1>9, <2>1 DEF Greedy, Out
  <2>2. CASE ~act BY <1>0, <1>4, <2>2
  <2> QED BY <2>1, <2>2
<1>11. /\ u \in Seq(Out) /\ Len(u) = (s + 1) + 1 /\ u[(s + 1) + 1] = o
       /\ \A i \in 1 .. s + 1 : u[i] = out[i]
       /\ AgreeTo(new, tok, s + 1)
  BY <1>2, <1>10, TokensAppended DEF tok
<1> HIDE DEF u, new
<1>12. ASSUME NEW k \in Nat, k <= m + 1
       PROVE  /\ Context(prompt, new, pad, k) = Context(prompt, tok, pad, k)
              /\ \A c : CacheIs(c, prompt, tok, pad, k) => CacheIs(c, prompt, new, pad, k)
  <2>1. \A i \in 1 .. k - l : i \in 1 .. s + 1 BY <1>1, <1>2, <1>3, <1>12
  <2>2. AgreeTo(new, tok, k - Len(prompt)) BY <1>11, <2>1 DEF AgreeTo, l
  <2> QED BY <2>2, ContextSame
<1>13. CacheIs(longer, prompt, new, pad, l + (s + 1))
  <2>1. m + 1 \in Nat /\ m + 1 <= m + 1 /\ l + (s + 1) = m + 1 BY <1>3
  <2>2. CacheIs(longer, prompt, new, pad, m + 1) BY <1>6, <1>12, <2>1
  <2> QED BY <2>1, <2>2
<1>14. \A n \in 0 .. s + 1 : NoEos(u, n) <=> NoEos(out, n)
  <2> SUFFICES ASSUME NEW n \in 0 .. s + 1 PROVE NoEos(u, n) <=> NoEos(out, n) OBVIOUS
  <2>1. \A k \in 1 .. n : k \in 1 .. s + 1 BY <1>2
  <2> QED BY <1>11, <2>1 DEF NoEos
<1>15. ASSUME NEW n \in 1 .. (s + 1) + 1, NoEos(u, n - 1)
       PROVE  /\ u[n].seen = Context(prompt, new, pad, l + n - 1)
              /\ u[n].seen \in DOMAIN mdl
              /\ u[n].tok = mdl[u[n].seen]
  <2>1. NoEos(out, n - 1)
    <3>1. n - 1 \in 0 .. s + 1 BY <1>2
    <3> QED BY <1>14, <1>15, <3>1
  <2>2. Context(prompt, new, pad, l + n - 1) = Context(prompt, tok, pad, l + n - 1)
    <3> DEFINE k == l + n - 1
    <3>1. k \in Nat /\ k <= m + 1 BY <1>1, <1>2 DEF m
    <3> HIDE DEF k
    <3>2. Context(prompt, new, pad, k) = Context(prompt, tok, pad, k) BY <1>12, <3>1
    <3> QED BY <3>2 DEF k
  <2>3. CASE n \in 1 .. s + 1
    <3>1. u[n] = out[n] BY <1>11, <2>3
    <3>2. /\ out[n].seen = Context(prompt, tok, pad, l + n - 1)
          /\ out[n].seen \in DOMAIN old
          /\ out[n].tok = old[out[n].seen]
      BY <1>2, <2>1, <2>3
    <3> QED BY <2>2, <3>1, <3>2 DEF Extends
  <2>4. CASE n = (s + 1) + 1
    <3>1. act
      <4>1. n - 1 = s + 1 BY <1>2, <2>4
      <4> QED BY <1>2, <2>1, <4>1
    <3>2. u[n] = Greedy(ctx, mdl) BY <1>0, <1>11, <2>4, <3>1
    <3>3. l + n - 1 = m + 1 BY <1>3, <2>4
    <3>4. u[n].seen = ctx /\ u[n].tok = mdl[ctx]
      <4>1. Greedy(ctx, mdl).seen = ctx /\ Greedy(ctx, mdl).tok = mdl[ctx] BY ONLY DEF Greedy
      <4> QED BY ONLY <3>2, <4>1
    <3>5. Context(prompt, new, pad, l + n - 1) = ctx BY <1>9, <2>2, <3>3
    <3> QED BY <1>0, <3>1, <3>4, <3>5
  <2> QED BY <1>2, <2>3, <2>4
<1>16. more <=> NoEos(u, (s + 1) + 1)
  <2>1. NoEos(u, (s + 1) + 1) <=> NoEos(u, s + 1) /\ u[(s + 1) + 1].tok # eos_token_id
    <3>1. \A k \in 1 .. (s + 1) + 1 : k \in 1 .. s + 1 \/ k = (s + 1) + 1 BY <1>2
    <3>2. \A k \in 1 .. s + 1 : k \in 1 .. (s + 1) + 1 BY <1>2
    <3>3. (s + 1) + 1 \in 1 .. (s + 1) + 1 BY <1>2
    <3> QED BY <3>1, <3>2, <3>3 DEF NoEos
  <2>2. NoEos(u, s + 1) <=> act
    <3>1. s + 1 \in 0 .. s + 1 BY <1>2
    <3> QED BY <1>2, <1>14, <3>1
  <2>3. act => u[(s + 1) + 1].tok = mdl[ctx] BY <1>0, <1>11 DEF Greedy
  <2> QED BY <1>0, <2>1, <2>2, <2>3
<1>17. s + 1 \in Nat BY <1>2
<1>18. RowIs(prompt, pad, u, more, longer, s + 1, mdl)
  BY <1>2, <1>11, <1>13, <1>15, <1>16, <1>17 DEF RowIs, new, l
<1> QED BY <1>8, <1>18 DEF u

LEMMA RowKeeps ==
    ASSUME NEW prompt, NEW pad, NEW out, NEW act, NEW cache, NEW s, NEW old,
           RowIs(prompt, pad, out, act, cache, s, old), NEW mdl, Extends(mdl, old)
    PROVE  RowIs(prompt, pad, out, act, cache, s, mdl)
BY DEF RowIs, Extends

-----------------------------------------------------------------------------
(* The serial loop: a row without padding that never stops.                 *)

LEMMA SerialStarts ==
    ASSUME NEW prompt, PromptOK(prompt), NEW mdl,
           Entries(prompt, 0) \in DOMAIN mdl, mdl[Entries(prompt, 0)] \in Token
    PROVE  SerialIs(prompt, <<mdl[Entries(prompt, 0)]>>, Entries(prompt, 0), mdl)
<1> DEFINE ctx == Entries(prompt, 0)
           t   == mdl[ctx]
           gen == <<t>>
           l   == Len(prompt)
<1>1. l \in Nat BY PromptLen
<1>2. ctx = Context(prompt, gen, 0, l) /\ ctx \in Seq(Entry) /\ Len(ctx) = l
  <2> HIDE DEF gen
  <2>1. 0 \in Nat OBVIOUS
  <2> QED BY <2>1, EntriesOf
<1>3. ctx \in DOMAIN mdl /\ t \in Token OBVIOUS
<1>4. t = mdl[ctx] OBVIOUS
<1> HIDE DEF ctx, t, l
<1>5. gen \in Seq(Token) /\ Len(gen) = 1 /\ gen[1] = t BY <1>3
<1> HIDE DEF gen
<1>6. CacheIs(ctx, prompt, gen, 0, l)
  <2>1. \A j \in 1 .. l : 0 + j = j BY <1>1
  <2>2. 0 + l = l BY <1>1
  <2>3. \A j \in 1 .. l : ctx[0 + j] = EntryAt(prompt, gen, 0, j) BY <1>2, <2>1 DEF Context
  <2> QED BY <1>2, <2>2, <2>3 DEF CacheIs
<1>7. l + 1 - 1 = l /\ 1 \in 1 .. max_tokens BY <1>1, BatchedAssumption
<1>8. ASSUME NEW n \in 1 .. 1
      PROVE  LET context == Context(prompt, gen, 0, l + n - 1) IN
             context \in DOMAIN mdl /\ gen[n] = mdl[context]
  <2>1. n = 1 OBVIOUS
  <2>2. Context(prompt, gen, 0, l + n - 1) = ctx BY <1>2, <1>7, <2>1
  <2> QED BY <1>3, <1>4, <1>5, <2>1, <2>2
<1> QED BY <1>5, <1>6, <1>7, <1>8 DEF SerialIs, ctx, t, gen, l

LEMMA SerialDecodes ==
    ASSUME NEW prompt, PromptOK(prompt), NEW gen, NEW cache, NEW old,
           SerialIs(prompt, gen, cache, old), Len(gen) < max_tokens,
           NEW mdl, Extends(mdl, old), NEW longer,
           longer = cache \o Entries(<<Last(gen)>>, Len(cache)),
           longer \in DOMAIN mdl, mdl[longer] \in Token
    PROVE  SerialIs(prompt, Append(gen, mdl[longer]), longer, mdl)
<1> DEFINE l == Len(prompt)
           g == Len(gen)
           m == l + g - 1
           t == mdl[longer]
           u == Append(gen, t)
<1>1. l \in Nat \ {0} /\ max_tokens \in Nat BY PromptLen, BatchedAssumption
<1>2. /\ gen \in Seq(Token) /\ g \in 1 .. max_tokens
      /\ CacheIs(cache, prompt, gen, 0, m)
      /\ \A n \in 1 .. g :
             LET context == Context(prompt, gen, 0, l + n - 1) IN
             context \in DOMAIN old /\ gen[n] = old[context]
  BY DEF SerialIs
<1>3. /\ m \in Nat /\ l <= m /\ m + 1 - l = g /\ m + 1 = l + g
      /\ l + (g + 1) - 1 = m + 1 /\ g \in 1 .. g /\ g + 1 \in 1 .. max_tokens
  BY <1>1, <1>2
<1>4. Last(gen) = gen[m + 1 - l] /\ Last(gen) \in Token
  <2>1. Last(gen) = gen[g] BY <1>2 DEF Last
  <2> QED BY <1>2, <1>3, <2>1, LenProperties
<1> HIDE DEF l, m, g
<1>5. CacheIs(longer, prompt, gen, 0, m + 1)
  <2> DEFINE x == Last(gen)
  <2>1. x \in Token /\ x = gen[m + 1 - Len(prompt)] /\ 0 \in Nat BY <1>4 DEF l
  <2> HIDE DEF x
  <2>2. CacheIs(cache \o Entries(<<x>>, Len(cache)), prompt, gen, 0, m + 1)
    BY <1>2, <1>3, <2>1, CacheExtends DEF l
  <2> QED BY <2>2 DEF x
<1>6. longer = Context(prompt, gen, 0, m + 1)
  <2> DEFINE k == m + 1
  <2>1. k \in Nat /\ 0 \in Nat BY <1>3
  <2>2. CacheIs(longer, prompt, gen, 0, k) BY <1>5
  <2> HIDE DEF k
  <2>3. SubSeq(longer, 0 + 1, Len(longer)) = Context(prompt, gen, 0, k)
    BY <2>1, <2>2, MaskedCache
  <2>4. longer \in Seq(Entry) /\ 0 + 1 = 1 BY <2>2 DEF CacheIs
  <2>5. SubSeq(longer, 1, Len(longer)) = longer BY <2>4
  <2> QED BY <2>3, <2>4, <2>5 DEF k
<1> HIDE DEF t
<1>7. /\ u \in Seq(Token) /\ Len(u) = g + 1 /\ u[g + 1] = t
      /\ \A i \in 1 .. g : u[i] = gen[i]
  <2>1. t \in Token BY DEF t
  <2> QED BY <1>2, <2>1, AppendProperties DEF g
<1> HIDE DEF u
<1>8. ASSUME NEW k \in Nat, k <= m + 1
      PROVE  /\ Context(prompt, u, 0, k) = Context(prompt, gen, 0, k)
             /\ \A c : CacheIs(c, prompt, gen, 0, k) => CacheIs(c, prompt, u, 0, k)
  <2>1. \A i \in 1 .. k - l : i \in 1 .. g BY <1>1, <1>2, <1>3, <1>8
  <2>2. AgreeTo(u, gen, k - Len(prompt)) BY <1>7, <2>1 DEF AgreeTo, l
  <2>3. 0 \in Nat OBVIOUS
  <2> QED BY <2>2, <2>3, ContextSame
<1>9. CacheIs(longer, prompt, u, 0, l + (g + 1) - 1)
  <2>1. m + 1 \in Nat /\ m + 1 <= m + 1 BY <1>3
  <2>2. CacheIs(longer, prompt, u, 0, m + 1) BY <1>5, <1>8, <2>1
  <2> QED BY <1>3, <2>2
<1>10. ASSUME NEW n \in 1 .. g + 1
       PROVE  LET context == Context(prompt, u, 0, l + n - 1) IN
              context \in DOMAIN mdl /\ u[n] = mdl[context]
  <2>1. Context(prompt, u, 0, l + n - 1) = Context(prompt, gen, 0, l + n - 1)
    <3> DEFINE k == l + n - 1
    <3>1. k \in Nat /\ k <= m + 1 BY <1>1, <1>2, <1>3
    <3> HIDE DEF k
    <3>2. Context(prompt, u, 0, k) = Context(prompt, gen, 0, k) BY <1>8, <3>1
    <3> QED BY <3>2 DEF k
  <2>2. CASE n \in 1 .. g
    <3>1. u[n] = gen[n] BY <1>7, <2>2
    <3>2. LET context == Context(prompt, gen, 0, l + n - 1) IN
          context \in DOMAIN old /\ gen[n] = old[context]
      BY <1>2, <2>2
    <3> QED BY <2>1, <3>1, <3>2 DEF Extends
  <2>3. CASE n = g + 1
    <3>1. Context(prompt, u, 0, l + n - 1) = longer BY <1>3, <1>6, <2>1, <2>3
    <3>2. u[n] = mdl[longer] BY <1>7, <2>3 DEF t
    <3> QED BY <3>1, <3>2
  <2> QED BY <1>2, <2>2, <2>3
<1> QED BY <1>3, <1>7, <1>9, <1>10 DEF SerialIs, u, t, l, g

LEMMA SerialKeeps ==
    ASSUME NEW prompt, NEW gen, NEW cache, NEW old, SerialIs(prompt, gen, cache, old),
           NEW mdl, Extends(mdl, old)
    PROVE  SerialIs(prompt, gen, cache, mdl)
BY DEF SerialIs, Extends

(* Both loops asked the model the same, until the row stopped.              *)
LEMMA RowEqualsSerial ==
    ASSUME NEW prompt, PromptOK(prompt), NEW out, NEW act, NEW cache, NEW s, NEW mdl,
           RowIs(prompt, 0, out, act, cache, s, mdl),
           NEW gen, NEW other, SerialIs(prompt, gen, other, mdl), s + 1 <= Len(gen)
    PROVE  \A n \in 1 .. s + 1 : NoEos(out, n - 1) => Tokens(out)[n] = gen[n]
<1> DEFINE l   == Len(prompt)
           tok == Tokens(out)
           Agreed(n) == NoEos(out, n - 1) => tok[n] = gen[n]
           T == {n \in 0 .. s + 1 : \A k \in 1 .. n : Agreed(k)}
<1>1. /\ s \in Nat /\ out \in Seq(Out) /\ Len(out) = s + 1
      /\ \A n \in 1 .. s + 1 : NoEos(out, n - 1) =>
             /\ out[n].seen = Context(prompt, tok, 0, l + n - 1)
             /\ out[n].tok = mdl[out[n].seen]
  BY DEF RowIs
<1>2. /\ gen \in Seq(Token) /\ Len(gen) \in Nat
      /\ \A n \in 1 .. Len(gen) : gen[n] = mdl[Context(prompt, gen, 0, l + n - 1)]
  BY BatchedAssumption DEF SerialIs
<1>3. l \in Nat BY PromptLen
<1>4. \A n \in 1 .. s + 1 : tok[n] = out[n].tok
  <2>1. DOMAIN out = 1 .. s + 1 BY <1>1, LenProperties
  <2> QED BY <2>1 DEF Tokens
<1>5. ASSUME NEW n \in 1 .. s + 1, \A k \in 1 .. n - 1 : Agreed(k)
      PROVE  Agreed(n)
  <2> SUFFICES ASSUME NoEos(out, n - 1) PROVE tok[n] = gen[n] OBVIOUS
  <2>1. \A k \in 1 .. n - 1 : gen[k] = tok[k]
    <3> SUFFICES ASSUME NEW k \in 1 .. n - 1 PROVE gen[k] = tok[k] OBVIOUS
    <3>1. \A i \in 1 .. k - 1 : i \in 1 .. n - 1 BY <1>1
    <3>2. NoEos(out, k - 1) BY <3>1 DEF NoEos
    <3> QED BY <1>5, <3>2
  <2> DEFINE m == l + n - 1
  <2>2. m \in Nat /\ m - l = n - 1 BY <1>1, <1>3
  <2> HIDE DEF m, tok
  <2>3. AgreeTo(gen, tok, m - Len(prompt)) BY <2>1, <2>2 DEF AgreeTo
  <2>4. Context(prompt, gen, 0, m) = Context(prompt, tok, 0, m)
    <3>1. 0 \in Nat OBVIOUS
    <3> QED BY <2>2, <2>3, <3>1, ContextSame
  <2>5. tok[n] = mdl[Context(prompt, tok, 0, m)] BY <1>1, <1>4 DEF m
  <2>6. gen[n] = mdl[Context(prompt, gen, 0, m)]
    <3>1. n \in 1 .. Len(gen) BY <1>1, <1>2
    <3> QED BY <1>2, <3>1 DEF m
  <2> QED BY <2>4, <2>5, <2>6
<1> HIDE DEF Agreed
<1>6. 0 \in T BY <1>1
<1>7. ASSUME NEW n \in 0 + 1 .. s + 1, n - 1 \in T PROVE n \in T
  <2>1. \A k \in 1 .. n - 1 : Agreed(k) BY <1>7
  <2>2. n \in 1 .. s + 1 BY <1>1
  <2>3. Agreed(n) BY <1>5, <2>1, <2>2
  <2>4. \A k \in 1 .. n : k \in 1 .. n - 1 \/ k = n BY <2>2
  <2> QED BY <2>1, <2>2, <2>3, <2>4
<1> HIDE DEF T
<1>8. \A n \in 0 .. s + 1 : n \in T
  <2> DEFINE k == s + 1
  <2>1. k \in Nat /\ 0 \in Nat BY <1>1
  <2>2. \A n \in 0 + 1 .. k : n - 1 \in T => n \in T BY <1>7
  <2> HIDE DEF k
  <2>3. \A n \in 0 .. k : n \in T BY <1>6, <2>1, <2>2, UpTo
  <2> QED BY <2>3 DEF k
<1>9. \A n \in 1 .. s + 1 : Agreed(n)
  <2> SUFFICES ASSUME NEW n \in 1 .. s + 1 PROVE Agreed(n) OBVIOUS
  <2>1. n \in T /\ n \in 1 .. n BY <1>1, <1>8
  <2> QED BY <2>1 DEF T
<1> QED BY <1>9 DEF Agreed, tok

-----------------------------------------------------------------------------
(* The model answers every context for good.                                *)

LEMMA AnswersExtend ==
    ASSUME model \in [DOMAIN model -> Token], NEW contexts, NEW answers \in Answers(contexts)
    PROVE  /\ Extends(answers, model)
           /\ answers \in [DOMAIN answers -> Token]
           /\ \A c \in contexts : c \in DOMAIN answers /\ answers[c] \in Token
<1>1. PICK new \in [contexts \ DOMAIN model -> Token] :
          answers = [c \in DOMAIN model \cup contexts |->
                        IF c \in DOMAIN model THEN model[c] ELSE new[c]]
  BY DEF Answers
<1>2. DOMAIN answers = DOMAIN model \cup contexts BY <1>1
<1>3. \A c \in DOMAIN model \cup contexts :
          answers[c] = (IF c \in DOMAIN model THEN model[c] ELSE new[c]) BY <1>1
<1>4. \A c \in DOMAIN answers : answers[c] \in Token BY <1>1, <1>2, <1>3
<1>5. answers \in [DOMAIN answers -> Token] BY <1>1, <1>2, <1>4
<1> QED BY <1>2, <1>3, <1>4, <1>5 DEF Extends

(* The padding fills every row up to the longest one.                       *)
LEMMA Pads ==
    ASSUME NEW lists \in Seq(Prompts), lists # <<>>
    PROVE  \E max \in Nat : \A i \in 1 .. Len(lists) :
               PadLens(lists)[i] \in Nat /\ PadLens(lists)[i] + Len(lists[i]) = max
<1> DEFINE n == Len(lists)
           len(i) == Len(lists[i])
           Longest(k, m) == m \in 1 .. k /\ \A j \in 1 .. k : len(j) <= len(m)
           T == {k \in 1 .. n : \E m \in 1 .. k : Longest(k, m)}
<1>1. n \in Nat \ {0} /\ DOMAIN lists = 1 .. n /\ \A i \in 1 .. n : len(i) \in Nat
  <2>1. n \in Nat /\ DOMAIN lists = 1 .. n /\ \A i \in 1 .. n : lists[i] \in Prompts
    BY LenProperties
  <2>2. n # 0 BY EmptySeq
  <2>3. ASSUME NEW i \in 1 .. n PROVE len(i) \in Nat
    <3>1. lists[i] \in Seq(Token) BY <2>1, BatchedAssumption
    <3> QED BY <3>1, LenProperties
  <2> QED BY <2>1, <2>2, <2>3
<1> HIDE DEF n, len
<1>2. 1 \in T
  <2>1. 1 \in 1 .. n /\ 1 \in 1 .. 1 /\ \A j \in 1 .. 1 : j = 1 BY <1>1
  <2>2. len(1) <= len(1) BY <1>1, <2>1
  <2> QED BY <2>1, <2>2
<1>3. ASSUME NEW k \in 1 + 1 .. n, k - 1 \in T PROVE k \in T
  <2>1. /\ k \in 1 .. n /\ k - 1 \in 1 .. n /\ k \in 1 .. k
        /\ \A j \in 1 .. k : j \in 1 .. n /\ (j \in 1 .. k - 1 \/ j = k)
        /\ \A j \in 1 .. k - 1 : j \in 1 .. k
    BY <1>1
  <2>2. PICK m \in 1 .. k - 1 : Longest(k - 1, m) BY <1>3
  <2>3. len(m) \in Nat /\ len(k) \in Nat BY <1>1, <2>1
  <2>4. CASE len(k) <= len(m)
    <3>1. \A j \in 1 .. k : len(j) <= len(m) BY <2>1, <2>2, <2>4
    <3> QED BY <2>1, <3>1
  <2>5. CASE ~(len(k) <= len(m))
    <3>1. \A j \in 1 .. k : len(j) <= len(k) BY <1>1, <2>1, <2>2, <2>3, <2>5
    <3> QED BY <2>1, <3>1
  <2> QED BY <2>4, <2>5
<1> HIDE DEF T
<1>4. n \in T
  <2>1. 1 \in Nat /\ n \in Nat /\ n \in 1 .. n BY <1>1
  <2>2. \A i \in 1 + 1 .. n : i - 1 \in T => i \in T BY <1>3
  <2> QED BY <1>2, <2>1, <2>2, UpTo
<1>5. PICK m \in 1 .. n : \A j \in 1 .. n : len(j) <= len(m) BY <1>4 DEF T
<1> DEFINE max == CHOOSE k \in SetLens(lists) : \A l \in SetLens(lists) : l <= k
<1>6. SetLens(lists) = {len(i) : i \in 1 .. n} BY <1>1 DEF SetLens, len
<1>7. max \in SetLens(lists) /\ \A l \in SetLens(lists) : l <= max
  <2>1. \E k \in SetLens(lists) : \A l \in SetLens(lists) : l <= k BY <1>5, <1>6
  <2> QED BY <2>1
<1>8. \A i \in 1 .. n : PadLens(lists)[i] = max - len(i) BY <1>1 DEF PadLens, len
<1> HIDE DEF max
<1>9. max \in Nat BY <1>1, <1>6, <1>7
<1>10. ASSUME NEW i \in 1 .. n
       PROVE  PadLens(lists)[i] \in Nat /\ PadLens(lists)[i] + len(i) = max
  <2>1. len(i) \in Nat /\ len(i) <= max BY <1>1, <1>6, <1>7
  <2>2. max - len(i) \in Nat /\ (max - len(i)) + len(i) = max BY <1>9, <2>1
  <2> QED BY <1>8, <2>2
<1> QED BY <1>9, <1>10 DEF n, len

LEMMA PromptsOK ==
    ASSUME NEW lists \in Seq(Prompts)
    PROVE  /\ \A i \in DOMAIN lists : PromptOK(lists[i])
           /\ DOMAIN lists = 1 .. Len(lists) /\ Len(lists) \in Nat
           /\ \A p \in ToSet(lists) : PromptOK(p)
BY LenProperties, BatchedAssumption DEF PromptOK, ToSet

-----------------------------------------------------------------------------
(* The steps.                                                               *)

LEMMA InitInv == Init => IInv
<1> SUFFICES ASSUME Init PROVE IInv OBVIOUS
<1> USE DEF Init
<1>1. Len(<<>>) = 0 /\ <<>> \in Seq(Prompts) OBVIOUS
<1>2. CallOK
  <2>1. DOMAIN <<>> = 1 .. 0 OBVIOUS
  <2>2. model \in [DOMAIN model -> Token]
    <3>1. DOMAIN model = {} BY <2>1
    <3>2. model = [c \in {} |-> model[c]] BY <3>1
    <3> QED BY <3>1, <3>2
  <2> QED BY <1>1, <2>1, <2>2 DEF CallOK
<1>3. RowsOK BY <1>1 DEF RowsOK
<1>4. ReturnOK /\ SerialOK BY DEF ReturnOK, SerialOK
<1> QED BY <1>2, <1>3, <1>4 DEF IInv

LEMMA GenerateKeeps ==
    ASSUME IInv, NEW n \in 1 .. MaxBatch, NEW lists \in [1 .. n -> Prompts],
           generate_batch(lists)
    PROVE  IInv'
<1>1. /\ phase = "idle" /\ phase' = "decode" /\ prompts' = lists /\ step' = 0
      /\ UNCHANGED <<results, serial>>
      /\ past_key_values' = [i \in DOMAIN lists |->
                                 Padding(PadLens(lists)[i]) \o Entries(lists[i], 0)]
      /\ _pad_lens' = PadLens(lists)
      /\ _total_len' = Len(lists[1]) + PadLens(lists)[1]
  BY DEF generate_batch, prefill_batch
<1> DEFINE context == [i \in DOMAIN lists |-> Entries(lists[i], 0)]
<1>2. PICK answers \in Answers({context[i] : i \in DOMAIN lists}) :
          /\ model' = answers
          /\ batch_tokens' = [i \in DOMAIN lists |-> <<Greedy(context[i], answers)>>]
          /\ active' = [i \in DOMAIN lists |-> answers[context[i]] # eos_token_id]
  BY DEF generate_batch
<1>3. lists \in Seq(Prompts) /\ Len(lists) = n /\ n \in Nat \ {0} /\ lists # <<>>
  <2>1. n \in Nat \ {0} /\ MaxBatch \in Nat BY BatchedAssumption
  <2>2. lists = [i \in 1 .. n |-> lists[i]] /\ \A i \in 1 .. n : lists[i] \in Prompts OBVIOUS
  <2>3. lists \in Seq(Prompts) /\ Len(lists) = n BY <2>1, <2>2, IsASeq
  <2>4. Len(<<>>) = 0 OBVIOUS
  <2> QED BY <2>1, <2>3, <2>4
<1>4. DOMAIN lists = 1 .. n OBVIOUS
<1>5. model \in [DOMAIN model -> Token] BY DEF IInv, CallOK
<1>6. /\ Extends(answers, model) /\ answers \in [DOMAIN answers -> Token]
      /\ \A i \in 1 .. n : context[i] \in DOMAIN answers /\ answers[context[i]] \in Token
  <2> HIDE DEF context
  <2>1. \A i \in 1 .. n : context[i] \in {context[j] : j \in DOMAIN lists} BY <1>4
  <2> QED BY <1>2, <1>5, <2>1, AnswersExtend
<1>7. CallOK'
  <2>1. model' \in [DOMAIN model' -> Token] BY <1>2, <1>6
  <2>2. DOMAIN batch_tokens' = 1 .. Len(prompts') /\ DOMAIN active' = 1 .. Len(prompts')
    BY <1>1, <1>2, <1>3, <1>4
  <2> QED BY <1>1, <1>3, <2>1, <2>2 DEF CallOK
<1>8. PICK max \in Nat : \A i \in 1 .. n :
          PadLens(lists)[i] \in Nat /\ PadLens(lists)[i] + Len(lists[i]) = max
  BY <1>3, Pads
<1>9. ASSUME NEW i \in 1 .. n
      PROVE  /\ RowIs(lists[i], PadLens(lists)[i], batch_tokens'[i], active'[i],
                      past_key_values'[i], 0, answers)
             /\ _total_len' = Len(past_key_values'[i])
  <2> DEFINE prompt == lists[i]
             pad    == PadLens(lists)[i]
             ctx    == Entries(prompt, 0)
             act    == active'[i]
             cache  == past_key_values'[i]
  <2>1. PromptOK(prompt) BY <1>3, <1>4, PromptsOK
  <2>2. pad \in Nat BY <1>8
  <2>3. ctx \in DOMAIN answers /\ answers[ctx] \in Token BY <1>4, <1>6
  <2>4. batch_tokens'[i] = <<Greedy(ctx, answers)>> BY <1>2, <1>4
  <2>5. act = (answers[ctx] # eos_token_id) BY <1>2, <1>4
  <2>6. cache = Padding(pad) \o ctx BY <1>1, <1>4
  <2>7. act \in BOOLEAN /\ (act <=> answers[ctx] # eos_token_id) BY <2>5
  <2> HIDE DEF prompt, pad, act, cache
  <2>8. RowIs(prompt, pad, <<Greedy(Entries(prompt, 0), answers)>>, act,
              Padding(pad) \o Entries(prompt, 0), 0, answers)
    BY <2>1, <2>2, <2>3, <2>7, RowStarts
  <2>9. RowIs(prompt, pad, batch_tokens'[i], act, cache, 0, answers) BY <2>4, <2>6, <2>8
  <2>10. Len(cache) = pad + Len(prompt)
    <3>1. Len(cache) = pad + (Len(prompt) + 0) BY <2>9 DEF RowIs, CacheIs
    <3>2. Len(prompt) \in Nat BY <2>1, PromptLen
    <3> QED BY <2>2, <3>1, <3>2
  <2>11. Len(cache) = max BY <1>8, <2>10 DEF pad, prompt
  <2>12. _total_len' = max
    <3>1. 1 \in 1 .. n BY <1>3
    <3>2. Len(lists[1]) \in Nat BY <1>3, <1>4, <3>1, PromptsOK, PromptLen
    <3>3. PadLens(lists)[1] \in Nat /\ PadLens(lists)[1] + Len(lists[1]) = max BY <1>8, <3>1
    <3> QED BY <1>1, <3>2, <3>3
  <2> QED BY <2>9, <2>11, <2>12 DEF prompt, pad, act, cache
<1>10. RowsOK'
  <2>1. 0 < max_tokens BY BatchedAssumption
  <2> QED BY <1>1, <1>2, <1>3, <1>9, <2>1 DEF RowsOK
<1>11. ReturnOK' /\ SerialOK'
  <2>1. serial_prompt = <<>> BY <1>1 DEF IInv, SerialOK
  <2> QED BY <1>1, <2>1 DEF ReturnOK, SerialOK, serial
<1> QED BY <1>7, <1>10, <1>11 DEF IInv

LEMMA DecodeKeeps ==
    ASSUME IInv, Decode
    PROVE  IInv'
<1>1. /\ phase = "decode" /\ step < max_tokens - 1 /\ step' = step + 1
      /\ UNCHANGED <<phase, prompts, results, serial, calls>>
      /\ past_key_values' = [i \in DOMAIN prompts |-> Extended(i)]
      /\ _total_len' = _total_len + 1
      /\ _pad_lens' = _pad_lens
  BY DEF Decode, decode_batch
<1> DEFINE context == [i \in DOMAIN prompts |-> Visible(i, _total_len + 1, Extended(i))]
           asked   == {context[i] : i \in {j \in DOMAIN prompts : active[j]}}
<1>2. PICK answers \in Answers(asked) :
          /\ model' = answers
          /\ batch_tokens' = [i \in DOMAIN prompts |-> Append(batch_tokens[i],
                 IF active[i] THEN Greedy(context[i], answers) ELSE Last(batch_tokens[i]))]
          /\ active' = [i \in DOMAIN prompts |->
                 active[i] /\ answers[context[i]] # eos_token_id]
  BY DEF Decode
<1>3. prompts \in Seq(Prompts) /\ model \in [DOMAIN model -> Token] BY DEF IInv, CallOK
<1>4. /\ DOMAIN prompts = 1 .. Len(prompts) /\ Len(prompts) \in Nat
      /\ \A i \in 1 .. Len(prompts) : PromptOK(prompts[i])
  BY <1>3, PromptsOK
<1>5. /\ Extends(answers, model) /\ answers \in [DOMAIN answers -> Token]
      /\ \A c \in asked : c \in DOMAIN answers /\ answers[c] \in Token
  <2> HIDE DEF asked
  <2> QED BY <1>2, <1>3, AnswersExtend
<1>6. CallOK'
  <2>1. model' \in [DOMAIN model' -> Token] BY <1>2, <1>5
  <2>2. DOMAIN batch_tokens' = 1 .. Len(prompts') /\ DOMAIN active' = 1 .. Len(prompts')
    BY <1>1, <1>2, <1>4
  <2> QED BY <1>1, <1>3, <2>1, <2>2 DEF CallOK, IInv
<1>7. ASSUME NEW i \in 1 .. Len(prompts)
      PROVE  /\ RowIs(prompts[i], _pad_lens[i], batch_tokens'[i], active'[i],
                      past_key_values'[i], step + 1, answers)
             /\ _total_len' = Len(past_key_values'[i])
             /\ step + 1 < max_tokens
  <2> DEFINE prompt == prompts[i]
             pad    == _pad_lens[i]
             out    == batch_tokens[i]
             act    == active[i]
             cache  == past_key_values[i]
             longer == Extended(i)
             ctx    == Visible(i, _total_len + 1, longer)
             o      == IF act THEN Greedy(ctx, answers) ELSE Last(out)
             more   == active'[i]
  <2>1. /\ RowIs(prompt, pad, out, act, cache, step, model)
        /\ _total_len = Len(cache) /\ step < max_tokens
    BY DEF IInv, RowsOK
  <2>2. PromptOK(prompt) BY <1>4
  <2>3. longer = cache \o Entries(<<Last(out).tok>>, Len(cache)) BY DEF Extended
  <2>4. ctx = SubSeq(longer, pad + 1, Len(cache) + 1) BY <2>1 DEF Visible
  <2>5. context[i] = ctx BY <1>4
  <2>6. act => ctx \in DOMAIN answers /\ answers[ctx] \in Token
    <3> SUFFICES ASSUME act PROVE ctx \in DOMAIN answers /\ answers[ctx] \in Token OBVIOUS
    <3>1. context[i] \in asked BY <1>4
    <3> QED BY <1>5, <2>5, <3>1
  <2>7. batch_tokens'[i] = Append(out, o) BY <1>2, <1>4, <2>5
  <2>8. more <=> act /\ answers[ctx] # eos_token_id BY <1>2, <1>4, <2>5
  <2>9. DecodesTo(pad, out, act, cache, answers, longer, ctx, o, more)
    BY <2>3, <2>4, <2>6, <2>8 DEF DecodesTo
  <2>10. past_key_values'[i] = longer BY <1>1, <1>4
  <2> HIDE DEF prompt, pad, out, act, cache, longer, ctx, o, more
  <2>12. /\ RowIs(prompt, pad, Append(out, o), more, longer, step + 1, answers)
         /\ Len(longer) = Len(cache) + 1
    <3>1. Extends(answers, model) BY <1>5
    <3> QED BY ONLY <2>1, <2>2, <2>9, <3>1, RowDecodes
  <2>13. step + 1 < max_tokens
    <3>1. step \in Nat BY <2>1 DEF RowIs
    <3> QED BY <1>1, <3>1, BatchedAssumption
  <2> QED BY <1>1, <2>1, <2>7, <2>10, <2>12, <2>13 DEF prompt, pad, more
<1>8. RowsOK'
  <2>1. Len(prompts') = Len(prompts) /\ prompts' = prompts BY <1>1
  <2> QED BY <1>1, <1>2, <1>7, <2>1 DEF RowsOK
<1>9. ReturnOK' /\ SerialOK'
  <2>1. serial_prompt = <<>> BY <1>1 DEF IInv, SerialOK
  <2> QED BY <1>1, <2>1 DEF ReturnOK, SerialOK, serial
<1> QED BY <1>6, <1>8, <1>9 DEF IInv


LEMMA ReturnKeeps ==
    ASSUME IInv, Return
    PROVE  IInv'
<1>1. /\ phase = "decode" /\ phase' = "serial"
      /\ step >= max_tokens - 1 \/ \A i \in DOMAIN active : ~active[i]
      /\ UNCHANGED <<model, prompts, batched, batch_tokens, active, step, serial, calls>>
      /\ results' = [p \in ToSet(prompts) |-> Truncated(Tokens(batch_tokens[LastOf(p)]))]
  BY DEF Return, LastOf
<1>2. CallOK' BY <1>1 DEF IInv, CallOK
<1>3. RowsOK' BY <1>1 DEF IInv, RowsOK, batched
<1>4. ReturnOK'
  <2>1. \A p : LastOf(p)' = LastOf(p) BY <1>1 DEF LastOf
  <2>2. \A s : Truncated(s)' = Truncated(s) BY DEF Truncated
  <2> QED BY <1>1, <2>1, <2>2 DEF ReturnOK
<1>5. SerialOK'
  <2>1. serial_prompt = <<>> BY <1>1 DEF IInv, SerialOK
  <2> QED BY <1>1, <2>1 DEF SerialOK, serial
<1> QED BY <1>2, <1>3, <1>4, <1>5 DEF IInv

(* The serial loop leaves the call alone; the model only answers more.      *)
LEMMA CallKept ==
    ASSUME CallOK /\ RowsOK /\ ReturnOK, NEW contexts,
           UNCHANGED <<phase, prompts, batched, batch_tokens, active, step, results>>,
           model' \in Answers(contexts)
    PROVE  (CallOK /\ RowsOK /\ ReturnOK)' /\ Extends(model', model)
<1>1. Extends(model', model) /\ model' \in [DOMAIN model' -> Token]
  <2> DEFINE new == model'
  <2>1. new \in Answers(contexts) /\ model \in [DOMAIN model -> Token] BY DEF CallOK
  <2> HIDE DEF new
  <2>2. Extends(new, model) /\ new \in [DOMAIN new -> Token] BY <2>1, AnswersExtend
  <2> QED BY <2>2 DEF new
<1>2. CallOK' BY <1>1 DEF CallOK
<1>3. RowsOK'
  <2>1. ASSUME NEW i \in 1 .. Len(prompts)
        PROVE  /\ RowIs(prompts[i], _pad_lens[i], batch_tokens[i], active[i],
                        past_key_values[i], step, model')
               /\ _total_len = Len(past_key_values[i]) /\ step < max_tokens
    BY <1>1, RowKeeps DEF RowsOK
  <2> QED BY <2>1 DEF RowsOK, batched
<1>4. ReturnOK'
  <2>1. \A p : LastOf(p)' = LastOf(p) BY DEF LastOf
  <2>2. \A s : Truncated(s)' = Truncated(s) BY DEF Truncated
  <2> QED BY <2>1, <2>2 DEF ReturnOK
<1> QED BY <1>1, <1>2, <1>3, <1>4

LEMMA SerialPrefillKeeps ==
    ASSUME IInv, NEW p \in ToSet(prompts), SerialPrefill(p)
    PROVE  IInv'
<1> DEFINE cache == Entries(p, 0)
<1>1. /\ phase = "serial" /\ serial_prompt' = p /\ serial_cache' = cache
      /\ UNCHANGED <<phase, prompts, batched, batch_tokens, active, step, results, calls>>
  BY DEF SerialPrefill, Prefilled
<1>2. model' \in Answers({cache}) /\ generated' = <<model'[cache]>>
  BY DEF SerialPrefill, Prefilled
<1>3. (CallOK /\ RowsOK /\ ReturnOK)' BY <1>1, <1>2, CallKept DEF IInv
<1>4. PromptOK(p)
  <2>1. prompts \in Seq(Prompts) BY DEF IInv, CallOK
  <2> QED BY <2>1, PromptsOK
<1>5. cache \in DOMAIN model' /\ model'[cache] \in Token
  <2> DEFINE new == model'
  <2>1. new \in Answers({cache}) /\ model \in [DOMAIN model -> Token]
    BY <1>2 DEF IInv, CallOK
  <2> HIDE DEF new, cache
  <2>2. \A c \in {cache} : c \in DOMAIN new /\ new[c] \in Token BY <2>1, AnswersExtend
  <2> QED BY <2>2 DEF new
<1>6. SerialIs(p, generated', cache, model')
  <2> DEFINE new == model'
  <2>1. cache \in DOMAIN new /\ new[cache] \in Token BY <1>5
  <2> HIDE DEF new
  <2>2. SerialIs(p, <<new[Entries(p, 0)]>>, Entries(p, 0), new) BY <1>4, <2>1, SerialStarts
  <2> QED BY <1>2, <2>2 DEF new
<1>7. SerialOK' BY <1>1, <1>6 DEF SerialOK
<1> QED BY <1>3, <1>7 DEF IInv

LEMMA SerialDecodeKeeps ==
    ASSUME IInv, SerialDecode
    PROVE  IInv'
<1> DEFINE cache == serial_cache \o Entries(<<Last(generated)>>, Len(serial_cache))
<1>1. /\ phase = "serial" /\ serial_prompt # <<>> /\ serial_cache' = cache
      /\ Len(generated) < max_tokens
      /\ UNCHANGED <<phase, prompts, batched, batch_tokens, active, step, results,
                     serial_prompt, calls>>
  BY DEF SerialDecode
<1>2. model' \in Answers({cache}) /\ generated' = Append(generated, model'[cache])
  BY DEF SerialDecode
<1>3. (CallOK /\ RowsOK /\ ReturnOK)' /\ Extends(model', model)
  BY <1>1, <1>2, CallKept DEF IInv
<1>4. /\ serial_prompt \in ToSet(prompts)
      /\ SerialIs(serial_prompt, generated, serial_cache, model)
  BY <1>1 DEF IInv, SerialOK
<1>5. PromptOK(serial_prompt)
  <2>1. prompts \in Seq(Prompts) BY DEF IInv, CallOK
  <2> QED BY <1>4, <2>1, PromptsOK
<1>6. cache \in DOMAIN model' /\ model'[cache] \in Token
  <2> DEFINE new == model'
  <2>1. new \in Answers({cache}) /\ model \in [DOMAIN model -> Token]
    BY <1>2 DEF IInv, CallOK
  <2> HIDE DEF new, cache
  <2>2. \A c \in {cache} : c \in DOMAIN new /\ new[c] \in Token BY <2>1, AnswersExtend
  <2> QED BY <2>2 DEF new
<1>7. SerialIs(serial_prompt, generated', cache, model')
  <2> DEFINE new == model'
  <2>1. /\ cache \in DOMAIN new /\ new[cache] \in Token /\ Extends(new, model)
        /\ cache = serial_cache \o Entries(<<Last(generated)>>, Len(serial_cache))
    BY <1>3, <1>6
  <2> HIDE DEF new, cache
  <2>2. SerialIs(serial_prompt, Append(generated, new[cache]), cache, new)
    BY <1>1, <1>4, <1>5, <2>1, SerialDecodes
  <2> QED BY <1>2, <2>2 DEF new
<1>8. SerialOK' BY <1>1, <1>4, <1>7 DEF SerialOK
<1> QED BY <1>3, <1>8 DEF IInv

LEMMA NextCallKeeps ==
    ASSUME IInv, NextCall
    PROVE  IInv'
<1>1. /\ phase' = "idle" /\ serial_prompt' = <<>>
      /\ prompts' = <<>> /\ batch_tokens' = <<>> /\ active' = <<>>
      /\ UNCHANGED <<model, batched, step, results, calls>>
  BY DEF NextCall
<1>2. Len(<<>>) = 0 /\ <<>> \in Seq(Prompts) /\ DOMAIN <<>> = 1 .. 0 OBVIOUS
<1>3. CallOK' BY <1>1, <1>2 DEF IInv, CallOK
<1>4. RowsOK' BY <1>1, <1>2 DEF RowsOK
<1> QED BY <1>1, <1>3, <1>4 DEF IInv, ReturnOK, SerialOK

LEMMA StutterKeeps ==
    ASSUME IInv, UNCHANGED vars
    PROVE  IInv'
<1>1. CallOK' BY DEF IInv, CallOK, vars
<1>2. RowsOK' BY DEF IInv, RowsOK, vars, batched
<1>3. ReturnOK'
  <2>1. \A p : LastOf(p)' = LastOf(p) BY DEF LastOf, vars
  <2>2. \A s : Truncated(s)' = Truncated(s) BY DEF Truncated
  <2> QED BY <2>1, <2>2 DEF IInv, ReturnOK, vars
<1>4. SerialOK' BY DEF IInv, SerialOK, vars, serial
<1> QED BY <1>1, <1>2, <1>3, <1>4 DEF IInv

LEMMA StepKeepsInv == IInv /\ [Next]_vars => IInv'
<1> SUFFICES ASSUME IInv, [Next]_vars PROVE IInv' OBVIOUS
<1>1. CASE \E lists \in UNION {[1 .. n -> Prompts] : n \in 1 .. MaxBatch} : generate_batch(lists)
  <2>1. PICK lists \in UNION {[1 .. n -> Prompts] : n \in 1 .. MaxBatch} :
            generate_batch(lists) BY <1>1
  <2>2. PICK n \in 1 .. MaxBatch : lists \in [1 .. n -> Prompts] OBVIOUS
  <2> QED BY <2>1, <2>2, GenerateKeeps
<1>2. CASE Decode BY <1>2, DecodeKeeps
<1>3. CASE Return BY <1>3, ReturnKeeps
<1>4. CASE \E p \in ToSet(prompts) : SerialPrefill(p) BY <1>4, SerialPrefillKeeps
<1>5. CASE SerialDecode BY <1>5, SerialDecodeKeeps
<1>6. CASE NextCall BY <1>6, NextCallKeeps
<1>7. CASE UNCHANGED vars BY <1>7, StutterKeeps
<1> QED BY <1>1, <1>2, <1>3, <1>4, <1>5, <1>6, <1>7 DEF Next

(* The invariant holds of every generate_batch, beside the serial loop.     *)
THEOREM BatchInvariant == Spec => []IInv
BY InitInv, StepKeepsInv, PTL DEF Spec


-----------------------------------------------------------------------------
(* What the invariant says of the tokens.                                   *)

LEMMA TokensTyped ==
    ASSUME NEW out \in Seq(Out)
    PROVE  /\ Tokens(out) \in Seq(Token) /\ Len(Tokens(out)) = Len(out)
           /\ \A i \in 1 .. Len(out) : Tokens(out)[i] = out[i].tok
<1> DEFINE n == Len(out)
<1>1. n \in Nat /\ DOMAIN out = 1 .. n /\ \A i \in 1 .. n : out[i] \in Out BY LenProperties
<1> HIDE DEF n
<1>2. Tokens(out) = [i \in 1 .. n |-> out[i].tok] BY <1>1 DEF Tokens
<1>3. \A i \in 1 .. n : out[i].tok \in Token BY <1>1 DEF Out
<1>4. [i \in 1 .. n |-> out[i].tok] \in Seq(Token) /\ Len([i \in 1 .. n |-> out[i].tok]) = n
  BY <1>1, <1>3, IsASeq
<1> QED BY <1>2, <1>4 DEF n

(* The first tokens of a row, as a list, and the ends of sequences in them. *)
LEMMA FirstTokens ==
    ASSUME NEW tok \in Seq(Token), NEW e \in 0 .. Len(tok)
    PROVE  LET first == SubSeq(tok, 1, e) IN
           /\ first \in Seq(Token) /\ Len(first) = e
           /\ \A i \in 1 .. e : first[i] = tok[i]
           /\ \A x : x \in ToSet(first) <=> \E i \in 1 .. e : x = tok[i]
<1> DEFINE first == SubSeq(tok, 1, e)
<1>1. Len(tok) \in Nat /\ \A i \in 1 .. Len(tok) : tok[i] \in Token BY LenProperties
<1>2. e \in Nat /\ \A i \in 1 .. e : i \in 1 .. Len(tok) BY <1>1
<1>3. first = [i \in 1 .. e |-> tok[i]]
  <2>1. first = [i \in 1 .. e - 1 + 1 |-> tok[1 + i - 1]] BY <1>2
  <2>2. e - 1 + 1 = e /\ \A i \in 1 .. e : 1 + i - 1 = i BY <1>2
  <2> QED BY <2>1, <2>2
<1> HIDE DEF first
<1>4. first \in Seq(Token) /\ Len(first) = e
  <2>1. \A i \in 1 .. e : tok[i] \in Token BY <1>1, <1>2
  <2>2. [i \in 1 .. e |-> tok[i]] \in Seq(Token) /\ Len([i \in 1 .. e |-> tok[i]]) = e
    BY <1>2, <2>1, IsASeq
  <2> QED BY <1>3, <2>2
<1>5. \A i \in 1 .. e : first[i] = tok[i] BY <1>3
<1>6. DOMAIN first = 1 .. e BY <1>3
<1>7. \A x : x \in ToSet(first) <=> \E i \in 1 .. e : x = tok[i] BY <1>5, <1>6 DEF ToSet
<1> QED BY <1>4, <1>5, <1>7 DEF first

(* The context of a token is its prompt and the tokens before it.           *)
LEMMA ContextReads ==
    ASSUME NEW prompt, PromptOK(prompt), NEW tok \in Seq(Token), NEW pad \in Nat,
           NEW k \in 0 .. Len(tok)
    PROVE  LET c == Context(prompt, tok, pad, Len(prompt) + k) IN
           /\ Tokens(c) = prompt \o SubSeq(tok, 1, k)
           /\ \A i, j \in DOMAIN c : i < j => c[i].pos < c[j].pos
<1> DEFINE l == Len(prompt)
           m == l + k
           c == Context(prompt, tok, pad, m)
           b == SubSeq(tok, 1, k)
           w == prompt \o b
<1>1. /\ prompt \in Seq(Token) /\ l \in Nat
      /\ b \in Seq(Token) /\ Len(b) = k /\ \A i \in 1 .. k : b[i] = tok[i]
      /\ k \in Nat
  BY PromptLen, FirstTokens, LenProperties
<1> HIDE DEF l, b
<1>2. m \in Nat BY <1>1
<1>3. /\ w \in Seq(Token) /\ Len(w) = m
      /\ \A i \in 1 .. m : w[i] = IF i <= l THEN prompt[i] ELSE b[i - l]
  <2>1. /\ w \in Seq(Token) /\ Len(w) = Len(prompt) + Len(b)
        /\ \A i \in 1 .. Len(prompt) + Len(b) :
               w[i] = IF i <= Len(prompt) THEN prompt[i] ELSE b[i - Len(prompt)]
    BY <1>1, ConcatProperties
  <2> HIDE DEF w
  <2> QED BY <1>1, <2>1 DEF l
<1> HIDE DEF w
<1>4. c = [j \in 1 .. m |-> EntryAt(prompt, tok, pad, j)] BY DEF Context
<1>5. ASSUME NEW j \in 1 .. m
      PROVE  /\ c[j].tok = w[j]
             /\ c[j].pos = (IF j <= l THEN j - 1 ELSE pad + j - 1)
  <2>1. c[j] = EntryAt(prompt, tok, pad, j) BY <1>4
  <2>2. ~(j <= l) => b[j - l] = tok[j - l]
    <3>1. ~(j <= l) => j - l \in 1 .. k BY <1>1
    <3> QED BY <1>1, <3>1
  <2> QED BY <1>3, <2>1, <2>2 DEF EntryAt, l
<1> HIDE DEF m
<1>6. DOMAIN c = 1 .. m BY <1>4
<1> HIDE DEF c
<1>7. Tokens(c) = w
  <2>1. Tokens(c) = [j \in 1 .. m |-> c[j].tok] BY <1>6 DEF Tokens
  <2>2. w = [j \in 1 .. m |-> w[j]]
    <3>1. DOMAIN w = 1 .. m BY <1>3, LenProperties
    <3>2. w = [j \in DOMAIN w |-> w[j]] BY <1>3
    <3> QED BY <3>1, <3>2
  <2> QED BY <1>5, <2>1, <2>2
<1>8. ASSUME NEW i \in 1 .. m, NEW j \in 1 .. m, i < j PROVE c[i].pos < c[j].pos
  <2>1. /\ c[i].pos = (IF i <= l THEN i - 1 ELSE pad + i - 1)
        /\ c[j].pos = (IF j <= l THEN j - 1 ELSE pad + j - 1)
    BY <1>5
  <2> QED BY <1>1, <1>2, <1>8, <2>1
<1> QED BY <1>6, <1>7, <1>8 DEF c, m, b, l, w

LEMMA InvRowContext == IInv => RowContext
<1> SUFFICES ASSUME IInv,
                    NEW i \in DOMAIN batch_tokens, NEW n \in DOMAIN batch_tokens[i],
                    eos_token_id \notin ToSet(SubSeq(Tokens(batch_tokens[i]), 1, n - 1))
             PROVE  LET before == SubSeq(Tokens(batch_tokens[i]), 1, n - 1)
                        seen   == batch_tokens[i][n].seen
                    IN  /\ Tokens(seen) = prompts[i] \o before
                        /\ \A j, k \in DOMAIN seen : j < k => seen[j].pos < seen[k].pos
  BY DEF RowContext
<1> DEFINE out    == batch_tokens[i]
           tok    == Tokens(out)
           prompt == prompts[i]
           pad    == _pad_lens[i]
           l      == Len(prompt)
           k      == n - 1
<1>1. /\ i \in 1 .. Len(prompts) /\ prompts \in Seq(Prompts)
      /\ RowIs(prompt, pad, out, active[i], past_key_values[i], step, model)
  BY DEF IInv, CallOK, RowsOK
<1>2. PromptOK(prompt) BY <1>1, PromptsOK
<1>3. pad \in Nat /\ step \in Nat /\ out \in Seq(Out) /\ Len(out) = step + 1 BY <1>1 DEF RowIs
<1>4. n \in 1 .. step + 1 BY <1>3, LenProperties
<1>5. tok \in Seq(Token) /\ Len(tok) = step + 1 /\ \A j \in 1 .. step + 1 : tok[j] = out[j].tok
  <2> HIDE DEF out
  <2> QED BY <1>3, TokensTyped
<1>6. k \in 0 .. Len(tok) /\ l + k = l + n - 1
  <2>1. l \in Nat BY <1>2, PromptLen
  <2> QED BY <1>3, <1>4, <1>5, <2>1
<1>7. NoEos(out, k)
  <2> SUFFICES ASSUME NEW j \in 1 .. k PROVE out[j].tok # eos_token_id BY DEF NoEos
  <2>1. j \in 1 .. step + 1 BY <1>3, <1>4
  <2>2. tok[j] \in ToSet(SubSeq(tok, 1, k))
    <3> HIDE DEF tok, k
    <3> QED BY <1>5, <1>6, FirstTokens
  <2> QED BY <1>5, <2>1, <2>2
<1>8. out[n].seen = Context(prompt, tok, pad, l + k)
  <2>1. out[n].seen = Context(prompt, tok, pad, l + n - 1) BY <1>1, <1>4, <1>7 DEF RowIs
  <2> QED BY <1>6, <2>1
<1>9. LET c == Context(prompt, tok, pad, l + k) IN
      /\ Tokens(c) = prompt \o SubSeq(tok, 1, k)
      /\ \A x, y \in DOMAIN c : x < y => c[x].pos < c[y].pos
  <2> HIDE DEF prompt, tok, pad, k
  <2> QED BY <1>2, <1>3, <1>5, <1>6, ContextReads
<1> QED BY <1>8, <1>9

(* RowContext for any prompts and any model: every token of a row, padded   *)
(* or not, is computed from exactly its own prompt and the tokens generated *)
(* before it, in increasing positions (prefill_batch, decode_batch and the  *)
(* attention mask of BatchedHFModel).                                       *)
THEOREM RowsReadThemselves == Spec => []RowContext
BY BatchInvariant, InvRowContext, PTL


-----------------------------------------------------------------------------
(* Greatest rows and least ends exist.                                      *)

LEMMA LastOfIs ==
    ASSUME NEW p, DOMAIN prompts = 1 .. Len(prompts), Len(prompts) \in Nat,
           p \in ToSet(prompts)
    PROVE  LastOf(p) \in DOMAIN prompts /\ prompts[LastOf(p)] = p
<1> DEFINE n == Len(prompts)
           Holds(i) == i \in 1 .. n /\ prompts[i] = p
           T == {k \in Nat : \A j \in 1 .. n : prompts[j] = p => j <= k}
<1>1. PICK i0 \in 1 .. n : prompts[i0] = p BY DEF ToSet
<1>2. n \in T OBVIOUS
<1>3. PICK k \in T : \A j \in T : k <= j
  <2>1. T \in SUBSET Nat /\ T # {} BY <1>2
  <2> HIDE DEF T
  <2> QED BY <2>1, Smallest
<1>4. k \in Nat /\ i0 <= k BY <1>1, <1>3
<1>5. \E i \in 1 .. n : prompts[i] = p /\ i = k
  <2> SUFFICES ASSUME \A i \in 1 .. n : prompts[i] = p => i # k PROVE FALSE OBVIOUS
  <2>1. k - 1 \in Nat BY <1>1, <1>4
  <2>2. \A j \in 1 .. n : prompts[j] = p => j <= k - 1
    <3> SUFFICES ASSUME NEW j \in 1 .. n, prompts[j] = p PROVE j <= k - 1 OBVIOUS
    <3>1. j <= k /\ j # k BY <1>3
    <3> QED BY <1>4, <3>1
  <2>3. k - 1 \in T BY <2>1, <2>2
  <2> QED BY <1>3, <1>4, <2>3
<1>6. \E i \in DOMAIN prompts :
          prompts[i] = p /\ \A j \in DOMAIN prompts : prompts[j] = p => j <= i
  BY <1>3, <1>5
<1> QED BY <1>6 DEF LastOf

(* The cut of generate_batch: at the first EOS, if one comes early enough.  *)
LEMMA TruncatedAt ==
    ASSUME NEW tok \in Seq(Token), Len(tok) \in 1 .. max_tokens
    PROVE  \E e \in 1 .. Len(tok) :
               /\ Truncated(tok) = SubSeq(tok, 1, e)
               /\ \A j \in 1 .. e - 1 : tok[j] # eos_token_id
               /\ tok[e] = eos_token_id \/ e = Len(tok)
<1> DEFINE n == Len(tok)
           ends == {i \in DOMAIN tok : tok[i] = eos_token_id} \cup {max_tokens, Len(tok)}
           e == CHOOSE i \in ends : \A j \in ends : i <= j
<1>1. n \in Nat /\ DOMAIN tok = 1 .. n /\ max_tokens \in Nat /\ n \in 1 .. max_tokens
  BY LenProperties, BatchedAssumption
<1>2. Truncated(tok) = SubSeq(tok, 1, e) BY DEF Truncated
<1>3. \A i : i \in ends <=> (i \in 1 .. n /\ tok[i] = eos_token_id) \/ i = max_tokens \/ i = n
  BY <1>1
<1>4. ends \in SUBSET Nat /\ ends # {} BY <1>1, <1>3
<1> HIDE DEF n, ends
<1>5. e \in ends /\ \A j \in ends : e <= j
  <2>1. \E i \in ends : \A j \in ends : i <= j BY <1>4, Smallest
  <2> QED BY <2>1
<1> HIDE DEF e
<1>6. e \in Nat /\ e <= n BY <1>3, <1>4, <1>5
<1>7. e \in 1 .. n BY <1>1, <1>3, <1>5, <1>6
<1>8. ASSUME NEW j \in 1 .. e - 1 PROVE tok[j] # eos_token_id
  <2>1. j \in 1 .. n /\ ~(e <= j) BY <1>1, <1>7
  <2> QED BY <1>3, <1>5, <2>1
<1>9. tok[e] = eos_token_id \/ e = n
  <2>1. CASE e = max_tokens BY <1>1, <1>6, <2>1
  <2> QED BY <1>3, <1>5, <2>1
<1> QED BY <1>2, <1>7, <1>8, <1>9 DEF n

(* Rows of one prompt have one padding.                                     *)
LEMMA SamePad ==
    ASSUME IInv, NEW i \in 1 .. Len(prompts), NEW j \in 1 .. Len(prompts),
           prompts[i] = prompts[j]
    PROVE  _pad_lens[i] = _pad_lens[j]
<1> DEFINE l == Len(prompts[i])
           p == _pad_lens[i]
           q == _pad_lens[j]
           x == Len(past_key_values[i])
           y == Len(past_key_values[j])
<1>1. l \in Nat
  <2>1. prompts \in Seq(Prompts) BY DEF IInv, CallOK
  <2> QED BY <2>1, PromptsOK, PromptLen
<1>2. p \in Nat /\ step \in Nat /\ x = p + (l + step) BY DEF IInv, RowsOK, RowIs, CacheIs
<1>3. q \in Nat /\ y = q + (l + step) BY DEF IInv, RowsOK, RowIs, CacheIs
<1>4. x = y BY DEF IInv, RowsOK
<1> HIDE DEF l, p, q, x, y
<1>5. p = q BY <1>1, <1>2, <1>3, <1>4
<1> QED BY <1>5 DEF p, q

LEMMA InvBatchedEqualsSerial == IInv => BatchedEqualsSerial
<1> SUFFICES ASSUME IInv, SerialDone, NEW i \in DOMAIN prompts,
                    prompts[i] = serial_prompt, _pad_lens[i] = 0
             PROVE  LET tokens == results[serial_prompt] IN
                    /\ IsPrefix(tokens, generated)
                    /\ eos_token_id \notin ToSet(Front(tokens))
                    /\ Len(tokens) = max_tokens \/ Last(tokens) = eos_token_id
  BY DEF BatchedEqualsSerial
<1> DEFINE k   == LastOf(serial_prompt)
           out == batch_tokens[k]
           tok == Tokens(out)
           n   == step + 1
<1>1. prompts \in Seq(Prompts) /\ DOMAIN active = 1 .. Len(prompts) BY DEF IInv, CallOK
<1>2. DOMAIN prompts = 1 .. Len(prompts) /\ Len(prompts) \in Nat BY <1>1, PromptsOK
<1>3. /\ serial_prompt # <<>> /\ Len(generated) = max_tokens
      /\ serial_prompt \in ToSet(prompts) /\ phase = "serial"
      /\ SerialIs(serial_prompt, generated, serial_cache, model)
  BY DEF SerialDone, IInv, SerialOK
<1>4. k \in 1 .. Len(prompts) /\ prompts[k] = serial_prompt BY <1>2, <1>3, LastOfIs
<1>5. results[serial_prompt] = Truncated(tok) BY <1>3 DEF IInv, ReturnOK
<1>6. step >= max_tokens - 1 \/ ~active[k] BY <1>1, <1>3, <1>4 DEF IInv, ReturnOK
<1>7. _pad_lens[k] = 0 BY <1>2, <1>4, SamePad
<1>8. /\ RowIs(serial_prompt, 0, out, active[k], past_key_values[k], step, model)
      /\ step < max_tokens
  BY <1>4, <1>7 DEF IInv, RowsOK
<1>9. PromptOK(serial_prompt) BY <1>1, <1>3, PromptsOK
<1>10. /\ step \in Nat /\ out \in Seq(Out) /\ Len(out) = n /\ (active[k] <=> NoEos(out, n))
       /\ max_tokens \in Nat
  BY <1>8, BatchedAssumption DEF RowIs
<1> HIDE DEF out
<1>11. tok \in Seq(Token) /\ Len(tok) = n /\ \A j \in 1 .. n : tok[j] = out[j].tok
  BY <1>10, TokensTyped
<1>12. \A j \in 1 .. n : NoEos(out, j - 1) => tok[j] = generated[j]
  <2>1. step + 1 <= Len(generated) BY <1>3, <1>8, <1>10
  <2> QED BY <1>3, <1>8, <1>9, <2>1, RowEqualsSerial
<1> HIDE DEF tok
<1>13. n \in 1 .. max_tokens BY <1>8, <1>10
<1>14. PICK e \in 1 .. n :
           /\ Truncated(tok) = SubSeq(tok, 1, e)
           /\ \A j \in 1 .. e - 1 : tok[j] # eos_token_id
           /\ tok[e] = eos_token_id \/ e = n
  <2> HIDE DEF n
  <2>1. Len(tok) \in 1 .. max_tokens BY <1>11, <1>13
  <2> QED BY <1>11, <2>1, TruncatedAt
<1>15. ASSUME NEW j \in 1 .. e PROVE tok[j] = generated[j]
  <2>1. \A h \in 1 .. j - 1 : h \in 1 .. e - 1 /\ h \in 1 .. n BY <1>10
  <2>2. NoEos(out, j - 1) BY <1>11, <1>14, <2>1 DEF NoEos
  <2>3. j \in 1 .. n BY <1>10
  <2> QED BY <1>12, <2>2, <2>3
<1> DEFINE tokens == SubSeq(tok, 1, e)
<1>16. /\ tokens \in Seq(Token) /\ Len(tokens) = e /\ \A j \in 1 .. e : tokens[j] = tok[j]
  <2>1. e \in 0 .. Len(tok) BY <1>10, <1>11
  <2> QED BY <1>11, <2>1, FirstTokens
<1>17. IsPrefix(tokens, generated)
  <2> DEFINE a == SubSeq(tokens, 1, e)
             b == SubSeq(generated, 1, e)
  <2>1. generated \in Seq(Token) BY <1>3 DEF SerialIs
  <2>2. e \in 0 .. Len(tokens) /\ e \in 0 .. Len(generated) /\ e <= max_tokens
    BY <1>3, <1>13, <1>10, <1>16
  <2> HIDE DEF tokens
  <2>3. /\ a \in Seq(Token) /\ Len(a) = e /\ \A j \in 1 .. e : a[j] = tokens[j]
        /\ b \in Seq(Token) /\ Len(b) = e /\ \A j \in 1 .. e : b[j] = generated[j]
    BY <1>16, <2>1, <2>2, FirstTokens
  <2> HIDE DEF a, b
  <2>4. a = b
    <3>1. Len(a) = Len(b) /\ \A j \in 1 .. Len(a) : a[j] = b[j] BY <1>15, <1>16, <2>3
    <3> QED BY <2>3, <3>1, SeqEqual
  <2> QED BY <1>3, <1>16, <2>2, <2>4 DEF IsPrefix, a, b
<1>18. eos_token_id \notin ToSet(Front(tokens))
  <2> DEFINE f == e - 1
  <2>1. f \in 0 .. Len(tokens) /\ \A j \in 1 .. f : j \in 1 .. e BY <1>10, <1>16
  <2>2. Front(tokens) = SubSeq(tokens, 1, f) BY <1>16 DEF Front
  <2>3. \A j \in 1 .. f : tokens[j] # eos_token_id BY <1>14, <1>16, <2>1
  <2> HIDE DEF f, tokens
  <2>4. \A x : x \in ToSet(SubSeq(tokens, 1, f)) <=> \E j \in 1 .. f : x = tokens[j]
    BY <1>16, <2>1, FirstTokens
  <2> QED BY <2>2, <2>3, <2>4
<1>19. Len(tokens) = max_tokens \/ Last(tokens) = eos_token_id
  <2>1. e \in 1 .. e /\ Last(tokens) = tok[e] BY <1>10, <1>16 DEF Last
  <2>2. CASE tok[e] = eos_token_id BY <2>1, <2>2
  <2>3. CASE tok[e] # eos_token_id
    <3>1. e = n BY <1>14, <2>3
    <3>2. CASE step >= max_tokens - 1
      <4>1. n = max_tokens BY <1>8, <1>10, <3>2
      <4> QED BY <1>16, <3>1, <4>1
    <3>3. CASE ~active[k]
      <4>1. PICK j \in 1 .. n : out[j].tok = eos_token_id BY <1>10, <3>3 DEF NoEos
      <4>2. j \in 1 .. e - 1 \/ j = e BY <1>10, <3>1
      <4> QED BY <1>11, <1>14, <2>3, <4>1, <4>2
    <3> QED BY <1>6, <3>2, <3>3
  <2> QED BY <2>2, <2>3
<1> QED BY <1>5, <1>14, <1>17, <1>18, <1>19

(* BatchedEqualsSerial for any prompts, batch sizes and models: a prompt    *)
(* that needed no padding gets from generate_batch exactly the tokens of    *)
(* the serial loop, cut at the first EOS, whatever else is in the batch and *)
(* whatever earlier calls left in the caches (prefill_batch, decode_batch,  *)
(* the truncation of generate_batch, prefill and decode of the adapter).    *)
THEOREM UnpaddedIsSerial == Spec => []BatchedEqualsSerial
BY BatchInvariant, InvBatchedEqualsSerial, PTL

=============================================================================
