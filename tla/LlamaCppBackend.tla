--------------------------- MODULE LlamaCppBackend ---------------------------
(***************************************************************************)
(* The llama.cpp backend (src/llama/llama_cpp_backend.cpp): load(),        *)
(* unload() and infer_batch(), which decodes several requests as sequences *)
(* of one llama.cpp context.  One action is one pass between two calls of  *)
(* llama_decode(), or one token of the prefix stage; the mutex keeps other *)
(* calls out for the whole batch.                                          *)
(*                                                                         *)
(* llama.cpp itself is external: a context keeps the tokens of every       *)
(* sequence it has decoded (kv), and the logits of a batch entry depend on *)
(* the tokens its sequence has up to that entry.  Any call may fail.       *)
(* Sequence ids, positions and batch indices count from 0, as in the code. *)
(***************************************************************************)
EXTENDS WorkerConfig, Selection, FiniteSetsExt

CONSTANTS
  Tokens,             \* the vocabulary of the model
  prompt,             \* the tokens of each request's prompt
  max_output_tokens,  \* how many tokens each request asks for
  Greedy(_),          \* the token the greedy sampler picks after these tokens
  eog,                \* llama_vocab_is_eog() holds for this token
  U32,                \* values of uint32_t are taken modulo this (2^32)
  LLAMA_MAX_SEQ       \* sequences a llama.cpp context can have

needed(r) == Len(prompt[r]) + max_output_tokens[r]

ASSUME TokenAssumption ==
  /\ \A r \in Requests : prompt[r] \in Seq(Tokens) /\ max_output_tokens[r] \in Nat \ {0}
  /\ \A r \in Requests : \A k \in 1..needed(r) :
       \A tokens \in [1..k -> Tokens] : Greedy(tokens) \in Tokens
  /\ U32 \in Nat /\ LLAMA_MAX_SEQ \in 1..(U32 - 1)

VARIABLES
  loaded,    \* Impl::loaded: the context size of each loaded model
  kv,        \* external: tokens the context holds for each sequence
  logits,    \* external: the tokens behind each entry of the last batch
  pc,        \* where infer_batch() is
  requests,  \* its argument
  results,   \* its results
  live,      \* the sequences being decoded
  batch      \* the llama_batch

callVars == <<pc, requests, results, live, batch>>
backendVars == <<config, loaded, kv, logits, callVars>>

NoSequences == [s \in 0..(LLAMA_MAX_SEQ - 1) |-> <<>>]

BackendInit ==
  /\ loaded = <<>>
  /\ kv = NoSequences
  /\ logits = <<>>
  /\ pc = "idle"
  /\ requests = <<>> /\ results = <<>> /\ live = <<>> /\ batch = <<>>

-----------------------------------------------------------------------------
(* Configuration, load and unload *)

\* LlamaCppBackendConfig::validate(); the constructor throws unless it holds.
validate(c) ==
  /\ c.max_sequences >= 1
  /\ c.models # {}
  /\ c.context_tokens_per_sequence # 0
  /\ c.n_batch # 0
  /\ c.n_batch >= c.max_sequences

\* Variant: the product is not checked and wraps around.
UncheckedMul(a, b) == {(a * b) % U32}

\* checked_mul_u32(): the product if it fits, else nothing.
checked_mul_u32(a, b) ==
  IF a = 0 \/ b = 0 THEN {0}
  ELSE IF a > (U32 - 1) \div b THEN {}
  ELSE {(a * b) % U32}

n_seq_max == config.max_sequences % U32

\* A successful load(): the model is configured and n_ctx does not overflow;
\* llama.cpp makes no context of more than LLAMA_MAX_SEQ sequences.
Load(m) ==
  /\ pc = "idle"
  /\ m \in config.models \ DOMAIN loaded
  /\ n_seq_max <= LLAMA_MAX_SEQ
  /\ \E n_ctx \in checked_mul_u32(config.context_tokens_per_sequence, n_seq_max) :
       loaded' = [x \in DOMAIN loaded \cup {m} |-> IF x = m THEN n_ctx ELSE loaded[x]]
  /\ kv' = NoSequences
  /\ UNCHANGED <<config, logits, callVars>>

\* unload(): the context goes before the model.
Unload(m) ==
  /\ pc = "idle"
  /\ m \in DOMAIN loaded
  /\ loaded' = [x \in DOMAIN loaded \ {m} |-> loaded[x]]
  /\ UNCHANGED <<config, kv, logits, callVars>>

-----------------------------------------------------------------------------
(* infer_batch() *)

Failure(code) == [ok |-> FALSE, code |-> code]
Success(text, count) == [ok |-> TRUE, text |-> text, output_tokens |-> count]

\* infer_batch() is entered and takes the mutex.
InferBatch(reqs) ==
  /\ pc = "idle" /\ requests = <<>>
  /\ reqs # <<>>
  /\ requests' = reqs
  /\ pc' = "entered"
  /\ UNCHANGED <<config, loaded, kv, logits, results, live, batch>>

\* The checks that turn a whole batch away.
Refusals(reqs) ==
  IF \E i \in DOMAIN reqs : model_id[reqs[i]] # model_id[reqs[1]] THEN {"InternalError"}
  ELSE IF Len(reqs) > config.max_sequences THEN {"InternalError"}
  ELSE IF model_id[reqs[1]] \notin DOMAIN loaded THEN {"InferenceFailed"}
  ELSE {}

\* Every way out of infer_batch_locked() past the checks clears the memory
\* of the context: MemoryGuard.
Return(answers) ==
  /\ results' = answers
  /\ kv' = NoSequences
  /\ pc' = "idle"
  /\ live' = <<>> /\ batch' = <<>> /\ logits' = <<>>
  /\ UNCHANGED <<config, loaded, requests>>

LiveSeq(i, s) ==
  [result_index |-> i, seq_id |-> s, n_past |-> 0, generated |-> 0, text |-> <<>>,
   active |-> TRUE, logits_batch_index |-> -1]

\* The sequences of a batch: one for each request that can be decoded.
\* unusable: requests whose prompt or sampler llama.cpp fails on.
Setup(unusable) ==
  LET tooLong(i) == needed(requests[i]) > config.context_tokens_per_sequence
      fine == {i \in DOMAIN requests :
                 i \notin unusable /\ ~tooLong(i) /\ prompt[requests[i]] # <<>>}
      answers == [i \in DOMAIN requests |->
                    IF i \notin unusable /\ tooLong(i)
                    THEN Failure("ContextLengthExceeded")
                    ELSE Failure("InferenceFailed")]
  IN  /\ pc = "entered"
      /\ IF Refusals(requests) # {}
         THEN \E code \in Refusals(requests) :
                Return([i \in DOMAIN requests |-> Failure(code)])
         ELSE IF fine = {}
         THEN Return(answers)
         ELSE /\ results' = [i \in DOMAIN requests |->
                               IF i \in fine THEN Success(<<>>, 0) ELSE answers[i]]
              /\ \E order \in Passes(fine, Len(requests)) :
                   live' = [k \in DOMAIN order |-> LiveSeq(order[k], k - 1)]
              /\ kv' = NoSequences
              /\ pc' = "prefix"
              /\ UNCHANGED <<config, loaded, logits, requests, batch>>

prompt_tokens(seq) == prompt[requests[seq.result_index]]
Entry(seq, token, pos, wanted) ==
  [token |-> token, pos |-> pos, seq_id |-> seq.seq_id, logits |-> wanted]

\* Whether a prompt token before the last one is not in a batch yet.
HasPrefix(seq) == seq.n_past + 1 < Len(prompt_tokens(seq))

\* The tokens the llama_batch is allocated for.
n_batch_cap == config.n_batch

\* The prefix stage puts the prompt tokens in the batch, one sequence after
\* the other, until it has n_batch_cap of them.
FillPrefix ==
  /\ pc = "prefix"
  /\ Len(batch) < n_batch_cap
  /\ \E k \in DOMAIN live :
       LET seq == live[k]
       IN  /\ HasPrefix(seq) /\ \A j \in 1..(k - 1) : ~HasPrefix(live[j])
           /\ batch' = Append(batch, Entry(seq, prompt_tokens(seq)[seq.n_past + 1],
                                           seq.n_past, FALSE))
           /\ live' = [live EXCEPT ![k].n_past = @ + 1]
  /\ UNCHANGED <<config, loaded, kv, logits, pc, requests, results>>

PrefixFilled ==
  /\ pc = "prefix"
  /\ Len(batch) >= n_batch_cap \/ \A k \in DOMAIN live : ~HasPrefix(live[k])
  /\ pc' = IF batch = <<>> THEN "bootstrap" ELSE "decode_prefix"
  /\ UNCHANGED <<config, loaded, kv, logits, requests, results, live, batch>>

\* The last prompt token of every sequence, with logits.
Bootstrap ==
  /\ pc = "bootstrap"
  /\ batch' = [k \in DOMAIN live |->
                 Entry(live[k], prompt_tokens(live[k])[Len(prompt_tokens(live[k]))],
                       live[k].n_past, TRUE)]
  /\ live' = [k \in DOMAIN live |->
                [live[k] EXCEPT !.logits_batch_index = k - 1, !.n_past = @ + 1]]
  /\ pc' = "decode"
  /\ UNCHANGED <<config, loaded, kv, logits, requests, results>>

-----------------------------------------------------------------------------
(* llama_decode(), external *)

\* The entries of sequence s, and the position after them.
Mine(s) == {i \in DOMAIN batch : batch[i].seq_id = s}
End(s) == Max({Len(kv[s])} \cup {batch[i].pos + 1 : i \in Mine(s)})

\* What llama_decode() requires: room in the batch, sequences the context
\* has, positions that continue what it holds, and room in the cache of
\* each sequence, which gets an equal share of n_ctx (kv_unified is off).
Decodable ==
  LET share == loaded[model_id[requests[1]]] \div n_seq_max
  IN  /\ Len(batch) <= n_batch_cap
      /\ \A i \in DOMAIN batch : batch[i].seq_id < n_seq_max
      /\ \A s \in DOMAIN kv :
           /\ {batch[i].pos : i \in Mine(s)} = Len(kv[s])..(End(s) - 1)
           /\ \A i, j \in Mine(s) : i < j => batch[i].pos < batch[j].pos
           /\ End(s) <= share

llama_decode ==
  LET added(s, pos) == batch[CHOOSE i \in Mine(s) : batch[i].pos = pos].token
  IN  /\ Decodable
      /\ kv' = [s \in DOMAIN kv |->
                  [p \in 1..End(s) |-> IF p \in DOMAIN kv[s] THEN kv[s][p] ELSE added(s, p - 1)]]
      /\ logits' = [i \in DOMAIN batch |->
                      IF batch[i].logits
                      THEN SubSeq(kv'[batch[i].seq_id], 1, batch[i].pos + 1)
                      ELSE <<>>]

DecodePrefix ==
  /\ pc = "decode_prefix"
  /\ llama_decode
  /\ pc' = IF \E k \in DOMAIN live : HasPrefix(live[k]) THEN "prefix" ELSE "bootstrap"
  /\ batch' = <<>>
  /\ UNCHANGED <<config, loaded, requests, results, live>>

Decode ==
  /\ pc = "decode"
  /\ llama_decode
  /\ pc' = "sample"
  /\ UNCHANGED <<config, loaded, requests, results, live, batch>>

\* fail_live(): whatever is still being decoded fails, the rest keeps its
\* result.
DecodeFails ==
  /\ pc \in {"decode_prefix", "decode"}
  /\ Return([i \in DOMAIN results |->
               IF \E k \in DOMAIN live : live[k].active /\ live[k].result_index = i
               THEN Failure("InferenceFailed") ELSE results[i]])

\* An exception anywhere in the batch fails all of it.
Throws ==
  /\ pc # "idle"
  /\ Return([i \in DOMAIN requests |-> Failure("InferenceFailed")])

-----------------------------------------------------------------------------
(* The generation loop *)

\* What becomes of a sequence when its next token is sampled.
Sampled(seq) == Greedy(logits[seq.logits_batch_index + 1])

\* Variant: the count is compared before it is incremented.
FateOneMore(seq, unprintable) ==
  IF Sampled(seq) = eog THEN "ended"
  ELSE IF seq.seq_id \in unprintable THEN "failed"
  ELSE IF seq.generated >= max_output_tokens[requests[seq.result_index]] THEN "full"
  ELSE "on"

Fate(seq, unprintable) ==
  IF Sampled(seq) = eog THEN "ended"
  ELSE IF seq.seq_id \in unprintable THEN "failed"
  ELSE IF seq.generated + 1 >= max_output_tokens[requests[seq.result_index]] THEN "full"
  ELSE "on"

\* Variant: a sequence keeps the index it had in the first batch.
FirstSlot(k, order) == k - 1

\* Where sequence k is in the next batch (logits_batch_index).
Slot(k, order) == (CHOOSE j \in DOMAIN order : order[j] = k) - 1

\* One pass over the active sequences: each samples from its logits, and
\* those that go on are put in the next batch.
\* unprintable: sequences whose token has no text (token_to_piece throws).
Sample(unprintable) ==
  LET fate(k) == IF live[k].active THEN Fate(live[k], unprintable) ELSE "inactive"
      going == {k \in DOMAIN live : fate(k) = "on"}
      longer(k) == Append(live[k].text, Sampled(live[k]))
      verdict(k) == CASE fate(k) = "ended" -> Success(live[k].text, live[k].generated)
                      [] fate(k) = "full" -> Success(longer(k), live[k].generated + 1)
                      [] fate(k) = "failed" -> Failure("InferenceFailed")
      after(i) == LET k == CHOOSE k \in DOMAIN live : live[k].result_index = i
                  IN  verdict(k)
      ends == {live[k].result_index : k \in {j \in DOMAIN live :
                                               fate(j) \in {"ended", "full", "failed"}}}
      answers == [i \in DOMAIN results |-> IF i \in ends THEN after(i) ELSE results[i]]
  IN  /\ pc = "sample"
      /\ IF going = {}
         THEN Return(answers)
         ELSE /\ results' = answers
              /\ \E order \in Passes(going, Len(live)) :
                   /\ batch' = [j \in DOMAIN order |->
                                  Entry(live[order[j]], Sampled(live[order[j]]),
                                        live[order[j]].n_past, TRUE)]
                   /\ live' = [k \in DOMAIN live |->
                                 IF k \in going
                                 THEN [live[k] EXCEPT !.text = longer(k), !.generated = @ + 1,
                                                      !.logits_batch_index = Slot(k, order),
                                                      !.n_past = @ + 1]
                                 ELSE [live[k] EXCEPT !.active = FALSE]]
              /\ pc' = "decode"
              /\ UNCHANGED <<config, loaded, kv, logits, requests>>

BackendStep ==
  \/ \E unusable \in SUBSET (DOMAIN requests) : Setup(unusable)
  \/ FillPrefix \/ PrefixFilled \/ Bootstrap
  \/ DecodePrefix \/ Decode \/ DecodeFails \/ Throws
  \/ \E unprintable \in SUBSET {live[k].seq_id : k \in DOMAIN live} : Sample(unprintable)

-----------------------------------------------------------------------------
(* Properties *)

\* Whenever llama_decode() is called, the batch fits the array it was
\* allocated in, every sequence id is one the context has, the positions
\* continue the tokens the context holds, and the share of n_ctx of each
\* sequence suffices: whatever options main() accepts, and although only the
\* prefix stage looks at n_batch.
AlwaysDecodable == pc \in {"decode_prefix", "decode"} => Decodable

\* Every sequence samples from the logits of its own prompt and output, also
\* after other sequences of the batch have ended and the indices shifted.
SamplesItsOwn ==
  pc = "sample" =>
    \A k \in DOMAIN live :
      live[k].active =>
        LET i == live[k].logits_batch_index + 1
        IN  /\ i \in DOMAIN logits
            /\ logits[i] = prompt[requests[live[k].result_index]] \o live[k].text

=============================================================================
