--------------------------- MODULE TextGeneration ---------------------------
(***************************************************************************)
(* What IModelBackend::infer_batch() promises for a language model: result *)
(* i answers request i, and a request that succeeds gets the text it would *)
(* get if it were decoded alone, whatever else is in the batch.            *)
(***************************************************************************)
EXTENDS Integers, Sequences

CONSTANTS
  Requests,
  prompt,             \* the tokens of each request's prompt
  max_output_tokens,  \* how many tokens each request asks for
  Greedy(_),          \* the most likely token after a sequence of tokens
  eog                 \* the end-of-generation token

VARIABLES
  context,  \* tokens a sequence may have, prompt and output together
  asked,    \* the batch of the current call
  answers   \* its results, once it has returned

vars == <<context, asked, answers>>

Failure(code) == [ok |-> FALSE, code |-> code]
Success(text, count) == [ok |-> TRUE, text |-> text, output_tokens |-> count]

\* The text greedy decoding appends to p, one token after the other, up to
\* n tokens or the end of generation.
Continuation(p, n) ==
  LET upTo[k \in 0..n] ==
        IF k = 0 THEN <<>>
        ELSE LET next == Greedy(p \o upTo[k - 1])
             IN  IF Len(upTo[k - 1]) < k - 1 \/ next = eog
                 THEN upTo[k - 1]
                 ELSE Append(upTo[k - 1], next)
  IN  upTo[n]

Fits(r) == Len(prompt[r]) + max_output_tokens[r] <= context

\* A request may always fail: the tokenizer, the decoder or the vocabulary
\* can.  It is too long exactly when prompt and output do not fit.
Allowed(r) ==
  LET text == Continuation(prompt[r], max_output_tokens[r])
  IN  {Failure("InferenceFailed")}
        \cup {Failure("ContextLengthExceeded") : x \in {y \in {r} : ~Fits(y)}}
        \cup {Success(text, Len(text)) : x \in {y \in {r} : Fits(y) /\ prompt[y] # <<>>}}

Init == asked = <<>> /\ answers = <<>>

\* The server is set up before it takes requests.
Configure ==
  /\ asked = <<>>
  /\ context' # context
  /\ UNCHANGED <<asked, answers>>

Ask ==
  /\ asked = <<>>
  /\ asked' # <<>>
  /\ UNCHANGED <<context, answers>>

Answer ==
  /\ asked # <<>> /\ answers = <<>>
  /\ DOMAIN answers' = DOMAIN asked
  /\ \A i \in DOMAIN asked : answers'[i] \in Allowed(asked[i])
  /\ UNCHANGED <<context, asked>>

Deliver ==
  /\ answers # <<>>
  /\ asked' = <<>> /\ answers' = <<>>
  /\ UNCHANGED context

Next == Configure \/ Ask \/ Answer \/ Deliver

EveryCallReturns == asked # <<>> ~> answers # <<>>

Spec == Init /\ [][Next]_vars /\ EveryCallReturns

=============================================================================
