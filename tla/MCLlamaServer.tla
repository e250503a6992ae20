---------------------------- MODULE MCLlamaServer ----------------------------
(* A small instance of LlamaServer for TLC: three requests of the model that *)
(* is served, one of another, and command lines at the edges of the types.   *)
EXTENDS LlamaServer, SequencesExt

CONSTANTS r1, r2, r3, r4, m, n

MCPrompt == r1 :> <<1>> @@ r2 :> <<1, 2, 1>> @@ r3 :> <<2, 2>> @@ r4 :> <<>>
MCMaxOutput == r1 :> 2 @@ r2 :> 1 @@ r3 :> 2 @@ r4 :> 1
MCDeadline == r1 :> None @@ r2 :> 2 @@ r3 :> None @@ r4 :> None
MCModelId == r1 :> m @@ r2 :> m @@ r3 :> m @@ r4 :> n
MCGreedy(tokens) == (FoldLeft(LAMBDA a, b : a + b, 0, tokens) + Len(tokens)) % 3

Llama(size, wait, ctx) ==
  <<[flag |-> "--backend", value |-> "llama"], [flag |-> "--model-id", value |-> m],
    [flag |-> "--max-batch-size", value |-> size],
    [flag |-> "--max-batch-wait-ms", value |-> wait],
    [flag |-> "--model-path", value |-> "gguf"], [flag |-> "--ctx-size", value |-> ctx]>>

MCCommandLines ==
  {Llama(size, 2, ctx) : size \in {1, 3, 17}, ctx \in {3, 20}}
    \cup {Llama(2, wait, 4) : wait \in {0, 2, 9}}
    \cup {Llama(size, 2, ctx) : size \in {0, 3}, ctx \in {0, 6, 16, None}}
    \cup {<<>>, <<[flag |-> "--scheduler", value |-> "lifo"]>>}
=============================================================================
