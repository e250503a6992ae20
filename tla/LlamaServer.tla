----------------------------- MODULE LlamaServer -----------------------------
(***************************************************************************)
(* A worker of runtime-server --backend llama, from the command line to    *)
(* the text: main() turns the options into the configuration of the        *)
(* BatchBuilder and of the backend (apps/runtime-server/main.cpp), the     *)
(* worker forms batches, loads the model and passes each batch to          *)
(* LlamaCppBackend::infer_batch().                                         *)
(***************************************************************************)
EXTENDS BatchBuilder, LlamaCppBackend

CONSTANTS
  Models,        \* the models requests may ask for
  CommandLines,  \* the command lines: sequences of flags and their values
  DefaultCtx,    \* --ctx-size unless given (2048 in the code)
  DefaultBatch,  \* the least n_batch (512 in the code)
  MaxWait        \* the longest --max-batch-wait-ms that fits in microseconds

ASSUME ServerAssumption ==
  /\ MaxWait \in Nat
  /\ {DefaultCtx, DefaultBatch} \subseteq 1..(U32 - 1)
  /\ \A args \in CommandLines : Len(args) \in Nat /\ DOMAIN args = 1..Len(args)

VARIABLE argv    \* the command line

vars == <<argv, batchVars, backendVars>>

Init ==
  /\ argv \in CommandLines
  /\ config = None
  /\ BatchInit
  /\ BackendInit

-----------------------------------------------------------------------------
(* main() *)

Flags == {"--host", "--port", "--backend", "--model-id", "--model-path", "--ctx-size",
          "--gpu-layers", "--threads", "--workers", "--max-batch-size", "--max-batch-wait-ms",
          "--scheduler-capacity", "--worker-queue-capacity", "--scheduler"}

\* ServerOptions: what holds unless a flag says otherwise.
ServerOptions(flag) ==
  CASE flag = "--host" -> "127.0.0.1"
    [] flag = "--port" -> 8080
    [] flag = "--backend" -> "synthetic"
    [] flag = "--ctx-size" -> DefaultCtx
    [] flag = "--max-batch-size" -> 4
    [] flag = "--max-batch-wait-ms" -> 0
    [] flag = "--scheduler-capacity" -> 32
    [] flag = "--worker-queue-capacity" -> 8
    [] flag = "--scheduler" -> "workload"
    [] OTHER -> None

\* parse_positive_size(), parse_nonnegative_u64() and the other checks of a
\* value.  A value that is not a number, or is missing, is None.
Positive == {"--ctx-size", "--workers", "--max-batch-size", "--scheduler-capacity",
             "--worker-queue-capacity", "--threads"}

Valid(flag, value) ==
  CASE flag \in Positive -> value \in Nat \ {0}
    [] flag = "--max-batch-wait-ms" -> value \in Nat
    [] flag = "--port" -> value \in 0..65535
    [] OTHER -> value # None

\* --ctx-size is kept as a uint32_t.
Stored(flag, value) == IF flag = "--ctx-size" THEN value % U32 ELSE value

\* parse_args(): the options, or None for a command line it turns down.  Of
\* several values for a flag the last is kept.
parse_args(args) ==
  LET given(flag) == {i \in DOMAIN args : args[i].flag = flag}
      opts == [flag \in Flags |->
                 IF given(flag) = {} THEN ServerOptions(flag)
                 ELSE Stored(flag, args[Max(given(flag))].value)]
  IN  IF /\ \A i \in DOMAIN args : args[i].flag \in Flags /\ Valid(args[i].flag, args[i].value)
         /\ opts["--scheduler"] \in {"fifo", "workload"}
      THEN opts ELSE None

\* make_batch_config() throws for a wait that does not fit.
make_batch_config(opts) ==
  {opts["--max-batch-wait-ms"]} \cap 0..MaxWait

\* make_llama_worker(): one sequence of the context for each request of a
\* batch; the constructor of the backend validates the result.
make_llama_worker(opts) ==
  {c \in {[max_batch_size |-> opts["--max-batch-size"],
           max_batch_wait |-> wait,
           max_sequences |-> opts["--max-batch-size"],
           models |-> {opts["--model-id"]},
           context_tokens_per_sequence |-> opts["--ctx-size"],
           n_batch |-> Max({DefaultBatch, opts["--max-batch-size"] % U32})] :
            wait \in make_batch_config(opts)} : validate(c)}

bootVars == <<argv, now, unsent, lane, closed, formed, deferred, allow_wait, until, first_at,
              loaded, kv, logits, pc, requests, results, live, batch>>

\* main() with --backend llama builds the worker and serves.
Construct ==
  LET opts == parse_args(argv)
  IN  /\ at = "boot"
      /\ opts # None
      /\ opts["--backend"] = "llama"
      /\ opts["--model-id"] # None /\ opts["--model-path"] # None
      /\ opts["--ctx-size"] # 0
      /\ \E c \in make_llama_worker(opts) : config' = c
      /\ at' = "top"
      /\ UNCHANGED bootVars

\* It says why not and returns 1.  That can always be: the model file may
\* be missing or its size unreadable.
GiveUp ==
  /\ at = "boot"
  /\ at' = "exit"
  /\ UNCHANGED <<config, bootVars>>

-----------------------------------------------------------------------------
(* The worker thread around the backend *)

Form ==
  /\ FormStep \/ Tick \/ Close \/ \E r \in Requests : Arrive(r)
  /\ UNCHANGED <<argv, backendVars>>

\* Nothing of the batch is alive any more.
DropBatch ==
  /\ at = "formed"
  /\ <<>> \in LiveBatches
  /\ NextBatch
  /\ UNCHANGED <<argv, backendVars>>

\* The ModelManager loads the model of the batch, and may unload an idle one.
LoadModel ==
  /\ at = "formed"
  /\ \E reqs \in LiveBatches \ {<<>>} : Load(model_id[reqs[1]])
  /\ UNCHANGED <<argv, batchVars>>

UnloadModel ==
  /\ at = "top"
  /\ \E m \in Models : Unload(m)
  /\ UNCHANGED <<argv, batchVars>>

\* A load that fails fails the batch.
LoadFails ==
  /\ at = "formed"
  /\ \E reqs \in LiveBatches \ {<<>>} : model_id[reqs[1]] \notin DOMAIN loaded
  /\ NextBatch
  /\ UNCHANGED <<argv, backendVars>>

Execute ==
  /\ at = "formed"
  /\ \E reqs \in LiveBatches \ {<<>>} :
       model_id[reqs[1]] \in DOMAIN loaded /\ InferBatch(reqs)
  /\ at' = "infer"
  /\ UNCHANGED <<argv, now, unsent, lane, closed, formed, deferred, allow_wait, until,
                 first_at>>

Infer ==
  /\ at = "infer"
  /\ BackendStep
  /\ UNCHANGED <<argv, batchVars>>

\* infer_batch() has returned: the worker gives each request its result.
Deliver ==
  /\ at = "infer"
  /\ pc = "idle"
  /\ results # <<>>
  /\ requests' = <<>> /\ results' = <<>>
  /\ NextBatch
  /\ UNCHANGED <<argv, config, loaded, kv, logits, pc, live, batch>>

Next ==
  \/ Construct \/ GiveUp
  \/ Form \/ DropBatch
  \/ LoadModel \/ UnloadModel \/ LoadFails
  \/ Execute \/ Infer \/ Deliver

\* infer_batch() runs on: no call of llama.cpp blocks for ever.
Spec == Init /\ [][Next]_vars /\ WF_vars(Infer)

-----------------------------------------------------------------------------
(* Properties *)

Generation == INSTANCE TextGeneration WITH
  context <- IF config = None THEN 0 ELSE config.context_tokens_per_sequence,
  asked <- requests,
  answers <- IF pc = "idle" THEN results ELSE <<>>

\* result[i] answers requests[i] with the text greedy decoding gives that
\* request alone, or an error of its own; no batch the worker forms is
\* refused as too large or mixed, and every call returns.
ImplementsGeneration == Generation!Spec

=============================================================================
