---------------------------- MODULE WorkerConfig ----------------------------
(***************************************************************************)
(* What the BatchBuilder of a worker and its llama.cpp backend share: the  *)
(* requests and the configuration both are constructed with.               *)
(***************************************************************************)

CONSTANTS
  Requests,
  model_id,   \* the model each request asks for
  None        \* no request, no deadline, no configuration

VARIABLE
  config      \* BatchConfig and LlamaCppBackendConfig, None before they exist

=============================================================================
