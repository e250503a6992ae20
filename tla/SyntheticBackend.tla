-------------------------- MODULE SyntheticBackend --------------------------
(***************************************************************************)
(* SyntheticModelBackend (src/synthetic_backend.cpp), the backend of the   *)
(* tests and benchmarks: its operations as functions of the state of each  *)
(* model.  The simulated costs are left out.                               *)
(***************************************************************************)
EXTENDS Integers, Sequences

CONSTANTS
  Profiles,     \* the models register_model() was called for
  fail_load,    \* SyntheticModelConfig::fail_load
  fail_infer    \* SyntheticModelConfig::fail_infer

Result(code, states) == [code |-> code, states |-> states]

\* load() of a model that is resident does nothing.
load(states, m) ==
  IF m \notin Profiles THEN Result("ModelNotFound", states)
  ELSE IF states[m] = "Resident" THEN Result("None", states)
  ELSE IF m \in fail_load
  THEN Result("ModelLoadFailed", [states EXCEPT ![m] = "Failed"])
  ELSE Result("None", [states EXCEPT ![m] = "Resident"])

unload(states, m) ==
  IF m \notin Profiles THEN Result("ModelNotFound", states)
  ELSE IF states[m] \in {"Resident", "Failed"}
  THEN Result("None", [states EXCEPT ![m] = "Unloaded"])
  ELSE Result("None", states)

\* infer_batch(): one code for each member of a batch, given by its model.
infer_batch(states, batch) ==
  LET all(code) == [i \in DOMAIN batch |-> code]
  IN  IF batch = <<>> THEN <<>>
      ELSE IF batch[1] \notin Profiles THEN all("ModelNotFound")
      ELSE IF states[batch[1]] # "Resident" THEN all("NotResident")
      ELSE IF \E i \in DOMAIN batch : batch[i] # batch[1] THEN all("Incompatible")
      ELSE all(IF batch[1] \in fail_infer THEN "InferenceFailed" ELSE "None")
=============================================================================
