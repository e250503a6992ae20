---------------------------- MODULE ModelManager ----------------------------
(***************************************************************************)
(* The models one worker keeps in memory (src/model_manager.cpp), with the *)
(* ResourceManager that counts the memory and the eviction policies, over  *)
(* a backend that is the synthetic one or one that also refuses to unload  *)
(* or throws.  The worker thread is the only caller: it makes a model      *)
(* resident and infers a batch on it.  Snapshots read the state whenever   *)
(* the mutex is free, that is between two steps, also while the backend is *)
(* loading or unloading.  Models are numbered in the order of their ids.   *)
(***************************************************************************)
EXTENDS SyntheticBackend, FiniteSets

CONSTANTS
  Models,                   \* the models requests may ask for
  batch_size,               \* of the batch inferred after each call
  Registered,               \* those in the ModelRegistry
  estimated_memory_bytes,   \* ModelSpec of each model
  estimated_load_cost,
  budget,                   \* memory_budget_bytes
  Policies,                 \* the eviction policies to choose from
  MaxCalls                  \* bound: calls of ensure_resident()

ASSUME ConfigAssumption ==
  /\ Models \subseteq Nat /\ Models # {} /\ Registered \subseteq Models
  /\ Profiles \subseteq Models /\ fail_load \subseteq Models /\ fail_infer \subseteq Models
  /\ batch_size \in Nat
  /\ estimated_memory_bytes \in [Models -> Nat \ {0}]
  /\ estimated_load_cost \in [Models -> Nat \ {0}]
  /\ budget \in Nat
  /\ Policies \subseteq {"Lru", "CostAware"}

ModelState == {"Unloaded", "Loading", "Resident", "Evicting", "Failed"}

VARIABLES
  policy,          \* policy_
  entries,         \* entries_; a missing entry looks like a fresh one
  used,            \* ResourceManager::used_
  touch_counter,   \* touch_counter_
  metrics,         \* metrics_
  backend,         \* the state of each model in the backend
  stage,           \* where ensure_resident() is
  id,              \* its argument
  victim,          \* the model evict_one() is evicting
  status,          \* what the last call returned
  results,         \* the codes of the last batch
  calls,           \* history: number of calls
  thrown           \* history: a backend call has thrown

modelVars == <<policy, entries, used, touch_counter, metrics, backend, stage, id, victim,
               status, results, calls, thrown>>

ModelInit ==
  /\ policy \in Policies
  /\ entries = [m \in Models |-> [state |-> "Unloaded", last_used |-> 0,
                                  use_count |-> 0, previously_loaded |-> FALSE]]
  /\ used = 0
  /\ touch_counter = 0
  /\ metrics = [residency_hits |-> 0, residency_misses |-> 0, loads |-> 0,
                unloads |-> 0, evictions |-> 0, reloads |-> 0]
  /\ backend = [m \in Models |-> "Unloaded"]
  /\ stage = "idle"
  /\ id = CHOOSE m \in Models : TRUE
  /\ victim = id
  /\ status = "none"
  /\ results = <<>>
  /\ calls = 0
  /\ thrown = FALSE

In(states) == {m \in Models : entries[m].state \in states}

\* Variant: any free memory will do.
SomeFree(bytes) == used < budget

can_reserve(bytes) == bytes <= budget - used

Count(counter) == metrics' = [metrics EXCEPT ![counter] = @ + 1]

\* After a success the worker infers.
Return(code) == stage' = (IF code = "ok" THEN "infer" ELSE "idle") /\ status' = code

-----------------------------------------------------------------------------
(* The eviction policies: which of two resident models goes first *)

LruBefore(a, b) ==
  \/ entries[a].last_used < entries[b].last_used
  \/ entries[a].last_used = entries[b].last_used /\ a < b

CostAwareBefore(a, b) ==
  \/ estimated_load_cost[a] < estimated_load_cost[b]
  \/ /\ estimated_load_cost[a] = estimated_load_cost[b]
     /\ \/ entries[a].use_count < entries[b].use_count
        \/ /\ entries[a].use_count = entries[b].use_count
           /\ \/ estimated_memory_bytes[a] > estimated_memory_bytes[b]
              \/ /\ estimated_memory_bytes[a] = estimated_memory_bytes[b]
                 /\ LruBefore(a, b)

Before(a, b) == IF policy = "Lru" THEN LruBefore(a, b) ELSE CostAwareBefore(a, b)

\* v is order_victims().front()
GoesFirst(v, candidates) == \A m \in candidates \ {v} : Before(v, m)

-----------------------------------------------------------------------------

Touched(entry) == [entry EXCEPT !.last_used = touch_counter + 1, !.use_count = @ + 1]

Hit(m) ==
  /\ stage = "idle" /\ calls < MaxCalls
  /\ entries[m].state = "Resident"
  /\ entries' = [entries EXCEPT ![m] = Touched(@)]
  /\ touch_counter' = touch_counter + 1
  /\ Count("residency_hits")
  /\ Return("ok")
  /\ id' = m
  /\ calls' = calls + 1
  /\ UNCHANGED <<policy, used, backend, results, victim, thrown>>

\* Variant: the size is not checked.
AnySize(m) == FALSE

TooLarge(m) == estimated_memory_bytes[m] > budget

\* A miss: the model must be registered and fit into the budget.
Miss(m) ==
  /\ stage = "idle" /\ calls < MaxCalls
  /\ entries[m].state # "Resident"
  /\ Count("residency_misses")
  /\ id' = m
  /\ calls' = calls + 1
  /\ IF m \notin Registered THEN Return("ModelNotFound")
     ELSE IF TooLarge(m) THEN Return("ModelTooLarge")
     ELSE stage' = "free" /\ UNCHANGED status
  /\ UNCHANGED <<policy, entries, used, touch_counter, backend, results, victim, thrown>>

\* free_memory_for(): while there is not enough room, choose a victim.
EvictBegin ==
  /\ stage = "free"
  /\ ~can_reserve(estimated_memory_bytes[id])
  /\ IF In({"Resident"}) = {}
     THEN /\ Return("NoCandidates")
          /\ UNCHANGED <<entries, victim>>
     ELSE /\ victim' \in In({"Resident"}) /\ GoesFirst(victim', In({"Resident"}))
          /\ entries' = [entries EXCEPT ![victim'].state = "Evicting"]
          /\ stage' = "unload"
          /\ UNCHANGED status
  /\ UNCHANGED <<policy, used, touch_counter, metrics, backend, results, id, calls, thrown>>

\* release() refuses to give back more than is in use.
Unloaded ==
  LET answer == unload(backend, victim)
  IN  /\ stage = "unload"
      /\ answer.code = "None"
      /\ backend' = answer.states
      /\ entries' = [entries EXCEPT ![victim].state = "Unloaded"]
      /\ IF estimated_memory_bytes[victim] > used
         THEN /\ Return("OverRelease")
              /\ UNCHANGED <<used, metrics>>
         ELSE /\ used' = used - estimated_memory_bytes[victim]
              /\ metrics' = [metrics EXCEPT !.unloads = @ + 1, !.evictions = @ + 1]
              /\ stage' = "free"
              /\ UNCHANGED status
      /\ UNCHANGED <<policy, touch_counter, id, victim, results, calls, thrown>>

\* unload() returns an error, as that of another backend may: the victim stays.
UnloadFails ==
  /\ stage = "unload"
  /\ entries' = [entries EXCEPT ![victim].state = "Resident"]
  /\ Return("UnloadFailed")
  /\ UNCHANGED <<policy, used, touch_counter, metrics, backend, results, id, victim, calls, thrown>>

\* Enough room: reserve it and start loading.  Nobody else reserves, so what
\* can_reserve() has found cannot have changed.
Reserve ==
  /\ stage = "free"
  /\ can_reserve(estimated_memory_bytes[id])
  /\ used' = used + estimated_memory_bytes[id]
  /\ entries' = [entries EXCEPT ![id].state = "Loading"]
  /\ stage' = "load"
  /\ UNCHANGED <<policy, touch_counter, metrics, backend, results, id, victim, status, calls, thrown>>

Loaded ==
  LET answer == load(backend, id)
  IN  /\ stage = "load"
      /\ answer.code = "None"
      /\ backend' = answer.states
      /\ entries' = [entries EXCEPT ![id] =
                       [Touched(@) EXCEPT !.state = "Resident", !.previously_loaded = TRUE]]
      /\ touch_counter' = touch_counter + 1
      /\ metrics' = [metrics EXCEPT
                       !.loads = @ + 1,
                       !.reloads = IF entries[id].previously_loaded THEN @ + 1 ELSE @]
      /\ Return("ok")
      /\ UNCHANGED <<policy, used, id, victim, results, calls, thrown>>

\* Variant: the error is not looked at.
LoadErrorIgnored ==
  /\ stage = "load"
  /\ entries' = [entries EXCEPT ![id].state = "Resident"]
  /\ Return("ModelLoadFailed")
  /\ UNCHANGED <<policy, used, touch_counter, metrics, backend, results, id, victim, calls, thrown>>

\* load() returns an error, for a reason of its own too: the reservation is
\* given back.
LoadFails ==
  /\ stage = "load"
  /\ \/ UNCHANGED backend
     \/ /\ load(backend, id).code # "None"
        /\ backend' = load(backend, id).states
  /\ used' = used - estimated_memory_bytes[id]
  /\ entries' = [entries EXCEPT ![id].state = "Failed"]
  /\ Return("ModelLoadFailed")
  /\ UNCHANGED <<policy, touch_counter, metrics, id, victim, results, calls, thrown>>

\* Variant: the room is given back whatever was not unloaded.
ThrowGivesBack ==
  /\ stage \in {"load", "unload"}
  /\ Return("exception")
  /\ thrown' = TRUE
  /\ used' = used - estimated_memory_bytes[IF stage = "load" THEN id ELSE victim]
  /\ UNCHANGED <<policy, entries, touch_counter, metrics, backend, results, id, victim, calls>>

\* load() or unload() throws through ensure_resident(), which cleans up nothing.
Throws ==
  /\ stage \in {"load", "unload"}
  /\ Return("exception")
  /\ thrown' = TRUE
  /\ UNCHANGED <<policy, entries, used, touch_counter, metrics, backend, results, id, victim, calls>>

\* execute_batch() on the model that was made resident.
Infer ==
  /\ stage = "infer"
  /\ results' = infer_batch(backend, [i \in 1..batch_size |-> id])
  /\ stage' = "idle"
  /\ UNCHANGED <<policy, entries, used, touch_counter, metrics, backend, id, victim, status,
                 calls, thrown>>

ModelNext ==
  \/ \E m \in Models : Hit(m) \/ Miss(m)
  \/ EvictBegin
  \/ Unloaded
  \/ UnloadFails
  \/ Reserve
  \/ Loaded
  \/ LoadFails
  \/ Throws
  \/ Infer

ModelSpec == ModelInit /\ [][ModelNext]_modelVars

-----------------------------------------------------------------------------
(* Properties *)

InBackend == {m \in Models : backend[m] = "Resident"}

\* The bytes of a set of models, each model's numbered from 1.
Bytes(models) == UNION {{m} \X (1..estimated_memory_bytes[m]) : m \in models}

Memory(models) == Cardinality(Bytes(models))

\* The memory in use is that of the models that are resident or on their way
\* in or out, whatever loads and unloads failed before (reserve, release and
\* their error paths).  An exception may leave more in use, never less.
MemoryAccounted ==
  LET held == Memory(In({"Loading", "Resident", "Evicting"}))
  IN  held <= used /\ (~thrown => used = held)

\* The models in the backend's memory, with the one it is loading, never need
\* more than the budget, even after exceptions that leave entries behind.
BudgetRespected ==
  Memory(InBackend \cup (IF stage = "load" THEN {id} ELSE {})) <= budget

\* A registered model that fits into the budget is never refused for lack of
\* memory: evicting the others always makes room (free_memory_for).  After an
\* exception a reservation may be left behind, but release() still gives back
\* what an eviction frees.
RoomCanBeMade == status # "OverRelease" /\ (~thrown => status # "NoCandidates")

\* When ensure_resident() returns a success the backend holds the model, also
\* after exceptions that left entries behind: a batch is never inferred on a
\* model that is gone ("model is not resident", infer_batch).
InfersOnResident == \A i \in DOMAIN results : results[i] \in {"None", "InferenceFailed"}
=============================================================================
