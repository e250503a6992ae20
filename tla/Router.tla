------------------------------- MODULE Router -------------------------------
(***************************************************************************)
(* The routing policies (src/router.cpp): each call of select() gets the   *)
(* size of a model and a snapshot of every worker, in the order of         *)
(* Runtime::workers_, and returns a worker or fails.  The snapshots of a   *)
(* call may be anything a worker reports: its queue depth is a size_t that *)
(* can be out by any amount (module Worker), and the sum with the active   *)
(* count wraps around.                                                     *)
(***************************************************************************)
EXTENDS Integers, Sequences

CONSTANTS
  WorkerIds,       \* the ids, in the order of Runtime::workers_
  Snapshots,       \* the snapshots of all workers a call may get, by policy
  Sizes,           \* estimated_memory_bytes of the models asked for
  SizeModulus      \* size_t counts modulo this (2^64 in the build)

Policies == {"RoundRobin", "LeastLoaded", "ResidencyAware"}

n == Len(WorkerIds)
Positions == 1..n

WorkerSnapshot ==
  [accepting : BOOLEAN, memory_budget_bytes : Nat, memory_used_bytes : Nat,
   resident : BOOLEAN, queue_depth : Nat, active_count : Nat]

ASSUME RouterAssumption ==
  /\ WorkerIds \in Seq(Nat) /\ n > 0
  /\ \A i, j \in Positions : WorkerIds[i] = WorkerIds[j] => i = j
  /\ \A p \in Policies : Snapshots[p] \subseteq [Positions -> WorkerSnapshot]
  /\ Sizes \subseteq Nat \ {0}
  /\ SizeModulus \in Nat \ {0}

NoFeasibleWorker == 0
NotCalled == -1   \* select() has not been called

VARIABLES
  policy,       \* the class of Runtime::router_
  next_index,   \* RoundRobinRouter::next_index_, counted from 1
  metrics,      \* ResidencyAwareRouter::metrics_, by tier
  workers,      \* the snapshots of the last call
  size,         \* the model of the last call
  selected,     \* the position of the worker it returned, or NoFeasibleWorker
  passed_over   \* history: for each worker, the selections in a row it could
                \* have had and did not get (kept under RoundRobin)

routerVars == <<policy, next_index, metrics, workers, size, selected, passed_over>>

RouterInit ==
  /\ policy \in Policies
  /\ next_index = 1
  /\ metrics = [tier \in 0..2 |-> 0]
  /\ workers = CHOOSE ws \in Snapshots[policy] : TRUE
  /\ size = CHOOSE bytes \in Sizes : TRUE
  /\ selected = NotCalled
  /\ passed_over = [i \in Positions |-> 0]

is_m2_feasible(w, bytes) == w.accepting /\ bytes <= w.memory_budget_bytes

\* size_t arithmetic.
load(w) == (w.queue_depth + w.active_count) % SizeModulus

residency_tier(w, bytes) ==
  IF w.resident THEN 0
  ELSE IF bytes <= (IF w.memory_budget_bytes >= w.memory_used_bytes
                    THEN w.memory_budget_bytes - w.memory_used_bytes ELSE 0) THEN 1
  ELSE 2

\* Variant: the worker at next_index is the last to be looked at.
After(offset) == ((next_index + offset) % n) + 1

\* The position `offset` places after next_index.
At(offset) == ((next_index - 1 + offset) % n) + 1

Offsets == 0..(n - 1)

RoundRobin(ws, bytes) ==
  LET offsets == {o \in Offsets : is_m2_feasible(ws[At(o)], bytes)}
  IN  IF offsets = {} THEN NoFeasibleWorker
      ELSE At(CHOOSE o \in offsets : \A p \in offsets : o <= p)

\* Variant: of equal loads the later position wins.
LastOfEqual(ws, i, best) == load(ws[i]) <= load(ws[best])

LessLoaded(ws, i, best) ==
  \/ load(ws[i]) < load(ws[best])
  \/ load(ws[i]) = load(ws[best]) /\ WorkerIds[i] < WorkerIds[best]

\* The loops go through the workers and keep the best feasible one so far;
\* before has <<i, best>> if worker i replaces it.
Scan(feasible, before) ==
  LET best[i \in 0..n] ==
        IF i = 0 THEN NoFeasibleWorker
        ELSE IF /\ i \in feasible
                /\ best[i - 1] = NoFeasibleWorker \/ <<i, best[i - 1]>> \in before
        THEN i ELSE best[i - 1]
  IN  best[n]

FeasibleAt(ws, bytes) == {i \in Positions : is_m2_feasible(ws[i], bytes)}

LeastLoaded(ws, bytes) ==
  Scan(FeasibleAt(ws, bytes), {p \in Positions \X Positions : LessLoaded(ws, p[1], p[2])})

Closer(ws, bytes, i, best) ==
  \/ residency_tier(ws[i], bytes) < residency_tier(ws[best], bytes)
  \/ /\ residency_tier(ws[i], bytes) = residency_tier(ws[best], bytes)
     /\ LessLoaded(ws, i, best)

ResidencyAware(ws, bytes) ==
  Scan(FeasibleAt(ws, bytes), {p \in Positions \X Positions : Closer(ws, bytes, p[1], p[2])})

Choice(ws, bytes) ==
  CASE policy = "RoundRobin" -> RoundRobin(ws, bytes)
    [] policy = "LeastLoaded" -> LeastLoaded(ws, bytes)
    [] OTHER -> ResidencyAware(ws, bytes)

\* Only RoundRobin moves next_index, and only ResidencyAware counts.  The
\* other two choose by the snapshots alone, so the model stops after one
\* call.
Select(ws, bytes) ==
  LET choice == Choice(ws, bytes)
      Passed(i) == is_m2_feasible(ws[i], bytes) /\ i # choice
  IN  /\ policy = "RoundRobin" \/ selected = NotCalled
      /\ workers' = ws
      /\ size' = bytes
      /\ selected' = choice
      /\ next_index' = IF policy = "RoundRobin" /\ choice # NoFeasibleWorker
                       THEN (choice % n) + 1 ELSE next_index
      /\ metrics' = IF policy = "ResidencyAware" /\ choice # NoFeasibleWorker
                    THEN [metrics EXCEPT ![residency_tier(ws[choice], bytes)] = @ + 1]
                    ELSE metrics
      /\ passed_over' = [i \in Positions |-> IF choice = NoFeasibleWorker THEN passed_over[i]
                                             ELSE IF Passed(i) /\ policy = "RoundRobin" THEN passed_over[i] + 1
                                             ELSE 0]
      /\ UNCHANGED policy

RouterNext == \E ws \in Snapshots[policy], bytes \in Sizes : Select(ws, bytes)

RouterSpec == RouterInit /\ [][RouterNext]_routerVars

-----------------------------------------------------------------------------
(* Properties *)

FeasibleNow(i) == is_m2_feasible(workers[i], size)

\* Under round robin no worker that could take every request is passed over
\* for a whole round, whatever the other workers and the models do
\* (RoundRobinRouter::select).
NobodyPassedOver == \A i \in Positions : passed_over[i] < n

\* The worker that is selected by the snapshots is the best of the feasible
\* ones, in whatever order they come.  ResidencyAwareRouter returns one that has
\* to evict only if every feasible worker has to, and one that has to load only
\* if none holds the model; within a tier, and under LeastLoadedRouter always,
\* it is the least loaded and of those the one with the smallest id.
SelectsBest ==
  policy # "RoundRobin" /\ selected \in Positions =>
    LET tier(i) == IF policy = "LeastLoaded" THEN 0 ELSE residency_tier(workers[i], size)
    IN  /\ FeasibleNow(selected)
        /\ \A i \in Positions \ {selected} :
             FeasibleNow(i) =>
               /\ tier(selected) <= tier(i)
               /\ tier(selected) = tier(i) =>
                    /\ load(workers[selected]) <= load(workers[i])
                    /\ load(workers[selected]) = load(workers[i]) =>
                         WorkerIds[selected] < WorkerIds[i]
=============================================================================
