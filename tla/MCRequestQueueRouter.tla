------------------------ MODULE MCRequestQueueRouter ------------------------
(***************************************************************************)
(* InferenceRequest, BoundedQueue and Router for TLC.  They share no       *)
(* state, so a behaviour uses one of them and leaves the others as they    *)
(* began, and no interleaving of two of them is lost.                      *)
(*                                                                         *)
(* Request: concurrent calls of every kind, an observer that may be added  *)
(* at any moment, and a wait.  Queue: two places and one thread more, so   *)
(* that two threads can wait on one condition variable while the third     *)
(* acts.  Router: three workers whose ids are not in the order of their    *)
(* positions.                                                              *)
(***************************************************************************)
EXTENDS InferenceRequest, BoundedQueue, Router

VARIABLE subject   \* the component this behaviour uses

Ids == <<2, 3, 1>>

SnapshotsWith(accepts, budgets, used, resident, depths, active) ==
  [accepting : accepts, memory_budget_bytes : budgets, memory_used_bytes : used,
   resident : resident, queue_depth : depths, active_count : active]

\* Who accepts and whose budget fits is all that round robin looks at.
Availability ==
  [1..3 -> SnapshotsWith(BOOLEAN, {1, 2}, {0}, {FALSE}, {0}, {0})]

\* Loads from none to a counter that has wrapped around.
Loads ==
  [1..3 -> SnapshotsWith(BOOLEAN, {2}, {0}, {FALSE}, {0, 1, SizeModulus - 1}, {0, 1})]

Residency ==
  [1..3 -> SnapshotsWith({TRUE}, {1, 2}, {0, 2}, BOOLEAN, {0, 1}, {0})]

SnapshotsOf ==
  [p \in Policies |-> CASE p = "RoundRobin" -> Availability
                        [] p = "LeastLoaded" -> Loads
                        [] OTHER -> Residency]

-----------------------------------------------------------------------------
OperationOrder == <<"to_queued", "to_running", "try_complete", "try_fail",
                    "try_reject", "try_cancel", "try_timeout", "try_timeout_if_expired">>

\* Callers are interchangeable: one of the ways to deal out the operations
\* stands for those that differ in who makes which call.
DealtInOrder ==
  \E rank \in [Callers -> DOMAIN OperationOrder] :
    /\ \A c, d \in Callers : c < d => rank[c] <= rank[d]
    /\ op = [c \in Callers |-> OperationOrder[rank[c]]]

\* What a component that is not used would have chosen does not matter.
PartsInit ==
  /\ subject \in {"request", "queue", "router"}
  /\ Init
  /\ QueueInit
  /\ RouterInit
  /\ DealtInOrder
  /\ subject # "request" => op = [c \in Callers |-> "to_queued"]
  /\ subject # "router" => policy = "RoundRobin"

\* So are values: they are numbered in the order in which pushes get them.
GivenInOrder == \A v \in unsent \ unsent', w \in unsent' : v < w

PartsNext ==
  \/ subject = "request" /\ Next /\ UNCHANGED <<subject, queueVars, routerVars>>
  \/ subject = "queue" /\ QueueNext /\ GivenInOrder /\ UNCHANGED <<subject, vars, routerVars>>
  \/ subject = "router" /\ RouterNext /\ UNCHANGED <<subject, vars, queueVars>>

\* The fairness of each component: it asks nothing of one that is not used,
\* for nobody is in a call of it.
PartsSpec ==
  /\ PartsInit
  /\ [][PartsNext]_<<subject, vars, queueVars, routerVars>>
  /\ Fairness
  /\ QueueFairness
=============================================================================
