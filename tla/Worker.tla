------------------------------- MODULE Worker -------------------------------
(***************************************************************************)
(* One worker (src/worker.cpp) with its BatchBuilder                       *)
(* (src/batch_builder.cpp): callers put requests into the lane, the worker *)
(* thread takes them out, forms a batch of one model and executes it,      *)
(* while any request may be cancelled or expire at any moment.             *)
(*                                                                         *)
(* The lane is the FIFO that BoundedQueue provides.  Time is abstracted:   *)
(* a wait with a deadline may end at any moment, so max_batch_wait and     *)
(* allow_wait (how long form() waits on an empty lane) leave no trace;     *)
(* module BatchBuilder has them, with the clock.                           *)
(* The worker thread takes one step for each look at a request that finds  *)
(* it in another state than the look before.  Looks at different requests  *)
(* commute with each other's deaths, so one pass over a batch is one step. *)
(***************************************************************************)
EXTENDS RequestLifecycle, Selection, FiniteSets

CONSTANTS
  Requests,         \* requests the callers offer to the worker
  Mortal,           \* requests that may be cancelled or expire
  model_id,         \* the model each request asks for
  Callers,          \* threads that call the enqueue functions
  Kinds,            \* which of try_enqueue, enqueue, enqueue_until they use
  queue_capacity,   \* WorkerConfig::queue_capacity
  max_batch_size,   \* BatchBuilderConfig::max_batch_size
  SizeModulus,      \* size_t counts modulo this (2^64 in the build)
  None              \* no request

ASSUME ConfigAssumption ==
  /\ Mortal \subseteq Requests
  /\ None \notin Requests
  /\ Kinds \subseteq {"try_enqueue", "enqueue", "enqueue_until"}
  /\ queue_capacity \in Nat \ {0}
  /\ max_batch_size \in Nat \ {0}
  /\ SizeModulus \in Nat \ {0}

VARIABLES
  state,          \* InferenceRequest::state_ of each request
  cause,          \* the error a failed or rejected request carries
  lane,           \* lane_, oldest first
  lane_closed,    \* BoundedQueue::closed_ of the lane
  accepting,      \* accepting_
  queued_count,   \* queued_count_
  calls,          \* the enqueue call each caller is in
  unsent,         \* requests not yet offered
  pc,             \* where the worker thread is
  deferred,       \* deferred_
  hand,           \* `next` in BatchBuilder::form()
  batch,          \* formed.requests, later the batch being executed
  index,          \* the loop variable over the batch
  verdict,        \* what is to become of each request of the batch
  worker_state,   \* state_
  active_count,   \* active_count_
  batch_metrics,  \* batch_metrics_
  pushed,         \* history: requests in the order they entered the lane
  inferred        \* history: the batches passed to infer_batch()

callerVars == <<calls, unsent, accepting, lane_closed, pushed>>
formVars == <<pc, deferred, hand, batch>>
executeVars == <<index, verdict, worker_state, active_count, batch_metrics, inferred>>
vars == <<state, cause, lane, queued_count, callerVars, formVars, executeVars>>

Idle == [at |-> "idle", request |-> None, kind |-> "none"]

Init ==
  /\ state = [r \in Requests |-> "Queued"]
  /\ cause = [r \in Requests |-> "none"]
  /\ lane = <<>>
  /\ lane_closed = FALSE
  /\ accepting = TRUE
  /\ queued_count = 0
  /\ calls = [c \in Callers |-> Idle]
  /\ unsent = Requests
  /\ pc = "top"
  /\ deferred = None
  /\ hand = None
  /\ batch = <<>>
  /\ index = 1
  /\ verdict = <<>>
  /\ worker_state = "Idle"
  /\ active_count = 0
  /\ batch_metrics = [batches_executed |-> 0, requests_executed_via_batches |-> 0,
                      multi_request_batches |-> 0, max_batch_size_observed |-> 0]
  /\ pushed = <<>>
  /\ inferred = <<>>

\* is_dead_request() also times out a request whose deadline has passed.
is_dead_request(r) == is_terminal_state(state[r])

\* A cancellation, or the moment from which every look finds the deadline
\* passed: the worker treats both alike.
Die(r) ==
  /\ r \in Mortal
  /\ is_valid_transition(state[r], "Cancelled")
  /\ state' = [state EXCEPT ![r] = "Cancelled"]
  /\ UNCHANGED <<cause, lane, queued_count, callerVars, formVars, executeVars>>

\* Atomic counters of type size_t wrap around.
Plus(n, k) == (n + k) % SizeModulus
Minus(n, k) == (n - k) % SizeModulus

-----------------------------------------------------------------------------
(* The callers of try_enqueue(), enqueue() and enqueue_until() *)

Call(at, r, kind) == [at |-> at, request |-> r, kind |-> kind]

\* Only Runtime::route_request, which calls try_enqueue(), rejects a request
\* that was refused; the other calls just return the error.
Refused(r, kind) == IF kind = "try_enqueue" THEN Call("refused", r, kind) ELSE Idle

\* The checks before the push.  A dead request is reported as success.
EnqueueBegin(c, r, kind) ==
  /\ calls[c] = Idle
  /\ r \in unsent
  /\ unsent' = unsent \ {r}
  /\ calls' = [calls EXCEPT ![c] = IF ~accepting THEN Refused(r, kind)
                                  ELSE IF is_dead_request(r) THEN Idle
                                  ELSE Call("push", r, kind)]
  /\ UNCHANGED <<state, cause, lane, queued_count, accepting, lane_closed,
                 pushed, formVars, executeVars>>

Full == Len(lane) >= queue_capacity

\* The push succeeds; queued_count_ follows in a step of its own.
Push(c) ==
  /\ calls[c].at \in {"push", "waiting"}
  /\ ~lane_closed
  /\ ~Full
  /\ lane' = Append(lane, calls[c].request)
  /\ pushed' = Append(pushed, calls[c].request)
  /\ calls' = [calls EXCEPT ![c].at = "count"]
  /\ UNCHANGED <<state, cause, queued_count, unsent, accepting, lane_closed,
                 formVars, executeVars>>

CountPushed(c) ==
  /\ calls[c].at = "count"
  /\ queued_count' = Plus(queued_count, 1)
  /\ calls' = [calls EXCEPT ![c] = Idle]
  /\ UNCHANGED <<state, cause, lane, unsent, accepting, lane_closed, pushed,
                 formVars, executeVars>>

\* QueueClosed, or QueueFull from the push that does not wait.
PushRefused(c) ==
  /\ calls[c].at \in {"push", "waiting"}
  /\ lane_closed \/ (Full /\ calls[c].kind = "try_enqueue")
  /\ calls' = [calls EXCEPT ![c] = Refused(calls[c].request, calls[c].kind)]
  /\ UNCHANGED <<state, cause, lane, queued_count, unsent, accepting,
                 lane_closed, pushed, formVars, executeVars>>

\* wait_push_until() finds the lane full and waits ...
PushWaits(c) ==
  /\ calls[c].at = "push"
  /\ calls[c].kind = "enqueue_until"
  /\ Full /\ ~lane_closed
  /\ calls' = [calls EXCEPT ![c].at = "waiting"]
  /\ UNCHANGED <<state, cause, lane, queued_count, unsent, accepting,
                 lane_closed, pushed, formVars, executeVars>>

\* ... and gives up at the deadline without looking at the lane again;
\* enqueue_until() then times the request out.
PushTimeout(c) ==
  LET r == calls[c].request
  IN  /\ calls[c].at = "waiting"
      /\ state' = IF is_valid_transition(state[r], "TimedOut")
                  THEN [state EXCEPT ![r] = "TimedOut"] ELSE state
      /\ calls' = [calls EXCEPT ![c] = Idle]
      /\ UNCHANGED <<cause, lane, queued_count, unsent, accepting,
                     lane_closed, pushed, formVars, executeVars>>

\* route_request() rejects a request it could not enqueue.
Reject(c) ==
  LET r == calls[c].request
  IN  /\ calls[c].at = "refused"
      /\ IF is_valid_transition(state[r], "Rejected")
         THEN /\ state' = [state EXCEPT ![r] = "Rejected"]
              /\ cause' = [cause EXCEPT ![r] = "refused"]
         ELSE UNCHANGED <<state, cause>>
      /\ calls' = [calls EXCEPT ![c] = Idle]
      /\ UNCHANGED <<lane, queued_count, unsent, accepting, lane_closed,
                     pushed, formVars, executeVars>>

\* close() stores accepting_ and then closes the lane.
StopAccepting ==
  /\ accepting
  /\ accepting' = FALSE
  /\ UNCHANGED <<state, cause, lane, queued_count, calls, unsent, lane_closed,
                 pushed, formVars, executeVars>>

CloseLane ==
  /\ ~accepting
  /\ ~lane_closed
  /\ lane_closed' = TRUE
  /\ UNCHANGED <<state, cause, lane, queued_count, calls, unsent, accepting,
                 pushed, formVars, executeVars>>

-----------------------------------------------------------------------------
(* run_loop() and BatchBuilder::form(): take requests out, form a batch *)

\* discard_queued_request(): no decrement below zero.
Discarded(n) == IF n > 0 THEN n - 1 ELSE n

\* Variant: the lane goes before the deferred request.
DeferredLast == deferred # None /\ lane = <<>>

DeferredFirst == deferred # None

HasNext == deferred # None \/ lane # <<>>

TakeFirst ==
  LET first == IF DeferredFirst THEN deferred ELSE Head(lane)
  IN  /\ pc = "top"
      /\ HasNext
      /\ IF DeferredFirst
         THEN deferred' = None /\ UNCHANGED lane
         ELSE lane' = Tail(lane) /\ UNCHANGED deferred
      /\ IF is_dead_request(first)
         THEN /\ queued_count' = Discarded(queued_count)
              /\ UNCHANGED <<pc, batch>>
         ELSE /\ batch' = <<first>>
              /\ pc' = "form"
              /\ UNCHANGED queued_count
      /\ UNCHANGED <<state, cause, callerVars, hand, executeVars>>

\* Variant: the thread trusts the counter.
CountedOut == lane_closed /\ ~HasNext /\ queued_count = 0

Drained == lane_closed /\ ~HasNext

Exit ==
  /\ pc = "top"
  /\ Drained
  /\ pc' = "exited"
  /\ UNCHANGED <<state, cause, lane, queued_count, callerVars, deferred, hand,
                 batch, executeVars>>

\* pop_until: dead requests are discarded until a live one turns up.
PopExtra ==
  /\ pc = "form"
  /\ Len(batch) < max_batch_size
  /\ lane # <<>>
  /\ lane' = Tail(lane)
  /\ IF is_dead_request(Head(lane))
     THEN /\ queued_count' = Discarded(queued_count)
          /\ UNCHANGED <<pc, hand>>
     ELSE /\ hand' = Head(lane)
          /\ pc' = "extra"
          /\ UNCHANGED queued_count
  /\ UNCHANGED <<state, cause, callerVars, deferred, batch, executeVars>>

SameModel(r) == model_id[r] = model_id[Head(batch)]

\* on_extra_request looks again: a request that died in between is discarded
\* and deferred as well.  One of another model is deferred.
PlaceExtra ==
  /\ pc = "extra"
  /\ hand' = None
  /\ IF is_dead_request(hand) \/ ~SameModel(hand)
     THEN /\ deferred' = hand
          /\ pc' = "formed"
          /\ UNCHANGED batch
     ELSE /\ batch' = Append(batch, hand)
          /\ pc' = "form"
          /\ UNCHANGED deferred
  /\ queued_count' = IF is_dead_request(hand) THEN Discarded(queued_count)
                     ELSE queued_count
  /\ UNCHANGED <<state, cause, lane, callerVars, executeVars>>

\* Variant: the thread waits for a full batch.
BatchFull == Len(batch) = max_batch_size

\* The batch is full, or the lane stays empty until the deadline.
FormOver == Len(batch) = max_batch_size \/ lane = <<>>

FormEnds ==
  /\ pc = "form"
  /\ FormOver
  /\ pc' = "formed"
  /\ UNCHANGED <<state, cause, lane, queued_count, callerVars, deferred, hand,
                 batch, executeVars>>

\* Variant: the filter stops at the first dead request.
LivePrefix ==
  LET Lives(n) == \A i \in 1..n : ~is_dead_request(batch[i])
  IN  \E n \in 0..Len(batch) :
        /\ Lives(n) /\ (n < Len(batch) => is_dead_request(batch[n + 1]))
        /\ batch' = SubSeq(batch, 1, n)

\* The members of the batch that are alive stay, in their order.
filter_live_batch ==
  LET alive == {i \in DOMAIN batch : ~is_dead_request(batch[i])}
  IN  \E pass \in Passes(alive, Len(batch)) : batch' = Along(pass, batch)

\* The filter of run_loop() takes what it removes off the count.
FilterFormed ==
  /\ pc = "formed"
  /\ filter_live_batch
  /\ queued_count' = Minus(queued_count, Len(batch) - Len(batch'))
  /\ pc' = IF batch' = <<>> THEN "top" ELSE "execute"
  /\ UNCHANGED <<state, cause, lane, callerVars, deferred, hand, executeVars>>

-----------------------------------------------------------------------------
(* execute_batch() *)

\* Nothing in execute_batch() touches the lane or the deferred request.
untouched == <<lane, callerVars, deferred, hand>>

restore_idle == worker_state' = "Idle" /\ active_count' = 0

\* Variant: a batch counts as one request.
DequeuedOne(n, live) == Minus(n, 1)

Dequeued(n, live) == Minus(n, Len(live))

\* The filter of execute_batch() only takes what it keeps off the count.
BeginBatch ==
  /\ pc = "execute"
  /\ filter_live_batch
  /\ queued_count' = Dequeued(queued_count, batch')
  /\ IF batch' = <<>>
     THEN /\ pc' = "top"
          /\ UNCHANGED <<worker_state, active_count>>
     ELSE /\ pc' = "check"
          /\ worker_state' = "Busy"
          /\ active_count' = Len(batch')
  /\ index' = 1
  /\ UNCHANGED <<untouched, state, cause, verdict, batch_metrics, inferred>>

CheckMember ==
  /\ pc = "check"
  /\ index <= Len(batch)
  /\ IF is_dead_request(batch[index])
     THEN /\ index' = index + 1
          /\ UNCHANGED pc
     ELSE /\ pc' = "start"
          /\ UNCHANGED index
  /\ UNCHANGED <<untouched, state, cause, queued_count, batch, verdict,
                 worker_state, active_count, batch_metrics, inferred>>

\* Every member of the batch is to end the same way.
All(why) == [i \in DOMAIN batch |-> why]

\* fail_all(): idle first, then the loop that Finish stands for.
fail_all(why) ==
  /\ restore_idle
  /\ verdict' = All(why)
  /\ pc' = "finish"

\* transition_to(Running).  A member that died since the check fails the batch.
StartMember ==
  /\ pc = "start"
  /\ IF is_valid_transition(state[batch[index]], "Running")
     THEN /\ state' = [state EXCEPT ![batch[index]] = "Running"]
          /\ index' = index + 1
          /\ pc' = "check"
          /\ UNCHANGED <<verdict, worker_state, active_count>>
     ELSE /\ fail_all("InvalidStateTransition")
          /\ UNCHANGED <<state, index>>
  /\ UNCHANGED <<untouched, cause, queued_count, batch, batch_metrics,
                 inferred>>

\* Both filters during the execution go back to the top when nothing is left.
FilterBatch(then) ==
  /\ filter_live_batch
  /\ IF batch' = <<>>
     THEN restore_idle /\ pc' = "top"
     ELSE UNCHANGED <<worker_state, active_count>> /\ pc' = then

AllStarted ==
  /\ pc = "check"
  /\ index > Len(batch)
  /\ FilterBatch("resident")
  /\ UNCHANGED <<untouched, state, cause, queued_count, index, verdict,
                 batch_metrics, inferred>>

record_batch_metrics(n) ==
  batch_metrics' =
    [batches_executed |-> batch_metrics.batches_executed + 1,
     requests_executed_via_batches |-> batch_metrics.requests_executed_via_batches + n,
     multi_request_batches |->
       batch_metrics.multi_request_batches + (IF n > 1 THEN 1 ELSE 0),
     max_batch_size_observed |->
       IF n > batch_metrics.max_batch_size_observed THEN n
       ELSE batch_metrics.max_batch_size_observed]

\* The ways a batch settles: its verdict is known and the worker is idle again.
Settle(results) ==
  /\ record_batch_metrics(Len(batch))
  /\ restore_idle
  /\ verdict' = results
  /\ pc' = "finish"

\* ensure_resident() succeeds, ...
Resident ==
  /\ pc = "resident"
  /\ FilterBatch("infer")
  /\ UNCHANGED <<untouched, state, cause, queued_count, index, verdict,
                 batch_metrics, inferred>>

\* ... returns an error, or throws.
NotResident ==
  /\ pc = "resident"
  /\ \/ Settle(All("ModelLoadFailed"))
     \/ fail_all("InternalError") /\ UNCHANGED batch_metrics
  /\ UNCHANGED <<untouched, state, cause, queued_count, batch, index, inferred>>

\* infer_batch() returns a result for each request, the wrong number of
\* results, or throws.
Infer ==
  /\ pc = "infer"
  /\ inferred' = Append(inferred, batch)
  /\ \/ \E results \in [DOMAIN batch -> {"none", "BackendError"}] : Settle(results)
     \/ Settle(All("CardinalityMismatch"))
     \/ fail_all("InternalError") /\ UNCHANGED batch_metrics
  /\ UNCHANGED <<untouched, state, cause, queued_count, batch, index>>

\* The members that are not terminal yet complete or fail.  fail_all() takes
\* one that is still Queued through Running.
Finish ==
  LET Outcome(i) == IF verdict[i] = "none" THEN "Completed" ELSE "Failed"
      Ended == {i \in DOMAIN batch : ~is_terminal_state(state[batch[i]])}
      IndexOf(r) == CHOOSE i \in Ended : batch[i] = r
      Members == {batch[i] : i \in Ended}
  IN  /\ pc = "finish"
      /\ state' = [r \in Requests |-> IF r \in Members THEN Outcome(IndexOf(r)) ELSE state[r]]
      /\ cause' = [r \in Requests |-> IF r \in Members THEN verdict[IndexOf(r)] ELSE cause[r]]
      /\ batch' = <<>>
      /\ verdict' = <<>>
      /\ pc' = "top"
      /\ UNCHANGED <<untouched, queued_count, index, worker_state,
                     active_count, batch_metrics, inferred>>

-----------------------------------------------------------------------------

Caller(c) ==
  \/ \E r \in Requests, kind \in Kinds : EnqueueBegin(c, r, kind)
  \/ Push(c)
  \/ CountPushed(c)
  \/ PushRefused(c)
  \/ PushWaits(c)
  \/ PushTimeout(c)
  \/ Reject(c)

run_loop ==
  \/ TakeFirst
  \/ Exit
  \/ PopExtra
  \/ PlaceExtra
  \/ FormEnds
  \/ FilterFormed
  \/ BeginBatch
  \/ CheckMember
  \/ StartMember
  \/ AllStarted
  \/ Resident
  \/ NotResident
  \/ Infer
  \/ Finish

Next ==
  \/ \E r \in Requests : Die(r)
  \/ \E c \in Callers : Caller(c)
  \/ StopAccepting
  \/ CloseLane
  \/ run_loop

Spec == Init /\ [][Next]_vars

\* The worker thread keeps running: its waits end with the deadline, and a
\* backend call returns or throws.
FairSpec == Spec /\ WF_vars(run_loop)

-----------------------------------------------------------------------------
(* Properties *)

TypeOK ==
  /\ state \in [Requests -> RequestState]
  /\ lane \in Seq(Requests) /\ Len(lane) <= queue_capacity
  /\ lane_closed \in BOOLEAN /\ accepting \in BOOLEAN
  /\ queued_count \in 0..(SizeModulus - 1)
  /\ unsent \subseteq Requests
  /\ deferred \in Requests \cup {None} /\ hand \in Requests \cup {None}
  /\ batch \in Seq(Requests) /\ Len(batch) <= max_batch_size
  /\ worker_state \in {"Idle", "Busy"}
  /\ active_count \in 0..max_batch_size

Pushed == {pushed[i] : i \in DOMAIN pushed}

\* The places in which the worker holds request r.
Places(r) ==
  {<<"lane", i>> : i \in {j \in DOMAIN lane : lane[j] = r}}
    \cup {<<"batch", i>> : i \in {j \in DOMAIN batch : batch[j] = r}}
    \cup (IF deferred = r THEN {<<"deferred">>} ELSE {})
    \cup (IF hand = r THEN {<<"hand">>} ELSE {})

\* A request that entered the lane and has not ended is held in exactly one
\* place - the lane, the deferred slot, the hand of form() or the batch - and
\* none is held twice (run_loop, form and execute_batch pass requests on by
\* moving them).
LiveHeldOnce ==
  \A r \in Requests :
    /\ \A p, q \in Places(r) : p = q
    /\ r \in Pushed /\ ~is_terminal_state(state[r]) => Places(r) # {}

\* Requests reach the backend in the order they entered the lane, none twice:
\* a deferred request goes before everything still in the lane (run_loop).
InferredInOrder ==
  LET Position(r) == CHOOSE i \in DOMAIN pushed : pushed[i] = r
  IN  \A b, c \in DOMAIN inferred : \A i \in DOMAIN inferred[b], j \in DOMAIN inferred[c] :
        b < c \/ (b = c /\ i < j) => Position(inferred[b][i]) < Position(inferred[c][j])

\* queued_count_ and the fetch_add()s still to come add up to the requests
\* that are queued: in the lane or taken out and not yet executing.  This
\* holds until a request dies.
CountExact ==
  LET Died == {r \in Requests : state[r] \in {"Cancelled", "TimedOut"}}
      Counting == {c \in Callers : calls[c].at = "count"}
      Forming == IF pc \in {"form", "extra", "formed", "execute"} THEN Len(batch) ELSE 0
      Aside == (IF deferred = None THEN 0 ELSE 1) + (IF hand = None THEN 0 ELSE 1)
  IN  Died = {} => Plus(queued_count, Cardinality(Counting))
                     = (Len(lane) + Forming + Aside) % SizeModulus

\* tests/worker_test.cpp and tests/worker_batch_test.cpp: a worker whose
\* requests have all ended reports a queue depth of zero.  Every fetch_add() has
\* been made and the worker holds nothing.
DepthReturnsToZero ==
  /\ \A c \in Callers : calls[c].at # "count"
  /\ \A r \in Requests : Places(r) = {}
  => queued_count = 0

\* tests/http_disconnect_test.cpp: cancelling one request leaves the others of
\* its batch alone; none fails because a batch mate was cancelled.
SiblingsUnharmed == \A r \in Requests : cause[r] # "InvalidStateTransition"

\* Every request that entered the lane ends (run_loop).  Callers have finitely
\* many requests, so it is enough that the lane's requests have all ended some
\* time.
PushedEnds ==
  LET Outstanding == {r \in Pushed : ~is_terminal_state(state[r])}
  IN  Outstanding # {} ~> Outstanding = {}

\* After close() the worker thread returns, so that join() does (run_loop).
CloseEndsThread == lane_closed ~> pc = "exited"
=============================================================================
