------------------------------ MODULE Runtime ------------------------------
(***************************************************************************)
(* The runtime (src/runtime.cpp) composed of its parts: clients that call  *)
(* submit(), the AdmissionController, the scheduler, the routing thread,   *)
(* the workers, a thread that calls start() and threads that call stop(),  *)
(* together or one after the other.                                        *)
(*                                                                         *)
(* The scheduler is the FIFO one or the workload-aware one, whose choice   *)
(* among live requests is left open: module WorkloadAwareScheduler has it  *)
(* in detail.  A worker is reduced to what module Worker shows of it: a    *)
(* bounded FIFO lane whose requests end one way or another, in order, and  *)
(* a thread that returns when the lane is closed and drained.  The router  *)
(* is any policy that returns a worker which its snapshot shows as         *)
(* feasible.                                                               *)
(***************************************************************************)
EXTENDS RequestLifecycle, Selection

CONSTANTS
  Requests,
  Mortal,           \* requests that may be cancelled or expire
  Clients,          \* threads that call submit()
  Calls,            \* the requests each client calls, in order
  stop_calls,       \* bound: calls of stop()
  Schedulers,       \* "fifo", "workload": the schedulers to consider
  worker_count,
  Fits,             \* the workers whose budget holds each request's model
  capacity,         \* of the scheduler's queue
  queue_capacity,   \* of a worker's lane
  None

\* workers_ is a vector: start() and stop() go through it in order.
Workers == 1..worker_count

\* The threads that call stop(), numbered in the order in which they call.
Stoppers == 1..stop_calls

ASSUME ConfigAssumption ==
  /\ Calls \in [Clients -> Seq(Requests)]
  /\ stop_calls \in Nat
  /\ worker_count \in Nat \ {0}
  /\ Schedulers \subseteq {"fifo", "workload"}
  /\ Mortal \subseteq Requests
  /\ Fits \in [Requests -> SUBSET Workers]
  /\ capacity \in Nat \ {0} /\ queue_capacity \in Nat \ {0}
  /\ None \notin Requests \cup Workers

VARIABLES
  state,        \* InferenceRequest::state_ of each request
  cause,        \* the error a rejected request carries
  accepting,    \* Runtime::accepting_
  client,       \* the submit() each client is in
  calls,        \* the requests each client has yet to submit
  scheduler,    \* which of the schedulers this runtime has
  queue,        \* the scheduler's requests, in the order of arrival
  closed,       \* whether the scheduler is closed
  routing,      \* where the routing thread is
  request,      \* the request it is routing
  target,       \* the worker its router selected
  open,         \* Worker::accepting_ with the lane not closed
  lane,         \* Worker::lane_
  current,      \* the request a worker is executing
  thread,       \* whether a worker's thread is running or has exited
  start,        \* where start() is
  stop,         \* where each stop() is and at which worker
  held          \* the thread handles that are still members: routing_thread_
                \* (as 0) and the workers' thread_

requestVars == <<state, cause>>
submitVars == <<accepting, client, calls>>
schedulerVars == <<scheduler, queue, closed>>
routingVars == <<routing, request, target>>
workerVars == <<open, lane, current, thread>>
controlVars == <<start, stop, held>>
vars == <<requestVars, submitVars, schedulerVars, routingVars, workerVars, controlVars>>

Idle == [at |-> "idle", request |-> None]

Init ==
  /\ state = [r \in Requests |-> "Received"]
  /\ cause = [r \in Requests |-> "none"]
  /\ accepting = FALSE
  /\ client = [c \in Clients |-> Idle]
  /\ calls = Calls
  /\ scheduler \in Schedulers
  /\ queue = <<>>
  /\ closed = FALSE
  /\ routing = "not started"
  /\ request = None
  /\ target = None
  /\ open = [w \in Workers |-> FALSE]
  /\ lane = [w \in Workers |-> <<>>]
  /\ current = [w \in Workers |-> None]
  /\ thread = [w \in Workers |-> "not started"]
  /\ start = "not called"
  /\ stop = [s \in Stoppers |-> [at |-> "not called", worker |-> 0]]
  /\ held = {}

dead(r) == is_terminal_state(state[r])

\* try_reject(): only a request that has not ended or started is rejected.
try_reject(r, why) ==
  IF is_valid_transition(state[r], "Rejected")
  THEN /\ state' = [state EXCEPT ![r] = "Rejected"]
       /\ cause' = [cause EXCEPT ![r] = why]
  ELSE UNCHANGED requestVars

\* A cancellation, or the moment from which every look finds the deadline
\* passed.
Die(r) ==
  /\ r \in Mortal
  /\ is_valid_transition(state[r], "Cancelled")
  /\ state' = [state EXCEPT ![r] = "Cancelled"]
  /\ UNCHANGED <<cause, submitVars, schedulerVars, routingVars, workerVars, controlVars>>

-----------------------------------------------------------------------------
(* submit() and AdmissionController::admit() *)

\* Several clients may submit the same request.
SubmitBegin(c) ==
  LET r == Head(calls[c])
      Continue(at) == client' = [client EXCEPT ![c] = [at |-> at, request |-> r]]
  IN  /\ client[c] = Idle
      /\ calls[c] # <<>>
      /\ calls' = [calls EXCEPT ![c] = Tail(@)]
      /\ \/ dead(r) /\ UNCHANGED client
         \/ ~dead(r) /\ accepting /\ Continue("admit")
         \/ ~dead(r) /\ ~accepting /\ state[r] = "Received" /\ Continue("refused")
         \/ ~dead(r) /\ ~accepting /\ state[r] # "Received" /\ UNCHANGED client
      /\ UNCHANGED <<requestVars, accepting, schedulerVars, routingVars, workerVars, controlVars>>

SubmitEnd(c) == client' = [client EXCEPT ![c] = Idle]

Refuse(c) ==
  /\ client[c].at = "refused"
  /\ try_reject(client[c].request, "RuntimeStopped")
  /\ SubmitEnd(c)
  /\ UNCHANGED <<accepting, calls, schedulerVars, routingVars, workerVars, controlVars>>

\* Variant: a queued request is admitted again.
NotDead(r) == ~dead(r) /\ state[r] # "Running"

Admissible(r) == is_valid_transition(state[r], "Queued")

\* Of several submissions of a request one gets past transition_to(Queued).
Admit(c) ==
  LET r == client[c].request
  IN  /\ client[c].at = "admit"
      /\ IF Admissible(r)
         THEN /\ state' = [state EXCEPT ![r] = "Queued"]
              /\ client' = [client EXCEPT ![c].at = "enqueue"]
         ELSE /\ SubmitEnd(c)
              /\ UNCHANGED state
      /\ UNCHANGED <<cause, accepting, calls, schedulerVars, routingVars, workerVars, controlVars>>

Full == Len(queue) >= capacity

Enqueue(c) ==
  LET r == client[c].request
  IN  /\ client[c].at = "enqueue"
      /\ IF closed \/ Full
         THEN /\ try_reject(r, IF closed THEN "RuntimeStopped" ELSE "QueueFull")
              /\ UNCHANGED queue
         ELSE /\ queue' = Append(queue, r)
              /\ UNCHANGED requestVars
      /\ SubmitEnd(c)
      /\ UNCHANGED <<accepting, calls, scheduler, closed, routingVars, workerVars, controlVars>>

-----------------------------------------------------------------------------
(* routing_loop() *)

Take(i) == routing' = "route" /\ request' = queue[i]

QueueDrained == closed /\ queue = <<>>

\* FifoScheduler::next() takes the requests in order, drops dead ones and ends
\* when closed and empty.
NextFifo ==
  /\ scheduler = "fifo"
  /\ \/ /\ queue # <<>>
        /\ queue' = Tail(queue)
        /\ IF dead(Head(queue)) THEN UNCHANGED <<routing, request>> ELSE Take(1)
     \/ /\ QueueDrained
        /\ routing' = "exited"
        /\ UNCHANGED <<queue, request>>

\* WorkloadAwareScheduler::next() waits for an entry or the closing, drops all
\* dead requests, and ends the thread when that leaves nothing.
NextWorkload ==
  LET alive == {i \in DOMAIN queue : ~dead(queue[i])}
  IN  /\ scheduler = "workload"
      /\ queue # <<>> \/ closed
      /\ \/ \E i \in alive : \E pass \in Passes(alive \ {i}, Len(queue)) :
              /\ queue' = Along(pass, queue)
              /\ Take(i)
         \/ /\ alive = {}
            /\ queue' = <<>>
            /\ routing' = IF closed THEN "exited" ELSE "gave up"
            /\ UNCHANGED request

TakeNext ==
  /\ routing = "next"
  /\ NextFifo \/ NextWorkload
  /\ UNCHANGED <<requestVars, submitVars, scheduler, closed, target, workerVars, controlVars>>

\* is_m2_feasible()
Feasible(r) == {w \in Workers : w \in Fits[r] /\ open[w]}

Routed == routing' = "next" /\ request' = None /\ target' = None

\* Variant: the routing thread tries again until some worker can take it.
RetryInfeasible ==
  /\ ~dead(request) /\ Feasible(request) = {}
  /\ UNCHANGED <<requestVars, routingVars>>

RejectInfeasible ==
  /\ ~dead(request) /\ Feasible(request) = {}
  /\ try_reject(request, "NoFeasibleWorker")
  /\ Routed

\* route_request() up to the selection; the snapshots may be out of date
\* when the request is enqueued.
Route ==
  /\ routing = "route"
  /\ \/ /\ dead(request)
        /\ Routed
        /\ UNCHANGED requestVars
     \/ RejectInfeasible
     \/ /\ ~dead(request)
        /\ target' \in Feasible(request)
        /\ routing' = "enqueue"
        /\ UNCHANGED <<requestVars, request>>
  /\ UNCHANGED <<submitVars, schedulerVars, workerVars, controlVars>>

\* Worker::try_enqueue() on the selected worker.
EnqueueOnWorker ==
  LET refuse(why) == try_reject(request, why) /\ UNCHANGED lane
  IN  /\ routing = "enqueue"
      /\ \/ ~open[target] /\ refuse("QueueClosed")
         \/ /\ open[target] /\ dead(request)
            /\ UNCHANGED <<requestVars, lane>>
         \/ /\ open[target] /\ ~dead(request) /\ Len(lane[target]) >= queue_capacity
            /\ refuse("QueueFull")
         \/ /\ open[target] /\ ~dead(request) /\ Len(lane[target]) < queue_capacity
            /\ lane' = [lane EXCEPT ![target] = Append(@, request)]
            /\ UNCHANGED requestVars
      /\ Routed
      /\ UNCHANGED <<submitVars, schedulerVars, open, current, thread,
                     controlVars>>

-----------------------------------------------------------------------------
(* The workers, as module Worker details them *)

WorkerTake(w) ==
  /\ thread[w] = "running"
  /\ current[w] = None
  /\ lane[w] # <<>>
  /\ lane' = [lane EXCEPT ![w] = Tail(@)]
  /\ IF is_valid_transition(state[Head(lane[w])], "Running")
     THEN /\ state' = [state EXCEPT ![Head(lane[w])] = "Running"]
          /\ current' = [current EXCEPT ![w] = Head(lane[w])]
     ELSE UNCHANGED <<state, current>>
  /\ UNCHANGED <<cause, submitVars, schedulerVars, routingVars, open, thread,
                 controlVars>>

\* However its batch goes, the request ends; "Completed" stands for either end.
WorkerEnds(w) ==
  /\ current[w] # None
  /\ state' = IF is_valid_transition(state[current[w]], "Completed")
              THEN [state EXCEPT ![current[w]] = "Completed"] ELSE state
  /\ current' = [current EXCEPT ![w] = None]
  /\ UNCHANGED <<cause, submitVars, schedulerVars, routingVars, open, lane, thread, controlVars>>

Drained(w) == ~open[w] /\ current[w] = None /\ lane[w] = <<>>

WorkerExits(w) ==
  /\ thread[w] = "running"
  /\ Drained(w)
  /\ thread' = [thread EXCEPT ![w] = "exited"]
  /\ UNCHANGED <<requestVars, submitVars, schedulerVars, routingVars, open, lane, current, controlVars>>

-----------------------------------------------------------------------------
(* start() and stop() *)

Called == {s \in Stoppers : stop[s].at # "not called"}

\* start() holds mutex_ from the first worker to the routing thread; a second
\* call changes nothing.  As in main() and in the tests, it is called before
\* stop() is, if at all; its steps interleave with those of stop().
Locked == start = "in progress"

StartWorker(w) ==
  /\ start # "returned"
  /\ start = "not called" => Called = {}
  /\ thread[w] = "not started"
  /\ \A v \in 1..(w - 1) : thread[v] # "not started"
  /\ open' = [open EXCEPT ![w] = TRUE]
  /\ thread' = [thread EXCEPT ![w] = "running"]
  /\ held' = held \cup {w}
  /\ start' = "in progress"
  /\ UNCHANGED <<requestVars, submitVars, schedulerVars, routingVars, lane, current, stop>>

StartRouting ==
  /\ Locked
  /\ \A w \in Workers : thread[w] # "not started"
  /\ accepting' = TRUE
  /\ routing' = "next"
  /\ held' = held \cup {0}
  /\ start' = "returned"
  /\ UNCHANGED <<requestVars, client, calls, schedulerVars, request, target, workerVars,
                 stop>>

GoTo(s, at, w) == stop' = [stop EXCEPT ![s] = [at |-> at, worker |-> w]]

StopAccepting(s) ==
  /\ stop[s].at = "not called"
  /\ s > 1 => stop[s - 1].at # "not called"
  /\ accepting' = FALSE
  /\ GoTo(s, "close", 0)
  /\ UNCHANGED <<requestVars, client, calls, schedulerVars, routingVars, workerVars, start,
                 held>>

\* Variant: the scheduler is left open.
SchedulerNotClosed(s) ==
  /\ stop[s].at = "close"
  /\ GoTo(s, "take", 0)
  /\ UNCHANGED <<requestVars, submitVars, schedulerVars, routingVars, workerVars, start, held>>

CloseScheduler(s) ==
  /\ stop[s].at = "close"
  /\ closed' = TRUE
  /\ GoTo(s, "take", 0)
  /\ UNCHANGED <<requestVars, submitVars, scheduler, queue, routingVars, workerVars, start,
                 held>>

\* Of several calls one moves routing_thread_ out; the others find none.
TakeRouting(s) ==
  /\ stop[s].at = "take"
  /\ ~Locked
  /\ IF 0 \in held THEN GoTo(s, "join", 0) ELSE GoTo(s, "close worker", 1)
  /\ held' = held \ {0}
  /\ UNCHANGED <<requestVars, submitVars, schedulerVars, routingVars, workerVars, start>>

\* Variant: the workers are closed without waiting for the routing thread.
RoutingNotJoined == TRUE

RoutingJoined == routing \in {"exited", "gave up"}

JoinRouting(s) ==
  /\ stop[s].at = "join"
  /\ RoutingJoined
  /\ GoTo(s, "close worker", 1)
  /\ UNCHANGED <<requestVars, submitVars, schedulerVars, routingVars, workerVars, start, held>>

CloseWorker(s) ==
  LET w == stop[s].worker
  IN  /\ stop[s].at = "close worker"
      /\ open' = [open EXCEPT ![w] = FALSE]
      /\ IF w < worker_count THEN GoTo(s, "close worker", w + 1) ELSE GoTo(s, "take worker", 1)
      /\ UNCHANGED <<requestVars, submitVars, schedulerVars, routingVars, lane, current,
                     thread, start, held>>

JoinNext(s, w) ==
  IF w < worker_count THEN GoTo(s, "take worker", w + 1) ELSE GoTo(s, "returned", 0)

\* Worker::join(): one caller moves thread_ out and waits, the others go on.
TakeWorker(s) ==
  LET w == stop[s].worker
  IN  /\ stop[s].at = "take worker"
      /\ IF w \in held THEN GoTo(s, "join worker", w) ELSE JoinNext(s, w)
      /\ held' = held \ {w}
      /\ UNCHANGED <<requestVars, submitVars, schedulerVars, routingVars, workerVars, start>>

\* Variant: the workers' threads are not waited for.
NotWaited(w) == TRUE

Exited(w) == thread[w] = "exited"

JoinWorker(s) ==
  /\ stop[s].at = "join worker"
  /\ Exited(stop[s].worker)
  /\ JoinNext(s, stop[s].worker)
  /\ UNCHANGED <<requestVars, submitVars, schedulerVars, routingVars, workerVars, start, held>>

-----------------------------------------------------------------------------

Client(c) == SubmitBegin(c) \/ Refuse(c) \/ Admit(c) \/ Enqueue(c)

routing_loop == TakeNext \/ Route \/ EnqueueOnWorker

WorkerThread(w) == WorkerTake(w) \/ WorkerEnds(w) \/ WorkerExits(w)

Start == (\E w \in Workers : StartWorker(w)) \/ StartRouting

StopGoesOn(s) ==
  \/ CloseScheduler(s) \/ TakeRouting(s) \/ JoinRouting(s)
  \/ CloseWorker(s) \/ TakeWorker(s) \/ JoinWorker(s)

Next ==
  \/ \E r \in Requests : Die(r)
  \/ \E c \in Clients : Client(c)
  \/ routing_loop
  \/ \E w \in Workers : WorkerThread(w)
  \/ Start
  \/ \E s \in Stoppers : StopAccepting(s) \/ StopGoesOn(s)

Spec == Init /\ [][Next]_vars

\* While some thread can go on, one of them does: a client inside submit(), the
\* routing thread, a worker, a start() or stop() that was called.  Nobody has to
\* call one.  This is less than fairness to each thread, and enough, because no
\* thread goes on for ever without the others.
Fairness ==
  WF_vars(\/ \E c \in Clients : Refuse(c) \/ Admit(c) \/ Enqueue(c)
          \/ routing_loop
          \/ \E w \in Workers : WorkerThread(w)
          \/ Locked /\ Start
          \/ \E s \in Stoppers : StopGoesOn(s))

FairSpec == Spec /\ Fairness

-----------------------------------------------------------------------------
(* Properties *)

Returned == {s \in Stoppers : stop[s].at = "returned"}

\* The places that hold request r.
Places(r) ==
  {<<"submit", c>> : c \in {d \in Clients : client[d] = [at |-> "enqueue", request |-> r]}}
    \cup {<<"queue", i>> : i \in {j \in DOMAIN queue : queue[j] = r}}
    \cup (IF request = r THEN {<<"routing">>} ELSE {})
    \cup (UNION {{<<"lane", w, i>> : i \in {j \in DOMAIN lane[w] : lane[w][j] = r}} : w \in Workers})
    \cup {<<"worker", w>> : w \in {v \in Workers : current[v] = r}}

\* However often a request is submitted and by however many clients, it is in
\* one place at most, and while it is queued or running it is in exactly one:
\* it is never lost and never executed twice (admit, route_request, run_loop).
HeldOnce ==
  \A r \in Requests :
    /\ \A p, q \in Places(r) : p = q
    /\ state[r] \in {"Queued", "Running"} => Places(r) # {}

\* When every stop() that was called has returned, every request that was
\* admitted has ended, but for those whose submit() has yet to be told that the
\* scheduler is closed.  One of several calls may return before that: it finds
\* the threads taken.  The workload-aware scheduler can end the routing thread
\* before stop() (CloseDrain of its module); then nothing drains the queue.
StopDrains ==
  Called # {} /\ Called = Returned /\ routing # "gave up" =>
    \A r \in Requests :
      state[r] \in {"Queued", "Running"} =>
        \E c \in Clients : client[c] = [at |-> "enqueue", request |-> r]

\* tests/runtime_integration_test.cpp, StopDrainsQueuedWork: stop() closes the
\* workers only after everything admitted has been routed, so one stop() never
\* makes a worker turn away an admitted request that some worker can take.  It
\* takes two calls, the second of which does not wait for the routing thread.
NoneTurnedAwayByStop ==
  \A r \in Requests :
    Fits[r] # {} /\ cause[r] \in {"QueueClosed", "NoFeasibleWorker"} =>
      \E s, t \in Called : s # t

\* Every request that was admitted ends, with or without stop(), while the
\* routing thread is there: a moment comes when none is pending.
AdmittedEnds ==
  LET pending == {r \in Requests : state[r] \in {"Queued", "Running"}}
  IN  pending # {} ~> pending = {} \/ routing = "gave up"

\* The calls of stop() return, whichever of them waits for which thread, also
\* beside a start().
StopEnds == Called # Returned ~> Called = Returned
=============================================================================
