# Verification of the adaptive AI inference runtime

TLA+ modules of the runtime, from the HTTP connection to the tokens llama.cpp
decodes, TLC runs on small instances, and TLAPS proofs of every safety invariant and
action property the runs find to hold. `PROJECT.json` maps every definition to the
lines it models and lists runs, mutants, findings, hazards and theorems.

## The system

A client's `POST /v1/infer` goes through these parts:

| part | state | operations | who runs them |
|---|---|---|---|
| `HttpSession`, `HttpServer` | one exchange per connection, write queue, disconnect watch, deadline timer | accept, read, `start_infer`, `on_state_update`, `on_peer_wait`, writes, `close`, `stop` | the io_context's thread |
| request handler | - | `parse_infer_request`, `serialize_infer_response`, `serialize_terminal_event` | the io_context's thread |
| `InferenceRequest` | `state_`, `result_`, observers | `transition_to`, `try_complete/fail/reject/cancel/timeout`, `add_observer`, `wait_for_terminal` | every thread |
| `AdmissionController`, `Runtime` | `accepting_`, routing thread, workers | `submit`, `admit`, `routing_loop`, `route_request`, `start`, `stop` | clients, routing thread, the stopping threads |
| `FifoScheduler` / `WorkloadAwareScheduler` | queued requests, bypass counts | `enqueue`, `next`, `close` | clients, routing thread |
| routers | round-robin cursor | `select` over worker snapshots | routing thread |
| `BoundedQueue` | deque, `closed_`, two condition variables | `try_push`, `wait_push`, `wait_push_until`, `wait_pop`, `wait_pop_until`, `close` | two sides of every lane |
| `Worker`, `BatchBuilder` | lane, deferred request, `queued_count_`, batch, wait deadline | `try_enqueue`, `enqueue`, `enqueue_until`, `run_loop`, `form`, `execute_batch`, `close` | routing thread, worker thread |
| `ModelManager`, `ResourceManager`, eviction policies | model entries, memory in use | `ensure_resident` | worker thread |
| backends | models in memory, the sequences of a llama.cpp context | `load`, `unload`, `infer_batch` | worker thread |
| `runtime-server` | options | `parse_args`, `make_llama_worker` | `main` |

What makes it hard: requests die (cancellation, deadline) on one thread while
another is deciding about them; observers are called outside the request's lock;
counters are kept beside the structures they count; the shutdown of five parts
must happen in one order; a session lives only as long as some pending handler
owns it; the requests of one batch share a context, a batch array and its
indices, and leave it at different times.

## Modules

| module | models | level of atomicity |
|---|---|---|
| `Selection` | a pass over a sequence that keeps some of its elements, as the filters do | - |
| `RequestLifecycle` | request states and legal transitions | - |
| `InferenceRequest` | one request object, concurrent calls, observers, waits | a critical section; each observer call is a step of its own |
| `WorkloadAwareScheduler` | `enqueue`, `next`, `close` and the routing thread's loop | a pass of `next` over the entries |
| `Fifo` | what a queue promises: a bounded channel that can be closed | - |
| `BoundedQueue` | the monitor that implements it | from taking the mutex to releasing it |
| `Worker` | callers, lane, batch forming, execution, failures | each look at the batch that can find something new |
| `WorkerConfig` | the configuration a worker's `BatchBuilder` and llama.cpp backend share | - |
| `BatchBuilder` | `form()` and the loop that feeds it, with the clock | one `pop`, one tick |
| `SyntheticBackend` | `load`, `unload`, `infer_batch` as functions | - |
| `ModelManager` | residency, eviction, memory accounting, over a backend | the mutex; a backend call lies between two steps |
| `Router` | the three policies | one `select` |
| `Runtime` | clients, admission, both schedulers, routing thread, workers, `start`, concurrent `stop`s | each call of another part |
| `RequestHandler` | the parser, with the conversion of JSON integers, and the answers | - |
| `HttpSession` | one connection and the server around it, with `RequestHandler` | a handler; `start_infer` is cut where `submit` returns |
| `TextGeneration` | what a language model's `infer_batch` promises | - |
| `LlamaCppBackend` | the backend that implements it | one pass between two calls of `llama_decode`, or one token of the prefix stage |
| `LlamaServer` | the options of `main`, `BatchBuilder` and `LlamaCppBackend` composed | those of its parts |
| `...Proofs` | the theorems, see below | |

Variables and actions keep the names of the members and functions they stand
for. `MC*` modules give the constants values for TLC. Definitions commented
"Variant" are plausible faults; each is substituted for the definition behind it
to see that a property notices.

The abstractions that recur:

* *Time.* `BatchBuilder`, and with it `LlamaServer`, has a clock, which moves only
  while the worker thread waits. Elsewhere there is none: a deadline passes, and a
  timed wait gives up, at any moment.
* *A pass is one step.* A loop that looks at several requests while they may die
  is one step, since the look at one request commutes with the death of another.
  Two looks at the *same* request are two steps.
* *Composition.* `Runtime` uses a worker as `Worker` shows it to be (a bounded
  FIFO lane whose requests end, and a thread that returns after `close`), and
  `Worker` uses its lane as `Fifo`, which `BoundedQueue` implements. For the
  workload-aware scheduler `Runtime` keeps what matters to its threads: `next()`
  takes any live request, prunes dead ones, and may find nothing although the
  scheduler is open. `HttpSession` takes from these that the runtime ends every
  request. `LlamaServer` and `ModelManager` include their parts as they are.
* *llama.cpp is external.* A context keeps the tokens of every sequence; the logits
  of a batch entry depend on the tokens of its sequence up to that entry; any call
  may fail. `Tokens` is any set and
  `Greedy` any function of the tokens so far.

## Runs

| run | shows | instance |
|---|---|---|
| `scheduler` | `SizeCountsEntries`, `NoLiveRequestLost`, `BypassBound`, `FifoWithinModel`, `LiveIsDispatched` | 5 requests of 2 models, one of which may die, capacity 3, `max_bypass` 1: grouping, promotion and a death in every pass occur |
| `scheduler_drain` | `CloseDrain` fails | 3 requests, all of which may die, capacity 2 |
| `request_queue_router` | `OneWinner`, `EndHeardOnce`, `NoObserverForgotten`, `EndIsAnnounced` | request: 3 calls of any kind, an observer, a timed wait |
| | `PoppersWoken`, `PushersWoken`, `ImplementsFifo`, `CloseReleasesAll` | queue: 3 threads, 4 values, capacity 2, all five operations |
| | `NobodyPassedOver`, `SelectsBest` | router: the three policies, 3 workers; all combinations of snapshots, counters that wrap; any sequence of round-robin calls |
| `queue_wakeup` | `BlocksWhileFull` fails | 3 threads, 3 values, capacity 1 |
| `worker` | `LiveHeldOnce`, `InferredInOrder`, `CountExact`, `PushedEnds`, `CloseEndsThread` | 3 requests of 2 models, two of which may die, lane and batches of 2: a deferred request, a full batch and a mixed lane occur |
| `worker_siblings` | `SiblingsUnharmed` fails | a batch of 2 |
| `worker_depth` | `DepthReturnsToZero` fails | 2 requests, one of which may die, one caller of `try_enqueue` |
| `runtime` | `HeldOnce`, `StopDrains`, `NoneTurnedAwayByStop`, `AdmittedEnds`, `StopEnds` | 2 clients, 2 requests, one of which is submitted by both, mortal, and fits only the first of 2 workers; queue and lanes of 1; both schedulers; `start()` and two `stop()` calls at any moment |
| `session_and_models` | `OneAnswer`, `NoWorkLeftBehind`, `SilentClientKept`, `StatusTellsEnd`, `LimitsKept`, `WatchedIsAnswered` | session: one connection, every client; integers of 4 bits (`INT64_MAX` 7), bodies with one thing wrong and with numbers at and beside every limit and both ends of the integer types |
| | `MemoryAccounted`, `BudgetRespected`, `RoomCanBeMade`, `InfersOnResident` | models: both policies, 8 models: of different sizes, one too large, one unregistered, one unknown to the backend, one that fails to load, one that fails to infer; `MaxCalls` 5; the backend may also refuse or throw: several evictions for one load |
| `http_dropped` | `NeverDroppedSilently` fails | the same session |
| `llama` | `AlwaysDecodable`, `SamplesItsOwn`, `HeldWithinDeadlines`, `HoldBounded`, `ImplementsGeneration` | command lines that are accepted, refused, and at the limits of `uint32_t` (16) and of the sequences of a context; 4 requests with prompts of 0 to 3 tokens, one of another model, one with a deadline |
| `llama_hold` | `WaitsUpToMax` fails | the same |

`request_queue_router` and `session_and_models` each check parts that share no
state: a behaviour uses one of them, chosen at the start (`subject`), while the
others stay as they began and their fairness asks nothing. So each part is explored
as if alone. In the first, calls that differ only in who makes them, and values that
differ only in their names, are counted once (`DealtInOrder`, `GivenInOrder`).

What the properties of the two largest compositions mean:

* `llama` follows an option from `argv` to the decoded batch. `AlwaysDecodable`:
  whatever options `main` accepts (`--max-batch-size` and `--ctx-size` narrowed to
  32 bits), no batch handed to `llama_decode` overruns the array it was allocated
  in, names a sequence the context lacks, skips a position or exceeds the share
  of the context. `SamplesItsOwn`: the logits index a sequence samples from is its
  own, although the indices shift whenever a sibling ends. `ImplementsGeneration`
  is the refinement of `TextGeneration`: result *i* answers request *i* with the
  text greedy decoding gives that request alone, and every call returns.
* `session_and_models`: `StatusTellsEnd` ties status, error code and output to how the request
  really ended when completion, cancellation, deadline and rejection race.
  `LimitsKept` compares what the client wrote, before `get<std::int64_t>()`, with
  what is accepted.

*Deadlock* is not checked: the system may rest everywhere. Nobody has to submit,
and everything ends after close. That nobody waits for ever is what the liveness
properties say.

*Bounds.* Requests, threads, capacities and calls are as small as lets the case
a property is about happen: two models to group, one more request than fits, one
more thread than is woken, one batch with a dead and a live member, two sequences
that end at different times. `MaxCalls` and `stop_calls` bound repeated calls,
`LastTick` how long an idle worker waits, and `Mortal` the requests that may be
cancelled or time out; `SizeModulus` stands for 2^64, `U32` for 2^32 and
`INT64_MAX` for 2^63 - 1, so wrapping happens. No run uses TLC's symmetry
sets: most check liveness along with safety. Where a bound is
tight (one mortal request in `scheduler`, one observer of a request) a theorem
about the same property has none.

*Fairness.* Weak fairness of threads the operating system schedules: the routing
thread, a worker's thread, a woken thread that wants a mutex, a notified wait, a
client or `stop` inside a call, the io_context. `Runtime` asks for less: while some thread
can go on, one does. A backend call is taken to return or throw, in `LlamaServer`
as weak fairness of `Infer`. `HttpSession` also takes the runtime to end every
request (shown by `PushedEnds` and `AdmittedEnds`) and the client to read. No
client has to submit, no deadline has to pass, nobody has to close or stop.

*Refinements.* `BoundedQueue` implements `Fifo` (the queue without its waiting
threads), and `LlamaServer` implements `TextGeneration` (the call without its
decoding). The first is also proved.

## What the failing runs show

* `scheduler_drain`: `next()` answers "nothing" whenever pruning empties the
  queue, also while it is open; the routing thread takes it for the end. A
  request cancelled while alone in the queue ends routing for good.
* `http_dropped`: a request that ends while `start_infer` is returning can lose
  its session before the observer is called; the client gets end of file.
* `worker_siblings`: a member cancelled just before `transition_to(Running)`
  makes the worker fail the whole batch.
* `worker_depth`: a dead request can be popped and discarded before its
  `try_enqueue` counts it; `discard_queued_request` leaves a zero alone, and the
  count that comes later stays. Requests that die between the two filters of a batch
  are not subtracted either. An idle worker then reports a queue for ever, and the
  routers, which compare this depth, avoid it.
* `queue_wakeup`: a `wait_push_until` that times out although it was notified does
  not pass the notification on, and a `wait_push` stays blocked beside a free place
  until the next pop. Without timed pushes the property holds; the server itself uses
  `try_push`.
* `llama_hold`: `docs/architecture.md:49` speaks of waiting up to `max_batch_wait`,
  but `compute_deadline()` starts anew whenever a request joins the batch.

Some behaviours are excepted from a property rather than reported.

* `PushersWoken` speaks of what happens until a notification is swallowed
  (`queue_wakeup`).
* `CountExact` speaks of what happens until a request dies (`worker_depth`): up to
  then the counter is off only by the increments still to come.
* `MemoryAccounted` and `RoomCanBeMade`: an exception of the backend leaves the
  entry and the memory as they are (`thrown`), so memory may stay reserved for
  nothing. It is never given back while a model is held: what is in use covers the
  models held, `release` never refuses, the budget holds, and so does
  `InfersOnResident`.
* `NoneTurnedAwayByStop`: when two `stop()` calls overlap, the second finds the
  routing thread taken, does not wait for it and closes the workers under it.
* `AdmittedEnds` and `StopDrains` except the routing thread that gave up
  (`scheduler_drain`).
* `NoWorkLeftBehind`: a stream stops watching its connection with the first event.
  If the client leaves then, the session is destroyed and the request runs on to
  its end or deadline.
* `StatusTellsEnd` speaks of the status of JSON answers only: a stream has sent its
  200 before the request is decided, so a rejection for overload is told in its
  terminal event. Only `QueueFull` becomes 503; `QueueClosed` becomes 500.
* `HoldBounded` is the bound the code does keep: one `max_batch_wait` *per request*
  of the batch (`llama_hold`).
* `SelectsBest` ranks workers by the load the code computes, however far the
  counters are off; no policy looks at the room in a lane.
* `HeldWithinDeadlines` includes the deadline itself: on an idle worker a request
  whose timeout is shorter than `max_batch_wait` is held until it expires, and is
  then dropped.

An observer can hear of `Running` after the end, since observers are called outside
the lock. `OneAnswer` shows that the HTTP stream stays well formed nevertheless.

## Proofs

Each safety property rests on an inductive invariant, shown to hold initially and
to be preserved action by action; the theorems follow from it. The assumptions are
the named `ASSUME`s of the modules, which constructors enforce or types imply.
All theorems are for any number of requests, threads, workers, models and calls,
any capacity and any width of the counters.

| module | theorems | strengthening |
|---|---|---|
| `WorkloadAwareSchedulerProofs` | `TypeCorrect`, `SizeCorrect`, `OlderBypassedMoreHolds`, `BypassBounded`, `FifoWithinModelHolds`, `NoLiveRequestLostHolds` | below |
| `RequestRouterProofs` | `OneWinnerHolds`, `EndHeardOnceHolds`, `NoObserverForgottenHolds` | `CallInv` (only the winner holds the snapshot of the end), `ListInv` (registered observers, each once in a list, none kept by an ended request), `HeardInv` (who heard of the end is not on the winner's list any more) |
| | `SelectsBestHolds`, `NobodyPassedOverHolds` | below |
| `ModelQueueProofs` | `PoppersWokenHolds`, `PushersWokenHolds`, `QueueImplementsFifo` | `WaitInv`: a waiting thread is in one place, inside an operation that waits there, and nobody waits once closed |
| | `InfersOnResidentHolds` | a resident entry is usable by the backend, the victim is until it has been unloaded, and so is the model just made resident |
| | `MemoryAccountedHolds`, `BudgetRespectedHolds`, `RoomCanBeMadeHolds` | below |
| `RuntimeProofs` | `NoneTurnedAwayHolds` | `StartInv` (nothing is routed before `start()` has returned, and a started worker is open), `RoutingInv` (while the routing thread runs, a single `stop()` has not passed its join and every worker is open) |
| | `HeldOnceHolds`, `StopDrainsHolds` | below |
| `WorkerProofs` | `LiveHeldOnceHolds`, `InferredInOrderHolds`, `CountExactHolds` | below |
| `LlamaServerProofs` | `HeldWithinDeadlinesHolds`, `HoldBoundedHolds` | `HoldInv`: the deadline of the wait is no later than that of any member, and no further from the start than the allowance for the members so far |
| `LlamaCppBackendProofs`, `LlamaServerProofs` | `AlwaysDecodableHolds`, `SamplesItsOwnHolds` | below |
| `HttpSessionProofs` | `LimitsKeptHolds` | `ParsedInv`: the request is what the parser makes of the body; `ParseWithin` and `RangeMeansRange` say that a number that wraps never lands within the limits |
| | `OneAnswerHolds`, `StatusTellsEndHolds`, `NoWorkLeftBehindHolds`, `SilentClientKeptHolds` | below |

`WorkloadAwareSchedulerProofs`: `IInv` has five parts: `TypeOK`; `EntriesInv` (the
entries are finitely many, counted by `size_`, and have distinct sequence
numbers below `next_sequence_`); `OlderBypassedMore`; `LocalsInv` (what the
locals of `select_locked` mean in each pass: in particular the entry about to be
taken is queued, and if any entry is starved it is no younger than the oldest
starved one); and `BypassMeasure`.

`BypassBound` alone is not inductive: nothing in it limits how many starved
entries there are. `BypassMeasure` adds to an entry's bypass count the number of
older entries that will go first. Once an entry is starved, each dispatch takes
one of these older entries and adds one bypass, so the sum never grows; it
starts at most at `max_bypass + capacity - 2`. That an older entry always goes
first is what `OlderBypassedMore` is needed for. Custody (`NoLiveRequestLost`)
has its own small strengthening, `CustodyInv`.

`OldestIsFirst` (the `CHOOSE` in `Oldest` has a witness) rests on `LeastNatural`,
proved from the well-foundedness of `<` on the naturals. `EraseCounts` and
`OlderThanShrinks` carry the cardinality arguments.

`HttpSessionProofs`: an update reaches the client through the request, the list of
observers, the posted handlers and the write queue, and the request may move on at
each stage. The invariant calls a snapshot *past* if it is of a live state or equal
to what the request now is, and a chunk *good* if what it tells of an end is the
end the request has. `ActiveInv` says that everything on its way is past or good,
that a session closes only on an ended request, and that one whose answer has not
begun still watches its client. Since an ended request never changes, past and
good stay true when it moves (`MovesOn`). `StatusTellsEnd` follows for whatever
reached the wire. `OneAnswer` needs the order in addition: `OrderInv` says that
what was sent followed by all that is to be written has the shape of one answer,
and that the flags `response_started` and `json_response_started` say which.

`WorkerProofs`: `WorkerInv` says where requests are by one
function `pos`, their place in the order of the pushes: the lane has the last ones,
the request deferred or in hand is the one before them, the batch is older, what
was inferred older still (`LaneInv`, `BatchInv`, `InferredInv`). Order and "none
twice" are then the same fact. `Covered` says that whatever left the lane is held
or dead, `OfferInv` that a request enters it once, `WaitInv` that a request nobody
executes ends only by dying, which the filters need. `CountInv` is about
remainders, since `queued_count_` may be subtracted from before it was added to;
`CallersCount`, `FormCounts`, `BeginCounts` and `ExecuteCounts` add up what each
step moves.

`RuntimeProofs`: `HeldInv` gives every request one stage (`submit`, `queue`,
`routing`, `lane`, `worker` or none), says that what holds requests at each stage
holds exactly those, once, and that state and stage fit. A step moves one request
on by one stage, and the lemmas named `...Keeps`, `...Leaves` and `...Arrives` say
what becomes of each stage. `StopInv` adds the shutdown: a thread that runs has its
handle with the runtime or with a `stop()` that waits for it (`Awaited`), and a
thread that exits leaves nothing behind (`LeftEmpty`). When every `stop()` has
returned no thread runs, and what is still queued can only be inside `submit()`.

`ModelQueueProofs`: the memory of a set of models is the number of its bytes, so
that sums become cardinalities of disjoint unions. `Accounted` names the entry
being loaded or evicted, without which a failed load could give back another's
memory. `Covered` and `Kept` hold even after an exception: the first gives
`BudgetRespected`, the second that what is in use covers the models held, since only
a model that is held, the victim or the one being loaded, is ever given back.
`RoomCanBeMade` follows since with no candidate left nothing but the model asked
for can be in use.

`RequestRouterProofs`: the loops of the routers are a recursive function over the
workers; `Scanned` is shown for every prefix of the loop by its least
counterexample, `LeastNatural`. `TurnInv` adds to the times a worker was passed
over how far the cursor is from it: the sum stays below the number of workers.

`LlamaCppBackendProofs`: neither `AlwaysDecodable` nor `SamplesItsOwn` is inductive,
since a batch is filled several steps before it is decoded, and sampled from after
that. `DecodingInv` follows the tokens of each sequence from the prompt through the batch
into the cache. In the prefix stage the batch has exactly the positions between the
cache and `n_past`, in order (`PrefixInv`). At the bootstrap and later each active
sequence has one entry, at its `logits_batch_index`, with its last token, and the
cache has all the others (`DecodeInv`). After a decode the cache and the logits of a
sequence are its prompt and output (`SampleInv`). `LiveInv` has what bounds them:
`needed` was checked against the context of a sequence, and an active sequence has
generated less than it may. `LoadedInv` says that the context is that size times the
number of sequences, which `checked_mul_u32` not wrapping gives (`Product`), so that
the share of a sequence is the size checked (`Share`). One lemma for each action of
the backend keeps it.

`LlamaServerProofs` adds `ServedInv`: `main` accepts only options under which
`Configured` holds. `ConstructConfigures` follows the two narrowed options to it:
`validate` turns down every `--max-batch-size` that the narrowing of `n_batch` changed,
and a `--ctx-size` that became zero is refused. `LiveBatchType` says that what the
filter leaves of a batch is a sequence of requests.

*Only model-checked.* All liveness, and with it `ImplementsGeneration`, whose
abstract specification has fairness (fairness and `ENABLED` are beyond the
prover). Its safety half, that the text is that of greedy decoding, is a statement
about the recursively defined text of a request, which would need induction over
data; that each token is sampled from the request's own tokens is
`SamplesItsOwnHolds`.

## Not modelled

* `ModelRegistry`: filled before the runtime starts and read only.
* Value types (`status.hpp`, the snapshots, the joining thread handle): no behaviour
  of their own beyond what the modules use.
* `llama_backend_runtime`: a process-wide initialization.
* `HttpServer::stop()` from a thread other than the io_context's, which the server
  does not do; printing, metrics, the texts of answers and the simulated costs of
  the synthetic backend.
* The cast of `n_batch` to `int32_t` in `infer_batch`, which would matter only
  for more sequences than llama.cpp allows, and the checks of `n_ubatch` and
  `n_threads` in `validate`, which `parse_args` and `make_llama_worker` make true.
* Lengths of time other than the waiting of `BatchBuilder`.
