---------------------------- MODULE BatchBuilder ----------------------------
(***************************************************************************)
(* How long a batch is held: BatchBuilder::form() with the clock, driven   *)
(* by the loop of Worker::run_loop() that feeds it from the lane.  (Worker *)
(* models the same loop without a clock and with cancellations.)           *)
(*                                                                         *)
(* The worker thread itself takes no time: the clock moves only while the  *)
(* thread waits on an empty lane, and a wait with a deadline ends when the *)
(* clock reaches it.  What is measured is the waiting the code asks for.   *)
(***************************************************************************)
EXTENDS WorkerConfig, Selection, FiniteSetsExt

CONSTANTS
  deadline,   \* when each request expires
  LastTick    \* bound: an idle worker waits no longer than this

ASSUME DeadlineAssumption == \A r \in Requests : deadline[r] # None => deadline[r] \in Nat

VARIABLES
  now,        \* steady_clock
  unsent,     \* requests still to come
  lane,       \* the worker's lane, oldest first
  closed,     \* whether it is closed
  at,         \* where the worker thread is
  formed,     \* formed.requests
  deferred,   \* deferred_
  allow_wait, \* whether form() may wait
  until,      \* the deadline form() passed to pop_until()
  first_at    \* history: when form() got its first request

formVars == <<at, formed, deferred, allow_wait, until, first_at>>
batchVars == <<now, unsent, lane, closed, formVars>>

BatchInit ==
  /\ now = 0
  /\ unsent = Requests
  /\ lane = <<>>
  /\ closed = FALSE
  /\ at = "boot"
  /\ formed = <<>>
  /\ deferred = None
  /\ allow_wait = TRUE
  /\ until = 0
  /\ first_at = 0

\* is_dead_request(): a request is dead from its deadline on.
is_dead_request(r) == deadline[r] # None /\ now >= deadline[r]

\* Another thread puts a request into the lane, or closes it.
Arrive(r) ==
  /\ at \in {"top", "wait"}
  /\ r \in unsent /\ ~closed
  /\ unsent' = unsent \ {r}
  /\ lane' = Append(lane, r)
  /\ UNCHANGED <<now, closed, formVars>>

Close ==
  /\ at \in {"top", "wait"}
  /\ ~closed
  /\ closed' = TRUE
  /\ UNCHANGED <<now, unsent, lane, formVars>>

\* The head of the loop: deferred_ first, then the lane.  A dead request is
\* discarded.
TakeFirst ==
  LET r == IF deferred # None THEN deferred ELSE Head(lane)
  IN  /\ at = "top"
      /\ deferred # None \/ lane # <<>>
      /\ lane' = IF deferred # None THEN lane ELSE Tail(lane)
      /\ deferred' = None
      /\ IF is_dead_request(r)
         THEN UNCHANGED <<at, formed, allow_wait, first_at>>
         ELSE /\ at' = "form"
              /\ formed' = <<r>>
              /\ allow_wait' = ~closed
              /\ first_at' = now
      /\ UNCHANGED <<now, unsent, closed, until>>

\* Variant: only the first request's deadline counts.
FirstDeadline == {deadline[formed[1]]} \ {None}

\* Deadlines of the requests in the batch; form() uses the earliest.
earliest_deadline ==
  {deadline[formed[i]] : i \in {j \in DOMAIN formed : deadline[formed[j]] # None}}

\* Variant: the later of the two limits.
LaterDeadline ==
  IF ~allow_wait THEN now
  ELSE Max({now + config.max_batch_wait} \cup earliest_deadline)

compute_deadline ==
  IF ~allow_wait THEN now
  ELSE Min({now + config.max_batch_wait} \cup earliest_deadline)

\* The loop of form(): a new deadline for every further request.
FormNext ==
  /\ at = "form"
  /\ IF Len(formed) < config.max_batch_size
     THEN at' = "wait" /\ until' = compute_deadline
     ELSE at' = "formed" /\ UNCHANGED until
  /\ UNCHANGED <<now, unsent, lane, closed, formed, deferred, allow_wait, first_at>>

\* pop_until() discards dead requests and keeps waiting for the same
\* deadline; form() takes a request of its model and defers another's.
PopUntil ==
  LET r == Head(lane)
  IN  /\ at = "wait"
      /\ lane # <<>>
      /\ lane' = Tail(lane)
      /\ CASE is_dead_request(r) -> UNCHANGED <<at, formed, deferred, until>>
           [] ~is_dead_request(r) /\ model_id[r] = model_id[formed[1]] ->
                at' = "form" /\ formed' = Append(formed, r) /\ UNCHANGED <<deferred, until>>
           [] OTHER ->
                at' = "formed" /\ deferred' = r /\ UNCHANGED <<formed, until>>
      /\ UNCHANGED <<now, unsent, closed, allow_wait, first_at>>

WaitEnds ==
  /\ at = "wait"
  /\ lane = <<>>
  /\ now >= until \/ closed
  /\ at' = "formed"
  /\ UNCHANGED <<now, unsent, lane, closed, formed, deferred, allow_wait, until, first_at>>

\* Time passes while the thread waits: in wait_pop() or in wait_pop_until().
Tick ==
  /\ lane = <<>> /\ ~closed
  /\ \/ at = "top" /\ deferred = None /\ now < LastTick
     \/ at = "wait" /\ now < until
  /\ now' = now + 1
  /\ UNCHANGED <<unsent, lane, closed, formVars>>

\* filter_live_batch(): what is dead by now is dropped.  There is one.
LiveBatches ==
  LET alive == {i \in DOMAIN formed : ~is_dead_request(formed[i])}
  IN  {Along(pass, formed) : pass \in Passes(alive, Len(formed))}

\* The batch is done with and the loop begins again.
NextBatch ==
  /\ at' = "top"
  /\ formed' = <<>>
  /\ UNCHANGED <<now, unsent, lane, closed, deferred, allow_wait, until, first_at>>

FormStep == TakeFirst \/ FormNext \/ PopUntil \/ WaitEnds

-----------------------------------------------------------------------------
(* Properties *)

Forming == at \in {"form", "wait", "formed"}

\* The wait for more requests never outlasts the deadline of a request that
\* is already in the batch, not even one that joined late and expires first:
\* compute_deadline() looks at all of formed.requests.
HeldWithinDeadlines ==
  Forming => \A i \in DOMAIN formed : deadline[formed[i]] # None => now <= deadline[formed[i]]

\* The deadline is computed anew for each further request, so a batch is
\* held for at most one max_batch_wait per request in it, however many dead
\* requests are discarded on the way.  Once the lane was closed when the
\* batch was begun, it is not held at all.
HoldBounded ==
  Forming => now - first_at <= IF allow_wait THEN Len(formed) * config.max_batch_wait ELSE 0

\* docs/architecture.md, Batching: a batch is finalized after waiting up to
\* max_batch_wait.  The clock of form() starts with its first request.
WaitsUpToMax == Forming => now - first_at <= config.max_batch_wait

=============================================================================
