-------------------------- MODULE InferenceRequest --------------------------
(***************************************************************************)
(* One request object (src/request.cpp) used by several threads at once:   *)
(* admission, routing, the worker, the HTTP session and its deadline timer *)
(* each make one call.  A call decides under mutex_, and calls the         *)
(* observers after it has released it, one after the other; calls of other *)
(* threads run in between.                                                 *)
(*                                                                         *)
(* A result is represented by the call whose payload it is.                *)
(***************************************************************************)
EXTENDS RequestLifecycle, Integers, Sequences

CONSTANTS
  Callers,     \* calls that are made on the request
  Observers,   \* callbacks passed to add_observer()
  Waiters,     \* calls of wait_for_terminal()
  TimedWaiters,  \* those that pass a timeout
  NoResult     \* std::nullopt

ASSUME CallersAssumption ==
  /\ NoResult \notin Callers
  /\ Callers \cap Observers = {}
  /\ TimedWaiters \subseteq Waiters

\* The operations, and the state each tries to reach.
Operations == {"to_queued", "to_running", "try_complete", "try_fail",
               "try_reject", "try_cancel", "try_timeout", "try_timeout_if_expired"}

Target(op) ==
  CASE op = "to_queued" -> "Queued"
    [] op = "to_running" -> "Running"
    [] op = "try_complete" -> "Completed"
    [] op = "try_fail" -> "Failed"
    [] op = "try_reject" -> "Rejected"
    [] op = "try_cancel" -> "Cancelled"
    [] OTHER -> "TimedOut"

VARIABLES
  state,       \* state_
  result,      \* result_
  expired,     \* now >= *deadline_
  observers,   \* observers_
  op,          \* the operation each call performs
  pc,          \* where each call is
  snap,        \* the snapshot each call delivers
  callbacks,   \* the observers each call has yet to invoke
  won,         \* calls that reported success for a terminal state
  attached,    \* where add_observer() of each observer is
  seen,        \* the snapshots each observer received
  waiting      \* where each wait_for_terminal() is

callVars == <<op, pc, snap, callbacks>>
vars == <<state, result, expired, observers, callVars, won, attached, seen, waiting>>

Snapshot(s, r) == [state |-> s, result |-> r]

NoSnapshot == Snapshot("Received", NoResult)

Init ==
  /\ state = "Received"
  /\ result = NoResult
  /\ expired = FALSE
  /\ observers = <<>>
  /\ op \in [Callers -> Operations]
  /\ pc = [c \in Callers |-> "idle"]
  /\ snap = [c \in Callers \cup Observers |-> NoSnapshot]
  /\ callbacks = [c \in Callers |-> <<>>]
  /\ won = {}
  /\ attached = [o \in Observers |-> "absent"]
  /\ seen = [o \in Observers |-> <<>>]
  /\ waiting = [w \in Waiters |-> "idle"]

\* The deadline passes (a request without one never expires).
Expire ==
  /\ ~expired
  /\ expired' = TRUE
  /\ UNCHANGED <<state, result, observers, callVars, won, attached, seen, waiting>>

\* Variant: reaching a terminal state wakes nobody.
NotifyNobody(s) == waiting' = waiting

\* cv_.notify_all() when the new state is terminal.
notify_if_terminal(s) ==
  waiting' = [w \in Waiters |->
                IF is_terminal_state(s) /\ waiting[w] = "blocked"
                THEN "notified" ELSE waiting[w]]

\* try_timeout_if_expired: the first critical section.  It returns false, or
\* releases mutex_ and calls try_timeout().
CheckExpired(c) ==
  /\ pc[c] = "idle"
  /\ op[c] = "try_timeout_if_expired"
  /\ pc' = [pc EXCEPT ![c] = IF is_terminal_state(state) \/ ~expired
                             THEN "done" ELSE "decide"]
  /\ UNCHANGED <<state, result, expired, observers, op, snap, callbacks, won,
                 attached, seen, waiting>>

AtDecision(c) ==
  \/ pc[c] = "decide"
  \/ pc[c] = "idle" /\ op[c] # "try_timeout_if_expired"

\* The critical section of a call that loses: the transition is not valid.
Lose(c) ==
  /\ AtDecision(c)
  /\ ~is_valid_transition(state, Target(op[c]))
  /\ pc' = [pc EXCEPT ![c] = "done"]
  /\ UNCHANGED <<state, result, expired, observers, op, snap, callbacks, won,
                 attached, seen, waiting>>

\* Variant: try_timeout() sets no result.
PayloadForgotten(c, final) ==
  IF final /\ state' # "TimedOut" THEN c ELSE result

\* Every try_ function sets result_ in the section that sets state_.
Payload(c, final) == IF final THEN c ELSE result

\* The critical section of a call that wins.  A terminal state takes the
\* result and empties the observers; any other state copies them.
Win(c) ==
  LET target == Target(op[c])
      final == is_terminal_state(target)
  IN  /\ AtDecision(c)
      /\ is_valid_transition(state, target)
      /\ state' = target
      /\ result' = Payload(c, final)
      /\ snap' = [snap EXCEPT ![c] = Snapshot(state', result')]
      /\ callbacks' = [callbacks EXCEPT ![c] = observers]
      /\ observers' = IF final THEN <<>> ELSE observers
      /\ won' = IF final THEN won \cup {c} ELSE won
      /\ notify_if_terminal(target)
      /\ pc' = [pc EXCEPT ![c] = "notify"]
      /\ UNCHANGED <<expired, op, attached, seen>>

\* Variant: the callback looks at the request when it runs.
DeliveredLate(c) == Snapshot(state, result)

\* What invoke_observers passes on: the copy taken in the critical section.
Delivered(c) == snap[c]

\* invoke_observers calls the next observer.
Invoke(c) ==
  /\ pc[c] = "notify"
  /\ callbacks[c] # <<>>
  /\ seen' = [seen EXCEPT ![Head(callbacks[c])] = Append(@, Delivered(c))]
  /\ callbacks' = [callbacks EXCEPT ![c] = Tail(@)]
  /\ UNCHANGED <<state, result, expired, observers, op, pc, snap, won, attached, waiting>>

Return(c) ==
  /\ pc[c] = "notify"
  /\ callbacks[c] = <<>>
  /\ pc' = [pc EXCEPT ![c] = "done"]
  /\ UNCHANGED <<state, result, expired, observers, op, snap, callbacks, won,
                 attached, seen, waiting>>

\* Variant: add_observer() does not look at the state.
RegisterAlways == TRUE

\* add_observer() keeps the observer unless the request is already terminal.
Registers == ~is_terminal_state(state)

\* add_observer(), the critical section.
AddObserver(o) ==
  /\ attached[o] = "absent"
  /\ IF Registers
     THEN /\ observers' = Append(observers, o)
          /\ attached' = [attached EXCEPT ![o] = "registered"]
          /\ UNCHANGED snap
     ELSE /\ snap' = [snap EXCEPT ![o] = Snapshot(state, result)]
          /\ attached' = [attached EXCEPT ![o] = "invoke_now"]
          /\ UNCHANGED observers
  /\ UNCHANGED <<state, result, expired, op, pc, callbacks, won, seen, waiting>>

\* add_observer() calls the late observer itself.
InvokeNow(o) ==
  /\ attached[o] = "invoke_now"
  /\ seen' = [seen EXCEPT ![o] = Append(@, snap[o])]
  /\ attached' = [attached EXCEPT ![o] = "invoked"]
  /\ UNCHANGED <<state, result, expired, observers, callVars, won, waiting>>

\* wait_for_terminal: the predicate is checked under mutex_, first and after
\* every wake-up.
Wait(w) ==
  /\ waiting[w] \in {"idle", "notified"}
  /\ waiting' = [waiting EXCEPT ![w] = IF is_terminal_state(state)
                                       THEN "returned" ELSE "blocked"]
  /\ UNCHANGED <<state, result, expired, observers, callVars, won, attached, seen>>

\* wait_for: the timeout ends the wait, with a last look at the predicate.
WaitTimeout(w) ==
  /\ w \in TimedWaiters
  /\ waiting[w] = "blocked"
  /\ waiting' = [waiting EXCEPT ![w] = IF is_terminal_state(state)
                                       THEN "returned" ELSE "timed_out"]
  /\ UNCHANGED <<state, result, expired, observers, callVars, won, attached, seen>>

-----------------------------------------------------------------------------
Call(c) == CheckExpired(c) \/ Lose(c) \/ Win(c) \/ Invoke(c) \/ Return(c)

Next ==
  \/ Expire
  \/ \E c \in Callers : Call(c)
  \/ \E o \in Observers : AddObserver(o) \/ InvokeNow(o)
  \/ \E w \in Waiters : Wait(w) \/ WaitTimeout(w)

Spec == Init /\ [][Next]_vars

\* A call that has begun goes on; nobody has to make one.
Fairness ==
  /\ \A c \in Callers : WF_vars(Invoke(c) \/ Return(c))
  /\ \A o \in Observers : WF_vars(InvokeNow(o))
  /\ \A w \in Waiters : WF_vars(waiting[w] = "notified" /\ Wait(w))

FairSpec == Spec /\ Fairness

-----------------------------------------------------------------------------
(* Properties *)

RequestSnapshot == [state : RequestState, result : Callers \cup {NoResult}]

TypeOK ==
  /\ state \in RequestState
  /\ result \in Callers \cup {NoResult}
  /\ expired \in BOOLEAN
  /\ observers \in Seq(Observers)
  /\ op \in [Callers -> Operations]
  /\ pc \in [Callers -> {"idle", "decide", "notify", "done"}]
  /\ snap \in [Callers \cup Observers -> RequestSnapshot]
  /\ callbacks \in [Callers -> Seq(Observers)]
  /\ won \subseteq Callers
  /\ attached \in [Observers -> {"absent", "registered", "invoke_now", "invoked"}]
  /\ seen \in [Observers -> Seq(RequestSnapshot)]
  /\ waiting \in [Waiters -> {"idle", "blocked", "notified", "returned", "timed_out"}]

\* First-terminal-wins: exactly one call reports having ended the request, and
\* state_ and result_ are both that call's for good, never a mix of two calls'
\* nor those of a later one.
OneWinner ==
  IF is_terminal_state(state)
  THEN won = {result} /\ state = Target(op[result])
  ELSE won = {} /\ result = NoResult

Elements(seq) == {seq[i] : i \in DOMAIN seq}

\* The calls of the observer that told it of a terminal state.
Ends(o) == {i \in DOMAIN seen[o] : is_terminal_state(seen[o][i].state)}

\* An observer hears of the end at most once, and then of the real one,
\* whether it was added before, during or after the call that ended it.
EndHeardOnce ==
  \A o \in Observers : \A i \in Ends(o) :
    Ends(o) = {i} /\ seen[o][i] = Snapshot(state, result)

\* An observer added to the request is, until it has heard of the end, in
\* observers_ of a live request or in the hands of the call that will tell it: the swap of
\* observers_ and the check in add_observer() leave no gap.
NoObserverForgotten ==
  \A o \in Observers :
    attached[o] = "registered" =>
      \/ ~is_terminal_state(state) /\ o \in Elements(observers)
      \/ \E c \in won : o \in Elements(callbacks[c])
      \/ Ends(o) # {}

\* Every observer of a terminal request is told, every wait returns.
EndIsAnnounced ==
  /\ \A o \in Observers :
       is_terminal_state(state) /\ attached[o] # "absent" ~> Ends(o) # {}
  /\ \A w \in Waiters :
       is_terminal_state(state) /\ waiting[w] # "idle"
         ~> waiting[w] \in {"returned", "timed_out"}
=============================================================================
