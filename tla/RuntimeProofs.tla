--------------------------- MODULE RuntimeProofs ---------------------------
(***************************************************************************)
(* Proofs about the runtime, for any number of requests, clients, workers  *)
(* and calls of stop(): a runtime that is stopped once closes its workers  *)
(* only after the routing thread has ended; the runtime never loses a      *)
(* request or holds one twice; and stop() drains it: its threads end one   *)
(* after the other, and none leaves a request behind.                      *)
(***************************************************************************)
EXTENDS Runtime, TLAPS

Causes == {"none", "RuntimeStopped", "QueueFull", "NoFeasibleWorker", "QueueClosed"}

Ended == {"exited", "gave up"}

\* At most one stop() has been called.
Single == \A s, t \in Called : s = t

\* No stop() is past taking the routing thread's handle.
NoneTook == \A s \in Stoppers : stop[s].at \in {"not called", "close", "take"}

StopAt == {"not called", "close", "take", "join", "close worker", "take worker", "join worker",
           "returned"}

TypeInv ==
  /\ cause \in [Requests -> Causes]
  /\ open \in [Workers -> BOOLEAN]
  /\ thread \in [Workers -> {"not started", "running", "exited"}]
  /\ start \in {"not called", "in progress", "returned"}
  /\ stop \in [Stoppers -> [at : StopAt, worker : Nat]]

\* Until start() has returned nothing is routed, and a worker that was started
\* is open.
StartInv ==
  /\ start = "not called" => routing = "not started" /\ \A w \in Workers : thread[w] = "not started"
  /\ start = "in progress" =>
       /\ routing = "not started" /\ NoneTook
       /\ \A w \in Workers : thread[w] # "not started" => open[w]

\* From then on, until the routing thread ends, the only stop() either has yet
\* to take its handle or waits for it, and every worker is open.
RoutingInv ==
  start = "returned" /\ routing \notin Ended /\ Single =>
    /\ \A w \in Workers : open[w]
    /\ 0 \in held \/ \E s \in Stoppers : stop[s].at = "join"
    /\ \A s \in Stoppers : stop[s].at \in {"not called", "close", "take", "join"}

IInv ==
  /\ TypeInv /\ StartInv /\ RoutingInv
  /\ routing = "enqueue" => target \in Workers
  /\ NoneTurnedAwayByStop

-----------------------------------------------------------------------------

\* The initial state satisfies the invariant.
LEMMA InitInv == Init => IInv
<1> SUFFICES ASSUME Init PROVE IInv
  OBVIOUS
<1>1. TypeInv
  <2>1. open \in [Workers -> BOOLEAN]
    BY ZenonT(60) DEF Init
  <2> QED
    BY <2>1, ZenonT(60) DEF Init, TypeInv, Causes, StopAt
<1>2. StartInv /\ RoutingInv
  BY ZenonT(60) DEF Init, StartInv, RoutingInv
<1>3. NoneTurnedAwayByStop
  BY ZenonT(60) DEF Init, NoneTurnedAwayByStop
<1> QED
  BY <1>1, <1>2, <1>3, ZenonT(60) DEF Init, IInv

\* Where a stop() goes, and that the others stay where they are.
LEMMA GoToMoves ==
  ASSUME TypeInv, NEW s \in Stoppers, NEW at \in StopAt, NEW w \in Nat, GoTo(s, at, w)
  PROVE  /\ stop'[s].at = at /\ stop'[s].worker = w
         /\ \A t \in Stoppers \ {s} : stop'[t] = stop[t]
         /\ stop' \in [Stoppers -> [at : StopAt, worker : Nat]]
  BY ZenonT(60) DEF GoTo, TypeInv

\* A rejection for a reason of its own leaves the others' causes alone.
LEMMA RejectKeeps ==
  ASSUME TypeInv, NEW r, NEW why \in Causes, try_reject(r, why)
  PROVE  /\ cause' \in [Requests -> Causes]
         /\ \A q \in Requests : cause'[q] # cause[q] => q = r /\ cause'[q] = why
  BY ZenonT(60) DEF try_reject, TypeInv, requestVars

\* The steps of clients, requests and workers touch nothing of this but causes
\* that are no worker's.
LEMMA OthersKeep ==
  ASSUME IInv,
         UNCHANGED <<routing, target, open, start, stop, held>>,
         thread' \in [Workers -> {"not started", "running", "exited"}],
         \A w \in Workers : thread'[w] = "not started" <=> thread[w] = "not started",
         cause' \in [Requests -> Causes],
         \A r \in Requests : cause'[r] # cause[r] => cause'[r] \in {"RuntimeStopped", "QueueFull"}
  PROVE  IInv'
<1>1. TypeInv' /\ StartInv'
  BY ZenonT(60) DEF IInv, TypeInv, StartInv, NoneTook
<1>2. Called' = Called
  BY ZenonT(60) DEF Called
<1>3. RoutingInv'
  BY <1>2, ZenonT(60) DEF IInv, RoutingInv, Single
<1>4. NoneTurnedAwayByStop'
  BY <1>2, ZenonT(60) DEF IInv, NoneTurnedAwayByStop
<1> QED
  BY <1>1, <1>3, <1>4, ZenonT(60) DEF IInv

\* A step of the routing thread keeps the workers, start() and stop().
LEMMA RoutingKeeps ==
  ASSUME IInv, routing_loop
  PROVE  IInv'
<1> USE DEF IInv
<1>1. /\ UNCHANGED <<open, start, stop, held, thread>> /\ Called' = Called
      /\ routing \in {"next", "route", "enqueue"}
  BY ZenonT(60) DEF routing_loop, TakeNext, Route, EnqueueOnWorker, Called, workerVars, controlVars
<1>2. start = "returned"
  BY <1>1, ZenonT(60) DEF TypeInv, StartInv
<1>3. StartInv' /\ RoutingInv'
  BY <1>1, <1>2, ZenonT(60) DEF StartInv, RoutingInv, Single, Ended
<1>4. Single => \A w \in Workers : open[w]
  BY <1>1, <1>2, ZenonT(60) DEF RoutingInv, Ended
<1>5. CASE TakeNext
  <2>1. routing' # "enqueue" /\ UNCHANGED cause
    BY <1>5, ZenonT(60) DEF TakeNext, NextFifo, NextWorkload, Take, requestVars
  <2> QED
    BY <1>1, <1>3, <2>1, ZenonT(60) DEF TypeInv, NoneTurnedAwayByStop
<1>6. CASE Route
  <2>1. routing' = "enqueue" => target' \in Workers
    BY <1>6 DEF Route, RejectInfeasible, Routed, Feasible
  <2>2. CASE UNCHANGED cause
    BY <1>1, <1>3, <2>1, <2>2, ZenonT(60) DEF TypeInv, NoneTurnedAwayByStop
  <2>3. CASE RejectInfeasible
    <3>1. /\ cause' \in [Requests -> Causes]
          /\ \A q \in Requests : cause'[q] # cause[q] => q = request
      BY <2>3, RejectKeeps DEF RejectInfeasible, Causes
    <3>2. ASSUME Single, request \in Requests PROVE Fits[request] = {}
      BY <1>4, <2>3, <3>2, ConfigAssumption DEF RejectInfeasible, Feasible
    <3>3. NoneTurnedAwayByStop'
      BY <1>1, <3>1, <3>2 DEF NoneTurnedAwayByStop, Single
    <3> QED
      BY <1>1, <1>3, <2>1, <3>1, <3>3, ZenonT(60) DEF TypeInv
  <2> QED
    BY <1>6, <2>2, <2>3 DEF Route, requestVars
<1>7. CASE EnqueueOnWorker
  <2>1. routing' = "next" /\ routing = "enqueue"
    BY <1>7 DEF EnqueueOnWorker, Routed
  <2>2. /\ cause' \in [Requests -> Causes]
        /\ \A q \in Requests : cause'[q] # cause[q] => cause'[q] = "QueueFull" \/ ~open[target]
    <3>1. CASE UNCHANGED cause
      BY <3>1, ZenonT(60) DEF TypeInv
    <3>2. CASE try_reject(request, "QueueFull")
      BY <3>2, RejectKeeps DEF Causes
    <3>3. CASE ~open[target] /\ try_reject(request, "QueueClosed")
      BY <3>3, RejectKeeps DEF Causes
    <3> QED
      BY <1>7, <3>1, <3>2, <3>3 DEF EnqueueOnWorker, requestVars
  <2>3. Single => open[target]
    BY <1>4, <2>1
  <2>4. NoneTurnedAwayByStop'
    BY <1>1, <2>2, <2>3 DEF NoneTurnedAwayByStop, Single
  <2> QED
    BY <1>1, <1>3, <2>1, <2>2, <2>4, ZenonT(60) DEF TypeInv
<1> QED
  BY <1>5, <1>6, <1>7, Zenon DEF routing_loop

\* A step of start() keeps the invariant.
LEMMA StartKeeps ==
  ASSUME IInv, Start
  PROVE  IInv'
<1> USE DEF IInv
<1>1. stop' = stop /\ UNCHANGED <<cause, target>> /\ Called' = Called
  BY ZenonT(60) DEF Start, StartWorker, StartRouting, Called, requestVars, routingVars
<1>2. NoneTurnedAwayByStop'
  BY <1>1 DEF NoneTurnedAwayByStop
<1>3. ASSUME NEW w \in Workers, StartWorker(w) PROVE IInv'
  <2>1. /\ open' = [open EXCEPT ![w] = TRUE] /\ thread' = [thread EXCEPT ![w] = "running"]
        /\ start' = "in progress" /\ routing' = routing
    BY <1>3, ZenonT(60) DEF StartWorker, routingVars
  <2>2. NoneTook /\ routing = "not started"
    BY <1>3, ZenonT(60) DEF StartWorker, StartInv, Called, NoneTook, TypeInv
  <2>3. TypeInv'
    <3>1. open' \in [Workers -> BOOLEAN]
      BY <2>1, ZenonT(60) DEF TypeInv
    <3> QED
      BY <1>1, <2>1, <3>1, ZenonT(60) DEF TypeInv
  <2>4. ASSUME NEW v \in Workers, thread'[v] # "not started" PROVE open'[v]
    <3>1. CASE v = w
      BY <2>1, <3>1, ZenonT(60) DEF TypeInv
    <3>2. CASE v # w
      BY <1>3, <2>1, <2>4, <3>2, ZenonT(60) DEF StartWorker, StartInv, TypeInv
    <3> QED
      BY <3>1, <3>2
  <2>5. StartInv'
    BY <1>1, <2>1, <2>2, <2>4, ZenonT(60) DEF StartInv, NoneTook
  <2> QED
    BY <1>2, <2>1, <2>2, <2>3, <2>5, ZenonT(60) DEF RoutingInv
<1>4. CASE StartRouting
  <2>1. /\ start = "in progress" /\ start' = "returned" /\ routing' = "next" /\ 0 \in held'
        /\ UNCHANGED <<open, thread>> /\ \A w \in Workers : open[w]
    BY <1>4, ZenonT(60) DEF StartRouting, Locked, StartInv, workerVars
  <2>2. NoneTook
    BY <2>1, ZenonT(60) DEF StartInv
  <2> QED
    BY <1>1, <1>2, <2>1, <2>2, ZenonT(60) DEF TypeInv, StartInv, RoutingInv, NoneTook
<1> QED
  BY <1>3, <1>4 DEF Start

\* A step of a stop() keeps the invariant.
LEMMA StopKeeps ==
  ASSUME IInv, NEW s \in Stoppers, StopAccepting(s) \/ StopGoesOn(s)
  PROVE  IInv'
<1> USE DEF IInv
<1>1. /\ UNCHANGED <<cause, routing, target, thread, start>>
      /\ \A t \in Stoppers \ {s} : stop'[t] = stop[t]
      /\ stop'[s].at # "not called"
      /\ stop' \in [Stoppers -> [at : StopAt, worker : Nat]]
  <2>0. stop[s].worker \in Nat /\ stop[s].worker + 1 \in Nat
    <3>1. stop \in [Stoppers -> [at : StopAt, worker : Nat]]
      BY ZenonT(60) DEF TypeInv
    <3>2. stop[s].worker \in Nat
      BY <3>1
    <3> QED
      BY <3>2
  <2>1. PICK at \in StopAt \ {"not called"}, w \in Nat : GoTo(s, at, w)
    BY <2>0, ZenonT(60) DEF StopAccepting, StopGoesOn, CloseScheduler, TakeRouting, JoinRouting, CloseWorker,
                TakeWorker, JoinWorker, JoinNext, StopAt
  <2>2. UNCHANGED <<cause, routing, target, thread, start>>
    BY ZenonT(60) DEF StopAccepting, StopGoesOn, CloseScheduler, TakeRouting, JoinRouting, CloseWorker,
           TakeWorker, JoinWorker, requestVars, routingVars, workerVars
  <2> QED
    BY <2>1, <2>2, GoToMoves, ZenonT(60)
<1>2. Called \subseteq Called' /\ (Single' => Single)
  BY <1>1, ZenonT(60) DEF Called, Single
<1>3. NoneTurnedAwayByStop'
  BY <1>1, <1>2, ZenonT(60) DEF NoneTurnedAwayByStop
<1>4. open' \in [Workers -> BOOLEAN]
  BY ZenonT(60) DEF StopAccepting, StopGoesOn, CloseScheduler, TakeRouting, JoinRouting, CloseWorker,
         TakeWorker, JoinWorker, workerVars, TypeInv
<1>5. TypeInv'
  BY <1>1, <1>4, ZenonT(60) DEF TypeInv
<1> SUFFICES StartInv' /\ RoutingInv'
  BY <1>1, <1>3, <1>5, ZenonT(60)
<1>6. CASE StopAccepting(s) \/ CloseScheduler(s)
  <2>1. /\ stop[s].at # "join" /\ stop'[s].at \in {"close", "take"}
        /\ UNCHANGED <<open, held>>
    BY <1>6, GoToMoves, ZenonT(60) DEF StopAccepting, CloseScheduler, workerVars, StopAt
  <2>2. StartInv'
    BY <1>1, <2>1, ZenonT(60) DEF StartInv, NoneTook
  <2>3. RoutingInv'
    BY <1>1, <1>2, <2>1, ZenonT(60) DEF RoutingInv
  <2> QED
    BY <2>2, <2>3, ZenonT(60)
<1>7. CASE TakeRouting(s)
  <2>1. /\ stop[s].at = "take" /\ start # "in progress" /\ UNCHANGED open
        /\ 0 \in held => stop'[s].at = "join"
    BY <1>7, GoToMoves, ZenonT(60) DEF TakeRouting, Locked, workerVars, StopAt
  <2>2. StartInv'
    BY <1>1, <2>1, ZenonT(60) DEF StartInv
  <2>3. ASSUME Single, NEW t \in Stoppers, stop[t].at = "join" PROVE FALSE
    <3>1. s \in Called /\ t \in Called
      BY <2>1, <2>3, ZenonT(60) DEF Called
    <3>2. s = t
      BY <2>3, <3>1 DEF Single
    <3> QED
      BY <2>1, <2>3, <3>2, ZenonT(60)
  <2>4. RoutingInv'
    BY <1>1, <1>2, <2>1, <2>3, ZenonT(60) DEF RoutingInv
  <2> QED
    BY <2>2, <2>4, SMTT(60)
<1>8. CASE JoinRouting(s)
  <2>1. stop[s].at = "join" /\ routing \in Ended
    BY <1>8, ZenonT(60) DEF JoinRouting, RoutingJoined, Ended
  <2>2. start # "in progress"
    BY <2>1, ZenonT(60) DEF StartInv, NoneTook
  <2> QED
    BY <1>1, <2>1, <2>2, ZenonT(60) DEF StartInv, RoutingInv
<1>9. CASE CloseWorker(s) \/ TakeWorker(s) \/ JoinWorker(s)
  <2>1. stop[s].at \in {"close worker", "take worker", "join worker"}
    BY <1>9, ZenonT(60) DEF CloseWorker, TakeWorker, JoinWorker
  <2>2. start # "in progress"
    BY <2>1, ZenonT(60) DEF StartInv, NoneTook
  <2> QED
    BY <1>1, <1>2, <2>1, <2>2, ZenonT(60) DEF StartInv, RoutingInv
<1> QED
  BY <1>6, <1>7, <1>8, <1>9, Zenon DEF StopGoesOn

\* Every step keeps the invariant.
LEMMA NextInv == IInv /\ [Next]_vars => IInv'
<1> SUFFICES ASSUME IInv, [Next]_vars PROVE IInv'
  OBVIOUS
<1>0. /\ thread \in [Workers -> {"not started", "running", "exited"}]
      /\ cause \in [Requests -> Causes]
  BY ZenonT(60) DEF IInv, TypeInv
<1>1. ASSUME NEW r \in Requests, Die(r) PROVE IInv'
  BY <1>0, <1>1, OthersKeep, ZenonT(60) DEF Die, routingVars, workerVars, controlVars
<1>2. ASSUME NEW c \in Clients, Client(c) PROVE IInv'
  <2>1. UNCHANGED <<routing, target, open, start, stop, held, thread>>
    BY <1>2 DEF Client, SubmitBegin, Refuse, Admit, Enqueue, routingVars, workerVars, controlVars
  <2>2. \/ UNCHANGED cause
        \/ \E why \in {"RuntimeStopped", "QueueFull"} : try_reject(client[c].request, why)
    BY <1>2 DEF Client, SubmitBegin, Refuse, Admit, Enqueue, requestVars
  <2>3. /\ cause' \in [Requests -> Causes]
        /\ \A r \in Requests : cause'[r] # cause[r] => cause'[r] \in {"RuntimeStopped", "QueueFull"}
    <3>1. CASE UNCHANGED cause
      BY <1>0, <3>1, ZenonT(60)
    <3>2. ASSUME NEW why \in {"RuntimeStopped", "QueueFull"}, try_reject(client[c].request, why)
          PROVE  /\ cause' \in [Requests -> Causes]
                 /\ \A r \in Requests : cause'[r] # cause[r] => cause'[r] = why
      BY <3>2, RejectKeeps DEF IInv, Causes
    <3> QED
      BY <2>2, <3>1, <3>2
  <2> QED
    BY <1>0, <2>1, <2>3, OthersKeep, ZenonT(60)
<1>3. CASE routing_loop
  BY <1>3, RoutingKeeps
<1>4. ASSUME NEW w \in Workers, WorkerThread(w) PROVE IInv'
  <2>1. UNCHANGED <<routing, target, open, start, stop, held, cause>>
    BY <1>4, Zenon DEF WorkerThread, WorkerTake, WorkerEnds, WorkerExits, requestVars, routingVars, controlVars
  <2>2. /\ thread' \in [Workers -> {"not started", "running", "exited"}]
        /\ \A v \in Workers : thread'[v] = "not started" <=> thread[v] = "not started"
    BY <1>0, <1>4, ZenonT(60) DEF WorkerThread, WorkerTake, WorkerEnds, WorkerExits
  <2> QED
    BY <1>0, <2>1, <2>2, OthersKeep, ZenonT(60)
<1>5. CASE Start
  BY <1>5, StartKeeps
<1>6. ASSUME NEW s \in Stoppers, StopAccepting(s) \/ StopGoesOn(s) PROVE IInv'
  BY <1>6, StopKeeps, Zenon
<1>7. CASE UNCHANGED vars
  BY <1>0, <1>7, OthersKeep, ZenonT(60) DEF vars, requestVars, routingVars, workerVars, controlVars
<1> QED
  BY <1>1, <1>2, <1>3, <1>4, <1>5, <1>6, <1>7 DEF Next

\* A runtime that is stopped once never has a worker turn away an admitted
\* request that some worker can take: the workers are closed after the routing
\* thread has ended.
THEOREM NoneTurnedAwayHolds == Spec => []NoneTurnedAwayByStop
<1>1. IInv => NoneTurnedAwayByStop
  BY DEF IInv
<1> QED
  BY InitInv, NextInv, <1>1, PTL DEF Spec

-----------------------------------------------------------------------------
(* Every request is in one place *)

\* Where a request can be.
Stages == {"none", "submit", "queue", "routing", "lane", "worker"}

\* The types of what holds requests.
HeldType ==
  /\ state \in [Requests -> RequestState]
  /\ client \in [Clients -> [at : {"idle", "admit", "refused", "enqueue"}, request : Requests \cup {None}]]
  /\ \A c \in Clients : client[c].at # "idle" => client[c].request \in Requests
  /\ calls \in [Clients -> Seq(Requests)]
  /\ queue \in Seq(Requests)
  /\ request \in Requests \cup {None}
  /\ request # None <=> routing \in {"route", "enqueue"}
  /\ routing = "enqueue" => target \in Workers
  /\ lane \in [Workers -> Seq(Requests)]
  /\ current \in [Workers -> Requests \cup {None}]

\* The requests at stage "submit" are those of the clients that enqueue, one
\* each.
SubmitHas(where) ==
  /\ \A c \in Clients : client[c].at = "enqueue" => where[client[c].request] = "submit"
  /\ \A r \in Requests :
       where[r] = "submit" => \E c \in Clients : client[c].at = "enqueue" /\ client[c].request = r
  /\ \A c, d \in Clients :
       client[c].at = "enqueue" /\ client[d].at = "enqueue" /\ client[c].request = client[d].request
         => c = d

\* Those at stage "queue" are in the scheduler's queue, once.
QueueHas(where) ==
  /\ \A i \in DOMAIN queue : where[queue[i]] = "queue"
  /\ \A r \in Requests : where[r] = "queue" => \E i \in DOMAIN queue : queue[i] = r
  /\ \A i, j \in DOMAIN queue : queue[i] = queue[j] => i = j

\* The one at stage "routing" is the routing thread's.
RoutingHas(where) == \A r \in Requests : where[r] = "routing" <=> request = r

\* Those at stage "lane" are in the workers' lanes, once.
LanesHave(where) ==
  /\ \A w \in Workers : \A i \in DOMAIN lane[w] : where[lane[w][i]] = "lane"
  /\ \A r \in Requests :
       where[r] = "lane" => \E w \in Workers : \E i \in DOMAIN lane[w] : lane[w][i] = r
  /\ \A v, w \in Workers : \A i \in DOMAIN lane[v], j \in DOMAIN lane[w] :
       lane[v][i] = lane[w][j] => v = w /\ i = j

\* Those at stage "worker" are executed, each by one worker.
WorkersHave(where) ==
  /\ \A w \in Workers : current[w] # None => where[current[w]] = "worker"
  /\ \A r \in Requests : where[r] = "worker" => \E w \in Workers : current[w] = r
  /\ \A v, w \in Workers : current[v] = current[w] /\ current[v] # None => v = w

\* A request that has not ended is at a stage that fits its state.
StateTells(where) ==
  \A r \in Requests :
    /\ state[r] = "Received" => where[r] = "none"
    /\ state[r] = "Queued" => where[r] \in {"submit", "queue", "routing", "lane"}
    /\ state[r] = "Running" => where[r] = "worker"

Placed(where) ==
  /\ SubmitHas(where) /\ QueueHas(where) /\ RoutingHas(where)
  /\ LanesHave(where) /\ WorkersHave(where) /\ StateTells(where)

\* Every request is at one stage.
HeldInv == HeldType /\ \E where \in [Requests -> Stages] : Placed(where)

-----------------------------------------------------------------------------

\* The moves of a request that the runtime makes, by the state they start from.
LEMMA Transitions ==
  ASSUME NEW s \in RequestState
  PROVE  /\ is_valid_transition(s, "Queued") <=> s = "Received"
         /\ is_valid_transition(s, "Running") <=> s = "Queued"
         /\ is_valid_transition(s, "Completed") <=> s = "Running"
         /\ is_valid_transition(s, "Rejected") <=> s \in {"Received", "Queued"}
         /\ is_valid_transition(s, "Cancelled") <=> s \in {"Received", "Queued", "Running"}
         /\ is_terminal_state(s) <=> s \notin {"Received", "Queued", "Running"}
  BY DEF RequestState, TerminalState, is_valid_transition, is_terminal_state, Successors

\* At first no request is anywhere.
LEMMA HeldInit == Init => HeldInv
<1> SUFFICES ASSUME Init PROVE HeldInv
  OBVIOUS
<1> DEFINE where == [r \in Requests |-> "none"]
<1>0. /\ queue = <<>> /\ lane = [w \in Workers |-> <<>>] /\ current = [w \in Workers |-> None]
      /\ request = None /\ state = [r \in Requests |-> "Received"]
  BY ZenonT(60) DEF Init
<1>1. \A c \in Clients : client[c].at = "idle" /\ client[c].request = None
  BY ZenonT(60) DEF Init, Idle
<1>2. HeldType
  <2>1. client \in [Clients -> [at : {"idle", "admit", "refused", "enqueue"}, request : Requests \cup {None}]]
    BY ZenonT(60) DEF Init, Idle
  <2>2. state \in [Requests -> RequestState]
    BY ZenonT(60) DEF Init, RequestState
  <2>3. lane \in [Workers -> Seq(Requests)] /\ queue \in Seq(Requests)
    BY <1>0
  <2>4. calls \in [Clients -> Seq(Requests)]
    BY ConfigAssumption, ZenonT(60) DEF Init
  <2>5. /\ current \in [Workers -> Requests \cup {None}] /\ request \in Requests \cup {None}
        /\ request = None /\ routing = "not started"
    BY ZenonT(60) DEF Init
  <2> QED
    BY <1>1, <2>1, <2>2, <2>3, <2>4, <2>5, ZenonT(60) DEF HeldType
<1>3. where \in [Requests -> Stages]
  BY Zenon DEF Stages
<1>4. SubmitHas(where) /\ QueueHas(where) /\ RoutingHas(where) /\ StateTells(where)
  BY <1>0, <1>1, ConfigAssumption DEF SubmitHas, QueueHas, RoutingHas, StateTells
<1>5. LanesHave(where) /\ WorkersHave(where)
  BY <1>0, SMTT(60) DEF LanesHave, WorkersHave
<1> QED
  BY <1>2, <1>3, <1>4, <1>5 DEF HeldInv, Placed

\* A step that leaves the clients and the requests they hold alone keeps what
\* is said of them; the same for each of the other places.
LEMMA SubmitKeeps ==
  ASSUME NEW where, NEW moved, HeldType, SubmitHas(where), UNCHANGED client,
         \A r \in Requests : where[r] = "submit" <=> moved[r] = "submit"
  PROVE  SubmitHas(moved)'
  BY DEF SubmitHas, HeldType

\* The same for the scheduler's queue.
LEMMA QueueKeeps ==
  ASSUME NEW where, NEW moved, HeldType, QueueHas(where), UNCHANGED queue,
         \A r \in Requests : where[r] = "queue" <=> moved[r] = "queue"
  PROVE  QueueHas(moved)'
<1>1. \A i \in DOMAIN queue : queue[i] \in Requests
  BY DEF HeldType
<1> QED
  BY <1>1, Zenon DEF QueueHas

\* The same for the request that is being routed.
LEMMA RoutedKeeps ==
  ASSUME NEW where, NEW moved, HeldType, RoutingHas(where), UNCHANGED request,
         \A r \in Requests : where[r] = "routing" <=> moved[r] = "routing"
  PROVE  RoutingHas(moved)'
  BY Zenon DEF RoutingHas

\* The same for the lanes.
LEMMA LanesKeep ==
  ASSUME NEW where, NEW moved, HeldType, LanesHave(where), UNCHANGED lane,
         \A r \in Requests : where[r] = "lane" <=> moved[r] = "lane"
  PROVE  LanesHave(moved)'
<1>1. \A w \in Workers : \A i \in DOMAIN lane[w] : lane[w][i] \in Requests
  BY SMTT(60) DEF HeldType
<1> QED
  BY <1>1, SMTT(60) DEF LanesHave

\* The same for what the workers execute.
LEMMA WorkersKeep ==
  ASSUME NEW where, NEW moved, HeldType, WorkersHave(where), UNCHANGED current,
         \A r \in Requests : where[r] = "worker" <=> moved[r] = "worker"
  PROVE  WorkersHave(moved)'
  BY DEF WorkersHave, HeldType

\* A request that ends need not be anywhere.
LEMMA StateKeeps ==
  ASSUME NEW where, NEW moved, StateTells(where),
         \A r \in Requests : \/ state'[r] = state[r] /\ moved[r] = where[r]
                             \/ state'[r] \in TerminalState
  PROVE  StateTells(moved)'
  BY DEF StateTells, TerminalState

\* What try_reject() does to the states.
LEMMA Rejects ==
  ASSUME HeldType, NEW r \in Requests, NEW why, try_reject(r, why)
  PROVE  /\ state' \in [Requests -> RequestState]
         /\ \A q \in Requests \ {r} : state'[q] = state[q]
         /\ state'[r] = IF state[r] \in {"Received", "Queued"} THEN "Rejected" ELSE state[r]
<1>1. state \in [Requests -> RequestState] /\ "Rejected" \in RequestState
  BY DEF HeldType, RequestState
<1>2. is_valid_transition(state[r], "Rejected") <=> state[r] \in {"Received", "Queued"}
  BY <1>1, Transitions
<1> QED
  BY <1>1, <1>2 DEF try_reject, requestVars

\* A request that dies stays where it is.
LEMMA DieKeeps ==
  ASSUME HeldInv, NEW r \in Requests, Die(r)
  PROVE  HeldInv'
<1>1. PICK where \in [Requests -> Stages] : Placed(where)
  BY Zenon DEF HeldInv
<1>2. HeldType /\ state \in [Requests -> RequestState]
  BY DEF HeldInv, HeldType
<1>3. UNCHANGED <<client, calls, queue, request, routing, target, lane, current>>
  BY DEF Die, submitVars, schedulerVars, routingVars, workerVars
<1>4. state' = [state EXCEPT ![r] = "Cancelled"]
  BY Zenon DEF Die
<1>5. HeldType'
  <2>1. state' \in [Requests -> RequestState]
    BY <1>2, <1>4 DEF RequestState
  <2> QED
    BY <1>2, <1>3, <2>1 DEF HeldType
<1>6. StateTells(where)'
  BY <1>1, <1>2, <1>4, StateKeeps, Zenon DEF Placed, TerminalState
<1>7. SubmitHas(where)' /\ QueueHas(where)' /\ RoutingHas(where)' /\ LanesHave(where)' /\ WorkersHave(where)'
  BY <1>1, <1>2, <1>3, SubmitKeeps, QueueKeeps, RoutedKeeps, LanesKeep, WorkersKeep, ZenonT(60) DEF Placed
<1> QED
  BY <1>5, <1>6, <1>7 DEF HeldInv, Placed

\* A client that neither is nor comes to enqueue holds nothing.
LEMMA SubmitElsewhere ==
  ASSUME NEW where, SubmitHas(where), NEW c \in Clients,
         client[c].at # "enqueue", client'[c].at # "enqueue",
         \A d \in Clients \ {c} : client'[d] = client[d]
  PROVE  SubmitHas(where)'
  BY DEF SubmitHas

\* A client that comes to enqueue a request that was nowhere.
LEMMA SubmitArrives ==
  ASSUME NEW where, NEW moved, SubmitHas(where), NEW c \in Clients, NEW r \in Requests,
         \A d \in Clients : client[d].at = "enqueue" => client[d].request \in Requests,
         client[c].at # "enqueue", client'[c].at = "enqueue", client'[c].request = r,
         \A d \in Clients \ {c} : client'[d] = client[d],
         where[r] = "none", moved[r] = "submit",
         \A q \in Requests \ {r} : moved[q] = where[q]
  PROVE  SubmitHas(moved)'
<1>1. ASSUME NEW d \in Clients, client'[d].at = "enqueue"
      PROVE  moved[client'[d].request] = "submit" /\ (client'[d].request = r => d = c)
  <2>1. CASE d = c
    BY <2>1, Zenon
  <2>2. CASE d # c
    BY <1>1, <2>2 DEF SubmitHas
  <2> QED
    BY <2>1, <2>2, Zenon
<1>2. ASSUME NEW q \in Requests, moved[q] = "submit"
      PROVE  \E d \in Clients : client'[d].at = "enqueue" /\ client'[d].request = q
  <2>1. CASE q = r
    BY <2>1, Zenon
  <2>2. CASE q # r
    <3>1. PICK d \in Clients : client[d].at = "enqueue" /\ client[d].request = q
      BY <1>2, <2>2 DEF SubmitHas
    <3> QED
      BY <3>1, Zenon
  <2> QED
    BY <2>1, <2>2, Zenon
<1>3. ASSUME NEW d \in Clients, NEW e \in Clients, client'[d].at = "enqueue",
             client'[e].at = "enqueue", client'[d].request = client'[e].request
      PROVE  d = e
  BY <1>1, <1>3 DEF SubmitHas
<1> QED
  BY <1>1, <1>2, <1>3, Zenon DEF SubmitHas

\* A client that ends its submit() holds the request no more.
LEMMA SubmitLeaves ==
  ASSUME NEW where, NEW moved, SubmitHas(where), NEW c \in Clients, NEW r \in Requests,
         \A d \in Clients : client[d].at = "enqueue" => client[d].request \in Requests,
         client[c].at = "enqueue", client[c].request = r, client'[c].at = "idle",
         \A d \in Clients \ {c} : client'[d] = client[d],
         moved[r] # "submit",
         \A q \in Requests \ {r} : moved[q] = where[q]
  PROVE  SubmitHas(moved)'
<1>1. ASSUME NEW d \in Clients, client'[d].at = "enqueue"
      PROVE  d # c /\ client'[d] = client[d] /\ client[d].request \in Requests \ {r}
  BY <1>1 DEF SubmitHas
<1>2. ASSUME NEW q \in Requests, moved[q] = "submit"
      PROVE  \E d \in Clients : client'[d].at = "enqueue" /\ client'[d].request = q
  <2>1. q # r /\ where[q] = "submit"
    BY <1>2, Zenon
  <2>2. PICK d \in Clients : client[d].at = "enqueue" /\ client[d].request = q
    BY <2>1 DEF SubmitHas
  <2> QED
    BY <2>1, <2>2, Zenon
<1> QED
  BY <1>1, <1>2, SMTT(60) DEF SubmitHas

\* A step of a client moves at most its own request.
LEMMA ClientKeeps ==
  ASSUME HeldInv, NEW c \in Clients, Client(c)
  PROVE  HeldInv'
<1> DEFINE r == client[c].request
<1>1. PICK where \in [Requests -> Stages] : Placed(where)
  BY Zenon DEF HeldInv
<1>2. HeldType /\ state \in [Requests -> RequestState]
  BY Zenon DEF HeldInv, HeldType
<1>3. UNCHANGED <<request, routing, target, lane, current>>
  BY Zenon DEF Client, SubmitBegin, Refuse, Admit, Enqueue, routingVars, workerVars
<1>4. client[c].at # "idle" => r \in Requests
  BY <1>2, Zenon DEF HeldType
<1>5. client \in [Clients -> [at : {"idle", "admit", "refused", "enqueue"}, request : Requests \cup {None}]]
  BY <1>2 DEF HeldType
<1>6. CASE SubmitBegin(c)
  <2>1. UNCHANGED <<state, queue>> /\ client[c].at = "idle"
    BY <1>6, SMTT(60) DEF SubmitBegin, requestVars, schedulerVars, Idle
  <2>2. calls \in [Clients -> Seq(Requests)] /\ calls[c] # <<>> /\ calls' = [calls EXCEPT ![c] = Tail(@)]
    BY <1>2, <1>6 DEF SubmitBegin, HeldType
  <2>3. calls' \in [Clients -> Seq(Requests)] /\ Head(calls[c]) \in Requests
    BY <2>2
  <2>4. \/ client' = client
        \/ \E at \in {"admit", "refused"} : client' = [client EXCEPT ![c] = [at |-> at, request |-> Head(calls[c])]]
    BY <1>6, Zenon DEF SubmitBegin
  <2>5. /\ client' \in [Clients -> [at : {"idle", "admit", "refused", "enqueue"}, request : Requests \cup {None}]]
        /\ \A d \in Clients \ {c} : client'[d] = client[d]
        /\ client'[c].at # "enqueue"
        /\ client'[c].at # "idle" => client'[c].request \in Requests
    BY <1>5, <2>1, <2>3, <2>4
  <2>6. HeldType'
    BY <1>2, <1>3, <2>1, <2>3, <2>5, ZenonT(60) DEF HeldType
  <2>7. SubmitHas(where)'
    BY <1>1, <2>1, <2>5, SubmitElsewhere DEF Placed
  <2>8. QueueHas(where)' /\ RoutingHas(where)' /\ LanesHave(where)' /\ WorkersHave(where)' /\ StateTells(where)'
    BY <1>1, <1>2, <1>3, <2>1, QueueKeeps, RoutedKeeps, LanesKeep, WorkersKeep, StateKeeps, Zenon DEF Placed
  <2> QED
    BY <2>6, <2>7, <2>8, Zenon DEF HeldInv, Placed
<1>7. ASSUME client[c].at # "idle", SubmitEnd(c)
      PROVE  /\ client' \in [Clients -> [at : {"idle", "admit", "refused", "enqueue"}, request : Requests \cup {None}]]
             /\ \A d \in Clients \ {c} : client'[d] = client[d]
             /\ client'[c].at = "idle"
  BY <1>5, <1>7, Zenon DEF SubmitEnd, Idle
<1>8. CASE Refuse(c)
  <2>1. UNCHANGED <<calls, queue>> /\ client[c].at = "refused" /\ SubmitEnd(c)
    BY <1>8, ZenonT(60) DEF Refuse, schedulerVars
  <2>2. /\ state' \in [Requests -> RequestState]
        /\ \A q \in Requests : state'[q] = state[q] \/ state'[q] \in TerminalState
    BY <1>2, <1>4, <1>8, Rejects DEF Refuse, TerminalState
  <2>3. HeldType'
    BY <1>2, <1>3, <1>7, <2>1, <2>2, ZenonT(60) DEF HeldType
  <2>4. SubmitHas(where)'
    BY <1>1, <1>7, <2>1, SubmitElsewhere, Zenon DEF Placed
  <2>5. QueueHas(where)' /\ RoutingHas(where)' /\ LanesHave(where)' /\ WorkersHave(where)'
    BY <1>1, <1>2, <1>3, <2>1, QueueKeeps, RoutedKeeps, LanesKeep, WorkersKeep, Zenon DEF Placed
  <2>6. StateTells(where)'
    BY <1>1, <2>2, StateKeeps DEF Placed
  <2> QED
    BY <2>3, <2>4, <2>5, <2>6, Zenon DEF HeldInv, Placed
<1>9. CASE Admit(c)
  <2>1. UNCHANGED <<calls, queue>> /\ client[c].at = "admit" /\ r \in Requests
    BY <1>4, <1>9, Zenon DEF Admit, schedulerVars
  <2>2. Admissible(r) <=> state[r] = "Received"
    BY <1>2, <2>1, Transitions DEF Admissible
  <2>3. CASE ~Admissible(r)
    <3>1. SubmitEnd(c) /\ UNCHANGED state
      BY <1>9, <2>3 DEF Admit
    <3>2. HeldType'
      BY <1>2, <1>3, <1>7, <2>1, <3>1, ZenonT(60) DEF HeldType
    <3>3. SubmitHas(where)'
      BY <1>1, <1>7, <2>1, <3>1, SubmitElsewhere, Zenon DEF Placed
    <3>4. QueueHas(where)' /\ RoutingHas(where)' /\ LanesHave(where)' /\ WorkersHave(where)' /\ StateTells(where)'
      BY <1>1, <1>2, <1>3, <2>1, <3>1, QueueKeeps, RoutedKeeps, LanesKeep, WorkersKeep, StateKeeps, Zenon DEF Placed
    <3> QED
      BY <3>2, <3>3, <3>4 DEF HeldInv, Placed
  <2>4. CASE Admissible(r)
    <3>1. /\ state' = [state EXCEPT ![r] = "Queued"] /\ client' = [client EXCEPT ![c].at = "enqueue"]
          /\ state[r] = "Received"
      BY <1>9, <2>2, <2>4 DEF Admit
    <3>2. /\ client' \in [Clients -> [at : {"idle", "admit", "refused", "enqueue"}, request : Requests \cup {None}]]
          /\ \A d \in Clients \ {c} : client'[d] = client[d]
          /\ client'[c].at = "enqueue" /\ client'[c].request = r
      BY <1>5, <3>1
    <3>3. state' \in [Requests -> RequestState]
      BY <1>2, <3>1, Zenon DEF RequestState
    <3>4. HeldType'
      BY <1>2, <1>3, <2>1, <3>2, <3>3, Zenon DEF HeldType
    <3>5. PICK moved \in [Requests -> Stages] : moved = [where EXCEPT ![r] = "submit"]
      BY <1>1, <2>1, ZenonT(60) DEF Stages
    <3>6. where[r] = "none"
      BY <1>1, <2>1, <3>1, Zenon DEF Placed, StateTells
    <3>7. /\ moved[r] = "submit" /\ \A q \in Requests \ {r} : moved[q] = where[q]
          /\ \A q \in Requests : \A stage \in {"queue", "routing", "lane", "worker"} :
               where[q] = stage <=> moved[q] = stage
      BY <2>1, <3>5, <3>6, ZenonT(60)
    <3>8. SubmitHas(moved)'
      <4>1. \A d \in Clients : client[d].at = "enqueue" => client[d].request \in Requests
        BY <1>2, Zenon DEF HeldType
      <4>2. PICK own \in Requests : own = r
        BY <2>1, Zenon
      <4>3. /\ SubmitHas(where) /\ client[c].at # "enqueue"
            /\ client'[c].at = "enqueue" /\ client'[c].request = own
            /\ \A d \in Clients \ {c} : client'[d] = client[d]
            /\ where[own] = "none" /\ moved[own] = "submit"
            /\ \A q \in Requests \ {own} : moved[q] = where[q]
        BY <1>1, <2>1, <3>2, <3>6, <3>7, <4>2, Zenon DEF Placed
      <4> QED
        BY <4>1, <4>3, SubmitArrives
    <3>9. QueueHas(moved)' /\ RoutingHas(moved)' /\ LanesHave(moved)' /\ WorkersHave(moved)'
      BY <1>1, <1>2, <1>3, <2>1, <3>7, QueueKeeps, RoutedKeeps, LanesKeep, WorkersKeep, Zenon DEF Placed
    <3>10. StateTells(moved)'
      BY <1>1, <1>2, <3>1, <3>7 DEF Placed, StateTells
    <3> QED
      BY <3>4, <3>5, <3>8, <3>9, <3>10, Zenon DEF HeldInv, Placed
  <2> QED
    BY <2>3, <2>4
<1>10. CASE Enqueue(c)
  <2>1. UNCHANGED calls /\ client[c].at = "enqueue" /\ r \in Requests /\ SubmitEnd(c)
    BY <1>4, <1>10, Zenon DEF Enqueue
  <2>2. where[r] = "submit"
    BY <1>1, <2>1, ZenonT(60) DEF Placed, SubmitHas
  <2>3. ASSUME NEW moved, moved[r] # "submit", \A q \in Requests \ {r} : moved[q] = where[q]
        PROVE  SubmitHas(moved)'
    <3>1. \A d \in Clients : client[d].at = "enqueue" => client[d].request \in Requests
      BY <1>2, Zenon DEF HeldType
    <3>2. SubmitHas(where) /\ client[c].at = "enqueue"
      BY <1>1, <2>1, Zenon DEF Placed
    <3>3. client'[c].at = "idle" /\ \A d \in Clients \ {c} : client'[d] = client[d]
      BY <1>7, <2>1, Zenon
    <3>4. PICK own \in Requests : own = r
      BY <2>1, Zenon
    <3>5. client[c].request = own /\ moved[own] # "submit" /\ \A q \in Requests \ {own} : moved[q] = where[q]
      BY <2>3, <3>4
    <3> QED
      BY <3>1, <3>2, <3>3, <3>5, SubmitLeaves, SMTT(60)
  <2>4. CASE closed \/ Full
    <3>1. UNCHANGED queue /\ \E why \in {"RuntimeStopped", "QueueFull"} : try_reject(r, why)
      BY <1>10, <2>4, Zenon DEF Enqueue
    <3>2. /\ state' \in [Requests -> RequestState]
          /\ \A q \in Requests \ {r} : state'[q] = state[q]
          /\ state'[r] \in TerminalState
      <4>1. state[r] \notin {"Received", "Running"}
        BY <1>1, <2>1, <2>2, ZenonT(60) DEF Placed, StateTells
      <4>2. state[r] \in RequestState
        BY <1>2, <2>1
      <4> QED
        BY <1>2, <2>1, <3>1, <4>1, <4>2, Rejects, Zenon DEF TerminalState, RequestState
    <3>3. HeldType'
      BY <1>2, <1>3, <1>7, <2>1, <3>1, <3>2, Zenon DEF HeldType
    <3>4. PICK moved \in [Requests -> Stages] : moved = [where EXCEPT ![r] = "none"]
      BY <1>1, <2>1, Zenon DEF Stages
    <3>5. /\ moved[r] = "none" /\ \A q \in Requests \ {r} : moved[q] = where[q]
          /\ \A q \in Requests : \A stage \in {"queue", "routing", "lane", "worker"} :
               where[q] = stage <=> moved[q] = stage
      BY <2>1, <2>2, <3>4, Zenon
    <3>6. SubmitHas(moved)'
      BY <2>3, <3>5, Zenon
    <3>7. QueueHas(moved)' /\ RoutingHas(moved)' /\ LanesHave(moved)' /\ WorkersHave(moved)'
      BY <1>1, <1>2, <1>3, <3>1, <3>5, QueueKeeps, RoutedKeeps, LanesKeep, WorkersKeep DEF Placed
    <3>8. StateTells(moved)'
      BY <1>1, <3>2, <3>5, StateKeeps, Zenon DEF Placed
    <3> QED
      BY <3>3, <3>4, <3>6, <3>7, <3>8, ZenonT(60) DEF HeldInv, Placed
  <2>5. CASE ~(closed \/ Full)
    <3>1. queue' = Append(queue, r) /\ UNCHANGED state /\ queue \in Seq(Requests)
      BY <1>2, <1>10, <2>5, Zenon DEF Enqueue, requestVars, HeldType
    <3>2. /\ queue' \in Seq(Requests) /\ DOMAIN queue = 1..Len(queue) /\ DOMAIN queue' = 1..(Len(queue) + 1)
          /\ Len(queue) \in Nat /\ queue'[Len(queue) + 1] = r /\ \A i \in 1..Len(queue) : queue'[i] = queue[i]
      BY <2>1, <3>1
    <3>3. HeldType'
      BY <1>2, <1>3, <1>7, <2>1, <3>1, <3>2, Zenon DEF HeldType
    <3>4. PICK moved \in [Requests -> Stages] : moved = [where EXCEPT ![r] = "queue"]
      BY <1>1, <2>1, Zenon DEF Stages
    <3>5. /\ moved[r] = "queue" /\ \A q \in Requests \ {r} : moved[q] = where[q]
          /\ \A q \in Requests : \A stage \in {"routing", "lane", "worker"} :
               where[q] = stage <=> moved[q] = stage
      BY <2>1, <2>2, <3>4, Zenon
    <3>6. SubmitHas(moved)'
      BY <2>3, <3>5, ZenonT(60)
    <3>7. QueueHas(moved)'
      <4>1. \A i \in 1..Len(queue) : queue[i] \in Requests \ {r}
        BY <1>1, <2>2, <3>1, <3>2 DEF Placed, QueueHas
      <4> QED
        BY <1>1, <2>2, <3>1, <3>2, <3>5, <4>1, SMTT(60) DEF Placed, QueueHas
    <3>8. RoutingHas(moved)' /\ LanesHave(moved)' /\ WorkersHave(moved)'
      BY <1>1, <1>2, <1>3, <3>5, RoutedKeeps, LanesKeep, WorkersKeep DEF Placed
    <3>9. StateTells(moved)'
      BY <1>1, <2>2, <3>1, <3>5, ZenonT(60) DEF Placed, StateTells
    <3> QED
      BY <3>3, <3>4, <3>6, <3>7, <3>8, <3>9, Zenon DEF HeldInv, Placed
  <2> QED
    BY <2>4, <2>5, Zenon
<1> QED
  BY <1>6, <1>8, <1>9, <1>10, Zenon DEF Client

\* What next() does to the queue: it keeps some of the requests in an order of
\* their own, hands out at most one of the others, and the rest are dead.
Selects(kept) ==
  /\ queue' \in Seq(Requests)
  /\ kept \in [DOMAIN queue' -> DOMAIN queue]
  /\ \A i, j \in DOMAIN queue' : kept[i] = kept[j] => i = j
  /\ \A j \in DOMAIN queue' : queue'[j] = queue[kept[j]]
  /\ \/ request' = None /\ routing' \notin {"route", "enqueue"}
     \/ /\ routing' = "route"
        /\ \E i \in DOMAIN queue : request' = queue[i] /\ \A j \in DOMAIN queue' : kept[j] # i
  /\ \A i \in DOMAIN queue :
       \/ \E j \in DOMAIN queue' : kept[j] = i
       \/ request' = queue[i]
       \/ dead(queue[i])

\* next() of either scheduler selects in this way.
LEMMA NextSelects ==
  ASSUME HeldType, TakeNext
  PROVE  \E kept : Selects(kept)
<1> DEFINE n == Len(queue)
<1>1. queue \in Seq(Requests) /\ n \in Nat /\ DOMAIN queue = 1..n
  BY DEF HeldType
<1>2. request = None
  BY DEF HeldType, TakeNext
<1>3. ASSUME NEW i \in DOMAIN queue PROVE queue[i] \in Requests
  BY <1>1, <1>3
<1>4. CASE NextFifo /\ queue # <<>> /\ queue' = Tail(queue)
           /\ (IF dead(Head(queue)) THEN UNCHANGED <<routing, request>> ELSE Take(1))
  <2>1. PICK kept : kept = [j \in 1..(n - 1) |-> j + 1]
    BY Zenon
  <2>2. /\ queue' \in Seq(Requests) /\ DOMAIN queue' = 1..(n - 1) /\ n >= 1
        /\ \A j \in 1..(n - 1) : queue'[j] = queue[j + 1]
        /\ Head(queue) = queue[1]
    BY <1>1, <1>4
  <2>3. /\ kept \in [DOMAIN queue' -> DOMAIN queue]
        /\ \A i, j \in DOMAIN queue' : kept[i] = kept[j] => i = j
        /\ \A j \in DOMAIN queue' : queue'[j] = queue[kept[j]] /\ kept[j] # 1
    BY <1>1, <2>1, <2>2
  <2>4. ASSUME NEW i \in DOMAIN queue, i # 1 PROVE \E j \in DOMAIN queue' : kept[j] = i
    <3>1. i - 1 \in DOMAIN queue' /\ kept[i - 1] = i
      BY <1>1, <2>1, <2>2, <2>4
    <3> QED
      BY <3>1, Zenon
  <2>5. 1 \in DOMAIN queue
    BY <1>1, <2>2
  <2>6. CASE dead(queue[1])
    <3>1. request' = None /\ routing' = "next"
      BY <1>2, <1>4, <2>2, <2>6, Zenon DEF TakeNext
    <3>2. \A i \in DOMAIN queue : (\E j \in DOMAIN queue' : kept[j] = i) \/ dead(queue[i])
      BY <2>4, <2>6, Zenon
    <3>3. Selects(kept)
      BY <2>2, <2>3, <3>1, <3>2, Zenon DEF Selects
    <3> QED
      BY <3>3, Zenon
  <2>7. CASE ~dead(queue[1])
    <3>1. request' = queue[1] /\ routing' = "route"
      BY <1>4, <2>2, <2>7, Zenon DEF Take
    <3>2. \A i \in DOMAIN queue : (\E j \in DOMAIN queue' : kept[j] = i) \/ request' = queue[i]
      BY <2>4, <3>1, Zenon
    <3>3. Selects(kept)
      BY <2>2, <2>3, <2>5, <3>1, <3>2 DEF Selects
    <3> QED
      BY <3>3
  <2> QED
    BY <2>6, <2>7
<1>5. CASE queue' = <<>> /\ request' = None /\ routing' \notin {"route", "enqueue"}
           /\ \A i \in DOMAIN queue : dead(queue[i])
  <2>1. PICK kept : kept = [j \in {} |-> 1]
    OBVIOUS
  <2>2. queue' \in Seq(Requests) /\ DOMAIN queue' = {}
    BY <1>5
  <2>3. kept \in [DOMAIN queue' -> DOMAIN queue]
    BY <2>1, <2>2, Zenon
  <2>4. Selects(kept)
    BY <1>5, <2>2, <2>3 DEF Selects
  <2> QED
    BY <2>4
<1>6. CASE NextFifo /\ QueueDrained /\ routing' = "exited" /\ UNCHANGED <<queue, request>>
  <2>1. queue = <<>> /\ queue' = <<>> /\ DOMAIN queue = {} /\ request' = None
    BY <1>2, <1>6 DEF QueueDrained
  <2> QED
    BY <1>5, <1>6, <2>1
<1> DEFINE alive == {i \in DOMAIN queue : ~dead(queue[i])}
<1>7. ASSUME NEW i \in alive, NEW kept \in Passes(alive \ {i}, Len(queue)),
             queue' = Along(kept, queue), Take(i)
      PROVE  Selects(kept)
  <2> DEFINE S == alive \ {i}
  <2>1. /\ queue' \in Seq(Requests) /\ DOMAIN queue' = DOMAIN kept
        /\ kept \in [DOMAIN kept -> S]
        /\ \A j \in DOMAIN kept : queue'[j] = queue[kept[j]]
    <3>1. S \in SUBSET (DOMAIN queue)
      BY Zenon
    <3>2. queue' = [j \in DOMAIN kept |-> queue[kept[j]]] /\ kept \in Passes(S, Len(queue))
      BY <1>7, Zenon DEF Along
    <3> HIDE DEF S
    <3>3. PICK m \in 0..Len(queue) : kept \in [1..m -> S]
      BY <3>2, Zenon DEF Passes
    <3>4. DOMAIN kept = 1..m /\ m \in Nat
      BY <1>1, <3>3
    <3>5. \A j \in 1..m : queue[kept[j]] \in Requests
      BY <1>1, <3>1, <3>3
    <3> QED
      BY <3>2, <3>3, <3>4, <3>5
  <2>2. /\ \A k, j \in DOMAIN kept : kept[k] = kept[j] => k = j
        /\ \A x \in S : \E j \in DOMAIN kept : kept[j] = x
    <3>1. /\ \A k, j \in DOMAIN kept : k < j => kept[k] < kept[j]
          /\ \A x \in S : \E j \in DOMAIN kept : kept[j] = x
      BY <1>7, Zenon DEF Passes
    <3>2. DOMAIN kept \in SUBSET Nat /\ \A j \in DOMAIN kept : kept[j] \in Nat
      BY <1>1, <2>1
    <3> QED
      BY <3>1, <3>2
  <2>3. /\ kept \in [DOMAIN queue' -> DOMAIN queue]
        /\ \A j \in DOMAIN queue' : kept[j] \in S
    BY <2>1, Zenon
  <2>4. ASSUME NEW j \in DOMAIN queue
        PROVE  \/ \E k \in DOMAIN queue' : kept[k] = j
               \/ request' = queue[j]
               \/ dead(queue[j])
    BY <1>7, <2>1, <2>2, Zenon DEF Take
  <2>5. routing' = "route" /\ request' = queue[i] /\ i \in DOMAIN queue
    BY <1>7, Zenon DEF Take
  <2> HIDE DEF S
  <2>6. \A j \in DOMAIN queue' : kept[j] # i
    BY <2>3, Zenon DEF S
  <2>7. \A k, j \in DOMAIN queue' : kept[k] = kept[j] => k = j
    BY <2>1, <2>2, Zenon
  <2>8. \A j \in DOMAIN queue' : queue'[j] = queue[kept[j]]
    BY <2>1, <2>2, Zenon
  <2> QED
    BY <2>2, <2>3, <2>4, <2>5, <2>6, <2>7, <2>8, <2>1, Zenon DEF Selects
<1>8. CASE NextWorkload /\ alive = {} /\ queue' = <<>> /\ UNCHANGED request
           /\ routing' = (IF closed THEN "exited" ELSE "gave up")
  BY <1>2, <1>5, <1>8, ZenonT(60)
<1> QED
  BY <1>4, <1>6, <1>7, <1>8, ZenonT(60) DEF TakeNext, NextFifo, NextWorkload

\* A step of next() moves one request to the routing thread at most and loses
\* only dead ones.
LEMMA TakeNextKeeps ==
  ASSUME HeldInv, TakeNext
  PROVE  HeldInv'
<1>1. PICK where \in [Requests -> Stages] : Placed(where)
  BY Zenon DEF HeldInv
<1>2. HeldType /\ queue \in Seq(Requests)
  BY Zenon DEF HeldInv, HeldType
<1>3. UNCHANGED <<state, client, calls, target, lane, current>>
  BY DEF TakeNext, requestVars, submitVars, workerVars
<1>4. PICK kept : Selects(kept)
  BY <1>2, NextSelects, Zenon
<1>5. request = None /\ None \notin Requests
  BY <1>2, ConfigAssumption DEF HeldType, TakeNext
<1> DEFINE Stays(q) == \E j \in DOMAIN queue' : queue'[j] = q
<1>6. PICK moved : moved = [q \in Requests |-> IF Stays(q) THEN "queue" ELSE
                                             IF request' = q THEN "routing" ELSE
                                             IF where[q] = "queue" THEN "none" ELSE where[q]]
  BY ZenonT(60)
<1>7. moved \in [Requests -> Stages]
  BY <1>1, <1>6, Zenon DEF Stages
<1>8. \A i \in DOMAIN queue : queue[i] \in Requests /\ where[queue[i]] = "queue"
  BY <1>1, <1>2 DEF Placed, QueueHas
<1>9. ASSUME NEW q \in Requests, Stays(q) \/ request' = q PROVE where[q] = "queue"
  <2>1. CASE Stays(q)
    BY <1>4, <1>8, <2>1 DEF Selects
  <2>2. CASE request' = q
    BY <1>4, <1>5, <1>8, <2>2, Zenon DEF Selects
  <2> QED
    BY <1>9, <2>1, <2>2, Zenon
<1>10. ASSUME NEW q \in Requests, request' = q PROVE ~Stays(q)
  <2> SUFFICES ASSUME NEW j \in DOMAIN queue', queue'[j] = q PROVE FALSE
    BY Zenon
  <2>1. PICK i \in DOMAIN queue : request' = queue[i] /\ kept[j] # i
    BY <1>4, <1>5, <1>10, Zenon DEF Selects
  <2>2. kept[j] \in DOMAIN queue /\ queue[kept[j]] = q
    BY <1>4, Zenon DEF Selects
  <2> QED
    BY <1>1, <1>10, <2>1, <2>2, Zenon DEF Placed, QueueHas
<1>11. ASSUME NEW q \in Requests
       PROVE  /\ moved[q] = "queue" <=> Stays(q)
              /\ moved[q] = "routing" <=> request' = q
              /\ where[q] # "queue" => moved[q] = where[q]
              /\ where[q] = "queue" => moved[q] \in {"queue", "routing", "none"}
  <2>1. where[q] # "routing"
    BY <1>1, <1>5, Zenon DEF Placed, RoutingHas
  <2> HIDE DEF Stays
  <2> QED
    BY <1>6, <1>9, <1>10, <2>1, Zenon
<1>12. QueueHas(moved)'
  <2>1. \A j \in DOMAIN queue' : queue'[j] \in Requests
    BY <1>4 DEF Selects
  <2>2. \A i, j \in DOMAIN queue' : queue'[i] = queue'[j] => i = j
    <3> SUFFICES ASSUME NEW i \in DOMAIN queue', NEW j \in DOMAIN queue', queue'[i] = queue'[j]
                 PROVE  i = j
      BY Zenon
    <3>1. kept[i] \in DOMAIN queue /\ kept[j] \in DOMAIN queue /\ queue[kept[i]] = queue[kept[j]]
      BY <1>4, ZenonT(60) DEF Selects
    <3>2. kept[i] = kept[j]
      BY <1>1, <3>1 DEF Placed, QueueHas
    <3> QED
      BY <1>4, <3>2 DEF Selects
  <2>3. \A j \in DOMAIN queue' : moved[queue'[j]] = "queue"
    BY <1>11, <2>1, Zenon
  <2>4. \A q \in Requests : moved[q] = "queue" => \E j \in DOMAIN queue' : queue'[j] = q
    BY <1>11, Zenon
  <2> QED
    BY <2>2, <2>3, <2>4, Zenon DEF QueueHas
<1>13. RoutingHas(moved)'
  BY <1>11, Zenon DEF RoutingHas
<1>14. SubmitHas(moved)' /\ LanesHave(moved)' /\ WorkersHave(moved)'
  <2>1. \A q \in Requests : \A stage \in {"submit", "lane", "worker"} : where[q] = stage <=> moved[q] = stage
    BY <1>11, ZenonT(60)
  <2> QED
    BY <1>1, <1>2, <1>3, <2>1, SubmitKeeps, LanesKeep, WorkersKeep, Zenon DEF Placed
<1>15. StateTells(moved)'
  <2>1. ASSUME NEW q \in Requests, where[q] = "queue"
        PROVE  moved[q] \in {"queue", "routing"} \/ dead(q)
    <3>1. PICK i \in DOMAIN queue : queue[i] = q
      BY <1>1, <2>1, ZenonT(60) DEF Placed, QueueHas
    <3>2. CASE \E j \in DOMAIN queue' : kept[j] = i
      BY <1>4, <1>11, <3>1, <3>2 DEF Selects
    <3>3. CASE request' = queue[i]
      BY <1>11, <3>1, <3>3, Zenon
    <3> QED
      BY <1>4, <3>1, <3>2, <3>3, Zenon DEF Selects
  <2>2. ASSUME NEW q \in Requests, dead(q) PROVE state[q] \notin {"Received", "Queued", "Running"}
    BY <1>2, <2>2, Transitions, Zenon DEF HeldType, dead
  <2> QED
    BY <1>1, <1>3, <1>11, <2>1, <2>2 DEF Placed, StateTells
<1>16. HeldType'
  <2>1. request' \in Requests \cup {None} /\ (request' # None <=> routing' \in {"route", "enqueue"})
    BY <1>4, <1>5, <1>8, SMTT(60) DEF Selects
  <2>2. routing' # "enqueue" /\ queue' \in Seq(Requests)
    BY <1>4 DEF Selects
  <2> QED
    BY <1>2, <1>3, <2>1, <2>2, ZenonT(60) DEF HeldType
<1> QED
  BY <1>7, <1>12, <1>13, <1>14, <1>15, <1>16 DEF HeldInv, Placed

\* The routing thread lets go of a request that has ended.
LEMMA LetGo ==
  ASSUME HeldInv, request \in Requests, Routed,
         UNCHANGED <<client, calls, queue, lane, current>>,
         \/ dead(request) /\ UNCHANGED state
         \/ \E why : try_reject(request, why)
  PROVE  HeldInv'
<1>1. PICK where \in [Requests -> Stages] : Placed(where)
  BY Zenon DEF HeldInv
<1>2. HeldType /\ state \in [Requests -> RequestState] /\ None \notin Requests
  BY ConfigAssumption, Zenon DEF HeldInv, HeldType
<1>3. where[request] = "routing"
  BY <1>1, Zenon DEF Placed, RoutingHas
<1>4. /\ state' \in [Requests -> RequestState]
      /\ \A q \in Requests \ {request} : state'[q] = state[q]
      /\ state'[request] \in TerminalState
  <2>1. state[request] \notin {"Received", "Running"} /\ state[request] \in RequestState
    BY <1>1, <1>2, <1>3, Zenon DEF Placed, StateTells
  <2>2. CASE dead(request) /\ UNCHANGED state
    BY <1>2, <2>2, Zenon DEF dead, is_terminal_state
  <2>3. CASE \E why : try_reject(request, why)
    BY <1>2, <2>1, <2>3, Rejects, Zenon DEF TerminalState, RequestState
  <2> QED
    BY <2>2, <2>3, Zenon
<1>5. routing' = "next" /\ request' = None
  BY Zenon DEF Routed
<1>6. HeldType'
  BY <1>2, <1>4, <1>5 DEF HeldType
<1>7. PICK moved \in [Requests -> Stages] : moved = [where EXCEPT ![request] = "none"]
  BY <1>1, Zenon DEF Stages
<1>8. /\ \A q \in Requests \ {request} : moved[q] = where[q]
      /\ moved[request] = "none"
      /\ \A q \in Requests : \A stage \in {"submit", "queue", "lane", "worker"} :
           where[q] = stage <=> moved[q] = stage
  BY <1>3, <1>7, Zenon
<1>9. RoutingHas(moved)'
  BY <1>1, <1>2, <1>5, <1>8, Zenon DEF Placed, RoutingHas
<1>10. SubmitHas(moved)' /\ QueueHas(moved)' /\ LanesHave(moved)' /\ WorkersHave(moved)'
  BY <1>1, <1>2, <1>8, SubmitKeeps, QueueKeeps, LanesKeep, WorkersKeep, Zenon DEF Placed
<1>11. StateTells(moved)'
  BY <1>1, <1>4, <1>8, StateKeeps DEF Placed
<1> QED
  BY <1>6, <1>7, <1>9, <1>10, <1>11, Zenon DEF HeldInv, Placed

\* A request appended to a lane is there and nowhere else.
LEMMA LaneArrives ==
  ASSUME NEW where, NEW moved, LanesHave(where), lane \in [Workers -> Seq(Requests)],
         NEW w \in Workers, NEW r \in Requests, lane' = [lane EXCEPT ![w] = Append(@, r)],
         where[r] # "lane", moved[r] = "lane",
         \A q \in Requests \ {r} : moved[q] = where[q]
  PROVE  lane' \in [Workers -> Seq(Requests)] /\ LanesHave(moved)'
<1> DEFINE n == Len(lane[w])
<1>1. /\ n \in Nat /\ DOMAIN lane[w] = 1..n /\ DOMAIN lane'[w] = 1..(n + 1)
      /\ lane'[w][n + 1] = r /\ \A i \in 1..n : lane'[w][i] = lane[w][i]
      /\ \A v \in Workers \ {w} : lane'[v] = lane[v]
      /\ lane' \in [Workers -> Seq(Requests)]
  BY SMTT(60)
<1>2. \A v \in Workers : \A i \in DOMAIN lane[v] : lane[v][i] \in Requests \ {r}
  BY DEF LanesHave
<1> HIDE DEF n
<1>3. ASSUME NEW v \in Workers, NEW i \in DOMAIN lane'[v]
      PROVE  \/ v = w /\ i = n + 1 /\ lane'[v][i] = r
             \/ i \in DOMAIN lane[v] /\ lane'[v][i] = lane[v][i] /\ lane[v][i] \in Requests \ {r}
  <2>1. CASE v = w /\ i = n + 1
    BY <1>1, <2>1, ZenonT(60)
  <2>2. CASE v = w /\ i # n + 1
    BY <1>1, <1>2, <2>2
  <2>3. CASE v # w
    BY <1>1, <1>2, <2>3, Zenon
  <2> QED
    BY <2>1, <2>2, <2>3, Zenon
<1>4. ASSUME NEW q \in Requests, moved[q] = "lane"
      PROVE  \E v \in Workers : \E i \in DOMAIN lane'[v] : lane'[v][i] = q
  <2>1. CASE q = r
    <3>1. n + 1 \in DOMAIN lane'[w] /\ lane'[w][n + 1] = q
      BY <1>1, <2>1, SMTT(60)
    <3> QED
      BY <3>1, ZenonT(60)
  <2>2. CASE q # r
    <3>0. PICK v \in Workers : \E i \in DOMAIN lane[v] : lane[v][i] = q
      BY <1>4, <2>2, Zenon DEF LanesHave
    <3>1. PICK i \in DOMAIN lane[v] : lane[v][i] = q
      BY <3>0, ZenonT(60)
    <3>2. i \in DOMAIN lane'[v] /\ lane'[v][i] = q
      BY <1>1, <3>1, SMTT(60)
    <3> QED
      BY <3>2
  <2> QED
    BY <2>1, <2>2, Zenon
<1>5. ASSUME NEW u \in Workers, NEW v \in Workers, NEW i \in DOMAIN lane'[u], NEW j \in DOMAIN lane'[v],
             lane'[u][i] = lane'[v][j]
      PROVE  u = v /\ i = j
  BY <1>3, <1>5, SMTT(60) DEF LanesHave
<1>6. ASSUME NEW v \in Workers, NEW i \in DOMAIN lane'[v] PROVE moved[lane'[v][i]] = "lane"
  BY <1>3, SMTT(60) DEF LanesHave
<1> QED
  BY <1>1, <1>4, <1>5, <1>6, ZenonT(60) DEF LanesHave

\* The routing thread lets go of its request or puts it into one lane.
LEMMA RouteKeeps ==
  ASSUME HeldInv, Route \/ EnqueueOnWorker
  PROVE  HeldInv'
<1>1. PICK where \in [Requests -> Stages] : Placed(where)
  BY DEF HeldInv
<1>2. HeldType /\ state \in [Requests -> RequestState] /\ None \notin Requests
  BY ConfigAssumption, Zenon DEF HeldInv, HeldType
<1>3. UNCHANGED <<client, calls, queue, current>> /\ request \in Requests
  BY <1>2, Zenon DEF Route, EnqueueOnWorker, submitVars, schedulerVars, workerVars, HeldType
<1>4. where[request] = "routing"
  BY <1>1, <1>3, Zenon DEF Placed, RoutingHas
<1>5. CASE Route
  <2>1. UNCHANGED lane
    BY <1>5, Zenon DEF Route, workerVars
  <2>2. CASE Routed /\ ((dead(request) /\ UNCHANGED requestVars) \/ RejectInfeasible)
    BY <1>3, <2>1, <2>2, LetGo, Zenon DEF RejectInfeasible, requestVars
  <2>3. CASE target' \in Feasible(request) /\ routing' = "enqueue" /\ UNCHANGED <<requestVars, request>>
    <3>1. UNCHANGED <<state, request>> /\ target' \in Workers
      BY <2>3, Zenon DEF requestVars, Feasible
    <3>2. HeldType'
      BY <1>2, <1>3, <2>1, <2>3, <3>1, Zenon DEF HeldType
    <3>3. SubmitHas(where)' /\ QueueHas(where)' /\ RoutingHas(where)' /\ LanesHave(where)' /\ WorkersHave(where)'
      BY <1>1, <1>2, <1>3, <2>1, <3>1, SubmitKeeps, QueueKeeps, RoutedKeeps, LanesKeep, WorkersKeep, Zenon DEF Placed
    <3>4. StateTells(where)'
      BY <1>1, <3>1, StateKeeps, Zenon DEF Placed
    <3> QED
      BY <3>2, <3>3, <3>4, Zenon DEF HeldInv, Placed
  <2> QED
    BY <1>5, <2>2, <2>3, Zenon DEF Route, RejectInfeasible
<1>6. CASE EnqueueOnWorker
  <2>1. Routed /\ target \in Workers
    BY <1>2, <1>6, Zenon DEF EnqueueOnWorker, HeldType
  <2>2. CASE UNCHANGED lane /\ ((dead(request) /\ UNCHANGED requestVars) \/ \E why : try_reject(request, why))
    BY <1>3, <2>1, <2>2, LetGo DEF requestVars
  <2>3. CASE ~dead(request) /\ lane' = [lane EXCEPT ![target] = Append(@, request)] /\ UNCHANGED requestVars
    <3>1. UNCHANGED state /\ routing' = "next" /\ request' = None
      BY <2>1, <2>3 DEF requestVars, Routed
    <3>2. PICK moved \in [Requests -> Stages] : moved = [where EXCEPT ![request] = "lane"]
      BY <1>1, <1>3, Zenon DEF Stages
    <3>3. /\ \A q \in Requests \ {request} : moved[q] = where[q]
          /\ moved[request] = "lane"
          /\ \A q \in Requests : \A stage \in {"submit", "queue", "worker"} :
               where[q] = stage <=> moved[q] = stage
      BY <1>3, <1>4, <3>2
    <3>4. lane' \in [Workers -> Seq(Requests)] /\ LanesHave(moved)'
      <4>1. lane \in [Workers -> Seq(Requests)] /\ LanesHave(where)
        BY <1>1, <1>2 DEF Placed, HeldType
      <4>2. where[request] # "lane"
        BY <1>4
      <4>3. PICK w, r : w = target /\ r = request
        BY Zenon
      <4> QED
        BY <1>3, <2>1, <2>3, <3>3, <4>1, <4>2, <4>3, LaneArrives, ZenonT(60)
    <3>5. HeldType'
      BY <1>2, <1>3, <3>1, <3>4, Zenon DEF HeldType
    <3>6. RoutingHas(moved)'
      BY <1>1, <1>2, <3>1, <3>3, Zenon DEF Placed, RoutingHas
    <3>7. SubmitHas(moved)' /\ QueueHas(moved)' /\ WorkersHave(moved)'
      BY <1>1, <1>2, <1>3, <3>3, SubmitKeeps, QueueKeeps, WorkersKeep, Zenon DEF Placed
    <3>8. StateTells(moved)'
      BY <1>1, <1>4, <3>1, <3>3, Zenon DEF Placed, StateTells
    <3> QED
      BY <3>2, <3>4, <3>5, <3>6, <3>7, <3>8, Zenon DEF HeldInv, Placed
  <2> QED
    BY <1>6, <2>2, <2>3, Zenon DEF EnqueueOnWorker
<1> QED
  BY <1>5, <1>6

\* The first request of a lane leaves it.
LEMMA LaneLeaves ==
  ASSUME NEW where, NEW moved, LanesHave(where), lane \in [Workers -> Seq(Requests)],
         NEW w \in Workers, lane[w] # <<>>, lane' = [lane EXCEPT ![w] = Tail(@)],
         NEW r \in Requests, r = Head(lane[w]), moved[r] # "lane",
         \A q \in Requests \ {r} : moved[q] = where[q]
  PROVE  lane' \in [Workers -> Seq(Requests)] /\ LanesHave(moved)'
<1> DEFINE n == Len(lane[w])
<1>1. /\ n \in Nat /\ n >= 1 /\ DOMAIN lane[w] = 1..n /\ DOMAIN lane'[w] = 1..(n - 1)
      /\ lane[w][1] = r /\ \A i \in 1..(n - 1) : lane'[w][i] = lane[w][i + 1]
      /\ \A v \in Workers \ {w} : lane'[v] = lane[v]
      /\ lane' \in [Workers -> Seq(Requests)]
      /\ \A v \in Workers : \A i \in DOMAIN lane[v] : lane[v][i] \in Requests /\ i \in Nat
  <2>1. lane[w] \in Seq(Requests) /\ lane'[w] = Tail(lane[w]) /\ \A v \in Workers \ {w} : lane'[v] = lane[v]
    BY Zenon
  <2>2. n \in Nat /\ n >= 1 /\ DOMAIN lane[w] = 1..n /\ lane[w][1] = r
    BY <2>1
  <2>3. /\ DOMAIN lane'[w] = 1..(n - 1) /\ lane'[w] \in Seq(Requests)
        /\ \A i \in 1..(n - 1) : lane'[w][i] = lane[w][i + 1]
    BY <2>1, <2>2
  <2>4. lane' \in [Workers -> Seq(Requests)]
    BY <2>3, Zenon
  <2>5. ASSUME NEW v \in Workers, NEW i \in DOMAIN lane[v] PROVE lane[v][i] \in Requests /\ i \in Nat
    <3>1. lane[v] \in Seq(Requests)
      OBVIOUS
    <3> QED
      BY <3>1
  <2> QED
    BY <2>1, <2>2, <2>3, <2>4, <2>5, Zenon
<1> HIDE DEF n
<1>2. PICK shift \in [Workers -> {0, 1}] : shift[w] = 1 /\ \A v \in Workers \ {w} : shift[v] = 0
  <2>1. [v \in Workers |-> IF v = w THEN 1 ELSE 0] \in [Workers -> {0, 1}]
    BY Zenon
  <2> QED
    BY <2>1, Zenon
<1>3. ASSUME NEW v \in Workers, NEW i \in DOMAIN lane'[v]
      PROVE  /\ i \in Nat /\ i + shift[v] \in DOMAIN lane[v] /\ lane'[v][i] = lane[v][i + shift[v]]
             /\ lane'[v][i] \in Requests \ {r}
  <2>1. CASE v = w
    <3>1. i \in Nat /\ i + shift[v] = i + 1 /\ i + 1 \in 1..n /\ i + 1 # 1 /\ lane'[v][i] = lane[v][i + 1]
      BY <1>1, <1>2, <2>1, SMTT(60)
    <3>2. 1 \in 1..n
      BY <1>1, SMTT(60)
    <3>3. lane[w][i + 1] # lane[w][1]
      BY <1>1, <2>1, <3>1, <3>2, SMTT(60) DEF LanesHave
    <3> QED
      BY <1>1, <2>1, <3>1, <3>3, ZenonT(60)
  <2>2. CASE v # w
    <3>1. lane'[v] = lane[v] /\ i \in Nat /\ shift[v] = 0
      BY <1>1, <1>2, <2>2, ZenonT(60)
    <3>2. 1 \in DOMAIN lane[w] /\ i \in DOMAIN lane[v]
      BY <1>1, <3>1, SMTT(60)
    <3>3. lane[v][i] # lane[w][1]
      BY <2>2, <3>2 DEF LanesHave
    <3> QED
      BY <1>1, <3>1, <3>2, <3>3, SMTT(60)
  <2> QED
    BY <2>1, <2>2, Zenon
<1>4. ASSUME NEW q \in Requests, moved[q] = "lane"
      PROVE  \E v \in Workers : \E i \in DOMAIN lane'[v] : lane'[v][i] = q
  <2>1. q # r /\ where[q] = "lane"
    BY <1>4, Zenon
  <2>2. PICK v \in Workers : \E i \in DOMAIN lane[v] : lane[v][i] = q
    BY <2>1, Zenon DEF LanesHave
  <2>3. PICK i \in DOMAIN lane[v] : lane[v][i] = q
    BY <2>2, Zenon
  <2>4. CASE v = w
    <3>1. i \in 1..n /\ i # 1
      BY <1>1, <2>1, <2>3, <2>4, ZenonT(60)
    <3>2. i - 1 \in DOMAIN lane'[v] /\ lane'[v][i - 1] = q
      BY <1>1, <2>3, <2>4, <3>1
    <3> QED
      BY <3>2, Zenon
  <2>5. CASE v # w
    BY <1>1, <2>3, <2>5, ZenonT(60)
  <2> QED
    BY <2>4, <2>5, Zenon
<1>5. ASSUME NEW u \in Workers, NEW v \in Workers, NEW i \in DOMAIN lane'[u], NEW j \in DOMAIN lane'[v],
             lane'[u][i] = lane'[v][j]
      PROVE  u = v /\ i = j
  <2>1. PICK k, l : k = i + shift[u] /\ l = j + shift[v]
    BY Zenon
  <2>2. /\ k \in DOMAIN lane[u] /\ l \in DOMAIN lane[v] /\ lane[u][k] = lane[v][l]
        /\ i \in Nat /\ j \in Nat
    BY <1>3, <1>5, <2>1, SMTT(60)
  <2>3. u = v /\ k = l
    BY <2>2 DEF LanesHave
  <2> QED
    BY <1>2, <2>1, <2>2, <2>3, SMTT(60)
<1>6. ASSUME NEW v \in Workers, NEW i \in DOMAIN lane'[v] PROVE moved[lane'[v][i]] = "lane"
  <2>1. PICK k : k = i + shift[v]
    BY Zenon
  <2>2. k \in DOMAIN lane[v] /\ lane'[v][i] = lane[v][k] /\ lane[v][k] \in Requests \ {r}
    BY <1>3, <2>1, ZenonT(60)
  <2>3. where[lane[v][k]] = "lane"
    BY <2>2 DEF LanesHave
  <2> QED
    BY <2>2, <2>3, Zenon
<1> QED
  BY <1>1, <1>4, <1>5, <1>6, Zenon DEF LanesHave

\* A worker takes the first request of its lane, or ends the one it executes.
LEMMA WorkerKeeps ==
  ASSUME HeldInv, NEW w \in Workers, WorkerTake(w) \/ WorkerEnds(w)
  PROVE  HeldInv'
<1>1. PICK where \in [Requests -> Stages] : Placed(where)
  BY Zenon DEF HeldInv
<1>2. /\ HeldType /\ state \in [Requests -> RequestState] /\ None \notin Requests
      /\ lane \in [Workers -> Seq(Requests)] /\ current \in [Workers -> Requests \cup {None}]
  BY ConfigAssumption, ZenonT(60) DEF HeldInv, HeldType
<1>3. UNCHANGED <<client, calls, queue, request, routing, target>>
  BY DEF WorkerTake, WorkerEnds, submitVars, schedulerVars, routingVars
<1>4. CASE WorkerTake(w)
  <2>1. PICK r \in Requests : r = Head(lane[w]) /\ r = lane[w][1]
    BY <1>2, <1>4 DEF WorkerTake
  <2>2. where[r] = "lane"
    <3>1. 1 \in DOMAIN lane[w]
      BY <1>2, <1>4 DEF WorkerTake
    <3>2. \A i \in DOMAIN lane[w] : where[lane[w][i]] = "lane"
      BY <1>1, Zenon DEF Placed, LanesHave
    <3> QED
      BY <2>1, <3>1, <3>2, ZenonT(60)
  <2>3. is_valid_transition(state[r], "Running") <=> state[r] = "Queued"
    BY <1>2, Transitions, ZenonT(60)
  <2>4. lane[w] # <<>> /\ lane' = [lane EXCEPT ![w] = Tail(@)] /\ current[w] = None
    BY <1>4 DEF WorkerTake
  <2>5. CASE state[r] = "Queued"
    <3>1. state' = [state EXCEPT ![r] = "Running"] /\ current' = [current EXCEPT ![w] = r]
      BY <1>4, <2>1, <2>3, <2>5 DEF WorkerTake
    <3>2. PICK moved \in [Requests -> Stages] : moved = [where EXCEPT ![r] = "worker"]
      BY <1>1, Zenon DEF Stages
    <3>3. /\ \A q \in Requests \ {r} : moved[q] = where[q]
          /\ moved[r] = "worker"
          /\ \A q \in Requests : \A stage \in {"submit", "queue", "routing"} :
               where[q] = stage <=> moved[q] = stage
      BY <2>2, <3>2
    <3>4. lane' \in [Workers -> Seq(Requests)] /\ LanesHave(moved)'
      <4>1. LanesHave(where) /\ moved[r] # "lane"
        BY <1>1, <3>3, Zenon DEF Placed
      <4>2. lane \in [Workers -> Seq(Requests)] /\ r = Head(lane[w])
        BY <1>2, <2>1, Zenon
      <4>3. \A q \in Requests \ {r} : moved[q] = where[q]
        BY <3>3, ZenonT(60)
      <4> QED
        BY <2>4, <4>1, <4>2, <4>3, LaneLeaves, Zenon
    <3>5. WorkersHave(moved)' /\ current' \in [Workers -> Requests \cup {None}]
      BY <1>1, <1>2, <2>2, <2>4, <3>1, <3>3 DEF Placed, WorkersHave
    <3>6. SubmitHas(moved)' /\ QueueHas(moved)' /\ RoutingHas(moved)'
      BY <1>1, <1>2, <1>3, <3>3, SubmitKeeps, QueueKeeps, RoutedKeeps, Zenon DEF Placed
    <3>7. StateTells(moved)' /\ state' \in [Requests -> RequestState]
      BY <1>1, <1>2, <3>1, <3>3, ZenonT(60) DEF Placed, StateTells, RequestState
    <3>8. HeldType'
      BY <1>2, <1>3, <3>4, <3>5, <3>7 DEF HeldType
    <3> QED
      BY <3>2, <3>4, <3>5, <3>6, <3>7, <3>8, ZenonT(60) DEF HeldInv, Placed
  <2>6. CASE state[r] # "Queued"
    <3>1. UNCHANGED <<state, current>>
      BY <1>4, <2>1, <2>3, <2>6 DEF WorkerTake
    <3>2. PICK moved \in [Requests -> Stages] : moved = [where EXCEPT ![r] = "none"]
      BY <1>1, Zenon DEF Stages
    <3>3. /\ \A q \in Requests \ {r} : moved[q] = where[q]
          /\ moved[r] = "none"
          /\ \A q \in Requests : \A stage \in {"submit", "queue", "routing", "worker"} :
               where[q] = stage <=> moved[q] = stage
      BY <2>2, <3>2, Zenon
    <3>4. lane' \in [Workers -> Seq(Requests)] /\ LanesHave(moved)'
      <4>1. LanesHave(where) /\ moved[r] # "lane"
        BY <1>1, <3>3, Zenon DEF Placed
      <4>2. lane \in [Workers -> Seq(Requests)] /\ r = Head(lane[w])
        BY <1>2, <2>1
      <4>3. \A q \in Requests \ {r} : moved[q] = where[q]
        BY <3>3
      <4> QED
        BY <2>4, <4>1, <4>2, <4>3, LaneLeaves, Zenon
    <3>5. SubmitHas(moved)' /\ QueueHas(moved)' /\ RoutingHas(moved)' /\ WorkersHave(moved)'
      BY <1>1, <1>2, <1>3, <3>1, <3>3, SubmitKeeps, QueueKeeps, RoutedKeeps, WorkersKeep, Zenon DEF Placed
    <3>6. StateTells(moved)'
      BY <1>1, <2>2, <2>6, <3>1, <3>3, ZenonT(60) DEF Placed, StateTells
    <3>7. HeldType'
      BY <1>2, <1>3, <3>1, <3>4 DEF HeldType
    <3> QED
      BY <3>2, <3>4, <3>5, <3>6, <3>7, ZenonT(60) DEF HeldInv, Placed
  <2> QED
    BY <2>5, <2>6, ZenonT(60)
<1>5. CASE WorkerEnds(w)
  <2>1. PICK r \in Requests : r = current[w]
    BY <1>2, <1>5, Zenon DEF WorkerEnds
  <2>2. where[r] = "worker"
    BY <1>1, <1>5, <2>1, Zenon DEF Placed, WorkersHave, WorkerEnds
  <2>3. state[r] \notin {"Received", "Queued"} /\ state[r] \in RequestState
    BY <1>1, <1>2, <2>2, Zenon DEF Placed, StateTells
  <2>4. is_valid_transition(state[r], "Completed") <=> state[r] = "Running"
    BY <1>2, Transitions, Zenon
  <2>5. UNCHANGED lane /\ current' = [current EXCEPT ![w] = None]
    BY <1>5, Zenon DEF WorkerEnds
  <2>6. state' = IF state[r] = "Running" THEN [state EXCEPT ![r] = "Completed"] ELSE state
    BY <1>5, <2>1, <2>4, Zenon DEF WorkerEnds
  <2>7. /\ state' \in [Requests -> RequestState]
        /\ \A q \in Requests \ {r} : state'[q] = state[q]
        /\ state'[r] \in TerminalState
    BY <1>2, <2>3, <2>6, Zenon DEF TerminalState, RequestState
  <2>8. PICK moved \in [Requests -> Stages] : moved = [where EXCEPT ![r] = "none"]
    BY <1>1, Zenon DEF Stages
  <2>9. /\ \A q \in Requests \ {r} : moved[q] = where[q]
        /\ moved[r] = "none"
        /\ \A q \in Requests : \A stage \in {"submit", "queue", "routing", "lane"} :
             where[q] = stage <=> moved[q] = stage
    BY <2>2, <2>8, Zenon
  <2>10. WorkersHave(moved)' /\ current' \in [Workers -> Requests \cup {None}]
    <3>1. /\ current' \in [Workers -> Requests \cup {None}] /\ current'[w] = None
          /\ \A v \in Workers \ {w} : current'[v] = current[v]
      BY <1>2, <2>5, ZenonT(60)
    <3>2. ASSUME NEW v \in Workers, current'[v] # None
          PROVE  current'[v] = current[v] /\ current[v] \in Requests \ {r} /\ moved[current[v]] = "worker"
      BY <1>1, <1>2, <2>1, <2>9, <3>1, <3>2 DEF Placed, WorkersHave
    <3>3. ASSUME NEW q \in Requests, moved[q] = "worker" PROVE \E v \in Workers : current'[v] = q
      <4>1. q # r /\ where[q] = "worker"
        BY <2>9, <3>3, Zenon
      <4>2. PICK v \in Workers : current[v] = q
        BY <1>1, <4>1, ZenonT(60) DEF Placed, WorkersHave
      <4> QED
        BY <2>1, <3>1, <4>1, <4>2, Zenon
    <3>4. ASSUME NEW u \in Workers, NEW v \in Workers, current'[u] = current'[v], current'[u] # None
          PROVE  u = v
      BY <1>1, <3>2, <3>4, ZenonT(60) DEF Placed, WorkersHave
    <3> QED
      BY <3>1, <3>2, <3>3, <3>4, Zenon DEF WorkersHave
  <2>11. SubmitHas(moved)' /\ QueueHas(moved)' /\ RoutingHas(moved)' /\ LanesHave(moved)'
    BY <1>1, <1>2, <1>3, <2>5, <2>9, SubmitKeeps, QueueKeeps, RoutedKeeps, LanesKeep, ZenonT(60) DEF Placed
  <2>12. StateTells(moved)'
    BY <1>1, <2>7, <2>9, StateKeeps DEF Placed
  <2>13. HeldType'
    BY <1>2, <1>3, <2>5, <2>7, <2>10, Zenon DEF HeldType
  <2> QED
    BY <2>8, <2>10, <2>11, <2>12, <2>13, Zenon DEF HeldInv, Placed
<1> QED
  BY <1>4, <1>5

\* The other steps move no request.
LEMMA OtherHeld ==
  ASSUME HeldInv, UNCHANGED <<state, client, calls, queue>>, UNCHANGED <<request, target, lane, current>>,
         \/ routing' = routing
         \/ routing \notin {"route", "enqueue"} /\ routing' \notin {"route", "enqueue"}
  PROVE  HeldInv'
<1>1. PICK where \in [Requests -> Stages] : Placed(where)
  BY Zenon DEF HeldInv
<1>2. HeldType /\ HeldType'
  BY DEF HeldInv, HeldType
<1>3. SubmitHas(where)' /\ QueueHas(where)' /\ RoutingHas(where)' /\ LanesHave(where)' /\ WorkersHave(where)'
      /\ StateTells(where)'
  BY <1>1, <1>2, SubmitKeeps, QueueKeeps, RoutedKeeps, LanesKeep, WorkersKeep, StateKeeps, Zenon DEF Placed
<1> QED
  BY <1>1, <1>2, <1>3, Zenon DEF HeldInv, Placed

\* Every step keeps track of every request.
LEMMA HeldNext == IInv /\ HeldInv /\ [Next]_vars => HeldInv'
<1> SUFFICES ASSUME IInv, HeldInv, [Next]_vars PROVE HeldInv'
  OBVIOUS
<1>1. ASSUME NEW r \in Requests, Die(r) PROVE HeldInv'
  BY <1>1, DieKeeps, Zenon
<1>2. ASSUME NEW c \in Clients, Client(c) PROVE HeldInv'
  BY <1>2, ClientKeeps
<1>3. CASE routing_loop
  BY <1>3, TakeNextKeeps, RouteKeeps, Zenon DEF routing_loop
<1>4. ASSUME NEW w \in Workers, WorkerThread(w) PROVE HeldInv'
  <2>1. CASE WorkerExits(w)
    <3>1. UNCHANGED <<state, client, calls, queue>> /\ UNCHANGED <<request, target, lane, current>>
          /\ routing' = routing
      BY <2>1, Zenon DEF WorkerExits, requestVars, submitVars, schedulerVars, routingVars
    <3> QED
      BY <3>1, OtherHeld, Zenon
  <2> QED
    BY <1>4, <2>1, WorkerKeeps, Zenon DEF WorkerThread
<1>5. CASE Start
  <2>1. ASSUME NEW w \in Workers, StartWorker(w) PROVE HeldInv'
    <3>1. UNCHANGED <<state, client, calls, queue>> /\ UNCHANGED <<request, target, lane, current>>
          /\ routing' = routing
      BY <2>1, ZenonT(60) DEF StartWorker, requestVars, submitVars, schedulerVars, routingVars
    <3> QED
      BY <3>1, OtherHeld, SMTT(60)
  <2>2. CASE StartRouting
    <3>1. /\ UNCHANGED <<state, client, calls, queue>> /\ UNCHANGED <<request, target, lane, current>>
          /\ routing' = "next"
      BY <2>2, ZenonT(60) DEF StartRouting, requestVars, schedulerVars, workerVars
    <3>2. routing \notin {"route", "enqueue"}
      BY <2>2, ZenonT(60) DEF StartRouting, Locked, IInv, StartInv
    <3> QED
      BY <3>1, <3>2, OtherHeld, ZenonT(60)
  <2> QED
    BY <1>5, <2>1, <2>2, Zenon DEF Start
<1>6. ASSUME NEW s \in Stoppers, StopAccepting(s) \/ StopGoesOn(s) PROVE HeldInv'
  <2>1. UNCHANGED <<state, client, calls, queue>> /\ UNCHANGED <<request, target, lane, current>>
        /\ routing' = routing
    BY <1>6, Zenon DEF StopAccepting, StopGoesOn, CloseScheduler, TakeRouting, JoinRouting, CloseWorker,
       TakeWorker, JoinWorker, requestVars, submitVars, schedulerVars, routingVars, workerVars
  <2> QED
    BY <2>1, OtherHeld
<1>7. CASE UNCHANGED vars
  <2>1. UNCHANGED <<state, client, calls, queue>> /\ UNCHANGED <<request, target, lane, current>>
        /\ routing' = routing
    BY <1>7, Zenon DEF vars, requestVars, submitVars, schedulerVars, routingVars, workerVars
  <2> QED
    BY <2>1, OtherHeld, Zenon
<1> QED
  BY <1>1, <1>2, <1>3, <1>4, <1>5, <1>6, <1>7, Zenon DEF Next

\* A request that is at its one stage is in one place.
LEMMA HeldGivesOnce == HeldInv => HeldOnce
<1> SUFFICES ASSUME HeldInv, NEW r \in Requests
             PROVE  /\ \A p, q \in Places(r) : p = q
                    /\ state[r] \in {"Queued", "Running"} => Places(r) # {}
  BY DEF HeldOnce
<1>1. PICK where \in [Requests -> Stages] : Placed(where)
  BY Zenon DEF HeldInv
<1>2. HeldType /\ None \notin Requests
  BY ConfigAssumption, ZenonT(60) DEF HeldInv
<1>3. \A c \in Clients : client[c] = [at |-> "enqueue", request |-> r]
                          <=> client[c].at = "enqueue" /\ client[c].request = r
  BY <1>2 DEF HeldType
<1> DEFINE InSubmit == {<<"submit", c>> : c \in {d \in Clients : client[d] = [at |-> "enqueue", request |-> r]}}
           InQueue == {<<"queue", i>> : i \in {j \in DOMAIN queue : queue[j] = r}}
           InRouting == (IF request = r THEN {<<"routing">>} ELSE {})
           InLanes == UNION {{<<"lane", w, i>> : i \in {j \in DOMAIN lane[w] : lane[w][j] = r}} : w \in Workers}
           InWorkers == {<<"worker", w>> : w \in {v \in Workers : current[v] = r}}
<1>0. Places(r) = InSubmit \cup InQueue \cup InRouting \cup InLanes \cup InWorkers
  BY Zenon DEF Places
<1> DEFINE Submitting(c) == client[c].at = "enqueue" /\ client[c].request = r
<1>4. ASSUME NEW p \in Places(r)
      PROVE  \/ where[r] = "submit" /\ \E c \in Clients : Submitting(c) /\ p = <<"submit", c>>
             \/ where[r] = "queue" /\ \E i \in DOMAIN queue : queue[i] = r /\ p = <<"queue", i>>
             \/ where[r] = "routing" /\ p = <<"routing">>
             \/ where[r] = "lane" /\ \E w \in Workers : \E i \in DOMAIN lane[w] : lane[w][i] = r /\ p = <<"lane", w, i>>
             \/ where[r] = "worker" /\ \E w \in Workers : current[w] = r /\ p = <<"worker", w>>
  <2>1. ASSUME NEW c \in Clients, Submitting(c) PROVE where[r] = "submit"
    BY <1>1, <2>1, Zenon DEF Placed, SubmitHas
  <2>2. ASSUME NEW i \in DOMAIN queue, queue[i] = r PROVE where[r] = "queue"
    BY <1>1, <2>2, Zenon DEF Placed, QueueHas
  <2>3. ASSUME request = r PROVE where[r] = "routing"
    BY <1>1, <2>3, Zenon DEF Placed, RoutingHas
  <2>4. ASSUME NEW w \in Workers, NEW i \in DOMAIN lane[w], lane[w][i] = r PROVE where[r] = "lane"
    BY <1>1, <2>4, Zenon DEF Placed, LanesHave
  <2>5. ASSUME NEW w \in Workers, current[w] = r PROVE where[r] = "worker"
    BY <1>1, <1>2, <2>5 DEF Placed, WorkersHave
  <2>6. \/ \E c \in Clients : Submitting(c) /\ p = <<"submit", c>>
        \/ \E i \in DOMAIN queue : queue[i] = r /\ p = <<"queue", i>>
        \/ request = r /\ p = <<"routing">>
        \/ \E w \in Workers : \E i \in DOMAIN lane[w] : lane[w][i] = r /\ p = <<"lane", w, i>>
        \/ \E w \in Workers : current[w] = r /\ p = <<"worker", w>>
    <3>1. CASE p \in InSubmit
      BY <1>3, <3>1, Zenon
    <3>2. CASE p \in InQueue
      BY <3>2, Zenon
    <3>3. CASE p \in InRouting
      BY <3>3, Zenon
    <3>4. CASE p \in InLanes
      BY <3>4, Zenon
    <3>5. CASE p \in InWorkers
      BY <3>5, Zenon
    <3> HIDE DEF InSubmit, InQueue, InRouting, InLanes, InWorkers
    <3>6. p \in InSubmit \/ p \in InQueue \/ p \in InRouting \/ p \in InLanes \/ p \in InWorkers
      BY <1>0, <1>4, Zenon
    <3> HIDE DEF Submitting
    <3> QED
      BY <3>1, <3>2, <3>3, <3>4, <3>5, <3>6, Zenon
  <2> QED
    BY <2>1, <2>2, <2>3, <2>4, <2>5, <2>6, Zenon
<1>5. ASSUME NEW p \in Places(r), NEW q \in Places(r) PROVE p = q
  <2>0. SubmitHas(where) /\ QueueHas(where) /\ LanesHave(where) /\ WorkersHave(where)
    BY <1>1, Zenon DEF Placed
  <2>1. CASE where[r] = "submit"
    <3>1. PICK c \in Clients : Submitting(c) /\ p = <<"submit", c>>
      BY <1>4, <2>1, Zenon
    <3>2. PICK d \in Clients : Submitting(d) /\ q = <<"submit", d>>
      BY <1>4, <2>1, Zenon
    <3>3. \A a, b \in Clients :
            client[a].at = "enqueue" /\ client[b].at = "enqueue" /\ client[a].request = client[b].request => a = b
      BY <2>0, Zenon DEF SubmitHas
    <3>4. c = d
      <4>1. client[c].at = "enqueue" /\ client[d].at = "enqueue" /\ client[c].request = client[d].request
        BY <3>1, <3>2, Zenon
      <4> QED
        BY <3>3, <4>1, Zenon
    <3> QED
      BY <3>1, <3>2, <3>4, Zenon
  <2>2. CASE where[r] = "queue"
    BY <1>4, <2>0, <2>2, Zenon DEF QueueHas
  <2>3. CASE where[r] = "routing"
    BY <1>4, <2>3, Zenon
  <2>4. CASE where[r] = "lane"
    <3>1. PICK v \in Workers : \E i \in DOMAIN lane[v] : lane[v][i] = r /\ p = <<"lane", v, i>>
      BY <1>4, <2>4, Zenon
    <3>2. PICK i \in DOMAIN lane[v] : lane[v][i] = r /\ p = <<"lane", v, i>>
      BY <3>1, Zenon
    <3>3. PICK w \in Workers : \E j \in DOMAIN lane[w] : lane[w][j] = r /\ q = <<"lane", w, j>>
      BY <1>4, <2>4, Zenon
    <3>4. PICK j \in DOMAIN lane[w] : lane[w][j] = r /\ q = <<"lane", w, j>>
      BY <3>3, Zenon
    <3>5. \A a, b \in Workers : \A k \in DOMAIN lane[a], l \in DOMAIN lane[b] :
            lane[a][k] = lane[b][l] => a = b /\ k = l
      BY <2>0, Zenon DEF LanesHave
    <3>6. v = w /\ i = j
      <4>1. lane[v][i] = lane[w][j]
        BY <3>2, <3>4, Zenon
      <4> QED
        BY <3>5, <4>1, ZenonT(60)
    <3> QED
      BY <3>2, <3>4, <3>6, Zenon
  <2>5. CASE where[r] = "worker"
    BY <1>2, <1>4, <2>0, <2>5, ZenonT(60) DEF WorkersHave
  <2> QED
    BY <1>4, <2>1, <2>2, <2>3, <2>4, <2>5, Zenon
<1>6. ASSUME state[r] \in {"Queued", "Running"} PROVE \E p : p \in Places(r)
  <2>1. where[r] \in {"submit", "queue", "routing", "lane", "worker"}
    BY <1>1, <1>6, Zenon DEF Placed, StateTells
  <2>2. CASE where[r] = "submit"
    <3>1. PICK c \in Clients : Submitting(c)
      BY <1>1, <2>2, Zenon DEF Placed, SubmitHas
    <3>2. <<"submit", c>> \in InSubmit
      BY <1>3, <3>1, Zenon
    <3> HIDE DEF InSubmit, InQueue, InRouting, InLanes, InWorkers
    <3> QED
      BY <1>0, <3>2, Zenon
  <2>3. CASE where[r] = "queue"
    <3>1. PICK i \in DOMAIN queue : queue[i] = r
      BY <1>1, <2>3, Zenon DEF Placed, QueueHas
    <3>2. <<"queue", i>> \in InQueue
      BY <3>1, Zenon
    <3> HIDE DEF InSubmit, InQueue, InRouting, InLanes, InWorkers
    <3> QED
      BY <1>0, <3>2, Zenon
  <2>4. CASE where[r] = "routing"
    <3>1. <<"routing">> \in InRouting
      BY <1>1, <2>4, Zenon DEF Placed, RoutingHas
    <3> HIDE DEF InSubmit, InQueue, InRouting, InLanes, InWorkers
    <3> QED
      BY <1>0, <3>1, Zenon
  <2>5. CASE where[r] = "lane"
    <3>1. PICK w \in Workers : \E i \in DOMAIN lane[w] : lane[w][i] = r
      BY <1>1, <2>5, Zenon DEF Placed, LanesHave
    <3>2. PICK i \in DOMAIN lane[w] : lane[w][i] = r
      BY <3>1, Zenon
    <3>3. <<"lane", w, i>> \in {<<"lane", w, j>> : j \in {k \in DOMAIN lane[w] : lane[w][k] = r}}
      BY <3>2, ZenonT(60)
    <3>4. <<"lane", w, i>> \in InLanes
      BY <3>3
    <3> HIDE DEF InSubmit, InQueue, InRouting, InLanes, InWorkers
    <3> QED
      BY <1>0, <3>4, Zenon
  <2>6. CASE where[r] = "worker"
    <3>1. PICK w \in Workers : current[w] = r
      BY <1>1, <2>6, Zenon DEF Placed, WorkersHave
    <3>2. <<"worker", w>> \in InWorkers
      BY <3>1, Zenon
    <3> HIDE DEF InSubmit, InQueue, InRouting, InLanes, InWorkers
    <3> QED
      BY <1>0, <3>2, Zenon
  <2> QED
    BY <2>1, <2>2, <2>3, <2>4, <2>5, <2>6, Zenon
<1> QED
  BY <1>5, <1>6, ZenonT(60)

\* Whatever the clients, the schedulers, the workers and the calls of stop(), a
\* request is in one place at most, and in one while it is queued or running.
THEOREM HeldOnceHolds == Spec => []HeldOnce
  BY InitInv, NextInv, HeldInit, HeldNext, HeldGivesOnce, PTL DEF Spec

-----------------------------------------------------------------------------
(* stop() drains the runtime *)

\* Where the routing thread is while it runs.
Active == {"next", "route", "enqueue"}

\* Before the routing thread is started nothing is admitted.
BeforeStart ==
  /\ routing = "not started" =>
       /\ accepting = FALSE
       /\ \A c \in Clients : client[c].at \notin {"admit", "enqueue"}
       /\ \A r \in Requests : state[r] \notin {"Queued", "Running"}
  /\ routing = "not started" <=> start # "returned"
  /\ routing \in {"not started"} \cup Active \cup Ended
  /\ accepting \in BOOLEAN

\* The routing thread that exits, and a worker's that does, leave nothing behind.
LeftEmpty ==
  /\ routing = "exited" => closed /\ queue = <<>> /\ request = None
  /\ \A w \in Workers : thread[w] # "running" => ~open[w] /\ lane[w] = <<>> /\ current[w] = None

\* What each stop() has done by the time it is where it is.
StopDone ==
  \A s \in Stoppers :
    /\ stop[s].at \in {"join", "close worker", "take worker", "join worker", "returned"} =>
         0 \notin held /\ start # "in progress"
    /\ stop[s].at \in {"close worker", "take worker", "join worker"} => stop[s].worker \in Workers
    /\ stop[s].at = "take worker" => \A w \in Workers : w < stop[s].worker => w \notin held
    /\ stop[s].at = "join worker" => \A w \in Workers : w <= stop[s].worker => w \notin held
    /\ stop[s].at = "returned" => \A w \in Workers : w \notin held

\* Every thread that runs has its handle with the runtime or with a stop()
\* that waits for it.
Awaited ==
  /\ routing \in Active => 0 \in held \/ \E s \in Stoppers : stop[s].at = "join"
  /\ \A w \in Workers :
       thread[w] = "running" =>
         w \in held \/ \E s \in Stoppers : stop[s].at = "join worker" /\ stop[s].worker = w

\* The invariant of stop().
StopInv == BeforeStart /\ LeftEmpty /\ StopDone /\ Awaited

-----------------------------------------------------------------------------

\* The initial state satisfies the invariant of stop().
LEMMA StopInit == Init => StopInv
<1> SUFFICES ASSUME Init PROVE StopInv
  OBVIOUS
<1>1. /\ routing = "not started" /\ accepting = FALSE /\ start = "not called"
      /\ state = [r \in Requests |-> "Received"] /\ thread = [w \in Workers |-> "not started"]
      /\ open = [w \in Workers |-> FALSE] /\ lane = [w \in Workers |-> <<>>]
      /\ current = [w \in Workers |-> None]
  BY ZenonT(60) DEF Init
<1>2. /\ \A c \in Clients : client[c].at = "idle"
      /\ \A s \in Stoppers : stop[s].at = "not called"
  BY ZenonT(60) DEF Init, Idle
<1>3. BeforeStart
  BY <1>1, <1>2, ZenonT(60) DEF BeforeStart
<1>4. LeftEmpty
  BY <1>1, ZenonT(60) DEF LeftEmpty
<1>5. StopDone /\ Awaited
  BY <1>1, <1>2, ZenonT(60) DEF StopDone, Awaited, Active
<1> QED
  BY <1>3, <1>4, <1>5, ZenonT(60) DEF StopInv

\* Steps that leave the threads, start() and stop() alone.
LEMMA StopDoneStays ==
  ASSUME StopDone, UNCHANGED <<start, stop, held>>
  PROVE  StopDone'
  BY ZenonT(60) DEF StopDone

\* Nor does a step that starts no thread leave one that nobody waits for.
LEMMA AwaitedStays ==
  ASSUME Awaited, UNCHANGED <<stop, held>>,
         routing' \in Active => routing \in Active,
         \A w \in Workers : thread'[w] = "running" => thread[w] = "running"
  PROVE  Awaited'
  BY ZenonT(60) DEF Awaited

\* A step of a client keeps the invariant of stop().
LEMMA StopClient ==
  ASSUME HeldInv, StopInv, NEW c \in Clients, Client(c)
  PROVE  StopInv'
<1>1. UNCHANGED <<start, stop, held>> /\ UNCHANGED <<routing, thread, request>>
      /\ UNCHANGED <<open, lane, current>> /\ UNCHANGED <<accepting, closed>>
  BY Zenon DEF Client, SubmitBegin, Refuse, Admit, Enqueue, requestVars, schedulerVars, routingVars, workerVars,
         controlVars
<1>2. StopDone' /\ Awaited'
  BY <1>1, StopDoneStays, AwaitedStays DEF StopInv
<1>3. HeldType
  BY Zenon DEF HeldInv
<1>4. LeftEmpty'
  <2>1. closed => UNCHANGED queue
    BY ZenonT(60) DEF Client, SubmitBegin, Refuse, Admit, Enqueue, schedulerVars
  <2> QED
    BY <1>1, <2>1, Zenon DEF StopInv, LeftEmpty
<1>5. BeforeStart'
  <2> SUFFICES ASSUME routing = "not started"
               PROVE  /\ \A d \in Clients : client'[d].at \notin {"admit", "enqueue"}
                      /\ \A r \in Requests : state'[r] \notin {"Queued", "Running"}
    BY <1>1, ZenonT(60) DEF StopInv, BeforeStart
  <2>1. /\ ~accepting /\ client[c].at \notin {"admit", "enqueue"}
        /\ \A d \in Clients : client[d].at \notin {"admit", "enqueue"}
        /\ \A r \in Requests : state[r] \notin {"Queued", "Running"}
    BY ZenonT(60) DEF StopInv, BeforeStart
  <2>2. client \in [Clients -> [at : {"idle", "admit", "refused", "enqueue"}, request : Requests \cup {None}]]
    BY <1>3, ZenonT(60) DEF HeldType
  <2>3. CASE SubmitBegin(c)
    <3>1. /\ UNCHANGED state
          /\ \/ UNCHANGED client
             \/ client' = [client EXCEPT ![c] = [at |-> "refused", request |-> Head(calls[c])]]
      BY <2>1, <2>3, ZenonT(60) DEF SubmitBegin, requestVars
    <3>2. \A d \in Clients : client'[d].at \notin {"admit", "enqueue"}
      <4>1. CASE UNCHANGED client
        BY <2>1, <4>1, ZenonT(60)
      <4>2. CASE client' = [client EXCEPT ![c] = [at |-> "refused", request |-> Head(calls[c])]]
        <5>1. client'[c].at = "refused" /\ \A d \in Clients \ {c} : client'[d] = client[d]
          BY <2>2, <4>2, ZenonT(60)
        <5> QED
          BY <2>1, <5>1, ZenonT(60)
      <4> QED
        BY <3>1, <4>1, <4>2, ZenonT(60)
    <3> QED
      BY <2>1, <3>1, <3>2, ZenonT(60)
  <2>4. CASE Refuse(c)
    <3>1. client[c].request \in Requests
      BY <1>3, <2>4, ZenonT(60) DEF Refuse, HeldType
    <3>2. \A r \in Requests : state'[r] \notin {"Queued", "Running"}
      BY <1>3, <2>1, <2>4, <3>1, Rejects, ZenonT(60) DEF Refuse
    <3>3. \A d \in Clients : client'[d].at \notin {"admit", "enqueue"}
      BY <2>1, <2>2, <2>4, ZenonT(60) DEF Refuse, SubmitEnd, Idle
    <3> QED
      BY <3>2, <3>3, ZenonT(60)
  <2> QED
    BY <2>1, <2>3, <2>4, ZenonT(60) DEF Client, Admit, Enqueue
<1> QED
  BY <1>2, <1>4, <1>5, Zenon DEF StopInv

\* A step of the routing thread keeps it.
LEMMA StopRouting ==
  ASSUME HeldInv, StopInv, routing_loop
  PROVE  StopInv'
<1>1. /\ UNCHANGED <<start, stop, held>> /\ UNCHANGED <<thread, open, current, accepting, closed>>
      /\ routing \in Active
  BY Zenon DEF routing_loop, TakeNext, Route, EnqueueOnWorker, submitVars, schedulerVars, workerVars,
         controlVars, Active
<1>2. routing' \in Active \cup Ended
  BY Zenon DEF routing_loop, TakeNext, NextFifo, NextWorkload, Take, Route, RejectInfeasible, EnqueueOnWorker, Routed,
         Active, Ended
<1>3. HeldType
  BY ZenonT(60) DEF HeldInv
<1>4. BeforeStart'
  BY <1>1, <1>2, ZenonT(60) DEF StopInv, BeforeStart, Active, Ended
<1>5. StopDone' /\ Awaited'
  BY <1>1, StopDoneStays, AwaitedStays, ZenonT(60) DEF StopInv
<1>6. ASSUME routing' = "exited" PROVE closed' /\ queue' = <<>> /\ request' = None
  <2>1. TakeNext /\ request = None
    BY <1>3, <1>6, Zenon DEF routing_loop, TakeNext, Route, RejectInfeasible, EnqueueOnWorker, Routed, HeldType
  <2> QED
    BY <1>1, <1>6, <2>1 DEF TakeNext, NextFifo, NextWorkload, Take, QueueDrained
<1>7. ASSUME NEW w \in Workers, thread[w] # "running" PROVE lane'[w] = lane[w]
  <2>1. ~open[w] /\ lane \in [Workers -> Seq(Requests)]
    BY <1>3, <1>7, Zenon DEF StopInv, LeftEmpty, HeldType
  <2>2. lane' = lane \/ (open[target] /\ lane' = [lane EXCEPT ![target] = Append(@, request)])
    BY Zenon DEF routing_loop, TakeNext, Route, EnqueueOnWorker, workerVars
  <2> QED
    BY <2>1, <2>2, Zenon
<1>8. LeftEmpty'
  BY <1>1, <1>6, <1>7, Zenon DEF StopInv, LeftEmpty
<1> QED
  BY <1>4, <1>5, <1>8, Zenon DEF StopInv

\* A step of a worker keeps it.
LEMMA StopWorker ==
  ASSUME IInv, HeldInv, StopInv, NEW w \in Workers, WorkerThread(w)
  PROVE  StopInv'
<1>1. /\ UNCHANGED <<start, stop, held>> /\ UNCHANGED <<routing, open, accepting, closed>>
      /\ UNCHANGED <<queue, request, client>>
  BY DEF WorkerThread, WorkerTake, WorkerEnds, WorkerExits, submitVars, schedulerVars, routingVars,
         controlVars
<1>2. /\ HeldType /\ thread \in [Workers -> {"not started", "running", "exited"}]
      /\ state \in [Requests -> RequestState]
      /\ lane \in [Workers -> Seq(Requests)] /\ current \in [Workers -> Requests \cup {None}]
  BY ZenonT(60) DEF HeldInv, HeldType, IInv, TypeInv
<1>3. thread[w] = "running"
  BY Zenon DEF WorkerThread, WorkerTake, WorkerEnds, WorkerExits, StopInv, LeftEmpty
<1>4. StopDone' /\ Awaited'
  <2>1. \A v \in Workers : thread'[v] = "running" => thread[v] = "running"
    BY <1>2, ZenonT(60) DEF WorkerThread, WorkerTake, WorkerEnds, WorkerExits
  <2> QED
    BY <1>1, <2>1, StopDoneStays, AwaitedStays, Zenon DEF StopInv
<1>5. LeftEmpty'
  <2>1. ASSUME NEW v \in Workers, thread'[v] # "running"
        PROVE  ~open[v] /\ lane'[v] = <<>> /\ current'[v] = None
    <3>1. CASE v # w
      <4>1. thread'[v] = thread[v] /\ lane'[v] = lane[v] /\ current'[v] = current[v]
        BY <1>2, <3>1, ZenonT(60) DEF WorkerThread, WorkerTake, WorkerEnds, WorkerExits
      <4> QED
        BY <2>1, <4>1 DEF StopInv, LeftEmpty
    <3>2. CASE v = w
      BY <1>3, <2>1, <3>2, Zenon DEF WorkerThread, WorkerTake, WorkerEnds, WorkerExits, Drained
    <3> QED
      BY <3>1, <3>2, ZenonT(60)
  <2> QED
    BY <1>1, <2>1, Zenon DEF StopInv, LeftEmpty
<1>6. BeforeStart'
  <2>1. ASSUME routing = "not started", NEW r \in Requests PROVE state'[r] \notin {"Queued", "Running"}
    <3>1. \A q \in Requests : state[q] \notin {"Queued", "Running"}
      BY <2>1, ZenonT(60) DEF StopInv, BeforeStart
    <3>2. CASE WorkerTake(w)
      <4>1. Head(lane[w]) \in Requests
        <5>1. lane[w] \in Seq(Requests) /\ lane[w] # <<>>
          BY <1>2, <3>2, ZenonT(60) DEF WorkerTake
        <5> QED
          BY <5>1, SMTT(60)
      <4>2. ~is_valid_transition(state[Head(lane[w])], "Running")
        BY <1>2, <3>1, <4>1, Transitions, ZenonT(60)
      <4> QED
        BY <3>1, <3>2, <4>2, Zenon DEF WorkerTake
    <3>3. CASE WorkerEnds(w)
      BY <1>2, <3>1, <3>3, ZenonT(60) DEF WorkerEnds
    <3>4. CASE WorkerExits(w)
      BY <3>1, <3>4, Zenon DEF WorkerExits, requestVars
    <3> QED
      BY <3>2, <3>3, <3>4, ZenonT(60) DEF WorkerThread
  <2> QED
    BY <1>1, <2>1, Zenon DEF StopInv, BeforeStart
<1> QED
  BY <1>4, <1>5, <1>6, ZenonT(60) DEF StopInv

\* A step of start() keeps it.
LEMMA StopStart ==
  ASSUME IInv, StopInv, Start
  PROVE  StopInv'
<1>1. UNCHANGED <<stop, client, state>> /\ UNCHANGED <<queue, closed, request, lane, current>>
  BY ZenonT(60) DEF Start, StartWorker, StartRouting, requestVars, submitVars, schedulerVars, routingVars, workerVars
<1>2. NoneTook /\ routing = "not started" /\ start # "returned"
  BY ZenonT(60) DEF Start, StartWorker, StartRouting, Locked, IInv, StartInv, TypeInv, Called, NoneTook
<1>3. StopDone'
  BY <1>1, <1>2, ZenonT(60) DEF NoneTook, StopDone
<1>4. /\ thread \in [Workers -> {"not started", "running", "exited"}]
      /\ open \in [Workers -> BOOLEAN]
  BY ZenonT(60) DEF IInv, TypeInv
<1>5. ASSUME NEW w \in Workers, StartWorker(w) PROVE StopInv'
  <2>1. /\ routing' = routing /\ accepting' = accepting /\ start' = "in progress"
        /\ held' = held \cup {w}
        /\ thread'[w] = "running" /\ \A v \in Workers \ {w} : thread'[v] = thread[v] /\ open'[v] = open[v]
    BY <1>4, <1>5, ZenonT(60) DEF StartWorker, submitVars, routingVars
  <2>2. BeforeStart'
    BY <1>1, <1>2, <2>1, ZenonT(60) DEF StopInv, BeforeStart
  <2>3. LeftEmpty'
    BY <1>1, <1>2, <2>1, ZenonT(60) DEF StopInv, LeftEmpty
  <2>4. Awaited'
    BY <1>1, <1>2, <2>1, ZenonT(60) DEF StopInv, Awaited, Active
  <2> QED
    BY <1>3, <2>2, <2>3, <2>4 DEF StopInv
<1>6. CASE StartRouting
  <2>1. /\ routing' = "next" /\ accepting' = TRUE /\ start' = "returned" /\ held' = held \cup {0}
        /\ UNCHANGED <<thread, open>>
    BY <1>6, ZenonT(60) DEF StartRouting, workerVars
  <2>2. BeforeStart'
    BY <2>1, Zenon DEF BeforeStart, Active
  <2>3. LeftEmpty'
    BY <1>1, <2>1, ZenonT(60) DEF StopInv, LeftEmpty
  <2>4. Awaited'
    BY <1>1, <2>1, ZenonT(60) DEF StopInv, Awaited
  <2> QED
    BY <1>3, <2>2, <2>3, <2>4 DEF StopInv
<1> QED
  BY <1>5, <1>6 DEF Start

\* A stop() that moves on, with the handles it takes, leaves every other
\* stop() where it was and no thread unaccounted for.
LEMMA StopSteps ==
  ASSUME IInv, StopInv, NEW s \in Stoppers, NEW at \in StopAt, NEW w \in Nat, GoTo(s, at, w),
         held' \subseteq held, UNCHANGED <<routing, thread, start>>,
         at \in {"join", "close worker", "take worker", "join worker", "returned"} =>
           0 \notin held' /\ start # "in progress",
         at \in {"close worker", "take worker", "join worker"} => w \in Workers,
         at = "take worker" => \A v \in Workers : v < w => v \notin held',
         at = "join worker" => \A v \in Workers : v <= w => v \notin held',
         at = "returned" => \A v \in Workers : v \notin held',
         routing \in Active /\ (0 \in held \/ stop[s].at = "join") => 0 \in held' \/ at = "join",
         \A v \in Workers :
           thread[v] = "running" /\ (v \in held \/ (stop[s].at = "join worker" /\ stop[s].worker = v)) =>
             v \in held' \/ (at = "join worker" /\ w = v)
  PROVE  StopDone' /\ Awaited'
<1>1. stop'[s].at = at /\ stop'[s].worker = w /\ \A t \in Stoppers \ {s} : stop'[t] = stop[t]
  BY GoToMoves, ZenonT(60) DEF IInv
<1>2. StopDone'
  <2>1. ASSUME NEW t \in Stoppers
        PROVE  /\ stop'[t].at \in {"join", "close worker", "take worker", "join worker", "returned"} =>
                    0 \notin held' /\ start' # "in progress"
               /\ stop'[t].at \in {"close worker", "take worker", "join worker"} => stop'[t].worker \in Workers
               /\ stop'[t].at = "take worker" => \A v \in Workers : v < stop'[t].worker => v \notin held'
               /\ stop'[t].at = "join worker" => \A v \in Workers : v <= stop'[t].worker => v \notin held'
               /\ stop'[t].at = "returned" => \A v \in Workers : v \notin held'
    <3>1. CASE t = s
      BY <1>1, <3>1, ZenonT(60)
    <3>2. CASE t # s
      BY <1>1, <3>2, ZenonT(60) DEF StopInv, StopDone
    <3> QED
      BY <3>1, <3>2, ZenonT(60)
  <2> QED
    BY <2>1, ZenonT(60) DEF StopDone
<1>3. Awaited'
  <2>1. ASSUME routing \in Active PROVE 0 \in held' \/ \E t \in Stoppers : stop'[t].at = "join"
    BY <1>1, <2>1, ZenonT(60) DEF StopInv, Awaited
  <2>2. ASSUME NEW v \in Workers, thread[v] = "running"
        PROVE  v \in held' \/ \E t \in Stoppers : stop'[t].at = "join worker" /\ stop'[t].worker = v
    <3>1. CASE v \in held \/ (stop[s].at = "join worker" /\ stop[s].worker = v)
      BY <1>1, <2>2, <3>1, ZenonT(60)
    <3>2. CASE \E t \in Stoppers \ {s} : stop[t].at = "join worker" /\ stop[t].worker = v
      BY <1>1, <3>2, ZenonT(60)
    <3> QED
      BY <2>2, <3>1, <3>2, ZenonT(60) DEF StopInv, Awaited
  <2> QED
    BY <2>1, <2>2, ZenonT(60) DEF Awaited
<1> QED
  BY <1>2, <1>3, ZenonT(60)

\* A step of a stop() keeps it.
LEMMA StopStop ==
  ASSUME IInv, StopInv, NEW s \in Stoppers, StopAccepting(s) \/ StopGoesOn(s)
  PROVE  StopInv'
<1>1. UNCHANGED <<client, state, start, routing>> /\ UNCHANGED <<queue, request, thread, lane, current>>
  BY ZenonT(60) DEF StopAccepting, StopGoesOn, CloseScheduler, TakeRouting, JoinRouting, CloseWorker, TakeWorker, JoinWorker,
         requestVars, submitVars, schedulerVars, routingVars, workerVars
<1>2. /\ accepting' = accepting \/ accepting' = FALSE
      /\ closed' = closed \/ closed' = TRUE
      /\ \A w \in Workers : ~open[w] => ~open'[w]
  <2>1. open \in [Workers -> BOOLEAN]
    BY ZenonT(60) DEF IInv, TypeInv
  <2>2. open' = open \/ open' = [open EXCEPT ![stop[s].worker] = FALSE]
    BY Zenon DEF StopAccepting, StopGoesOn, CloseScheduler, TakeRouting, JoinRouting, CloseWorker, TakeWorker, JoinWorker,
           workerVars
  <2>3. \A w \in Workers : ~open[w] => ~open'[w]
    BY <2>1, <2>2
  <2> QED
    BY <2>3, Zenon DEF StopAccepting, StopGoesOn, CloseScheduler, TakeRouting, JoinRouting, CloseWorker, TakeWorker, JoinWorker,
           submitVars, schedulerVars
<1>3. BeforeStart'
  BY <1>1, <1>2, ZenonT(60) DEF StopInv, BeforeStart
<1>4. LeftEmpty'
  <2>1. LeftEmpty
    BY DEF StopInv
  <2>2. routing' = "exited" => closed' /\ queue' = <<>> /\ request' = None
    BY <1>1, <1>2, <2>1, Zenon DEF LeftEmpty
  <2>3. \A w \in Workers : thread'[w] # "running" => ~open'[w] /\ lane'[w] = <<>> /\ current'[w] = None
    BY <1>1, <1>2, <2>1, Zenon DEF LeftEmpty
  <2> QED
    BY <2>2, <2>3, Zenon DEF LeftEmpty
<1> SUFFICES StopDone' /\ Awaited'
  BY <1>3, <1>4, Zenon DEF StopInv
<1>0. PICK w \in Nat : w = stop[s].worker
  <2>1. stop \in [Stoppers -> [at : StopAt, worker : Nat]]
    BY ZenonT(60) DEF IInv, TypeInv
  <2> QED
    BY <2>1, Zenon
<1>5. /\ worker_count \in Nat \ {0} /\ \A v \in Workers : v \in Nat /\ v <= worker_count
      /\ \A v \in Nat : 1 <= v /\ v <= worker_count => v \in Workers
      /\ 1 \in Workers /\ 0 \notin Workers /\ 0 \in Nat /\ 1 \in Nat
  BY ConfigAssumption DEF Workers
<1>6. CASE StopAccepting(s)
  <2>1. stop[s].at = "not called" /\ GoTo(s, "close", 0) /\ held' = held /\ "close" \in StopAt
    BY <1>6, ZenonT(60) DEF StopAccepting, StopAt
  <2> QED
    BY <1>1, <1>5, <2>1, StopSteps, ZenonT(60)
<1>7. CASE CloseScheduler(s)
  <2>1. stop[s].at = "close" /\ GoTo(s, "take", 0) /\ held' = held /\ "take" \in StopAt
    BY <1>7, Zenon DEF CloseScheduler, StopAt
  <2> QED
    BY <1>1, <1>5, <2>1, StopSteps, Zenon
<1>8. CASE TakeRouting(s)
  <2>1. stop[s].at = "take" /\ held' = held \ {0} /\ start # "in progress"
    BY <1>8, ZenonT(60) DEF TakeRouting, Locked
  <2>2. CASE 0 \in held
    <3>1. GoTo(s, "join", 0) /\ "join" \in StopAt
      BY <1>8, <2>2 DEF TakeRouting, StopAt
    <3> QED
      BY <1>1, <1>5, <2>1, <3>1, StopSteps, ZenonT(60)
  <2>3. CASE 0 \notin held
    <3>1. GoTo(s, "close worker", 1) /\ "close worker" \in StopAt
      BY <1>8, <2>3, ZenonT(60) DEF TakeRouting, StopAt
    <3> QED
      BY <1>1, <1>5, <2>1, <2>3, <3>1, StopSteps, ZenonT(60)
  <2> QED
    BY <2>2, <2>3
<1>9. CASE JoinRouting(s)
  <2>1. /\ stop[s].at = "join" /\ GoTo(s, "close worker", 1) /\ held' = held /\ "close worker" \in StopAt
        /\ routing \notin Active
    BY <1>9, ZenonT(60) DEF JoinRouting, RoutingJoined, StopAt, Active
  <2>2. 0 \notin held /\ start # "in progress"
    BY <2>1, Zenon DEF StopInv, StopDone
  <2> QED
    BY <1>1, <1>5, <2>1, <2>2, StopSteps, Zenon
<1>10. CASE CloseWorker(s)
  <2>1. stop[s].at = "close worker" /\ held' = held
    BY <1>10, Zenon DEF CloseWorker
  <2>2. 0 \notin held /\ start # "in progress" /\ w \in Workers
    BY <1>0, <2>1, ZenonT(60) DEF StopInv, StopDone
  <2>3. CASE w < worker_count
    <3>1. PICK next_worker \in Nat : next_worker = w + 1
      OBVIOUS
    <3>2. GoTo(s, "close worker", next_worker) /\ "close worker" \in StopAt
      BY <1>0, <1>10, <2>3, <3>1, Zenon DEF CloseWorker, StopAt
    <3>3. next_worker \in Workers
      BY <1>5, <2>3, <3>1
    <3> QED
      BY <1>0, <1>1, <1>5, <2>1, <2>2, <3>2, <3>3, StopSteps, ZenonT(60)
  <2>4. CASE ~(w < worker_count)
    <3>1. GoTo(s, "take worker", 1) /\ "take worker" \in StopAt
      BY <1>0, <1>10, <2>4, Zenon DEF CloseWorker, StopAt
    <3>2. \A v \in Workers : ~(v < 1)
      BY <1>5
    <3> QED
      BY <1>0, <1>1, <1>5, <2>1, <2>2, <3>1, <3>2, StopSteps, ZenonT(60)
  <2> QED
    BY <2>3, <2>4
<1>11. ASSUME JoinNext(s, w), w \in Workers, 0 \notin held', start # "in progress",
              held' \subseteq held, \A v \in Workers : v <= w => v \notin held',
              \A v \in Workers : thread[v] = "running" /\ v \in held => v \in held',
              ~(stop[s].at = "join" /\ routing \in Active),
              0 \notin held,
              ~(stop[s].at = "join worker" /\ thread[w] = "running")
       PROVE  StopDone' /\ Awaited'
  <2>1. CASE w < worker_count
    <3>0. PICK next_worker \in Nat : next_worker = w + 1
      OBVIOUS
    <3>1. GoTo(s, "take worker", next_worker) /\ "take worker" \in StopAt
      BY <1>11, <2>1, <3>0, ZenonT(60) DEF JoinNext, StopAt
    <3>2. next_worker \in Workers /\ \A v \in Workers : v < next_worker => v \notin held'
      <4>1. 1 <= next_worker /\ next_worker <= worker_count
        BY <1>5, <2>1, <3>0, SMTT(60)
      <4>2. ASSUME NEW v \in Workers, v < next_worker PROVE v \notin held'
        <5>1. v \in Nat
          BY <1>5
        <5>2. v <= w
          BY <3>0, <4>2, <5>1
        <5> QED
          BY <1>11, <5>2, ZenonT(60)
      <4> QED
        BY <1>5, <4>1, <4>2, Zenon
    <3>3. \A v \in Workers :
            thread[v] = "running" /\ (v \in held \/ (stop[s].at = "join worker" /\ stop[s].worker = v)) => v \in held'
      BY <1>0, <1>11, ZenonT(60)
    <3> QED
      BY <1>1, <1>11, <3>1, <3>2, <3>3, StopSteps, ZenonT(60)
  <2>2. CASE ~(w < worker_count)
    <3>1. GoTo(s, "returned", 0) /\ "returned" \in StopAt
      BY <1>11, <2>2, ZenonT(60) DEF JoinNext, StopAt
    <3>2. ASSUME NEW v \in Workers PROVE v \notin held'
      <4>1. v \in Nat /\ v <= worker_count
        BY <1>5, Zenon
      <4>2. v <= w
        BY <1>5, <2>2, <4>1
      <4> QED
        BY <1>11, <4>2, ZenonT(60)
    <3> QED
      BY <1>0, <1>1, <1>5, <1>11, <3>1, <3>2, StopSteps, ZenonT(60)
  <2> QED
    BY <2>1, <2>2
<1>12. CASE TakeWorker(s)
  <2>1. stop[s].at = "take worker" /\ held' = held \ {w}
    BY <1>0, <1>12, ZenonT(60) DEF TakeWorker
  <2>2. /\ 0 \notin held /\ start # "in progress" /\ w \in Workers
        /\ \A v \in Workers : v < w => v \notin held
    BY <1>0, <2>1, ZenonT(60) DEF StopInv, StopDone
  <2>3. \A v \in Workers : v <= w => v \notin held'
    <3> SUFFICES ASSUME NEW v \in Workers, v <= w PROVE v \notin held'
      BY Zenon
    <3>1. v \in Nat
      BY <1>5, Zenon
    <3>2. v < w \/ v = w
      BY <3>1
    <3> QED
      BY <2>1, <2>2, <3>2, ZenonT(60)
  <2>4. CASE w \in held
    <3>1. GoTo(s, "join worker", w) /\ "join worker" \in StopAt
      BY <1>0, <1>12, <2>4, ZenonT(60) DEF TakeWorker, StopAt
    <3>2. /\ held' \subseteq held /\ 0 \notin held'
          /\ \A v \in Workers : v \in held => v \in held' \/ w = v
      BY <2>1, <2>2, ZenonT(60)
    <3>5. PICK at \in StopAt : at = "join worker"
      BY <3>1, ZenonT(60)
    <3>3. \A v \in Workers :
            thread[v] = "running" /\ (v \in held \/ (stop[s].at = "join worker" /\ stop[s].worker = v)) =>
              v \in held' \/ (at = "join worker" /\ w = v)
      BY <2>1, <3>2, <3>5, ZenonT(60)
    <3>6. GoTo(s, at, w) /\ at # "take worker" /\ at # "returned"
      BY <3>1, <3>5, ZenonT(60)
    <3>4. ~(0 \in held \/ stop[s].at = "join")
      BY <2>1, <2>2, ZenonT(60)
    <3> QED
      <4>1. UNCHANGED <<routing, thread, start>>
        BY <1>1, ZenonT(60)
      <4>2. at \in {"join", "close worker", "take worker", "join worker", "returned"} =>
              0 \notin held' /\ start # "in progress"
        BY <2>2, <3>2, ZenonT(60)
      <4>3. /\ at \in {"close worker", "take worker", "join worker"} => w \in Workers
            /\ at = "take worker" => \A v \in Workers : v < w => v \notin held'
            /\ at = "returned" => \A v \in Workers : v \notin held'
            /\ at = "join worker" => \A v \in Workers : v <= w => v \notin held'
        BY <2>2, <2>3, <3>6, ZenonT(60)
      <4>4. routing \in Active /\ (0 \in held \/ stop[s].at = "join") => 0 \in held' \/ at = "join"
        BY <3>4, Zenon
      <4> QED
        BY <3>2, <3>3, <3>6, <4>1, <4>2, <4>3, <4>4, StopSteps, ZenonT(60)
  <2>5. CASE w \notin held
    <3>1. JoinNext(s, w)
      BY <1>0, <1>12, <2>5, ZenonT(60) DEF TakeWorker
    <3> QED
      BY <1>11, <2>1, <2>2, <2>3, <2>5, <3>1, ZenonT(60)
  <2> QED
    BY <2>4, <2>5
<1>13. CASE JoinWorker(s)
  <2>1. stop[s].at = "join worker" /\ held' = held /\ JoinNext(s, w) /\ thread[w] = "exited"
    BY <1>0, <1>13, ZenonT(60) DEF JoinWorker, Exited
  <2>2. /\ 0 \notin held /\ start # "in progress" /\ w \in Workers
        /\ \A v \in Workers : v <= w => v \notin held
    BY <1>0, <2>1, Zenon DEF StopInv, StopDone
  <2> QED
    BY <1>11, <2>1, <2>2, ZenonT(60)
<1> QED
  BY <1>6, <1>7, <1>8, <1>9, <1>10, <1>12, <1>13, Zenon DEF StopGoesOn

\* Every step keeps it.
LEMMA StopNext == IInv /\ HeldInv /\ StopInv /\ [Next]_vars => StopInv'
<1> SUFFICES ASSUME IInv, HeldInv, StopInv, [Next]_vars PROVE StopInv'
  BY Zenon
<1>1. ASSUME UNCHANGED <<start, stop, held>>, UNCHANGED <<routing, thread, request>>,
             UNCHANGED <<open, lane, current>>, UNCHANGED <<accepting, closed, queue, client>>,
             \A r \in Requests : state'[r] = state[r] \/ state'[r] = "Cancelled"
      PROVE  StopInv'
  <2>1. StopDone' /\ Awaited'
    BY <1>1, StopDoneStays, AwaitedStays DEF StopInv
  <2>2. BeforeStart'
    BY <1>1, ZenonT(60) DEF StopInv, BeforeStart
  <2>3. LeftEmpty'
    BY <1>1, Zenon DEF StopInv, LeftEmpty
  <2> QED
    BY <2>1, <2>2, <2>3, ZenonT(60) DEF StopInv
<1>2. ASSUME NEW r \in Requests, Die(r) PROVE StopInv'
  <2>1. \A q \in Requests : state'[q] = state[q] \/ state'[q] = "Cancelled"
    BY <1>2, ZenonT(60) DEF Die, HeldInv, HeldType
  <2> QED
    BY <1>1, <1>2, <2>1, Zenon DEF Die, submitVars, schedulerVars, routingVars, workerVars, controlVars
<1>3. CASE UNCHANGED vars
  BY <1>1, <1>3 DEF vars, requestVars, submitVars, schedulerVars, routingVars, workerVars, controlVars
<1> QED
  BY <1>2, <1>3, StopClient, StopRouting, StopWorker, StopStart, StopStop, Zenon DEF Next

\* The empty sequence has no positions.
LEMMA EmptyDomain == DOMAIN <<>> = {}
  BY SMTT(60)

\* When nobody is inside stop(), no thread is left, and none left anything.
LEMMA StopGivesDrains == IInv /\ HeldInv /\ StopInv => StopDrains
<1> SUFFICES ASSUME IInv, HeldInv, StopInv, Called # {}, Called = Returned, routing # "gave up",
                    NEW r \in Requests, state[r] \in {"Queued", "Running"}
             PROVE  \E c \in Clients : client[c] = [at |-> "enqueue", request |-> r]
  BY ZenonT(60) DEF StopDrains
<1>1. PICK where \in [Requests -> Stages] : Placed(where)
  BY ZenonT(60) DEF HeldInv
<1>2. PICK s \in Stoppers : stop[s].at = "returned"
  BY ZenonT(60) DEF Called, Returned
<1>3. \A t \in Stoppers : stop[t].at \in {"not called", "returned"}
  BY ZenonT(60) DEF Called, Returned
<1>4. 0 \notin held /\ \A w \in Workers : w \notin held
  BY <1>2, ZenonT(60) DEF StopInv, StopDone
<1>5. routing = "exited"
  BY <1>3, <1>4, ZenonT(60) DEF StopInv, BeforeStart, Awaited, Ended
<1>6. queue = <<>> /\ request = None
  BY <1>5, ZenonT(60) DEF StopInv, LeftEmpty
<1>7. \A w \in Workers : lane[w] = <<>> /\ current[w] = None
  BY <1>3, <1>4, ZenonT(60) DEF StopInv, Awaited, LeftEmpty
<1>8. where[r] \in {"submit", "queue", "routing", "lane", "worker"}
  BY <1>1, ZenonT(60) DEF Placed, StateTells
<1>9. None \notin Requests
  BY ConfigAssumption, ZenonT(60)
<1>10. where[r] \notin {"queue", "routing"}
  <2>1. DOMAIN queue = {}
    BY <1>6, EmptyDomain, ZenonT(60)
  <2> QED
    BY <1>1, <1>6, <1>9, <2>1, ZenonT(60) DEF Placed, QueueHas, RoutingHas
<1>11. where[r] \notin {"lane", "worker"}
  <2>1. \A w \in Workers : DOMAIN lane[w] = {}
    BY <1>7, EmptyDomain, ZenonT(60)
  <2> QED
    <3>1. where[r] # "lane"
      BY <1>1, <2>1, ZenonT(60) DEF Placed, LanesHave
    <3>2. where[r] # "worker"
      BY <1>1, <1>7, <1>9, ZenonT(60) DEF Placed, WorkersHave
    <3> QED
      BY <3>1, <3>2, ZenonT(60)
<1>12. PICK c \in Clients : client[c].at = "enqueue" /\ client[c].request = r
  BY <1>1, <1>8, <1>10, <1>11, Zenon DEF Placed, SubmitHas
<1> QED
  BY <1>12, ZenonT(60) DEF HeldInv, HeldType

\* When all calls of stop() have returned, nothing that was admitted is pending
\* but what a client has yet to be told about, for any number of each.
THEOREM StopDrainsHolds == Spec => []StopDrains
  BY InitInv, NextInv, HeldInit, HeldNext, StopInit, StopNext, StopGivesDrains, PTL DEF Spec
============================================================================
