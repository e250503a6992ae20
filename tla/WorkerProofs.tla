---------------------------- MODULE WorkerProofs ----------------------------
(***************************************************************************)
(* Proofs, for any requests, callers, capacity and batch size, that a      *)
(* worker never loses a request or holds one twice, that requests reach    *)
(* the backend in the order they entered the lane, and that the count of   *)
(* queued requests is right until one dies: the inductive invariant, the   *)
(* callers of enqueue(), the batch builder and the ends of requests, then  *)
(* the execution of a batch, and the count.                                *)
(***************************************************************************)
EXTENDS Worker, TLAPS

Forming == {"form", "extra", "formed", "execute"}
Executing == {"check", "start", "resident", "infer", "finish"}

\* The states of a request that no worker has started.
Waiting == {"Queued", "Cancelled", "TimedOut"}

\* A call whose request is not in the lane, and may get there or be rejected.
Offers(c) == calls[c].at \in {"push", "waiting", "refused"}

TypeInv ==
  /\ state \in [Requests -> RequestState]
  /\ calls \in [Callers -> [at : {"idle", "push", "waiting", "refused", "count"},
                            request : Requests \cup {None}, kind : Kinds \cup {"none"}]]
  /\ \A c \in Callers : Offers(c) => calls[c].request \in Requests
  /\ unsent \in SUBSET Requests
  /\ pc \in {"top", "exited"} \cup Forming \cup Executing
  /\ lane \in Seq(Requests) /\ pushed \in Seq(Requests) /\ batch \in Seq(Requests)
  /\ deferred \in Requests \cup {None} /\ hand \in Requests \cup {None}
  /\ inferred \in Seq(Seq(Requests))
  /\ queued_count \in 0..(SizeModulus - 1)

\* A request enters the lane once: it is unsent, offered by one call, or has
\* been pushed.
OfferInv ==
  /\ \A c \in Callers : Offers(c) =>
       /\ calls[c].request \notin unsent
       /\ \A i \in DOMAIN pushed : pushed[i] # calls[c].request
       /\ \A d \in Callers : Offers(d) /\ calls[d].request = calls[c].request => c = d
  /\ \A i \in DOMAIN pushed : pushed[i] \notin unsent

\* How many requests have been taken out of the lane.
taken == Len(pushed) - Len(lane)

\* Where the worker thread keeps requests.
HandInv ==
  /\ pc \in {"top", "exited"} => batch = <<>>
  /\ hand # None <=> pc = "extra"
  /\ deferred # None => pc \notin {"form", "extra"}

\* The request that was taken out last.
Last(r) == taken \in DOMAIN pushed /\ r = pushed[taken]

\* pos gives the place of each request in the order of the pushes.  The lane
\* has the last ones, the deferred one or the one in hand comes before them,
\* the batch before that, and what was inferred before the batch.
LaneInv(pos) ==
  /\ \A i \in DOMAIN pushed : pos[pushed[i]] = i
  /\ taken \in Nat
  /\ \A i \in DOMAIN lane : lane[i] = pushed[taken + i]
  /\ \A r \in {deferred, hand} \ {None} : Last(r)

Aside == deferred # None \/ hand # None

\* Request r was taken out before the ones that are aside.
TakenEarlier(pos, r) ==
  /\ pos[r] \in DOMAIN pushed /\ r = pushed[pos[r]]
  /\ pos[r] <= taken
  /\ Aside => pos[r] # taken

BatchInv(pos) ==
  /\ \A i \in DOMAIN batch : TakenEarlier(pos, batch[i])
  /\ \A i, j \in DOMAIN batch : i < j => pos[batch[i]] < pos[batch[j]]

InferredInv(pos) ==
  \A b \in DOMAIN inferred : \A i \in DOMAIN inferred[b] :
    /\ TakenEarlier(pos, inferred[b][i])
    /\ \A c \in DOMAIN inferred : \A j \in DOMAIN inferred[c] :
         b < c \/ (b = c /\ i < j) => pos[inferred[b][i]] < pos[inferred[c][j]]
    /\ pc # "finish" => \A j \in DOMAIN batch : pos[inferred[b][i]] < pos[batch[j]]

Ordered(pos) == LaneInv(pos) /\ BatchInv(pos) /\ InferredInv(pos)

Held(r) == deferred = r \/ hand = r \/ \E i \in DOMAIN batch : batch[i] = r

\* A request that was taken out of the lane has ended or is held.
Covered == \A i \in 1..taken : is_dead_request(pushed[i]) \/ Held(pushed[i])

\* No request ends before the worker executes it but by dying.
WaitInv ==
  /\ \A r \in unsent : state[r] \in Waiting
  /\ \A c \in Callers : Offers(c) => state[calls[c].request] \in Waiting
  /\ \A i \in DOMAIN lane : state[lane[i]] \in Waiting
  /\ \A r \in {deferred, hand} \ {None} : state[r] \in Waiting
  /\ pc \in Forming => \A i \in DOMAIN batch : state[batch[i]] \in Waiting

\* The loop that starts the members stays inside the batch.
IndexInv == index \in Nat \ {0} /\ (pc = "start" => index \in DOMAIN batch)

WorkerInv ==
  /\ TypeInv /\ OfferInv /\ HandInv /\ Covered /\ WaitInv
  /\ \E pos \in [Requests -> Nat] : Ordered(pos)

-----------------------------------------------------------------------------

\* The initial state satisfies the invariant: nothing has been pushed.
LEMMA WorkerInit == Init => WorkerInv
<1> SUFFICES ASSUME Init PROVE WorkerInv
  OBVIOUS
<1>1. /\ state = [r \in Requests |-> "Queued"] /\ lane = <<>> /\ pushed = <<>>
      /\ batch = <<>> /\ inferred = <<>> /\ deferred = None /\ hand = None
      /\ calls = [c \in Callers |-> Idle] /\ unsent = Requests /\ pc = "top" /\ queued_count = 0
  BY DEF Init
<1>2. /\ DOMAIN lane = {} /\ DOMAIN pushed = {} /\ DOMAIN batch = {} /\ DOMAIN inferred = {}
      /\ Len(lane) = 0 /\ Len(pushed) = 0
  BY <1>1
<1>3. taken = 0
  BY <1>2 DEF taken
<1>4. \A c \in Callers : calls[c] = Idle /\ ~Offers(c)
  BY <1>1 DEF Idle, Offers
<1>5. TypeInv
  <2>1. calls \in [Callers -> [at : {"idle", "push", "waiting", "refused", "count"},
                               request : Requests \cup {None}, kind : Kinds \cup {"none"}]]
    BY <1>1 DEF Idle
  <2>2. queued_count \in 0..(SizeModulus - 1)
    BY <1>1, ConfigAssumption
  <2>3. inferred \in Seq(Seq(Requests)) /\ state \in [Requests -> RequestState]
    BY <1>1 DEF RequestState
  <2> QED
    BY <1>1, <1>4, <2>1, <2>2, <2>3 DEF TypeInv
<1>6. OfferInv /\ HandInv /\ WaitInv
  BY <1>1, <1>2, <1>4 DEF OfferInv, HandInv, WaitInv, Waiting, Forming
<1>7. Covered
  BY <1>3 DEF Covered
<1>8. PICK pos \in [Requests -> Nat] : pos = [r \in Requests |-> 0]
  BY Zenon
<1>9. Ordered(pos)
  BY <1>1, <1>2, <1>3 DEF Ordered, LaneInv, BatchInv, InferredInv
<1> QED
  BY <1>5, <1>6, <1>7, <1>8, <1>9 DEF WorkerInv

-----------------------------------------------------------------------------
(* What keeps each part of the invariant *)

\* A request that has ended has no next state.
LEMMA Transitions ==
  ASSUME NEW s \in RequestState
  PROVE  /\ is_terminal_state(s) => \A t : ~is_valid_transition(s, t)
         /\ \A t : is_valid_transition(s, t) => t \in RequestState /\ t # "Received"
         /\ s \in Waiting => ~is_valid_transition(s, "Completed") /\ ~is_valid_transition(s, "Failed")
         /\ is_terminal_state("Cancelled") /\ is_terminal_state("TimedOut") /\ is_terminal_state("Rejected")
         /\ ~is_terminal_state("Running")
         /\ s \in Waiting <=> s = "Queued" \/ s = "Cancelled" \/ s = "TimedOut"
  BY DEF RequestState, TerminalState, is_terminal_state, is_valid_transition, Successors, Waiting

\* The order is kept by a step that moves no request.
LEMMA OrderStays ==
  ASSUME NEW pos, Ordered(pos), UNCHANGED <<pushed, lane>>, UNCHANGED <<deferred, hand>>,
         UNCHANGED <<batch, inferred>>, pc = "finish" => pc' = "finish"
  PROVE  Ordered(pos)'
<1>1. taken' = taken /\ Aside' = Aside
  BY DEF taken, Aside
<1>2. \A r : TakenEarlier(pos, r)' <=> TakenEarlier(pos, r)
  BY <1>1 DEF TakenEarlier
<1>3. LaneInv(pos)'
  BY <1>1 DEF Ordered, LaneInv, Last
<1>4. BatchInv(pos)'
  BY <1>2 DEF Ordered, BatchInv
<1>5. InferredInv(pos)'
  BY <1>2 DEF Ordered, InferredInv
<1> QED
  BY <1>3, <1>4, <1>5 DEF Ordered

\* So is what is said of the requests taken out, while none comes back to life.
LEMMA CoveredStays ==
  ASSUME Covered, UNCHANGED <<pushed, lane>>, UNCHANGED <<deferred, hand>>, UNCHANGED batch,
         \A i \in 1..taken : is_dead_request(pushed[i]) => is_dead_request(pushed[i])'
  PROVE  Covered'
<1>1. taken' = taken
  BY DEF taken
<1>2. \A r : Held(r)' <=> Held(r)
  BY DEF Held
<1> QED
  BY <1>1, <1>2 DEF Covered

\* A request the worker holds, or that is in the lane, was pushed.
LEMMA InsidePushed ==
  ASSUME TypeInv, NEW pos, Ordered(pos)
  PROVE  /\ \A i \in DOMAIN lane : lane[i] \in Pushed
         /\ \A r \in {deferred, hand} \ {None} : r \in Pushed
         /\ \A i \in DOMAIN batch : batch[i] \in Pushed
<1>1. lane \in Seq(Requests) /\ pushed \in Seq(Requests)
  BY DEF TypeInv
<1>2. \A i \in DOMAIN pushed : pushed[i] \in Pushed
  BY DEF Pushed
<1>3. ASSUME NEW i \in DOMAIN lane PROVE lane[i] \in Pushed
  <2>1. taken \in Nat /\ lane[i] = pushed[taken + i]
    BY DEF Ordered, LaneInv
  <2>2. taken + i \in DOMAIN pushed
    BY <1>1, <2>1 DEF taken
  <2> QED
    BY <1>2, <2>1, <2>2
<1>4. \A r \in {deferred, hand} \ {None} : r \in Pushed
  BY <1>2 DEF Ordered, LaneInv, Last
<1>5. \A i \in DOMAIN batch : batch[i] \in Pushed
  BY <1>2 DEF Ordered, BatchInv, TakenEarlier
<1> QED
  BY <1>3, <1>4, <1>5

\* No request is offered twice if the only call that changes goes on with its
\* request or takes one that was unsent.
LEMMA OfferKeeps ==
  ASSUME OfferInv, NEW c \in Callers, UNCHANGED pushed, unsent' \in SUBSET unsent,
         \A d \in Callers \ {c} : calls'[d] = calls[d],
         Offers(c)' => \/ Offers(c) /\ calls'[c].request = calls[c].request
                       \/ calls'[c].request \in unsent \ unsent',
         \A d \in Callers \ {c} : Offers(d)' <=> Offers(d)
  PROVE  OfferInv'
<1>1. ASSUME NEW d \in Callers, Offers(d)'
      PROVE  /\ calls'[d].request \notin unsent'
             /\ \A i \in DOMAIN pushed : pushed[i] # calls'[d].request
  BY <1>1 DEF OfferInv
<1>2. ASSUME NEW d \in Callers, NEW e \in Callers, Offers(d)', Offers(e)',
             calls'[d].request = calls'[e].request, d # e
      PROVE  FALSE
  BY <1>2 DEF OfferInv
<1>3. \A i \in DOMAIN pushed : pushed[i] \notin unsent'
  BY DEF OfferInv
<1> QED
  BY <1>1, <1>2, <1>3 DEF OfferInv

\* What the calls wait for is kept while requests only die.
LEMMA WaitKeeps ==
  ASSUME TypeInv, WaitInv, NEW c \in Callers, unsent' \in SUBSET unsent,
         UNCHANGED <<lane, deferred, hand>>, UNCHANGED <<batch, pc>>,
         \A r \in Requests : state[r] \in Waiting => state'[r] \in Waiting,
         \A d \in Callers \ {c} : calls'[d] = calls[d],
         Offers(c)' => \/ Offers(c) /\ calls'[c].request = calls[c].request
                       \/ calls'[c].request \in unsent \ unsent',
         \A d \in Callers \ {c} : Offers(d)' <=> Offers(d)
  PROVE  WaitInv'
<1>1. /\ \A i \in DOMAIN lane : lane[i] \in Requests
      /\ \A r \in {deferred, hand} \ {None} : r \in Requests
      /\ \A i \in DOMAIN batch : batch[i] \in Requests
      /\ \A r \in unsent : r \in Requests
      /\ \A d \in Callers : Offers(d) => calls[d].request \in Requests
  BY DEF TypeInv
<1>2. \A r \in unsent' : state'[r] \in Waiting
  BY <1>1 DEF WaitInv
<1>3. ASSUME NEW d \in Callers, Offers(d)' PROVE state'[calls'[d].request] \in Waiting
  BY <1>1, <1>3 DEF WaitInv
<1>4. \A i \in DOMAIN lane : state'[lane[i]] \in Waiting
  BY <1>1 DEF WaitInv
<1>5. \A r \in {deferred, hand} \ {None} : state'[r] \in Waiting
  BY <1>1 DEF WaitInv
<1>6. pc \in Forming => \A i \in DOMAIN batch : state'[batch[i]] \in Waiting
  BY <1>1 DEF WaitInv
<1> QED
  BY <1>2, <1>3, <1>4, <1>5, <1>6 DEF WaitInv

-----------------------------------------------------------------------------
(* The steps of the callers and of the requests *)

\* Plus and Minus stay within size_t.
LEMMA Wraps ==
  ASSUME NEW n \in Int, NEW k \in Int
  PROVE  Plus(n, k) \in 0..(SizeModulus - 1) /\ Minus(n, k) \in 0..(SizeModulus - 1)
<1>1. SizeModulus \in Nat \ {0} /\ n + k \in Int /\ n - k \in Int
  BY ConfigAssumption
<1> QED
  BY <1>1 DEF Plus, Minus

\* A request that dies stays where it is.
LEMMA DieKeeps ==
  ASSUME WorkerInv, NEW r \in Requests, Die(r)
  PROVE  WorkerInv'
<1>1. PICK pos \in [Requests -> Nat] : Ordered(pos)
  BY DEF WorkerInv
<1>2. /\ UNCHANGED <<pushed, lane>> /\ UNCHANGED <<deferred, hand>> /\ UNCHANGED <<batch, inferred>>
      /\ UNCHANGED <<calls, unsent, pc, queued_count>>
      /\ UNCHANGED <<batch, pc>> /\ UNCHANGED batch
  BY DEF Die, callerVars, formVars, executeVars
<1>3. Ordered(pos)'
  BY <1>1, <1>2, OrderStays, Zenon
<1>4. /\ state \in [Requests -> RequestState] /\ state' = [state EXCEPT ![r] = "Cancelled"]
      /\ is_valid_transition(state[r], "Cancelled") /\ pushed \in Seq(Requests)
  BY DEF Die, WorkerInv, TypeInv
<1>5. state' \in [Requests -> RequestState]
  BY <1>4 DEF RequestState
<1>6. \A q \in Requests : is_dead_request(q) => is_dead_request(q)'
  <2>1. is_terminal_state("Cancelled")
    BY DEF is_terminal_state, TerminalState
  <2> QED
    BY <1>4, <2>1 DEF is_dead_request
<1>7. Covered'
  <2>1. taken \in 0..Len(pushed)
    BY <1>1, <1>4 DEF WorkerInv, TypeInv, Ordered, LaneInv, taken
  <2>2. \A i \in 1..taken : is_dead_request(pushed[i]) => is_dead_request(pushed[i])'
    BY <1>2, <1>4, <1>6, <2>1
  <2> QED
    BY <1>2, <2>2, CoveredStays, Zenon DEF WorkerInv
<1>8. \A c \in Callers : calls'[c] = calls[c] /\ (Offers(c)' <=> Offers(c))
  BY <1>2 DEF Offers
<1>9. TypeInv' /\ OfferInv' /\ HandInv'
  BY <1>2, <1>5, <1>8, Zenon DEF WorkerInv, TypeInv, OfferInv, HandInv
<1>10. WaitInv'
  <2>1. \A q \in Requests : state[q] \in Waiting => state'[q] \in Waiting
    BY <1>4 DEF Waiting
  <2>2. /\ \A i \in DOMAIN lane : lane[i] \in Requests
        /\ \A q \in {deferred, hand} \ {None} : q \in Requests
        /\ \A i \in DOMAIN batch : batch[i] \in Requests
        /\ \A q \in unsent : q \in Requests
        /\ \A d \in Callers : Offers(d) => calls[d].request \in Requests
    BY DEF WorkerInv, TypeInv
  <2> QED
    BY <1>2, <1>8, <2>1, <2>2 DEF WorkerInv, WaitInv
<1> QED
  BY <1>3, <1>7, <1>9, <1>10 DEF WorkerInv

\* A call that pushes nothing moves no request.
LEMMA CallerKeeps ==
  ASSUME WorkerInv, NEW c \in Callers, Caller(c), ~Push(c)
  PROVE  WorkerInv'
<1> DEFINE r == calls[c].request
<1>1. PICK pos \in [Requests -> Nat] : Ordered(pos)
  BY DEF WorkerInv
<1>2. TypeInv /\ OfferInv /\ HandInv /\ WaitInv /\ Covered
  BY DEF WorkerInv
<1>3. /\ UNCHANGED <<pushed, lane>> /\ UNCHANGED <<deferred, hand>> /\ UNCHANGED <<batch, inferred>>
      /\ UNCHANGED <<batch, pc>> /\ UNCHANGED <<lane, deferred, hand>> /\ UNCHANGED batch /\ UNCHANGED pushed
  BY DEF Caller, EnqueueBegin, CountPushed, PushRefused, PushWaits, PushTimeout, Reject, formVars, executeVars
<1>4. Ordered(pos)'
  BY <1>1, <1>3, OrderStays, Zenon
<1>5. /\ state \in [Requests -> RequestState] /\ pushed \in Seq(Requests)
      /\ calls \in [Callers -> [at : {"idle", "push", "waiting", "refused", "count"},
                                request : Requests \cup {None}, kind : Kinds \cup {"none"}]]
      /\ unsent \in SUBSET Requests /\ (Offers(c) => r \in Requests)
  BY <1>2 DEF TypeInv
<1> DEFINE Record == [at : {"idle", "push", "waiting", "refused", "count"},
                      request : Requests \cup {None}, kind : Kinds \cup {"none"}]
           Becomes(new) == /\ new \in Record /\ calls' = [calls EXCEPT ![c] = new]
                           /\ new.at \in {"push", "waiting", "refused"} =>
                                \/ Offers(c) /\ new.request = r
                                \/ new.request \in unsent \ unsent'
<1>6. Idle \in Record /\ Idle.at = "idle"
  BY DEF Idle
<1>7. ASSUME NEW at \in {"push", "waiting", "refused"}, NEW q \in Requests, NEW kind \in Kinds \cup {"none"}
      PROVE  /\ Call(at, q, kind) \in Record /\ Call(at, q, kind).request = q
             /\ Refused(q, kind) \in {Idle, Call("refused", q, kind)}
  BY DEF Call, Refused
<1>8. (\E new : Becomes(new)) /\ unsent' \in SUBSET unsent
  <2>1. ASSUME NEW q \in Requests, NEW kind \in Kinds, EnqueueBegin(c, q, kind)
        PROVE  (\E new : Becomes(new)) /\ unsent' \in SUBSET unsent
    <3>1. q \in unsent /\ unsent' = unsent \ {q}
          /\ \E new \in {Idle, Call("refused", q, kind), Call("push", q, kind)} :
               calls' = [calls EXCEPT ![c] = new]
      BY <1>7, <2>1, Zenon DEF EnqueueBegin, Refused
    <3>2. ASSUME NEW new \in {Idle, Call("refused", q, kind), Call("push", q, kind)},
                 calls' = [calls EXCEPT ![c] = new]
          PROVE  Becomes(new)
      <4>1. CASE new = Idle
        BY <1>6, <3>2, <4>1
      <4>2. CASE new # Idle
        <5>1. new \in Record /\ new.request = q
          BY <1>7, <3>2, <4>2
        <5> QED
          BY <3>1, <3>2, <5>1, Zenon
      <4> QED
        BY <4>1, <4>2
    <3> QED
      BY <3>1, <3>2, Zenon
  <2>2. CASE CountPushed(c) \/ PushTimeout(c) \/ Reject(c)
    <3>1. calls' = [calls EXCEPT ![c] = Idle] /\ unsent' = unsent
      BY <2>2 DEF CountPushed, PushTimeout, Reject
    <3>2. Becomes(Idle)
      BY <1>6, <3>1
    <3> QED
      BY <3>1, <3>2, Zenon
  <2>3. CASE PushRefused(c)
    <3>1. Offers(c) /\ unsent' = unsent /\ calls' = [calls EXCEPT ![c] = Refused(r, calls[c].kind)]
      BY <2>3 DEF PushRefused, Offers
    <3>2. r \in Requests /\ calls[c].kind \in Kinds \cup {"none"}
      BY <1>5, <3>1
    <3>3. PICK new : new = Refused(r, calls[c].kind)
      OBVIOUS
    <3>4. new = Idle \/ (new \in Record /\ new.request = r)
      BY <1>7, <3>2, <3>3
    <3>5. Becomes(new)
      BY <1>6, <3>1, <3>3, <3>4
    <3> QED
      BY <3>1, <3>5, Zenon
  <2>4. CASE PushWaits(c)
    <3>1. Offers(c) /\ unsent' = unsent /\ calls' = [calls EXCEPT ![c].at = "waiting"]
      BY <2>4 DEF PushWaits, Offers
    <3>2. PICK new : new = [calls[c] EXCEPT !.at = "waiting"]
      BY Zenon
    <3>3. new \in Record /\ new.request = r /\ calls' = [calls EXCEPT ![c] = new]
      BY <1>5, <3>1, <3>2, Zenon
    <3>4. Becomes(new)
      BY <3>1, <3>3, Zenon
    <3> QED
      BY <3>1, <3>4, Zenon
  <2> QED
    BY <2>1, <2>2, <2>3, <2>4, Zenon DEF Caller
<1>9. PICK new : Becomes(new)
  BY <1>8, Zenon
<1>10. /\ calls' \in [Callers -> Record] /\ calls'[c] = new
       /\ \A d \in Callers \ {c} : calls'[d] = calls[d]
  BY <1>5, <1>9
<1>11. /\ \A d \in Callers \ {c} : Offers(d)' <=> Offers(d)
       /\ Offers(c)' => \/ Offers(c) /\ calls'[c].request = calls[c].request
                        \/ calls'[c].request \in unsent \ unsent'
  BY <1>9, <1>10 DEF Offers
<1>12. OfferInv'
  BY <1>2, <1>3, <1>8, <1>10, <1>11, OfferKeeps, Zenon
<1>13. HandInv'
  BY <1>2, <1>3, Zenon DEF HandInv
<1>14. UNCHANGED state \/ (Offers(c) /\ \E s \in {"TimedOut", "Rejected"} :
                              /\ is_valid_transition(state[r], s) /\ state' = [state EXCEPT ![r] = s]
                              /\ s = "Rejected" => calls' = [calls EXCEPT ![c] = Idle])
  BY Zenon DEF Caller, EnqueueBegin, CountPushed, PushRefused, PushWaits, PushTimeout, Reject, Offers
<1>15. /\ state' \in [Requests -> RequestState]
       /\ \A q \in Requests : is_dead_request(q) => is_dead_request(q)'
  <2>1. CASE UNCHANGED state
    BY <1>5, <2>1 DEF is_dead_request
  <2>2. ASSUME Offers(c), NEW s \in {"TimedOut", "Rejected"}, state' = [state EXCEPT ![r] = s]
        PROVE  /\ state' \in [Requests -> RequestState]
               /\ \A q \in Requests : is_dead_request(q) => is_dead_request(q)'
    <3>1. r \in Requests /\ s \in RequestState /\ is_terminal_state(s)
      BY <1>5, <2>2 DEF RequestState, is_terminal_state, TerminalState
    <3> QED
      BY <1>5, <2>2, <3>1 DEF is_dead_request
  <2> QED
    BY <1>14, <2>1, <2>2
<1>16. Covered'
  <2>1. taken \in 0..Len(pushed)
    BY <1>1, <1>2, <1>5 DEF TypeInv, Ordered, LaneInv, taken
  <2>2. \A i \in 1..taken : is_dead_request(pushed[i]) => is_dead_request(pushed[i])'
    BY <1>3, <1>5, <1>15, <2>1
  <2> QED
    BY <1>2, <1>3, <2>2, CoveredStays, Zenon
<1>17. queued_count' \in 0..(SizeModulus - 1)
  <2>1. queued_count \in 0..(SizeModulus - 1) /\ SizeModulus \in Nat
    BY <1>2, ConfigAssumption DEF TypeInv
  <2>2. queued_count' = queued_count \/ queued_count' = Plus(queued_count, 1)
    BY DEF Caller, EnqueueBegin, CountPushed, PushRefused, PushWaits, PushTimeout, Reject
  <2>3. queued_count \in Int /\ 1 \in Int
    BY <2>1
  <2>4. Plus(queued_count, 1) \in 0..(SizeModulus - 1)
    BY <2>3, Wraps, Zenon
  <2> QED
    BY <2>1, <2>2, <2>4, Zenon
<1>18. TypeInv'
  <2>1. \A d \in Callers : Offers(d)' => calls'[d].request \in Requests
    BY <1>2, <1>5, <1>10, <1>11, ZenonT(60) DEF TypeInv
  <2> QED
    BY <1>2, <1>3, <1>5, <1>8, <1>10, <1>15, <1>17, <2>1, Zenon DEF TypeInv
<1>19. WaitInv'
  <2>1. CASE \A q \in Requests : state[q] \in Waiting => state'[q] \in Waiting
    BY <1>2, <1>3, <1>8, <1>10, <1>11, <2>1, WaitKeeps, Zenon
  <2>2. CASE Offers(c) /\ state' = [state EXCEPT ![r] = "Rejected"] /\ calls' = [calls EXCEPT ![c] = Idle]
    <3>1. r \in Requests /\ r \notin unsent /\ r \notin Pushed
          /\ \A d \in Callers \ {c} : Offers(d) => calls[d].request # r
      BY <1>2, <1>5, <2>2 DEF OfferInv, Pushed
    <3>2. \A q \in Requests \ {r} : state'[q] = state[q]
      BY <1>5, <2>2
    <3>3. ~Offers(c)'
      BY <1>5, <1>6, <2>2, Zenon DEF Offers
    <3>4. /\ \A i \in DOMAIN lane : lane[i] \in Requests \ {r}
          /\ \A q \in {deferred, hand} \ {None} : q \in Requests \ {r}
          /\ \A i \in DOMAIN batch : batch[i] \in Requests \ {r}
      BY <1>1, <1>2, <3>1, InsidePushed DEF TypeInv
    <3>5. ASSUME NEW d \in Callers, Offers(d)' PROVE state'[calls'[d].request] \in Waiting
      <4>1. d # c /\ Offers(d) /\ calls'[d] = calls[d]
        BY <1>10, <1>11, <3>3, <3>5, Zenon
      <4>2. calls[d].request \in Requests \ {r} /\ state[calls[d].request] \in Waiting
        BY <1>2, <3>1, <4>1 DEF TypeInv, WaitInv
      <4> QED
        BY <3>2, <4>1, <4>2, Zenon
    <3>6. \A q \in unsent' : state'[q] \in Waiting
      BY <1>2, <1>5, <1>8, <3>1, <3>2, Zenon DEF WaitInv
    <3> QED
      BY <1>2, <1>3, <3>2, <3>4, <3>5, <3>6, Zenon DEF WaitInv
  <2>3. CASE UNCHANGED state
    BY <2>1, <2>3
  <2>4. CASE Offers(c) /\ state' = [state EXCEPT ![r] = "TimedOut"]
    <3>1. \A q \in Requests : state'[q] = state[q] \/ state'[q] = "TimedOut"
      BY <1>5, <2>4
    <3> QED
      BY <2>1, <3>1 DEF Waiting
  <2> QED
    BY <1>14, <2>2, <2>3, <2>4
<1> QED
  BY <1>4, <1>12, <1>13, <1>16, <1>18, <1>19 DEF WorkerInv

\* A push adds the request to the end of the order.
LEMMA PushKeeps ==
  ASSUME WorkerInv, NEW c \in Callers, Push(c)
  PROVE  WorkerInv'
<1>1. PICK old \in [Requests -> Nat] : Ordered(old)
  BY DEF WorkerInv
<1>2. TypeInv /\ OfferInv /\ HandInv /\ WaitInv /\ Covered
  BY DEF WorkerInv
<1>3. /\ UNCHANGED <<deferred, hand>> /\ UNCHANGED <<batch, pc>> /\ UNCHANGED <<state, inferred>>
      /\ UNCHANGED <<unsent, queued_count>> /\ calls[c].at \in {"push", "waiting"} /\ Offers(c)
      /\ calls' = [calls EXCEPT ![c].at = "count"]
  BY DEF Push, formVars, executeVars, Offers
<1>4. PICK r \in Requests : r = calls[c].request
  BY <1>2, <1>3 DEF TypeInv
<1> DEFINE len == Len(pushed)
           n == Len(lane)
<1>5. /\ lane \in Seq(Requests) /\ pushed \in Seq(Requests)
      /\ \A i \in DOMAIN pushed : pushed[i] \in Requests \ {r}
  BY <1>2, <1>3, <1>4 DEF TypeInv, OfferInv
<1>6. /\ len \in Nat /\ n \in Nat /\ DOMAIN pushed = 1..len /\ DOMAIN lane = 1..n
  BY <1>5
<1>7. /\ DOMAIN pushed' = 1..(len + 1) /\ pushed'[len + 1] = r
      /\ \A i \in 1..len : pushed'[i] = pushed[i]
      /\ DOMAIN lane' = 1..(n + 1) /\ lane'[n + 1] = r
      /\ \A i \in 1..n : lane'[i] = lane[i]
      /\ Len(pushed') = len + 1 /\ Len(lane') = n + 1
  <2>1. lane' = Append(lane, r) /\ pushed' = Append(pushed, r)
    BY <1>4 DEF Push
  <2> QED
    BY <1>5, <2>1
<1>8. /\ taken' = taken /\ taken = len - n /\ taken \in Nat
      /\ lane' \in Seq(Requests) /\ pushed' \in Seq(Requests)
  <2>1. lane' = Append(lane, r) /\ pushed' = Append(pushed, r)
    BY <1>4 DEF Push
  <2>2. lane' \in Seq(Requests) /\ pushed' \in Seq(Requests)
    BY <1>5, <2>1
  <2> QED
    BY <1>1, <1>6, <1>7, <2>2 DEF taken, Ordered, LaneInv
<1> HIDE DEF len, n
<1>9. PICK pos \in [Requests -> Nat] : pos = [old EXCEPT ![r] = len + 1]
  <2>1. len + 1 \in Nat
    BY <1>6
  <2> QED
    BY <2>1, Zenon
<1>10. pos[r] = len + 1 /\ \A q \in Requests \ {r} : pos[q] = old[q]
  BY <1>1, <1>9
<1>11. ASSUME NEW q, TakenEarlier(old, q) PROVE q \in Requests \ {r} /\ TakenEarlier(pos, q)'
  <2>1. old[q] \in 1..len /\ q = pushed[old[q]] /\ old[q] <= taken /\ (Aside => old[q] # taken)
    BY <1>6, <1>11 DEF TakenEarlier
  <2>2. q \in Requests \ {r}
    BY <1>5, <1>6, <2>1, Zenon
  <2>3. pos[q] = old[q] /\ pos[q] \in DOMAIN pushed' /\ q = pushed'[pos[q]]
    BY <1>6, <1>7, <1>10, <2>1, <2>2
  <2>4. Aside' <=> Aside
    BY <1>3, Zenon DEF Aside
  <2> QED
    BY <1>8, <2>1, <2>2, <2>3, <2>4 DEF TakenEarlier
<1>12. LaneInv(pos)'
  <2>1. \A i \in DOMAIN pushed' : pos[pushed'[i]] = i
    <3>1. \A i \in 1..len : pushed[i] \in Requests \ {r} /\ old[pushed[i]] = i
      BY <1>1, <1>5, <1>6, Zenon DEF Ordered, LaneInv
    <3>2. \A i \in 1..len : pos[pushed'[i]] = i
      BY <1>7, <1>10, <3>1
    <3>3. \A i \in 1..(len + 1) : i \in 1..len \/ i = len + 1
      BY <1>6
    <3> QED
      BY <1>7, <1>10, <3>2, <3>3
  <2>2. \A i \in DOMAIN lane' : lane'[i] = pushed'[taken' + i]
    <3>1. \A i \in 1..n : lane[i] = pushed[taken + i]
      BY <1>1, <1>6, Zenon DEF Ordered, LaneInv
    <3>2. \A i \in 1..n : taken + i \in 1..len /\ lane'[i] = pushed'[taken + i]
      BY <1>6, <1>7, <1>8, <3>1
    <3>3. taken + (n + 1) = len + 1 /\ \A i \in 1..(n + 1) : i \in 1..n \/ i = n + 1
      BY <1>6, <1>8
    <3> QED
      BY <1>7, <1>8, <3>2, <3>3, Zenon
  <2>3. \A q \in {deferred', hand'} \ {None} : Last(q)'
    <3>1. \A q \in {deferred, hand} \ {None} : taken \in 1..len /\ q = pushed[taken]
      BY <1>1, <1>6, Zenon DEF Ordered, LaneInv, Last
    <3>2. \A i \in 1..len : i \in DOMAIN pushed' /\ pushed'[i] = pushed[i]
      BY <1>6, <1>7
    <3>3. \A q \in {deferred, hand} \ {None} : taken' \in DOMAIN pushed' /\ q = pushed'[taken']
      BY <1>8, <3>1, <3>2, Zenon
    <3> QED
      BY <1>3, <3>3 DEF Last
  <2> QED
    BY <1>8, <2>1, <2>2, <2>3 DEF LaneInv
<1>13. BatchInv(pos)'
  <2>1. ASSUME NEW i \in DOMAIN batch
        PROVE  TakenEarlier(pos, batch[i])' /\ pos[batch[i]] = old[batch[i]]
    <3>1. TakenEarlier(old, batch[i])
      BY <1>1 DEF Ordered, BatchInv
    <3> QED
      BY <1>3, <1>10, <1>11, <3>1
  <2>2. \A i, j \in DOMAIN batch : i < j => old[batch[i]] < old[batch[j]]
    BY <1>1 DEF Ordered, BatchInv
  <2> QED
    BY <1>3, <2>1, <2>2 DEF BatchInv
<1>14. InferredInv(pos)'
  <2>1. ASSUME NEW b \in DOMAIN inferred, NEW i \in DOMAIN inferred[b]
        PROVE  TakenEarlier(pos, inferred[b][i])' /\ pos[inferred[b][i]] = old[inferred[b][i]]
    <3>1. TakenEarlier(old, inferred[b][i])
      BY <1>1 DEF Ordered, InferredInv
    <3> QED
      BY <1>3, <1>10, <1>11, <3>1, Zenon
  <2>2. \A i \in DOMAIN batch : pos[batch[i]] = old[batch[i]]
    BY <1>1, <1>10, <1>11 DEF Ordered, BatchInv
  <2>3. InferredInv(old)
    BY <1>1 DEF Ordered
  <2> QED
    BY <1>3, <2>1, <2>2, <2>3 DEF InferredInv
<1>15. Covered'
  <2>1. \A q : (Held(q)' <=> Held(q)) /\ (is_dead_request(q)' <=> is_dead_request(q))
    BY <1>3 DEF Held, is_dead_request
  <2>2. \A i \in 1..taken : i \in 1..len /\ pushed'[i] = pushed[i]
    BY <1>6, <1>7, <1>8
  <2> QED
    BY <1>2, <1>8, <2>1, <2>2 DEF Covered
<1>16. /\ calls' \in [Callers -> [at : {"idle", "push", "waiting", "refused", "count"},
                                  request : Requests \cup {None}, kind : Kinds \cup {"none"}]]
       /\ ~Offers(c)' /\ \A d \in Callers \ {c} : calls'[d] = calls[d] /\ (Offers(d)' <=> Offers(d))
  <2>1. calls \in [Callers -> [at : {"idle", "push", "waiting", "refused", "count"},
                               request : Requests \cup {None}, kind : Kinds \cup {"none"}]]
    BY <1>2 DEF TypeInv
  <2> QED
    BY <1>3, <2>1 DEF Offers
<1>17. TypeInv' /\ HandInv'
  BY <1>2, <1>3, <1>8, <1>16, Zenon DEF TypeInv, HandInv
<1>18. OfferInv'
  <2>1. \A i \in DOMAIN pushed' : pushed'[i] = r \/ (i \in DOMAIN pushed /\ pushed'[i] = pushed[i])
    BY <1>6, <1>7
  <2>2. r \notin unsent /\ \A d \in Callers \ {c} : Offers(d) => calls[d].request # r
    BY <1>2, <1>3, <1>4 DEF OfferInv
  <2>3. ASSUME NEW d \in Callers, Offers(d)'
        PROVE  /\ calls'[d].request \notin unsent'
               /\ \A i \in DOMAIN pushed' : pushed'[i] # calls'[d].request
    BY <1>2, <1>3, <1>16, <2>1, <2>2, <2>3 DEF OfferInv
  <2>4. \A d, e \in Callers : Offers(d)' /\ Offers(e)' /\ calls'[e].request = calls'[d].request => d = e
    BY <1>2, <1>16 DEF OfferInv
  <2>5. \A i \in DOMAIN pushed' : pushed'[i] \notin unsent'
    BY <1>2, <1>3, <2>1, <2>2 DEF OfferInv
  <2> QED
    BY <2>3, <2>4, <2>5 DEF OfferInv
<1>19. WaitInv'
  <2>1. state[r] \in Waiting
    BY <1>2, <1>3, <1>4 DEF WaitInv
  <2>2. \A i \in DOMAIN lane' : state'[lane'[i]] \in Waiting
    <3>1. \A i \in DOMAIN lane' : lane'[i] = r \/ (i \in DOMAIN lane /\ lane'[i] = lane[i])
      BY <1>6, <1>7
    <3> QED
      BY <1>2, <1>3, <2>1, <3>1, Zenon DEF WaitInv
  <2> QED
    BY <1>2, <1>3, <1>16, <2>2 DEF WaitInv
<1> QED
  BY <1>9, <1>12, <1>13, <1>14, <1>15, <1>17, <1>18, <1>19, Zenon DEF WorkerInv, Ordered

-----------------------------------------------------------------------------
(* The worker thread takes requests out and forms a batch *)

\* The thread leaves the callers alone.
LEMMA OthersStay ==
  ASSUME TypeInv, OfferInv, UNCHANGED callerVars
  PROVE  /\ OfferInv' /\ UNCHANGED <<calls, unsent, pushed>>
         /\ \A c \in Callers : (Offers(c)' <=> Offers(c))
         /\ \A c \in Callers : Offers(c)' => calls'[c].request \in Requests
<1>1. UNCHANGED <<calls, unsent, pushed>>
  BY DEF callerVars
<1>2. \A c \in Callers : Offers(c)' <=> Offers(c)
  BY <1>1 DEF Offers
<1> QED
  BY <1>1, <1>2 DEF OfferInv, TypeInv

\* A request taken out early stays so while the thread goes on.
LEMMA EarlierStays ==
  ASSUME NEW pos, NEW r, TakenEarlier(pos, r), UNCHANGED pushed, taken \in Nat, pos[r] \in Nat,
         taken' = taken + 1 \/ (taken' = taken /\ (Aside' => Aside))
  PROVE  TakenEarlier(pos, r)'
  BY DEF TakenEarlier

\* What was inferred stays before what the thread turns to next.
LEMMA InferredStays ==
  ASSUME NEW pos, InferredInv(pos), UNCHANGED pushed, UNCHANGED inferred, taken \in Nat,
         pushed \in Seq(Requests),
         taken' = taken + 1 \/ (taken' = taken /\ (Aside' => Aside)),
         \A b \in DOMAIN inferred : \A i \in DOMAIN inferred[b] :
           \A j \in DOMAIN batch' : pos[inferred[b][i]] < pos[batch'[j]]
  PROVE  InferredInv(pos)'
<1>1. ASSUME NEW b \in DOMAIN inferred, NEW i \in DOMAIN inferred[b]
      PROVE  TakenEarlier(pos, inferred[b][i])'
  <2>1. TakenEarlier(pos, inferred[b][i])
    BY DEF InferredInv
  <2>2. PICK r : r = inferred[b][i]
    BY Zenon
  <2>3. TakenEarlier(pos, r) /\ pos[r] \in Nat
    BY <2>1, <2>2 DEF TakenEarlier
  <2>4. TakenEarlier(pos, r)'
    BY <2>3, EarlierStays, Zenon
  <2> QED
    BY <2>2, <2>4, Zenon
<1> QED
  BY <1>1 DEF InferredInv

\* The lane gives up its oldest request, which is then the last taken out.
LEMMA LaneGives ==
  ASSUME TypeInv, NEW pos, LaneInv(pos), lane # <<>>, lane' = Tail(lane), UNCHANGED pushed
  PROVE  /\ taken \in Nat /\ taken' = taken + 1 /\ Head(lane) \in Requests /\ Head(lane) = lane[1]
         /\ 1 \in DOMAIN lane
         /\ taken + 1 \in DOMAIN pushed /\ Head(lane) = pushed[taken + 1] /\ pos[Head(lane)] = taken + 1
         /\ lane' \in Seq(Requests)
         /\ \A i \in DOMAIN lane' : i + 1 \in DOMAIN lane /\ lane'[i] = lane[i + 1]
         /\ \A i \in DOMAIN lane' : lane'[i] = pushed[taken' + i]
<1>1. /\ lane \in Seq(Requests) /\ pushed \in Seq(Requests) /\ taken \in Nat
      /\ \A i \in DOMAIN lane : lane[i] = pushed[taken + i]
      /\ \A i \in DOMAIN pushed : pos[pushed[i]] = i
  BY DEF TypeInv, LaneInv
<1>2. /\ Len(lane) \in Nat \ {0} /\ DOMAIN lane = 1..Len(lane) /\ Head(lane) = lane[1]
      /\ Len(pushed) \in Nat /\ DOMAIN pushed = 1..Len(pushed)
  BY <1>1
<1>3. /\ lane' \in Seq(Requests) /\ Len(lane') = Len(lane) - 1 /\ DOMAIN lane' = 1..(Len(lane) - 1)
      /\ \A i \in 1..(Len(lane) - 1) : lane'[i] = lane[i + 1]
  BY <1>1, <1>2
<1>4. taken' = taken + 1
  BY <1>2, <1>3 DEF taken
<1>5. taken + 1 \in DOMAIN pushed /\ 1 \in DOMAIN lane
  BY <1>1, <1>2 DEF taken
<1>6. \A i \in DOMAIN lane' : i + 1 \in DOMAIN lane /\ taken' + i = taken + (i + 1)
  BY <1>1, <1>2, <1>3, <1>4
<1> QED
  BY <1>1, <1>2, <1>3, <1>4, <1>5, <1>6

\* discard_queued_request() stays within size_t.
LEMMA DiscardedType ==
  ASSUME NEW n \in 0..(SizeModulus - 1)
  PROVE  Discarded(n) \in 0..(SizeModulus - 1)
  BY ConfigAssumption DEF Discarded

\* run_loop() takes the deferred request or the oldest of the lane.
LEMMA TakeFirstKeeps ==
  ASSUME WorkerInv, TakeFirst
  PROVE  WorkerInv'
<1>1. PICK pos \in [Requests -> Nat] : Ordered(pos)
  BY DEF WorkerInv
<1>2. TypeInv /\ OfferInv /\ HandInv /\ WaitInv /\ Covered /\ LaneInv(pos) /\ BatchInv(pos) /\ InferredInv(pos)
  BY <1>1 DEF WorkerInv, Ordered
<1>3. /\ UNCHANGED state /\ UNCHANGED callerVars /\ UNCHANGED <<hand, inferred>> /\ pc = "top"
      /\ UNCHANGED inferred
  BY DEF TakeFirst, executeVars
<1>4. hand = None /\ hand' = None /\ batch = <<>> /\ DOMAIN batch = {} /\ None \notin Requests
  BY <1>2, <1>3, ConfigAssumption DEF HandInv
<1>5. /\ OfferInv' /\ UNCHANGED <<calls, unsent, pushed>> /\ UNCHANGED pushed
      /\ \A c \in Callers : (Offers(c)' <=> Offers(c))
      /\ \A c \in Callers : Offers(c)' => calls'[c].request \in Requests
  BY <1>2, <1>3, OthersStay
<1>6. PICK first : first = IF DeferredFirst THEN deferred ELSE Head(lane)
  OBVIOUS
<1>7. \/ /\ is_dead_request(first) /\ queued_count' = Discarded(queued_count) /\ UNCHANGED <<pc, batch>>
      \/ /\ ~is_dead_request(first) /\ batch' = <<first>> /\ pc' = "form" /\ UNCHANGED queued_count
  BY <1>6, Zenon DEF TakeFirst
<1> DEFINE Out ==
      /\ first \in Requests /\ deferred' = None /\ lane' \in Seq(Requests)
      /\ taken \in Nat /\ (taken' = taken + 1 \/ (taken' = taken /\ Aside))
      /\ taken' \in DOMAIN pushed /\ first = pushed[taken'] /\ pos[first] = taken'
      /\ \A i \in DOMAIN lane' : lane'[i] = pushed[taken' + i]
      /\ \A i \in DOMAIN lane' : state[lane'[i]] \in Waiting
      /\ state[first] \in Waiting
      /\ \A i \in 1..taken' : i = taken' \/ is_dead_request(pushed[i])
<1>8. Out
  <2>1. CASE DeferredFirst
    <3>1. first = deferred /\ deferred # None /\ deferred' = None /\ UNCHANGED lane
      BY <1>6, <2>1, Zenon DEF TakeFirst, DeferredFirst
    <3>2. first \in Requests /\ Last(first) /\ state[first] \in Waiting /\ Aside
      BY <1>2, <3>1, Zenon DEF TypeInv, LaneInv, WaitInv, Aside
    <3>3. taken' = taken /\ taken \in Nat
      BY <1>2, <1>5, <3>1, Zenon DEF taken, LaneInv
    <3>4. \A i \in DOMAIN lane' : lane'[i] = pushed[taken' + i] /\ state[lane'[i]] \in Waiting
      BY <1>2, <3>1, <3>3, Zenon DEF LaneInv, WaitInv
    <3>5. taken' \in DOMAIN pushed /\ first = pushed[taken'] /\ pos[first] = taken'
      BY <1>2, <3>2, <3>3 DEF Last, LaneInv
    <3>6. \A i \in 1..taken' : i = taken' \/ is_dead_request(pushed[i])
      <4>1. ASSUME NEW i \in 1..taken, i # taken PROVE is_dead_request(pushed[i])
        <5>1. i \in DOMAIN pushed /\ pushed[i] \in Requests
          BY <1>2, <3>3, <3>5 DEF TypeInv
        <5>2. pos[pushed[i]] = i
          BY <1>2, <5>1 DEF LaneInv
        <5>3. ~Held(pushed[i])
          BY <1>4, <3>1, <3>3, <3>5, <4>1, <5>1, <5>2, Zenon DEF Held
        <5> QED
          BY <1>2, <5>3 DEF Covered
      <4> QED
        BY <3>3, <4>1
    <3>7. lane' \in Seq(Requests)
      BY <1>2, <3>1, Zenon DEF TypeInv
    <3> QED
      BY <3>1, <3>2, <3>3, <3>4, <3>5, <3>6, <3>7, Zenon
  <2>2. CASE ~DeferredFirst
    <3>1. /\ first = Head(lane) /\ deferred = None /\ deferred' = None /\ lane # <<>> /\ lane' = Tail(lane)
      BY <1>6, <2>2, Zenon DEF TakeFirst, DeferredFirst, HasNext
    <3>2. /\ taken \in Nat /\ taken' = taken + 1 /\ first \in Requests /\ first = lane[1] /\ 1 \in DOMAIN lane
          /\ taken + 1 \in DOMAIN pushed /\ first = pushed[taken + 1] /\ pos[first] = taken + 1
          /\ lane' \in Seq(Requests)
          /\ \A i \in DOMAIN lane' : i + 1 \in DOMAIN lane /\ lane'[i] = lane[i + 1]
          /\ \A i \in DOMAIN lane' : lane'[i] = pushed[taken' + i]
      BY <1>2, <1>5, <3>1, LaneGives
    <3>3. state[first] \in Waiting /\ \A i \in DOMAIN lane' : state[lane'[i]] \in Waiting
      BY <1>2, <3>2, Zenon DEF WaitInv
    <3>4. \A i \in 1..taken' : i = taken' \/ is_dead_request(pushed[i])
      <4>1. ASSUME NEW i \in 1..taken PROVE is_dead_request(pushed[i])
        <5>1. pushed[i] \in Requests
          <6>1. pushed \in Seq(Requests)
            BY <1>2, Zenon DEF TypeInv
          <6>2. taken \in Nat /\ taken + 1 \in DOMAIN pushed
            BY <3>2, Zenon
          <6> QED
            BY <6>1, <6>2
        <5>2. ~Held(pushed[i])
          BY <1>4, <3>1, <5>1 DEF Held
        <5> QED
          BY <1>2, <5>2 DEF Covered
      <4> QED
        BY <3>2, <4>1
    <3> QED
      BY <3>1, <3>2, <3>3, <3>4, Zenon
  <2> QED
    BY <2>1, <2>2, Zenon
<1> HIDE DEF Out
<1>9. ~Aside' /\ LaneInv(pos)' /\ (taken' = taken + 1 \/ (taken' = taken /\ (Aside' => Aside)))
  <2>1. ~Aside'
    BY <1>4, <1>8 DEF Aside, Out
  <2>2. taken' \in Nat
    BY <1>8, Zenon DEF Out
  <2>3. LaneInv(pos)'
    BY <1>2, <1>4, <1>5, <1>8, <2>2 DEF LaneInv, Out
  <2> QED
    BY <1>8, <2>1, <2>3, Zenon DEF Out
<1>10. \A b \in DOMAIN inferred : \A i \in DOMAIN inferred[b] : pos[inferred[b][i]] < taken'
  <2>1. ASSUME NEW b \in DOMAIN inferred, NEW i \in DOMAIN inferred[b] PROVE pos[inferred[b][i]] < taken'
    <3>1. PICK p : p = pos[inferred[b][i]]
      BY Zenon
    <3>2. p \in DOMAIN pushed /\ p <= taken /\ (Aside => p # taken)
      BY <1>2, <3>1, Zenon DEF InferredInv, TakenEarlier
    <3>3. p \in Nat
      <4>1. pushed \in Seq(Requests)
        BY <1>2, Zenon DEF TypeInv
      <4>2. DOMAIN pushed = 1..Len(pushed) /\ Len(pushed) \in Nat
        BY <4>1
      <4> QED
        BY <3>2, <4>2
    <3>4. taken \in Nat /\ (taken' = taken + 1 \/ (taken' = taken /\ Aside))
      BY <1>8, ZenonT(30) DEF Out
    <3> QED
      BY <3>1, <3>2, <3>3, <3>4
  <2> QED
    BY <2>1
<1>11. /\ batch' \in Seq(Requests) /\ queued_count' \in 0..(SizeModulus - 1)
       /\ pc' \in {"top", "form"} /\ (pc' = "top" => batch' = <<>>)
       /\ \A i \in DOMAIN batch' : batch'[i] = first /\ i = 1
       /\ is_dead_request(first) \/ Held(first)'
  <2>1. queued_count \in 0..(SizeModulus - 1)
    BY <1>2 DEF TypeInv
  <2>2. CASE is_dead_request(first) /\ queued_count' = Discarded(queued_count) /\ UNCHANGED <<pc, batch>>
    BY <1>3, <1>4, <2>1, <2>2, DiscardedType DEF TypeInv
  <2>3. CASE batch' = <<first>> /\ pc' = "form" /\ UNCHANGED queued_count
    <3>1. batch' \in Seq(Requests) /\ DOMAIN batch' = {1} /\ batch'[1] = first
      BY <1>8, <2>3 DEF Out
    <3> QED
      BY <2>1, <2>3, <3>1 DEF Held
  <2> QED
    BY <1>7, <2>2, <2>3
<1>12. BatchInv(pos)'
  <2>1. TakenEarlier(pos, first)'
    BY <1>5, <1>8, <1>9 DEF TakenEarlier, Out
  <2>2. \A i \in DOMAIN batch' : TakenEarlier(pos, batch[i])'
    BY <1>11, <2>1 DEF TakenEarlier
  <2>3. \A i, j \in DOMAIN batch' : ~(i < j)
    BY <1>11
  <2> QED
    BY <2>2, <2>3 DEF BatchInv
<1>13. InferredInv(pos)'
  <2>1. \A b \in DOMAIN inferred : \A i \in DOMAIN inferred[b] :
          \A j \in DOMAIN batch' : pos[inferred[b][i]] < pos[batch'[j]]
    BY <1>8, <1>10, <1>11, Zenon DEF Out
  <2>2. taken \in Nat /\ pushed \in Seq(Requests)
    BY <1>2, Zenon DEF TypeInv, LaneInv
  <2> QED
    BY <1>2, <1>3, <1>5, <1>9, <2>1, <2>2, InferredStays, Zenon
<1>14. Covered'
  <2>1. ASSUME NEW i \in 1..taken' PROVE is_dead_request(pushed[i]) \/ Held(pushed[i])'
    <3>1. CASE i = taken'
      <4>1. pushed[i] = first
        BY <1>8, <3>1, Zenon DEF Out
      <4> QED
        BY <1>5, <1>11, <4>1, Zenon DEF Held
    <3>2. CASE i # taken'
      BY <1>8, <3>2, Zenon DEF Out
    <3> QED
      BY <3>1, <3>2, Zenon
  <2> QED
    BY <1>3, <1>5, <2>1 DEF Covered, is_dead_request
<1>15. TypeInv' /\ HandInv'
  BY <1>2, <1>3, <1>4, <1>5, <1>8, <1>11, Zenon DEF TypeInv, HandInv, Out, Forming
<1>16. WaitInv'
  <2>1. \A i \in DOMAIN batch' : state[batch'[i]] \in Waiting
    BY <1>8, <1>11, Zenon DEF Out
  <2> QED
    BY <1>2, <1>3, <1>4, <1>5, <1>8, <2>1, ZenonT(60) DEF WaitInv, Out
<1> QED
  BY <1>5, <1>9, <1>12, <1>13, <1>14, <1>15, <1>16, Zenon DEF WorkerInv, Ordered

\* form() takes the oldest request of the lane in hand, if it is alive.
LEMMA PopExtraKeeps ==
  ASSUME WorkerInv, PopExtra
  PROVE  WorkerInv'
<1>1. PICK pos \in [Requests -> Nat] : Ordered(pos)
  BY DEF WorkerInv
<1>2. TypeInv /\ OfferInv /\ HandInv /\ WaitInv /\ Covered /\ LaneInv(pos) /\ BatchInv(pos) /\ InferredInv(pos)
  BY <1>1 DEF WorkerInv, Ordered
<1>3. /\ UNCHANGED state /\ UNCHANGED callerVars /\ UNCHANGED <<deferred, batch>> /\ pc = "form"
      /\ UNCHANGED inferred /\ lane # <<>> /\ lane' = Tail(lane)
  BY DEF PopExtra, executeVars
<1>4. hand = None /\ deferred = None /\ deferred' = None /\ ~Aside /\ None \notin Requests
  BY <1>2, <1>3, ConfigAssumption, Zenon DEF HandInv, Aside
<1>5. /\ OfferInv' /\ UNCHANGED <<calls, unsent, pushed>> /\ UNCHANGED pushed
      /\ \A c \in Callers : (Offers(c)' <=> Offers(c))
      /\ \A c \in Callers : Offers(c)' => calls'[c].request \in Requests
  BY <1>2, <1>3, OthersStay
<1>6. PICK first : first = Head(lane)
  BY Zenon
<1>7. /\ taken \in Nat /\ taken' = taken + 1 /\ first \in Requests /\ first = lane[1] /\ 1 \in DOMAIN lane
      /\ taken + 1 \in DOMAIN pushed /\ first = pushed[taken + 1] /\ pos[first] = taken + 1
      /\ lane' \in Seq(Requests)
      /\ \A i \in DOMAIN lane' : i + 1 \in DOMAIN lane /\ lane'[i] = lane[i + 1]
      /\ \A i \in DOMAIN lane' : lane'[i] = pushed[taken' + i]
  BY <1>2, <1>3, <1>5, <1>6, LaneGives, Zenon
<1>8. /\ hand' \in {None, first} /\ queued_count' \in 0..(SizeModulus - 1)
      /\ pc' \in {"form", "extra"} /\ (hand' # None <=> pc' = "extra")
      /\ is_dead_request(first) \/ hand' = first
  <2>1. queued_count \in 0..(SizeModulus - 1)
    BY <1>2 DEF TypeInv
  <2>2. CASE is_dead_request(first) /\ queued_count' = Discarded(queued_count) /\ UNCHANGED <<pc, hand>>
    BY <1>3, <1>4, <2>1, <2>2, DiscardedType, Zenon
  <2>3. CASE hand' = first /\ pc' = "extra" /\ UNCHANGED queued_count
    BY <1>4, <1>7, <2>1, <2>3, Zenon
  <2> QED
    BY <1>6, <2>2, <2>3, Zenon DEF PopExtra
<1>9. LaneInv(pos)'
  <2>1. \A r \in {deferred', hand'} \ {None} : Last(r)'
    BY <1>4, <1>5, <1>7, <1>8, Zenon DEF Last
  <2>2. taken' \in Nat
    BY <1>7
  <2> QED
    BY <1>2, <1>5, <1>7, <2>1, <2>2, Zenon DEF LaneInv
<1>10. BatchInv(pos)'
  <2>1. ASSUME NEW i \in DOMAIN batch PROVE TakenEarlier(pos, batch[i])'
    <3>1. PICK r : r = batch[i]
      BY Zenon
    <3>2. TakenEarlier(pos, r) /\ pos[r] \in Nat
      BY <1>2, <3>1 DEF BatchInv, TypeInv
    <3>3. TakenEarlier(pos, r)'
      BY <1>5, <1>7, <3>2, EarlierStays, Zenon
    <3> QED
      BY <1>3, <3>1, <3>3
  <2> QED
    BY <1>2, <1>3, <2>1 DEF BatchInv
<1>11. InferredInv(pos)'
  <2>1. \A b \in DOMAIN inferred : \A i \in DOMAIN inferred[b] :
          \A j \in DOMAIN batch' : pos[inferred[b][i]] < pos[batch'[j]]
    BY <1>2, <1>3, Zenon DEF InferredInv
  <2>2. pushed \in Seq(Requests) /\ pc # "finish"
    BY <1>2, <1>3, Zenon DEF TypeInv
  <2> QED
    BY <1>2, <1>3, <1>5, <1>7, <2>1, <2>2, InferredStays, Zenon
<1>12. Covered'
  <2>1. ASSUME NEW i \in 1..taken' PROVE is_dead_request(pushed[i]) \/ Held(pushed[i])'
    <3>1. CASE i = taken'
      BY <1>5, <1>7, <1>8, <3>1, Zenon DEF Held
    <3>2. CASE i # taken'
      <4>1. i \in 1..taken /\ pushed[i] \in Requests
        <5>1. pushed \in Seq(Requests)
          BY <1>2, Zenon DEF TypeInv
        <5>2. taken \in Nat /\ taken' = taken + 1 /\ taken + 1 \in DOMAIN pushed
          BY <1>7, Zenon
        <5> QED
          BY <3>2, <5>1, <5>2
      <4>2. is_dead_request(pushed[i]) \/ Held(pushed[i])
        BY <1>2, <4>1 DEF Covered
      <4> QED
        BY <1>3, <1>4, <1>5, <4>1, <4>2, Zenon DEF Held
    <3> QED
      BY <3>1, <3>2
  <2> QED
    BY <1>3, <1>5, <2>1, Zenon DEF Covered, is_dead_request
<1>13. TypeInv' /\ HandInv'
  BY <1>2, <1>3, <1>4, <1>5, <1>7, <1>8, Zenon DEF TypeInv, HandInv, Forming
<1>14. WaitInv'
  <2>1. state[first] \in Waiting /\ \A i \in DOMAIN lane' : state[lane'[i]] \in Waiting
    BY <1>2, <1>7, Zenon DEF WaitInv
  <2>2. \A i \in DOMAIN batch : state[batch[i]] \in Waiting
    BY <1>2, <1>3, Zenon DEF WaitInv, Forming
  <2> QED
    BY <1>2, <1>3, <1>4, <1>5, <1>8, <2>1, <2>2, ZenonT(60) DEF WaitInv
<1> QED
  BY <1>5, <1>9, <1>10, <1>11, <1>12, <1>13, <1>14, Zenon DEF WorkerInv, Ordered

\* form() appends the request in hand to the batch or sets it aside.
LEMMA PlaceExtraKeeps ==
  ASSUME WorkerInv, PlaceExtra
  PROVE  WorkerInv'
<1>1. PICK pos \in [Requests -> Nat] : Ordered(pos)
  BY DEF WorkerInv
<1>2. TypeInv /\ OfferInv /\ HandInv /\ WaitInv /\ Covered /\ LaneInv(pos) /\ BatchInv(pos) /\ InferredInv(pos)
  BY <1>1 DEF WorkerInv, Ordered
<1>3. /\ UNCHANGED <<state, lane>> /\ UNCHANGED callerVars /\ pc = "extra" /\ hand' = None
      /\ UNCHANGED inferred
  BY Zenon DEF PlaceExtra, executeVars
<1>4. PICK r \in Requests : r = hand
  BY <1>2, <1>3, Zenon DEF HandInv, TypeInv
<1>5. deferred = None /\ None \notin Requests /\ Aside
  BY <1>2, <1>3, <1>4, ConfigAssumption, Zenon DEF HandInv, Aside
<1>6. /\ OfferInv' /\ UNCHANGED <<calls, unsent, pushed>> /\ UNCHANGED pushed
      /\ \A c \in Callers : (Offers(c)' <=> Offers(c))
      /\ \A c \in Callers : Offers(c)' => calls'[c].request \in Requests
  BY <1>2, <1>3, OthersStay, Zenon
<1>7. taken' = taken /\ taken \in Nat /\ taken \in DOMAIN pushed /\ r = pushed[taken] /\ pos[r] = taken
  BY <1>2, <1>3, <1>4, <1>5, <1>6 DEF taken, LaneInv, Last
<1>8. queued_count' \in 0..(SizeModulus - 1)
  <2>1. queued_count \in 0..(SizeModulus - 1)
    BY <1>2 DEF TypeInv
  <2>2. queued_count' = queued_count \/ queued_count' = Discarded(queued_count)
    BY Zenon DEF PlaceExtra
  <2> QED
    BY <2>1, <2>2, DiscardedType, Zenon
<1> DEFINE len == Len(batch)
<1>9. /\ len \in Nat /\ DOMAIN batch = 1..len /\ batch \in Seq(Requests)
  BY <1>2 DEF TypeInv
<1>10. \/ deferred' = r /\ pc' = "formed" /\ batch' = batch
       \/ deferred' = None /\ pc' = "form" /\ batch' = Append(batch, r)
  BY <1>4, <1>5, Zenon DEF PlaceExtra
<1>11. /\ deferred' \in {None, r} /\ pc' \in {"form", "formed"} /\ (deferred' # None => pc' = "formed")
       /\ batch' \in Seq(Requests)
       /\ \A i \in DOMAIN batch : i \in DOMAIN batch' /\ batch'[i] = batch[i]
       /\ \A i \in DOMAIN batch' : i \in DOMAIN batch \/ (batch'[i] = r /\ i = len + 1 /\ deferred' = None)
       /\ Held(r)'
  <2>1. CASE deferred' = r /\ pc' = "formed" /\ batch' = batch
    BY <1>5, <1>9, <2>1 DEF Held
  <2>2. CASE deferred' = None /\ pc' = "form" /\ batch' = Append(batch, r)
    <3>1. /\ batch' \in Seq(Requests) /\ DOMAIN batch' = 1..(len + 1) /\ batch'[len + 1] = r
          /\ \A i \in 1..len : batch'[i] = batch[i]
      BY <1>9, <2>2
    <3>2. \A i \in 1..(len + 1) : i \in 1..len \/ i = len + 1
      BY <1>9
    <3>3. \A i \in 1..len : i \in 1..(len + 1)
      BY <1>9
    <3>4. len + 1 \in 1..(len + 1)
      BY <1>9
    <3> HIDE DEF len
    <3> QED
      BY <1>9, <2>2, <3>1, <3>2, <3>3, <3>4, Zenon DEF Held
  <2> QED
    BY <1>10, <2>1, <2>2, Zenon
<1> HIDE DEF len
<1>12. LaneInv(pos)'
  <2>1. \A q \in {deferred', hand'} \ {None} : Last(q)'
    BY <1>3, <1>6, <1>7, <1>11, Zenon DEF Last
  <2> QED
    BY <1>2, <1>3, <1>6, <1>7, <2>1, Zenon DEF LaneInv
<1>13. taken' = taken /\ (Aside' => Aside)
  BY <1>5, <1>7, Zenon
<1>14. ASSUME NEW i \in DOMAIN batch
       PROVE  TakenEarlier(pos, batch[i]) /\ pos[batch[i]] \in Nat /\ pos[batch[i]] < taken
  <2>1. TakenEarlier(pos, batch[i]) /\ batch[i] \in Requests
    BY <1>2 DEF BatchInv, TypeInv
  <2> QED
    BY <1>5, <1>7, <2>1 DEF TakenEarlier
<1>15. BatchInv(pos)'
  <2>1. ASSUME NEW i \in DOMAIN batch' PROVE TakenEarlier(pos, batch[i])'
    <3>1. PICK q : q = batch'[i]
      OBVIOUS
    <3>2. CASE i \in DOMAIN batch
      <4>1. TakenEarlier(pos, q) /\ pos[q] \in Nat
        BY <1>11, <1>14, <3>1, <3>2, Zenon
      <4>2. TakenEarlier(pos, q)'
        BY <1>6, <1>7, <1>13, <4>1, EarlierStays, Zenon
      <4> QED
        BY <3>1, <4>2, Zenon
    <3>3. CASE batch'[i] = r /\ deferred' = None
      <4>1. ~Aside'
        BY <1>3, <3>3, Zenon DEF Aside
      <4> QED
        BY <1>6, <1>7, <3>3, <4>1 DEF TakenEarlier
    <3> QED
      BY <1>11, <3>2, <3>3
  <2>2. ASSUME NEW i \in DOMAIN batch', NEW j \in DOMAIN batch', i < j PROVE pos[batch'[i]] < pos[batch'[j]]
    <3>1. i \in DOMAIN batch
      <4>1. (i \in 1..len \/ i = len + 1) /\ (j \in 1..len \/ j = len + 1)
        BY <1>9, <1>11, Zenon
      <4>2. i \in 1..len
        BY <1>9, <2>2, <4>1
      <4> QED
        BY <1>9, <4>2, Zenon
    <3>2. CASE j \in DOMAIN batch
      <4>1. pos[batch[i]] < pos[batch[j]]
        BY <1>2, <2>2, <3>1, <3>2, Zenon DEF BatchInv
      <4>2. batch'[i] = batch[i] /\ batch'[j] = batch[j]
        BY <1>11, <3>1, <3>2, Zenon
      <4> QED
        BY <4>1, <4>2, Zenon
    <3>3. CASE batch'[j] = r
      BY <1>7, <1>11, <1>14, <3>1, <3>3, Zenon
    <3> QED
      BY <1>11, <3>2, <3>3, Zenon
  <2> QED
    BY <2>1, <2>2, Zenon DEF BatchInv
<1>16. InferredInv(pos)'
  <2>1. ASSUME NEW b \in DOMAIN inferred, NEW i \in DOMAIN inferred[b], NEW j \in DOMAIN batch'
        PROVE  pos[inferred[b][i]] < pos[batch'[j]]
    <3>1. /\ TakenEarlier(pos, inferred[b][i])
          /\ \A k \in DOMAIN batch : pos[inferred[b][i]] < pos[batch[k]]
      BY <1>2, <1>3, Zenon DEF InferredInv
    <3>2. pos[inferred[b][i]] \in Nat /\ pos[inferred[b][i]] < taken
      <4>1. PICK p : p = pos[inferred[b][i]]
        BY Zenon
      <4>2. p \in DOMAIN pushed /\ p <= taken /\ p # taken
        BY <1>5, <3>1, <4>1 DEF TakenEarlier
      <4>3. DOMAIN pushed \subseteq Nat
        <5>1. pushed \in Seq(Requests)
          BY <1>2, Zenon DEF TypeInv
        <5> QED
          BY <5>1
      <4> QED
        BY <1>7, <4>1, <4>2, <4>3
    <3> QED
      BY <1>7, <1>11, <3>1, <3>2
  <2>2. pushed \in Seq(Requests) /\ pc # "finish"
    BY <1>2, <1>3, Zenon DEF TypeInv
  <2> QED
    BY <1>2, <1>3, <1>6, <1>7, <1>13, <2>1, <2>2, InferredStays, Zenon
<1>17. Covered'
  <2>1. ASSUME NEW i \in 1..taken PROVE is_dead_request(pushed[i]) \/ Held(pushed[i])'
    <3>1. i \in DOMAIN pushed /\ pushed[i] \in Requests
      BY <1>2, <1>7 DEF TypeInv
    <3>2. is_dead_request(pushed[i]) \/ Held(pushed[i])
      BY <1>2 DEF Covered
    <3> QED
      BY <1>4, <1>5, <1>6, <1>11, <3>1, <3>2, Zenon DEF Held
  <2> QED
    BY <1>3, <1>6, <1>7, <2>1, Zenon DEF Covered, is_dead_request
<1>18. TypeInv' /\ HandInv'
  BY <1>2, <1>3, <1>4, <1>6, <1>8, <1>11, Zenon DEF TypeInv, HandInv, Forming
<1>19. WaitInv'
  <2>1. state[r] \in Waiting /\ \A i \in DOMAIN batch : state[batch[i]] \in Waiting
    BY <1>2, <1>3, <1>4, <1>5, Zenon DEF WaitInv, Forming
  <2> QED
    BY <1>2, <1>3, <1>6, <1>11, <2>1, Zenon DEF WaitInv
<1> QED
  BY <1>6, <1>12, <1>15, <1>16, <1>17, <1>18, <1>19, Zenon DEF WorkerInv, Ordered

-----------------------------------------------------------------------------
(* The execution of a batch *)

\* The steps of the thread that move no request: the end of form(), the check
\* of a member, a model that cannot be loaded, and the exit; and close().
LEMMA MovesNone ==
  ASSUME WorkerInv,
         \/ Exit \/ FormEnds \/ CheckMember \/ NotResident \/ StopAccepting \/ CloseLane
  PROVE  WorkerInv'
<1>1. PICK pos \in [Requests -> Nat] : Ordered(pos)
  BY DEF WorkerInv
<1>2. TypeInv /\ OfferInv /\ HandInv /\ WaitInv /\ Covered
  BY Zenon DEF WorkerInv
<1>3. /\ UNCHANGED <<pushed, lane>> /\ UNCHANGED <<deferred, hand>> /\ UNCHANGED <<batch, inferred>>
      /\ UNCHANGED batch /\ UNCHANGED <<calls, unsent, queued_count, state>>
  BY Zenon DEF Exit, FormEnds, CheckMember, NotResident, StopAccepting, CloseLane, callerVars, formVars,
         executeVars, untouched, Settle, fail_all
<1>4. /\ pc' \in {"top", "exited"} \cup Forming \cup Executing
      /\ pc' \in {"top", "exited"} => pc \in {"top", "exited"}
      /\ pc' = "extra" <=> pc = "extra"
      /\ pc' = "form" => pc = "form"
      /\ pc' \in Forming => pc \in Forming
      /\ pc = "finish" => pc' = "finish"
  <2>1. CASE StopAccepting \/ CloseLane
    BY <1>2, <2>1, Zenon DEF StopAccepting, CloseLane, formVars, TypeInv
  <2>2. CASE Exit \/ FormEnds \/ CheckMember \/ NotResident
    BY <1>2, <2>2 DEF Exit, FormEnds, CheckMember, NotResident, Settle, fail_all, TypeInv, Forming, Executing
  <2> QED
    BY <2>1, <2>2, Zenon
<1>5. Ordered(pos)'
  BY <1>1, <1>3, <1>4, OrderStays, Zenon
<1>6. Covered'
  <2>1. \A i \in 1..taken : is_dead_request(pushed[i]) => is_dead_request(pushed[i])'
    BY <1>3 DEF is_dead_request
  <2> QED
    BY <1>2, <1>3, <2>1, CoveredStays, Zenon
<1>7. OfferInv' /\ \A c \in Callers : (Offers(c)' <=> Offers(c))
  BY <1>2, <1>3, ZenonT(60) DEF OfferInv, Offers
<1>8. TypeInv' /\ HandInv' /\ WaitInv'
  BY <1>2, <1>3, <1>4, <1>7 DEF TypeInv, HandInv, WaitInv
<1> QED
  BY <1>5, <1>6, <1>7, <1>8 DEF WorkerInv

-----------------------------------------------------------------------------
(* The filters *)

\* What filter_live_batch() leaves: live members of the batch in their order.
LEMMA FilterFacts ==
  ASSUME batch \in Seq(Requests), filter_live_batch
  PROVE  /\ batch' \in Seq(Requests)
         /\ \E from \in [DOMAIN batch' -> DOMAIN batch] :
              /\ \A i \in DOMAIN batch' : batch'[i] = batch[from[i]] /\ ~is_dead_request(batch[from[i]])
              /\ \A i, j \in DOMAIN batch' : i < j => from[i] < from[j]
              /\ \A k \in DOMAIN batch : ~is_dead_request(batch[k]) => \E i \in DOMAIN batch' : from[i] = k
<1> DEFINE alive == {i \in DOMAIN batch : ~is_dead_request(batch[i])}
<1>1. PICK pass \in Passes(alive, Len(batch)) : batch' = Along(pass, batch)
  BY Zenon DEF filter_live_batch
<1>2. PICK n \in Nat : pass \in [1..n -> alive]
  <2>1. pass \in UNION {[1..k -> alive] : k \in 0..Len(batch)} /\ Len(batch) \in Nat
    BY <1>1 DEF Passes
  <2> HIDE DEF alive
  <2>2. PICK n \in 0..Len(batch) : pass \in [1..n -> alive]
    BY <2>1, Zenon
  <2> QED
    BY <2>1, <2>2
<1>3. /\ \A i, j \in DOMAIN pass : i < j => pass[i] < pass[j]
      /\ \A x \in alive : \E i \in DOMAIN pass : pass[i] = x
  BY <1>1, Zenon DEF Passes
<1>4. alive \subseteq DOMAIN batch /\ \A i \in alive : batch[i] \in Requests /\ ~is_dead_request(batch[i])
  OBVIOUS
<1>5. \A k \in DOMAIN batch : ~is_dead_request(batch[k]) => k \in alive
  OBVIOUS
<1> HIDE DEF alive
<1>6. /\ batch' = [j \in 1..n |-> batch[pass[j]]] /\ DOMAIN pass = 1..n
      /\ \A j \in 1..n : pass[j] \in alive
  BY <1>1, <1>2, Zenon DEF Along
<1>7. /\ DOMAIN batch' = 1..n /\ \A i \in 1..n : batch'[i] = batch[pass[i]]
      /\ batch' \in Seq(Requests)
  <2>1. \A j \in 1..n : batch[pass[j]] \in Requests
    BY <1>4, <1>6, Zenon
  <2>2. [j \in 1..n |-> batch[pass[j]]] \in [1..n -> Requests]
    BY <2>1, Zenon
  <2> QED
    BY <1>6, <2>2
<1>8. pass \in [DOMAIN batch' -> DOMAIN batch]
  BY <1>2, <1>4, <1>7, Zenon
<1>9. \A i \in DOMAIN batch' : batch'[i] = batch[pass[i]] /\ ~is_dead_request(batch[pass[i]])
  BY <1>4, <1>6, <1>7, Zenon
<1>10. \A i, j \in DOMAIN batch' : i < j => pass[i] < pass[j]
  BY <1>3, <1>6, <1>7, Zenon
<1>11. \A k \in DOMAIN batch : ~is_dead_request(batch[k]) => \E i \in DOMAIN batch' : pass[i] = k
  BY <1>3, <1>5, <1>6, <1>7, Zenon
<1> QED
  BY <1>7, <1>8, <1>9, <1>10, <1>11, Zenon

\* A filter drops only dead requests and keeps the order.
LEMMA FilterKeeps ==
  ASSUME WorkerInv, filter_live_batch, UNCHANGED <<state, lane>>, UNCHANGED callerVars,
         UNCHANGED <<deferred, hand>>, UNCHANGED inferred,
         pc \in {"formed", "execute", "check", "resident"},
         pc' \in {"top", "execute", "check", "resident", "infer"},
         pc' = "top" => batch' = <<>>, pc' = "execute" => pc = "formed",
         queued_count' \in 0..(SizeModulus - 1)
  PROVE  WorkerInv'
<1>1. PICK pos \in [Requests -> Nat] : Ordered(pos)
  BY Zenon DEF WorkerInv
<1>2. TypeInv /\ OfferInv /\ HandInv /\ WaitInv /\ Covered /\ LaneInv(pos) /\ BatchInv(pos) /\ InferredInv(pos)
  BY <1>1, Zenon DEF WorkerInv, Ordered
<1>3. /\ OfferInv' /\ UNCHANGED <<calls, unsent, pushed>> /\ UNCHANGED pushed
      /\ \A c \in Callers : (Offers(c)' <=> Offers(c))
      /\ \A c \in Callers : Offers(c)' => calls'[c].request \in Requests
  BY <1>2, OthersStay, Zenon
<1>4. batch \in Seq(Requests)
  BY <1>2 DEF TypeInv
<1>5. /\ batch' \in Seq(Requests)
      /\ \E from \in [DOMAIN batch' -> DOMAIN batch] :
              /\ \A i \in DOMAIN batch' : batch'[i] = batch[from[i]] /\ ~is_dead_request(batch[from[i]])
              /\ \A i, j \in DOMAIN batch' : i < j => from[i] < from[j]
              /\ \A k \in DOMAIN batch : ~is_dead_request(batch[k]) => \E i \in DOMAIN batch' : from[i] = k
  BY <1>4, FilterFacts, Zenon
<1>6. PICK from \in [DOMAIN batch' -> DOMAIN batch] :
              /\ \A i \in DOMAIN batch' : batch'[i] = batch[from[i]] /\ ~is_dead_request(batch[from[i]])
              /\ \A i, j \in DOMAIN batch' : i < j => from[i] < from[j]
              /\ \A k \in DOMAIN batch : ~is_dead_request(batch[k]) => \E i \in DOMAIN batch' : from[i] = k
  BY <1>5, Zenon
<1>7. taken' = taken /\ Aside' = Aside /\ taken \in Nat
  BY <1>2, <1>3, Zenon DEF taken, Aside, LaneInv
<1>8. LaneInv(pos)'
  BY <1>2, <1>3, <1>7, Zenon DEF LaneInv, Last
<1>9. BatchInv(pos)'
  <2>1. ASSUME NEW i \in DOMAIN batch' PROVE TakenEarlier(pos, batch[i])'
    <3>1. PICK k \in DOMAIN batch : batch'[i] = batch[k]
      BY <1>6, Zenon
    <3>2. PICK r : r = batch[k]
      BY Zenon
    <3>3. TakenEarlier(pos, r)
      BY <1>2, <3>2, Zenon DEF BatchInv
    <3>4. TakenEarlier(pos, r)'
      BY <1>3, <1>7, <3>3, Zenon DEF TakenEarlier
    <3> QED
      BY <3>1, <3>2, <3>4, Zenon
  <2>2. \A i, j \in DOMAIN batch' : i < j => pos[batch'[i]] < pos[batch'[j]]
    BY <1>2, <1>6 DEF BatchInv
  <2> QED
    BY <2>1, <2>2, Zenon DEF BatchInv
<1>10. InferredInv(pos)'
  <2>1. \A b \in DOMAIN inferred : \A i \in DOMAIN inferred[b] :
          \A j \in DOMAIN batch' : pos[inferred[b][i]] < pos[batch'[j]]
    BY <1>2, <1>6 DEF InferredInv
  <2>2. pushed \in Seq(Requests) /\ pc # "finish"
    BY <1>2 DEF TypeInv
  <2> QED
    BY <1>2, <1>3, <1>7, <2>1, <2>2, InferredStays, ZenonT(60)
<1>11. Covered'
  <2>1. ASSUME NEW i \in 1..taken PROVE is_dead_request(pushed[i]) \/ Held(pushed[i])'
    <3>1. is_dead_request(pushed[i]) \/ Held(pushed[i])
      BY <1>2 DEF Covered
    <3>2. PICK r : r = pushed[i]
      BY Zenon
    <3>3. is_dead_request(r) \/ Held(r)'
      <4>1. CASE is_dead_request(r)
        BY <4>1
      <4>2. CASE deferred = r \/ hand = r
        BY <4>2 DEF Held
      <4>3. ASSUME NEW k \in DOMAIN batch, batch[k] = r, ~is_dead_request(r) PROVE Held(r)'
        <5>1. PICK j \in DOMAIN batch' : from[j] = k
          BY <1>6, <4>3, Zenon
        <5>2. batch'[j] = r
          BY <1>6, <4>3, <5>1, Zenon
        <5> QED
          BY <5>2, Zenon DEF Held
      <4> QED
        BY <3>1, <3>2, <4>1, <4>2, <4>3, Zenon DEF Held
    <3> QED
      BY <1>3, <3>2, <3>3, Zenon
  <2> QED
    BY <1>3, <1>7, <2>1, Zenon DEF Covered, is_dead_request
<1>12. TypeInv' /\ HandInv'
  BY <1>2, <1>3, <1>5, Zenon DEF TypeInv, HandInv, Forming, Executing
<1>13. WaitInv'
  <2>1. pc' \in Forming => \A i \in DOMAIN batch' : state[batch'[i]] \in Waiting
    BY <1>2, <1>6, ZenonT(60) DEF WaitInv, Forming
  <2> QED
    BY <1>2, <1>3, <2>1, ZenonT(60) DEF WaitInv
<1> QED
  BY <1>3, <1>8, <1>9, <1>10, <1>11, <1>12, <1>13, Zenon DEF WorkerInv, Ordered

\* The filters of run_loop() and execute_batch() keep the invariant.
LEMMA FiltersKeep ==
  ASSUME WorkerInv, FilterFormed \/ BeginBatch \/ AllStarted \/ Resident
  PROVE  WorkerInv'
<1>1. /\ filter_live_batch /\ UNCHANGED <<state, lane>> /\ UNCHANGED callerVars
      /\ UNCHANGED <<deferred, hand>> /\ UNCHANGED inferred
  BY Zenon DEF FilterFormed, BeginBatch, AllStarted, Resident, FilterBatch, untouched, executeVars
<1>2. /\ pc \in {"formed", "execute", "check", "resident"}
      /\ pc' \in {"top", "execute", "check", "resident", "infer"}
      /\ pc' = "top" => batch' = <<>>
      /\ pc' = "execute" => pc = "formed"
  BY DEF FilterFormed, BeginBatch, AllStarted, Resident, FilterBatch
<1>3. queued_count' \in 0..(SizeModulus - 1)
  <2>1. queued_count \in 0..(SizeModulus - 1) /\ batch \in Seq(Requests)
    BY Zenon DEF WorkerInv, TypeInv
  <2>2. batch' \in Seq(Requests)
    BY <1>1, <2>1, FilterFacts
  <2>3. queued_count \in Int /\ Len(batch') \in Int /\ Len(batch) - Len(batch') \in Int
    BY <2>1, <2>2
  <2>4. CASE FilterFormed
    BY <2>3, <2>4, Wraps, Zenon DEF FilterFormed
  <2>5. CASE BeginBatch
    BY <2>3, <2>5, Wraps, Zenon DEF BeginBatch, Dequeued
  <2>6. CASE AllStarted \/ Resident
    BY <2>1, <2>6 DEF AllStarted, Resident
  <2> QED
    BY <2>4, <2>5, <2>6, Zenon
<1> QED
  BY <1>1, <1>2, <1>3, FilterKeeps

-----------------------------------------------------------------------------
(* A batch starts, is inferred and ends *)

\* The lane has the last requests that were pushed.
LEMMA LaneInside ==
  ASSUME TypeInv, taken \in Nat, NEW i \in DOMAIN lane
  PROVE  taken + i \in DOMAIN pushed /\ i \in Nat \ {0}
<1>1. lane \in Seq(Requests) /\ pushed \in Seq(Requests)
  BY DEF TypeInv
<1>2. /\ DOMAIN lane = 1..Len(lane) /\ Len(lane) \in Nat
      /\ DOMAIN pushed = 1..Len(pushed) /\ Len(pushed) \in Nat
  BY <1>1
<1>3. taken = Len(pushed) - Len(lane)
  BY Zenon DEF taken
<1> QED
  BY <1>2, <1>3

\* The states of the requests outside the batch stay, and so does an end.
LEMMA StatesMove ==
  ASSUME WorkerInv, UNCHANGED <<pushed, lane>>, UNCHANGED <<deferred, hand>>, UNCHANGED <<calls, unsent>>,
         UNCHANGED batch \/ batch' = <<>>, pc' \notin Forming, state' \in [Requests -> RequestState],
         \A r \in Requests : is_dead_request(r) => state'[r] = state[r],
         \A r \in Requests : state'[r] = state[r] \/ (\E i \in DOMAIN batch : batch[i] = r),
         batch' = <<>> => \A i \in DOMAIN batch : is_terminal_state(state'[batch[i]])
  PROVE  Covered' /\ WaitInv'
<1>1. PICK pos \in [Requests -> Nat] : Ordered(pos)
  BY Zenon DEF WorkerInv
<1>2. TypeInv /\ OfferInv /\ HandInv /\ WaitInv /\ Covered /\ LaneInv(pos) /\ BatchInv(pos)
  BY <1>1 DEF WorkerInv, Ordered
<1>3. taken' = taken /\ taken \in Nat /\ pushed \in Seq(Requests) /\ lane \in Seq(Requests) /\ batch \in Seq(Requests)
  BY <1>2, ZenonT(60) DEF taken, LaneInv, TypeInv
<1>4. Covered'
  <2>1. ASSUME NEW i \in 1..taken PROVE is_dead_request(pushed[i])' \/ Held(pushed[i])'
    <3>1. i \in DOMAIN pushed
      BY <1>3 DEF taken
    <3>2. PICK r \in Requests : r = pushed[i]
      BY <1>3, <3>1
    <3>3. is_dead_request(r) \/ Held(r)
      BY <1>2, <3>2, ZenonT(60) DEF Covered
    <3>4. is_dead_request(r)' \/ Held(r)'
      <4>1. CASE is_dead_request(r)
        BY <4>1, Zenon DEF is_dead_request
      <4>2. CASE deferred = r \/ hand = r
        BY <4>2, Zenon DEF Held
      <4>3. CASE \E k \in DOMAIN batch : batch[k] = r
        <5>1. PICK k \in DOMAIN batch : batch[k] = r
          BY <4>3, Zenon
        <5>2. CASE UNCHANGED batch
          BY <5>1, <5>2, Zenon DEF Held
        <5>3. CASE batch' = <<>>
          BY <5>1, <5>3, Zenon DEF is_dead_request
        <5> QED
          BY <5>2, <5>3, Zenon
      <4> QED
        BY <3>3, <4>1, <4>2, <4>3, Zenon DEF Held
    <3> QED
      BY <3>2, <3>4, Zenon
  <2> QED
    BY <1>3, <2>1, Zenon DEF Covered
<1>5. ASSUME NEW k \in DOMAIN batch
      PROVE  /\ batch[k] \notin unsent
             /\ \A c \in Callers : Offers(c) => calls[c].request # batch[k]
             /\ \A i \in DOMAIN lane : lane[i] # batch[k]
             /\ \A q \in {deferred, hand} \ {None} : q # batch[k]
  <2>1. PICK r \in Requests : r = batch[k]
    BY <1>3
  <2>2. PICK p \in DOMAIN pushed : r = pushed[p] /\ p = pos[r] /\ p <= taken /\ (Aside => p # taken)
    BY <1>2, <2>1 DEF BatchInv, TakenEarlier
  <2>3. r \notin unsent /\ \A c \in Callers : Offers(c) => calls[c].request # r
    BY <1>2, <2>2, ZenonT(60) DEF OfferInv
  <2>4. ASSUME NEW i \in DOMAIN lane, lane[i] = r PROVE FALSE
    <3>1. r = pushed[taken + i] /\ \A j \in DOMAIN pushed : pos[pushed[j]] = j
      BY <1>2, <2>4, ZenonT(60) DEF LaneInv
    <3>2. taken + i \in DOMAIN pushed /\ i \in Nat \ {0}
      BY <1>2, <1>3, LaneInside, Zenon
    <3>3. pos[r] = taken + i
      BY <3>1, <3>2, Zenon
    <3> QED
      BY <1>3, <2>2, <3>2, <3>3
  <2>5. ASSUME NEW q \in {deferred, hand} \ {None}, q = r PROVE FALSE
    <3>1. Aside
      BY <2>5 DEF Aside
    <3>2. taken \in DOMAIN pushed /\ r = pushed[taken] /\ \A j \in DOMAIN pushed : pos[pushed[j]] = j
      BY <1>2, <2>5, ZenonT(60) DEF LaneInv, Last
    <3> QED
      BY <2>2, <3>1, <3>2, Zenon
  <2> QED
    BY <2>1, <2>3, <2>4, <2>5, Zenon
<1>6. WaitInv'
  <2>1. ASSUME NEW r \in unsent PROVE state'[r] \in Waiting
    <3>1. r \in Requests
      BY <1>2 DEF TypeInv
    <3>2. state[r] \in Waiting
      BY <1>2, Zenon DEF WaitInv
    <3>3. ~\E k \in DOMAIN batch : batch[k] = r
      BY <1>5, Zenon
    <3> QED
      BY <3>1, <3>2, <3>3, Zenon
  <2>2. ASSUME NEW c \in Callers, Offers(c)' PROVE state'[calls'[c].request] \in Waiting
    <3>1. Offers(c)
      BY <2>2, Zenon DEF Offers
    <3>2. PICK r \in Requests : r = calls[c].request
      BY <1>2, <3>1, Zenon DEF TypeInv
    <3>3. state[r] \in Waiting /\ state'[r] = state[r]
      <4>1. state[r] \in Waiting
        BY <1>2, <3>1, <3>2, Zenon DEF WaitInv
      <4>2. ~\E k \in DOMAIN batch : batch[k] = r
        BY <1>5, <3>1, <3>2, Zenon
      <4> QED
        BY <4>1, <4>2, Zenon
    <3> QED
      BY <3>2, <3>3, ZenonT(60)
  <2>3. ASSUME NEW i \in DOMAIN lane PROVE state'[lane[i]] \in Waiting
    <3>1. lane[i] \in Requests
      BY <1>3
    <3>2. state[lane[i]] \in Waiting
      BY <1>2, Zenon DEF WaitInv
    <3>3. ~\E k \in DOMAIN batch : batch[k] = lane[i]
      BY <1>5, Zenon
    <3> QED
      BY <3>1, <3>2, <3>3, Zenon
  <2>4. ASSUME NEW q \in {deferred, hand} \ {None} PROVE state'[q] \in Waiting
    <3>1. q \in Requests
      BY <1>2 DEF TypeInv
    <3>2. state[q] \in Waiting
      BY <1>2, Zenon DEF WaitInv
    <3>3. ~\E k \in DOMAIN batch : batch[k] = q
      BY <1>5, Zenon
    <3> QED
      BY <3>1, <3>2, <3>3, Zenon
  <2> QED
    BY <2>1, <2>2, <2>3, <2>4, Zenon DEF WaitInv
<1> QED
  BY <1>4, <1>6, Zenon

\* A member of the batch starts to run, or the batch is to fail.
LEMMA StartMemberKeeps ==
  ASSUME WorkerInv, StartMember, index \in DOMAIN batch
  PROVE  WorkerInv'
<1>1. PICK pos \in [Requests -> Nat] : Ordered(pos)
  BY DEF WorkerInv
<1>2. TypeInv /\ OfferInv /\ HandInv /\ WaitInv /\ Covered
  BY DEF WorkerInv
<1>3. /\ UNCHANGED <<pushed, lane>> /\ UNCHANGED <<deferred, hand>> /\ UNCHANGED <<batch, inferred>>
      /\ UNCHANGED <<calls, unsent>> /\ UNCHANGED <<batch, queued_count>> /\ UNCHANGED callerVars
      /\ UNCHANGED batch /\ pc = "start" /\ pc' \in {"check", "finish"}
  BY DEF StartMember, untouched, callerVars, fail_all
<1>4. Ordered(pos)'
  BY <1>1, <1>3, OrderStays
<1>5. PICK r \in Requests : r = batch[index]
  BY <1>2 DEF TypeInv
<1>6. state \in [Requests -> RequestState] /\ "Running" \in RequestState
  BY <1>2, Zenon DEF TypeInv, RequestState
<1>7. \/ state' = state
      \/ state' = [state EXCEPT ![r] = "Running"] /\ is_valid_transition(state[r], "Running")
  BY <1>5, Zenon DEF StartMember
<1>8. ~is_valid_transition(state[r], "Running") \/ ~is_dead_request(r)
  <2>1. state[r] \in RequestState
    BY <1>6, Zenon
  <2> QED
    BY <2>1, Transitions DEF is_dead_request
<1>9. /\ state' \in [Requests -> RequestState]
      /\ \A q \in Requests : is_dead_request(q) => state'[q] = state[q]
      /\ \A q \in Requests : state'[q] = state[q] \/ q = r
  BY <1>6, <1>7, <1>8, Zenon
<1>10. \A q \in Requests : state'[q] = state[q] \/ (\E i \in DOMAIN batch : batch[i] = q)
  BY <1>5, <1>9, Zenon
<1>11. batch' # <<>> /\ pc' \notin Forming
  BY <1>3 DEF Forming
<1>12. Covered' /\ WaitInv'
  BY <1>3, <1>9, <1>10, <1>11, StatesMove, Zenon
<1>13. /\ OfferInv' /\ UNCHANGED <<calls, unsent, pushed>>
       /\ \A c \in Callers : (Offers(c)' <=> Offers(c))
       /\ \A c \in Callers : Offers(c)' => calls'[c].request \in Requests
  BY <1>2, <1>3, OthersStay, Zenon
<1>14. TypeInv' /\ HandInv'
  BY <1>2, <1>3, <1>9, <1>13, Zenon DEF TypeInv, HandInv, Executing
<1> QED
  BY <1>4, <1>12, <1>13, <1>14 DEF WorkerInv

\* The backend gets the batch after all it got before.
LEMMA InferKeeps ==
  ASSUME WorkerInv, Infer
  PROVE  WorkerInv'
<1>1. PICK pos \in [Requests -> Nat] : Ordered(pos)
  BY DEF WorkerInv
<1>2. TypeInv /\ OfferInv /\ HandInv /\ WaitInv /\ Covered /\ LaneInv(pos) /\ BatchInv(pos) /\ InferredInv(pos)
  BY <1>1 DEF WorkerInv, Ordered
<1>3. /\ UNCHANGED <<pushed, lane>> /\ UNCHANGED <<deferred, hand>> /\ UNCHANGED batch
      /\ UNCHANGED <<calls, unsent>> /\ UNCHANGED <<state, queued_count>> /\ UNCHANGED callerVars
      /\ pc = "infer" /\ pc' = "finish" /\ inferred' = Append(inferred, batch)
  BY Zenon DEF Infer, untouched, callerVars, fail_all, Settle
<1>4. taken' = taken /\ Aside' = Aside
  BY <1>3, Zenon DEF taken, Aside
<1>5. \A r : TakenEarlier(pos, r)' <=> TakenEarlier(pos, r)
  BY <1>3, <1>4 DEF TakenEarlier
<1>6. LaneInv(pos)' /\ BatchInv(pos)'
  BY <1>2, <1>3, <1>4, <1>5, ZenonT(60) DEF LaneInv, Last, BatchInv
<1> DEFINE n == Len(inferred)
<1>7. /\ n \in Nat /\ DOMAIN inferred = 1..n /\ inferred \in Seq(Seq(Requests)) /\ batch \in Seq(Requests)
  BY <1>2 DEF TypeInv
<1>8. /\ DOMAIN inferred' = 1..(n + 1) /\ inferred'[n + 1] = batch /\ inferred' \in Seq(Seq(Requests))
      /\ \A b \in 1..n : inferred'[b] = inferred[b]
  BY <1>3, <1>7
<1>9. \A b \in 1..(n + 1) : b \in 1..n \/ b = n + 1
  BY <1>7
<1>10. \A b \in 1..n : b < n + 1 /\ ~(n + 1 < b) /\ b # n + 1
  BY <1>7
<1> HIDE DEF n
<1>11. InferredInv(pos)'
  <2>1. ASSUME NEW b \in DOMAIN inferred', NEW i \in DOMAIN inferred'[b]
        PROVE  TakenEarlier(pos, inferred[b][i])'
    <3>1. PICK r : r = inferred'[b][i]
      BY Zenon
    <3>2. TakenEarlier(pos, r)
      <4>1. CASE b \in 1..n
        BY <1>2, <1>7, <1>8, <2>1, <3>1, <4>1, ZenonT(60) DEF InferredInv
      <4>2. CASE b = n + 1
        BY <1>2, <1>8, <2>1, <3>1, <4>2, ZenonT(60) DEF BatchInv
      <4> QED
        BY <1>8, <1>9, <4>1, <4>2
    <3> QED
      BY <1>5, <3>1, <3>2
  <2>2. ASSUME NEW b \in DOMAIN inferred', NEW i \in DOMAIN inferred'[b],
               NEW c \in DOMAIN inferred', NEW j \in DOMAIN inferred'[c], b < c \/ (b = c /\ i < j)
        PROVE  pos[inferred'[b][i]] < pos[inferred'[c][j]]
    <3>1. CASE b \in 1..n /\ c \in 1..n
      <4>1. i \in DOMAIN inferred[b] /\ j \in DOMAIN inferred[c]
        BY <1>8, <3>1, Zenon
      <4>2. pos[inferred[b][i]] < pos[inferred[c][j]]
        BY <1>2, <1>7, <2>2, <3>1, <4>1, Zenon DEF InferredInv
      <4> QED
        BY <1>8, <3>1, <4>2, Zenon
    <3>2. CASE b \in 1..n /\ c = n + 1
      <4>1. i \in DOMAIN inferred[b] /\ j \in DOMAIN batch
        BY <1>8, <3>2, Zenon
      <4>2. pos[inferred[b][i]] < pos[batch[j]]
        BY <1>2, <1>3, <1>7, <3>2, <4>1, ZenonT(60) DEF InferredInv
      <4> QED
        BY <1>8, <3>2, <4>2, Zenon
    <3>3. CASE b = n + 1 /\ c = n + 1
      <4>1. i \in DOMAIN batch /\ j \in DOMAIN batch /\ i < j
        BY <1>7, <1>8, <2>2, <3>3
      <4> QED
        BY <1>2, <1>8, <3>3, <4>1, ZenonT(60) DEF BatchInv
    <3>4. CASE b = n + 1 /\ c \in 1..n
      BY <1>10, <2>2, <3>4, Zenon
    <3> QED
      BY <1>8, <1>9, <3>1, <3>2, <3>3, <3>4, Zenon
  <2> QED
    BY <1>3, <2>1, <2>2 DEF InferredInv
<1>12. /\ OfferInv' /\ UNCHANGED <<calls, unsent, pushed>>
       /\ \A c \in Callers : (Offers(c)' <=> Offers(c))
       /\ \A c \in Callers : Offers(c)' => calls'[c].request \in Requests
  BY <1>2, <1>3, OthersStay
<1>13. Covered'
  <2>1. \A i \in 1..taken : is_dead_request(pushed[i]) => is_dead_request(pushed[i])'
    BY <1>3 DEF is_dead_request
  <2> QED
    BY <1>2, <1>3, <2>1, CoveredStays, Zenon
<1>14. TypeInv' /\ HandInv' /\ WaitInv'
  BY <1>2, <1>3, <1>8, <1>12, ZenonT(60) DEF TypeInv, HandInv, WaitInv, Executing, Forming
<1> QED
  BY <1>6, <1>11, <1>12, <1>13, <1>14, Zenon DEF WorkerInv, Ordered

\* Every member of the batch has ended when the thread returns to the top.
LEMMA FinishKeeps ==
  ASSUME WorkerInv, Finish
  PROVE  WorkerInv'
<1> DEFINE Outcome(i) == IF verdict[i] = "none" THEN "Completed" ELSE "Failed"
           Ended == {i \in DOMAIN batch : ~is_terminal_state(state[batch[i]])}
           IndexOf(r) == CHOOSE i \in Ended : batch[i] = r
           Members == {batch[i] : i \in Ended}
<1>1. PICK pos \in [Requests -> Nat] : Ordered(pos)
  BY DEF WorkerInv
<1>2. TypeInv /\ OfferInv /\ HandInv /\ WaitInv /\ Covered /\ LaneInv(pos) /\ BatchInv(pos) /\ InferredInv(pos)
  BY <1>1 DEF WorkerInv, Ordered
<1>3. /\ UNCHANGED <<pushed, lane>> /\ UNCHANGED <<deferred, hand>> /\ UNCHANGED inferred
      /\ UNCHANGED <<calls, unsent>> /\ UNCHANGED queued_count /\ UNCHANGED callerVars
      /\ pc = "finish" /\ pc' = "top" /\ batch' = <<>>
  BY ZenonT(60) DEF Finish, untouched, callerVars
<1>4. state' = [r \in Requests |-> IF r \in Members THEN Outcome(IndexOf(r)) ELSE state[r]]
  BY Zenon DEF Finish
<1>5. \A i : Outcome(i) \in {"Completed", "Failed"}
  BY Zenon
<1>6. /\ \A r \in Members : \E i \in DOMAIN batch : batch[i] = r
      /\ \A r \in Members : ~is_dead_request(r)
      /\ \A i \in DOMAIN batch : ~is_dead_request(batch[i]) => batch[i] \in Members
  BY DEF is_dead_request
<1> HIDE DEF Members, Outcome
<1>7. \A r \in Requests : state'[r] \in {"Completed", "Failed"} \/ (r \notin Members /\ state'[r] = state[r])
  BY <1>4, <1>5, Zenon
<1>8. \A r \in Members \cap Requests : state'[r] \in {"Completed", "Failed"}
  BY <1>4, <1>5, Zenon
<1>9. /\ state \in [Requests -> RequestState] /\ batch \in Seq(Requests)
      /\ {"Completed", "Failed"} \subseteq RequestState
      /\ \A s \in {"Completed", "Failed"} : is_terminal_state(s)
  BY <1>2, Zenon DEF TypeInv, RequestState, is_terminal_state, TerminalState
<1>10. state' \in [Requests -> RequestState]
  <2>1. \A r \in Requests : (IF r \in Members THEN Outcome(IndexOf(r)) ELSE state[r]) \in RequestState
    BY <1>5, <1>9, Zenon
  <2> HIDE DEF IndexOf
  <2> QED
    BY <1>4, <2>1, Zenon
<1>11. /\ \A r \in Requests : is_dead_request(r) => state'[r] = state[r]
       /\ \A r \in Requests : state'[r] = state[r] \/ (\E i \in DOMAIN batch : batch[i] = r)
  BY <1>4, <1>6, Zenon
<1>12. \A i \in DOMAIN batch : is_terminal_state(state'[batch[i]])
  <2> TAKE i \in DOMAIN batch
  <2>1. PICK r \in Requests : r = batch[i]
    BY <1>9
  <2>2. CASE is_dead_request(r)
    BY <1>11, <2>1, <2>2, Zenon DEF is_dead_request
  <2>3. CASE ~is_dead_request(r)
    BY <1>6, <1>8, <1>9, <2>1, <2>3, Zenon
  <2> QED
    BY <2>2, <2>3, Zenon
<1>13. Covered' /\ WaitInv'
  <2>1. pc' \notin Forming
    BY <1>3 DEF Forming
  <2> QED
    BY <1>3, <1>10, <1>11, <1>12, <2>1, StatesMove, Zenon
<1>14. taken' = taken /\ Aside' = Aside
  BY <1>3 DEF taken, Aside
<1>15. \A r : TakenEarlier(pos, r)' <=> TakenEarlier(pos, r)
  BY <1>3, <1>14 DEF TakenEarlier
<1>16. Ordered(pos)'
  <2>1. DOMAIN batch' = {}
    BY <1>3
  <2>2. LaneInv(pos)'
    BY <1>2, <1>3, <1>14, Zenon DEF LaneInv, Last
  <2>3. BatchInv(pos)'
    BY <2>1, Zenon DEF BatchInv
  <2>4. InferredInv(pos)'
    <3>1. pushed \in Seq(Requests) /\ taken \in Nat
      BY <1>2, Zenon DEF TypeInv, LaneInv
    <3>2. \A b \in DOMAIN inferred : \A i \in DOMAIN inferred[b] :
            \A j \in DOMAIN batch' : pos[inferred[b][i]] < pos[batch'[j]]
      BY <2>1, Zenon
    <3> QED
      BY <1>2, <1>3, <1>14, <3>1, <3>2, InferredStays, Zenon
  <2> QED
    BY <2>2, <2>3, <2>4 DEF Ordered
<1>17. /\ OfferInv' /\ UNCHANGED <<calls, unsent, pushed>>
       /\ \A c \in Callers : (Offers(c)' <=> Offers(c))
       /\ \A c \in Callers : Offers(c)' => calls'[c].request \in Requests
  BY <1>2, <1>3, OthersStay, Zenon
<1>18. TypeInv' /\ HandInv'
  <2>1. batch' \in Seq(Requests)
    BY <1>3
  <2> QED
    BY <1>2, <1>3, <1>10, <1>17, <2>1, Zenon DEF TypeInv, HandInv
<1> QED
  BY <1>13, <1>16, <1>17, <1>18 DEF WorkerInv

\* The loop over the batch stays inside it.
LEMMA IndexKeeps ==
  ASSUME WorkerInv, IndexInv, [Next]_vars
  PROVE  IndexInv'
<1>1. batch \in Seq(Requests)
  BY Zenon DEF WorkerInv, TypeInv
<1>2. CASE CheckMember
  <2>1. DOMAIN batch = 1..Len(batch) /\ Len(batch) \in Nat
    BY <1>1
  <2> QED
    BY <1>2, <2>1 DEF CheckMember, IndexInv
<1>3. CASE StartMember
  BY <1>3 DEF StartMember, IndexInv, fail_all
<1>4. CASE BeginBatch
  BY <1>4 DEF BeginBatch, IndexInv
<1>5. CASE TakeFirst \/ Exit \/ PopExtra \/ PlaceExtra \/ FormEnds \/ FilterFormed
  BY <1>5, ZenonT(60) DEF TakeFirst, Exit, PopExtra, PlaceExtra, FormEnds, FilterFormed, executeVars, IndexInv
<1>6. CASE AllStarted \/ Resident \/ NotResident \/ Infer \/ Finish
  BY <1>6 DEF AllStarted, Resident, FilterBatch, NotResident, Infer, Settle, fail_all, Finish, IndexInv
<1>7. CASE UNCHANGED <<formVars, index>>
  BY <1>7, Zenon DEF formVars, IndexInv
<1>8. CASE StopAccepting \/ CloseLane \/ UNCHANGED vars
  BY <1>7, <1>8, Zenon DEF StopAccepting, CloseLane, vars, executeVars
<1>9. ASSUME NEW r \in Requests, Die(r) PROVE UNCHANGED <<formVars, index>>
  BY <1>9, Zenon DEF Die, executeVars
<1>10. ASSUME NEW c \in Callers, Caller(c) PROVE UNCHANGED <<formVars, index>>
  BY <1>10, Zenon DEF Caller, EnqueueBegin, Push, CountPushed, PushRefused, PushWaits, PushTimeout, Reject, executeVars
<1> QED
  BY <1>2, <1>3, <1>4, <1>5, <1>6, <1>7, <1>8, <1>9, <1>10, Zenon DEF Next, run_loop

\* Every step keeps the invariant.
LEMMA WorkerNext == WorkerInv /\ IndexInv /\ [Next]_vars => WorkerInv' /\ IndexInv'
<1> SUFFICES ASSUME WorkerInv, IndexInv, [Next]_vars PROVE WorkerInv'
  BY IndexKeeps
<1>1. ASSUME NEW r \in Requests, Die(r) PROVE WorkerInv'
  BY <1>1, DieKeeps
<1>2. ASSUME NEW c \in Callers, Caller(c) PROVE WorkerInv'
  BY <1>2, CallerKeeps, PushKeeps
<1>3. CASE Exit \/ FormEnds \/ CheckMember \/ NotResident \/ StopAccepting \/ CloseLane
  BY <1>3, MovesNone
<1>4. CASE TakeFirst \/ PopExtra \/ PlaceExtra
  BY <1>4, TakeFirstKeeps, PopExtraKeeps, PlaceExtraKeeps
<1>5. CASE FilterFormed \/ BeginBatch \/ AllStarted \/ Resident
  BY <1>5, FiltersKeep
<1>6. CASE StartMember
  <2>1. index \in DOMAIN batch
    BY <1>6 DEF StartMember, IndexInv
  <2> QED
    BY <1>6, <2>1, StartMemberKeeps, Zenon
<1>7. CASE Infer \/ Finish
  BY <1>7, InferKeeps, FinishKeeps, Zenon
<1>8. CASE UNCHANGED vars
  <2>1. /\ UNCHANGED <<state, cause, lane, queued_count, calls, unsent, pushed, pc, deferred>>
        /\ UNCHANGED <<hand, batch, inferred>>
    BY <1>8, Zenon DEF vars, callerVars, formVars, executeVars
  <2>2. taken' = taken /\ Aside' = Aside /\ (\A r : Held(r)' <=> Held(r)) /\ (\A c : Offers(c)' <=> Offers(c))
    BY <2>1, ZenonT(60) DEF taken, Aside, Held, Offers
  <2>3. PICK pos \in [Requests -> Nat] : Ordered(pos)
    BY Zenon DEF WorkerInv
  <2>4. Ordered(pos)'
    BY <2>1, <2>3, OrderStays
  <2>5. TypeInv' /\ OfferInv' /\ HandInv' /\ WaitInv'
    BY <2>1, <2>2, ZenonT(60) DEF WorkerInv, TypeInv, OfferInv, HandInv, WaitInv
  <2>6. Covered'
    BY <2>1, <2>2, Zenon DEF WorkerInv, Covered, is_dead_request
  <2> QED
    BY <2>4, <2>5, <2>6, Zenon DEF WorkerInv
<1> QED
  BY <1>1, <1>2, <1>3, <1>4, <1>5, <1>6, <1>7, <1>8, Zenon DEF Next, run_loop

\* The invariant holds in every state.
LEMMA WorkerAlways == Spec => [](WorkerInv /\ IndexInv)
<1>1. Init => IndexInv
  BY DEF Init, IndexInv
<1> QED
  BY <1>1, WorkerInit, WorkerNext, PTL DEF Spec

-----------------------------------------------------------------------------

\* In every state, a request that entered a worker's lane and has not ended is
\* held in exactly one place - the lane, the deferred slot, form()'s hand or
\* the batch - whatever is cancelled, expires or closes meanwhile (run_loop,
\* BatchBuilder::form and execute_batch).
THEOREM LiveHeldOnceHolds == Spec => []LiveHeldOnce
<1>1. WorkerInv => LiveHeldOnce
  <2> SUFFICES ASSUME WorkerInv, NEW r \in Requests
               PROVE  /\ \A p, q \in Places(r) : p = q
                      /\ r \in Pushed /\ ~is_terminal_state(state[r]) => Places(r) # {}
    BY DEF LiveHeldOnce
  <2>1. PICK pos \in [Requests -> Nat] : Ordered(pos)
    BY Zenon DEF WorkerInv
  <2>2. /\ TypeInv /\ HandInv /\ Covered /\ LaneInv(pos) /\ BatchInv(pos) /\ r # None
        /\ taken \in Nat /\ pos[r] \in Nat
    BY <2>1, ConfigAssumption, Zenon DEF WorkerInv, Ordered, LaneInv
  <2>3. ASSUME NEW i \in DOMAIN lane, lane[i] = r PROVE pos[r] = taken + i /\ i \in Nat \ {0}
    <3>1. taken + i \in DOMAIN pushed /\ i \in Nat \ {0}
      BY <2>2, LaneInside, Zenon
    <3> QED
      BY <2>2, <2>3, <3>1, Zenon DEF LaneInv
  <2>4. ASSUME NEW i \in DOMAIN batch, batch[i] = r PROVE pos[r] <= taken /\ (Aside => pos[r] # taken)
    BY <2>2, <2>4, Zenon DEF BatchInv, TakenEarlier
  <2>5. ASSUME deferred = r \/ hand = r PROVE pos[r] = taken /\ Aside
    BY <2>2, <2>5 DEF LaneInv, Last, Aside
  <2>6. ~(deferred = r /\ hand = r)
    BY <2>2 DEF HandInv
  <2>7. ASSUME NEW i \in DOMAIN batch, NEW j \in DOMAIN batch, batch[i] = r, batch[j] = r PROVE i = j
    <3>1. i \in Int /\ j \in Int
      <4>1. batch \in Seq(Requests)
        BY <2>2, Zenon DEF TypeInv
      <4> QED
        BY <4>1
    <3>2. ~(i < j) /\ ~(j < i)
      BY <2>2, <2>7 DEF BatchInv
    <3> QED
      BY <3>1, <3>2
  <2> DEFINE InLane == {<<"lane", i>> : i \in {j \in DOMAIN lane : lane[j] = r}}
             InBatch == {<<"batch", i>> : i \in {j \in DOMAIN batch : batch[j] = r}}
             InDeferred == IF deferred = r THEN {<<"deferred">>} ELSE {}
             InHand == IF hand = r THEN {<<"hand">>} ELSE {}
  <2>8. Places(r) = InLane \cup InBatch \cup InDeferred \cup InHand
    BY Zenon DEF Places
  <2>9. /\ InLane # {} => pos[r] > taken
        /\ InBatch # {} => pos[r] <= taken /\ (Aside => pos[r] # taken)
        /\ InDeferred # {} => pos[r] = taken /\ Aside /\ InHand = {}
        /\ InHand # {} => pos[r] = taken /\ Aside
    <3>1. InLane # {} => \E i \in DOMAIN lane : lane[i] = r
      BY Zenon
    <3>2. InBatch # {} => \E i \in DOMAIN batch : batch[i] = r
      OBVIOUS
    <3>3. (InDeferred # {} => deferred = r) /\ (InHand # {} => hand = r)
      BY Zenon
    <3> HIDE DEF InLane, InBatch, InDeferred, InHand
    <3>4. InLane # {} => pos[r] > taken
      BY <2>2, <2>3, <3>1
    <3>5. InBatch # {} => pos[r] <= taken /\ (Aside => pos[r] # taken)
      BY <2>4, <3>2
    <3>6. InDeferred # {} => InHand = {}
      BY <2>6, <3>3, Zenon
    <3> QED
      BY <2>5, <3>3, <3>4, <3>5, <3>6, Zenon
  <2>10. /\ \A p, q \in InLane : p = q
         /\ \A p, q \in InBatch : p = q
         /\ \A p, q \in InDeferred : p = q
         /\ \A p, q \in InHand : p = q
    <3>1. ASSUME NEW p \in InLane, NEW q \in InLane PROVE p = q
      <4>1. PICK i \in DOMAIN lane : lane[i] = r /\ p = <<"lane", i>>
        BY <3>1, Zenon
      <4>2. PICK j \in DOMAIN lane : lane[j] = r /\ q = <<"lane", j>>
        BY <3>1, Zenon
      <4>3. pos[r] = taken + i /\ pos[r] = taken + j /\ i \in Nat /\ j \in Nat
        BY <2>3, <4>1, <4>2, Zenon
      <4>4. i = j
        BY <2>2, <4>3
      <4> QED
        BY <4>1, <4>2, <4>4, Zenon
    <3>2. ASSUME NEW p \in InBatch, NEW q \in InBatch PROVE p = q
      <4>1. PICK i \in DOMAIN batch : batch[i] = r /\ p = <<"batch", i>>
        BY <3>2, Zenon
      <4>2. PICK j \in DOMAIN batch : batch[j] = r /\ q = <<"batch", j>>
        BY <3>2, Zenon
      <4> QED
        BY <2>7, <4>1, <4>2, Zenon
    <3> QED
      BY <3>1, <3>2, Zenon
  <2>11. ~is_terminal_state(state[r]) /\ r \in Pushed => InLane \cup InBatch \cup InDeferred \cup InHand # {}
    <3>1. SUFFICES ASSUME r \in Pushed, ~is_dead_request(r) PROVE InLane \cup InBatch \cup InDeferred \cup InHand # {}
      BY Zenon DEF is_dead_request
    <3>2. PICK p \in DOMAIN pushed : r = pushed[p]
      BY <3>1, Zenon DEF Pushed
    <3>3. p \in Nat \ {0} /\ p <= Len(pushed) /\ Len(pushed) \in Nat /\ Len(lane) \in Nat /\ DOMAIN lane = 1..Len(lane)
      BY <2>2 DEF TypeInv
    <3>4. CASE p <= taken
      <4>1. p \in 1..taken
        BY <2>2, <3>3, <3>4
      <4>2. Held(r)
        BY <2>2, <3>1, <3>2, <4>1 DEF Covered
      <4> QED
        BY <4>2, Zenon DEF Held
    <3>5. CASE p > taken
      <4>1. PICK i \in Nat \ {0} : p = taken + i /\ i \in DOMAIN lane
        <5>1. PICK t \in Nat : t = taken
          BY <2>2
        <5>2. p - t \in Nat \ {0} /\ p = t + (p - t)
          BY <3>3, <3>5, <5>1
        <5>3. p - t <= Len(lane)
          <6>1. t = Len(pushed) - Len(lane)
            BY <5>1, Zenon DEF taken
          <6> QED
            BY <3>3, <5>1, <6>1
        <5>4. p - t \in DOMAIN lane
          BY <3>3, <5>2, <5>3
        <5> QED
          BY <5>1, <5>2, <5>4, Zenon
      <4>2. lane[i] = r
        BY <2>2, <3>2, <4>1, Zenon DEF LaneInv
      <4>3. <<"lane", i>> \in InLane
        BY <4>1, <4>2
      <4> QED
        BY <4>3, Zenon
    <3> QED
      BY <2>2, <3>3, <3>4, <3>5
  <2> HIDE DEF InLane, InBatch, InDeferred, InHand
  <2>12. PICK P : P = Places(r)
    BY Zenon
  <2>13. \A p, q \in P : p = q
    <3>1. /\ InLane # {} => InBatch = {} /\ InDeferred = {} /\ InHand = {}
          /\ InBatch # {} => InLane = {} /\ InDeferred = {} /\ InHand = {}
          /\ InDeferred # {} => InLane = {} /\ InBatch = {} /\ InHand = {}
          /\ InHand # {} => InLane = {} /\ InBatch = {} /\ InDeferred = {}
      BY <2>2, <2>9
    <3> QED
      BY <2>8, <2>10, <2>12, <3>1, Zenon
  <2> QED
    BY <2>8, <2>11, <2>12, <2>13, Zenon
<1> QED
  BY <1>1, WorkerAlways, PTL

\* In every state, the requests given to infer_batch() so far were given in the
\* order of their pushes, none twice (run_loop and execute_batch).
THEOREM InferredInOrderHolds == Spec => []InferredInOrder
<1>1. WorkerInv => InferredInOrder
  <2> DEFINE Position(r) == CHOOSE i \in DOMAIN pushed : pushed[i] = r
  <2> SUFFICES ASSUME WorkerInv, NEW b \in DOMAIN inferred, NEW c \in DOMAIN inferred,
                      NEW i \in DOMAIN inferred[b], NEW j \in DOMAIN inferred[c], b < c \/ (b = c /\ i < j)
               PROVE  Position(inferred[b][i]) < Position(inferred[c][j])
    BY Zenon DEF InferredInOrder
  <2>1. PICK pos \in [Requests -> Nat] : Ordered(pos)
    BY Zenon DEF WorkerInv
  <2>2. ASSUME NEW r, TakenEarlier(pos, r) PROVE Position(r) = pos[r]
    <3>1. \A k \in DOMAIN pushed : pos[pushed[k]] = k
      BY <2>1, Zenon DEF Ordered, LaneInv
    <3>2. pos[r] \in DOMAIN pushed /\ pushed[pos[r]] = r
      BY <2>2, Zenon DEF TakenEarlier
    <3>3. Position(r) \in DOMAIN pushed /\ pushed[Position(r)] = r
      BY <3>2
    <3> QED
      BY <3>1, <3>3, Zenon
  <2>3. /\ TakenEarlier(pos, inferred[b][i]) /\ TakenEarlier(pos, inferred[c][j])
        /\ pos[inferred[b][i]] < pos[inferred[c][j]]
    BY <2>1, Zenon DEF Ordered, InferredInv
  <2> HIDE DEF Position
  <2> QED
    BY <2>2, <2>3, Zenon
<1> QED
  BY <1>1, WorkerAlways, PTL

-----------------------------------------------------------------------------
(* The count of queued requests *)

INSTANCE FiniteSetTheorems

NoneDied == \A r \in Requests : state[r] # "Cancelled" /\ state[r] # "TimedOut"

\* The calls that have pushed their request and not counted it yet.
Counting == {c \in Callers : calls[c].at = "count"}

InBatch == IF pc \in Forming THEN Len(batch) ELSE 0
Slot(r) == IF r = None THEN 0 ELSE 1
Outstanding == Len(lane) + InBatch + Slot(deferred) + Slot(hand)

CountInv ==
  /\ IsFiniteSet(Counting)
  /\ NoneDied => (queued_count + Cardinality(Counting)) % SizeModulus = Outstanding % SizeModulus

\* Division with remainder.
LEMMA Remainder ==
  ASSUME NEW a \in Int, NEW M \in Nat \ {0}
  PROVE  a % M \in 0..(M - 1) /\ a \div M \in Int /\ a = M * (a \div M) + (a % M)
OBVIOUS

\* The remainder is unique.
LEMMA OneRemainder ==
  ASSUME NEW M \in Nat \ {0}, NEW p \in Int, NEW q \in Int,
         NEW r \in 0..(M - 1), NEW s \in 0..(M - 1), M * p + r = M * q + s
  PROVE  r = s
<1>1. CASE p = q
  BY <1>1
<1>2. CASE p < q
  <2>1. M * (q - p) >= M
    BY <1>2
  <2> QED
    BY <2>1
<1>3. CASE q < p
  <2>1. M * (p - q) >= M
    BY <1>3
  <2> QED
    BY <2>1
<1> QED
  BY <1>1, <1>2, <1>3

\* size_t arithmetic: wrapping an operand around does not change the sum.
LEMMA WrapEarly ==
  ASSUME NEW a \in Int, NEW c \in Int, NEW M \in Nat \ {0}
  PROVE  ((a % M) + c) % M = (a + c) % M
<1>1. PICK d \in Int : d = a % M
  BY Remainder
<1>2. PICK q \in Int : a = M * q + d
  BY <1>1, Remainder, Zenon
<1>3. PICK x \in Int : x = d + c
  OBVIOUS
<1>4. PICK y \in Int : y = a + c
  OBVIOUS
<1>5. PICK r \in 0..(M - 1) : r = x % M
  BY Remainder, Zenon
<1>6. PICK s \in 0..(M - 1) : s = y % M
  BY Remainder
<1>7. PICK p \in Int : x = M * p + r
  BY <1>5, Remainder, Zenon
<1>8. PICK t \in Int : y = M * t + s
  BY <1>6, Remainder, ZenonT(60)
<1>9. PICK z \in Int : z = q + p
  OBVIOUS
<1>10. M * z + r = M * t + s
  BY <1>2, <1>3, <1>4, <1>7, <1>8, <1>9
<1>11. r = s
  BY <1>10, OneRemainder, Zenon
<1> QED
  BY <1>1, <1>3, <1>4, <1>5, <1>6, <1>11, Zenon

\* Equal sums stay equal when both sides change by the same amount.
LEMMA SameChange ==
  ASSUME NEW a \in Int, NEW b \in Int, NEW c \in Int, a % SizeModulus = b % SizeModulus
  PROVE  (a + c) % SizeModulus = (b + c) % SizeModulus
<1>1. SizeModulus \in Nat \ {0}
  BY ConfigAssumption
<1>2. ((a % SizeModulus) + c) % SizeModulus = (a + c) % SizeModulus
  BY <1>1, WrapEarly, Zenon
<1>3. ((b % SizeModulus) + c) % SizeModulus = (b + c) % SizeModulus
  BY <1>1, WrapEarly, Zenon
<1> QED
  BY <1>2, <1>3, Zenon

\* One more is counted by CountPushed, and the caller is no longer counting.
LEMMA CountOne ==
  ASSUME NEW q \in Nat, NEW k \in Nat
  PROVE  (Plus(q, 1) + k) % SizeModulus = (q + (k + 1)) % SizeModulus
<1>1. SizeModulus \in Nat \ {0}
  BY ConfigAssumption
<1>2. PICK a \in Int : a = q + 1
  OBVIOUS
<1>3. ((a % SizeModulus) + k) % SizeModulus = (a + k) % SizeModulus
  <2>1. k \in Int
    OBVIOUS
  <2> QED
    BY <1>1, <2>1, WrapEarly, ZenonT(60)
<1>4. a + k = q + (k + 1)
  BY <1>2
<1>5. Plus(q, 1) = a % SizeModulus
  BY <1>2, Zenon DEF Plus
<1> QED
  BY <1>3, <1>4, <1>5, Zenon

\* Taking n off the count and off the requests.
LEMMA CountLess ==
  ASSUME NEW q \in Nat, NEW k \in Nat, NEW t \in Nat, NEW n \in Nat,
         (q + k) % SizeModulus = (t + n) % SizeModulus
  PROVE  (Minus(q, n) + k) % SizeModulus = t % SizeModulus
<1>0. SizeModulus \in Nat \ {0}
  BY ConfigAssumption
<1>1. PICK d \in Int : d = q - n
  OBVIOUS
<1>2. PICK m \in Int : m = 0 - n
  OBVIOUS
<1>3. PICK a \in Int : a = q + k
  OBVIOUS
<1>4. PICK b \in Int : b = t + n
  OBVIOUS
<1>5. (a + m) % SizeModulus = (b + m) % SizeModulus
  BY <1>3, <1>4, SameChange, ZenonT(60)
<1>6. a + m = d + k /\ b + m = t
  BY <1>1, <1>2, <1>3, <1>4
<1>7. ((d % SizeModulus) + k) % SizeModulus = (d + k) % SizeModulus
  <2>1. k \in Int
    OBVIOUS
  <2> QED
    BY <1>0, <2>1, WrapEarly, Zenon
<1>8. Minus(q, n) = d % SizeModulus
  BY <1>1, Zenon DEF Minus
<1> QED
  BY <1>5, <1>6, <1>7, <1>8, Zenon

\* Taking nothing off the count.
LEMMA LessNone ==
  ASSUME NEW q \in 0..(SizeModulus - 1)
  PROVE  Minus(q, 0) = q
<1>1. SizeModulus \in Nat \ {0} /\ q \in Int /\ q - 0 = q
  BY ConfigAssumption
<1>2. q % SizeModulus \in 0..(SizeModulus - 1)
  BY <1>1, Remainder, Zenon
<1>3. PICK d \in Int : q = SizeModulus * d + (q % SizeModulus)
  BY <1>1, Remainder, ZenonT(60)
<1>4. PICK r \in 0..(SizeModulus - 1) : r = q % SizeModulus
  BY <1>2, Zenon
<1>5. SizeModulus * 0 + q = SizeModulus * d + r
  BY <1>1, <1>3, <1>4
<1>6. q = r
  BY <1>1, <1>5, OneRemainder
<1> QED
  BY <1>1, <1>4, <1>6, Zenon DEF Minus

\* A request that died stays dead: no step changes a terminal state.
LEMMA DeathIsFinal ==
  ASSUME TypeInv, [Next]_vars, NoneDied'
  PROVE  NoneDied
<1>1. SUFFICES ASSUME NEW r \in Requests, state[r] = "Cancelled" \/ state[r] = "TimedOut"
               PROVE  state'[r] = state[r]
  BY Zenon DEF NoneDied
<1>2. /\ is_terminal_state(state[r]) /\ state \in [Requests -> RequestState]
      /\ \A t : ~is_valid_transition(state[r], t)
  BY <1>1, Transitions, Zenon DEF TypeInv
<1>3. ASSUME NEW d \in Requests, Die(d) PROVE state'[r] = state[r]
  BY <1>2, <1>3, Zenon DEF Die
<1>4. ASSUME NEW c \in Callers, Caller(c) PROVE state'[r] = state[r]
  <2>1. CASE PushTimeout(c)
    BY <1>2, <2>1, Zenon DEF PushTimeout
  <2>2. CASE Reject(c)
    BY <1>2, <2>2, Zenon DEF Reject
  <2>3. CASE UNCHANGED state
    BY <2>3, Zenon
  <2> QED
    BY <1>4, <2>1, <2>2, <2>3, Zenon DEF Caller, EnqueueBegin, Push, CountPushed, PushRefused, PushWaits
<1>5. CASE StartMember
  BY <1>2, <1>5, Zenon DEF StartMember
<1>6. CASE Finish
  <2> DEFINE Ended == {i \in DOMAIN batch : ~is_terminal_state(state[batch[i]])}
             Members == {batch[i] : i \in Ended}
  <2>1. r \notin Members
    BY <1>2, Zenon
  <2> QED
    BY <1>6, <2>1, Zenon DEF Finish
<1>7. CASE UNCHANGED state
  BY <1>7
<1> QED
  BY <1>3, <1>4, <1>5, <1>6, <1>7, ZenonT(60) DEF Next, run_loop, StopAccepting, CloseLane, TakeFirst, Exit,
     PopExtra, PlaceExtra, FormEnds, FilterFormed, BeginBatch, CheckMember, AllStarted, Resident,
     NotResident, Infer, vars

\* While none has died, nothing the worker holds is dead.
LEMMA HeldAlive ==
  ASSUME WorkerInv, NoneDied
  PROVE  /\ \A i \in DOMAIN lane : ~is_dead_request(lane[i])
         /\ \A r \in {deferred, hand} \ {None} : ~is_dead_request(r)
         /\ pc \in Forming => \A i \in DOMAIN batch : ~is_dead_request(batch[i])
<1>1. \A r \in Requests : state[r] \in Waiting => ~is_dead_request(r)
  <2>1. ~is_terminal_state("Queued")
    BY DEF is_terminal_state, TerminalState
  <2> QED
    BY <2>1 DEF NoneDied, Waiting, is_dead_request
<1>2. TypeInv /\ WaitInv
  BY Zenon DEF WorkerInv
<1>3. /\ \A i \in DOMAIN lane : lane[i] \in Requests
      /\ \A i \in DOMAIN batch : batch[i] \in Requests
      /\ deferred \in Requests \cup {None} /\ hand \in Requests \cup {None}
  BY <1>2 DEF TypeInv
<1> QED
  BY <1>1, <1>2, <1>3, Zenon DEF WaitInv

\* The filter keeps a batch whose members are all alive.
LEMMA FilterKeepsAll ==
  ASSUME batch \in Seq(Requests), filter_live_batch,
         \A i \in DOMAIN batch : ~is_dead_request(batch[i])
  PROVE  batch' \in Seq(Requests) /\ Len(batch') = Len(batch)
<1>1. PICK from \in [DOMAIN batch' -> DOMAIN batch] :
        /\ \A i, j \in DOMAIN batch' : i < j => from[i] < from[j]
        /\ \A k \in DOMAIN batch : ~is_dead_request(batch[k]) => \E i \in DOMAIN batch' : from[i] = k
  BY FilterFacts, Zenon
<1>2. batch' \in Seq(Requests)
  BY FilterFacts, Zenon
<1>3. PICK n \in Nat : n = Len(batch) /\ DOMAIN batch = 1..n
  OBVIOUS
<1>4. PICK m \in Nat : m = Len(batch') /\ DOMAIN batch' = 1..m
  BY <1>2
<1>5. from \in Surjection(1..m, 1..n)
  BY <1>1, <1>3, <1>4, Zenon DEF Surjection
<1>6. from \in Injection(1..m, 1..n)
  <2>1. ASSUME NEW i \in 1..m, NEW j \in 1..m, from[i] = from[j] PROVE i = j
    <3>1. ~(i < j) /\ ~(j < i)
      BY <1>1, <1>3, <1>4, <2>1
    <3> QED
      BY <3>1
  <2> QED
    BY <1>1, <1>3, <1>4, <2>1, Zenon DEF Injection, IsInjective
<1>7. IsFiniteSet(1..m) /\ Cardinality(1..m) = m /\ Cardinality(1..n) = n
  BY FS_Interval
<1>8. Cardinality(1..n) = Cardinality(1..m)
  BY <1>5, <1>6, <1>7, FS_Surjection, Zenon
<1> QED
  BY <1>2, <1>3, <1>4, <1>7, <1>8, Zenon

\* A step that leaves the count, the calls that count and the number of
\* requests alone.
LEMMA CountStays ==
  ASSUME CountInv, Counting' = Counting, NoneDied' => NoneDied,
         NoneDied => queued_count' = queued_count /\ Outstanding' = Outstanding
  PROVE  CountInv'
  BY Zenon DEF CountInv

\* The parts of Outstanding are numbers.
LEMMA OutstandingType ==
  ASSUME TypeInv
  PROVE  /\ Len(lane) \in Nat /\ InBatch \in Nat /\ Slot(deferred) \in Nat /\ Slot(hand) \in Nat
         /\ queued_count \in Nat /\ Outstanding \in Nat
<1>1. Len(lane) \in Nat /\ Len(batch) \in Nat
  BY DEF TypeInv
<1>2. InBatch \in Nat /\ Slot(deferred) \in Nat /\ Slot(hand) \in Nat
  BY <1>1, Zenon DEF InBatch, Slot
<1>3. queued_count \in Nat
  BY ConfigAssumption DEF TypeInv
<1> QED
  BY <1>1, <1>2, <1>3 DEF Outstanding

\* The callers: a push and the count that follows it.
LEMMA CallersCount ==
  ASSUME WorkerInv, CountInv, NoneDied' => NoneDied, NEW c \in Callers, Caller(c)
  PROVE  CountInv'
<1>1. TypeInv
  BY Zenon DEF WorkerInv
<1>2. UNCHANGED <<pc, deferred, hand, batch>> /\ InBatch' = InBatch /\ Slot(deferred)' = Slot(deferred)
      /\ Slot(hand)' = Slot(hand)
  <2>1. UNCHANGED <<pc, deferred, hand, batch>>
    BY Zenon DEF Caller, EnqueueBegin, Push, CountPushed, PushRefused, PushWaits, PushTimeout, Reject, formVars
  <2> QED
    BY <2>1, Zenon DEF InBatch, Slot
<1>3. /\ Len(lane) \in Nat /\ InBatch \in Nat /\ Slot(deferred) \in Nat /\ Slot(hand) \in Nat
      /\ queued_count \in Nat /\ Outstanding \in Nat
  BY <1>1, OutstandingType, Zenon DEF TypeInv
<1>4. PICK k \in Nat : k = Cardinality(Counting)
  BY FS_CardinalityType DEF CountInv
<1>5. CASE Push(c)
  <2>1. c \notin Counting /\ Counting' = Counting \cup {c}
    BY <1>1, <1>5, Zenon DEF Push, Counting, TypeInv
  <2>2. queued_count' = queued_count /\ Len(lane') = Len(lane) + 1
    BY <1>1, <1>5 DEF Push, TypeInv
  <2>3. Outstanding' = Outstanding + 1
    BY <1>2, <1>3, <2>2 DEF Outstanding
  <2>4. IsFiniteSet(Counting') /\ Cardinality(Counting') = k + 1
    BY <1>4, <2>1, FS_AddElement, Zenon DEF CountInv
  <2>5. ASSUME NoneDied
        PROVE  (queued_count + (k + 1)) % SizeModulus = (Outstanding + 1) % SizeModulus
    <3>1. PICK a \in Int : a = queued_count + k
      BY <1>3
    <3>2. a % SizeModulus = Outstanding % SizeModulus
      BY <1>4, <2>5, <3>1, Zenon DEF CountInv
    <3>3. (a + 1) % SizeModulus = (Outstanding + 1) % SizeModulus
      <4>1. Outstanding \in Int /\ 1 \in Int
        BY <1>3
      <4> QED
        BY <3>2, <4>1, SameChange, Zenon
    <3>4. a + 1 = queued_count + (k + 1)
      BY <1>3, <3>1
    <3> QED
      BY <3>3, <3>4, Zenon
  <2> QED
    BY <2>2, <2>3, <2>4, <2>5, Zenon DEF CountInv
<1>6. CASE CountPushed(c)
  <2>1. c \in Counting /\ Counting' = Counting \ {c}
    BY <1>1, <1>6, Zenon DEF CountPushed, Counting, TypeInv, Idle
  <2>2. queued_count' = Plus(queued_count, 1) /\ lane' = lane
    BY <1>6, Zenon DEF CountPushed
  <2>3. Outstanding' = Outstanding
    BY <1>2, <2>2, Zenon DEF Outstanding
  <2>4. IsFiniteSet(Counting') /\ Cardinality(Counting') = k - 1
    BY <1>4, <2>1, FS_RemoveElement, Zenon DEF CountInv
  <2>5. PICK m \in Nat : m = k - 1 /\ k = m + 1
    BY <1>4, <2>4, FS_CardinalityType
  <2>6. (queued_count' + m) % SizeModulus = (queued_count + k) % SizeModulus
    BY <1>3, <2>2, <2>5, CountOne
  <2> QED
    BY <1>4, <2>3, <2>4, <2>5, <2>6, Zenon DEF CountInv
<1>7. CASE ~Push(c) /\ ~CountPushed(c)
  <2>1. UNCHANGED <<lane, queued_count>>
    BY <1>7, Zenon DEF Caller, EnqueueBegin, PushRefused, PushWaits, PushTimeout, Reject
  <2>2. \A d \in Callers : calls'[d].at = "count" <=> calls[d].at = "count"
    <3>1. /\ calls[c].at # "count" /\ calls'[c].at # "count"
          /\ \A d \in Callers \ {c} : calls'[d] = calls[d]
      <4>1. ASSUME NEW r \in Requests, NEW kind \in Kinds, EnqueueBegin(c, r, kind) PROVE <3>1!:
        BY <1>1, <4>1 DEF EnqueueBegin, TypeInv, Idle, Refused, Call
      <4>2. CASE PushRefused(c)
        BY <1>1, <4>2, Zenon DEF PushRefused, TypeInv, Idle, Refused, Call
      <4>3. CASE PushWaits(c) \/ PushTimeout(c) \/ Reject(c)
        BY <1>1, <4>3 DEF PushWaits, PushTimeout, Reject, TypeInv, Idle
      <4> QED
        BY <1>7, <4>1, <4>2, <4>3, ZenonT(60) DEF Caller
    <3> QED
      BY <3>1
  <2>3. Counting' = Counting
    BY <2>2, Zenon DEF Counting
  <2>4. Outstanding' = Outstanding
    BY <1>2, <2>1, Zenon DEF Outstanding
  <2> QED
    BY <2>1, <2>3, <2>4, CountStays, Zenon
<1> QED
  BY <1>5, <1>6, <1>7, Zenon

\* The batch builder moves requests from the lane to the batch.
LEMMA FormCounts ==
  ASSUME WorkerInv, CountInv, NoneDied' => NoneDied,
         TakeFirst \/ PopExtra \/ PlaceExtra \/ FormEnds \/ Exit
  PROVE  CountInv'
<1>1. TypeInv /\ HandInv
  BY DEF WorkerInv
<1>2. Counting' = Counting
  BY Zenon DEF TakeFirst, PopExtra, PlaceExtra, FormEnds, Exit, callerVars, Counting
<1> SUFFICES ASSUME NoneDied PROVE queued_count' = queued_count /\ Outstanding' = Outstanding
  BY <1>2, CountStays
<1>3. /\ \A i \in DOMAIN lane : ~is_dead_request(lane[i])
      /\ \A r \in {deferred, hand} \ {None} : ~is_dead_request(r)
  BY HeldAlive, Zenon
<1>4. Len(lane) \in Nat /\ Len(batch) \in Nat /\ None \notin Requests
  BY <1>1, ConfigAssumption DEF TypeInv
<1>5. lane # <<>> => Head(lane) \in Requests /\ ~is_dead_request(Head(lane)) /\ Len(Tail(lane)) = Len(lane) - 1
  <2>1. ASSUME lane # <<>> PROVE 1 \in DOMAIN lane /\ Head(lane) = lane[1] /\ Head(lane) \in Requests
                                 /\ Len(Tail(lane)) = Len(lane) - 1
    BY <1>1, <2>1 DEF TypeInv
  <2> QED
    BY <1>3, <2>1, Zenon
<1>6. CASE TakeFirst
  <2>1. pc = "top" /\ hand' = hand /\ InBatch = 0
    BY <1>6, Zenon DEF TakeFirst, InBatch, Forming
  <2>2. CASE DeferredFirst
    <3>1. ~is_dead_request(deferred) /\ deferred # None
      BY <1>3, <2>2, Zenon DEF DeferredFirst
    <3>2. queued_count' = queued_count /\ batch' = <<deferred>> /\ pc' = "form" /\ deferred' = None /\ lane' = lane
      BY <1>6, <2>2, <3>1, Zenon DEF TakeFirst
    <3>3. InBatch' = 1 /\ Slot(deferred) = 1 /\ Slot(deferred') = 0 /\ Slot(hand') = Slot(hand)
      BY <2>1, <3>1, <3>2, Zenon DEF InBatch, Forming, Slot
    <3> QED
      BY <2>1, <3>2, <3>3 DEF Outstanding
  <2>3. CASE ~DeferredFirst
    <3>1. lane # <<>> /\ deferred = None /\ lane' = Tail(lane) /\ deferred' = deferred
      BY <1>6, <2>3, Zenon DEF TakeFirst, DeferredFirst, HasNext
    <3>2. queued_count' = queued_count /\ batch' = <<Head(lane)>> /\ pc' = "form"
      BY <1>5, <1>6, <2>3, <3>1, Zenon DEF TakeFirst
    <3>3. InBatch' = 1 /\ Slot(deferred') = Slot(deferred) /\ Slot(hand') = Slot(hand)
      BY <2>1, <3>1, <3>2, Zenon DEF InBatch, Forming, Slot
    <3>4. Len(lane') = Len(lane) - 1
      BY <1>5, <3>1, Zenon
    <3> QED
      BY <1>4, <2>1, <3>2, <3>3, <3>4, OutstandingType, <1>1 DEF Outstanding
  <2> QED
    BY <2>2, <2>3, Zenon
<1>7. CASE PopExtra
  <2>1. /\ pc = "form" /\ lane # <<>> /\ lane' = Tail(lane) /\ batch' = batch /\ deferred' = deferred
        /\ queued_count' = queued_count /\ hand' = Head(lane) /\ pc' = "extra"
    BY <1>5, <1>7, Zenon DEF PopExtra
  <2>2. hand = None /\ hand' # None
    BY <1>1, <1>4, <1>5, <2>1, Zenon DEF HandInv
  <2>3. Slot(hand) = 0 /\ Slot(hand') = 1 /\ Slot(deferred') = Slot(deferred) /\ InBatch' = InBatch
    BY <2>1, <2>2, Zenon DEF InBatch, Forming, Slot
  <2>4. Len(lane') = Len(lane) - 1
    BY <1>5, <2>1, Zenon
  <2> QED
    BY <1>1, <2>1, <2>3, <2>4, OutstandingType DEF Outstanding
<1>8. CASE PlaceExtra
  <2>1. pc = "extra" /\ hand # None /\ deferred = None /\ hand' = None /\ lane' = lane
    BY <1>1, <1>8, Zenon DEF PlaceExtra, HandInv
  <2>2. ~is_dead_request(hand) /\ queued_count' = queued_count
    BY <1>3, <1>8, <2>1, Zenon DEF PlaceExtra
  <2>3. \/ deferred' = hand /\ batch' = batch /\ pc' = "formed"
        \/ deferred' = deferred /\ Len(batch') = Len(batch) + 1 /\ pc' = "form"
    BY <1>1, <1>8, <2>2 DEF PlaceExtra, TypeInv
  <2>4. Slot(hand) = 1 /\ Slot(hand') = 0 /\ Slot(deferred) = 0 /\ InBatch = Len(batch) /\ InBatch' = Len(batch')
    BY <2>1, <2>3, Zenon DEF InBatch, Forming, Slot
  <2>5. CASE deferred' = hand /\ batch' = batch
    <3>1. Slot(deferred') = 1
      BY <2>1, <2>5, Zenon DEF Slot
    <3> QED
      BY <1>1, <2>1, <2>2, <2>4, <2>5, <3>1, OutstandingType DEF Outstanding
  <2>6. CASE deferred' = deferred /\ Len(batch') = Len(batch) + 1
    BY <1>1, <1>4, <2>1, <2>2, <2>4, <2>6, OutstandingType DEF Outstanding
  <2> QED
    BY <2>3, <2>5, <2>6, Zenon
<1>9. CASE FormEnds \/ Exit
  <2>1. UNCHANGED <<lane, queued_count, deferred, hand, batch>> /\ (pc \in Forming <=> pc' \in Forming)
    BY <1>9, Zenon DEF FormEnds, Exit, Forming
  <2>2. InBatch' = InBatch /\ Slot(deferred') = Slot(deferred) /\ Slot(hand') = Slot(hand)
    BY <2>1, Zenon DEF InBatch, Slot
  <2> QED
    BY <2>1, <2>2, Zenon DEF Outstanding
<1> QED
  BY <1>6, <1>7, <1>8, <1>9, Zenon

\* The filters keep every member, and the batch that begins is taken off the
\* count.
LEMMA BeginCounts ==
  ASSUME WorkerInv, CountInv, NoneDied' => NoneDied, FilterFormed \/ BeginBatch
  PROVE  CountInv'
<1>1. TypeInv
  BY Zenon DEF WorkerInv
<1>2. /\ Counting' = Counting /\ UNCHANGED <<lane, deferred, hand>>
      /\ filter_live_batch /\ pc \in Forming
  BY Zenon DEF FilterFormed, BeginBatch, untouched, callerVars, Counting, Forming
<1>3. IsFiniteSet(Counting')
  BY <1>2, Zenon DEF CountInv
<1> SUFFICES ASSUME NoneDied
             PROVE  (queued_count' + Cardinality(Counting')) % SizeModulus = Outstanding' % SizeModulus
  BY <1>3, Zenon DEF CountInv
<1>4. batch' \in Seq(Requests) /\ Len(batch') = Len(batch) /\ Len(batch) \in Nat
  <2>1. \A i \in DOMAIN batch : ~is_dead_request(batch[i])
    BY <1>2, HeldAlive, Zenon
  <2>2. batch \in Seq(Requests)
    BY <1>1, Zenon DEF TypeInv
  <2> QED
    BY <1>2, <2>1, <2>2, FilterKeepsAll
<1>5. PICK k \in Nat : k = Cardinality(Counting) /\ k = Cardinality(Counting')
  BY <1>2, FS_CardinalityType, Zenon DEF CountInv
<1>6. (queued_count + k) % SizeModulus = Outstanding % SizeModulus
  BY <1>5, Zenon DEF CountInv
<1>7. /\ InBatch = Len(batch) /\ Slot(deferred') = Slot(deferred) /\ Slot(hand') = Slot(hand)
      /\ queued_count \in Nat
  BY <1>1, <1>2, OutstandingType, Zenon DEF InBatch, Slot
<1>8. CASE FilterFormed
  <2>1. queued_count' = Minus(queued_count, 0)
    BY <1>4, <1>8 DEF FilterFormed
  <2>2. queued_count' = queued_count
    BY <1>1, <2>1, LessNone, Zenon DEF TypeInv
  <2>3. InBatch' = InBatch
    <3>1. CASE batch' = <<>>
      BY <1>4, <1>7, <1>8, <3>1, Zenon DEF FilterFormed, InBatch, Forming
    <3>2. CASE batch' # <<>>
      BY <1>4, <1>7, <1>8, <3>2, Zenon DEF FilterFormed, InBatch, Forming
    <3> QED
      BY <3>1, <3>2, Zenon
  <2>4. Outstanding' = Outstanding
    BY <1>2, <1>7, <2>3, Zenon DEF Outstanding
  <2> QED
    BY <1>5, <1>6, <2>2, <2>4, Zenon
<1>9. CASE BeginBatch
  <2>1. PICK n \in Nat : n = Len(batch)
    BY <1>4, Zenon
  <2>2. queued_count' = Minus(queued_count, n)
    BY <1>4, <1>9, <2>1, Zenon DEF BeginBatch, Dequeued
  <2>3. InBatch' = 0
    BY <1>9, Zenon DEF BeginBatch, InBatch, Forming
  <2>4. PICK t \in Nat : t = Outstanding' /\ Outstanding = t + n
    <3>1. /\ Outstanding' = Len(lane) + 0 + Slot(deferred) + Slot(hand)
          /\ Outstanding = Len(lane) + n + Slot(deferred) + Slot(hand)
      BY <1>2, <1>7, <2>1, <2>3, Zenon DEF Outstanding
    <3>2. Len(lane) \in Nat /\ Slot(deferred) \in Nat /\ Slot(hand) \in Nat
      BY <1>1, OutstandingType, Zenon
    <3> QED
      BY <3>1, <3>2
  <2>5. (Minus(queued_count, n) + k) % SizeModulus = t % SizeModulus
    BY <1>6, <1>7, <2>4, CountLess
  <2> QED
    BY <1>5, <2>2, <2>4, <2>5, Zenon
<1> QED
  BY <1>8, <1>9, Zenon

\* The rest of execute_batch() and close() leave the queued requests alone.
LEMMA ExecuteCounts ==
  ASSUME CountInv, NoneDied' => NoneDied,
         \/ CheckMember \/ StartMember \/ AllStarted \/ Resident \/ NotResident
         \/ Infer \/ Finish \/ StopAccepting \/ CloseLane \/ UNCHANGED vars
         \/ \E r \in Requests : Die(r)
  PROVE  CountInv'
<1>1. /\ UNCHANGED <<lane, calls, deferred, hand, queued_count>>
      /\ (UNCHANGED <<pc, batch>> \/ (pc \notin Forming /\ pc' \notin Forming))
  BY ZenonT(60) DEF CheckMember, StartMember, AllStarted, Resident, NotResident, Infer, Finish, StopAccepting,
     CloseLane, vars, Die, untouched, callerVars, formVars, Forming, FilterBatch, fail_all, Settle
<1>2. InBatch' = InBatch /\ Slot(deferred') = Slot(deferred) /\ Slot(hand') = Slot(hand) /\ Counting' = Counting
  BY <1>1, Zenon DEF InBatch, Slot, Counting
<1>3. Outstanding' = Outstanding
  BY <1>1, <1>2, Zenon DEF Outstanding
<1> QED
  BY <1>1, <1>2, <1>3, CountStays, Zenon

\* Worker.CountExact: until a request dies, queued_count_ and the increments
\* the callers still owe add up, modulo the width of size_t, to the requests
\* that are queued. The filter that does not count what it drops
\* (execute_batch) is why the theorem stops at the first death.
THEOREM CountExactHolds == Spec => []CountExact
<1>1. Init => CountInv
  <2> SUFFICES ASSUME Init PROVE CountInv
    OBVIOUS
  <2>1. Counting = {}
    BY Zenon DEF Init, Counting, Idle
  <2>2. queued_count = 0 /\ Outstanding = 0
    BY DEF Init, Outstanding, InBatch, Slot, Forming
  <2> QED
    BY <2>1, <2>2, FS_EmptySet DEF CountInv
<1>2. WorkerInv /\ CountInv /\ [Next]_vars => CountInv'
  <2> SUFFICES ASSUME WorkerInv, CountInv, [Next]_vars PROVE CountInv'
    OBVIOUS
  <2>1. NoneDied' => NoneDied
    BY DeathIsFinal, Zenon DEF WorkerInv
  <2>2. ASSUME NEW c \in Callers, Caller(c) PROVE CountInv'
    BY <2>1, <2>2, CallersCount, Zenon
  <2>3. CASE TakeFirst \/ PopExtra \/ PlaceExtra \/ FormEnds \/ Exit
    BY <2>1, <2>3, FormCounts, Zenon
  <2>4. CASE FilterFormed \/ BeginBatch
    BY <2>1, <2>4, BeginCounts, Zenon
  <2>5. CASE \/ CheckMember \/ StartMember \/ AllStarted \/ Resident \/ NotResident
             \/ Infer \/ Finish \/ StopAccepting \/ CloseLane \/ UNCHANGED vars
             \/ \E r \in Requests : Die(r)
    BY <2>1, <2>5, ExecuteCounts, Zenon
  <2> QED
    BY <2>2, <2>3, <2>4, <2>5, Zenon DEF Next, run_loop
<1>3. WorkerInv /\ CountInv => CountExact
  <2> SUFFICES ASSUME WorkerInv, CountInv, NoneDied
               PROVE  Plus(queued_count, Cardinality(Counting)) =
                        (Len(lane) + InBatch + (Slot(deferred) + Slot(hand))) % SizeModulus
    <3>1. {r \in Requests : state[r] \in {"Cancelled", "TimedOut"}} = {} => NoneDied
      BY Zenon DEF NoneDied
    <3> QED
      BY <3>1, Zenon DEF CountExact, Counting, InBatch, Slot, Forming
  <2>1. Outstanding = Len(lane) + InBatch + (Slot(deferred) + Slot(hand))
    BY OutstandingType DEF WorkerInv, Outstanding
  <2> QED
    BY <2>1, Zenon DEF CountInv, Plus
<1> QED
  BY <1>1, <1>2, <1>3, WorkerAlways, PTL DEF Spec
=============================================================================
