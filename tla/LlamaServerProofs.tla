------------------------- MODULE LlamaServerProofs -------------------------
(***************************************************************************)
(* Proofs about a worker of the llama server, for every command line and   *)
(* set of requests: how long it holds a batch, for every batch size and    *)
(* wait, and that its backend always decodes what llama.cpp can decode.    *)
(***************************************************************************)
EXTENDS LlamaServer, LlamaCppBackendProofs

-----------------------------------------------------------------------------
(* How long a batch is held *)

\* The longest a batch of n requests may have been held.
Allowance(n) == IF allow_wait THEN n * config.max_batch_wait ELSE 0

TypeInv ==
  /\ now \in Nat /\ first_at \in Nat /\ until \in Nat
  /\ lane \in Seq(Requests) /\ formed \in Seq(Requests)
  /\ deferred \in Requests \cup {None}
  /\ allow_wait \in BOOLEAN
  /\ at \notin {"boot", "exit"} => config.max_batch_wait \in Nat

\* Each request after the first has cost one wait at most; the current wait
\* ends in time for the next.
HoldInv ==
  /\ at \in {"boot", "exit"} => ~Forming
  /\ Forming => formed # <<>>
  /\ at = "form" => now - first_at <= Allowance(Len(formed) - 1)
  /\ at = "wait" => /\ now <= until /\ until - first_at <= Allowance(Len(formed))
                    /\ \A i \in DOMAIN formed :
                         deadline[formed[i]] # None => until <= deadline[formed[i]]

IInv == TypeInv /\ HoldInv /\ HeldWithinDeadlines /\ HoldBounded

-----------------------------------------------------------------------------

INSTANCE WellFoundedInduction

\* Every non-empty set of naturals has a least element.
LEMMA LeastNatural ==
  ASSUME NEW T \in SUBSET Nat, T # {}
  PROVE  \E x \in T : \A y \in T : x <= y
<1> DEFINE R == {ss \in Nat \X Nat : ss[1] < ss[2]}
<1>1. IsWellFoundedOn(R, Nat)
  BY NatLessThanWellFounded DEF OpToRel
<1>2. PICK x \in T : \A y \in T : ~ (<<y, x>> \in R)
  <2> HIDE DEF R
  <2> QED BY <1>1, WFMin, Zenon
<1>3. ASSUME NEW y \in T
      PROVE  x <= y
  <2>1. ~ (<<y, x>> \in R)
    BY <1>2, Zenon
  <2>2. <<y, x>> \in Nat \X Nat /\ <<y, x>>[1] = y /\ <<y, x>>[2] = x
    OBVIOUS
  <2> QED BY <2>1, <2>2
<1> QED BY <1>3, Zenon

\* The deadline form() waits for is not past, no later than one wait from now
\* and no later than any deadline of the batch.
LEMMA DeadlineInTime ==
  ASSUME TypeInv, HeldWithinDeadlines, at = "form"
  PROVE  /\ compute_deadline \in Nat /\ now <= compute_deadline
         /\ compute_deadline <= now + (IF allow_wait THEN config.max_batch_wait ELSE 0)
         /\ \A i \in DOMAIN formed :
              deadline[formed[i]] # None => compute_deadline <= deadline[formed[i]]
<1> DEFINE w == config.max_batch_wait
           limits == {now + w} \cup earliest_deadline
<1>1. \A i \in DOMAIN formed :
        deadline[formed[i]] # None => deadline[formed[i]] \in Nat /\ now <= deadline[formed[i]]
  <2>1. \A i \in DOMAIN formed : formed[i] \in Requests
    BY DEF TypeInv
  <2> QED
    BY <2>1, DeadlineAssumption, Zenon DEF HeldWithinDeadlines, Forming
<1>2. now \in Nat /\ w \in Nat /\ now + w \in Nat /\ now <= now + w
  BY DEF TypeInv
<1>3. CASE ~allow_wait
  BY <1>1, <1>2, <1>3, SMTT(60) DEF compute_deadline
<1>4. CASE allow_wait
  <2>1. limits \in SUBSET Nat /\ limits # {} /\ \A y \in limits : now <= y
    BY <1>1, <1>2, Zenon DEF earliest_deadline
  <2>2. compute_deadline = Min(limits)
    BY <1>4, Zenon DEF compute_deadline
  <2>3. Min(limits) \in limits /\ \A y \in limits : Min(limits) <= y
    <3> HIDE DEF limits
    <3>1. \E x \in limits : \A y \in limits : x <= y
      BY <2>1, LeastNatural, Zenon
    <3> QED
      BY <3>1, Zenon DEF Min
  <2>4. \A i \in DOMAIN formed : deadline[formed[i]] # None => deadline[formed[i]] \in limits
    BY DEF earliest_deadline
  <2> HIDE DEF limits
  <2>5. now + w \in limits
    BY DEF limits
  <2> QED
    BY <1>4, <2>1, <2>2, <2>3, <2>4, <2>5, ZenonT(60)
<1> QED
  BY <1>3, <1>4, Zenon

\* One more request allows for one more wait.
LEMMA AllowanceGrows ==
  ASSUME TypeInv, config.max_batch_wait \in Nat, NEW n \in Nat
  PROVE  /\ Allowance(n) \in Nat
         /\ Allowance(n + 1) = Allowance(n) + (IF allow_wait THEN config.max_batch_wait ELSE 0)
<1> DEFINE w == config.max_batch_wait
<1>1. \A v \in Nat : n * v \in Nat /\ (n + 1) * v = n * v + v
  OBVIOUS
<1>2. n * w \in Nat /\ (n + 1) * w = n * w + w
  BY <1>1, Zenon
<1> QED
  BY <1>2 DEF Allowance

\* Steps that leave the batch and the clock alone.
LEMMA OthersKeep ==
  ASSUME IInv,
         UNCHANGED <<now, at, formed, allow_wait, until, first_at, config>>,
         lane' \in Seq(Requests), deferred' \in Requests \cup {None}
  PROVE  IInv'
  BY Zenon DEF IInv, TypeInv, HoldInv, HeldWithinDeadlines, HoldBounded, Forming, Allowance

\* Steps after which no batch is being formed.
LEMMA NotFormingKeeps ==
  ASSUME IInv,
         UNCHANGED <<now, lane, deferred, allow_wait, until, first_at>>,
         formed' \in Seq(Requests),
         at' \in {"top", "infer", "exit"},
         at' # "exit" => config'.max_batch_wait \in Nat
  PROVE  IInv'
  BY DEF IInv, TypeInv, HoldInv, HeldWithinDeadlines, HoldBounded, Forming, Allowance

\* A live request may be put into the batch.
LEMMA LiveIsInTime ==
  ASSUME TypeInv, NEW r \in Requests, ~is_dead_request(r), deadline[r] # None
  PROVE  now <= deadline[r]
  BY DeadlineAssumption DEF TypeInv, is_dead_request

\* A step of form(), the loop that feeds it or the clock keeps the invariant.
LEMMA FormKeeps ==
  ASSUME IInv, config' = config,
         FormStep \/ Tick \/ Close \/ \E r \in Requests : Arrive(r)
  PROVE  IInv'
<1> USE DEF IInv
<1>0. config' = config /\ (at \notin {"boot", "exit"} => config.max_batch_wait \in Nat)
  BY DEF TypeInv
<1>1. CASE TakeFirst
  <2> DEFINE r == IF deferred # None THEN deferred ELSE Head(lane)
  <2>1. r \in Requests /\ lane' \in Seq(Requests) /\ deferred' \in Requests \cup {None}
    BY <1>1 DEF TakeFirst, TypeInv
  <2>2. CASE is_dead_request(r)
    <3>1. UNCHANGED <<now, at, formed, allow_wait, until, first_at>>
      BY <1>1, <2>2, Zenon DEF TakeFirst
    <3> QED
      BY <1>0, <2>1, <3>1, OthersKeep, ZenonT(60)
  <2>3. CASE ~is_dead_request(r)
    <3>1. /\ at = "top" /\ at' = "form" /\ formed' = <<r>> /\ first_at' = now
          /\ now' = now /\ until' = until /\ allow_wait' = ~closed
      BY <1>1, <2>3, ZenonT(60) DEF TakeFirst
    <3>2. formed' \in Seq(Requests) /\ Len(formed') = 1 /\ formed' # <<>>
          /\ \A i \in DOMAIN formed' : formed'[i] = r
      BY <2>1, <3>1
    <3>3. TypeInv'
      BY <1>0, <2>1, <3>1, <3>2, ZenonT(60) DEF TypeInv
    <3>4. now' - first_at' = 0
      BY <3>1 DEF TypeInv
    <3>5. HeldWithinDeadlines'
      BY <2>1, <2>3, <3>1, <3>2, LiveIsInTime, ZenonT(60) DEF HeldWithinDeadlines
    <3>6. 0 <= Allowance(Len(formed) - 1)' /\ 0 <= Allowance(Len(formed))'
      <4>1. Len(formed') - 1 = 0 /\ \A w \in Nat : 0 * w = 0 /\ 1 * w = w
        BY <3>2
      <4> QED
        BY <1>0, <3>1, <3>2, <4>1, SMTT(60) DEF Allowance
    <3> QED
      BY <3>1, <3>2, <3>3, <3>4, <3>5, <3>6, ZenonT(60) DEF HoldInv, HoldBounded, Forming, Allowance
  <2> QED
    BY <2>2, <2>3, ZenonT(60)
<1>2. CASE FormNext
  <2>1. /\ at = "form" /\ UNCHANGED <<now, lane, deferred, formed, allow_wait, first_at>>
        /\ formed # <<>> /\ Len(formed) - 1 \in Nat /\ Len(formed) \in Nat
    BY <1>2, SMTT(60) DEF FormNext, HoldInv, Forming, TypeInv
  <2>2. HeldWithinDeadlines' /\ HoldBounded'
    BY <1>0, <1>2, <2>1, SMTT(60) DEF FormNext, HeldWithinDeadlines, HoldBounded, Forming
  <2>3. CASE at' = "wait" /\ until' = compute_deadline
    <3>1. until' - first_at <= Allowance(Len(formed))
      <4>1. Allowance(Len(formed)) =
              Allowance(Len(formed) - 1) + (IF allow_wait THEN config.max_batch_wait ELSE 0)
        <5>1. PICK n \in Nat : n = Len(formed) - 1 /\ n + 1 = Len(formed)
          BY <2>1
        <5>2. Allowance(n + 1) = Allowance(n) + (IF allow_wait THEN config.max_batch_wait ELSE 0)
          BY <1>0, <2>1, AllowanceGrows, ZenonT(60)
        <5> QED
          BY <5>1, <5>2, ZenonT(60)
      <4>2. Allowance(Len(formed) - 1) \in Nat
        BY <1>0, <2>1, AllowanceGrows, ZenonT(60)
      <4>3. now - first_at <= Allowance(Len(formed) - 1)
        BY <2>1, ZenonT(60) DEF HoldInv
      <4> QED
        BY <1>0, <2>1, <2>3, <4>1, <4>2, <4>3, DeadlineInTime, SMTT(60) DEF TypeInv
    <3>2. TypeInv'
      BY <1>0, <2>1, <2>3, DeadlineInTime, ZenonT(60) DEF TypeInv
    <3>3. HoldInv'
      BY <1>0, <2>1, <2>3, <3>1, DeadlineInTime, ZenonT(60) DEF HoldInv, Forming, Allowance
    <3> QED
      BY <2>2, <3>2, <3>3, ZenonT(60)
  <2>4. CASE at' = "formed" /\ until' = until
    BY <1>0, <2>1, <2>2, <2>4, ZenonT(60) DEF TypeInv, HoldInv, Forming
  <2> QED
    BY <1>2, <2>3, <2>4, ZenonT(60) DEF FormNext
<1>3. CASE PopUntil
  <2> DEFINE r == Head(lane)
  <2>1. /\ r \in Requests /\ lane' \in Seq(Requests) /\ at = "wait" /\ now <= until
        /\ UNCHANGED <<now, allow_wait, until, first_at>>
        /\ formed # <<>> /\ formed \in Seq(Requests) /\ Len(formed) \in Nat
    BY <1>3 DEF PopUntil, TypeInv, HoldInv, Forming
  <2>2. CASE is_dead_request(r)
    <3>1. UNCHANGED <<at, formed, deferred>>
      BY <1>3, <2>2, ZenonT(60) DEF PopUntil
    <3> QED
      BY <1>0, <2>1, <3>1, OthersKeep, ZenonT(60) DEF TypeInv
  <2>3. CASE ~is_dead_request(r) /\ model_id[r] = model_id[formed[1]]
    <3>1. at' = "form" /\ formed' = Append(formed, r) /\ deferred' = deferred
      BY <1>3, <2>3, ZenonT(60) DEF PopUntil
    <3>2. /\ formed' \in Seq(Requests) /\ Len(formed') - 1 = Len(formed) /\ formed' # <<>>
          /\ \A i \in DOMAIN formed' : formed'[i] = r \/ (i \in DOMAIN formed /\ formed'[i] = formed[i])
      BY <2>1, <3>1
    <3>3. TypeInv'
      BY <1>0, <2>1, <3>1, <3>2, ZenonT(60) DEF TypeInv
    <3>4. HeldWithinDeadlines'
      BY <2>1, <2>3, <3>1, <3>2, LiveIsInTime, SMTT(60) DEF HeldWithinDeadlines, Forming
    <3>5. now - first_at <= Allowance(Len(formed))
      BY <2>1, Zenon DEF HoldBounded, Forming, Allowance
    <3>6. HoldInv'
      BY <1>0, <2>1, <3>1, <3>2, <3>5, ZenonT(60) DEF HoldInv, Forming, Allowance
    <3>7. HoldBounded'
      <4>1. Len(formed') = Len(formed) + 1
        BY <2>1, <3>1, SMTT(60)
      <4>2. Allowance(Len(formed)) <= Allowance(Len(formed) + 1) /\ Allowance(Len(formed)) \in Nat
            /\ Allowance(Len(formed) + 1) \in Nat
        <5>1. PICK n \in Nat : n = Len(formed)
          BY <2>1, ZenonT(60)
        <5>2. /\ Allowance(n) \in Nat
              /\ Allowance(n + 1) = Allowance(n) + (IF allow_wait THEN config.max_batch_wait ELSE 0)
          BY <1>0, <2>1, AllowanceGrows, ZenonT(60)
        <5>3. Allowance(n) <= Allowance(n + 1) /\ Allowance(n + 1) \in Nat
          <6>1. PICK a \in Nat : a = Allowance(n)
            BY <5>2, ZenonT(60)
          <6>2. PICK w \in Nat : w = config.max_batch_wait
            BY <1>0, <2>1, ZenonT(60)
          <6>3. Allowance(n + 1) = a \/ Allowance(n + 1) = a + w
            BY <5>2, <6>1, <6>2
          <6> QED
            BY <6>1, <6>2, <6>3, SMTT(60)
        <5> QED
          BY <5>1, <5>2, <5>3, ZenonT(60)
      <4>3. now' - first_at' <= Allowance(Len(formed) + 1)
        BY <2>1, <3>5, <4>2, SMTT(60) DEF TypeInv
      <4> QED
        BY <1>0, <2>1, <4>1, <4>3, ZenonT(60) DEF HoldBounded, Allowance
    <3> QED
      BY <3>3, <3>4, <3>6, <3>7, ZenonT(60)
  <2>4. CASE ~is_dead_request(r) /\ model_id[r] # model_id[formed[1]]
    <3>1. at' = "formed" /\ deferred' = r /\ formed' = formed
      BY <1>3, <2>4, Zenon DEF PopUntil
    <3> QED
      BY <1>0, <2>1, <3>1, ZenonT(60) DEF TypeInv, HoldInv, HeldWithinDeadlines, HoldBounded, Forming
  <2> QED
    BY <2>2, <2>3, <2>4, ZenonT(60)
<1>4. CASE WaitEnds
  BY <1>0, <1>4, ZenonT(60) DEF WaitEnds, TypeInv, HoldInv, HeldWithinDeadlines, HoldBounded, Forming
<1>5. CASE Tick
  <2>1. /\ now' = now + 1 /\ now' \in Nat /\ at \in {"top", "wait"}
        /\ UNCHANGED <<lane, at, formed, deferred, allow_wait, until, first_at>>
    BY <1>5 DEF Tick, formVars, TypeInv
  <2>2. TypeInv'
    BY <1>0, <2>1, Zenon DEF TypeInv
  <2>3. CASE at = "top"
    BY <2>1, <2>2, <2>3, ZenonT(60) DEF HoldInv, HeldWithinDeadlines, HoldBounded, Forming
  <2>4. CASE at = "wait"
    <3>1. now' <= until
      BY <1>5, <2>1, <2>4, SMTT(60) DEF Tick, TypeInv
    <3>2. HoldInv'
      BY <1>0, <2>1, <2>4, <3>1, ZenonT(60) DEF HoldInv, Forming, Allowance
    <3>3. HeldWithinDeadlines'
      <4>1. \A i \in DOMAIN formed : deadline[formed[i]] # None =>
              deadline[formed[i]] \in Nat /\ until <= deadline[formed[i]]
        BY <2>4, DeadlineAssumption DEF HoldInv, TypeInv
      <4> QED
        BY <2>1, <3>1, <4>1, SMTT(60) DEF HeldWithinDeadlines, TypeInv
    <3>4. HoldBounded'
      <4>1. until - first_at <= Allowance(Len(formed)) /\ Allowance(Len(formed)) \in Nat
        BY <1>0, <2>4, AllowanceGrows, SMTT(60) DEF HoldInv, TypeInv
      <4>2. now' - first_at <= Allowance(Len(formed))
        BY <2>1, <3>1, <4>1 DEF TypeInv
      <4> QED
        BY <1>0, <2>1, <4>2, ZenonT(60) DEF HoldBounded, Allowance
    <3> QED
      BY <2>2, <3>2, <3>3, <3>4, ZenonT(60)
  <2> QED
    BY <2>1, <2>3, <2>4, ZenonT(60)
<1>6. CASE Close \/ \E r \in Requests : Arrive(r)
  <2>1. UNCHANGED <<now, at, formed, deferred, allow_wait, until, first_at>>
    BY <1>6, Zenon DEF Close, Arrive, formVars
  <2>2. lane' = lane \/ \E r \in Requests : lane' = Append(lane, r)
    BY <1>6, Zenon DEF Close, Arrive
  <2>3. lane' \in Seq(Requests)
    BY <2>2, SMTT(60) DEF TypeInv
  <2> QED
    BY <1>0, <2>1, <2>3, OthersKeep, ZenonT(60) DEF TypeInv
<1> QED
  BY <1>1, <1>2, <1>3, <1>4, <1>5, <1>6, ZenonT(60) DEF FormStep

\* The initial state satisfies the invariant.
LEMMA InitInv == Init => IInv
  BY SMTT(60) DEF Init, BatchInit, IInv, TypeInv, HoldInv, HeldWithinDeadlines, HoldBounded, Forming

\* The backend never changes its configuration.
LEMMA ConfigKept ==
  ASSUME Infer \/ LoadModel \/ UnloadModel \/ Execute
  PROVE  config' = config
  BY ZenonT(60) DEF Infer, LoadModel, UnloadModel, Execute, Load, Unload, InferBatch,
         BackendStep, Setup, Return, FillPrefix, PrefixFilled, Bootstrap,
         DecodePrefix, Decode, DecodeFails, Throws, Sample

\* Every step keeps the invariant.
LEMMA NextInv == IInv /\ [Next]_vars => IInv'
<1> SUFFICES ASSUME IInv, [Next]_vars PROVE IInv'
  BY Zenon
<1>0. lane \in Seq(Requests) /\ deferred \in Requests \cup {None} /\ formed \in Seq(Requests)
      /\ (at \notin {"boot", "exit"} => config.max_batch_wait \in Nat)
  BY Zenon DEF IInv, TypeInv
<1>1. CASE Construct
  <2>1. config'.max_batch_wait \in Nat
    BY <1>1, ServerAssumption, SMTT(60) DEF Construct, make_llama_worker, make_batch_config
  <2> QED
    BY <1>0, <1>1, <2>1, NotFormingKeeps, ZenonT(60) DEF Construct, bootVars
<1>2. CASE GiveUp
  BY <1>0, <1>2, NotFormingKeeps, ZenonT(60) DEF GiveUp, bootVars
<1>3. CASE Form
  BY <1>3, FormKeeps, ZenonT(60) DEF Form, backendVars, callVars
<1>4. CASE DropBatch \/ LoadFails \/ Deliver
  <2>1. <<>> \in Seq(Requests)
    BY SMTT(60)
  <2> QED
    BY <1>0, <1>4, <2>1, NotFormingKeeps, ZenonT(60) DEF DropBatch, LoadFails, Deliver, NextBatch, backendVars, callVars
<1>5. CASE Execute
  BY <1>0, <1>5, ConfigKept, NotFormingKeeps, ZenonT(60) DEF Execute
<1>6. CASE LoadModel \/ UnloadModel \/ Infer
  BY <1>0, <1>6, ConfigKept, OthersKeep, ZenonT(60) DEF LoadModel, UnloadModel, Infer, batchVars, formVars
<1>7. CASE UNCHANGED vars
  BY <1>0, <1>7, OthersKeep, ZenonT(60) DEF vars, batchVars, formVars, backendVars, callVars
<1> QED
  BY <1>1, <1>2, <1>3, <1>4, <1>5, <1>6, <1>7, SMTT(60) DEF Next

\* A batch is never held past the deadline of a request that is in it.
THEOREM HeldWithinDeadlinesHolds == Spec => []HeldWithinDeadlines
<1>1. IInv => HeldWithinDeadlines
  BY ZenonT(60) DEF IInv
<1> QED
  BY InitInv, NextInv, <1>1, PTL DEF Spec

\* A batch is held for at most one max_batch_wait per request in it.
THEOREM HoldBoundedHolds == Spec => []HoldBounded
<1>1. IInv => HoldBounded
  BY DEF IInv
<1> QED
  BY InitInv, NextInv, <1>1, PTL DEF Spec

-----------------------------------------------------------------------------
(* From the command line to the context *)

\* A bounded, non-empty set of naturals has a largest element.
LEMMA Largest ==
  ASSUME NEW n \in Nat, NEW T \in SUBSET (1..n), T # {}
  PROVE  Max(T) \in T
<1> DEFINE D == {n - i : i \in T}
<1>1. D \in SUBSET Nat /\ D # {}
  <2>1. PICK i : i \in T
    BY Zenon
  <2>2. n - i \in D
    BY <2>1, Zenon
  <2>3. \A j \in T : n - j \in Nat
    OBVIOUS
  <2> QED
    BY <2>2, <2>3, Zenon
<1>2. PICK d \in D : \A y \in D : d <= y
  <2> HIDE DEF D
  <2> QED BY <1>1, LeastNatural, Zenon
<1>3. PICK x \in T : d = n - x
  BY Zenon
<1>4. ASSUME NEW y \in T PROVE x >= y
  <2>1. n - y \in D
    BY Zenon
  <2>2. n - x <= n - y
    BY <1>2, <1>3, <2>1, ZenonT(60)
  <2> QED
    BY <2>2
<1>5. \E z \in T : \A y \in T : z >= y
  BY <1>4, Zenon
<1> QED
  BY <1>5, ZenonT(60) DEF Max

\* An option has its default or a value that was checked.
LEMMA OptionIs ==
  ASSUME NEW args \in CommandLines, parse_args(args) # None, NEW flag \in Flags
  PROVE  \/ parse_args(args)[flag] = ServerOptions(flag)
         \/ \E value : Valid(flag, value) /\ parse_args(args)[flag] = Stored(flag, value)
<1> DEFINE given(f) == {i \in DOMAIN args : args[i].flag = f}
           opts == [f \in Flags |->
                      IF given(f) = {} THEN ServerOptions(f)
                      ELSE Stored(f, args[Max(given(f))].value)]
<1>1. /\ parse_args(args) = opts
      /\ \A i \in DOMAIN args : args[i].flag \in Flags /\ Valid(args[i].flag, args[i].value)
  BY Zenon DEF parse_args
<1>2. PICK n \in Nat : DOMAIN args = 1..n
  BY ServerAssumption, Zenon
<1>3. CASE given(flag) = {}
  BY <1>1, <1>3, Zenon
<1>4. CASE given(flag) # {}
  <2>1. given(flag) \in SUBSET (1..n)
    BY <1>2, Zenon
  <2>2. PICK i \in DOMAIN args : i = Max(given(flag)) /\ args[i].flag = flag
    <3>1. Max(given(flag)) \in given(flag)
      <4> HIDE DEF given
      <4> QED BY <1>4, <2>1, Largest, ZenonT(60)
    <3> QED
      BY <3>1, Zenon
  <2>3. Valid(flag, args[i].value) /\ opts[flag] = Stored(flag, args[i].value)
    BY <1>1, <1>4, <2>2, ZenonT(60)
  <2> QED
    BY <1>1, <2>3, Zenon
<1> QED
  BY <1>3, <1>4, ZenonT(60)

\* What main() accepts is a configuration the backend can decode with.
LEMMA ConstructConfigures ==
  ASSUME argv \in CommandLines, Construct
  PROVE  Configured'
<1> DEFINE opts == parse_args(argv)
           size == opts["--max-batch-size"]
           ctx == opts["--ctx-size"]
<1>1. opts # None /\ ctx # 0
  BY Zenon DEF Construct
<1>2. /\ config'.max_sequences = size /\ config'.context_tokens_per_sequence = ctx
      /\ config'.n_batch = Max({DefaultBatch, size % U32})
      /\ config'.n_batch >= config'.max_sequences
  <2>1. config' \in make_llama_worker(opts)
    BY Zenon DEF Construct
  <2> HIDE DEF opts
  <2>2. validate(config')
    BY <2>1, Zenon DEF make_llama_worker
  <2>3. config'.n_batch >= config'.max_sequences
    BY <2>2, Zenon DEF validate
  <2>4. PICK wait \in make_batch_config(opts) :
          config' = [max_batch_size |-> size, max_batch_wait |-> wait, max_sequences |-> size,
                     models |-> {opts["--model-id"]}, context_tokens_per_sequence |-> ctx,
                     n_batch |-> Max({DefaultBatch, size % U32})]
    BY <2>1, Zenon DEF make_llama_worker
  <2> QED
    BY <2>3, <2>4, Zenon
<1>3. size \in Nat \ {0}
  <2>1. "--max-batch-size" \in Flags
    BY DEF Flags
  <2>2. ServerOptions("--max-batch-size") = 4
    BY DEF ServerOptions
  <2>3. \A value : Valid("--max-batch-size", value) => value \in Nat \ {0}
    BY DEF Valid, Positive
  <2>4. \A value : Stored("--max-batch-size", value) = value
    BY Zenon DEF Stored
  <2> QED
    BY <1>1, <2>1, <2>2, <2>3, <2>4, OptionIs, SMTT(60)
<1>4. ctx \in 1..(U32 - 1)
  <2>1. "--ctx-size" \in Flags
    BY DEF Flags
  <2>2. ServerOptions("--ctx-size") = DefaultCtx
    BY DEF ServerOptions
  <2>3. \A value : Valid("--ctx-size", value) => value \in Nat \ {0}
    BY DEF Valid, Positive
  <2>4. \A value : Stored("--ctx-size", value) = value % U32
    BY Zenon DEF Stored
  <2>5. \A value \in Nat : value % U32 \in 0..(U32 - 1)
    BY TokenAssumption, Quotient
  <2>6. DefaultCtx \in 1..(U32 - 1) /\ U32 \in Nat
    BY ServerAssumption, TokenAssumption, Zenon
  <2>7. ctx = DefaultCtx \/ ctx \in 0..(U32 - 1)
    BY <1>1, <2>1, <2>2, <2>3, <2>4, <2>5, OptionIs, ZenonT(60)
  <2> QED
    BY <1>1, <2>6, <2>7
<1>5. config'.n_batch \in 1..(U32 - 1)
  <2>1. PICK r \in 0..(U32 - 1) : r = size % U32
    <3>1. U32 \in Nat \ {0} /\ size \in Int
      BY <1>3, TokenAssumption
    <3>2. size % U32 \in 0..(U32 - 1)
      <4> HIDE DEF size
      <4> QED BY <3>1, Quotient, Zenon
    <3> QED
      BY <3>2, Zenon
  <2>2. DefaultBatch \in 1..(U32 - 1) /\ U32 \in Nat
    BY ServerAssumption, TokenAssumption, Zenon
  <2>3. CASE r <= DefaultBatch
    <3>1. Max({DefaultBatch, r}) = DefaultBatch
      BY <2>2, <2>3, MaxIs, SMTT(60)
    <3> QED
      BY <1>2, <2>1, <2>2, <3>1, ZenonT(60)
  <2>4. CASE r > DefaultBatch
    <3>1. Max({DefaultBatch, r}) = r
      BY <2>2, <2>4, MaxIs
    <3> QED
      BY <1>2, <2>1, <2>2, <2>4, <3>1, SMTT(60)
  <2> QED
    BY <2>2, <2>3, <2>4
<1> HIDE DEF size, ctx
<1> QED
  BY <1>2, <1>3, <1>4, <1>5, TokenAssumption, SMTT(60) DEF Configured

\* A batch that is passed on consists of requests that were formed.
LEMMA LiveBatchType ==
  ASSUME formed \in Seq(Requests), NEW reqs \in LiveBatches
  PROVE  reqs \in Seq(Requests)
<1> DEFINE alive == {i \in DOMAIN formed : ~is_dead_request(formed[i])}
<1>1. PICK pass \in Passes(alive, Len(formed)) : reqs = Along(pass, formed)
  BY Zenon DEF LiveBatches
<1>2. Len(formed) \in Nat
  OBVIOUS
<1>3. PICK m \in 0..Len(formed) : pass \in [1..m -> alive] /\ DOMAIN pass = 1..m
  <2> HIDE DEF alive
  <2> QED
    BY <1>2, PassFacts
<1>4. reqs = [j \in 1..m |-> formed[pass[j]]]
  BY <1>1, <1>3, Zenon DEF Along
<1>5. m \in Nat /\ \A j \in 1..m : formed[pass[j]] \in Requests
  BY <1>2, <1>3
<1> QED
  BY <1>4, <1>5, MapSequence

\* A worker that serves is configured, and decodes only inside infer_batch().
ServedInv ==
  /\ argv \in CommandLines
  /\ at \in {"boot", "exit"} => loaded = <<>>
  /\ at \notin {"boot", "exit"} => Configured
  /\ at # "infer" => pc = "idle"
  /\ DecodingInv

\* Nothing is loaded and nothing decoded at first.
LEMMA InitServed == Init => ServedInv
<1> SUFFICES ASSUME Init PROVE ServedInv
  BY Zenon
<1>1. /\ argv \in CommandLines /\ at = "boot" /\ loaded = <<>> /\ pc = "idle"
      /\ requests = <<>> /\ batch = <<>>
  BY Zenon DEF Init, BatchInit, BackendInit
<1> QED
  BY <1>1 DEF ServedInv, DecodingInv, ConfigInv, LoadedInv, CallInv, StageInv, Decoding

\* Every step keeps the invariant.
LEMMA NextServed == IInv /\ ServedInv /\ [Next]_vars => ServedInv'
<1> SUFFICES ASSUME IInv, ServedInv, [Next]_vars
             PROVE  ServedInv'
  BY Zenon
<1>1. formed \in Seq(Requests) /\ requests \in Seq(Requests) /\ <<>> \in Seq(Requests)
  BY DEF IInv, TypeInv, ServedInv, DecodingInv, CallInv
<1>2. argv' = argv /\ argv \in CommandLines /\ DecodingInv
  BY ZenonT(60) DEF ServedInv, Next, vars, Construct, GiveUp, Form, DropBatch, LoadModel, UnloadModel,
               LoadFails, Execute, Infer, Deliver, bootVars
<1>3. /\ at \in {"boot", "exit"} => loaded = <<>>
      /\ at \notin {"boot", "exit"} => Configured
      /\ at # "infer" => pc = "idle"
  BY Zenon DEF ServedInv
<1>4. config' = config => (Configured => Configured')
  BY Zenon DEF Configured
<1>5. CASE Construct
  <2>1. at = "boot" /\ at' = "top" /\ UNCHANGED <<loaded, pc, requests, batch>>
    BY <1>5, Zenon DEF Construct, bootVars
  <2>2. DecodingInv'
    BY <1>2, <1>3, <2>1, ConfigureKeeps, ZenonT(60)
  <2> QED
    BY <1>2, <1>3, <1>5, <2>1, <2>2, ConstructConfigures, ZenonT(60) DEF ServedInv
<1>6. CASE GiveUp
  <2>1. at = "boot" /\ at' = "exit" /\ UNCHANGED <<config, loaded, pc, requests, batch>>
    BY <1>6, ZenonT(60) DEF GiveUp, bootVars
  <2>2. DecodingInv'
    BY <1>1, <1>2, <1>3, <2>1, IdleKeeps, ZenonT(60)
  <2> QED
    BY <1>2, <1>3, <2>1, <2>2, ZenonT(60) DEF ServedInv
<1>7. CASE Form
  <2>1. UNCHANGED <<config, loaded, pc, requests, batch>>
    BY <1>7, Zenon DEF Form, backendVars, callVars
  <2>2. at \in {"top", "form", "wait"} /\ at' \in {"top", "form", "wait", "formed"}
    BY <1>7, ZenonT(60) DEF Form, FormStep, TakeFirst, FormNext, PopUntil, WaitEnds, Tick, Close, Arrive, formVars
  <2>3. DecodingInv'
    BY <1>1, <1>2, <1>3, <2>1, <2>2, IdleKeeps, ZenonT(60)
  <2> QED
    BY <1>2, <1>3, <1>4, <2>1, <2>2, <2>3, ZenonT(60) DEF ServedInv
<1>8. CASE DropBatch \/ LoadFails \/ Deliver
  <2>1. /\ at \in {"formed", "infer"} /\ at' = "top" /\ pc = "idle"
        /\ UNCHANGED <<config, loaded, pc, batch>> /\ requests' \in {requests, <<>>}
    BY <1>3, <1>8, ZenonT(60) DEF DropBatch, LoadFails, Deliver, NextBatch, backendVars, callVars
  <2>2. DecodingInv'
    BY <1>1, <1>2, <2>1, IdleKeeps, ZenonT(60)
  <2> QED
    BY <1>2, <1>3, <1>4, <2>1, <2>2, ZenonT(60) DEF ServedInv
<1>9. CASE LoadModel
  <2>1. at = "formed" /\ at' = at /\ \E id : Load(id)
    BY <1>9, SMTT(60) DEF LoadModel, batchVars, formVars
  <2>2. config' = config /\ pc' = pc
    BY <2>1, Zenon DEF Load, callVars
  <2>3. DecodingInv'
    BY <1>2, <1>3, <2>1, LoadKeeps, ZenonT(60)
  <2> QED
    BY <1>2, <1>3, <1>4, <2>1, <2>2, <2>3, SMTT(60) DEF ServedInv
<1>10. CASE UnloadModel
  <2>1. at = "top" /\ at' = at /\ \E id : Unload(id)
    BY <1>10, ZenonT(60) DEF UnloadModel, batchVars, formVars
  <2>2. config' = config /\ pc' = pc
    BY <2>1, ZenonT(60) DEF Unload, callVars
  <2>3. DecodingInv'
    BY <1>2, <2>1, UnloadKeeps, ZenonT(60)
  <2> QED
    BY <1>2, <1>3, <1>4, <2>1, <2>2, <2>3, SMTT(60) DEF ServedInv
<1>11. CASE Execute
  <2>1. at = "formed" /\ at' = "infer" /\ config' = config
    BY <1>11, Zenon DEF Execute, InferBatch
  <2>2. PICK reqs \in LiveBatches : InferBatch(reqs)
    BY <1>11, Zenon DEF Execute
  <2>3. DecodingInv'
    BY <1>1, <1>2, <1>3, <2>1, <2>2, LiveBatchType, InferBatchKeeps, ZenonT(60)
  <2> QED
    BY <1>2, <1>3, <1>4, <2>1, <2>3, ZenonT(60) DEF ServedInv
<1>12. CASE Infer
  <2>1. at = "infer" /\ at' = at /\ BackendStep /\ config' = config
    BY <1>12, ConfigKept, ZenonT(60) DEF Infer, batchVars, formVars
  <2>2. DecodingInv'
    BY <1>2, <2>1, BackendKeeps, ZenonT(60)
  <2> QED
    BY <1>2, <1>3, <1>4, <2>1, <2>2, ZenonT(60) DEF ServedInv
<1>13. CASE UNCHANGED vars
  <2>1. UNCHANGED <<at, config, loaded, kv, logits, pc, requests, live, batch>>
    BY <1>13, Zenon DEF vars, batchVars, formVars, backendVars, callVars
  <2>2. DecodingInv'
    BY <1>2, <2>1, StutterKeeps, ZenonT(60)
  <2> QED
    BY <1>2, <1>3, <1>4, <2>1, <2>2, ZenonT(60) DEF ServedInv
<1> QED
  BY <1>5, <1>6, <1>7, <1>8, <1>9, <1>10, <1>11, <1>12, <1>13, ZenonT(60) DEF Next

\* Whatever options main() accepts, llama_decode() is only called with a
\* batch that fits, on sequences the context has, at the positions that
\* continue their caches and within their share of n_ctx.
THEOREM AlwaysDecodableHolds == Spec => []AlwaysDecodable
<1>1. ServedInv => AlwaysDecodable
  BY DecodableIs, ZenonT(60) DEF ServedInv
<1> QED
  BY InitInv, NextInv, InitServed, NextServed, <1>1, PTL DEF Spec

\* A sequence always samples from the logits of its own tokens.
THEOREM SamplesItsOwnHolds == Spec => []SamplesItsOwn
<1>1. ServedInv => SamplesItsOwn
  BY OwnLogits DEF ServedInv
<1> QED
  BY InitInv, NextInv, InitServed, NextServed, <1>1, PTL DEF Spec
============================================================================
