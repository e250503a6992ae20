-------------------------- MODULE ModelQueueProofs --------------------------
(***************************************************************************)
(* Proofs about two parts of a worker.  For every set of models, budget    *)
(* and policy, it never infers on a model the backend does not hold, the   *)
(* memory in use is accounted for and within the budget, and evicting      *)
(* always makes room, whatever loads and unloads fail or throw.  For any   *)
(* threads, values and capacity, no wakeup of its BoundedQueue is lost and *)
(* the queue implements the channel Fifo.                                  *)
(***************************************************************************)
EXTENDS ModelManager, BoundedQueue, FiniteSetTheorems, TLAPS

-----------------------------------------------------------------------------
(* The model manager *)

Entry == [state : ModelState, last_used : Nat, use_count : Nat, previously_loaded : BOOLEAN]

\* The model can be used in the backend.
Usable(m) == m \in Profiles /\ backend[m] = "Resident"

\* A resident entry is usable, the model being evicted still is until the
\* backend has unloaded it, and so is the model that was just made resident.
IInv ==
  /\ entries \in [Models -> Entry]
  /\ backend \in [Models -> ModelState]
  /\ touch_counter \in Nat
  /\ id \in Models /\ victim \in Models
  /\ \A m \in Models : entries[m].state = "Resident" => Usable(m)
  /\ stage = "unload" => Usable(victim) /\ entries[victim].state = "Evicting"
  /\ stage = "infer" => Usable(id)
  /\ InfersOnResident

\* touch() keeps an entry's state.
LEMMA TouchedEntry ==
  ASSUME touch_counter \in Nat, NEW e \in Entry
  PROVE  Touched(e) \in Entry /\ Touched(e).state = e.state
<1>1. [e EXCEPT !.last_used = touch_counter + 1] \in Entry
  BY DEF Entry
<1> DEFINE f == [e EXCEPT !.last_used = touch_counter + 1]
<1>2. f.use_count = e.use_count /\ f.state = e.state
  BY DEF Entry
<1>3. e.use_count + 1 \in Nat
  BY DEF Entry
<1> HIDE DEF f
<1>4. [f EXCEPT !.use_count = e.use_count + 1] \in Entry
      /\ [f EXCEPT !.use_count = e.use_count + 1].state = f.state
  BY <1>1, <1>2, <1>3, Zenon DEF Entry, f
<1>5. Touched(e) = [f EXCEPT !.use_count = e.use_count + 1]
  BY DEF Touched, f
<1> QED
  BY <1>2, <1>4, <1>5

\* The initial state satisfies the invariant: nothing is resident.
LEMMA InitInv == ModelInit => IInv
<1> SUFFICES ASSUME ModelInit PROVE IInv
  OBVIOUS
<1>1. id \in Models /\ victim \in Models
  BY ConfigAssumption DEF ModelInit
<1>2. InfersOnResident
  BY DEF ModelInit, InfersOnResident
<1> QED
  BY <1>1, <1>2 DEF ModelInit, IInv, Usable, Entry, ModelState

\* The invariant is inductive.
LEMMA NextInv == IInv /\ [ModelNext]_modelVars => IInv'
<1> SUFFICES ASSUME IInv, [ModelNext]_modelVars PROVE IInv'
  OBVIOUS
<1> USE DEF IInv, Usable
<1>0. touch_counter + 1 \in Nat
  OBVIOUS
<1>1. ASSUME NEW m \in Models, Hit(m) PROVE IInv'
  <2>1. entries' = [entries EXCEPT ![m] = Touched(entries[m])] /\ touch_counter' = touch_counter + 1
        /\ stage' = "infer" /\ id' = m /\ UNCHANGED <<backend, victim, results>>
    BY <1>1 DEF Hit, Return
  <2>2. Touched(entries[m]) \in Entry /\ Touched(entries[m]).state = "Resident"
    BY <1>1, TouchedEntry, Zenon DEF Hit
  <2> QED
    BY <1>0, <1>1, <2>1, <2>2, ZenonT(60) DEF Hit, InfersOnResident
<1>2. ASSUME NEW m \in Models, Miss(m) PROVE IInv'
  BY <1>2 DEF Miss, Return, InfersOnResident
<1>3. CASE EvictBegin
  <2>1. InfersOnResident'
    BY <1>3 DEF EvictBegin, InfersOnResident
  <2>2. CASE In({"Resident"}) = {}
    BY <1>3, <2>1, <2>2, Zenon DEF EvictBegin, Return
  <2>3. CASE In({"Resident"}) # {}
    <3>1. victim' \in Models /\ entries[victim'].state = "Resident" /\ stage' = "unload"
      BY <1>3, <2>3 DEF EvictBegin, In
    <3>2. entries' = [entries EXCEPT ![victim'].state = "Evicting"]
          /\ UNCHANGED <<backend, touch_counter, id>>
      BY <1>3, <2>3, Zenon DEF EvictBegin
    <3> QED
      BY <2>1, <3>1, <3>2, ZenonT(60) DEF Entry, ModelState
  <2> QED
    BY <2>2, <2>3
<1>4. CASE Unloaded
  <2>1. backend' = [backend EXCEPT ![victim] = "Unloaded"]
    BY <1>4 DEF Unloaded, unload, Result
  <2> QED
    BY <1>4, <2>1 DEF Unloaded, Return, InfersOnResident, Entry, ModelState
<1>5. CASE UnloadFails
  BY <1>5 DEF UnloadFails, Return, InfersOnResident, Entry, ModelState
<1>6. CASE Reserve
  BY <1>6 DEF Reserve, InfersOnResident, Entry, ModelState
<1>7. CASE Loaded
  <2>1. id \in Profiles
    BY <1>7 DEF Loaded, load, Result
  <2>2. backend' = [backend EXCEPT ![id] = "Resident"]
    BY <1>7, <2>1, Zenon DEF Loaded, load, Result
  <2> DEFINE touched == Touched(entries[id])
             entry == [touched EXCEPT !.state = "Resident", !.previously_loaded = TRUE]
  <2>3. touched \in Entry
    BY TouchedEntry
  <2>4. entry \in Entry
    <3> HIDE DEF touched
    <3>1. [touched EXCEPT !.state = "Resident"] \in Entry
      BY <2>3, Zenon DEF Entry, ModelState
    <3> QED
      BY <3>1, Zenon DEF Entry
  <2>5. entries' = [entries EXCEPT ![id] = entry] /\ touch_counter' = touch_counter + 1
        /\ stage' = "infer" /\ UNCHANGED <<id, victim, results>>
    BY <1>7, Zenon DEF Loaded, Return
  <2> HIDE DEF entry
  <2> QED
    BY <1>0, <2>1, <2>2, <2>4, <2>5, Zenon DEF InfersOnResident, ModelState
<1>8. CASE LoadFails
  <2>1. \E s \in ModelState : backend' = [backend EXCEPT ![id] = s]
    BY <1>8 DEF LoadFails, load, Result, ModelState
  <2> QED
    BY <1>8, <2>1 DEF LoadFails, Return, InfersOnResident, Entry, ModelState
<1>9. CASE Throws
  BY <1>9 DEF Throws, Return, InfersOnResident
<1>10. CASE Infer
  <2> DEFINE batch == [i \in 1..batch_size |-> id]
  <2>1. results' = infer_batch(backend, batch) /\ id \in Profiles /\ backend[id] = "Resident"
    BY <1>10, Zenon DEF Infer
  <2>2. DOMAIN batch = 1..batch_size /\ \A i \in DOMAIN batch : batch[i] = id
    OBVIOUS
  <2>3. ASSUME batch # <<>> PROVE 1 \in DOMAIN batch
    BY <2>3, ConfigAssumption
  <2>4. \A i \in DOMAIN results' : results'[i] \in {"None", "InferenceFailed"}
    <3> HIDE DEF batch
    <3> QED
      BY <2>1, <2>2, <2>3 DEF infer_batch
  <2> QED
    BY <1>10, <2>4, Zenon DEF Infer, InfersOnResident
<1>11. CASE UNCHANGED modelVars
  BY <1>11 DEF modelVars, InfersOnResident
<1> QED
  BY <1>1, <1>2, <1>3, <1>4, <1>5, <1>6, <1>7, <1>8, <1>9, <1>10, <1>11, ZenonT(60) DEF ModelNext

\* A batch is inferred only on a model the backend holds: ensure_resident()
\* never returns a success for one that was evicted, failed to load or was in
\* the hands of a call that threw.
THEOREM InfersOnResidentHolds == ModelSpec => []InfersOnResident
<1>1. IInv => InfersOnResident
  BY DEF IInv
<1> QED
  BY InitInv, NextInv, <1>1, PTL DEF ModelSpec

-----------------------------------------------------------------------------
(* The memory *)

Held == In({"Loading", "Resident", "Evicting"})

\* What is in use covers the models in the backend and, on top of them, the
\* one being loaded, even if the backend holds it already after an exception.
Covered ==
  /\ used \in Nat /\ used <= budget
  /\ IsFiniteSet(Bytes(InBackend))
  /\ Memory(InBackend) + (IF stage = "load" THEN estimated_memory_bytes[id] ELSE 0) <= used

\* The model asked for fits and is not resident, and without exceptions the
\* entries on their way in or out are the ones being worked on.
Accounted ==
  /\ stage \in {"free", "unload"} => entries[id].state # "Resident"
  /\ stage \in {"free", "unload", "load"} => estimated_memory_bytes[id] <= budget
  /\ ~thrown =>
       /\ IsFiniteSet(Bytes(Held))
       /\ used = Memory(Held)
       /\ \A m \in Models : entries[m].state = "Loading" <=> stage = "load" /\ m = id
       /\ \A m \in Models : entries[m].state = "Evicting" <=> stage = "unload" /\ m = victim
       /\ status \notin {"NoCandidates", "OverRelease"}

\* Whatever was thrown, what is in use covers the models held, and the model
\* being loaded is one of them.
Kept ==
  /\ IsFiniteSet(Bytes(Held)) /\ Memory(Held) <= used
  /\ stage = "load" => entries[id].state = "Loading"
  /\ status # "OverRelease"

MInv == Covered /\ Accounted /\ Kept

\* A model more: its bytes are added.
LEMMA AddModel ==
  ASSUME NEW S \in SUBSET Models, NEW m \in Models, IsFiniteSet(Bytes(S))
  PROVE  /\ IsFiniteSet(Bytes(S \cup {m}))
         /\ m \notin S => Memory(S \cup {m}) = Memory(S) + estimated_memory_bytes[m]
<1> DEFINE k == estimated_memory_bytes[m]
           f == [b \in 1..k |-> <<m, b>>]
           own == {m} \X (1..k)
<1>1. k \in Nat
  BY ConfigAssumption
<1> HIDE DEF k
<1>2. IsFiniteSet(1..k) /\ Cardinality(1..k) = k
  BY <1>1, FS_Interval
<1>3. f \in Bijection(1..k, own)
  <2>1. f \in [1..k -> own]
    OBVIOUS
  <2>2. \A b, c \in 1..k : f[b] = f[c] => b = c
    OBVIOUS
  <2>3. \A t \in own : \E b \in 1..k : f[b] = t
    OBVIOUS
  <2> QED
    BY <2>1, <2>2, <2>3, Zenon DEF Bijection, Injection, Surjection, IsInjective
<1>4. IsFiniteSet(own) /\ Cardinality(own) = k
  BY <1>2, <1>3, FS_Bijection DEF ExistsBijection
<1>5. Bytes(S \cup {m}) = Bytes(S) \cup own
  BY DEF Bytes, k
<1>6. m \notin S => Bytes(S) \cap own = {}
  BY DEF Bytes
<1> HIDE DEF own
<1>7. IsFiniteSet(Bytes(S) \cup own)
      /\ Cardinality(Bytes(S) \cup own)
         = Cardinality(Bytes(S)) + Cardinality(own) - Cardinality(Bytes(S) \cap own)
  BY <1>4, FS_Union
<1>8. Cardinality(Bytes(S)) \in Nat
  BY FS_CardinalityType
<1>9. Cardinality({}) = 0
  BY FS_EmptySet
<1>10. ASSUME m \notin S PROVE Cardinality(Bytes(S \cup {m})) = Cardinality(Bytes(S)) + k
  <2>1. Cardinality(Bytes(S \cup {m})) = Cardinality(Bytes(S)) + k - 0
    BY <1>4, <1>5, <1>6, <1>7, <1>9, <1>10, ZenonT(60)
  <2> QED
    BY <1>1, <1>8, <2>1
<1> QED
  BY <1>5, <1>7, <1>10, Zenon DEF Memory, k

\* A model less: its bytes are given back.
LEMMA RemoveModel ==
  ASSUME NEW S \in SUBSET Models, NEW m \in S, IsFiniteSet(Bytes(S))
  PROVE  /\ IsFiniteSet(Bytes(S \ {m}))
         /\ Memory(S \ {m}) \in Nat
         /\ Memory(S) = Memory(S \ {m}) + estimated_memory_bytes[m]
<1> DEFINE R == S \ {m}
<1>1. Bytes(R) \in SUBSET Bytes(S)
  BY DEF Bytes
<1>2. IsFiniteSet(Bytes(R))
  BY <1>1, FS_Subset, Zenon
<1>3. R \in SUBSET Models /\ m \in Models /\ m \notin R /\ R \cup {m} = S
  OBVIOUS
<1> HIDE DEF R
<1>4. Memory(S) = Memory(R) + estimated_memory_bytes[m]
  BY <1>2, <1>3, AddModel, Zenon
<1>5. Memory(R) \in Nat
  BY <1>2, FS_CardinalityType, Zenon DEF Memory
<1> QED
  BY <1>2, <1>4, <1>5, Zenon DEF R
\* Nothing is in memory at first.
LEMMA InitMemory == ModelInit => MInv
<1> SUFFICES ASSUME ModelInit PROVE MInv
  OBVIOUS
<1>1. Bytes({}) = {} /\ IsFiniteSet({}) /\ Cardinality({}) = 0
  BY FS_EmptySet, Zenon DEF Bytes
<1>2. InBackend = {} /\ Held = {}
  BY DEF ModelInit, InBackend, Held, In
<1>3. IsFiniteSet(Bytes(InBackend)) /\ Memory(InBackend) = 0
      /\ IsFiniteSet(Bytes(Held)) /\ Memory(Held) = 0
  BY <1>1, <1>2, Zenon DEF Memory
<1>4. \A m \in Models : entries[m].state = "Unloaded"
  BY DEF ModelInit
<1> QED
  BY <1>3, <1>4, ConfigAssumption DEF ModelInit, MInv, Covered, Accounted, Kept

\* The memory in use always covers the backend's models: a reservation is made
\* before a load and given back only after an unload or a failed load.
LEMMA NextCovered == IInv /\ Covered /\ [ModelNext]_modelVars => Covered'
<1> SUFFICES ASSUME IInv, Covered, [ModelNext]_modelVars PROVE Covered'
  OBVIOUS
<1>1. \A m \in Models : estimated_memory_bytes[m] \in Nat
  BY ConfigAssumption
<1>2. Memory(InBackend) \in Nat
  BY FS_CardinalityType DEF Covered, Memory
<1>3. InBackend \in SUBSET Models /\ id \in Models /\ victim \in Models
  BY DEF IInv, InBackend
<1>4. ASSUME UNCHANGED <<backend, used>>, stage' # "load" PROVE Covered'
  <2>1. InBackend' = InBackend
    BY <1>4 DEF InBackend
  <2>2. Memory(InBackend) <= used
    BY <1>1, <1>2, <1>3 DEF Covered
  <2> QED
    BY <1>2, <1>4, <2>1, <2>2 DEF Covered
<1>5. ASSUME NEW m \in Models, Hit(m) PROVE Covered'
  BY <1>4, <1>5, Zenon DEF Hit, Return
<1>6. ASSUME NEW m \in Models, Miss(m) PROVE Covered'
  BY <1>4, <1>6 DEF Miss, Return
<1>7. CASE EvictBegin
  BY <1>4, <1>7, Zenon DEF EvictBegin, Return
<1>8. CASE Unloaded
  <2>1. victim \in InBackend /\ backend' = [backend EXCEPT ![victim] = "Unloaded"] /\ stage' # "load"
    BY <1>8, Zenon DEF Unloaded, unload, Result, IInv, Usable, InBackend, Return
  <2>2. InBackend' = InBackend \ {victim}
    BY <2>1, Zenon DEF InBackend, IInv
  <2>3. /\ IsFiniteSet(Bytes(InBackend \ {victim}))
        /\ Memory(InBackend \ {victim}) \in Nat
        /\ Memory(InBackend) = Memory(InBackend \ {victim}) + estimated_memory_bytes[victim]
    BY <1>3, <2>1, RemoveModel, Zenon DEF Covered
  <2>4. used' = used \/ used' = used - estimated_memory_bytes[victim]
    BY <1>8 DEF Unloaded
  <2>5. Memory(InBackend) <= used /\ used \in Nat /\ used <= budget
    BY <1>2, <1>8 DEF Covered, Unloaded
  <2>6. used' \in Nat /\ used' <= budget /\ Memory(InBackend \ {victim}) <= used'
    BY <1>1, <1>3, <2>3, <2>4, <2>5, ConfigAssumption
  <2> QED
    BY <2>1, <2>2, <2>3, <2>6 DEF Covered
<1>9. CASE UnloadFails
  BY <1>4, <1>9, Zenon DEF UnloadFails, Return
<1>10. CASE Reserve
  <2>1. InBackend' = InBackend /\ id' = id /\ stage' = "load"
    BY <1>10 DEF Reserve, InBackend
  <2>2. used' = used + estimated_memory_bytes[id] /\ estimated_memory_bytes[id] <= budget - used
    BY <1>10 DEF Reserve, can_reserve
  <2>3. used \in Nat /\ Memory(InBackend) <= used
    BY <1>2, <1>10 DEF Covered, Reserve
  <2>4. used' \in Nat /\ used' <= budget
        /\ Memory(InBackend) + estimated_memory_bytes[id] <= used'
    BY <1>1, <1>2, <1>3, <2>2, <2>3, ConfigAssumption
  <2> QED
    BY <2>1, <2>4, Zenon DEF Covered
<1>11. CASE Loaded
  <2>1. id \in Profiles
    BY <1>11, Zenon DEF Loaded, load, Result
  <2>2. backend' = [backend EXCEPT ![id] = "Resident"]
    <3>1. backend' = backend \/ backend' = [backend EXCEPT ![id] = "Resident"]
      BY <1>11, Zenon DEF Loaded, load, Result
    <3>2. backend' = backend => backend[id] = "Resident"
      BY <1>3, <1>11, <2>1, Zenon DEF Loaded, load, Result, IInv
    <3> QED
      BY <3>1, <3>2, Zenon DEF IInv
  <2>3. InBackend' = InBackend \cup {id} /\ used' = used /\ stage' # "load"
    BY <1>3, <1>11, <2>2, Zenon DEF InBackend, Loaded, Return, IInv
  <2>4. IsFiniteSet(Bytes(InBackend \cup {id}))
        /\ (id \notin InBackend =>
              Memory(InBackend \cup {id}) = Memory(InBackend) + estimated_memory_bytes[id])
    BY <1>3, AddModel, Zenon DEF Covered
  <2>5. id \in InBackend => InBackend \cup {id} = InBackend
    OBVIOUS
  <2>6. Memory(InBackend) + estimated_memory_bytes[id] <= used /\ used \in Nat /\ used <= budget
    BY <1>11 DEF Loaded, Covered
  <2>7. Memory(InBackend \cup {id}) <= used
    <3>1. CASE id \in InBackend
      <4>1. Memory(InBackend \cup {id}) = Memory(InBackend)
        BY <2>5, <3>1, Zenon
      <4> QED
        BY <1>1, <1>2, <1>3, <2>6, <4>1
    <3>2. CASE id \notin InBackend
      BY <2>4, <2>6, <3>2, Zenon
    <3> QED
      BY <3>1, <3>2, Zenon
  <2> QED
    <3>1. Memory(InBackend') = Memory(InBackend \cup {id})
          /\ IsFiniteSet(Bytes(InBackend'))
      BY <2>3, <2>4, Zenon
    <3>2. Memory(InBackend \cup {id}) \in Nat
      BY <2>4, FS_CardinalityType, Zenon DEF Memory
    <3> QED
      BY <2>3, <2>6, <2>7, <3>1, <3>2 DEF Covered
<1>12. CASE LoadFails
  <2>1. \/ backend' = backend
        \/ \E s \in {"Unloaded", "Failed"} : backend' = [backend EXCEPT ![id] = s]
    BY <1>12, Zenon DEF LoadFails, load, Result
  <2>2. InBackend' = InBackend \/ InBackend' = InBackend \ {id}
    BY <1>3, <2>1, Zenon DEF InBackend, IInv
  <2>3. IsFiniteSet(Bytes(InBackend')) /\ Memory(InBackend') \in Nat
        /\ Memory(InBackend') <= Memory(InBackend)
    <3>1. CASE InBackend' = InBackend
      BY <1>2, <3>1 DEF Covered
    <3>2. CASE InBackend' = InBackend \ {id} /\ id \in InBackend
      BY <1>1, <1>2, <1>3, <3>2, RemoveModel DEF Covered
    <3> QED
      BY <2>2, <3>1, <3>2, Zenon
  <2>4. used' = used - estimated_memory_bytes[id] /\ stage' # "load"
        /\ Memory(InBackend) + estimated_memory_bytes[id] <= used /\ used \in Nat /\ used <= budget
    BY <1>12, Zenon DEF LoadFails, Return, Covered
  <2>5. used' \in Nat /\ used' <= budget /\ Memory(InBackend') <= used'
    BY <1>1, <1>2, <1>3, <2>3, <2>4, ConfigAssumption
  <2> QED
    BY <2>3, <2>4, <2>5 DEF Covered
<1>13. CASE Throws
  BY <1>4, <1>13, Zenon DEF Throws, Return
<1>14. CASE Infer
  BY <1>4, <1>14, Zenon DEF Infer
<1>15. CASE UNCHANGED modelVars
  BY <1>15, Zenon DEF modelVars, Covered, InBackend, Memory, Bytes
<1> QED
  BY <1>5, <1>6, <1>7, <1>8, <1>9, <1>10, <1>11, <1>12, <1>13, <1>14, <1>15, ZenonT(60) DEF ModelNext

\* Without exceptions the memory in use is exactly that of the models held, so
\* evicting them makes room for any model that fits.
LEMMA NextAccounted == IInv /\ Covered /\ Accounted /\ [ModelNext]_modelVars => Accounted'
<1> SUFFICES ASSUME IInv, Covered, Accounted, [ModelNext]_modelVars PROVE Accounted'
  OBVIOUS
<1>1. \A m \in Models : estimated_memory_bytes[m] \in Nat
  BY ConfigAssumption, Zenon
<1>2. entries \in [Models -> Entry] /\ id \in Models /\ victim \in Models
  BY DEF IInv
<1>3. Held \in SUBSET Models /\ \A m \in Models :
        m \in Held <=> entries[m].state \in {"Loading", "Resident", "Evicting"}
  BY Zenon DEF Held, In
<1>4. Held' \in SUBSET Models /\ \A m \in Models :
        m \in Held' <=> entries'[m].state \in {"Loading", "Resident", "Evicting"}
  BY Zenon DEF Held, In
<1>5. ASSUME NEW m \in Models, Hit(m) PROVE Accounted'
  <2>1. /\ entries' = [entries EXCEPT ![m] = Touched(entries[m])]
        /\ stage = "idle" /\ stage' = "infer" /\ used' = used /\ thrown' = thrown /\ status' = "ok"
    BY <1>5, Zenon DEF Hit, Return
  <2>2. Touched(entries[m]).state = entries[m].state
    BY <1>2, TouchedEntry, Zenon DEF IInv
  <2>3. \A l \in Models : entries'[l].state = entries[l].state
    BY <1>2, <2>1, <2>2, Zenon
  <2>4. Held' = Held
    BY <1>3, <1>4, <2>3, Zenon
  <2> QED
    BY <2>1, <2>3, <2>4, Zenon DEF Accounted
<1>6. ASSUME NEW m \in Models, Miss(m) PROVE Accounted'
  <2>1. Held' = Held
    BY <1>6, Zenon DEF Miss, Held, In
  <2>2. stage = "idle" /\ id' = m /\ entries' = entries /\ used' = used /\ thrown' = thrown
        /\ entries[m].state # "Resident"
    BY <1>6, Zenon DEF Miss
  <2>3. stage' = "idle" \/ (stage' = "free" /\ estimated_memory_bytes[m] <= budget)
    BY <1>1, <1>6, ConfigAssumption DEF Miss, Return, TooLarge
  <2>4. status' = status \/ status' \in {"ModelNotFound", "ModelTooLarge"}
    BY <1>6 DEF Miss, Return
  <2> QED
    BY <2>1, <2>2, <2>3, <2>4, Zenon DEF Accounted
<1>7. CASE EvictBegin
  <2>1. stage = "free" /\ ~can_reserve(estimated_memory_bytes[id]) /\ used' = used /\ thrown' = thrown
        /\ id' = id
    BY <1>7, Zenon DEF EvictBegin
  <2>2. CASE In({"Resident"}) = {}
    <3>1. entries' = entries /\ victim' = victim /\ stage' = "idle" /\ status' = "NoCandidates"
      BY <1>7, <2>2, Zenon DEF EvictBegin, Return
    <3>2. ASSUME ~thrown PROVE FALSE
      <4>1. \A m \in Models : entries[m].state \notin {"Loading", "Resident", "Evicting"}
        BY <2>1, <2>2, <3>2, Zenon DEF Accounted, In
      <4>2. Held = {}
        BY <1>3, <4>1, Zenon
      <4>3. Bytes({}) = {} /\ Cardinality({}) = 0
        BY FS_EmptySet, Zenon DEF Bytes
      <4>4. used = 0
        BY <3>2, <4>2, <4>3, Zenon DEF Accounted, Memory
      <4> QED
        BY <1>1, <1>2, <2>1, <4>4, ConfigAssumption DEF Accounted, can_reserve
    <3> QED
      BY <2>1, <3>1, <3>2, Zenon DEF Accounted
  <2>3. CASE In({"Resident"}) # {}
    <3>1. victim' \in Models /\ entries[victim'].state = "Resident" /\ stage' = "unload"
      BY <1>7, <2>3, Zenon DEF EvictBegin, In
    <3>2. entries' = [entries EXCEPT ![victim'].state = "Evicting"] /\ status' = status
      BY <1>7, <2>3 DEF EvictBegin
    <3>3. \A m \in Models :
            entries'[m].state = IF m = victim' THEN "Evicting" ELSE entries[m].state
      BY <1>2, <3>1, <3>2, Zenon DEF Entry
    <3>4. Held' = Held
      BY <1>3, <1>4, <3>1, <3>3, Zenon
    <3>5. victim' # id
      BY <2>1, <3>1, Zenon DEF Accounted
    <3> QED
      BY <1>2, <2>1, <3>1, <3>2, <3>3, <3>4, <3>5 DEF Accounted
  <2> QED
    BY <2>2, <2>3
<1>8. CASE Unloaded
  <2>1. stage = "unload" /\ entries' = [entries EXCEPT ![victim].state = "Unloaded"]
        /\ thrown' = thrown /\ id' = id /\ victim' = victim
    BY <1>8 DEF Unloaded
  <2>2. \A m \in Models : entries'[m].state = IF m = victim THEN "Unloaded" ELSE entries[m].state
    BY <1>2, <2>1 DEF Entry
  <2>3. entries[victim].state = "Evicting"
    BY <2>1, Zenon DEF IInv
  <2>4. Held' = Held \ {victim} /\ victim \in Held
    BY <1>2, <1>3, <1>4, <2>2, <2>3, Zenon
  <2>5. stage' = "idle" \/ stage' = "free"
    BY <1>8, Zenon DEF Unloaded, Return
  <2>6. ASSUME ~thrown
        PROVE  /\ IsFiniteSet(Bytes(Held')) /\ used' = Memory(Held')
               /\ stage' = "free" /\ status' = status
    <3>1. IsFiniteSet(Bytes(Held)) /\ used = Memory(Held)
      BY <2>6, Zenon DEF Accounted
    <3>2. IsFiniteSet(Bytes(Held')) /\ Memory(Held') \in Nat
          /\ Memory(Held) = Memory(Held') + estimated_memory_bytes[victim]
      BY <1>3, <2>4, <3>1, RemoveModel, Zenon
    <3>3. ~(estimated_memory_bytes[victim] > used)
      BY <1>1, <1>2, <3>1, <3>2
    <3>4. used' = used - estimated_memory_bytes[victim] /\ stage' = "free" /\ status' = status
      BY <1>8, <3>3 DEF Unloaded
    <3> QED
      BY <1>1, <1>2, <3>1, <3>2, <3>4
  <2>7. stage' # "load" /\ stage' # "unload" /\ (stage' = "free" => entries'[id].state # "Resident")
    BY <1>2, <2>1, <2>2, <2>5 DEF Accounted
  <2>8. ~thrown => \A m \in Models : entries'[m].state # "Loading" /\ entries'[m].state # "Evicting"
    BY <2>1, <2>2 DEF Accounted
  <2> QED
    BY <2>1, <2>6, <2>7, <2>8, Zenon DEF Accounted
<1>9. CASE UnloadFails
  <2>1. stage = "unload" /\ entries' = [entries EXCEPT ![victim].state = "Resident"]
        /\ thrown' = thrown /\ used' = used /\ stage' = "idle" /\ status' = "UnloadFailed"
    BY <1>9 DEF UnloadFails, Return
  <2>2. \A m \in Models : entries'[m].state = IF m = victim THEN "Resident" ELSE entries[m].state
    BY <1>2, <2>1 DEF Entry
  <2>3. entries[victim].state = "Evicting"
    BY <2>1, Zenon DEF IInv
  <2>4. Held' = Held
    BY <1>3, <1>4, <2>2, <2>3, Zenon
  <2> QED
    BY <2>1, <2>2, <2>4 DEF Accounted
<1>10. CASE Reserve
  <2>1. stage = "free" /\ entries' = [entries EXCEPT ![id].state = "Loading"] /\ id' = id
        /\ victim' = victim /\ thrown' = thrown /\ status' = status /\ stage' = "load"
        /\ used' = used + estimated_memory_bytes[id]
    BY <1>10 DEF Reserve
  <2>2. \A m \in Models : entries'[m].state = IF m = id THEN "Loading" ELSE entries[m].state
    BY <1>2, <2>1, Zenon DEF Entry
  <2>3. ASSUME ~thrown PROVE IsFiniteSet(Bytes(Held')) /\ used' = Memory(Held')
    <3>1. id \notin Held
      BY <1>2, <1>3, <2>1, <2>3 DEF Accounted
    <3>2. Held' = Held \cup {id}
      BY <1>2, <1>3, <1>4, <2>2, Zenon
    <3> QED
      BY <1>2, <1>3, <2>1, <2>3, <3>1, <3>2, AddModel, ZenonT(60) DEF Accounted
  <2> QED
    BY <2>1, <2>2, <2>3 DEF Accounted
<1>11. CASE Loaded
  <2>1. stage = "load" /\ thrown' = thrown /\ used' = used /\ stage' = "infer" /\ status' = "ok" /\ id' = id
        /\ entries' = [entries EXCEPT ![id] =
              [Touched(entries[id]) EXCEPT !.state = "Resident", !.previously_loaded = TRUE]]
    BY <1>11, Zenon DEF Loaded, Return
  <2>2. Touched(entries[id]) \in Entry
    BY <1>2, TouchedEntry DEF IInv
  <2>3. \A m \in Models : entries'[m].state = IF m = id THEN "Resident" ELSE entries[m].state
    BY <1>2, <2>1, <2>2, Zenon DEF Entry
  <2>4. ~thrown => Held' = Held
    <3>1. ~thrown => entries[id].state = "Loading"
      BY <1>2, <2>1, Zenon DEF Accounted
    <3> QED
      BY <1>3, <1>4, <2>3, <3>1, Zenon
  <2> QED
    BY <2>1, <2>3, <2>4 DEF Accounted
<1>12. CASE LoadFails
  <2>1. stage = "load" /\ entries' = [entries EXCEPT ![id].state = "Failed"] /\ thrown' = thrown
        /\ used' = used - estimated_memory_bytes[id] /\ stage' = "idle" /\ status' = "ModelLoadFailed"
    BY <1>12 DEF LoadFails, Return
  <2>2. \A m \in Models : entries'[m].state = IF m = id THEN "Failed" ELSE entries[m].state
    BY <1>2, <2>1, Zenon DEF Entry
  <2>3. ASSUME ~thrown PROVE IsFiniteSet(Bytes(Held')) /\ used' = Memory(Held')
    <3>1. id \in Held
      BY <1>2, <1>3, <2>1, <2>3, Zenon DEF Accounted
    <3>2. Held' = Held \ {id}
      BY <1>2, <1>3, <1>4, <2>2, Zenon
    <3>3. IsFiniteSet(Bytes(Held')) /\ Memory(Held') \in Nat
          /\ Memory(Held) = Memory(Held') + estimated_memory_bytes[id]
      BY <1>3, <2>3, <3>1, <3>2, RemoveModel, Zenon DEF Accounted
    <3> QED
      BY <1>1, <1>2, <2>1, <2>3, <3>3 DEF Accounted
  <2> QED
    BY <2>1, <2>2, <2>3 DEF Accounted
<1>13. CASE Throws
  BY <1>13, Zenon DEF Throws, Return, Accounted
<1>14. CASE Infer
  BY <1>14, ZenonT(60) DEF Infer, Accounted, Held, In, Memory, Bytes
<1>15. CASE UNCHANGED modelVars
  BY <1>15 DEF modelVars, Accounted, Held, In, Memory, Bytes
<1> QED
  BY <1>5, <1>6, <1>7, <1>8, <1>9, <1>10, <1>11, <1>12, <1>13, <1>14, <1>15, ZenonT(60) DEF ModelNext

\* Nothing is given back that is still held, whatever was thrown before, so
\* release() never refuses either.
LEMMA NextKept == IInv /\ Covered /\ Kept /\ [ModelNext]_modelVars => Kept'
<1> SUFFICES ASSUME IInv, Covered, Kept, [ModelNext]_modelVars PROVE Kept'
  OBVIOUS
<1>1. \A m \in Models : estimated_memory_bytes[m] \in Nat
  BY ConfigAssumption, Zenon
<1>2. entries \in [Models -> Entry] /\ id \in Models /\ victim \in Models /\ used \in Nat
  BY DEF IInv, Covered
<1>3. Held \in SUBSET Models /\ \A m \in Models :
        m \in Held <=> entries[m].state \in {"Loading", "Resident", "Evicting"}
  BY Zenon DEF Held, In
<1>4. Held' \in SUBSET Models /\ \A m \in Models :
        m \in Held' <=> entries'[m].state \in {"Loading", "Resident", "Evicting"}
  BY Zenon DEF Held, In
<1>5. IsFiniteSet(Bytes(Held)) /\ Memory(Held) <= used /\ Memory(Held) \in Nat
  BY FS_CardinalityType, Zenon DEF Kept, Memory
<1>6. ASSUME Held' = Held, used' = used, stage' # "load", status' # "OverRelease" PROVE Kept'
  BY <1>5, <1>6, Zenon DEF Kept
<1>7. ASSUME NEW m \in Models, Hit(m) PROVE Kept'
  <2>1. /\ entries' = [entries EXCEPT ![m] = Touched(entries[m])]
        /\ stage' = "infer" /\ used' = used /\ status' = "ok"
    BY <1>7, Zenon DEF Hit, Return
  <2>2. Touched(entries[m]).state = entries[m].state
    BY <1>2, TouchedEntry, Zenon DEF IInv
  <2>3. \A l \in Models : entries'[l].state = entries[l].state
    BY <1>2, <2>1, <2>2, Zenon
  <2>4. Held' = Held
    BY <1>3, <1>4, <2>3, Zenon
  <2> QED
    BY <1>6, <2>1, <2>4, Zenon
<1>8. ASSUME NEW m \in Models, Miss(m) PROVE Kept'
  <2>1. Held' = Held /\ used' = used
    BY <1>8, Zenon DEF Miss, Held, In
  <2>2. stage' # "load"
    BY <1>8 DEF Miss, Return
  <2>3. status' # "OverRelease"
    BY <1>8 DEF Miss, Return, Kept
  <2> QED
    BY <1>6, <2>1, <2>2, <2>3, Zenon
<1>9. CASE EvictBegin
  <2>1. CASE In({"Resident"}) = {}
    <3>1. entries' = entries /\ used' = used /\ stage' = "idle" /\ status' = "NoCandidates"
      BY <1>9, <2>1, Zenon DEF EvictBegin, Return
    <3>2. Held' = Held
      BY <3>1, Zenon DEF Held, In
    <3> QED
      BY <1>6, <3>1, <3>2, Zenon
  <2>2. CASE In({"Resident"}) # {}
    <3>1. victim' \in Models /\ entries[victim'].state = "Resident" /\ stage' = "unload" /\ used' = used
      BY <1>9, <2>2, Zenon DEF EvictBegin, In
    <3>2. entries' = [entries EXCEPT ![victim'].state = "Evicting"] /\ status' = status
      BY <1>9, <2>2 DEF EvictBegin
    <3>3. \A m \in Models :
            entries'[m].state = IF m = victim' THEN "Evicting" ELSE entries[m].state
      BY <1>2, <3>1, <3>2, Zenon DEF Entry
    <3>4. Held' = Held
      BY <1>3, <1>4, <3>1, <3>3, Zenon
    <3> QED
      BY <1>6, <3>1, <3>2, <3>4, Zenon DEF Kept
  <2> QED
    BY <2>1, <2>2, Zenon
<1>10. CASE Unloaded
  <2>1. stage = "unload" /\ entries' = [entries EXCEPT ![victim].state = "Unloaded"]
    BY <1>10, Zenon DEF Unloaded
  <2>2. \A m \in Models : entries'[m].state = IF m = victim THEN "Unloaded" ELSE entries[m].state
    BY <1>2, <2>1 DEF Entry
  <2>3. entries[victim].state = "Evicting"
    BY <2>1, Zenon DEF IInv
  <2>4. Held' = Held \ {victim} /\ victim \in Held
    BY <1>2, <1>3, <1>4, <2>2, <2>3, Zenon
  <2>5. IsFiniteSet(Bytes(Held')) /\ Memory(Held') \in Nat
        /\ Memory(Held) = Memory(Held') + estimated_memory_bytes[victim]
    BY <1>3, <1>5, <2>4, RemoveModel, Zenon
  <2>6. ~(estimated_memory_bytes[victim] > used)
    BY <1>1, <1>2, <1>5, <2>5
  <2>7. used' = used - estimated_memory_bytes[victim] /\ stage' = "free" /\ status' = status
    BY <1>10, <2>6, Zenon DEF Unloaded
  <2>8. Memory(Held') <= used'
    BY <1>1, <1>2, <1>5, <2>5, <2>7
  <2> QED
    BY <2>5, <2>7, <2>8, Zenon DEF Kept
<1>11. CASE UnloadFails
  <2>1. stage = "unload" /\ entries' = [entries EXCEPT ![victim].state = "Resident"]
        /\ used' = used /\ stage' = "idle" /\ status' = "UnloadFailed"
    BY <1>11 DEF UnloadFails, Return
  <2>2. \A m \in Models : entries'[m].state = IF m = victim THEN "Resident" ELSE entries[m].state
    BY <1>2, <2>1 DEF Entry
  <2>3. entries[victim].state = "Evicting"
    BY <2>1, Zenon DEF IInv
  <2>4. Held' = Held
    BY <1>3, <1>4, <2>2, <2>3, Zenon
  <2> QED
    BY <1>6, <2>1, <2>4, Zenon
<1>12. CASE Reserve
  <2>1. entries' = [entries EXCEPT ![id].state = "Loading"] /\ id' = id
        /\ status' = status /\ used' = used + estimated_memory_bytes[id]
    BY <1>12 DEF Reserve
  <2>2. \A m \in Models : entries'[m].state = IF m = id THEN "Loading" ELSE entries[m].state
    BY <1>2, <2>1, Zenon DEF Entry
  <2>3. Held' = Held \cup {id}
    BY <1>2, <1>3, <1>4, <2>2, Zenon
  <2>4. IsFiniteSet(Bytes(Held'))
        /\ (id \notin Held => Memory(Held') = Memory(Held) + estimated_memory_bytes[id])
    BY <1>2, <1>3, <1>5, <2>3, AddModel, Zenon
  <2>5. id \in Held => Memory(Held') = Memory(Held)
    <3>1. id \in Held => Held' = Held
      BY <2>3, Zenon
    <3> QED
      BY <3>1, Zenon
  <2>6. Memory(Held') <= used'
    BY <1>1, <1>2, <1>5, <2>1, <2>4, <2>5
  <2> QED
    BY <1>2, <2>1, <2>2, <2>4, <2>6, Zenon DEF Kept
<1>13. CASE Loaded
  <2>1. stage = "load" /\ used' = used /\ stage' = "infer" /\ status' = "ok"
        /\ entries' = [entries EXCEPT ![id] =
              [Touched(entries[id]) EXCEPT !.state = "Resident", !.previously_loaded = TRUE]]
    BY <1>13, Zenon DEF Loaded, Return
  <2>2. Touched(entries[id]) \in Entry
    BY <1>2, TouchedEntry DEF IInv
  <2>3. \A m \in Models : entries'[m].state = IF m = id THEN "Resident" ELSE entries[m].state
    BY <1>2, <2>1, <2>2, Zenon DEF Entry
  <2>4. entries[id].state = "Loading"
    BY <2>1, Zenon DEF Kept
  <2>5. Held' = Held
    BY <1>3, <1>4, <2>3, <2>4, Zenon
  <2> QED
    BY <1>6, <2>1, <2>5, Zenon
<1>14. CASE LoadFails
  <2>1. stage = "load" /\ entries' = [entries EXCEPT ![id].state = "Failed"]
        /\ used' = used - estimated_memory_bytes[id] /\ stage' = "idle" /\ status' = "ModelLoadFailed"
    BY <1>14 DEF LoadFails, Return
  <2>2. \A m \in Models : entries'[m].state = IF m = id THEN "Failed" ELSE entries[m].state
    BY <1>2, <2>1, Zenon DEF Entry
  <2>3. id \in Held /\ Held' = Held \ {id}
    <3>1. id \in Held
      BY <1>2, <1>3, <2>1, Zenon DEF Kept
    <3>2. Held' = Held \ {id}
      BY <1>2, <1>3, <1>4, <2>2, Zenon
    <3> QED
      BY <3>1, <3>2, Zenon
  <2>4. IsFiniteSet(Bytes(Held')) /\ Memory(Held') \in Nat
        /\ Memory(Held) = Memory(Held') + estimated_memory_bytes[id]
    BY <1>3, <1>5, <2>3, RemoveModel, Zenon
  <2>5. Memory(Held') <= used'
    BY <1>1, <1>2, <1>5, <2>1, <2>4
  <2> QED
    BY <2>1, <2>4, <2>5, Zenon DEF Kept
<1>15. CASE Throws
  <2>1. Held' = Held /\ used' = used /\ stage' = "idle" /\ status' = "exception"
    BY <1>15, Zenon DEF Throws, Return, Held, In
  <2> QED
    BY <1>6, <2>1, Zenon
<1>16. CASE Infer
  <2>1. Held' = Held /\ used' = used /\ stage' = "idle" /\ status' = status
    BY <1>16, Zenon DEF Infer, Held, In
  <2> QED
    BY <1>6, <2>1, Zenon DEF Kept
<1>17. CASE UNCHANGED modelVars
  <2>1. Held' = Held /\ used' = used /\ stage' = stage /\ status' = status
        /\ id' = id /\ entries' = entries
    BY <1>17, Zenon DEF modelVars, Held, In
  <2> QED
    BY <1>5, <2>1, Zenon DEF Kept
<1> QED
  BY <1>7, <1>8, <1>9, <1>10, <1>11, <1>12, <1>13, <1>14, <1>15, <1>16, <1>17, ZenonT(60) DEF ModelNext

\* The invariant holds throughout.
LEMMA MemoryInv == ModelSpec => [](IInv /\ MInv)
<1> QED
  BY InitInv, NextInv, InitMemory, NextCovered, NextAccounted, NextKept, PTL DEF ModelSpec, MInv

\* What the ResourceManager has in use is the memory of the models that are
\* resident or on their way in or out: every reservation is given back exactly
\* once, whichever loads and unloads fail.  After an exception of the backend it is
\* at least that.
THEOREM MemoryAccountedHolds == ModelSpec => []MemoryAccounted
<1>1. MInv => MemoryAccounted
  BY DEF MInv, Accounted, Kept, MemoryAccounted, Held
<1> QED
  BY MemoryInv, <1>1, PTL

\* The backend's models and the one it is loading fit into the budget, also
\* after exceptions that left entries and reservations behind.
THEOREM BudgetRespectedHolds == ModelSpec => []BudgetRespected
<1>1. IInv /\ Covered => BudgetRespected
  <2> SUFFICES ASSUME IInv, Covered PROVE BudgetRespected
    BY Zenon
  <2>1. Memory(InBackend) \in Nat /\ estimated_memory_bytes[id] \in Nat
    BY FS_CardinalityType, ConfigAssumption, Zenon DEF Covered, Memory, IInv
  <2>2. CASE stage # "load"
    <3>1. InBackend \cup (IF stage = "load" THEN {id} ELSE {}) = InBackend
      BY <2>2, Zenon
    <3>2. Memory(InBackend) <= budget
      BY <2>1, <2>2, ConfigAssumption DEF Covered
    <3> QED
      BY <3>1, <3>2, Zenon DEF BudgetRespected
  <2>3. CASE stage = "load"
    <3>1. id \notin InBackend =>
            Memory(InBackend \cup {id}) = Memory(InBackend) + estimated_memory_bytes[id]
      BY AddModel DEF Covered, IInv, InBackend
    <3>2. id \in InBackend => InBackend \cup {id} = InBackend
      BY Zenon
    <3>3. Memory(InBackend) + estimated_memory_bytes[id] <= budget
      BY <2>1, <2>3, ConfigAssumption DEF Covered
    <3>4. Memory(InBackend) <= budget
      BY <2>1, <3>3, ConfigAssumption
    <3>5. Memory(InBackend \cup {id}) <= budget
      BY <3>1, <3>2, <3>3, <3>4, ZenonT(60)
    <3> QED
      BY <2>3, <3>5, Zenon DEF BudgetRespected
  <2> QED
    BY <2>2, <2>3, Zenon
<1> QED
  BY MemoryInv, <1>1, PTL DEF MInv

\* release() never refuses what an eviction gives back, and unless the backend
\* has thrown a model that fits into the budget is never refused for lack of
\* memory.
THEOREM RoomCanBeMadeHolds == ModelSpec => []RoomCanBeMade
<1>1. MInv => RoomCanBeMade
  BY Zenon DEF MInv, Accounted, Kept, RoomCanBeMade
<1> QED
  BY MemoryInv, <1>1, PTL

-----------------------------------------------------------------------------
(* The queue: no wakeup is lost, and it implements the channel Fifo *)

\* Who waits, where, and with which call.
WaitInv ==
  /\ IsFiniteSet(woken) /\ IsFiniteSet(not_full) /\ IsFiniteSet(not_empty)
  /\ woken \cap (not_full \cup not_empty) = {}
  /\ \A t \in not_full : call[t].op \in PushOps
  /\ \A t \in not_empty : call[t].op \in PopOps
  /\ \A t \in woken : call[t].op \in PushOps \cup PopOps
  /\ \A t \in Threads : call[t].op \in PushOps => call[t].value \in Values
  /\ closed => not_full = {} /\ not_empty = {}

QueueInv == QueueTypeOK /\ WaitInv /\ PoppersWoken /\ PushersWoken

-----------------------------------------------------------------------------
(* Lemmas about the operators *)

\* notify_one moves one thread, if there is one, from cv to the awake ones.
LEMMA NotifyMoves ==
  ASSUME NEW cv, NEW cv2, NEW awake, NEW awake2, notify_one(cv, cv2, awake, awake2)
  PROVE  \/ cv = {} /\ cv2 = {} /\ awake2 = awake
         \/ \E u \in cv : cv2 = cv \ {u} /\ awake2 = awake \cup {u}
  BY Zenon DEF notify_one

\* When t stops being awake and one waiting thread, or none, is woken, the
\* number of awake threads in one kind of call changes accordingly.
LEMMA WokenCounts ==
  ASSUME WaitInv, QueueTypeOK,
         NEW t \in Threads, NEW ops,
         \A s \in Threads \ {t} : call'[s] = call[s]
  PROVE  /\ Cardinality(WokenIn(ops)) \in Nat
         /\ woken' = woken \ {t} =>
              Cardinality(WokenIn(ops)') =
                Cardinality(WokenIn(ops)) - (IF t \in WokenIn(ops) THEN 1 ELSE 0)
         /\ \A u \in (not_full \cup not_empty) \ {t} : woken' = (woken \ {t}) \cup {u} =>
              Cardinality(WokenIn(ops)') =
                Cardinality(WokenIn(ops)) - (IF t \in WokenIn(ops) THEN 1 ELSE 0)
                                          + (IF call[u].op \in ops THEN 1 ELSE 0)
<1> DEFINE W == WokenIn(ops)
<1>1. IsFiniteSet(W) /\ Cardinality(W) \in Nat /\ W \subseteq woken
  <2>1. W \in SUBSET woken
    BY Zenon DEF WokenIn
  <2> QED
    BY <2>1, FS_Subset, FS_CardinalityType, Zenon DEF WaitInv
<1>2. IsFiniteSet(W \ {t}) /\ Cardinality(W \ {t}) = Cardinality(W) - (IF t \in W THEN 1 ELSE 0)
  BY <1>1, FS_RemoveElement
<1>3. ASSUME woken' = woken \ {t}
      PROVE  Cardinality(W') = Cardinality(W) - (IF t \in W THEN 1 ELSE 0)
  <2>1. W' = W \ {t}
    BY <1>3, Zenon DEF WokenIn, QueueTypeOK
  <2> QED
    BY <1>2, <2>1, Zenon
<1>4. ASSUME NEW u \in (not_full \cup not_empty) \ {t}, woken' = (woken \ {t}) \cup {u}
      PROVE  Cardinality(W') = Cardinality(W) - (IF t \in W THEN 1 ELSE 0)
                                              + (IF call[u].op \in ops THEN 1 ELSE 0)
  <2>1. u \in Threads /\ u \notin W
    BY <1>1, <1>4, Zenon DEF WaitInv, QueueTypeOK
  <2>2. CASE call[u].op \in ops
    <3>1. W' = (W \ {t}) \cup {u}
      BY <1>4, <2>1, <2>2, Zenon DEF WokenIn, QueueTypeOK
    <3>2. Cardinality(W') = Cardinality(W \ {t}) + 1
      BY <1>2, <2>1, <3>1, FS_AddElement, ZenonT(60)
    <3> QED
      BY <1>1, <1>2, <2>2, <3>2, Zenon
  <2>3. CASE call[u].op \notin ops
    <3>1. W' = W \ {t}
      BY <1>4, <2>1, <2>3 DEF WokenIn, QueueTypeOK
    <3> QED
      BY <1>1, <1>2, <2>3, <3>1
  <2> QED
    BY <2>2, <2>3, Zenon
<1> QED
  BY <1>1, <1>3, <1>4, Zenon

\* A sequence grows by one at the back and shrinks by one at the front.
LEMMA QueueSizes ==
  ASSUME QueueTypeOK
  PROVE  /\ Len(queue) \in Nat /\ capacity \in Nat
         /\ \A x \in Values : Append(queue, x) \in Seq(Values) /\ Len(Append(queue, x)) = Len(queue) + 1
         /\ queue # <<>> => /\ Head(queue) \in Values /\ Tail(queue) \in Seq(Values)
                            /\ Len(Tail(queue)) = Len(queue) - 1 /\ Len(queue) > 0
         /\ queue = <<>> => Len(queue) = 0
  BY CapacityAssumption DEF QueueTypeOK

-----------------------------------------------------------------------------
(* The steps of the lock-protected sections *)

\* A push, called or resumed, keeps the invariant: when it adds a value it
\* wakes a waiting pop, and it blocks only when the queue is full.
LEMMA PushKeeps ==
  ASSUME QueueInv,
         NEW t \in Threads, NEW kind \in PushOps, NEW x \in Values,
         PushLocked(t, kind, x),
         t \notin not_full \cup not_empty, call[t].op \notin PopOps,
         unsent' \subseteq Values, swallowed' = swallowed
  PROVE  QueueInv'
<1> USE DEF QueueInv
<1> DEFINE Q == WokenIn(PushOps)
           P == WokenIn(PopOps)
<1>0. t \notin P /\ (t \in Q <=> t \in woken)
  BY Zenon DEF WokenIn, WaitInv
<1>1. CASE /\ ~closed /\ HasRoom
           /\ queue' = Append(queue, x)
           /\ notify_one(not_empty, not_empty', woken \ {t}, woken')
           /\ EndCall(t)
           /\ UNCHANGED <<closed, not_full, popped>>
  <2>1. call' = [call EXCEPT ![t] = NoCall]
    BY <1>1, Zenon DEF EndCall
  <2>2. Len(queue') = Len(queue) + 1 /\ Len(queue) < capacity /\ queue' \in Seq(Values)
    BY <1>1, QueueSizes, ZenonT(60) DEF HasRoom
  <2>3. CASE not_empty = {} /\ not_empty' = {} /\ woken' = woken \ {t}
    <3>1. QueueTypeOK'
      BY <1>1, <2>1, <2>2, <2>3, QueueSizes DEF QueueTypeOK, NoCall
    <3>2. WaitInv'
      BY <1>1, <2>1, <2>3, FS_RemoveElement, ZenonT(60) DEF WaitInv, QueueTypeOK, NoCall, PushOps, PopOps
    <3>3. Cardinality(Q') = Cardinality(Q) - (IF t \in Q THEN 1 ELSE 0) /\ Cardinality(Q) \in Nat
      BY <2>1, <2>3, WokenCounts, Zenon DEF QueueTypeOK
    <3> QED
      BY <1>1, <2>2, <2>3, <3>1, <3>2, <3>3, QueueSizes, SMTT(60) DEF PoppersWoken, PushersWoken
  <2>4. ASSUME NEW u \in not_empty, not_empty' = not_empty \ {u}, woken' = (woken \ {t}) \cup {u}
        PROVE  QueueInv'
    <3>0. u \in Threads \ {t} /\ call[u].op \in PopOps /\ call[u].op \notin PushOps
      BY <2>4, ZenonT(60) DEF QueueTypeOK, WaitInv, PushOps, PopOps
    <3>1. QueueTypeOK'
      BY <1>1, <2>1, <2>2, <2>4, <3>0, QueueSizes, SMTT(60) DEF QueueTypeOK, NoCall
    <3>2. WaitInv'
      <4>1. IsFiniteSet(woken') /\ IsFiniteSet(not_full') /\ IsFiniteSet(not_empty')
        BY <1>1, <2>4, FS_RemoveElement, FS_AddElement, Zenon DEF WaitInv
      <4> QED
        BY <1>1, <2>1, <2>4, <3>0, <4>1 DEF WaitInv, QueueTypeOK, NoCall, PushOps, PopOps
    <3>3. \A s \in Threads \ {t} : call'[s] = call[s]
      BY <2>1, ZenonT(60) DEF QueueTypeOK
    <3>4. Cardinality(Q') = Cardinality(Q) - (IF t \in Q THEN 1 ELSE 0) /\ Cardinality(Q) \in Nat
      BY <2>4, <3>0, <3>3, WokenCounts, SMTT(60)
    <3>5. Cardinality(P') = Cardinality(P) + 1 /\ Cardinality(P) \in Nat
      BY <1>0, <2>4, <3>0, <3>3, WokenCounts
    <3> QED
      BY <1>1, <2>2, <2>4, <3>1, <3>2, <3>4, <3>5, QueueSizes, SMTT(60) DEF PoppersWoken, PushersWoken
  <2> QED
    BY <1>1, <2>3, <2>4, NotifyMoves
<1>2. CASE /\ closed \/ (~HasRoom /\ kind = "try_push")
           /\ woken' = woken \ {t}
           /\ EndCall(t)
           /\ UNCHANGED <<queue, closed, not_full, not_empty, popped>>
  <2>1. call' = [call EXCEPT ![t] = NoCall]
    BY <1>2, Zenon DEF EndCall
  <2>2. QueueTypeOK'
    BY <1>2, <2>1, QueueSizes, Zenon DEF QueueTypeOK, NoCall
  <2>3. WaitInv'
    BY <1>2, <2>1, FS_RemoveElement, ZenonT(60) DEF WaitInv, QueueTypeOK, NoCall, PushOps, PopOps
  <2>4. Cardinality(Q') = Cardinality(Q) - (IF t \in Q THEN 1 ELSE 0) /\ Cardinality(Q) \in Nat
    BY <1>2, <2>1, WokenCounts, Zenon DEF QueueTypeOK
  <2>5. Cardinality(P') = Cardinality(P)
    BY <1>0, <1>2, <2>1, WokenCounts, SMTT(60) DEF QueueTypeOK
  <2>6. PushersWoken'
    <3>1. closed => not_full' = {}
      BY <1>2, Zenon DEF WaitInv
    <3>2. ~closed => Len(queue') >= capacity
      BY <1>2, QueueSizes DEF HasRoom
    <3>3. Cardinality(Q') \in Nat
      BY <2>4, <1>0, <2>3, FS_Subset, FS_CardinalityType, ZenonT(60) DEF WaitInv, WokenIn
    <3> QED
      BY <1>2, <3>1, <3>2, <3>3, QueueSizes DEF PushersWoken
  <2> QED
    BY <1>2, <2>2, <2>3, <2>5, <2>6, Zenon DEF PoppersWoken
<1>3. CASE /\ ~closed /\ ~HasRoom /\ kind # "try_push"
           /\ not_full' = not_full \cup {t}
           /\ woken' = woken \ {t}
           /\ call' = [call EXCEPT ![t] = [op |-> kind, value |-> x]]
           /\ UNCHANGED <<queue, closed, not_empty, popped>>
  <2>1. QueueTypeOK'
    BY <1>3, QueueSizes, ZenonT(60) DEF QueueTypeOK
  <2>2. WaitInv'
    <3>1. IsFiniteSet(woken') /\ IsFiniteSet(not_full') /\ IsFiniteSet(not_empty')
      BY <1>3, FS_RemoveElement, FS_AddElement, ZenonT(60) DEF WaitInv
    <3> QED
      BY <1>3, <3>1 DEF WaitInv, QueueTypeOK, PushOps, PopOps
  <2>3. Cardinality(P') = Cardinality(P)
    BY <1>0, <1>3, WokenCounts, SMTT(60) DEF QueueTypeOK
  <2>4. PushersWoken'
    <3>1. Len(queue') >= capacity
      BY <1>3, QueueSizes DEF HasRoom
    <3>2. Cardinality(Q') \in Nat
      BY <2>2, FS_Subset, FS_CardinalityType, ZenonT(60) DEF WaitInv, WokenIn
    <3> QED
      BY <1>3, <3>1, <3>2, QueueSizes, SMTT(60) DEF PushersWoken
  <2> QED
    BY <1>3, <2>1, <2>2, <2>3, <2>4, Zenon DEF PoppersWoken
<1> QED
  BY <1>1, <1>2, <1>3, Zenon DEF PushLocked

\* A pop that finds a value keeps the invariant: it wakes a waiting push, and
\* takes away at most one awake pop together with the value.
LEMMA PopFrontKeeps ==
  ASSUME QueueInv,
         NEW t \in Threads, PopFront(t),
         t \notin not_full, call[t].op \notin PushOps,
         UNCHANGED <<unsent, swallowed>>
  PROVE  QueueInv'
<1> USE DEF QueueInv
<1> DEFINE Q == WokenIn(PushOps)
           P == WokenIn(PopOps)
<1>0. t \notin Q
  BY Zenon DEF WokenIn
<1>1. call' = [call EXCEPT ![t] = NoCall] /\ \A s \in Threads \ {t} : call'[s] = call[s]
  BY ZenonT(60) DEF PopFront, EndCall, QueueTypeOK
<1>2. /\ Len(queue') = Len(queue) - 1 /\ Len(queue) > 0 /\ queue' \in Seq(Values)
      /\ popped' \in Seq(Values)
  BY QueueSizes DEF PopFront, QueueTypeOK
<1>3. not_empty' # {} => not_empty # {}
  BY Zenon DEF PopFront
<1>4. CASE not_full = {} /\ not_full' = {} /\ woken' = woken \ {t}
  <2>1. QueueTypeOK'
    BY <1>1, <1>2, <1>4, QueueSizes DEF PopFront, QueueTypeOK, NoCall
  <2>2. WaitInv'
    <3>1. IsFiniteSet(woken') /\ IsFiniteSet(not_full') /\ IsFiniteSet(not_empty')
      BY <1>4, FS_RemoveElement, Zenon DEF WaitInv, PopFront
    <3> QED
      BY <1>1, <1>4, <3>1, ZenonT(60) DEF PopFront, WaitInv, QueueTypeOK, NoCall, PushOps, PopOps
  <2>3. Cardinality(P') = Cardinality(P) - (IF t \in P THEN 1 ELSE 0) /\ Cardinality(P) \in Nat
    BY <1>1, <1>4, WokenCounts, ZenonT(60)
  <2>4. PoppersWoken'
    BY <1>2, <1>3, <2>3, QueueSizes DEF PoppersWoken
  <2> QED
    BY <1>4, <2>1, <2>2, <2>4, ZenonT(60) DEF PushersWoken
<1>5. ASSUME NEW u \in not_full, not_full' = not_full \ {u}, woken' = (woken \ {t}) \cup {u}
      PROVE  QueueInv'
  <2>0. u \in Threads \ {t} /\ call[u].op \in PushOps /\ call[u].op \notin PopOps
    BY <1>5, ZenonT(60) DEF QueueTypeOK, WaitInv, PushOps, PopOps
  <2>1. QueueTypeOK'
    BY <1>1, <1>2, <1>5, <2>0, QueueSizes, SMTT(60) DEF PopFront, QueueTypeOK, NoCall
  <2>2. WaitInv'
    <3>1. IsFiniteSet(woken') /\ IsFiniteSet(not_full') /\ IsFiniteSet(not_empty')
      BY <1>5, FS_RemoveElement, FS_AddElement, ZenonT(60) DEF WaitInv, PopFront
    <3> QED
      BY <1>1, <1>5, <2>0, <3>1, SMTT(60) DEF PopFront, WaitInv, QueueTypeOK, NoCall, PushOps, PopOps
  <2>3. Cardinality(P') = Cardinality(P) - (IF t \in P THEN 1 ELSE 0) /\ Cardinality(P) \in Nat
    BY <1>1, <1>5, <2>0, WokenCounts, SMTT(60)
  <2>4. Cardinality(Q') = Cardinality(Q) + 1 /\ Cardinality(Q) \in Nat
    BY <1>0, <1>1, <1>5, <2>0, WokenCounts, SMTT(60)
  <2>5. PoppersWoken'
    BY <1>2, <1>3, <2>3, QueueSizes, SMTT(60) DEF PoppersWoken
  <2>6. PushersWoken'
    BY <1>2, <1>5, <2>4, QueueSizes DEF PushersWoken
  <2> QED
    BY <2>1, <2>2, <2>5, <2>6, Zenon
<1> QED
  BY <1>4, <1>5, NotifyMoves DEF PopFront

\* A pop that returns nothing, or blocks, found the queue empty.
LEMMA PopEmptyKeeps ==
  ASSUME QueueInv,
         NEW t \in Threads, NEW kind \in PopOps,
         t \notin not_full, call[t].op \notin PushOps,
         queue = <<>>,
         \/ PopNothing(t)
         \/ /\ ~closed
            /\ not_empty' = not_empty \cup {t}
            /\ woken' = woken \ {t}
            /\ call' = [call EXCEPT ![t] = [op |-> kind, value |-> NoValue]]
            /\ UNCHANGED <<queue, closed, not_full, popped>>,
         UNCHANGED <<unsent, swallowed>>
  PROVE  QueueInv'
<1> USE DEF QueueInv
<1> DEFINE Q == WokenIn(PushOps)
           P == WokenIn(PopOps)
<1>1. /\ woken' = woken \ {t} /\ UNCHANGED <<queue, closed, not_full, popped>>
      /\ \A s \in Threads \ {t} : call'[s] = call[s]
  BY ZenonT(60) DEF PopNothing, EndCall, QueueTypeOK
<1>2. QueueTypeOK'
  BY <1>1 DEF PopNothing, EndCall, QueueTypeOK, NoCall
<1>3. WaitInv'
  <2>1. IsFiniteSet(woken') /\ IsFiniteSet(not_full') /\ IsFiniteSet(not_empty')
    <3>1. not_empty' = not_empty \ {t} \/ not_empty' = not_empty \cup {t}
      BY Zenon DEF PopNothing
    <3>2. IsFiniteSet(not_empty \ {t}) /\ IsFiniteSet(not_empty \cup {t})
      BY FS_RemoveElement, FS_AddElement, ZenonT(60) DEF WaitInv
    <3>3. IsFiniteSet(woken \ {t})
      BY FS_RemoveElement, ZenonT(60) DEF WaitInv
    <3> QED
      BY <1>1, <3>1, <3>2, <3>3, ZenonT(60) DEF WaitInv
  <2>2. CASE PopNothing(t)
    BY <1>1, <2>1, <2>2, SMTT(60) DEF PopNothing, EndCall, WaitInv, QueueTypeOK, NoCall, PushOps, PopOps
  <2>3. CASE ~PopNothing(t)
    BY <1>1, <2>1, <2>3, SMTT(60) DEF WaitInv, QueueTypeOK, PushOps, PopOps
  <2> QED
    BY <2>2, <2>3, Zenon
<1>4. Cardinality(Q') = Cardinality(Q)
  <2>1. t \notin Q
    BY Zenon DEF WokenIn
  <2> QED
    BY <1>1, <2>1, WokenCounts
<1>5. PoppersWoken'
  <2>1. Cardinality(P') \in Nat
    BY <1>3, FS_Subset, FS_CardinalityType, Zenon DEF WaitInv, WokenIn
  <2> QED
    BY <1>1, <2>1, QueueSizes DEF PoppersWoken
<1> QED
  BY <1>1, <1>2, <1>3, <1>4, <1>5, Zenon DEF PushersWoken

\* A section of a pop, called or resumed.
LEMMA PopKeeps ==
  ASSUME QueueInv,
         NEW t \in Threads, NEW kind \in PopOps,
         PopLocked(t, kind),
         t \notin not_full, call[t].op \notin PushOps,
         UNCHANGED <<unsent, swallowed>>
  PROVE  QueueInv'
  BY PopFrontKeeps, PopEmptyKeeps, Zenon DEF PopLocked, PopNothing

-----------------------------------------------------------------------------

\* The queue starts empty, with nobody in a call.
LEMMA QueueInitInv == QueueInit => QueueInv
<1> SUFFICES ASSUME QueueInit PROVE QueueInv
  OBVIOUS
<1>1. QueueTypeOK
  <2>1. NoCall \in [op : PushOps \cup PopOps \cup {"none"}, value : Values \cup {NoValue}]
    BY DEF NoCall
  <2>2. <<>> \in Seq(Values) /\ Len(<<>>) <= capacity
    BY CapacityAssumption
  <2> QED
    BY <2>1, <2>2, ZenonT(60) DEF QueueInit, QueueTypeOK
<1>2. WaitInv
  BY FS_EmptySet, Zenon DEF QueueInit, WaitInv, NoCall, PushOps, PopOps
<1> QED
  BY <1>1, <1>2, Zenon DEF QueueInit, QueueInv, PoppersWoken, PushersWoken

\* Every step keeps the invariant.
LEMMA QueueNextInv == QueueInv /\ [QueueNext]_queueVars => QueueInv'
<1> SUFFICES ASSUME QueueInv, [QueueNext]_queueVars PROVE QueueInv'
  OBVIOUS
<1> USE DEF QueueInv
<1>1. ASSUME NEW t \in Threads, NEW kind \in PushOps, NEW x \in Values, CallPush(t, kind, x)
      PROVE  QueueInv'
  <2>1. t \notin not_full \cup not_empty /\ call[t].op \notin PopOps
    BY <1>1 DEF CallPush, WaitInv, NoCall, PushOps, PopOps
  <2> QED
    BY <1>1, <2>1, PushKeeps, ZenonT(60) DEF CallPush, QueueTypeOK
<1>2. ASSUME NEW t \in Threads, NEW kind \in PopOps, CallPop(t, kind)
      PROVE  QueueInv'
  <2>1. t \notin not_full /\ call[t].op \notin PushOps
    BY <1>2 DEF CallPop, WaitInv, NoCall, PushOps, PopOps
  <2> QED
    BY <1>2, <2>1, PopKeeps, ZenonT(60) DEF CallPop
<1>3. ASSUME NEW t \in Threads, Resume(t)
      PROVE  QueueInv'
  <2>1. t \notin not_full \cup not_empty
    BY <1>3, Zenon DEF Resume, WaitInv
  <2>2. CASE call[t].op \in PushOps /\ PushLocked(t, call[t].op, call[t].value)
    <3>1. call[t].value \in Values /\ call[t].op \notin PopOps
      BY <2>2, Zenon DEF WaitInv, PushOps, PopOps
    <3> QED
      BY <1>3, <2>1, <2>2, <3>1, PushKeeps, ZenonT(60) DEF Resume, QueueTypeOK
  <2>3. CASE call[t].op \in PopOps /\ PopLocked(t, call[t].op)
    <3>1. call[t].op \notin PushOps
      BY <2>3, Zenon DEF PushOps, PopOps
    <3> QED
      BY <1>3, <2>1, <2>3, <3>1, PopKeeps, Zenon DEF Resume
  <2> QED
    BY <1>3, <2>2, <2>3, ZenonT(60) DEF Resume
<1>4. ASSUME NEW t \in Threads, PushTimeout(t)
      PROVE  QueueInv'
  <2>1. /\ call' = [call EXCEPT ![t] = NoCall] /\ \A s \in Threads \ {t} : call'[s] = call[s]
        /\ woken' = woken \ {t} /\ call[t].op \in PushOps /\ call[t].op \notin PopOps
    BY <1>4, Zenon DEF PushTimeout, EndCall, QueueTypeOK, PushOps, PopOps
  <2>2. QueueTypeOK'
    BY <1>4, <2>1, ZenonT(60) DEF PushTimeout, QueueTypeOK, NoCall
  <2>3. WaitInv'
    <3>1. IsFiniteSet(woken') /\ IsFiniteSet(not_full') /\ IsFiniteSet(not_empty')
      BY <1>4, FS_RemoveElement, ZenonT(60) DEF PushTimeout, WaitInv
    <3> QED
      BY <1>4, <2>1, <3>1 DEF PushTimeout, WaitInv, QueueTypeOK, NoCall, PushOps, PopOps
  <2>4. Cardinality(WokenIn(PopOps)') = Cardinality(WokenIn(PopOps))
    <3>1. t \notin WokenIn(PopOps)
      BY <2>1, ZenonT(60) DEF WokenIn
    <3> QED
      BY <2>1, <3>1, WokenCounts
  <2>5. t \notin woken => Cardinality(WokenIn(PushOps)') = Cardinality(WokenIn(PushOps))
    <3>1. t \notin woken => t \notin WokenIn(PushOps)
      BY DEF WokenIn
    <3> QED
      BY <2>1, <3>1, WokenCounts, SMTT(60)
  <2>6. PoppersWoken'
    BY <1>4, <2>4, Zenon DEF PushTimeout, PoppersWoken
  <2>7. PushersWoken'
    BY <1>4, <2>5, Zenon DEF PushTimeout, PushersWoken
  <2> QED
    BY <2>2, <2>3, <2>6, <2>7, Zenon
<1>5. ASSUME NEW t \in Threads, PopTimeout(t)
      PROVE  QueueInv'
  <2>1. t \notin not_full /\ call[t].op \notin PushOps /\ call[t].op \in PopOps
    BY <1>5, ZenonT(60) DEF PopTimeout, WaitInv, PushOps, PopOps
  <2> QED
    BY <1>5, <2>1, PopFrontKeeps, PopEmptyKeeps, ZenonT(60) DEF PopTimeout, PopNothing
<1>6. ASSUME NEW t \in Threads, SpuriousWakeup(t)
      PROVE  QueueInv'
  <2>1. QueueTypeOK'
    BY <1>6, Zenon DEF SpuriousWakeup, QueueTypeOK
  <2>2. WaitInv'
    <3>1. IsFiniteSet(woken') /\ IsFiniteSet(not_full') /\ IsFiniteSet(not_empty')
      BY <1>6, FS_RemoveElement, FS_AddElement, ZenonT(60) DEF SpuriousWakeup, WaitInv
    <3> QED
      BY <1>6, <3>1, Zenon DEF SpuriousWakeup, WaitInv
  <2>3. ASSUME NEW ops
        PROVE  /\ Cardinality(WokenIn(ops)) \in Nat /\ Cardinality(WokenIn(ops)') \in Nat
               /\ Cardinality(WokenIn(ops)) <= Cardinality(WokenIn(ops)')
    <3>1. IsFiniteSet(WokenIn(ops)') /\ WokenIn(ops) \in SUBSET WokenIn(ops)'
      <4>1. WokenIn(ops)' \in SUBSET woken'
        BY ZenonT(60) DEF WokenIn
      <4> QED
        BY <1>6, <2>2, <4>1, FS_Subset, ZenonT(60) DEF SpuriousWakeup, WaitInv, WokenIn
    <3> QED
      BY <3>1, FS_Subset, FS_CardinalityType, ZenonT(60)
  <2>4. PoppersWoken'
    BY <1>6, <2>3, QueueSizes, SMTT(60) DEF SpuriousWakeup, PoppersWoken
  <2>5. PushersWoken'
    BY <1>6, <2>3, QueueSizes DEF SpuriousWakeup, PushersWoken
  <2> QED
    BY <2>1, <2>2, <2>4, <2>5
<1>7. CASE close
  <2>1. QueueTypeOK'
    BY <1>7, ZenonT(60) DEF close, QueueTypeOK
  <2>2. WaitInv'
    <3>1. IsFiniteSet(woken') /\ IsFiniteSet(not_full') /\ IsFiniteSet(not_empty')
      BY <1>7, FS_EmptySet, FS_Union, Zenon DEF close, WaitInv
    <3> QED
      BY <1>7, <3>1 DEF close, WaitInv
  <2> QED
    BY <1>7, <2>1, <2>2, Zenon DEF close, PoppersWoken, PushersWoken
<1>8. CASE UNCHANGED queueVars
  BY <1>8, ZenonT(60) DEF queueVars, QueueTypeOK, WaitInv, PoppersWoken, PushersWoken, WokenIn
<1> QED
  BY <1>1, <1>2, <1>3, <1>4, <1>5, <1>6, <1>7, <1>8, ZenonT(60) DEF QueueNext

\* No wakeup for values is lost, whatever deadlines and spurious wakeups do.
THEOREM PoppersWokenHolds == QueueSpec => []PoppersWoken
<1>1. QueueInv => PoppersWoken
  BY ZenonT(60) DEF QueueInv
<1> QED
  BY QueueInitInv, QueueNextInv, <1>1, PTL DEF QueueSpec

\* No wakeup for room is lost, unless a woken wait_push_until() gives up.
THEOREM PushersWokenHolds == QueueSpec => []PushersWoken
<1>1. QueueInv => PushersWoken
  BY DEF QueueInv
<1> QED
  BY QueueInitInv, QueueNextInv, <1>1, PTL DEF QueueSpec

-----------------------------------------------------------------------------
(* The queue implements the channel *)

\* Appending to the second of two sequences appends to both.
LEMMA AppendToConcat ==
  ASSUME NEW S, NEW s \in Seq(S), NEW t \in Seq(S), NEW x \in S
  PROVE  s \o Append(t, x) = Append(s \o t, x)
  OBVIOUS

\* A successful push is a Put.
LEMMA AppendIsPut ==
  ASSUME QueueInv, NEW x \in Values,
         ~closed, HasRoom, queue' = Append(queue, x), UNCHANGED <<closed, popped>>
  PROVE  Channel!Put(x)
<1>1. popped \in Seq(Values) /\ queue \in Seq(Values) /\ capacity \in Nat
  BY CapacityAssumption, Zenon DEF QueueInv, QueueTypeOK
<1>2. (popped \o queue)' = Append(popped \o queue, x)
  BY <1>1, AppendToConcat
<1>3. Len(popped \o queue) - Len(popped) < capacity
  BY <1>1 DEF HasRoom
<1> QED
  BY <1>2, <1>3, Zenon DEF Channel!Put

\* A pop that finds a value is a Take.
LEMMA PopFrontIsTake ==
  ASSUME QueueInv, NEW t \in Threads, PopFront(t)
  PROVE  Channel!Take
<1>1. popped \in Seq(Values) /\ queue \in Seq(Values) /\ queue # <<>>
  BY DEF QueueInv, QueueTypeOK, PopFront
<1>2. Len(popped) < Len(popped \o queue) /\ (popped \o queue)[Len(popped) + 1] = Head(queue)
  BY <1>1
<1>3. Append(popped, Head(queue)) \o Tail(queue) = popped \o queue
  <2> DEFINE a == Append(popped, Head(queue))
  <2>1. /\ a \in Seq(Values) /\ Len(a) = Len(popped) + 1
        /\ \A i \in 1..Len(popped) : a[i] = popped[i] /\ a[Len(popped) + 1] = Head(queue)
    BY <1>1
  <2>2. /\ Tail(queue) \in Seq(Values) /\ Len(Tail(queue)) = Len(queue) - 1
        /\ \A i \in 1..Len(queue) - 1 : Tail(queue)[i] = queue[i + 1]
    BY <1>1
  <2> HIDE DEF a
  <2> QED
    BY <1>1, <2>1, <2>2, SMTT(60)
<1> QED
  BY <1>2, <1>3, ZenonT(60) DEF Channel!Take, PopFront

\* Every step of the queue is a step of the channel, or changes nothing of it.
LEMMA StepImplements ==
  QueueInv /\ [QueueNext]_queueVars => [Channel!Next]_<<popped \o queue, popped, closed>>
<1> SUFFICES ASSUME QueueInv, [QueueNext]_queueVars
             PROVE  Channel!Next \/ UNCHANGED <<queue, popped, closed>>
  BY Zenon
<1>1. ASSUME NEW t \in Threads, NEW kind \in PushOps, NEW x \in Values, PushLocked(t, kind, x)
      PROVE  Channel!Next \/ UNCHANGED <<queue, popped, closed>>
  BY <1>1, AppendIsPut, Zenon DEF PushLocked, Channel!Next
<1>2. ASSUME NEW t \in Threads, PopFront(t)
      PROVE  Channel!Next
  BY <1>2, PopFrontIsTake, Zenon DEF Channel!Next
<1>3. ASSUME NEW t \in Threads, NEW kind \in PopOps, PopLocked(t, kind)
      PROVE  Channel!Next \/ UNCHANGED <<queue, popped, closed>>
  BY <1>2, <1>3, ZenonT(60) DEF PopLocked, PopNothing
<1>4. ASSUME NEW t \in Threads, Resume(t)
      PROVE  Channel!Next \/ UNCHANGED <<queue, popped, closed>>
  BY <1>1, <1>3, <1>4, Zenon DEF Resume, QueueInv, WaitInv
<1>5. ASSUME NEW t \in Threads, PushTimeout(t) \/ PopTimeout(t) \/ SpuriousWakeup(t)
      PROVE  Channel!Next \/ UNCHANGED <<queue, popped, closed>>
  BY <1>2, <1>5, Zenon DEF PushTimeout, PopTimeout, SpuriousWakeup, PopNothing
<1>6. CASE close
  BY <1>6, Zenon DEF close, Channel!Next, Channel!Close
<1>7. CASE UNCHANGED queueVars
  BY <1>7 DEF queueVars
<1> QED
  BY <1>1, <1>3, <1>4, <1>5, <1>6, <1>7, ZenonT(60) DEF QueueNext, CallPush, CallPop

\* The queue implements the channel: values come out in the order they went
\* in, each once, never more than capacity are held and none goes in once the
\* queue is closed.
THEOREM QueueImplementsFifo == QueueSpec => ImplementsFifo
<1>1. QueueInit => Channel!Init
  BY DEF QueueInit, Channel!Init
<1> QED
  BY QueueInitInv, QueueNextInv, StepImplements, <1>1, PTL DEF QueueSpec, ImplementsFifo, Channel!Spec
=============================================================================
