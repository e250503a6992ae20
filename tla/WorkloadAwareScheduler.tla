----------------------- MODULE WorkloadAwareScheduler -----------------------
(***************************************************************************)
(* The default request scheduler (src/workload_aware_scheduler.cpp) and    *)
(* the one thread that drains it, Runtime::routing_loop.                   *)
(*                                                                         *)
(* next() runs under mutex_ but the requests it looks at do not stop: any  *)
(* of them may be cancelled by an HTTP thread, or pass its deadline,       *)
(* between two calls of is_dead_request.  next() is therefore one action   *)
(* per pass over the entries.  Within a pass the reads of different        *)
(* requests commute with each other's deaths, so a pass is one step.       *)
(*                                                                         *)
(* by_model_ is a map from model to a deque in enqueue order.  An entry is *)
(* identified with its request, the deque of model m is the set of queued  *)
(* requests of m ordered by enqueue_sequence, and a position in a deque is *)
(* the request found there.                                                *)
(***************************************************************************)
EXTENDS Integers, FiniteSets

CONSTANTS
  Requests,     \* request objects that are ever submitted
  Mortal,       \* those that may be cancelled or time out
  Models,       \* model identifiers
  model_id,     \* the model each request asks for
  capacity,     \* WorkloadAwareSchedulerConfig::capacity
  max_bypass,   \* WorkloadAwareSchedulerConfig::max_bypass
  None          \* no request

ASSUME ConfigAssumption ==
  /\ None \notin Requests
  /\ Mortal \subseteq Requests
  /\ model_id \in [Requests -> Models]
  /\ capacity \in Nat \ {0}
  /\ max_bypass \in Nat \ {0}

VARIABLES
  fresh,              \* requests not yet handed to enqueue()
  dead,               \* requests for which is_dead_request() returns true
  queued,             \* the entries of by_model_
  enqueue_sequence,   \* Entry::enqueue_sequence
  bypass_count,       \* Entry::bypass_count
  size,               \* size_
  next_sequence,      \* next_sequence_
  closed,             \* closed_
  metrics,            \* metrics_
  pc,                 \* the pass next() is about to make; "wait": not in next()
  oldest_global_seq,  \* locals of select_locked(), meaningful while in it
  chosen,
  starvation,
  selected,
  dispatched          \* requests next() has returned

entryVars == <<queued, enqueue_sequence, bypass_count, size>>
localVars == <<oldest_global_seq, chosen, starvation, selected>>
vars == <<fresh, dead, entryVars, next_sequence, closed, metrics, pc,
          localVars, dispatched>>

\* oldest_global_seq when no live front was seen (numeric_limits::max()).
NoSequence == -1

InNext == {"select", "oldest", "starved", "group", "take", "check"}
Locations == InNext \cup {"wait", "exited"}

\* mutex_ is held from the end of cv_.wait to the return of next().
LockFree == pc \notin InNext

Older(r, s) == enqueue_sequence[r] < enqueue_sequence[s]

\* Variant: the scan keeps the last entry it saw.
Youngest(S) == CHOOSE r \in S : \A s \in S : s = r \/ Older(s, r)

\* The element of S that was enqueued first.
Oldest(S) == CHOOSE r \in S : \A s \in S : s = r \/ Older(r, s)

\* The deque by_model_[m].
Group(m) == {r \in queued : model_id[r] = m}

Live == queued \ dead

-----------------------------------------------------------------------------
Init ==
  /\ fresh = Requests
  /\ dead = {}
  /\ queued = {}
  /\ enqueue_sequence = [r \in Requests |-> 0]
  /\ bypass_count = [r \in Requests |-> 0]
  /\ size = 0
  /\ next_sequence = 0
  /\ closed = FALSE
  /\ metrics = [reordered_dispatches |-> 0, starvation_promotions |-> 0]
  /\ pc = "wait"
  /\ oldest_global_seq = NoSequence
  /\ chosen = None
  /\ starvation = FALSE
  /\ selected = None
  /\ dispatched = {}

\* A request is cancelled or its deadline passes; is_dead_request() makes an
\* expired request terminal, so it is true from the deadline on.  What
\* happens to a request once it is dispatched is the worker's business.
Die(r) ==
  /\ r \in Mortal
  /\ r \notin dead \cup dispatched
  /\ dead' = dead \cup {r}
  /\ UNCHANGED <<fresh, entryVars, next_sequence, closed, metrics, pc,
                 localVars, dispatched>>

HasRoom == size < capacity

\* enqueue() succeeds.
Enqueue(r) ==
  /\ LockFree
  /\ r \in fresh
  /\ ~closed
  /\ HasRoom
  /\ fresh' = fresh \ {r}
  /\ queued' = queued \cup {r}
  /\ enqueue_sequence' = [enqueue_sequence EXCEPT ![r] = next_sequence]
  /\ bypass_count' = [bypass_count EXCEPT ![r] = 0]
  /\ next_sequence' = next_sequence + 1
  /\ size' = size + 1
  /\ UNCHANGED <<dead, closed, metrics, pc, localVars, dispatched>>

\* enqueue() returns QueueClosed or QueueFull, and AdmissionController::admit
\* rejects the request.
Refuse(r) ==
  /\ LockFree
  /\ r \in fresh
  /\ closed \/ ~HasRoom
  /\ fresh' = fresh \ {r}
  /\ dead' = dead \cup {r}
  /\ UNCHANGED <<entryVars, next_sequence, closed, metrics, pc, localVars,
                 dispatched>>

Close ==
  /\ LockFree
  /\ ~closed
  /\ closed' = TRUE
  /\ UNCHANGED <<fresh, dead, entryVars, next_sequence, metrics, pc,
                 localVars, dispatched>>

-----------------------------------------------------------------------------
\* Variant: size_ is decremented once however many entries go.
EraseCountedOnce(S) ==
  /\ queued' = queued \ S
  /\ size' = IF S # {} THEN size - 1 ELSE size

\* Erasing the entries of S: size_ is decremented once for each of them
\* unless it is already 0.
Erase(S) ==
  /\ queued' = queued \ S
  /\ size' = IF size >= Cardinality(S) THEN size - Cardinality(S) ELSE 0

\* Variant: a deque with a dead entry is erased whole.
PruneWholeGroup ==
  Erase({r \in queued : Group(model_id[r]) \cap dead # {}})

prune_dead_entries_locked == Erase(queued \cap dead)

\* A call of select_locked() ends: next() returns nothing and routing_loop
\* breaks ("exited"), it returns a request and routing_loop goes round again
\* ("wait"), or select_locked() calls itself ("select").
Leave(location) ==
  /\ pc' = location
  /\ oldest_global_seq' = NoSequence
  /\ chosen' = None
  /\ starvation' = FALSE
  /\ selected' = None

\* Variant: enqueue() does not notify.
WakesUpOnClose == closed

\* The predicate of cv_.wait; enqueue() and close() notify the one waiter.
WakesUp == size > 0 \/ closed

\* next(): the wait ends, the dead entries are pruned.
NextCall ==
  /\ pc = "wait"
  /\ WakesUp
  /\ prune_dead_entries_locked
  /\ Leave(IF size' = 0 THEN "exited" ELSE "select")
  /\ UNCHANGED <<fresh, dead, enqueue_sequence, bypass_count, next_sequence,
                 closed, metrics, dispatched>>

\* select_locked() prunes again, on its first call and on every recursion.
SelectPrune ==
  /\ pc = "select"
  /\ prune_dead_entries_locked
  /\ Leave(IF size' = 0 THEN "exited" ELSE "oldest")
  /\ UNCHANGED <<fresh, dead, enqueue_sequence, bypass_count, next_sequence,
                 closed, metrics, dispatched>>

\* The smallest sequence number among the fronts that are live.
ScanOldest ==
  LET fronts == {r \in Live : \A s \in Group(model_id[r]) : ~Older(s, r)}
  IN  /\ pc = "oldest"
      /\ oldest_global_seq' = IF fronts = {} THEN NoSequence
                              ELSE enqueue_sequence[Oldest(fronts)]
      /\ pc' = "starved"
      /\ UNCHANGED <<fresh, dead, entryVars, next_sequence, closed, metrics,
                     chosen, starvation, selected, dispatched>>

\* Variant: nothing is promoted.
StarvedIgnored == {}

Starved == {r \in Live : bypass_count[r] >= max_bypass}

\* The oldest live entry that was bypassed max_bypass times is promoted.
ScanStarved ==
  /\ pc = "starved"
  /\ starvation' = (Starved # {})
  /\ chosen' = IF Starved # {} THEN Oldest(Starved) ELSE None
  /\ pc' = IF Starved # {} THEN "take" ELSE "group"
  /\ UNCHANGED <<fresh, dead, entryVars, next_sequence, closed, metrics,
                 oldest_global_seq, selected, dispatched>>

LiveGroup(m) == Group(m) \ dead

\* The comparison `better`: more live entries, then the older group.  Two
\* groups never share a sequence number, so the model names never decide.
Better(m, n) ==
  \/ Cardinality(LiveGroup(m)) > Cardinality(LiveGroup(n))
  \/ /\ Cardinality(LiveGroup(m)) = Cardinality(LiveGroup(n))
     /\ Older(Oldest(LiveGroup(m)), Oldest(LiveGroup(n)))

\* The front of the best group is chosen, even when it has died meanwhile.
ScanGroups ==
  LET candidates == {m \in Models : LiveGroup(m) # {}}
  IN  /\ pc = "group"
      /\ \E best \in candidates :
           /\ \A m \in candidates \ {best} : Better(best, m)
           /\ chosen' = Oldest(Group(best))
      /\ pc' = "take"
      /\ UNCHANGED <<fresh, dead, entryVars, next_sequence, closed, metrics,
                     oldest_global_seq, starvation, selected, dispatched>>

\* Every entry died since select_locked() pruned: nothing to choose.
NothingToChoose ==
  /\ pc = "group"
  /\ Live = {}
  /\ prune_dead_entries_locked
  /\ Leave("exited")
  /\ UNCHANGED <<fresh, dead, enqueue_sequence, bypass_count, next_sequence,
                 closed, metrics, dispatched>>

\* The entries at chosen_index and behind it in the chosen deque.
FromChosen == {r \in Group(model_id[chosen]) : ~Older(r, chosen)}

\* Dead entries at chosen_index are erased until a live one is there; it is
\* taken out, promoted or not.  Without one select_locked() starts again.
Take ==
  /\ pc = "take"
  /\ IF FromChosen \subseteq dead
     THEN /\ Erase(FromChosen)
          /\ Leave("select")
     ELSE /\ selected' = Oldest(FromChosen \ dead)
          /\ Erase({r \in FromChosen : ~Older(selected', r)})
          /\ pc' = "check"
          /\ UNCHANGED <<oldest_global_seq, chosen, starvation>>
  /\ UNCHANGED <<fresh, dead, enqueue_sequence, bypass_count, next_sequence,
                 closed, metrics, dispatched>>

\* The entry taken out died at the last moment.
SelectedDied ==
  /\ pc = "check"
  /\ selected \in dead
  /\ Leave("select")
  /\ UNCHANGED <<fresh, dead, entryVars, next_sequence, closed, metrics,
                 dispatched>>

Bump(counter, condition) == IF condition THEN counter + 1 ELSE counter

\* The entries that were not dispatched although they are live.
Bypassed == Live

\* next() returns the selected request; every live entry left was bypassed.
Dispatch ==
  /\ pc = "check"
  /\ selected \notin dead
  /\ metrics' = [reordered_dispatches |->
                   Bump(metrics.reordered_dispatches,
                        enqueue_sequence[selected] # oldest_global_seq),
                 starvation_promotions |->
                   Bump(metrics.starvation_promotions, starvation)]
  /\ bypass_count' = [r \in Requests |-> Bump(bypass_count[r], r \in Bypassed)]
  /\ dispatched' = dispatched \cup {selected}
  /\ Leave("wait")
  /\ UNCHANGED <<fresh, dead, queued, enqueue_sequence, size, next_sequence,
                 closed>>

-----------------------------------------------------------------------------
RoutingThread ==
  \/ NextCall
  \/ SelectPrune
  \/ ScanOldest
  \/ ScanStarved
  \/ ScanGroups
  \/ NothingToChoose
  \/ Take
  \/ SelectedDied
  \/ Dispatch

Next ==
  \/ RoutingThread
  \/ Close
  \/ \E r \in Requests : Die(r) \/ Enqueue(r) \/ Refuse(r)

Spec == Init /\ [][Next]_vars

\* The routing thread runs as long as it is not blocked on cv_.
FairSpec == Spec /\ WF_vars(RoutingThread)

-----------------------------------------------------------------------------
(* Properties *)

TypeOK ==
  /\ fresh \subseteq Requests
  /\ dead \subseteq Requests
  /\ queued \subseteq Requests
  /\ enqueue_sequence \in [Requests -> Nat]
  /\ bypass_count \in [Requests -> Nat]
  /\ size \in 0 .. capacity
  /\ next_sequence \in Nat
  /\ closed \in BOOLEAN
  /\ metrics \in [reordered_dispatches : Nat, starvation_promotions : Nat]
  /\ pc \in Locations
  /\ oldest_global_seq \in Nat \cup {NoSequence}
  /\ chosen \in Requests \cup {None}
  /\ starvation \in BOOLEAN
  /\ selected \in Requests \cup {None}
  /\ dispatched \subseteq Requests

\* size_ is kept by hand at every place that adds or erases an entry.  It
\* never drifts from the number of entries, so capacity_ bounds the queue and
\* the wait predicate is about entries that exist.
SizeCountsEntries == size = Cardinality(queued)

\* A live request that was accepted is queued, or held by next(), or was
\* returned by next(), and only one of these: no pruning, erasing or retry
\* loses it or returns it twice.
NoLiveRequestLost ==
  \A r \in Requests \ (fresh \cup dead) :
    \/ r \in queued /\ r \notin dispatched /\ selected # r
    \/ r \notin queued /\ r \notin dispatched /\ selected = r /\ pc = "check"
    \/ r \notin queued /\ r \in dispatched /\ selected # r

\* A live entry has been bypassed at least as often as every younger entry.
\* This is why promoting the oldest starved entry is fair.
OlderBypassedMore ==
  \A r \in Live, s \in queued :
    Older(r, s) => bypass_count[s] <= bypass_count[r]

\* Starvation bound: however long new requests of a popular model keep
\* arriving, a live entry is bypassed at most max_bypass times by choice,
\* plus once for each older starved entry that goes first.
BypassBound ==
  \A r \in Live : bypass_count[r] <= max_bypass + capacity - 2

\* Requests of one model are dispatched in arrival order: whatever is
\* promoted, and whatever dies during next(), an older request of the same
\* model that is still queued is dead.
FifoWithinModel ==
  [][\A r \in dispatched' \ dispatched :
       \A s \in queued :
         model_id[s] = model_id[r] /\ Older(s, r) => s \in dead]_vars

\* No live request waits for ever: it is dispatched or dies, unless the
\* routing thread has ended.
LiveIsDispatched ==
  \A r \in Requests :
    r \in Live ~> r \in dispatched \cup dead \/ pc = "exited"

\* What the tests of draining assert: once the scheduler is closed and the
\* routing thread is through, no live request is left in the queue.
CloseDrain == closed /\ pc = "exited" => Live = {}
=============================================================================
