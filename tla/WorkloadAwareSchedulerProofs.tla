-------------------- MODULE WorkloadAwareSchedulerProofs --------------------
(***************************************************************************)
(* Proofs, for every set of requests and models, every capacity and every  *)
(* max_bypass, that the scheduler keeps its entry count, bounds how often  *)
(* a live request is bypassed, and dispatches each model in order.         *)
(***************************************************************************)
EXTENDS WorkloadAwareScheduler, FiniteSetTheorems, WellFoundedInduction, TLAPS

\* The entries that must leave before r is the oldest.
OlderThan(r) == {s \in queued : Older(s, r)}

\* Entries are finitely many, counted by size, and ordered by distinct
\* sequence numbers below next_sequence.
EntriesInv ==
  /\ IsFiniteSet(queued)
  /\ SizeCountsEntries
  /\ fresh \cap queued = {}
  /\ \A r \in queued : enqueue_sequence[r] < next_sequence
  /\ \A r, s \in queued :
       r # s => enqueue_sequence[r] # enqueue_sequence[s]

\* What the passes of select_locked() have established about its locals.
LocalsInv ==
  /\ pc = "group" => Starved = {} /\ ~starvation
  /\ pc = "take" =>
       /\ chosen \in queued
       /\ starvation =>
            /\ bypass_count[chosen] >= max_bypass
            /\ \A r \in Starved : r = chosen \/ Older(chosen, r)
       /\ ~starvation =>
            /\ Starved = {}
            /\ \A s \in Group(model_id[chosen]) : ~Older(s, chosen)
  /\ pc = "check" =>
       /\ selected \in Requests
       /\ size < capacity
       /\ \A s \in Group(model_id[selected]) : Older(s, selected) => s \in dead

\* The bypasses a starved entry has had, and the older entries that may still
\* go first, never exceed the bound together.  A dispatch adds a bypass, but
\* by then (pc = "check") it has taken an older entry away.
Measure(r) == bypass_count[r] + Cardinality(OlderThan(r))

MeasureBound == max_bypass + capacity - 2

BypassMeasure ==
  \A r \in Starved :
    /\ Measure(r) <= MeasureBound
    /\ pc = "check" => Measure(r) < MeasureBound

IInv ==
  /\ TypeOK
  /\ EntriesInv
  /\ OlderBypassedMore
  /\ LocalsInv
  /\ BypassMeasure

-----------------------------------------------------------------------------
(* Lemmas about the operators *)

\* Every non-empty set of naturals has a least element.
LEMMA LeastNatural ==
  ASSUME NEW T \in SUBSET Nat, T # {}
  PROVE  \E x \in T : \A y \in T : x <= y
  <1> DEFINE R == {ss \in Nat \X Nat : ss[1] < ss[2]}
  <1>1. IsWellFoundedOn(R, Nat)
    BY NatLessThanWellFounded DEF OpToRel
  <1>2. PICK x \in T : \A y \in T : ~ (<<y, x>> \in R)
    <2> HIDE DEF R
    <2> QED BY <1>1, WFMin, Zenon
  <1>3. ASSUME NEW y \in T
        PROVE  x <= y
    <2>1. ~ (<<y, x>> \in R)
      BY <1>2
    <2>2. <<y, x>> \in Nat \X Nat /\ <<y, x>>[1] = y /\ <<y, x>>[2] = x
      OBVIOUS
    <2> QED BY <2>1, <2>2
  <1> QED BY <1>3

\* Oldest, the position the scans and the erasing loop stop at, is an entry
\* of the set and precedes all the others.
LEMMA OldestIsFirst ==
  ASSUME TypeOK, EntriesInv, NEW S \in SUBSET queued, S # {}
  PROVE  /\ Oldest(S) \in S
         /\ \A s \in S : s = Oldest(S) \/ Older(Oldest(S), s)
  <1> DEFINE T == {enqueue_sequence[s] : s \in S}
  <1>1. T \in SUBSET Nat /\ T # {}
    BY DEF TypeOK
  <1>2. PICK x \in T : \A y \in T : x <= y
    <2> HIDE DEF T
    <2> QED BY <1>1, LeastNatural
  <1>3. PICK r \in S : enqueue_sequence[r] = x
    OBVIOUS
  <1>4. ASSUME NEW s \in S, s # r
        PROVE  Older(r, s)
    <2>1. enqueue_sequence[r] <= enqueue_sequence[s]
      BY <1>2, <1>3
    <2>2. enqueue_sequence[r] # enqueue_sequence[s]
      BY <1>4 DEF EntriesInv
    <2>3. enqueue_sequence[r] \in Nat /\ enqueue_sequence[s] \in Nat
      BY DEF TypeOK
    <2> QED BY <2>1, <2>2, <2>3 DEF Older
  <1> QED BY <1>4 DEF Oldest

\* Erase keeps size equal to the number of entries.
LEMMA EraseCounts ==
  ASSUME TypeOK, EntriesInv, NEW S \in SUBSET queued, Erase(S)
  PROVE  /\ queued' \subseteq queued
         /\ IsFiniteSet(queued')
         /\ size' = Cardinality(queued')
         /\ size' \in 0 .. capacity
         /\ S # {} => size' < size
  <1>1. IsFiniteSet(queued) /\ size = Cardinality(queued) /\ size \in Nat
    BY ConfigAssumption DEF EntriesInv, SizeCountsEntries, TypeOK
  <1>2. /\ IsFiniteSet(S)
        /\ Cardinality(S) <= Cardinality(queued)
        /\ Cardinality(S) \in Nat
    BY <1>1, FS_Subset, FS_CardinalityType
  <1>3. queued \cap S = S
    OBVIOUS
  <1>4. /\ IsFiniteSet(queued \ S)
        /\ Cardinality(queued \ S) = Cardinality(queued) - Cardinality(S)
    BY <1>1, <1>3, FS_Difference
  <1>5. S # {} => Cardinality(S) # 0
    BY <1>2, FS_EmptySet
  <1> QED BY <1>1, <1>2, <1>4, <1>5, ConfigAssumption DEF Erase, TypeOK

\* The entries older than r are finitely many, and fewer after an erasure.
LEMMA OlderThanShrinks ==
  ASSUME IsFiniteSet(queued), queued' \subseteq queued,
         UNCHANGED enqueue_sequence, NEW r
  PROVE  /\ IsFiniteSet(OlderThan(r))
         /\ Cardinality(OlderThan(r)) \in Nat
         /\ IsFiniteSet(OlderThan(r)')
         /\ Cardinality(OlderThan(r)') \in Nat
         /\ Cardinality(OlderThan(r)') <= Cardinality(OlderThan(r))
  <1>1. OlderThan(r) \in SUBSET queued
    BY DEF OlderThan
  <1>2. IsFiniteSet(OlderThan(r))
    BY <1>1, FS_Subset
  <1>3. OlderThan(r)' \in SUBSET OlderThan(r)
    BY DEF OlderThan, Older
  <1> QED BY <1>2, <1>3, FS_Subset, FS_CardinalityType

\* Erasing entries without dispatching keeps the order of the entries and
\* the bypass measure.
LEMMA EraseKeeps ==
  ASSUME TypeOK, EntriesInv, OlderBypassedMore, BypassMeasure,
         NEW S \in SUBSET queued, Erase(S), pc' # "check",
         UNCHANGED <<fresh, dead, enqueue_sequence, bypass_count, next_sequence>>
  PROVE  EntriesInv' /\ OlderBypassedMore' /\ BypassMeasure'
  <1>1. /\ queued' \subseteq queued
        /\ IsFiniteSet(queued')
        /\ size' = Cardinality(queued')
    BY EraseCounts
  <1>2. EntriesInv'
    BY <1>1 DEF EntriesInv, SizeCountsEntries
  <1>3. OlderBypassedMore'
    BY <1>1 DEF OlderBypassedMore, Live, Older
  <1>4. BypassMeasure'
    <2> SUFFICES ASSUME NEW r \in Starved'
                 PROVE  Measure(r)' <= MeasureBound
      BY DEF BypassMeasure, MeasureBound
    <2>1. r \in Starved /\ bypass_count[r] \in Nat
      BY <1>1, Zenon DEF Starved, Live, TypeOK
    <2>2. /\ Cardinality(OlderThan(r)') <= Cardinality(OlderThan(r))
          /\ Cardinality(OlderThan(r)') \in Nat
          /\ Cardinality(OlderThan(r)) \in Nat
      BY <1>1, OlderThanShrinks DEF EntriesInv
    <2>3. Measure(r)' <= Measure(r) /\ Measure(r) \in Nat /\ Measure(r)' \in Nat
      BY <2>1, <2>2 DEF Measure
    <2> QED BY <2>1, <2>3, ConfigAssumption DEF BypassMeasure, MeasureBound
  <1> QED BY <1>2, <1>3, <1>4

\* A step that leaves the entries alone keeps what is known of them; a death
\* only takes requests out of Live.
LEMMA EntriesUnchanged ==
  ASSUME EntriesInv, OlderBypassedMore, BypassMeasure,
         UNCHANGED <<fresh, entryVars, next_sequence>>,
         dead \subseteq dead', pc' = "check" => pc = "check"
  PROVE  EntriesInv' /\ OlderBypassedMore' /\ BypassMeasure'
  <1> USE DEF entryVars
  <1>1. EntriesInv'
    BY DEF EntriesInv, SizeCountsEntries
  <1>2. OlderBypassedMore'
    BY DEF OlderBypassedMore, Live, Older
  <1>3. BypassMeasure'
    <2>1. Starved' \subseteq Starved
      BY DEF Starved, Live
    <2>2. ASSUME NEW r
          PROVE  Measure(r)' = Measure(r)
      <3>1. OlderThan(r)' = OlderThan(r)
        BY DEF OlderThan, Older
      <3> QED BY <3>1 DEF Measure
    <2> QED BY <2>1, <2>2 DEF BypassMeasure, MeasureBound
  <1> QED BY <1>1, <1>2, <1>3

-----------------------------------------------------------------------------
(* The inductive invariant *)

\* The empty scheduler satisfies the invariant.
LEMMA InitEstablishes == Init => IInv
  <1> SUFFICES ASSUME Init PROVE IInv
    OBVIOUS
  <1>1. TypeOK
    <2>1. size \in 0 .. capacity
      BY ConfigAssumption DEF Init
    <2>2. pc \in Locations
      BY DEF Init, Locations, InNext
    <2> QED BY <2>1, <2>2, Zenon DEF Init, TypeOK
  <1>2. EntriesInv
    BY FS_EmptySet DEF Init, EntriesInv, SizeCountsEntries
  <1>3. OlderBypassedMore /\ LocalsInv /\ BypassMeasure
    BY DEF Init, OlderBypassedMore, LocalsInv, BypassMeasure, Live, Starved
  <1> QED BY <1>1, <1>2, <1>3 DEF IInv

\* A new entry is the youngest: no entry has more older ones than before.
LEMMA EnqueueKeeps ==
  ASSUME IInv, NEW r \in Requests, Enqueue(r)
  PROVE  IInv'
  <1> USE DEF IInv
  <1>1. r \notin queued /\ r \in fresh
    BY DEF Enqueue, EntriesInv
  <1>2. TypeOK'
    BY ConfigAssumption DEF Enqueue, TypeOK, HasRoom, localVars
  <1>3. /\ enqueue_sequence'[r] = next_sequence
        /\ bypass_count'[r] = 0
        /\ \A s \in queued : /\ s # r
                            /\ enqueue_sequence'[s] = enqueue_sequence[s]
                            /\ bypass_count'[s] = bypass_count[s]
    BY <1>1, Zenon DEF Enqueue, TypeOK
  <1>4. EntriesInv'
    <2>1. IsFiniteSet(queued') /\ Cardinality(queued') = Cardinality(queued) + 1
      BY <1>1, FS_AddElement DEF Enqueue, EntriesInv
    <2>2. SizeCountsEntries'
      BY <2>1 DEF Enqueue, EntriesInv, SizeCountsEntries
    <2>3. \A s \in queued' : enqueue_sequence'[s] < next_sequence'
      BY <1>3 DEF Enqueue, EntriesInv, TypeOK
    <2>4. \A s, t \in queued' : s # t => enqueue_sequence'[s] # enqueue_sequence'[t]
      BY <1>3 DEF Enqueue, EntriesInv, TypeOK
    <2>5. (fresh \cap queued)' = {}
      BY Zenon DEF Enqueue, EntriesInv
    <2> QED BY <2>1, <2>2, <2>3, <2>4, <2>5, Zenon DEF EntriesInv
  <1>5. \A s \in queued : ~ Older(r, s)'
    BY <1>3 DEF Older, EntriesInv, TypeOK
  <1>6. OlderBypassedMore'
    <2> SUFFICES ASSUME NEW s \in Live', NEW t \in queued', Older(s, t)'
                 PROVE  bypass_count'[t] <= bypass_count'[s]
      BY DEF OlderBypassedMore
    <2>1. CASE t = r
      BY <2>1, <1>2, <1>3 DEF Live, TypeOK
    <2>2. CASE t # r
      <3>1. t \in queued /\ s # r /\ s \in Live
        BY <2>2, <1>2, <1>5, Zenon DEF Enqueue, Live
      <3>2. Older(s, t)
        BY <3>1, <1>3, Zenon DEF Older, Live
      <3> QED BY <3>1, <3>2, <1>3 DEF OlderBypassedMore, Live
    <2> QED BY <2>1, <2>2
  <1>7. LocalsInv'
    BY DEF Enqueue, LocalsInv, LockFree, InNext
  <1>8. BypassMeasure'
    <2> SUFFICES ASSUME NEW s \in Starved'
                 PROVE  (Measure(s) <= MeasureBound)'
      BY SMTT(60) DEF BypassMeasure, Enqueue, LockFree, InNext
    <2>1. s # r
      BY <1>3, ConfigAssumption DEF Starved
    <2>2. s \in Starved
      BY <2>1, <1>3, Zenon DEF Starved, Live, Enqueue
    <2>3. OlderThan(s)' = OlderThan(s)
      BY <2>2, <1>3, <1>5, Zenon DEF OlderThan, Older, Enqueue, Starved, Live
    <2>4. Measure(s)' = Measure(s)
      BY <2>2, <2>3, <1>3 DEF Measure, Starved, Live
    <2> QED BY <2>2, <2>4 DEF BypassMeasure, MeasureBound
  <1> QED BY <1>2, <1>4, <1>6, <1>7, <1>8, Zenon

\* A death, a refusal or close(): entries stay, requests only leave Live.
LEMMA OutsiderKeeps ==
  ASSUME IInv, Close \/ \E r \in Requests : Die(r) \/ Refuse(r)
  PROVE  IInv'
  <1> USE DEF IInv
  <1>1. /\ dead \subseteq dead' /\ dead' \subseteq Requests
        /\ fresh' \subseteq fresh
        /\ closed' \in BOOLEAN
        /\ UNCHANGED <<entryVars, next_sequence, metrics, pc, localVars, dispatched>>
    BY Zenon DEF Close, Die, Refuse, TypeOK
  <1> USE DEF entryVars, localVars
  <1>2. TypeOK'
    BY <1>1 DEF TypeOK
  <1>3. EntriesInv' /\ OlderBypassedMore' /\ BypassMeasure'
    <2>1. EntriesInv'
      BY <1>1 DEF EntriesInv, SizeCountsEntries
    <2>2. OlderBypassedMore'
      BY <1>1 DEF OlderBypassedMore, Live, Older
    <2>3. Starved' \subseteq Starved
      BY <1>1 DEF Starved, Live
    <2>4. ASSUME NEW r
          PROVE  Measure(r)' = Measure(r)
      <3>1. OlderThan(r)' = OlderThan(r)
        BY <1>1 DEF OlderThan, Older
      <3> QED BY <3>1, <1>1 DEF Measure
    <2>5. BypassMeasure'
      BY <1>1, <2>3, <2>4, Zenon DEF BypassMeasure, MeasureBound
    <2> QED BY <2>1, <2>2, <2>5, Zenon
  <1>4. LocalsInv'
    <2>1. Starved' \subseteq Starved
      BY <1>1 DEF Starved, Live
    <2>2. \A m : Group(m)' = Group(m)
      BY <1>1 DEF Group
    <2>3. \A r, q : Older(r, q)' = Older(r, q)
      BY <1>1 DEF Older
    <2> QED BY <1>1, <2>1, <2>2, <2>3 DEF LocalsInv
  <1> QED BY <1>2, <1>3, <1>4

\* The three places that prune and go on or return nothing.
LEMMA PruneKeeps ==
  ASSUME IInv, NextCall \/ SelectPrune \/ NothingToChoose
  PROVE  IInv'
  <1> USE DEF IInv
  <1>1. /\ Erase(queued \cap dead)
        /\ pc' \in {"exited", "select", "oldest"}
        /\ UNCHANGED <<fresh, dead, enqueue_sequence, bypass_count,
                       next_sequence, closed, metrics, dispatched>>
        /\ oldest_global_seq' = NoSequence /\ chosen' = None
        /\ starvation' = FALSE /\ selected' = None
    BY DEF NextCall, SelectPrune, NothingToChoose, prune_dead_entries_locked, Leave
  <1>2. queued' \subseteq queued /\ size' \in 0 .. capacity
    BY <1>1, EraseCounts
  <1>3. pc' \in Locations /\ pc' \notin {"group", "take", "check"}
    BY <1>1 DEF Locations, InNext
  <1>4. TypeOK'
    BY <1>1, <1>2, <1>3, Zenon DEF TypeOK
  <1>5. EntriesInv' /\ OlderBypassedMore' /\ BypassMeasure'
    BY <1>1, <1>3, EraseKeeps, Zenon
  <1>6. LocalsInv'
    BY <1>3 DEF LocalsInv
  <1> QED BY <1>4, <1>5, <1>6, Zenon

\* The scans, and the retry after the selected request died, touch only the
\* locals of select_locked().
LEMMA ScanKeeps ==
  ASSUME IInv, ScanOldest \/ ScanStarved \/ ScanGroups \/ SelectedDied
  PROVE  IInv'
  <1> USE DEF IInv
  <1>1. /\ UNCHANGED <<fresh, dead, queued, enqueue_sequence, bypass_count,
                       size, next_sequence, closed, metrics, dispatched>>
        /\ pc' \in {"starved", "take", "group", "select"}
    BY DEF ScanOldest, ScanStarved, ScanGroups, SelectedDied, Leave, entryVars
  <1>2. pc' \in Locations /\ pc' # "check"
    BY <1>1 DEF Locations, InNext
  <1>3. EntriesInv' /\ OlderBypassedMore' /\ BypassMeasure'
    BY <1>1, <1>2, EntriesUnchanged DEF entryVars
  <1>4. CASE ScanOldest
    <2> DEFINE fronts == {r \in Live : \A q \in Group(model_id[r]) : ~Older(q, r)}
    <2>1. fronts \in SUBSET queued
      BY DEF Live
    <2>2. fronts # {} => enqueue_sequence[Oldest(fronts)] \in Nat
      <3> HIDE DEF fronts
      <3> QED BY <2>1, OldestIsFirst, Zenon DEF TypeOK
    <2>3. oldest_global_seq' \in Nat \cup {NoSequence}
      BY <1>4, <2>2, Zenon DEF ScanOldest
    <2>4. UNCHANGED <<chosen, starvation, selected>> /\ pc' = "starved"
      BY <1>4, Zenon DEF ScanOldest
    <2>5. TypeOK'
      BY <1>1, <1>2, <2>3, <2>4, ZenonT(60) DEF TypeOK
    <2>6. LocalsInv'
      BY <2>4 DEF LocalsInv
    <2> QED BY <1>3, <2>5, <2>6
  <1>5. CASE ScanStarved
    <2>1. Starved \in SUBSET queued /\ Starved' = Starved
      BY <1>1 DEF Starved, Live
    <2>2. ASSUME Starved # {}
          PROVE  /\ Oldest(Starved) \in Starved
                 /\ \A r \in Starved : r = Oldest(Starved) \/ Older(Oldest(Starved), r)
      BY <2>1, <2>2, OldestIsFirst, Zenon
    <2>3. TypeOK'
      BY <1>1, <1>2, <1>5, <2>1, <2>2, Zenon DEF TypeOK, ScanStarved
    <2>4. CASE Starved # {}
      <3>1. pc' = "take" /\ starvation' = TRUE /\ chosen' = Oldest(Starved)
        BY <1>5, <2>4, Zenon DEF ScanStarved
      <3>2. chosen' \in queued' /\ bypass_count'[chosen'] >= max_bypass
        BY <3>1, <1>1, <2>1, <2>2, <2>4, Zenon DEF Starved
      <3>3. \A r \in Starved' : r = chosen' \/ Older(chosen, r)'
        BY <3>1, <1>1, <2>1, <2>2, <2>4, Zenon DEF Older
      <3>4. LocalsInv'
        BY <3>1, <3>2, <3>3, Zenon DEF LocalsInv
      <3> QED BY <1>3, <2>3, <3>4
    <2>5. CASE Starved = {}
      <3>1. pc' = "group" /\ ~starvation'
        BY <1>5, <2>5, Zenon DEF ScanStarved
      <3>2. LocalsInv'
        BY <3>1, <2>1, <2>5, Zenon DEF LocalsInv
      <3> QED BY <1>3, <2>3, <3>2
    <2> QED BY <2>4, <2>5
  <1>6. CASE ScanGroups
    <2>1. PICK m \in Models : LiveGroup(m) # {} /\ chosen' = Oldest(Group(m))
      BY <1>6, Zenon DEF ScanGroups
    <2>2. /\ pc = "group" /\ pc' = "take"
          /\ UNCHANGED <<oldest_global_seq, starvation, selected>>
      BY <1>6 DEF ScanGroups
    <2>3. Group(m) \in SUBSET queued /\ Group(m) # {}
      BY <2>1, Zenon DEF Group, LiveGroup
    <2>4. /\ chosen' \in Group(m)
          /\ \A q \in Group(m) : q = chosen' \/ enqueue_sequence[chosen'] < enqueue_sequence[q]
      BY <2>1, <2>3, OldestIsFirst, Zenon DEF Older
    <2>5. chosen' \in queued /\ chosen' \in Requests /\ model_id[chosen'] = m
      BY <2>4, Zenon DEF Group, TypeOK
    <2>6. TypeOK'
      BY <1>1, <1>2, <2>2, <2>5, Zenon DEF TypeOK
    <2>7. Starved' = {}
      BY <1>1, <2>2, Zenon DEF LocalsInv, Starved, Live
    <2>8. \A q \in Group(model_id[chosen])' : ~Older(q, chosen)'
      <3>1. Group(model_id[chosen])' = Group(m)
        BY <1>1, <2>5, Zenon DEF Group
      <3>2. \A q \in Group(m) : enqueue_sequence[q] \in Nat
        BY <2>3, Zenon DEF TypeOK
      <3> QED BY <3>1, <3>2, <2>4, <1>1 DEF Older
    <2>9. LocalsInv'
      <3>1. ~starvation'
        BY <2>2, Zenon DEF LocalsInv
      <3> QED BY <1>1, <2>2, <2>5, <2>7, <2>8, <3>1, Zenon DEF LocalsInv
    <2> QED BY <1>3, <2>6, <2>9, Zenon
  <1>7. CASE SelectedDied
    <2>1. TypeOK'
      BY <1>1, <1>2, <1>7, ZenonT(60) DEF SelectedDied, Leave, TypeOK
    <2>2. LocalsInv'
      BY <1>7 DEF SelectedDied, Leave, LocalsInv
    <2> QED BY <1>3, <2>1, <2>2
  <1> QED BY <1>4, <1>5, <1>6, <1>7, Zenon

\* Taking out the selected entry removes the chosen one with it, so every
\* starved entry that is left has one older entry fewer; and everything older
\* in the deque of the selected request is dead.
LEMMA TakeKeeps ==
  ASSUME IInv, Take
  PROVE  IInv'
  <1> USE DEF IInv
  <1>1. /\ pc = "take"
        /\ UNCHANGED <<fresh, dead, enqueue_sequence, bypass_count,
                       next_sequence, closed, metrics, dispatched>>
    BY Zenon DEF Take
  <1>2. chosen \in queued /\ FromChosen \in SUBSET queued
    BY <1>1 DEF LocalsInv, FromChosen, Group
  <1>3. CASE FromChosen \subseteq dead
    <2>1. Erase(FromChosen) /\ Leave("select")
      BY <1>3 DEF Take
    <2>2. queued' \subseteq queued /\ size' \in 0 .. capacity
      BY <1>2, <2>1, EraseCounts
    <2>3. pc' = "select" /\ pc' \in Locations
      BY <2>1 DEF Leave, Locations, InNext
    <2>4. TypeOK'
      BY <1>1, <2>1, <2>2, <2>3, Zenon DEF Leave, TypeOK
    <2>5. EntriesInv' /\ OlderBypassedMore' /\ BypassMeasure'
      BY <1>1, <1>2, <2>1, <2>3, EraseKeeps, Zenon
    <2>6. LocalsInv'
      BY <2>3, Zenon DEF LocalsInv
    <2> QED BY <2>4, <2>5, <2>6, Zenon
  <1>4. CASE ~(FromChosen \subseteq dead)
    <2> DEFINE first == Oldest(FromChosen \ dead)
               taken == {r \in FromChosen : ~Older(first, r)}
    <2>1. /\ selected' = first
          /\ Erase(taken)
          /\ pc' = "check"
          /\ UNCHANGED <<oldest_global_seq, chosen, starvation>>
      BY <1>4 DEF Take, Older
    <2>2. /\ first \in FromChosen /\ first \notin dead
          /\ \A r \in FromChosen \ dead : r = first \/ Older(first, r)
      <3>1. FromChosen \ dead \in SUBSET queued /\ FromChosen \ dead # {}
        BY <1>2, <1>4, Zenon
      <3> QED BY <3>1, OldestIsFirst
    <2> HIDE DEF first
    <2>3. /\ first \in queued /\ first \in Requests
          /\ model_id[first] = model_id[chosen] /\ ~Older(first, chosen)
      BY <1>2, <2>2, Zenon DEF FromChosen, Group, TypeOK
    <2>4. chosen \in taken
      BY <1>2, <2>3 DEF FromChosen, Group, Older, TypeOK
    <2>5. taken \in SUBSET queued /\ taken # {}
      BY <1>2, <2>4, Zenon
    <2>6. /\ queued' = queued \ taken
          /\ IsFiniteSet(queued')
          /\ size' = Cardinality(queued')
          /\ size' \in 0 .. capacity
          /\ size' < size
      <3>1. queued' = queued \ taken
        BY <2>1, Zenon DEF Erase
      <3> HIDE DEF taken
      <3> QED BY <3>1, <2>1, <2>5, EraseCounts, Zenon
    <2>7. TypeOK'
      <3>1. pc' \in Locations
        BY <2>1, Zenon DEF Locations, InNext
      <3>2. queued' \subseteq Requests
        BY <2>6, Zenon DEF TypeOK
      <3> QED BY <1>1, <2>1, <2>3, <2>6, <3>1, <3>2, Zenon DEF TypeOK
    <2>8. EntriesInv'
      BY <1>1, <2>6, Zenon DEF EntriesInv, SizeCountsEntries
    <2>9. OlderBypassedMore'
      BY <1>1, <2>6, Zenon DEF OlderBypassedMore, Live, Older
    <2>10. LocalsInv'
      <3>1. size' < capacity
        BY <2>6, ConfigAssumption DEF TypeOK
      <3>2. ASSUME NEW q \in Group(model_id[selected])', Older(q, selected)'
            PROVE  q \in dead'
        <4>1. /\ q \in queued /\ q \notin taken
              /\ model_id[q] = model_id[chosen] /\ Older(q, first)
          BY <3>2, <1>1, <2>1, <2>3, <2>6, Zenon DEF Group, Older
        <4>2. ~Older(first, q)
          BY <4>1, <2>3 DEF Older, TypeOK
        <4>3. q \notin FromChosen
          BY <4>1, <4>2, Zenon
        <4>4. Older(q, chosen)
          BY <4>1, <4>3, Zenon DEF FromChosen, Group
        <4>5. CASE starvation
          <5> SUFFICES ASSUME q \notin dead PROVE FALSE
            BY <1>1, Zenon
          <5>1. bypass_count[chosen] <= bypass_count[q]
            BY <4>1, <4>4, <1>2, Zenon DEF OlderBypassedMore, Live
          <5>2. bypass_count[chosen] >= max_bypass
            BY <1>1, <4>5, Zenon DEF LocalsInv
          <5>3. q \in Starved
            BY <5>1, <5>2, <4>1, <1>2, ConfigAssumption DEF Starved, Live, TypeOK
          <5>4. q = chosen \/ Older(chosen, q)
            BY <5>3, <1>1, <4>5, Zenon DEF LocalsInv
          <5> QED BY <5>4, <4>1, <4>4, <1>2 DEF Older, TypeOK
        <4>6. CASE ~starvation
          BY <1>1, <4>1, <4>4, <4>6, ZenonT(60) DEF LocalsInv, Group
        <4> QED BY <4>5, <4>6, Zenon
      <3> QED BY <2>1, <2>3, <3>1, <3>2, Zenon DEF LocalsInv
    <2>11. BypassMeasure'
      <3> SUFFICES ASSUME NEW r \in Starved'
                   PROVE  Measure(r)' < MeasureBound /\ Measure(r)' \in Nat
        BY ConfigAssumption DEF BypassMeasure, MeasureBound
      <3>1. /\ r \in Starved /\ r \in queued /\ r \notin taken
            /\ bypass_count[r] \in Nat
        BY <1>1, <2>6, Zenon DEF Starved, Live, TypeOK
      <3>2. starvation /\ Older(chosen, r)
        BY <3>1, <1>1, <2>4, Zenon DEF LocalsInv
      <3>3. chosen \in OlderThan(r) /\ chosen \notin OlderThan(r)'
        BY <3>2, <1>2, <2>4, <2>6, Zenon DEF OlderThan
      <3>4. /\ IsFiniteSet(OlderThan(r))
            /\ Cardinality(OlderThan(r)) \in Nat
            /\ IsFiniteSet(OlderThan(r)')
            /\ Cardinality(OlderThan(r)') \in Nat
        BY <1>1, <2>6, OlderThanShrinks, Zenon DEF EntriesInv
      <3>5. OlderThan(r)' \in SUBSET OlderThan(r)
        BY <1>1, <2>6, Zenon DEF OlderThan, Older
      <3>6. Cardinality(OlderThan(r)') < Cardinality(OlderThan(r))
        BY <3>3, <3>4, <3>5, FS_Subset
      <3>7. Measure(r) <= MeasureBound
        BY <3>1, Zenon DEF BypassMeasure
      <3> QED BY <3>1, <3>4, <3>6, <3>7, <1>1, ConfigAssumption
              DEF Measure, MeasureBound
    <2> QED BY <2>7, <2>8, <2>9, <2>10, <2>11, Zenon
  <1> QED BY <1>3, <1>4, Zenon

\* A dispatch bypasses every live entry once.  An entry that becomes starved
\* by it has at most the other size - 1 entries before it.
LEMMA DispatchKeeps ==
  ASSUME IInv, Dispatch
  PROVE  IInv'
  <1> USE DEF IInv
  <1>1. /\ pc = "check" /\ pc' = "wait" /\ pc' \in Locations
        /\ UNCHANGED <<fresh, dead, queued, enqueue_sequence, size,
                       next_sequence, closed>>
    BY Zenon DEF Dispatch, Leave, Locations, InNext
  <1>2. selected \in Requests /\ size < capacity
    BY <1>1, Zenon DEF LocalsInv
  <1>3. bypass_count' \in [Requests -> Nat]
    BY DEF Dispatch, Bump, TypeOK
  <1>4. \A r \in Requests :
          /\ bypass_count[r] \in Nat
          /\ r \in Live => bypass_count'[r] = bypass_count[r] + 1
          /\ bypass_count'[r] <= bypass_count[r] + 1
    BY DEF Dispatch, Bump, Bypassed, TypeOK
  <1>5. TypeOK'
    <2>1. metrics' \in [reordered_dispatches : Nat, starvation_promotions : Nat]
      BY DEF Dispatch, Bump, TypeOK
    <2> QED BY <1>1, <1>2, <1>3, <2>1, ZenonT(60) DEF Dispatch, Leave, TypeOK
  <1>6. EntriesInv'
    BY <1>1 DEF EntriesInv, SizeCountsEntries
  <1>7. OlderBypassedMore'
    <2> SUFFICES ASSUME NEW r \in Live, NEW q \in queued, Older(r, q)
                 PROVE  bypass_count'[q] <= bypass_count'[r]
      BY <1>1 DEF OlderBypassedMore, Live, Older
    <2>1. bypass_count[q] <= bypass_count[r]
      BY DEF OlderBypassedMore
    <2>2. q \in Requests /\ r \in Requests
      BY Zenon DEF Live, TypeOK
    <2> QED BY <1>3, <1>4, <2>1, <2>2
  <1>8. LocalsInv'
    BY <1>1 DEF LocalsInv
  <1>9. BypassMeasure'
    <2> SUFFICES ASSUME NEW r \in Starved'
                 PROVE  Measure(r)' <= MeasureBound
      BY <1>1, Zenon DEF BypassMeasure, MeasureBound
    <2>1. /\ r \in Live /\ r \in queued /\ r \in Requests
          /\ bypass_count'[r] >= max_bypass
      BY <1>1, Zenon DEF Starved, Live, TypeOK
    <2>2. OlderThan(r)' = OlderThan(r)
      BY <1>1, Zenon DEF OlderThan, Older
    <2>3. IsFiniteSet(OlderThan(r)) /\ Cardinality(OlderThan(r)) \in Nat
      BY <1>1, OlderThanShrinks, Zenon DEF EntriesInv
    <2>4. Measure(r)' = bypass_count[r] + 1 + Cardinality(OlderThan(r))
      BY <1>4, <2>1, <2>2, <2>3, Zenon DEF Measure
    <2>5. CASE r \in Starved
      <3>1. Measure(r) < MeasureBound
        BY <1>1, <2>5, Zenon DEF BypassMeasure
      <3> QED BY <3>1, <1>4, <2>1, <2>3, <2>4, ConfigAssumption
              DEF Measure, MeasureBound
    <2>6. CASE r \notin Starved
      <3>1. bypass_count[r] + 1 = max_bypass
        BY <2>6, <2>1, <1>4, ConfigAssumption DEF Starved
      <3>2. r \notin OlderThan(r)
        BY <2>1 DEF OlderThan, Older, TypeOK
      <3>3. OlderThan(r) \in SUBSET (queued \ {r})
        BY <3>2 DEF OlderThan
      <3>4. /\ IsFiniteSet(queued \ {r})
            /\ Cardinality(queued \ {r}) = size - 1
        BY <2>1, FS_RemoveElement, Zenon DEF EntriesInv, SizeCountsEntries
      <3>5. Cardinality(OlderThan(r)) <= size - 1
        BY <3>3, <3>4, FS_Subset
      <3> QED BY <3>1, <3>5, <2>3, <2>4, <1>2, ConfigAssumption, SMTT(60)
              DEF MeasureBound, TypeOK
    <2> QED BY <2>5, <2>6, Zenon
  <1> QED BY <1>5, <1>6, <1>7, <1>8, <1>9

\* Every step of the scheduler preserves the invariant.
LEMMA StepKeeps == IInv /\ [Next]_vars => IInv'
  <1> SUFFICES ASSUME IInv, [Next]_vars PROVE IInv'
    OBVIOUS
  <1>1. ASSUME NEW r \in Requests, Enqueue(r) PROVE IInv'
    BY <1>1, EnqueueKeeps, Zenon
  <1>2. CASE Close \/ \E r \in Requests : Die(r) \/ Refuse(r)
    BY <1>2, OutsiderKeeps, Zenon
  <1>3. CASE NextCall \/ SelectPrune \/ NothingToChoose
    BY <1>3, PruneKeeps
  <1>4. CASE ScanOldest \/ ScanStarved \/ ScanGroups \/ SelectedDied
    BY <1>4, ScanKeeps
  <1>5. CASE Take
    BY <1>5, TakeKeeps
  <1>6. CASE Dispatch
    BY <1>6, DispatchKeeps, ZenonT(60)
  <1>7. CASE UNCHANGED vars
    BY <1>7 DEF vars, entryVars, localVars, IInv, TypeOK, EntriesInv,
            SizeCountsEntries, OlderBypassedMore, LocalsInv, BypassMeasure,
            Measure, MeasureBound, OlderThan, Starved, Live, Older, Group
  <1> QED BY <1>1, <1>2, <1>3, <1>4, <1>5, <1>6, <1>7, Zenon DEF Next, RoutingThread

\* The inductive invariant holds in every reachable state.
THEOREM IInvHolds == Spec => []IInv
  BY InitEstablishes, StepKeeps, PTL DEF Spec

-----------------------------------------------------------------------------
(* The properties *)

\* Every variable keeps its type; in particular size_ stays within capacity_.
THEOREM TypeCorrect == Spec => []TypeOK
  <1>1. IInv => TypeOK
    BY Zenon DEF IInv
  <1> QED BY <1>1, IInvHolds, PTL

\* size_ is the number of entries of by_model_ in every reachable state.
THEOREM SizeCorrect == Spec => []SizeCountsEntries
  <1>1. IInv => SizeCountsEntries
    BY DEF IInv, EntriesInv
  <1> QED BY <1>1, IInvHolds, PTL

\* A live entry was bypassed at least as often as any younger one.
THEOREM OlderBypassedMoreHolds == Spec => []OlderBypassedMore
  <1>1. IInv => OlderBypassedMore
    BY Zenon DEF IInv
  <1> QED BY <1>1, IInvHolds, PTL

\* No live request is bypassed more than max_bypass + capacity - 2 times,
\* whatever arrives and whatever dies during next().
THEOREM BypassBounded == Spec => []BypassBound
  <1>1. ASSUME IInv, NEW r \in Live
        PROVE  bypass_count[r] <= max_bypass + capacity - 2
    <2>1. bypass_count[r] \in Nat
      BY <1>1, Zenon DEF IInv, TypeOK, Live
    <2>2. CASE r \in Starved
      <3>1. OlderThan(r) \in SUBSET queued
        BY Zenon DEF OlderThan
      <3>2. Cardinality(OlderThan(r)) \in Nat
        BY <1>1, <3>1, FS_Subset, FS_CardinalityType, Zenon DEF IInv, EntriesInv
      <3>3. Measure(r) <= MeasureBound
        BY <1>1, <2>2, Zenon DEF IInv, BypassMeasure
      <3> QED BY <2>1, <3>2, <3>3, ConfigAssumption DEF Measure, MeasureBound
    <2>3. CASE r \notin Starved
      BY <2>1, <2>3, ConfigAssumption DEF Starved
    <2> QED BY <2>2, <2>3, Zenon
  <1>2. IInv => BypassBound
    BY <1>1 DEF BypassBound
  <1> QED BY <1>2, IInvHolds, PTL

\* Requests of one model are dispatched in the order of their arrival.
THEOREM FifoWithinModelHolds == Spec => FifoWithinModel
  <1>1. ASSUME IInv, [Next]_vars,
               NEW r \in dispatched' \ dispatched, NEW q \in queued,
               model_id[q] = model_id[r], Older(q, r)
        PROVE  q \in dead
    <2>1. Dispatch
      BY <1>1, ZenonT(60) DEF Next, RoutingThread, vars, Die, Enqueue, Refuse, Close,
              NextCall, SelectPrune, ScanOldest, ScanStarved, ScanGroups,
              NothingToChoose, Take, SelectedDied
    <2>2. r = selected /\ pc = "check"
      BY <1>1, <2>1, Zenon DEF Dispatch
    <2> QED BY <1>1, <2>2, SMTT(60) DEF IInv, LocalsInv, Group
  <1>2. IInv /\ [Next]_vars =>
          [\A r \in dispatched' \ dispatched :
             \A s \in queued :
               model_id[s] = model_id[r] /\ Older(s, r) => s \in dead]_vars
    BY <1>1
  <1> QED BY <1>2, IInvHolds, PTL DEF Spec, FifoWithinModel

\* Who holds a live request; only next() between Take and its return holds
\* one outside the queue.
CustodyInv ==
  /\ NoLiveRequestLost
  /\ fresh \cap dispatched = {}
  /\ pc # "check" => selected = None
  /\ pc = "check" => selected \notin fresh

\* No live request is lost, or returned twice, by pruning, erasing, retrying
\* or dispatching.
THEOREM NoLiveRequestLostHolds == Spec => []NoLiveRequestLost
  <1>1. Init => CustodyInv
    BY SMTT(60) DEF Init, CustodyInv, NoLiveRequestLost
  <1>2. ASSUME IInv, CustodyInv, [Next]_vars
        PROVE  CustodyInv'
    <2> USE <1>2, ConfigAssumption
        DEF IInv, CustodyInv, NoLiveRequestLost, TypeOK, EntriesInv,
            entryVars, localVars
    <2>1. CASE UNCHANGED vars
      BY <2>1, Zenon DEF vars
    <2>2. ASSUME NEW r \in Requests, Die(r) PROVE CustodyInv'
      BY <2>2, Zenon DEF Die
    <2>3. ASSUME NEW r \in Requests, Enqueue(r) PROVE CustodyInv'
      BY <2>3, Zenon DEF Enqueue, LockFree, InNext
    <2>4. ASSUME NEW r \in Requests, Refuse(r) PROVE CustodyInv'
      BY <2>4, Zenon DEF Refuse, LockFree, InNext
    <2>5. CASE Close
      BY <2>5, Zenon DEF Close
    <2>6. CASE NextCall \/ SelectPrune \/ NothingToChoose
      BY <2>6, Zenon DEF NextCall, SelectPrune, NothingToChoose, Leave,
              prune_dead_entries_locked, Erase
    <2>7. CASE ScanOldest \/ ScanStarved \/ ScanGroups
      BY <2>7, Zenon DEF ScanOldest, ScanStarved, ScanGroups
    <2>8. CASE Take
      <3>1. CASE FromChosen \subseteq dead
        BY <2>8, <3>1 DEF Take, Leave, Erase
      <3>2. CASE ~(FromChosen \subseteq dead)
        <4>1. FromChosen \ dead \in SUBSET queued /\ FromChosen \ dead # {}
          BY <3>2, ZenonT(60) DEF FromChosen, Group
        <4>2. /\ selected' \in FromChosen \ dead
              /\ \A r \in FromChosen \ dead :
                   r = selected' \/ enqueue_sequence[selected'] < enqueue_sequence[r]
          BY <2>8, <3>2, <4>1, OldestIsFirst, SMTT(60) DEF Take, Older
        <4>3. /\ queued' = queued \ {r \in FromChosen :
                                  ~(enqueue_sequence[selected'] < enqueue_sequence[r])}
              /\ pc = "take" /\ pc' = "check"
              /\ UNCHANGED <<fresh, dead, dispatched>>
          BY <2>8, <3>2, ZenonT(60) DEF Take, Erase, Older
        <4>4. \A r \in queued \ queued' : r \in dead \/ r = selected'
          BY <4>2, <4>3, ZenonT(60)
        <4>5. selected' \in queued /\ selected' \notin queued'
          BY <4>1, <4>2, <4>3
        <4> QED BY <4>3, <4>4, <4>5, Zenon
      <3> QED BY <3>1, <3>2, ZenonT(60)
    <2>9. CASE SelectedDied
      BY <2>9, ZenonT(60) DEF SelectedDied, Leave
    <2>10. CASE Dispatch
      BY <2>10 DEF Dispatch, Leave
    <2> QED BY <2>1, <2>2, <2>3, <2>4, <2>5, <2>6, <2>7, <2>8, <2>9, <2>10, ZenonT(60)
            DEF Next, RoutingThread
  <1>3. CustodyInv => NoLiveRequestLost
    BY DEF CustodyInv
  <1> QED BY <1>1, <1>2, <1>3, IInvHolds, PTL DEF Spec

=============================================================================
