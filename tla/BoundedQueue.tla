---------------------------- MODULE BoundedQueue ----------------------------
(***************************************************************************)
(* The blocking queue (include/airuntime/bounded_queue.hpp): a deque       *)
(* guarded by one mutex with the condition variables not_full_ and         *)
(* not_empty_.  What a thread does between taking the mutex and releasing  *)
(* it (by returning, or by waiting) is one step.  A thread that waits on a *)
(* condition variable is woken by notify_one, by notify_all, spuriously or *)
(* by its deadline, and then takes the mutex again; until it has, other    *)
(* threads may get in first.                                               *)
(***************************************************************************)
EXTENDS Naturals, Sequences, FiniteSets

CONSTANTS
  Threads,     \* threads that use the queue
  Values,      \* values they push, each at most once
  Ops,         \* the operations they call
  capacity,    \* capacity_
  NoValue      \* no value

ASSUME CapacityAssumption == capacity \in Nat \ {0}

PushOps == {"try_push", "wait_push", "wait_push_until"}
PopOps == {"wait_pop", "wait_pop_until"}

ASSUME OpsAssumption == Ops \subseteq PushOps \cup PopOps

VARIABLES
  queue,       \* queue_, front first
  closed,      \* closed_
  not_full,    \* threads waiting on not_full_
  not_empty,   \* threads waiting on not_empty_
  woken,       \* threads that were woken and have not taken the mutex yet
  call,        \* the operation each thread is in, and its argument
  unsent,      \* values not yet given to a push
  popped,      \* history: the values returned by the pops, in order
  swallowed    \* history: a woken wait_push_until() has given up

queueVars == <<queue, closed, not_full, not_empty, woken, call, unsent, popped, swallowed>>

NoCall == [op |-> "none", value |-> NoValue]

QueueInit ==
  /\ queue = <<>>
  /\ closed = FALSE
  /\ not_full = {}
  /\ not_empty = {}
  /\ woken = {}
  /\ call = [t \in Threads |-> NoCall]
  /\ unsent = Values
  /\ popped = <<>>
  /\ swallowed = FALSE

HasRoom == Len(queue) < capacity

\* The condition variable after notify_one, which wakes one waiter if there
\* is one, and the threads that are awake.
notify_one(cv, cv_after, awake, awake_after) ==
  \/ cv = {} /\ cv_after = cv /\ awake_after = awake
  \/ \E t \in cv : cv_after = cv \ {t} /\ awake_after = awake \cup {t}

EndCall(t) == call' = [call EXCEPT ![t] = NoCall]

\* The part of a push that runs with the mutex held, from the call or from
\* the end of a wait.
PushLocked(t, op, x) ==
  \/ /\ ~closed /\ HasRoom
     /\ queue' = Append(queue, x)
     /\ notify_one(not_empty, not_empty', woken \ {t}, woken')
     /\ EndCall(t)
     /\ UNCHANGED <<closed, not_full, popped>>
  \/ /\ closed \/ (~HasRoom /\ op = "try_push")
     /\ woken' = woken \ {t}
     /\ EndCall(t)
     /\ UNCHANGED <<queue, closed, not_full, not_empty, popped>>
  \/ /\ ~closed /\ ~HasRoom /\ op # "try_push"
     /\ not_full' = not_full \cup {t}
     /\ woken' = woken \ {t}
     /\ call' = [call EXCEPT ![t] = [op |-> op, value |-> x]]
     /\ UNCHANGED <<queue, closed, not_empty, popped>>

\* Variant: the newest value is returned.
PopBack(t) ==
  /\ queue # <<>>
  /\ queue' = SubSeq(queue, 1, Len(queue) - 1)
  /\ popped' = Append(popped, queue[Len(queue)])
  /\ notify_one(not_full, not_full', woken \ {t}, woken')
  /\ not_empty' = not_empty \ {t}
  /\ EndCall(t)
  /\ UNCHANGED closed

\* Variant: a pop tells no waiting push.
PopSilently(t) ==
  /\ queue # <<>>
  /\ queue' = Tail(queue)
  /\ popped' = Append(popped, Head(queue))
  /\ woken' = woken \ {t}
  /\ not_empty' = not_empty \ {t}
  /\ EndCall(t)
  /\ UNCHANGED <<closed, not_full>>

\* The pop itself; and the return of nullopt.
PopFront(t) ==
  /\ queue # <<>>
  /\ queue' = Tail(queue)
  /\ popped' = Append(popped, Head(queue))
  /\ notify_one(not_full, not_full', woken \ {t}, woken')
  /\ not_empty' = not_empty \ {t}
  /\ EndCall(t)
  /\ UNCHANGED closed

PopNothing(t) ==
  /\ queue = <<>>
  /\ woken' = woken \ {t}
  /\ not_empty' = not_empty \ {t}
  /\ EndCall(t)
  /\ UNCHANGED <<queue, closed, not_full, popped>>

PopLocked(t, op) ==
  \/ PopFront(t)
  \/ closed /\ PopNothing(t)
  \/ /\ ~closed /\ queue = <<>>
     /\ not_empty' = not_empty \cup {t}
     /\ woken' = woken \ {t}
     /\ call' = [call EXCEPT ![t] = [op |-> op, value |-> NoValue]]
     /\ UNCHANGED <<queue, closed, not_full, popped>>

-----------------------------------------------------------------------------

CallPush(t, op, x) ==
  /\ call[t] = NoCall
  /\ op \in Ops \cap PushOps
  /\ x \in unsent
  /\ unsent' = unsent \ {x}
  /\ PushLocked(t, op, x)
  /\ UNCHANGED swallowed

CallPop(t, op) ==
  /\ call[t] = NoCall
  /\ op \in Ops \cap PopOps
  /\ PopLocked(t, op)
  /\ UNCHANGED <<unsent, swallowed>>

\* A woken thread takes the mutex and looks again.
Resume(t) ==
  /\ t \in woken
  /\ \/ call[t].op \in PushOps /\ PushLocked(t, call[t].op, call[t].value)
     \/ call[t].op \in PopOps /\ PopLocked(t, call[t].op)
  /\ UNCHANGED <<unsent, swallowed>>

\* wait_until() reports the deadline, notified or not: the push returns
\* without a look at the queue, ...
PushTimeout(t) ==
  /\ call[t].op = "wait_push_until"
  /\ not_full' = not_full \ {t}
  /\ woken' = woken \ {t}
  /\ EndCall(t)
  /\ swallowed' = (swallowed \/ t \in woken)
  /\ UNCHANGED <<queue, closed, not_empty, unsent, popped>>

\* Variant: the timed pop does not look again either.
PopTimeoutBlind(t) ==
  /\ call[t].op = "wait_pop_until"
  /\ woken' = woken \ {t}
  /\ not_empty' = not_empty \ {t}
  /\ EndCall(t)
  /\ UNCHANGED <<queue, closed, not_full, unsent, popped, swallowed>>

\* ... the pop takes a value that has come in after all.
PopTimeout(t) ==
  /\ call[t].op = "wait_pop_until"
  /\ PopFront(t) \/ PopNothing(t)
  /\ UNCHANGED <<unsent, swallowed>>

SpuriousWakeup(t) ==
  /\ t \in not_full \cup not_empty
  /\ not_full' = not_full \ {t}
  /\ not_empty' = not_empty \ {t}
  /\ woken' = woken \cup {t}
  /\ UNCHANGED <<queue, closed, call, unsent, popped, swallowed>>

\* Variant: close() wakes the consumers only.
CloseWakesPoppers ==
  /\ ~closed
  /\ closed' = TRUE
  /\ woken' = woken \cup not_empty
  /\ not_empty' = {}
  /\ UNCHANGED <<queue, not_full, call, unsent, popped, swallowed>>

close ==
  /\ ~closed
  /\ closed' = TRUE
  /\ woken' = woken \cup not_full \cup not_empty
  /\ not_full' = {}
  /\ not_empty' = {}
  /\ UNCHANGED <<queue, call, unsent, popped, swallowed>>

QueueNext ==
  \/ \E t \in Threads, op \in PushOps, x \in Values : CallPush(t, op, x)
  \/ \E t \in Threads, op \in PopOps : CallPop(t, op)
  \/ \E t \in Threads : Resume(t)
  \/ \E t \in Threads : PushTimeout(t)
  \/ \E t \in Threads : PopTimeout(t)
  \/ \E t \in Threads : SpuriousWakeup(t)
  \/ close

QueueSpec == QueueInit /\ [][QueueNext]_queueVars

\* A woken thread gets the mutex in the end.
QueueFairness == \A t \in Threads : WF_queueVars(Resume(t))

QueueFairSpec == QueueSpec /\ QueueFairness

-----------------------------------------------------------------------------
(* Properties *)

QueueTypeOK ==
  /\ queue \in Seq(Values) /\ Len(queue) <= capacity
  /\ closed \in BOOLEAN
  /\ not_full \subseteq Threads
  /\ not_empty \subseteq Threads
  /\ woken \subseteq Threads
  /\ call \in [Threads -> [op : PushOps \cup PopOps \cup {"none"},
                         value : Values \cup {NoValue}]]
  /\ unsent \subseteq Values
  /\ popped \in Seq(Values)
  /\ swallowed \in BOOLEAN

WokenIn(ops) == {t \in woken : call[t].op \in ops}

\* No wakeup for values is lost: while a thread waits on not_empty_, at least
\* as many woken pops are on their way as there are values in the queue, timed
\* pops included (wait_pop_until() looks once more after its deadline).
PoppersWoken ==
  not_empty # {} => Cardinality(WokenIn(PopOps)) >= Len(queue)

\* No wakeup for room is lost: while a thread waits on not_full_, at least as
\* many woken pushes are on their way as there are free places.  The comment
\* on wait_push() promises it: it blocks while the queue is full and open.  It
\* holds until a wait_push_until() that was woken reports its deadline instead
\* of looking again; the wakeup it swallows is then missing for good.
PushersWoken ==
  ~swallowed /\ not_full # {} => Cardinality(WokenIn(PushOps)) >= capacity - Len(queue)

\* The comment on wait_push(): it blocks while the queue is full and open.  A
\* call that is blocked beside a free place is let in, unless others fill the
\* queue again.
BlocksWhileFull ==
  \A t \in Threads :
    call[t].op = "wait_push" /\ HasRoom ~> call[t] = NoCall \/ ~HasRoom

\* After close() every blocked call returns: close() wakes everyone and no
\* later call blocks.
CloseReleasesAll ==
  \A t \in Threads : closed /\ call[t] # NoCall ~> call[t] = NoCall

\* The queue implements the channel: what went in is what came out followed by
\* what is queued.
Channel == INSTANCE Fifo WITH sent <- popped \o queue, taken <- popped

\* Every step of the queue is a step of the channel or leaves it alone: values
\* come out in the order they went in, each once, none goes in after close()
\* and never more than capacity are held.
ImplementsFifo == Channel!Spec
=============================================================================
